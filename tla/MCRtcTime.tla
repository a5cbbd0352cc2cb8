----------------------------- MODULE MCRtcTime -----------------------------
(* An instance of RtcTime for TLC: a day of eight seconds, and as many     *)
(* days in a UINT32 as there really are.                                   *)
EXTENDS RtcTime

(* 49,710 days and a part of one, as 2^32 / 86,400.                        *)
Counter == 49710 * 8 + 3

(* The first second, one before a leap day, and one in 2106.               *)
Starts == {0, 11015 * 8 - 1, 49700 * 8}

(* Dates about the limits of years, months and the counter, some of which  *)
(* do not exist.                                                           *)
Dates == {<<1970, 1, 1>>, <<1970, 1, 3>>, <<1999, 2, 29>>, <<2000, 2, 29>>, <<2100, 2, 29>>,
          <<2100, 3, 1>>, <<2004, 2, 30>>, <<2001, 4, 31>>, <<2105, 12, 31>>, <<2106, 1, 1>>,
          <<1969, 12, 31>>, <<1980, 0, 1>>, <<1980, 13, 1>>, <<1980, 1, 0>>}

Time(d, c, z, dst) ==
  [year |-> d[1], month |-> d[2], day |-> d[3], hour |-> c[1], minute |-> c[2], second |-> c[3],
   zone |-> z, daylight |-> dst]

(* All of them at midnight and at other times; and, about the limits of    *)
(* the counter, all zones and flags, some of which do not exist either.    *)
MCTimes ==
  {Time(d, c, Unspecified, {}) : d \in Dates, c \in {<<0, 0, 0>>, <<1, 1, 1>>, <<2, 0, 0>>}}
    \cup {Time(d, <<1, 0, 1>>, z, dst) :
            d \in {<<1970, 1, 1>>, <<2000, 2, 29>>, <<2105, 12, 31>>},
            z \in {Unspecified, -4, 1, 5}, dst \in {{}, {"in"}, {"other"}}}
=============================================================================
