------------------------------ MODULE RtcTime ------------------------------
(***************************************************************************)
(* RealTimeClockLib: LittleKernel's clock counts seconds from 1970 in 32   *)
(* bits, and UEFI's time services convert them to dates and back.  The     *)
(* units of time are constants, so that a day is short enough for TLC.     *)
(* Nanoseconds, which are checked and dropped, are left out.               *)
(***************************************************************************)
EXTENDS Integers

CONSTANTS
  SecPerMin, MinPerHour, HourPerDay,
  UintnSpace,   \* 2^32
  Unspecified,  \* EFI_UNSPECIFIED_TIMEZONE
  Times,        \* arguments of LibSetTime
  Moments,      \* bound: when the driver starts
  MaxCalls, MaxTicks, MaxResets   \* bounds of the environment

SEC_PER_HOUR == MinPerHour * SecPerMin
SEC_PER_DAY  == HourPerDay * SEC_PER_HOUR

ASSUME RtcAssumption ==
  /\ {SecPerMin, MinPerHour, HourPerDay} \subseteq Nat \ {0}
  /\ UintnSpace \in Nat \ {0} /\ Unspecified \notin Int
  /\ \A t \in Times : {t.year, t.month, t.day, t.hour, t.minute, t.second} \subseteq Nat
  /\ MaxCalls \in Nat /\ MaxTicks \in Nat /\ MaxResets \in Nat

(* The days of 1970 to 2105, the years that LibSetTime takes, and one day  *)
(* more, for a time zone, fit the counter: 2^32 seconds end in 2106.       *)
ASSUME CounterAssumption == 49674 * SEC_PER_DAY <= UintnSpace

VARIABLES
  rtc,        \* LittleKernel's clock
  TimeZone,   \* in minutes
  services,   \* LibRtcInitialize has put them into the table
  status,     \* what the last call returned
  asked,      \* history: its time, until the clock ticks
  budget      \* what is left of the environment's bounds

vars == <<rtc, TimeZone, services, status, asked, budget>>

Full     == [call |-> MaxCalls, tick |-> MaxTicks, reset |-> MaxResets]
Spend(k) == budget[k] > 0 /\ budget' = [budget EXCEPT ![k] = @ - 1]

-----------------------------------------------------------------------------
(* Conversions.                                                            *)

(* The date of a Julian day: years of 400, of 100, of 4 and single ones    *)
(* counted from a 1 March, the last of a cycle a day longer.               *)
CivilDate(J) ==
  LET j  == J + 32044
      dg == j % 146097
      c  == (((dg \div 36524) + 1) * 3) \div 4
      dc == dg - c * 36524
      db == dc % 1461
      a  == (((db \div 365) + 1) * 3) \div 4
      da == db - a * 365
      y  == (j \div 146097) * 400 + c * 100 + (dc \div 1461) * 4 + a
      m  == ((da * 5 + 308) \div 153) - 2
      d  == da - ((m + 4) * 153) \div 5 + 122
  IN [year |-> y - 4800 + (m + 2) \div 12, month |-> ((m + 2) % 12) + 1, day |-> d + 1]

EpochToEfiTime(s) ==
  LET date    == CivilDate(s \div SEC_PER_DAY + 2440588)
      minutes == s \div SecPerMin
  IN [year |-> date.year, month |-> date.month, day |-> date.day,
      hour |-> (minutes \div MinPerHour) % HourPerDay,
      minute |-> minutes % MinPerHour, second |-> s % SecPerMin]

(* Mutant of JulianDate: no year is divisible by 400.                      *)
JulianDateNo400(t) ==
  LET a == (14 - t.month) \div 12
      y == t.year + 4800 - a
      m == t.month + 12 * a - 3
  IN t.day + (153 * m + 2) \div 5 + 365 * y + y \div 4 - y \div 100 - 32045

JulianDate(t) ==
  LET a == (14 - t.month) \div 12
      y == t.year + 4800 - a
      m == t.month + 12 * a - 3
  IN t.day + (153 * m + 2) \div 5 + 365 * y + y \div 4 - y \div 100 + y \div 400 - 32045

EfiTimeToEpoch(t) ==
  LET days == JulianDate(t) - 2440588
  IN (days * SEC_PER_DAY + t.hour * SEC_PER_HOUR + t.minute * SecPerMin + t.second) % UintnSpace

IsLeapYear(t) == t.year % 4 = 0 /\ (t.year % 100 = 0 => t.year % 400 = 0)

(* Mutant of DayValid: every year has 29 February.                         *)
DayValidAnyYear(t) == t.day >= 1 /\ t.day <= <<31, 29, 31, 30, 31, 30, 31, 31, 30, 31, 30, 31>>[t.month]

DayValid(t) ==
  /\ t.day >= 1
  /\ t.day <= <<31, 29, 31, 30, 31, 30, 31, 31, 30, 31, 30, 31>>[t.month]
  /\ t.month = 2 /\ ~IsLeapYear(t) => t.day <= 28

-----------------------------------------------------------------------------
Init ==
  /\ rtc \in 0 .. UintnSpace - 1 /\ TimeZone = Unspecified /\ services = FALSE
  /\ status = "none" /\ asked = Unspecified
  /\ budget = Full

(* rtc_init may fail, and then there are no services.                      *)
LibRtcInitialize ==
  /\ rtc \in Moments /\ ~services
  /\ services' = TRUE
  /\ UNCHANGED <<rtc, TimeZone, status, asked, budget>>

(* LibGetTime changes nothing.                                             *)
LibGetTime == [time |-> EpochToEfiTime(rtc), zone |-> TimeZone]

(* Mutant of ValidParameters: a zone of any size.                          *)
ValidParametersAnyZone(t) ==
  /\ t.year >= 1900 /\ t.year <= 9999 /\ t.month \in 1 .. 12 /\ DayValid(t)
  /\ t.hour < HourPerDay /\ t.minute < MinPerHour /\ t.second < SecPerMin
  /\ t.daylight \subseteq {"adjust", "in"}

Zones == {Unspecified} \cup -(HourPerDay * MinPerHour) .. HourPerDay * MinPerHour

ValidParameters(t) ==
  /\ t.year >= 1900 /\ t.year <= 9999 /\ t.month \in 1 .. 12 /\ DayValid(t)
  /\ t.hour < HourPerDay /\ t.minute < MinPerHour /\ t.second < SecPerMin
  /\ t.zone \in Zones
  /\ t.daylight \subseteq {"adjust", "in"}

Supported(t) == t.year >= 1970 /\ t.year < 2106

(* What is subtracted for the zone and for daylight saving.                *)
Ahead(t) ==
  (IF t.zone = Unspecified THEN 0 ELSE t.zone * SecPerMin)
  + (IF "in" \in t.daylight THEN SEC_PER_HOUR ELSE 0)

(* Mutant of LibSetTime: the zone is kept before the clock is set.         *)
LibSetTimeZoneFirst(t) ==
  /\ services /\ Spend("call")
  /\ IF ValidParameters(t) /\ Supported(t)
       THEN /\ TimeZone' = t.zone
            /\ \/ /\ rtc' = (EfiTimeToEpoch(t) - Ahead(t)) % UintnSpace
                  /\ status' = "ok" /\ asked' = t
               \/ status' = "error" /\ UNCHANGED <<rtc, asked>>
       ELSE status' = "error" /\ UNCHANGED <<rtc, TimeZone, asked>>
  /\ UNCHANGED services

LibSetTime(t) ==
  /\ services /\ Spend("call")
  /\ \/ /\ ValidParameters(t) /\ Supported(t)
        /\ rtc' = (EfiTimeToEpoch(t) - Ahead(t)) % UintnSpace
        /\ TimeZone' = t.zone /\ status' = "ok" /\ asked' = t
     \/ \* a parameter is refused, or rtc_settime fails
        status' = "error" /\ UNCHANGED <<rtc, TimeZone, asked>>
  /\ UNCHANGED services

-----------------------------------------------------------------------------
(* LittleKernel's clock, which counts with and without the driver, and     *)
(* through resets.  Once the driver has started the ticks are bounded.     *)
Tick ==
  /\ rtc + 1 < UintnSpace
  /\ IF services \/ budget # Full THEN Spend("tick") ELSE UNCHANGED budget
  /\ rtc' = rtc + 1 /\ asked' = Unspecified
  /\ UNCHANGED <<TimeZone, services, status>>

Reset ==
  /\ services /\ Spend("reset")
  /\ services' = FALSE /\ TimeZone' = Unspecified /\ status' = "none" /\ asked' = Unspecified
  /\ UNCHANGED rtc

Next == LibRtcInitialize \/ Tick \/ Reset \/ \E t \in Times : LibSetTime(t)

Spec == Init /\ [][Next]_vars

-----------------------------------------------------------------------------
(* Properties.                                                             *)
Clock == INSTANCE Calendar WITH
           LastYear <- 2105, None <- Unspecified,
           now <- EpochToEfiTime(rtc), zone <- TimeZone

(* Types; and the zone that LibGetTime shows is one that UEFI allows,      *)
(* whatever the calls.                                                     *)
TypeOK ==
  /\ rtc \in 0 .. UintnSpace - 1 /\ TimeZone \in Zones
  /\ services \in BOOLEAN /\ status \in {"none", "ok", "error"}
  /\ asked \in Times \cup {Unspecified}

(* The conversions undo one another at every second that a UINT32 counts,  *)
(* the days of February 2106 among them.                                   *)
RoundTrips == EfiTimeToEpoch(EpochToEfiTime(rtc)) = rtc

(* Until the next tick, GetTime returns the date and time SetTime was      *)
(* given, if nothing was subtracted: no date that does not exist gets in,  *)
(* to become another one.                                                  *)
ReadsBack ==
  asked # Unspecified /\ Ahead(asked) = 0 =>
    /\ LibGetTime.zone = asked.zone
    /\ \A f \in {"year", "month", "day", "hour", "minute", "second"} :
         LibGetTime.time[f] = asked[f]

(* The services implement Calendar: the date follows the Gregorian         *)
(* calendar second by second for 136 years, a call sets it to the instant  *)
(* that days counted one by one give, and a call that fails leaves clock   *)
(* and zone as they were.                                                  *)
KeepsCalendar == Clock!Spec
=============================================================================
