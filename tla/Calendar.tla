------------------------------ MODULE Calendar ------------------------------
(***************************************************************************)
(* A clock that shows the Gregorian date and the time of day from 1970 on. *)
(* It ticks by carrying from one field to the next, and it is set to a     *)
(* date that exists, less what takes a local time to the time it keeps.    *)
(***************************************************************************)
EXTENDS Integers, FiniteSets

CONSTANTS
  SecPerMin, MinPerHour, HourPerDay,
  LastYear,     \* the last year that a date may be set in
  Times,        \* what is asked for
  Ahead(_),     \* how many seconds it is ahead of the time that is kept
  None

VARIABLES
  now,          \* the date and time shown
  zone,         \* the time zone shown, or None
  asked         \* what it was set to, until it ticks

Leap(y) == y % 4 = 0 /\ (y % 100 = 0 => y % 400 = 0)

DaysIn(y, m) ==
  CASE m = 2 -> IF Leap(y) THEN 29 ELSE 28
    [] m \in {4, 6, 9, 11} -> 30
    [] OTHER -> 31

IsDate(t) ==
  /\ t.year \in 1970 .. LastYear /\ t.month \in 1 .. 12
  /\ t.day \in 1 .. DaysIn(t.year, t.month)
  /\ t.hour \in 0 .. HourPerDay - 1
  /\ t.minute \in 0 .. MinPerHour - 1 /\ t.second \in 0 .. SecPerMin - 1

(* The next second.                                                        *)
Successor(t) ==
  CASE t.second < SecPerMin - 1 -> [t EXCEPT !.second = @ + 1]
    [] OTHER ->
  CASE t.minute < MinPerHour - 1 -> [t EXCEPT !.second = 0, !.minute = @ + 1]
    [] OTHER ->
  CASE t.hour < HourPerDay - 1 -> [t EXCEPT !.second = 0, !.minute = 0, !.hour = @ + 1]
    [] OTHER ->
  LET midnight == [t EXCEPT !.second = 0, !.minute = 0, !.hour = 0]
  IN CASE t.day < DaysIn(t.year, t.month) -> [midnight EXCEPT !.day = @ + 1]
       [] OTHER ->
     CASE t.month < 12 -> [midnight EXCEPT !.day = 1, !.month = @ + 1]
       [] OTHER -> [midnight EXCEPT !.day = 1, !.month = 1, !.year = @ + 1]

(* Days before the first of a month, counted one by one.                   *)
YearStart(y)     == 365 * (y - 1970) + Cardinality({x \in 1970 .. y - 1 : Leap(x)})
MonthStart(y, m) ==
  YearStart(y) + Cardinality({x \in (1 .. m - 1) \X (1 .. 31) : x[2] <= DaysIn(y, x[1])})

(* Seconds from the beginning of 1970.                                     *)
Instant(t) ==
  LET hours   == (MonthStart(t.year, t.month) + t.day - 1) * HourPerDay + t.hour
      minutes == hours * MinPerHour + t.minute
  IN minutes * SecPerMin + t.second

-----------------------------------------------------------------------------
Init == now.year >= 1970 /\ zone = None /\ asked = None

Tick == now' = Successor(now) /\ asked' = None /\ UNCHANGED zone

(* Nothing is said of a time that falls before 1970.                       *)
Set(t) ==
  /\ asked' = t /\ zone' = t.zone
  /\ IsDate(t)
  /\ Instant(t) >= Ahead(t) => Instant(now') = Instant(t) - Ahead(t)

(* The clock goes on, the zone is forgotten.                               *)
Reset == zone' = None /\ asked' = None /\ UNCHANGED now

Next == Tick \/ Reset \/ \E t \in Times : Set(t)

Spec == Init /\ [][Next]_<<now, zone, asked>>
=============================================================================
