---------------------------- MODULE RtcTimeProofs ----------------------------
(***************************************************************************)
(* The conversions of RealTimeClockLib undo one another, for every second  *)
(* that a counter of any width holds and for any units of time, and for    *)
(* every date from 1970 to 2105.                                           *)
(***************************************************************************)
EXTENDS RtcTime, FiniteSetTheorems, TLAPS

(* Quotient and remainder, and that there are no others.                   *)
LEMMA DivMod ==
  ASSUME NEW n \in Nat, NEW k \in Nat \ {0}
  PROVE  n = k * (n \div k) + (n % k) /\ n % k \in 0 .. k - 1 /\ n \div k \in Nat
OBVIOUS

(* The quotient and the remainder of a number that is given by them.       *)
LEMMA Division ==
  ASSUME NEW k \in Nat \ {0}, NEW q \in Nat, NEW r \in 0 .. k - 1
  PROVE  (k * q + r) \div k = q /\ (k * q + r) % k = r
<1> k * q + r \in Nat
  OBVIOUS
<1> QED
  BY DivMod

(* The same for a number that is equal to one of that form.                *)
LEMMA Quotient ==
  ASSUME NEW k \in Nat \ {0}, NEW q \in Nat, NEW r \in Nat, r < k, NEW n, n = k * q + r
  PROVE  n \div k = q /\ n % k = r
<1>1. r \in 0 .. k - 1
  OBVIOUS
<1> QED
  BY <1>1, Division

-----------------------------------------------------------------------------
(* Days, months and years from March.                                      *)

(* The months from March begin where 153 days in five months put them, and *)
(* the day of the year from March gives them back.                         *)
LEMMA MonthRoundTrip ==
  ASSUME NEW m \in 0 .. 11, NEW d \in Nat,
         d < <<31, 30, 31, 30, 31, 31, 30, 31, 30, 31, 31, 29>>[m + 1]
  PROVE  LET da == d + (153 * m + 2) \div 5
         IN /\ da \in 0 .. 365 /\ (da = 365 => m = 11 /\ d = 28)
            /\ ((da * 5 + 308) \div 153) - 2 = m
            /\ (da - ((m + 4) * 153) \div 5) + 122 = d
<1>1. CASE m \in 0 .. 2
  BY <1>1, SMT
<1>2. CASE m \in 3 .. 5
  BY <1>2, SMT
<1>3. CASE m \in 6 .. 8
  BY <1>3, SMT
<1>4. CASE m \in 9 .. 11
  BY <1>4, SMT
<1> QED
  BY <1>1, <1>2, <1>3, <1>4, SMT

(* Any day of a year from March is one of a month.                         *)
MonthOf(da)      == ((da * 5 + 308) \div 153) - 2
DayOfMonth(da)   == (da - ((MonthOf(da) + 4) * 153) \div 5) + 122
LengthFromMarch  == <<31, 30, 31, 30, 31, 31, 30, 31, 30, 31, 31, 29>>

(* The day of the year from March gives its month and day of the month.    *)
LEMMA MonthFound ==
  ASSUME NEW da \in Nat, da <= 365
  PROVE  /\ MonthOf(da) \in 0 .. 11 /\ DayOfMonth(da) \in Nat
         /\ DayOfMonth(da) + (153 * MonthOf(da) + 2) \div 5 = da
         /\ DayOfMonth(da) < LengthFromMarch[MonthOf(da) + 1]
         /\ (MonthOf(da) = 11 /\ DayOfMonth(da) = 28 => da = 365)
<1> DEFINE m == MonthOf(da)   d == DayOfMonth(da)
<1>1. m = ((da * 5 + 308) \div 153) - 2 /\ d = (da - ((m + 4) * 153) \div 5) + 122
  BY DEF MonthOf, DayOfMonth
<1> HIDE DEF m, d
<1>2. m \in 0 .. 11 /\ da * 5 + 308 >= 153 * (m + 2) /\ da * 5 + 308 < 153 * (m + 3)
  BY <1>1, SMT
<1>3. /\ d \in Nat /\ d + (153 * m + 2) \div 5 = da /\ d < LengthFromMarch[m + 1]
      /\ (m = 11 /\ d = 28 => da = 365)
  <2>1. CASE m \in 0 .. 2
    BY <1>1, <1>2, <2>1, SMT DEF LengthFromMarch
  <2>2. CASE m \in 3 .. 5
    BY <1>1, <1>2, <2>2, SMT DEF LengthFromMarch
  <2>3. CASE m \in 6 .. 8
    BY <1>1, <1>2, <2>3, SMT DEF LengthFromMarch
  <2>4. CASE m \in 9 .. 11
    BY <1>1, <1>2, <2>4, SMT DEF LengthFromMarch
  <2> QED
    BY <1>2, <2>1, <2>2, <2>3, <2>4, SMT
<1> USE DEF m, d
<1> QED
  BY <1>2, <1>3

(* What CivilDate works out on the way: the day in its cycle of 400 years, *)
(* of 100 and of 4, and the day of the year.                               *)
DayOf400(j) == j % 146097
Century(j)  == (((DayOf400(j) \div 36524) + 1) * 3) \div 4
DayOf100(j) == DayOf400(j) - Century(j) * 36524
DayOf4(j)   == DayOf100(j) % 1461
YearOf4(j)  == (((DayOf4(j) \div 365) + 1) * 3) \div 4
DayOf1(j)   == DayOf4(j) - YearOf4(j) * 365
YearOf(j)   == (j \div 146097) * 400 + Century(j) * 100 + (DayOf100(j) \div 1461) * 4 + YearOf4(j)

(* Day da of year y from March; the last of 366 days is in leap years only. *)
DayOf(y, da)  == 365 * y + (y \div 4) - (y \div 100) + (y \div 400) + da
InYear(y, da) == da = 365 => y % 4 = 3 /\ (y % 100 = 99 => y % 400 = 399)

(* A year from March is split into its cycles, and they are found again.   *)
LEMMA YearRoundTrip ==
  ASSUME NEW y \in Nat, NEW da \in Nat, da <= 365, InYear(y, da)
  PROVE  DayOf1(DayOf(y, da)) = da /\ YearOf(DayOf(y, da)) = y
<1> DEFINE j  == DayOf(y, da)
           g  == y \div 400
           r  == y % 400
           c  == r \div 100
           r2 == r % 100
           b  == r2 \div 4
           a  == r2 % 4
<1>1. g \in Nat /\ r \in 0 .. 399 /\ y = 400 * g + r
  BY DivMod
<1> HIDE DEF g, r
<1>2. c \in 0 .. 3 /\ r2 \in 0 .. 99 /\ r = 100 * c + r2
  BY <1>1, SMT
<1> HIDE DEF c, r2
<1>3. b \in 0 .. 24 /\ a \in 0 .. 3 /\ r2 = 4 * b + a
  BY <1>2, SMT
<1> HIDE DEF b, a
<1>4. /\ y \div 4 = 100 * g + 25 * c + b /\ y \div 100 = 4 * g + c /\ y \div 400 = g
      /\ y % 4 = a /\ y % 100 = r2 /\ y % 400 = r
  BY <1>1, <1>2, <1>3, SMT DEF g, r
<1> DEFINE DB == 365 * a + da
           DC == 1461 * b + DB
           DG == 36524 * c + DC
<1>5. /\ DB = 365 * a + da
      /\ DC = 1461 * b + DB
      /\ DG = 36524 * c + DC
  OBVIOUS
<1>6. da \in 0 .. 365 /\ (da = 365 => a = 3 /\ (r2 = 99 => r = 399))
  BY <1>4 DEF InYear
<1>7. j = 146097 * g + DG
  BY <1>1, <1>2, <1>3, <1>4, SMT DEF DayOf
<1> HIDE DEF DB, DC, DG, j
<1>8. DB \in Nat /\ DB < 1461 /\ (DB = 1460 => da = 365 /\ a = 3)
  BY <1>3, <1>5, <1>6, SMT
<1>9. (((DB \div 365) + 1) * 3) \div 4 = a
  <2>1. CASE DB = 1460
    BY <1>8, <2>1, SMT
  <2>2. CASE DB # 1460
    <3>1. da \in Nat /\ da < 365 /\ a \in Nat /\ 365 \in Nat \ {0}
      BY <1>3, <1>5, <1>6, <2>2, SMT
    <3>2. DB = 365 * a + da
      BY <1>5
    <3>3. DB \div 365 = a
      BY <3>1, <3>2, Quotient
    <3> QED
      BY <1>3, <3>3, SMT
  <2> QED
    BY <2>1, <2>2
<1>10. DC \in Nat /\ DC <= 36524 /\ (DC = 36524 => b = 24 /\ DB = 1460)
  BY <1>3, <1>5, <1>8, SMT
<1>11. DC = 36524 => c = 3
  <2>1. DC = 36524 => r = 399
    BY <1>3, <1>6, <1>8, <1>10, SMT
  <2> QED
    BY <1>2, <2>1, SMT
<1>12. DC \div 1461 = b /\ DC % 1461 = DB
  <2> DEFINE k == 1461
  <2>1. k \in Nat \ {0} /\ b \in Nat /\ DB \in Nat /\ DB < k
    BY <1>3, <1>8
  <2>2. DC = k * b + DB
    BY <1>5
  <2> HIDE DEF k
  <2>3. DC \div k = b /\ DC % k = DB
    BY <2>1, <2>2, Quotient
  <2> QED
    BY <2>3 DEF k
<1>13. (((DG \div 36524) + 1) * 3) \div 4 = c
  <2>1. CASE DC = 36524
    <3>1. DG = 146096
      BY <1>5, <1>11, <2>1, SMT
    <3> QED
      BY <1>11, <2>1, <3>1, SMT
  <2>2. CASE DC # 36524
    <3>1. DC < 36524 /\ c \in Nat /\ 36524 \in Nat \ {0}
      BY <1>2, <1>10, <2>2, SMT
    <3>2. DG \div 36524 = c
      BY <1>5, <1>10, <3>1, Quotient
    <3> QED
      BY <1>2, <3>2, SMT
  <2> QED
    BY <2>1, <2>2
<1>14. DG \in Nat /\ DG < 146097
  BY <1>2, <1>5, <1>10, <1>11, SMT
<1>15. j \div 146097 = g /\ j % 146097 = DG
  <2> DEFINE k == 146097
  <2>1. k \in Nat \ {0} /\ g \in Nat /\ DG \in Nat /\ DG < k
    BY <1>1, <1>14
  <2>2. j = k * g + DG
    BY <1>7
  <2> HIDE DEF k
  <2>3. j \div k = g /\ j % k = DG
    BY <2>1, <2>2, Quotient
  <2> QED
    BY <2>3 DEF k
<1>17. DG - c * 36524 = DC /\ DB - a * 365 = da
  BY <1>2, <1>3, <1>5, <1>6, <1>8, <1>10, SMT
<1>18. g * 400 + c * 100 + b * 4 + a = y
  BY <1>1, <1>2, <1>3, SMT
<1> HIDE DEF a, b, c, g
<1>19. DayOf400(j) = DG
  BY <1>15 DEF DayOf400
<1>20. Century(j) = c
  BY <1>13, <1>19 DEF Century
<1>21. DayOf100(j) = DC
  BY <1>17, <1>19, <1>20 DEF DayOf100
<1>22. DayOf4(j) = DB
  BY <1>12, <1>21 DEF DayOf4
<1>23. YearOf4(j) = a
  BY <1>9, <1>22 DEF YearOf4
<1>24. DayOf1(j) = da
  BY <1>17, <1>22, <1>23 DEF DayOf1
<1>25. YearOf(j) = y
  BY <1>12, <1>15, <1>18, <1>20, <1>21, <1>23 DEF YearOf
<1> QED
  BY <1>24, <1>25 DEF j

(* Any day is one of a year from March.                                    *)
LEMMA YearFound ==
  ASSUME NEW j \in Nat
  PROVE  /\ YearOf(j) \in Nat /\ DayOf1(j) \in Nat /\ DayOf1(j) <= 365
         /\ InYear(YearOf(j), DayOf1(j)) /\ DayOf(YearOf(j), DayOf1(j)) = j
<1> DEFINE g  == j \div 146097
           dg == DayOf400(j)
           c  == Century(j)
           dc == DayOf100(j)
           b  == dc \div 1461
           db == DayOf4(j)
           a  == YearOf4(j)
           da == DayOf1(j)
           y  == YearOf(j)
<1>1. g \in Nat /\ dg \in Nat /\ dg < 146097 /\ j = 146097 * g + dg
  <2> DEFINE k == 146097
  <2>1. k \in Nat \ {0}
    OBVIOUS
  <2> HIDE DEF k
  <2>2. j = k * (j \div k) + (j % k) /\ j % k \in 0 .. k - 1 /\ j \div k \in Nat
    BY <2>1, DivMod
  <2>3. j % k \in Nat /\ j % k < k /\ j = k * (j \div k) + (j % k) /\ j \div k \in Nat
    BY <2>1, <2>2
  <2> QED
    BY <2>3 DEF k, DayOf400
<1>2. /\ c = (((dg \div 36524) + 1) * 3) \div 4 /\ dc = dg - c * 36524 /\ db = dc % 1461
      /\ a = (((db \div 365) + 1) * 3) \div 4 /\ da = db - a * 365
      /\ y = g * 400 + c * 100 + b * 4 + a
  BY DEF Century, DayOf100, DayOf4, YearOf4, DayOf1, YearOf
<1> HIDE DEF g, dg, c, dc, db, a, da, y
<1>3. c \in 0 .. 3 /\ dc \in Nat /\ dc <= 36524 /\ dg = 36524 * c + dc /\ (dc = 36524 => c = 3)
  <2> DEFINE q == dg \div 36524
  <2>1. q \in 0 .. 4 /\ dg >= 36524 * q /\ dg < 36524 * (q + 1)
    BY <1>1, SMT
  <2>2. c = ((q + 1) * 3) \div 4
    BY <1>2
  <2> HIDE DEF q
  <2>3. c = IF q = 4 THEN 3 ELSE q
    BY <2>1, <2>2, SMT
  <2>4. dc = dg - c * 36524
    BY <1>2
  <2> QED
    BY <1>1, <2>1, <2>3, <2>4, SMT
<1>4. b \in 0 .. 24 /\ db \in 0 .. 1460 /\ dc = 1461 * b + db
  <2>1. db = dc % 1461
    BY <1>2
  <2> QED
    BY <1>3, <2>1, SMT
<1> HIDE DEF b
<1>5. a \in 0 .. 3 /\ da \in 0 .. 365 /\ db = 365 * a + da /\ (da = 365 => a = 3)
  <2>1. a = (((db \div 365) + 1) * 3) \div 4 /\ da = db - a * 365
    BY <1>2
  <2> QED
    BY <1>4, <2>1, SMT
<1>6. y = 400 * g + 100 * c + 4 * b + a /\ y \in Nat
  <2>1. y = g * 400 + c * 100 + b * 4 + a
    BY <1>2
  <2>2. g \in Nat /\ c \in Nat /\ b \in Nat /\ a \in Nat
    BY <1>1, <1>3, <1>4, <1>5
  <2> QED
    BY <2>1, <2>2, SMT
<1>7. /\ y \div 4 = 100 * g + 25 * c + b /\ y % 4 = a
      /\ y \div 100 = 4 * g + c /\ y % 100 = 4 * b + a
      /\ y \div 400 = g /\ y % 400 = 100 * c + 4 * b + a
  <2>1. y = 4 * (100 * g + 25 * c + b) + a
    BY <1>1, <1>3, <1>4, <1>5, <1>6, SMT
  <2>2. y = 100 * (4 * g + c) + (4 * b + a) /\ 4 * b + a \in 0 .. 99
    BY <1>1, <1>3, <1>4, <1>5, <1>6, SMT
  <2>3. y = 400 * g + (100 * c + 4 * b + a) /\ 100 * c + 4 * b + a \in 0 .. 399
    BY <1>1, <1>3, <1>4, <1>5, <1>6, SMT
  <2> QED
    BY <2>1, <2>2, <2>3, <1>1, <1>3, <1>4, <1>5, <1>6, SMT
<1>8. InYear(y, da)
  <2>1. da = 365 /\ y % 100 = 99 => dc = 36524
    BY <1>3, <1>4, <1>5, <1>7, SMT
  <2>2. da = 365 /\ y % 100 = 99 => y % 400 = 399
    BY <1>3, <1>4, <1>5, <1>7, <2>1, SMT
  <2> QED
    BY <1>5, <1>7, <2>2 DEF InYear
<1>9. DayOf(y, da) = j
  <2>1. DayOf(y, da) = 365 * y + 97 * g + 24 * c + b + da
    BY <1>1, <1>3, <1>4, <1>5, <1>6, <1>7, SMT DEF DayOf
  <2> QED
    BY <1>1, <1>3, <1>4, <1>5, <1>6, <2>1, SMT
<1> USE DEF da, y
<1> QED
  BY <1>5, <1>6, <1>8, <1>9

(* Months and years from March, as JulianDate has them.                    *)
MarchLate(t)  == (14 - t.month) \div 12
MarchYear(t)  == t.year + 4800 - MarchLate(t)
MarchMonth(t) == t.month + 12 * MarchLate(t) - 3

(* A date that ValidParameters lets through, counted from March.           *)
LEMMA FromMarch ==
  ASSUME NEW t, t.year \in Nat, t.year >= 1900, t.month \in 1 .. 12, t.day \in Nat, DayValid(t)
  PROVE  /\ MarchLate(t) \in 0 .. 1 /\ MarchYear(t) \in Nat /\ MarchMonth(t) \in 0 .. 11
         /\ t.day - 1 \in Nat
         /\ MarchLate(t) = (MarchMonth(t) + 2) \div 12
         /\ t.month = ((MarchMonth(t) + 2) % 12) + 1
         /\ t.day - 1 < <<31, 30, 31, 30, 31, 31, 30, 31, 30, 31, 31, 29>>[MarchMonth(t) + 1]
         /\ (MarchMonth(t) = 11 /\ t.day - 1 = 28 =>
               MarchYear(t) % 4 = 3 /\ (MarchYear(t) % 100 = 99 => MarchYear(t) % 400 = 399))
<1> DEFINE Y == t.year   M == t.month   D == t.day
           a == MarchLate(t)   y == MarchYear(t)   m == MarchMonth(t)
<1>1. Y \in Nat /\ Y >= 1900 /\ M \in 1 .. 12 /\ D \in Nat
  OBVIOUS
<1>2. /\ D >= 1
      /\ D <= <<31, 29, 31, 30, 31, 30, 31, 31, 30, 31, 30, 31>>[M]
      /\ (M = 2 /\ ~(Y % 4 = 0 /\ (Y % 100 = 0 => Y % 400 = 0)) => D <= 28)
  BY DEF DayValid, IsLeapYear
<1>3. a = (14 - M) \div 12 /\ y = Y + 4800 - a /\ m = M + 12 * a - 3
  BY DEF MarchLate, MarchYear, MarchMonth
<1> HIDE DEF Y, M, D, a, y, m
<1>4. a \in 0 .. 1 /\ (a = 1 <=> M <= 2)
  BY <1>1, <1>3, SMT
<1>5. /\ y \in Nat /\ m \in 0 .. 11 /\ D - 1 \in Nat
      /\ M = ((m + 2) % 12) + 1 /\ a = (m + 2) \div 12
  BY <1>1, <1>2, <1>3, <1>4, SMT
<1>6. D - 1 < <<31, 30, 31, 30, 31, 31, 30, 31, 30, 31, 31, 29>>[m + 1]
  <2>1. CASE M \in 1 .. 3
    BY <1>1, <1>2, <1>3, <1>4, <2>1, SMT
  <2>2. CASE M \in 4 .. 6
    BY <1>1, <1>2, <1>3, <1>4, <2>2, SMT
  <2>3. CASE M \in 7 .. 9
    BY <1>1, <1>2, <1>3, <1>4, <2>3, SMT
  <2>4. CASE M \in 10 .. 12
    BY <1>1, <1>2, <1>3, <1>4, <2>4, SMT
  <2> QED
    BY <1>1, <2>1, <2>2, <2>3, <2>4, SMT
<1>7. ASSUME m = 11, D - 1 = 28
      PROVE  y % 4 = 3 /\ (y % 100 = 99 => y % 400 = 399)
  <2>1. M = 2 /\ a = 1 /\ D = 29
    BY <1>1, <1>3, <1>4, <1>7, SMT
  <2>2. Y % 4 = 0 /\ (Y % 100 = 0 => Y % 400 = 0)
    BY <1>2, <2>1, SMT
  <2>3. y = Y + 4799
    BY <1>1, <1>3, <2>1, SMT
  <2>4. y % 4 = 3
    BY <1>1, <2>2, <2>3, SMT
  <2>5. y % 100 = 99 => Y % 100 = 0
    BY <1>1, <2>3, SMT
  <2>6. Y % 400 = 0 => y % 400 = 399
    BY <1>1, <2>3, SMT
  <2> QED
    BY <2>2, <2>4, <2>5, <2>6
<1>8. /\ a \in 0 .. 1 /\ y \in Nat /\ m \in 0 .. 11
      /\ D - 1 \in Nat
      /\ a = (m + 2) \div 12
      /\ M = ((m + 2) % 12) + 1
      /\ D - 1 < <<31, 30, 31, 30, 31, 31, 30, 31, 30, 31, 31, 29>>[m + 1]
      /\ (m = 11 /\ D - 1 = 28 =>
            y % 4 = 3 /\ (y % 100 = 99 => y % 400 = 399))
  BY <1>4, <1>5, <1>6, <1>7
<1> USE DEF Y, M, D, a, y, m
<1> QED
  BY <1>8

(* JulianDate and CivilDate, in terms of the months from March.            *)
LEMMA JulianFromMarch ==
  ASSUME NEW t, t.year \in Nat, t.year >= 1900, t.month \in 1 .. 12, t.day \in Nat, DayValid(t)
  PROVE  JulianDate(t) + 32044 =
           365 * MarchYear(t) + (MarchYear(t) \div 4) - (MarchYear(t) \div 100)
             + (MarchYear(t) \div 400) + ((t.day - 1) + (153 * MarchMonth(t) + 2) \div 5)
<1> DEFINE y == MarchYear(t)   m == MarchMonth(t)   D == t.day
<1>1. JulianDate(t) = D + ((153 * m + 2) \div 5) + 365 * y + (y \div 4) - (y \div 100)
                        + (y \div 400) - 32045
  BY DEF JulianDate, MarchYear, MarchMonth, MarchLate
<1>2. y \in Nat /\ m \in 0 .. 11 /\ D \in Nat
  BY FromMarch
<1> HIDE DEF y, m, D
<1>3. JulianDate(t) + 32044 = 365 * y + (y \div 4) - (y \div 100)
             + (y \div 400) + ((D - 1) + (153 * m + 2) \div 5)
  BY <1>1, <1>2, SMT
<1> USE DEF y, m, D
<1> QED
  BY <1>3

(* CivilDate, in terms of years and months from March.                     *)
LEMMA CivilFromMarch ==
  ASSUME NEW J \in Nat
  PROVE  LET da == DayOf1(J + 32044)
         IN CivilDate(J) = [year  |-> YearOf(J + 32044) - 4800 + (MonthOf(da) + 2) \div 12,
                            month |-> ((MonthOf(da) + 2) % 12) + 1,
                            day   |-> DayOfMonth(da) + 1]
BY DEF CivilDate, YearOf, DayOf1, YearOf4, DayOf4, DayOf100, Century, DayOf400, MonthOf, DayOfMonth

(* The date of day d of month m of year y, all counted from 0 and from     *)
(* March.                                                                  *)
IsDateOf(t, y, m, d) ==
  t.year = y - 4800 + (m + 2) \div 12 /\ t.month = ((m + 2) % 12) + 1 /\ t.day = d + 1

FromMonth(m, d) == d + (153 * m + 2) \div 5

(* A date counted from March: what JulianDate computes from it.            *)
LEMMA DateFromMarch ==
  ASSUME NEW y \in Nat, NEW m \in 0 .. 11, NEW d \in Nat, NEW t, IsDateOf(t, y, m, d)
  PROVE  /\ MarchLate(t) = (m + 2) \div 12 /\ MarchYear(t) = y /\ MarchMonth(t) = m
         /\ t.month \in 1 .. 12 /\ t.year \in Int /\ t.day \in Nat
         /\ JulianDate(t) + 32044 = DayOf(y, FromMonth(m, d))
<1> USE DEF IsDateOf, FromMonth
<1>1. t.month \in 1 .. 12 /\ (m <= 9 => t.month = m + 3) /\ (m >= 10 => t.month = m - 9)
  BY SMT
<1>2. MarchLate(t) = (m + 2) \div 12
  BY <1>1, SMT DEF MarchLate
<1>3. MarchYear(t) = y
  BY <1>2, SMT DEF MarchYear
<1>4. MarchMonth(t) = m
  BY <1>1, <1>2, SMT DEF MarchMonth
<1>5. JulianDate(t) = t.day + ((153 * m + 2) \div 5) + 365 * y + (y \div 4) - (y \div 100)
                        + (y \div 400) - 32045
  BY <1>3, <1>4 DEF JulianDate, MarchYear, MarchMonth, MarchLate
<1>6. JulianDate(t) + 32044 = DayOf(y, FromMonth(m, d))
  BY <1>5, SMT DEF DayOf
<1>7. t.year \in Int /\ t.day \in Nat
  BY SMT
<1> QED
  BY <1>1, <1>2, <1>3, <1>4, <1>6, <1>7

(* The date of a day, converted back, is the day; and it is a date.        *)
LEMMA DayRoundTrip ==
  ASSUME NEW J \in Nat
  PROVE  /\ JulianDate(CivilDate(J)) = J
         /\ CivilDate(J).month \in 1 .. 12 /\ CivilDate(J).day \in Nat
         /\ CivilDate(J).year \in Int /\ DayValid(CivilDate(J))
         /\ J >= 2440588 => CivilDate(J).year \in Nat /\ CivilDate(J).year >= 1970
<1> DEFINE t  == CivilDate(J)
           j  == J + 32044
           y  == YearOf(j)
           da == DayOf1(j)
           m  == MonthOf(da)
           d  == DayOfMonth(da)
<1>1. t = [year |-> y - 4800 + (m + 2) \div 12, month |-> ((m + 2) % 12) + 1, day |-> d + 1]
  BY CivilFromMarch
<1>2. j \in Nat /\ j = J + 32044
  OBVIOUS
<1> HIDE DEF j, t
<1>3. y \in Nat /\ da \in Nat /\ da <= 365 /\ InYear(y, da) /\ DayOf(y, da) = j
  BY <1>2, YearFound
<1> HIDE DEF y, da
<1>5. /\ m \in 0 .. 11 /\ d \in Nat /\ d + (153 * m + 2) \div 5 = da
      /\ d < LengthFromMarch[m + 1] /\ (m = 11 /\ d = 28 => da = 365)
  BY <1>3, MonthFound
<1> HIDE DEF m, d
<1>6. /\ t.year = y - 4800 + (m + 2) \div 12 /\ t.month = ((m + 2) % 12) + 1 /\ t.day = d + 1
  BY <1>1
<1>7. /\ t.month \in 1 .. 12 /\ t.year \in Int /\ t.day \in Nat
      /\ JulianDate(t) + 32044 = DayOf(y, FromMonth(m, d))
  <2>1. IsDateOf(t, y, m, d)
    BY <1>6 DEF IsDateOf
  <2>2. y \in Nat /\ m \in 0 .. 11 /\ d \in Nat
    BY <1>3, <1>5
  <2> QED
    BY <2>1, <2>2, DateFromMarch
<1>8. JulianDate(t) = J
  <2>1. JulianDate(t) + 32044 = J + 32044
    BY <1>2, <1>3, <1>5, <1>7 DEF FromMonth
  <2>2. JulianDate(t) \in Int
    BY <1>7 DEF JulianDate
  <2> QED
    BY <2>1, <2>2
<1>9. DayValid(t)
  <2>1. t.day >= 1
    BY <1>5, <1>6
  <2>2. t.day <= <<31, 29, 31, 30, 31, 30, 31, 31, 30, 31, 30, 31>>[t.month]
    <3>1. CASE m \in 0 .. 5
      BY <1>5, <1>6, <3>1, SMT DEF LengthFromMarch
    <3>2. CASE m \in 6 .. 11
      BY <1>5, <1>6, <3>2, SMT DEF LengthFromMarch
    <3> QED
      BY <1>5, <3>1, <3>2, SMT
  <2>3. ASSUME t.month = 2, t.day > 28
        PROVE  IsLeapYear(t)
    <3>1. m = 11
      BY <1>5, <1>6, <2>3, SMT
    <3>2. d = 28
      BY <1>5, <1>6, <2>3, <3>1, SMT DEF LengthFromMarch
    <3>3. y % 4 = 3 /\ (y % 100 = 99 => y % 400 = 399)
      BY <1>3, <1>5, <3>1, <3>2 DEF InYear
    <3>4. t.year = y - 4799
      BY <1>3, <1>6, <3>1, SMT
    <3>5. t.year % 4 = 0
      BY <1>3, <3>3, <3>4, SMT
    <3>6. t.year % 100 = 0 => y % 100 = 99
      BY <1>3, <3>4, SMT
    <3>7. y % 400 = 399 => t.year % 400 = 0
      BY <1>3, <3>4, SMT
    <3> QED
      BY <3>3, <3>5, <3>6, <3>7 DEF IsLeapYear
  <2>4. t.month = 2 /\ ~IsLeapYear(t) => t.day <= 28
    BY <1>7, <2>3
  <2> QED
    BY <2>1, <2>2, <2>4 DEF DayValid
<1>10. ASSUME J >= 2440588 PROVE t.year \in Nat /\ t.year >= 1970
  <2>1. 365 * y + (y \div 4) - (y \div 100) + (y \div 400) + da >= 2472632
    BY <1>2, <1>3, <1>10 DEF DayOf
  <2>2. y >= 6769
    BY <1>3, <2>1, SMT
  <2>3. y = 6769 => da >= 306
    BY <1>3, <2>1, SMT
  <2>4. y = 6769 => m >= 10
    <3>1. CASE m \in 0 .. 4
      BY <1>5, <2>3, <3>1, SMT DEF LengthFromMarch
    <3>2. CASE m \in 5 .. 9
      BY <1>5, <2>3, <3>2, SMT DEF LengthFromMarch
    <3> QED
      BY <1>5, <3>1, <3>2, SMT
  <2> QED
    BY <1>3, <1>5, <1>6, <2>2, <2>4, SMT
<1> USE DEF t
<1> QED
  BY <1>7, <1>8, <1>9, <1>10

(* A date that there is, converted to a day and back, is the date.         *)
LEMMA DateRoundTrip ==
  ASSUME NEW t, t.year \in Nat, t.year >= 1900, t.month \in 1 .. 12, t.day \in Nat, DayValid(t)
  PROVE  CivilDate(JulianDate(t)) = [year |-> t.year, month |-> t.month, day |-> t.day]
<1> DEFINE j  == JulianDate(t) + 32044
           y  == MarchYear(t)
           m  == MarchMonth(t)
           d  == t.day - 1
           da == d + (153 * m + 2) \div 5
<1>1. /\ MarchLate(t) \in 0 .. 1 /\ y \in Nat /\ m \in 0 .. 11 /\ d \in Nat
      /\ d < <<31, 30, 31, 30, 31, 31, 30, 31, 30, 31, 31, 29>>[m + 1]
  BY FromMarch
<1>2. (m = 11 /\ d = 28 => y % 4 = 3 /\ (y % 100 = 99 => y % 400 = 399))
  BY FromMarch
<1>3. MarchLate(t) = (m + 2) \div 12 /\ t.month = ((m + 2) % 12) + 1
  BY FromMarch
<1>4. t.year = y - 4800 + MarchLate(t) /\ t.day = d + 1
  BY <1>1, SMTT(30) DEF MarchYear
<1>5. /\ da \in 0 .. 365 /\ (da = 365 => m = 11 /\ d = 28)
      /\ ((da * 5 + 308) \div 153) - 2 = m
      /\ (da - ((m + 4) * 153) \div 5) + 122 = d
  BY <1>1, MonthRoundTrip, SMTT(30)
<1>6. j = DayOf(y, da)
  BY JulianFromMarch DEF DayOf
<1> DEFINE mm == ((DayOf1(j) * 5 + 308) \div 153) - 2
           dd == DayOf1(j) - ((mm + 4) * 153) \div 5 + 122
<1>7. CivilDate(JulianDate(t)) =
        [year |-> YearOf(j) - 4800 + (mm + 2) \div 12, month |-> ((mm + 2) % 12) + 1, day |-> dd + 1]
  BY DEF CivilDate, YearOf, DayOf1, YearOf4, DayOf4, DayOf100, Century, DayOf400
<1> HIDE DEF y, m, d, da, j
<1>8. DayOf1(j) = da /\ YearOf(j) = y
  <2>1. InYear(y, da)
    BY <1>2, <1>5 DEF InYear
  <2>2. y \in Nat /\ da \in Nat /\ da <= 365
    BY <1>1, <1>5
  <2>3. DayOf1(DayOf(y, da)) = da /\ YearOf(DayOf(y, da)) = y
    BY <2>1, <2>2, YearRoundTrip
  <2> QED
    BY <2>3, <1>6
<1>9. mm = m /\ dd = d
  BY <1>5, <1>8
<1> HIDE DEF mm, dd
<1> QED
  BY <1>3, <1>4, <1>7, <1>8, <1>9

(* Days are counted from 1970, and up to 2105 there are 49,673.            *)
LEMMA DaysFrom1970 ==
  ASSUME NEW t, t.year \in Nat, t.year >= 1970, t.month \in 1 .. 12, t.day \in Nat, DayValid(t)
  PROVE  /\ JulianDate(t) \in Int /\ JulianDate(t) - 2440588 \in Nat
         /\ t.year < 2106 => JulianDate(t) - 2440588 <= 49672
<1> DEFINE a  == MarchLate(t)   y == MarchYear(t)   m == MarchMonth(t)   d == t.day - 1
           da == d + (153 * m + 2) \div 5
           j  == JulianDate(t) + 32044
           Y  == t.year
<1>1. Y \in Nat /\ Y >= 1970
  OBVIOUS
<1>2. /\ a \in 0 .. 1 /\ y \in Nat /\ m \in 0 .. 11 /\ d \in Nat /\ a = (m + 2) \div 12
      /\ d < <<31, 30, 31, 30, 31, 31, 30, 31, 30, 31, 31, 29>>[m + 1]
  BY <1>1, FromMarch
<1>3. y = Y + 4800 - a
  BY DEF MarchYear
<1>4. da \in 0 .. 365
  BY <1>2, MonthRoundTrip
<1>5. (m >= 10 => da >= 306) /\ (m <= 9 => da <= 305)
  <2>1. CASE m \in 0 .. 4
    BY <1>2, <2>1, SMT
  <2>2. CASE m \in 5 .. 9
    BY <1>2, <2>2, SMT
  <2>3. CASE m \in 10 .. 11
    BY <1>2, <2>3, SMT
  <2> QED
    BY <1>2, <2>1, <2>2, <2>3
<1>6. j = 365 * y + (y \div 4) - (y \div 100) + (y \div 400) + da
  BY <1>1, JulianFromMarch
<1>7. JulianDate(t) \in Int /\ j = JulianDate(t) + 32044
  <2>1. JulianDate(t) = t.day + ((153 * m + 2) \div 5) + 365 * y + (y \div 4) - (y \div 100)
                          + (y \div 400) - 32045
    BY DEF JulianDate, MarchYear, MarchMonth, MarchLate
  <2> HIDE DEF y, m
  <2> QED
    BY <1>2, <2>1, SMT
<1> HIDE DEF a, y, m, d, da, j, Y
<1>8. /\ y >= 6769 /\ (y = 6769 => da >= 306)
      /\ (Y < 2106 => y <= 6905 /\ (y = 6905 => da <= 305))
  BY <1>1, <1>2, <1>3, <1>5, SMT
<1>9. j >= 2472632
  <2>1. CASE y = 6769
    BY <1>4, <1>6, <1>8, <2>1, SMT
  <2>2. CASE y >= 6770
    BY <1>2, <1>4, <1>6, <2>2, SMT
  <2> QED
    BY <1>2, <1>8, <2>1, <2>2, SMT
<1>10. ASSUME Y < 2106 PROVE j <= 2522304
  <2>1. CASE y < 6900
    BY <1>2, <1>4, <1>6, <1>8, <2>1, SMT
  <2>2. CASE y >= 6900
    <3>1. y \div 100 = 69 /\ y \div 400 = 17 /\ y \div 4 <= 1726
      BY <1>2, <1>8, <1>10, <2>2, SMT
    <3> QED
      BY <1>2, <1>4, <1>6, <1>8, <1>10, <2>2, <3>1, SMT
  <2> QED
    BY <1>2, <2>1, <2>2, SMT
<1> USE DEF Y
<1> QED
  BY <1>7, <1>9, <1>10, SMT

(* Products, for the units of time.                                        *)
LEMMA Products ==
  ASSUME NEW a \in Nat, NEW b \in Nat, NEW c \in Nat
  PROVE  /\ a * b \in Nat /\ a * b = b * a /\ a * (b + c) = a * b + a * c
         /\ a * (b * c) = (a * b) * c
         /\ b <= c => a * b <= a * c
OBVIOUS

(* Hours, minutes and seconds are what is left of the day.                 *)
LEMMA Units ==
  ASSUME NEW S \in Nat \ {0}, NEW M \in Nat \ {0}, NEW H \in Nat \ {0}, NEW s \in Nat
  PROVE  LET day == H * (M * S)
         IN s = day * (s \div day) + (M * S) * (((s \div S) \div M) % H)
                + S * ((s \div S) % M) + (s % S)
<1> DEFINE q1 == s \div S   r1 == s % S
           q2 == q1 \div M  r2 == q1 % M
           q3 == q2 \div H  r3 == q2 % H
           hour == M * S    day == H * hour
           rest == hour * r3 + S * r2 + r1
<1>1. s = S * q1 + r1 /\ r1 \in 0 .. S - 1 /\ q1 \in Nat
  BY DivMod
<1>2. q1 = M * q2 + r2 /\ r2 \in 0 .. M - 1 /\ q2 \in Nat
  BY <1>1, DivMod
<1>3. q2 = H * q3 + r3 /\ r3 \in 0 .. H - 1 /\ q3 \in Nat
  BY <1>2, DivMod
<1>4. hour \in Nat \ {0} /\ day \in Nat \ {0}
  OBVIOUS
<1> HIDE DEF q1, q2, q3, r1, r2, r3, hour, day
<1>5. s = day * q3 + rest
  <2>1. S * q1 = S * (M * q2) + S * r2 /\ S * (M * q2) = (S * M) * q2
    BY <1>2, Products
  <2>2. S * M = hour
    BY Products DEF hour
  <2>3. hour * q2 = hour * (H * q3) + hour * r3 /\ hour * (H * q3) = (hour * H) * q3
    BY <1>3, <1>4, Products
  <2>4. hour * H = day
    BY <1>4, Products DEF day
  <2> QED
    BY <1>1, <2>1, <2>2, <2>3, <2>4, <1>2, <1>3, <1>4
<1>6. rest \in 0 .. day - 1
  <2>1. hour * r3 \in Nat /\ hour * r3 <= hour * (H - 1)
    BY <1>3, <1>4, Products
  <2>2. hour * (H - 1) = day - hour
    BY <1>4 DEF day
  <2>3. S * r2 \in Nat /\ S * r2 <= S * (M - 1)
    BY <1>2, Products
  <2>4. S * (M - 1) = hour - S
    BY DEF hour
  <2> QED
    BY <1>1, <1>2, <1>3, <1>4, <2>1, <2>2, <2>3, <2>4
<1>7. s \div day = q3
  BY <1>3, <1>4, <1>5, <1>6, Division
<1> QED
  BY <1>5, <1>7 DEF q1, q2, q3, r1, r2, r3, hour, day

(* Days, hours, minutes and seconds that are not too large are found again *)
(* in the seconds that they make.                                          *)
SecondsOf(S, M, H, n, h, i, c) == n * (H * (M * S)) + h * (M * S) + i * S + c

(* Division undoes the sum of days, hours, minutes and seconds.            *)
LEMMA UnitsBack ==
  ASSUME NEW S \in Nat \ {0}, NEW M \in Nat \ {0}, NEW H \in Nat \ {0},
         NEW n \in Nat, NEW h \in 0 .. H - 1, NEW i \in 0 .. M - 1, NEW c \in 0 .. S - 1
  PROVE  \A s : s = SecondsOf(S, M, H, n, h, i, c) =>
         /\ s \in Nat /\ s < (n + 1) * (H * (M * S)) /\ s \div (H * (M * S)) = n
         /\ ((s \div S) \div M) % H = h /\ (s \div S) % M = i /\ s % S = c
<1> SUFFICES ASSUME NEW s, s = n * (H * (M * S)) + h * (M * S) + i * S + c
             PROVE  /\ s \in Nat /\ s < (n + 1) * (H * (M * S)) /\ s \div (H * (M * S)) = n
                    /\ ((s \div S) \div M) % H = h /\ (s \div S) % M = i /\ s % S = c
  BY DEF SecondsOf
<1> DEFINE q3 == H * n + h   q2 == M * q3 + i
           hour == M * S     day == H * hour
           rest == h * hour + i * S + c
<1>1. q3 \in Nat /\ q3 \div H = n /\ q3 % H = h
  BY Division
<1>2. q2 \in Nat /\ q2 \div M = q3 /\ q2 % M = i
  BY <1>1, Division
<1>3. hour \in Nat \ {0} /\ day \in Nat \ {0}
  OBVIOUS
<1>4. s = S * q2 + c
  <2>1. S * q2 = S * (M * q3) + S * i /\ S * (M * q3) = (S * M) * q3
    BY <1>1, Products
  <2>2. S * M = hour
    BY Products
  <2>3. hour * q3 = hour * (H * n) + hour * h /\ hour * (H * n) = (hour * H) * n
    BY <1>3, Products
  <2>4. hour * H = day /\ day * n = n * day /\ hour * h = h * hour /\ S * i = i * S
    BY <1>3, Products
  <2>5. s = n * day + h * hour + i * S + c
    OBVIOUS
  <2> HIDE DEF q2, q3, day, hour
  <2>6. /\ day * n \in Nat /\ hour * h \in Nat /\ S * i \in Nat
    BY <1>3, Products
  <2> QED
    BY <2>1, <2>2, <2>3, <2>4, <2>5, <2>6
<1>5. s \in Nat /\ s \div S = q2 /\ s % S = c
  <2> HIDE DEF q2
  <2>1. (S * q2 + c) \div S = q2 /\ (S * q2 + c) % S = c
    BY <1>2, Division
  <2>2. S * q2 \in Nat
    BY <1>2
  <2>3. s \in Nat
    BY <1>4, <2>2
  <2>4. s \div S = q2 /\ s % S = c
    BY <1>4, <2>1, Zenon
  <2> QED
    BY <2>3, <2>4
<1>6. rest \in 0 .. day - 1
  <2>1. h * hour \in Nat /\ h * hour <= hour * (H - 1)
    BY <1>3, Products
  <2>2. hour * (H - 1) = day - hour
    BY <1>3
  <2>3. i * S \in Nat /\ i * S <= S * (M - 1)
    BY Products
  <2>4. S * (M - 1) = hour - S
    OBVIOUS
  <2> HIDE DEF day, hour
  <2> QED
    BY <1>3, <2>1, <2>2, <2>3, <2>4
<1>7. s = day * n + rest
  <2>1. day * n = n * day
    BY <1>3, Products
  <2> QED
    BY <2>1
<1> HIDE DEF q3, q2, day, rest
<1>8. s \div day = n
  BY <1>3, <1>6, <1>7, Division
<1>9. s < (n + 1) * day
  <2>1. (n + 1) * day = day * n + day
    BY <1>3
  <2>2. day * n \in Nat
    BY <1>3
  <2> QED
    BY <1>3, <1>6, <1>7, <2>1, <2>2
<1> QED
  BY <1>1, <1>2, <1>5, <1>8, <1>9 DEF day

(* A date from 1970 on and a time of day, and the seconds they stand for.   *)
IsTime(t) ==
  /\ t.year \in Nat /\ t.year >= 1970 /\ t.month \in 1 .. 12 /\ t.day \in Nat /\ DayValid(t)
  /\ t.hour \in 0 .. HourPerDay - 1 /\ t.minute \in 0 .. MinPerHour - 1
  /\ t.second \in 0 .. SecPerMin - 1

SecondsFrom1970(t) ==
  SecondsOf(SecPerMin, MinPerHour, HourPerDay,
            JulianDate(t) - 2440588, t.hour, t.minute, t.second)

(* The units of time are positive numbers, and so are their products.      *)
LEMMA UnitsAreNumbers ==
  /\ SecPerMin \in Nat \ {0} /\ MinPerHour \in Nat \ {0} /\ HourPerDay \in Nat \ {0}
  /\ SEC_PER_HOUR \in Nat \ {0} /\ SEC_PER_DAY \in Nat \ {0} /\ UintnSpace \in Nat \ {0}
  /\ SEC_PER_HOUR = MinPerHour * SecPerMin
  /\ SEC_PER_DAY = HourPerDay * (MinPerHour * SecPerMin)
BY RtcAssumption DEF SEC_PER_HOUR, SEC_PER_DAY

(* EfiTimeToEpoch is the number of seconds from 1970, in a UINTN.          *)
LEMMA EpochIsSeconds ==
  ASSUME NEW t
  PROVE  EfiTimeToEpoch(t) = SecondsFrom1970(t) % UintnSpace
BY DEF EfiTimeToEpoch, SecondsFrom1970, SecondsOf, SEC_PER_DAY, SEC_PER_HOUR

(* EpochToEfiTime shows a time, and the one that the seconds stand for.    *)
LEMMA TimeShown ==
  ASSUME NEW s \in Nat
  PROVE  IsTime(EpochToEfiTime(s)) /\ SecondsFrom1970(EpochToEfiTime(s)) = s
<1> DEFINE t == EpochToEfiTime(s)
           n == s \div SEC_PER_DAY
           J == n + 2440588
           h == ((s \div SecPerMin) \div MinPerHour) % HourPerDay
           i == (s \div SecPerMin) % MinPerHour
           c == s % SecPerMin
<1>1. n \in Nat
  BY UnitsAreNumbers, DivMod
<1>2. /\ t.year = CivilDate(J).year /\ t.month = CivilDate(J).month /\ t.day = CivilDate(J).day
      /\ t.hour = h /\ t.minute = i /\ t.second = c
  BY DEF EpochToEfiTime
<1>3. h \in 0 .. HourPerDay - 1 /\ i \in 0 .. MinPerHour - 1 /\ c \in 0 .. SecPerMin - 1
  BY UnitsAreNumbers, DivMod
<1>4. s = SEC_PER_DAY * n + SEC_PER_HOUR * h + SecPerMin * i + c
  <2>1. s = SEC_PER_DAY * (s \div SEC_PER_DAY)
            + SEC_PER_HOUR * (((s \div SecPerMin) \div MinPerHour) % HourPerDay)
            + SecPerMin * ((s \div SecPerMin) % MinPerHour) + (s % SecPerMin)
    <3>1. SecPerMin \in Nat \ {0} /\ MinPerHour \in Nat \ {0} /\ HourPerDay \in Nat \ {0}
      BY UnitsAreNumbers
    <3> QED
      BY <3>1, Units DEF SEC_PER_DAY, SEC_PER_HOUR
  <2> QED
    BY <2>1
<1> HIDE DEF t, n, h, i, c
<1>5. /\ JulianDate(CivilDate(J)) = J
      /\ CivilDate(J).month \in 1 .. 12 /\ CivilDate(J).day \in Nat /\ DayValid(CivilDate(J))
      /\ CivilDate(J).year \in Nat /\ CivilDate(J).year >= 1970
  <2>1. J \in Nat /\ J >= 2440588
    BY <1>1
  <2> HIDE DEF J
  <2> QED
    BY <2>1, DayRoundTrip
<1>6. IsTime(t)
  <2>1. DayValid(t)
    BY <1>2, <1>5 DEF DayValid, IsLeapYear
  <2> QED
    BY <1>2, <1>3, <1>5, <2>1 DEF IsTime
<1>7. JulianDate(t) = J
  BY <1>2, <1>5 DEF JulianDate
<1>8. JulianDate(t) - 2440588 = n
  BY <1>1, <1>7
<1>9. SecondsOf(SecPerMin, MinPerHour, HourPerDay, n, h, i, c) = s
  <2>1. n * SEC_PER_DAY = SEC_PER_DAY * n /\ h * SEC_PER_HOUR = SEC_PER_HOUR * h
        /\ i * SecPerMin = SecPerMin * i
    BY <1>1, <1>3, UnitsAreNumbers, Products
  <2>2. s = n * SEC_PER_DAY + h * SEC_PER_HOUR + i * SecPerMin + c
    BY <1>4, <2>1
  <2> QED
    BY <2>2 DEF SecondsOf, SEC_PER_DAY, SEC_PER_HOUR
<1>10. SecondsFrom1970(t) = s
  BY <1>2, <1>8, <1>9 DEF SecondsFrom1970
<1> USE DEF t
<1> QED
  BY <1>6, <1>10

(* What EpochToEfiTime makes of the seconds that a time stands for.        *)
LEMMA SecondsBack ==
  ASSUME NEW t, IsTime(t)
  PROVE  /\ SecondsFrom1970(t) \in Nat
         /\ EpochToEfiTime(SecondsFrom1970(t)) =
              [year |-> t.year, month |-> t.month, day |-> t.day,
               hour |-> t.hour, minute |-> t.minute, second |-> t.second]
         /\ t.year < 2106 => SecondsFrom1970(t) < 49673 * SEC_PER_DAY
<1> DEFINE n == JulianDate(t) - 2440588
           s == SecondsFrom1970(t)
           S == SecPerMin   M == MinPerHour   H == HourPerDay
           h == t.hour      i == t.minute     c == t.second
<1>1. JulianDate(t) \in Int /\ n \in Nat /\ (t.year < 2106 => n <= 49672)
  BY DaysFrom1970 DEF IsTime
<1>2. /\ S \in Nat \ {0} /\ M \in Nat \ {0} /\ H \in Nat \ {0}
      /\ h \in 0 .. H - 1 /\ i \in 0 .. M - 1 /\ c \in 0 .. S - 1
  BY UnitsAreNumbers DEF IsTime
<1>3. s = SecondsOf(S, M, H, n, h, i, c)
  BY DEF SecondsFrom1970
<1>4. JulianDate(t) = n + 2440588
  BY <1>1
<1> HIDE DEF n, s, S, M, H, h, i, c
<1>5. /\ s \in Nat /\ s < (n + 1) * (H * (M * S)) /\ s \div (H * (M * S)) = n
      /\ ((s \div S) \div M) % H = h /\ (s \div S) % M = i /\ s % S = c
  BY <1>1, <1>2, <1>3, UnitsBack, SMTT(30)
<1>6. CivilDate(n + 2440588) = [year |-> t.year, month |-> t.month, day |-> t.day]
  <2>1. t.year \in Nat /\ t.year >= 1900 /\ t.month \in 1 .. 12 /\ t.day \in Nat /\ DayValid(t)
    BY DEF IsTime
  <2> QED
    BY <1>4, <2>1, DateRoundTrip
<1>7. EpochToEfiTime(s) = [year |-> t.year, month |-> t.month, day |-> t.day,
                           hour |-> t.hour, minute |-> t.minute, second |-> t.second]
  <2> USE DEF S, M, H, h, i, c
  <2>1. s \div SEC_PER_DAY = n
    BY <1>5, UnitsAreNumbers
  <2>2. /\ ((s \div SecPerMin) \div MinPerHour) % HourPerDay = t.hour
        /\ (s \div SecPerMin) % MinPerHour = t.minute /\ s % SecPerMin = t.second
    BY <1>5
  <2> QED
    BY <1>6, <2>1, <2>2 DEF EpochToEfiTime
<1>8. ASSUME t.year < 2106 PROVE s < 49673 * SEC_PER_DAY
  <2>1. s < (n + 1) * SEC_PER_DAY
    BY <1>5, UnitsAreNumbers DEF S, M, H
  <2> DEFINE D == SEC_PER_DAY
  <2>2. D \in Nat
    BY UnitsAreNumbers
  <2> HIDE DEF D
  <2>3. n \in Nat /\ n <= 49672
    BY <1>1, <1>8
  <2>4. (n + 1) * D \in Nat /\ (n + 1) * D <= 49673 * D
    <3>1. D * (n + 1) <= D * 49673 /\ D * (n + 1) = (n + 1) * D /\ D * 49673 = 49673 * D
          /\ D * (n + 1) \in Nat
      BY <2>2, <2>3, Products
    <3> QED
      BY <3>1
  <2> QED
    BY <1>5, <2>1, <2>2, <2>4 DEF D
<1> USE DEF s
<1> QED
  BY <1>5, <1>7, <1>8

(* EfiTimeToEpoch undoes EpochToEfiTime.                                   *)
LEMMA RoundTrip ==
  ASSUME NEW s \in 0 .. UintnSpace - 1
  PROVE  EfiTimeToEpoch(EpochToEfiTime(s)) = s
<1>1. s \in Nat /\ s % UintnSpace = s
  BY UnitsAreNumbers
<1> QED
  BY <1>1, EpochIsSeconds, TimeShown

(* EpochToEfiTime undoes EfiTimeToEpoch, for the times that LibSetTime     *)
(* takes.                                                                  *)
LEMMA TimeRoundTrip ==
  ASSUME NEW t \in Times, ValidParameters(t), Supported(t)
  PROVE  /\ IsTime(t) /\ EfiTimeToEpoch(t) \in 0 .. UintnSpace - 1
         /\ EfiTimeToEpoch(t) = SecondsFrom1970(t)
         /\ EpochToEfiTime(EfiTimeToEpoch(t)) =
              [year |-> t.year, month |-> t.month, day |-> t.day,
               hour |-> t.hour, minute |-> t.minute, second |-> t.second]
<1>1. /\ t.year \in Nat /\ t.month \in Nat /\ t.day \in Nat
      /\ t.hour \in Nat /\ t.minute \in Nat /\ t.second \in Nat
  BY RtcAssumption
<1>2. /\ t.month \in 1 .. 12 /\ DayValid(t)
      /\ t.hour < HourPerDay /\ t.minute < MinPerHour /\ t.second < SecPerMin
  BY DEF ValidParameters
<1>3. t.year >= 1970 /\ t.year < 2106
  BY DEF Supported
<1>4. IsTime(t)
  BY <1>1, <1>2, <1>3, UnitsAreNumbers DEF IsTime
<1>5. SecondsFrom1970(t) \in Nat /\ SecondsFrom1970(t) < 49673 * SEC_PER_DAY
  BY <1>3, <1>4, SecondsBack
<1>6. 49673 * SEC_PER_DAY <= UintnSpace /\ 49673 * SEC_PER_DAY \in Nat
  BY CounterAssumption, UnitsAreNumbers
<1>7. SecondsFrom1970(t) \in 0 .. UintnSpace - 1
  BY <1>5, <1>6, UnitsAreNumbers
<1>8. EfiTimeToEpoch(t) = SecondsFrom1970(t)
  BY <1>7, EpochIsSeconds, UnitsAreNumbers
<1> QED
  BY <1>4, <1>7, <1>8, SecondsBack

(* What LibSetTime hands to LittleKernel, before it is cut to 32 bits.      *)
LEMMA SecondsAreNumbers ==
  ASSUME NEW t \in Times, t.zone \in Zones
  PROVE  EfiTimeToEpoch(t) - Ahead(t) \in Int
<1>1. /\ SecPerMin \in Nat \ {0} /\ MinPerHour \in Nat \ {0} /\ HourPerDay \in Nat \ {0}
      /\ UintnSpace \in Nat \ {0}
      /\ t.year \in Nat /\ t.month \in Nat /\ t.day \in Nat
      /\ t.hour \in Nat /\ t.minute \in Nat /\ t.second \in Nat
  BY RtcAssumption
<1>2. SEC_PER_HOUR \in Nat /\ SEC_PER_DAY \in Nat
  BY <1>1 DEF SEC_PER_HOUR, SEC_PER_DAY
<1>3. JulianDate(t) \in Int
  <2> DEFINE a == (14 - t.month) \div 12
             y == t.year + 4800 - a
             m == t.month + 12 * a - 3
  <2>1. a \in Int /\ y \in Int /\ m \in Int
    BY <1>1, SMT
  <2> HIDE DEF a, y, m
  <2>2. t.day + ((153 * m + 2) \div 5) + 365 * y + (y \div 4) - (y \div 100) + (y \div 400) - 32045
          \in Int
    BY <1>1, <2>1, SMT
  <2> QED
    BY <2>2, SMT DEF JulianDate, a, y, m
<1>4. EfiTimeToEpoch(t) \in Int
  BY <1>1, <1>2, <1>3, SMT DEF EfiTimeToEpoch
<1>5. Ahead(t) \in Int
  BY <1>1, <1>2 DEF Ahead, Zones
<1> QED
  BY <1>4, <1>5

(* The clock stays in its 32 bits, and the zone is one that UEFI allows,   *)
(* whatever is asked for.                                                  *)
THEOREM TypeCorrect == Spec => []TypeOK
<1>1. Init => TypeOK
  BY RtcAssumption DEF Init, TypeOK, Zones
<1>2. TypeOK /\ [Next]_vars => TypeOK'
  <2> SUFFICES ASSUME TypeOK, [Next]_vars PROVE TypeOK'
    OBVIOUS
  <2>1. CASE LibRtcInitialize
    BY <2>1 DEF LibRtcInitialize, TypeOK
  <2>2. CASE Tick
    BY <2>2, RtcAssumption DEF Tick, TypeOK
  <2>3. CASE Reset
    BY <2>3 DEF Reset, TypeOK, Zones
  <2>4. ASSUME NEW t \in Times, LibSetTime(t) PROVE TypeOK'
    <3>1. CASE status' = "ok"
      <4>1. /\ t.zone \in Zones /\ TimeZone' = t.zone /\ asked' = t /\ UNCHANGED services
            /\ rtc' = (EfiTimeToEpoch(t) - Ahead(t)) % UintnSpace
        BY <2>4, <3>1 DEF LibSetTime, ValidParameters
      <4>2. EfiTimeToEpoch(t) - Ahead(t) \in Int
        BY <4>1, SecondsAreNumbers
      <4>3. rtc' \in 0 .. UintnSpace - 1
        BY <4>1, <4>2, RtcAssumption
      <4> QED
        BY <4>1, <4>3, <3>1 DEF TypeOK
    <3>2. CASE status' = "error"
      BY <2>4, <3>2 DEF LibSetTime, TypeOK
    <3> QED
      BY <2>4, <3>1, <3>2 DEF LibSetTime
  <2>5. CASE UNCHANGED vars
    BY <2>5 DEF vars, TypeOK
  <2> QED
    BY <2>1, <2>2, <2>3, <2>4, <2>5 DEF Next
<1> QED
  BY <1>1, <1>2, PTL DEF Spec

(* Every second that the clock counts is converted to a date and back      *)
(* without loss, for any width of the counter and any units of time.       *)
THEOREM RoundTripsAlways == Spec => []RoundTrips
<1>1. TypeOK => RoundTrips
  BY RoundTrip DEF TypeOK, RoundTrips
<1> QED
  BY <1>1, TypeCorrect, PTL

(* Until the next tick the clock is what the time that was asked for makes *)
(* of it, and only times that pass the checks are asked for.               *)
AskedInv ==
  asked # Unspecified =>
    /\ asked \in Times /\ ValidParameters(asked) /\ Supported(asked)
    /\ TimeZone = asked.zone
    /\ rtc = (EfiTimeToEpoch(asked) - Ahead(asked)) % UintnSpace

(* AskedInv holds in every state.                                          *)
LEMMA AskedAlways == Spec => []AskedInv
<1>1. Init => AskedInv
  BY DEF Init, AskedInv
<1>2. AskedInv /\ [Next]_vars => AskedInv'
  <2> SUFFICES ASSUME AskedInv, [Next]_vars PROVE AskedInv'
    OBVIOUS
  <2>1. CASE LibRtcInitialize
    BY <2>1 DEF LibRtcInitialize, AskedInv
  <2>2. CASE Tick
    BY <2>2 DEF Tick, AskedInv
  <2>3. CASE Reset
    BY <2>3 DEF Reset, AskedInv
  <2>4. ASSUME NEW t \in Times, LibSetTime(t) PROVE AskedInv'
    <3>1. CASE UNCHANGED <<rtc, TimeZone, asked>>
      BY <3>1 DEF AskedInv
    <3>2. CASE /\ ValidParameters(t) /\ Supported(t)
               /\ rtc' = (EfiTimeToEpoch(t) - Ahead(t)) % UintnSpace
               /\ TimeZone' = t.zone /\ asked' = t
      BY <3>2 DEF AskedInv
    <3> QED
      BY <2>4, <3>1, <3>2 DEF LibSetTime
  <2>5. CASE UNCHANGED vars
    BY <2>5 DEF vars, AskedInv
  <2> QED
    BY <2>1, <2>2, <2>3, <2>4, <2>5 DEF Next
<1> QED
  BY <1>1, <1>2, PTL DEF Spec

(* Until the next tick, GetTime returns the date, time and zone that       *)
(* SetTime was given: every date of 1970 to 2105 that there is comes back  *)
(* as itself, through EfiTimeToEpoch, the UINT32 and EpochToEfiTime.       *)
THEOREM DateReadBack == Spec => []ReadsBack
<1>1. AskedInv => ReadsBack
  <2> SUFFICES ASSUME AskedInv, asked # Unspecified, Ahead(asked) = 0
               PROVE  /\ LibGetTime.zone = asked.zone
                      /\ \A f \in {"year", "month", "day", "hour", "minute", "second"} :
                           LibGetTime.time[f] = asked[f]
    BY DEF ReadsBack
  <2>1. /\ asked \in Times /\ ValidParameters(asked) /\ Supported(asked)
        /\ TimeZone = asked.zone /\ rtc = (EfiTimeToEpoch(asked) - 0) % UintnSpace
    BY DEF AskedInv
  <2>2. /\ EfiTimeToEpoch(asked) \in 0 .. UintnSpace - 1
        /\ EpochToEfiTime(EfiTimeToEpoch(asked)) =
             [year |-> asked.year, month |-> asked.month, day |-> asked.day,
              hour |-> asked.hour, minute |-> asked.minute, second |-> asked.second]
    BY <2>1, TimeRoundTrip
  <2>3. rtc = EfiTimeToEpoch(asked)
    BY <2>1, <2>2, RtcAssumption
  <2>4. LibGetTime.time = EpochToEfiTime(rtc) /\ LibGetTime.zone = TimeZone
    BY DEF LibGetTime
  <2> QED
    BY <2>1, <2>2, <2>3, <2>4
<1> QED
  BY <1>1, AskedAlways, PTL

-----------------------------------------------------------------------------
(* Calendar counts its days one by one.                                    *)

(* The multiples of k from a to b.                                         *)
MultiplesOf(k, a, b) == {x \in a .. b : x % k = 0}
Bounds(k, a, b)      == k \in Nat \ {0} /\ a \in Nat \ {0} /\ b \in Nat /\ b >= a - 1
Counts(S, n)         == IsFiniteSet(S) /\ Cardinality(S) = n

(* How many multiples of k there are from a to b.                          *)
LEMMA Multiples ==
  ASSUME NEW k, NEW a, NEW b, Bounds(k, a, b)
  PROVE  Counts(MultiplesOf(k, a, b), (b \div k) - ((a - 1) \div k))
<1>0. k \in Nat \ {0} /\ a \in Nat \ {0} /\ b \in Nat /\ b >= a - 1
  BY DEF Bounds
<1> USE <1>0
<1> DEFINE A == (a - 1) \div k   B == b \div k
           T == {x \in a .. b : x % k = 0}
           f == [n \in A + 1 .. B |-> k * n]
<1>1. A \in Nat /\ a - 1 >= k * A /\ a - 1 < k * A + k
  <2>1. a - 1 \in Nat
    OBVIOUS
  <2>2. a - 1 = k * A + ((a - 1) % k) /\ (a - 1) % k \in 0 .. k - 1 /\ A \in Nat
    BY <2>1, DivMod
  <2>3. k * A \in Nat
    BY <2>2
  <2> HIDE DEF A
  <2> QED
    BY <2>2, <2>3
<1>2. B \in Nat /\ b >= k * B /\ b < k * B + k
  <2>1. b = k * B + (b % k) /\ b % k \in 0 .. k - 1 /\ B \in Nat
    BY DivMod
  <2>2. k * B \in Nat
    BY <2>1
  <2> HIDE DEF B
  <2> QED
    BY <2>1, <2>2
<1> HIDE DEF A, B
<1>3. \A m, n \in Nat : m < n => k * m + k <= k * n /\ k * m \in Nat /\ k * n \in Nat
  <2> SUFFICES ASSUME NEW m \in Nat, NEW n \in Nat, m < n
               PROVE  k * m + k <= k * n /\ k * m \in Nat /\ k * n \in Nat
    OBVIOUS
  <2>1. k * (m + 1) <= k * n
    BY Products
  <2>2. k * (m + 1) = k * m + k
    OBVIOUS
  <2> QED
    BY <2>1, <2>2
<1>4. A <= B
  <2>1. CASE B < A
    <3>1. k * B + k <= k * A /\ k * B \in Nat /\ k * A \in Nat
      BY <1>1, <1>2, <1>3, <2>1
    <3> QED
      BY <1>1, <1>2, <3>1
  <2> QED
    BY <1>1, <1>2, <2>1
<1>5. \A n \in A + 1 .. B : k * n \in T
  <2> SUFFICES ASSUME NEW n \in A + 1 .. B PROVE k * n \in T
    OBVIOUS
  <2>1. n \in Nat /\ A < n /\ n <= B
    BY <1>1, <1>2
  <2>2. k * A + k <= k * n /\ k * n \in Nat /\ k * A \in Nat /\ k * n <= k * B /\ k * B \in Nat
    BY <1>1, <1>2, <1>3, <2>1, Products
  <2>3. (k * n + 0) % k = 0
    <3>1. k \in Nat \ {0} /\ n \in Nat /\ 0 \in 0 .. k - 1
      BY <2>1
    <3> QED
      BY ONLY <3>1, Division
  <2> QED
    BY <1>1, <1>2, <2>2, <2>3
<1>6. \A x \in T : \E n \in A + 1 .. B : k * n = x
  <2> SUFFICES ASSUME NEW x \in T PROVE \E n \in A + 1 .. B : k * n = x
    OBVIOUS
  <2> DEFINE n == x \div k
  <2>1. x \in Nat /\ x >= a /\ x <= b /\ x % k = 0
    OBVIOUS
  <2>2. x = k * n + (x % k) /\ n \in Nat
    BY <2>1, DivMod
  <2>3. x = k * n
    BY <2>1, <2>2
  <2> HIDE DEF n
  <2>4. A < n
    <3>1. CASE n <= A
      <4>1. k * n <= k * A /\ k * A \in Nat
        BY <1>1, <2>2, <3>1, Products
      <4> QED
        BY <1>1, <2>1, <2>3, <4>1
    <3> QED
      BY <1>1, <2>2, <3>1
  <2>5. n <= B
    <3>1. CASE B < n
      <4>1. k * B + k <= k * n /\ k * B \in Nat
        BY <1>2, <1>3, <2>2, <3>1
      <4> QED
        BY <1>2, <2>1, <2>3, <4>1
    <3> QED
      BY <1>2, <2>2, <3>1
  <2> QED
    BY <1>1, <1>2, <2>2, <2>3, <2>4, <2>5
<1>7. \A m, n \in A + 1 .. B : k * m = k * n => m = n
  <2> SUFFICES ASSUME NEW m \in A + 1 .. B, NEW n \in A + 1 .. B, k * m = k * n, m # n
               PROVE  FALSE
    OBVIOUS
  <2>1. m \in Nat /\ n \in Nat /\ (m < n \/ n < m)
    BY <1>1, <1>2
  <2> QED
    BY <1>3, <2>1
<1> HIDE DEF T
<1>8. f \in Bijection(A + 1 .. B, T)
  <2> DEFINE I == A + 1 .. B
  <2>1. f = [n \in I |-> k * n] /\ (\A n \in I : k * n \in T)
    BY <1>5
  <2>2. (\A x \in T : \E n \in I : k * n = x) /\ (\A m, n \in I : k * m = k * n => m = n)
    BY <1>6, <1>7
  <2> HIDE DEF f, I
  <2>3. f \in [I -> T] /\ (\A n \in I : f[n] = k * n)
    BY <2>1
  <2>4. f \in Injection(I, T)
    BY <2>2, <2>3 DEF Injection, IsInjective
  <2>5. f \in Surjection(I, T)
    BY <2>2, <2>3 DEF Surjection
  <2> QED
    BY <2>4, <2>5 DEF Bijection, I
<1>9. IsFiniteSet(A + 1 .. B) /\ Cardinality(A + 1 .. B) = B - A
  <2>1. A + 1 \in Int /\ B \in Int
    BY <1>1, <1>2
  <2>2. /\ IsFiniteSet(A + 1 .. B)
        /\ Cardinality(A + 1 .. B) = IF A + 1 > B THEN 0 ELSE B - (A + 1) + 1
    BY <2>1, FS_Interval
  <2> QED
    BY <1>1, <1>2, <1>4, <2>2
<1>10. ExistsBijection(A + 1 .. B, T)
  BY <1>8 DEF ExistsBijection
<1>11. IsFiniteSet(T) /\ Cardinality(T) = B - A
  BY <1>9, <1>10, FS_Bijection
<1> QED
  BY <1>11 DEF Counts, T, A, B, MultiplesOf

(* What Calendar counts, as numbers.                                       *)
LeapsBefore(y)    == ((y - 1) \div 4) - ((y - 1) \div 100) + ((y - 1) \div 400) - 477
LeapDay(y)        == IF Clock!Leap(y) THEN 1 ELSE 0
MonthBegins(y, m) ==
  <<0, 31, 59, 90, 120, 151, 181, 212, 243, 273, 304, 334>>[m] + IF m > 2 THEN LeapDay(y) ELSE 0

(* The leap years from 1970 up to y, counted and computed.                 *)
LEMMA LeapYears ==
  ASSUME NEW y \in Nat, y >= 1970
  PROVE  Cardinality({x \in 1970 .. y - 1 : Clock!Leap(x)}) = LeapsBefore(y)
<1> DEFINE b == y - 1
           F == MultiplesOf(4, 1970, b)
           C == MultiplesOf(100, 1970, b)
           D == MultiplesOf(400, 1970, b)
           L == {x \in 1970 .. b : Clock!Leap(x)}
<1>1. b \in Nat /\ b >= 1970 - 1
  OBVIOUS
<1> HIDE DEF b
<1>2. /\ IsFiniteSet(F) /\ Cardinality(F) = (b \div 4) - 492
  <2>1. /\ IsFiniteSet(F) /\ Cardinality(F) = (b \div 4) - ((1970 - 1) \div 4)
    <3>1. Bounds(4, 1970, b)
      BY <1>1 DEF Bounds
    <3>2. Counts(F, (b \div 4) - ((1970 - 1) \div 4))
      BY <3>1, Multiples
    <3> QED
      BY <3>2 DEF Counts
  <2>2. (1970 - 1) \div 4 = 492
    OBVIOUS
  <2> HIDE DEF F
  <2> QED
    BY <2>1, <2>2
<1>3. /\ IsFiniteSet(C) /\ Cardinality(C) = (b \div 100) - 19
  <2>1. /\ IsFiniteSet(C) /\ Cardinality(C) = (b \div 100) - ((1970 - 1) \div 100)
    <3>1. Bounds(100, 1970, b)
      BY <1>1 DEF Bounds
    <3>2. Counts(C, (b \div 100) - ((1970 - 1) \div 100))
      BY <3>1, Multiples
    <3> QED
      BY <3>2 DEF Counts
  <2>2. (1970 - 1) \div 100 = 19
    OBVIOUS
  <2> HIDE DEF C
  <2> QED
    BY <2>1, <2>2
<1>4. /\ IsFiniteSet(D) /\ Cardinality(D) = (b \div 400) - 4
  <2>1. /\ IsFiniteSet(D) /\ Cardinality(D) = (b \div 400) - ((1970 - 1) \div 400)
    <3>1. Bounds(400, 1970, b)
      BY <1>1 DEF Bounds
    <3>2. Counts(D, (b \div 400) - ((1970 - 1) \div 400))
      BY <3>1, Multiples
    <3> QED
      BY <3>2 DEF Counts
  <2>2. (1970 - 1) \div 400 = 4
    OBVIOUS
  <2> HIDE DEF D
  <2> QED
    BY <2>1, <2>2
<1>5. D \subseteq C /\ C \subseteq F
  <2>1. \A x \in Int : (x % 400 = 0 => x % 100 = 0) /\ (x % 100 = 0 => x % 4 = 0)
    BY SMT
  <2>2. \A x \in 1970 .. b : x \in Int
    BY <1>1
  <2> QED
    BY <2>1, <2>2 DEF MultiplesOf
<1>6. L = F \ (C \ D)
  BY DEF Clock!Leap, MultiplesOf
<1>7. C \cap D = D /\ F \cap (C \ D) = C \ D
  BY <1>5
<1> HIDE DEF F, C, D, L
<1>8. IsFiniteSet(C \ D) /\ Cardinality(C \ D) = Cardinality(C) - Cardinality(D)
  <2>0. IsFiniteSet(C)
    BY <1>3
  <2>1. IsFiniteSet(C \ D) /\ Cardinality(C \ D) = Cardinality(C) - Cardinality(C \cap D)
    BY ONLY <2>0, FS_Difference, Zenon
  <2> QED
    BY <1>7, <2>1
<1>9. Cardinality(L) = Cardinality(F) - Cardinality(C \ D)
  <2>0. IsFiniteSet(F)
    BY <1>2
  <2>1. Cardinality(F \ (C \ D)) = Cardinality(F) - Cardinality(F \cap (C \ D))
    BY ONLY <2>0, FS_Difference, Zenon
  <2> QED
    BY <1>6, <1>7, <2>1
<1>10. Cardinality(L) = (b \div 4) - (b \div 100) + (b \div 400) - 477
  BY <1>1, <1>2, <1>3, <1>4, <1>8, <1>9, SMT
<1> QED
  BY <1>10 DEF L, b, LeapsBefore

(* The days of a month.                                                    *)
LEMMA DaysInMonth ==
  ASSUME NEW y \in Nat, NEW m \in 1 .. 12
  PROVE  /\ Clock!DaysIn(y, m) =
              <<31, 28, 31, 30, 31, 30, 31, 31, 30, 31, 30, 31>>[m] + IF m = 2 THEN LeapDay(y) ELSE 0
         /\ Clock!DaysIn(y, m) \in Nat /\ Clock!DaysIn(y, m) <= 31
         /\ LeapDay(y) \in 0 .. 1
         /\ MonthBegins(y, m) \in Nat
         /\ m < 12 => MonthBegins(y, m + 1) = MonthBegins(y, m) + Clock!DaysIn(y, m)
<1>1. LeapDay(y) \in 0 .. 1
  BY DEF LeapDay
<1>2. Clock!DaysIn(y, m) =
        <<31, 28, 31, 30, 31, 30, 31, 31, 30, 31, 30, 31>>[m] + IF m = 2 THEN LeapDay(y) ELSE 0
  <2>1. Clock!DaysIn(y, m) = IF m = 2 THEN IF Clock!Leap(y) THEN 29 ELSE 28
                             ELSE IF m \in {4, 6, 9, 11} THEN 30 ELSE 31
    BY DEF Clock!DaysIn
  <2>2. (IF Clock!Leap(y) THEN 29 ELSE 28) = 28 + LeapDay(y)
    BY DEF LeapDay
  <2>3. CASE m \in 1 .. 6
    BY <1>1, <2>1, <2>2, <2>3, SMT
  <2>4. CASE m \in 7 .. 12
    BY <1>1, <2>1, <2>2, <2>4, SMT
  <2> QED
    BY <2>3, <2>4, SMT
<1>3. MonthBegins(y, m) = <<0, 31, 59, 90, 120, 151, 181, 212, 243, 273, 304, 334>>[m]
                            + IF m > 2 THEN LeapDay(y) ELSE 0
  BY DEF MonthBegins
<1>4. MonthBegins(y, m + 1) = <<0, 31, 59, 90, 120, 151, 181, 212, 243, 273, 304, 334>>[m + 1]
                            + IF m + 1 > 2 THEN LeapDay(y) ELSE 0
  BY DEF MonthBegins
<1> QED
  <2>1. CASE m \in 1 .. 4
    BY <1>1, <1>2, <1>3, <1>4, <2>1, SMT
  <2>2. CASE m \in 5 .. 8
    BY <1>1, <1>2, <1>3, <1>4, <2>2, SMT
  <2>3. CASE m \in 9 .. 12
    BY <1>1, <1>2, <1>3, <1>4, <2>3, SMT
  <2> QED
    BY <2>1, <2>2, <2>3, SMT

DaysBefore(y, m) == {x \in (1 .. m - 1) \X (1 .. 31) : x[2] <= Clock!DaysIn(y, x[1])}
Begins(y, m)     == Counts(DaysBefore(y, m), MonthBegins(y, m))

(* If the count is right for a month it is right for the next.             *)
LEMMA NextMonth ==
  ASSUME NEW y \in Nat, NEW m \in 1 .. 11, Begins(y, m)
  PROVE  Begins(y, m + 1)
<1> DEFINE A == DaysBefore(y, m)   n == Clock!DaysIn(y, m)   B == {m} \X (1 .. n)
<1>0. m \in 1 .. 12 /\ m < 12
  OBVIOUS
<1>1. n \in Nat /\ n <= 31 /\ MonthBegins(y, m) \in Nat
  BY <1>0, DaysInMonth
<1>2. MonthBegins(y, m + 1) = MonthBegins(y, m) + n
  BY <1>0, DaysInMonth
<1>3. DaysBefore(y, m + 1) = A \cup B
  <2>1. 1 .. (m + 1) - 1 = (1 .. m - 1) \cup {m}
    OBVIOUS
  <2>2. 1 .. n = {d \in 1 .. 31 : d <= n}
    BY <1>1
  <2> DEFINE M == 1 .. m - 1   D == 1 .. 31
  <2>3. DaysBefore(y, m + 1) = {x \in (M \cup {m}) \X D : x[2] <= Clock!DaysIn(y, x[1])}
    BY <2>1 DEF DaysBefore
  <2>4. B = {m} \X {d \in D : d <= n}
    BY <2>2
  <2>5. A = {x \in M \X D : x[2] <= Clock!DaysIn(y, x[1])}
    BY DEF DaysBefore
  <2> HIDE DEF M, D, A, B
  <2> QED
    BY <2>3, <2>4, <2>5
<1>4. A \cap B = {}
  BY DEF DaysBefore
<1>5. IsFiniteSet(A) /\ Cardinality(A) = MonthBegins(y, m)
  BY DEF Begins, Counts
<1>6. IsFiniteSet(B) /\ Cardinality(B) = n
  <2>1. IsFiniteSet({m}) /\ Cardinality({m}) = 1
    BY FS_Singleton
  <2>2. IsFiniteSet(1 .. n) /\ Cardinality(1 .. n) = n
    <3>1. 1 \in Int /\ n \in Int
      BY <1>1
    <3> HIDE DEF n
    <3>2. /\ IsFiniteSet(1 .. n)
          /\ Cardinality(1 .. n) = IF 1 > n THEN 0 ELSE n - 1 + 1
      BY <3>1, FS_Interval
    <3> QED
      BY <1>1, <3>2
  <2>3. IsFiniteSet(B) /\ Cardinality(B) = Cardinality({m}) * Cardinality(1 .. n)
    BY <2>1, <2>2, FS_Product
  <2> QED
    BY <1>1, <2>1, <2>2, <2>3
<1> HIDE DEF A, B, n
<1>7. /\ IsFiniteSet(A \cup B)
      /\ Cardinality(A \cup B) = Cardinality(A) + Cardinality(B) - Cardinality(A \cap B)
  <2>1. IsFiniteSet(A) /\ IsFiniteSet(B)
    BY <1>5, <1>6
  <2> QED
    BY ONLY <2>1, FS_Union, Zenon
<1>8. Cardinality(A \cap B) = 0
  BY <1>4, FS_EmptySet
<1>9. Cardinality(A \cup B) = MonthBegins(y, m + 1)
  BY <1>1, <1>2, <1>5, <1>6, <1>7, <1>8
<1> QED
  BY <1>3, <1>7, <1>9 DEF Begins, Counts

(* The count of days before a month is what the sum of the lengths gives.  *)
LEMMA MonthsBegin ==
  ASSUME NEW y \in Nat, NEW m \in 1 .. 12
  PROVE  Begins(y, m)
<1>1. Begins(y, 1)
  <2>1. MonthBegins(y, 1) = 0
    BY DEF MonthBegins
  <2>2. DaysBefore(y, 1) = {}
    BY DEF DaysBefore
  <2> QED
    BY <2>1, <2>2, FS_EmptySet DEF Begins, Counts
<1>2. \A k \in 1 .. 11 : Begins(y, k) => Begins(y, k + 1)
  BY NextMonth
<1>3. Begins(y, 2) /\ Begins(y, 3) /\ Begins(y, 4)
  BY <1>1, <1>2
<1>4. Begins(y, 5) /\ Begins(y, 6) /\ Begins(y, 7) /\ Begins(y, 8)
  BY <1>2, <1>3
<1>5. Begins(y, 9) /\ Begins(y, 10) /\ Begins(y, 11) /\ Begins(y, 12)
  BY <1>2, <1>4
<1> QED
  BY <1>1, <1>3, <1>4, <1>5

(* Calendar's Cardinality is that of FiniteSets.                           *)
LEMMA SameCardinality ==
  ASSUME NEW S
  PROVE  Clock!Cardinality(S) = Cardinality(S)
BY DEF Clock!Cardinality, Cardinality, Clock!IsFiniteSet, IsFiniteSet

(* The days that Calendar counts before a month.                           *)
LEMMA MonthStarts ==
  ASSUME NEW y \in Nat, y >= 1970, NEW m \in 1 .. 12
  PROVE  Clock!MonthStart(y, m) = 365 * (y - 1970) + LeapsBefore(y) + MonthBegins(y, m)
<1> DEFINE d == Cardinality({x \in (1 .. m - 1) \X (1 .. 31) : x[2] <= Clock!DaysIn(y, x[1])})
           l == Cardinality({x \in 1970 .. y - 1 : Clock!Leap(x)})
<1>1. d = MonthBegins(y, m)
  <2>1. Begins(y, m)
    BY MonthsBegin
  <2> QED
    BY ONLY <2>1 DEF Begins, DaysBefore, Counts
<1>2. l = LeapsBefore(y)
  BY LeapYears
<1>3. Clock!MonthStart(y, m) = Clock!YearStart(y) + d
  BY SameCardinality DEF Clock!MonthStart
<1>4. Clock!YearStart(y) = 365 * (y - 1970) + l
  BY SameCardinality DEF Clock!YearStart
<1> HIDE DEF d, l
<1> QED
  BY <1>1, <1>2, <1>3, <1>4

-----------------------------------------------------------------------------
(* JulianDate's formula is that count.                                     *)
Leaps(y) == (y \div 4) - (y \div 100) + (y \div 400)

(* The leap days of the Julian date formula are those that are counted.    *)
LEMMA LeapsAre ==
  ASSUME NEW y \in Nat, y >= 1
  PROVE  /\ Leaps(y) = LeapsBefore(y) + 477 + LeapDay(y)
         /\ Leaps(y - 1) = LeapsBefore(y) + 477
         /\ LeapsBefore(y) \in Int /\ LeapDay(y) \in 0 .. 1
<1> DEFINE z == y - 1
<1>1. z \in Nat /\ y = z + 1
  OBVIOUS
<1>2. LeapDay(y) = IF y % 4 = 0 /\ (y % 100 = 0 => y % 400 = 0) THEN 1 ELSE 0
  BY DEF LeapDay, Clock!Leap
<1>3. y \div 4 = (z \div 4) + IF y % 4 = 0 THEN 1 ELSE 0
  BY SMT
<1>4. y \div 100 = (z \div 100) + IF y % 100 = 0 THEN 1 ELSE 0
  BY SMT
<1>5. y \div 400 = (z \div 400) + IF y % 400 = 0 THEN 1 ELSE 0
  BY SMT
<1>6. (y % 400 = 0 => y % 100 = 0) /\ (y % 100 = 0 => y % 4 = 0)
  BY SMT
<1>7. z \div 4 \in Nat /\ z \div 100 \in Nat /\ z \div 400 \in Nat
  BY <1>1, DivMod
<1>8. LeapsBefore(y) = (z \div 4) - (z \div 100) + (z \div 400) - 477
  BY DEF LeapsBefore
<1> DEFINE a == z \div 4   b == z \div 100   c == z \div 400
           p == y % 4 = 0  q == y % 100 = 0  r == y % 400 = 0
<1>9. /\ Leaps(y - 1) = a - b + c
      /\ Leaps(y) = (a + IF p THEN 1 ELSE 0) - (b + IF q THEN 1 ELSE 0) + (c + IF r THEN 1 ELSE 0)
      /\ LeapDay(y) = IF p /\ (q => r) THEN 1 ELSE 0
  BY <1>2, <1>3, <1>4, <1>5 DEF Leaps
<1>10. a \in Nat /\ b \in Nat /\ c \in Nat /\ (r => q) /\ (q => p)
  BY <1>6, <1>7
<1>11. LeapsBefore(y) = a - b + c - 477
  BY <1>8
<1> HIDE DEF a, b, c, p, q, r, z
<1> QED
  BY <1>9, <1>10, <1>11

(* JulianDate's formula counts the days of the calendar.                   *)
LEMMA DayCount ==
  ASSUME NEW t, t.year \in Nat, t.year >= 1970, t.month \in 1 .. 12, t.day \in Nat
  PROVE  JulianDate(t) - 2440588 = Clock!MonthStart(t.year, t.month) + t.day - 1
<1> DEFINE Y == t.year   M == t.month   D == t.day
           a == MarchLate(t)   y == MarchYear(t)   m == MarchMonth(t)
<1>1. Y \in Nat /\ Y >= 1970 /\ M \in 1 .. 12 /\ D \in Nat
  OBVIOUS
<1>2. JulianDate(t) = D + ((153 * m + 2) \div 5) + 365 * y + (y \div 4) - (y \div 100)
                        + (y \div 400) - 32045
  BY DEF JulianDate, MarchYear, MarchMonth, MarchLate
<1>3. a = (14 - M) \div 12 /\ y = Y + 4800 - a /\ m = M + 12 * a - 3
  BY DEF MarchYear, MarchMonth, MarchLate
<1>4. Clock!MonthStart(Y, M) = 365 * (Y - 1970) + LeapsBefore(Y) + MonthBegins(Y, M)
  BY <1>1, MonthStarts
<1>5. /\ Leaps(Y) = LeapsBefore(Y) + 477 + LeapDay(Y) /\ Leaps(Y - 1) = LeapsBefore(Y) + 477
      /\ LeapsBefore(Y) \in Int /\ LeapDay(Y) \in 0 .. 1
  <2>1. Y \in Nat /\ Y >= 1
    BY <1>1
  <2> QED
    BY <2>1, LeapsAre
<1>6. \A x \in Nat : /\ (x + 4800) \div 4 = (x \div 4) + 1200
                     /\ (x + 4800) \div 100 = (x \div 100) + 48
                     /\ (x + 4800) \div 400 = (x \div 400) + 12
                     /\ x \div 4 \in Nat /\ x \div 100 \in Nat /\ x \div 400 \in Nat
  BY SMT
<1>7. MonthBegins(Y, M) = <<0, 31, 59, 90, 120, 151, 181, 212, 243, 273, 304, 334>>[M]
                            + IF M > 2 THEN LeapDay(Y) ELSE 0
  BY DEF MonthBegins
<1> HIDE DEF Y, M, D, a, y, m
<1> DEFINE z == y - 4800
<1>8. /\ z \in Nat /\ y = z + 4800
      /\ (M <= 2 => z = Y - 1 /\ m = M + 9) /\ (M > 2 => z = Y /\ m = M - 3)
  BY <1>1, <1>3, SMT
<1>9. (y \div 4) - (y \div 100) + (y \div 400) = Leaps(z) + 1164 /\ Leaps(z) \in Int
  BY <1>6, <1>8, SMTT(30) DEF Leaps
<1> HIDE DEF z
<1>10. JulianDate(t) = D + ((153 * m + 2) \div 5) + 365 * y + Leaps(z) - 30881
  <2> DEFINE p == y \div 4   q == y \div 100   r == y \div 400   w == (153 * m + 2) \div 5
  <2>1. p \in Int /\ q \in Int /\ r \in Int /\ w \in Int /\ m \in Nat
    BY <1>1, <1>8
  <2>2. JulianDate(t) = D + w + 365 * y + p - q + r - 32045
    BY <1>2
  <2>3. p - q + r = Leaps(z) + 1164 /\ Leaps(z) \in Int
    BY <1>9
  <2> HIDE DEF p, q, r, w
  <2>4. JulianDate(t) = D + w + 365 * y + Leaps(z) - 30881
    BY <1>1, <1>8, <2>1, <2>2, <2>3
  <2> QED
    BY <2>4 DEF w
<1>11. ASSUME M <= 2 PROVE JulianDate(t) - 2440588 = Clock!MonthStart(Y, M) + D - 1
  <2>1. Leaps(z) = LeapsBefore(Y) + 477 /\ y = Y + 4799
    BY <1>1, <1>5, <1>8, <1>11
  <2>2. MonthBegins(Y, M) = IF M = 1 THEN 0 ELSE 31
    BY <1>1, <1>7, <1>11, SMT
  <2>3. (153 * m + 2) \div 5 = IF M = 1 THEN 306 ELSE 337
    BY <1>1, <1>8, <1>11, SMT
  <2> QED
    BY <1>1, <1>4, <1>5, <1>10, <2>1, <2>2, <2>3
<1>12. ASSUME M > 2 PROVE JulianDate(t) - 2440588 = Clock!MonthStart(Y, M) + D - 1
  <2>1. Leaps(z) = LeapsBefore(Y) + 477 + LeapDay(Y) /\ y = Y + 4800
    BY <1>1, <1>5, <1>8, <1>12
  <2>2. MonthBegins(Y, M) = (153 * m + 2) \div 5 + 59 + LeapDay(Y) /\ (153 * m + 2) \div 5 \in Nat
    <3>1. CASE M \in 3 .. 5
      BY <1>5, <1>7, <1>8, <3>1, SMT
    <3>2. CASE M \in 6 .. 8
      BY <1>5, <1>7, <1>8, <3>2, SMT
    <3>3. CASE M \in 9 .. 12
      BY <1>5, <1>7, <1>8, <3>3, SMT
    <3> QED
      BY <1>1, <1>12, <3>1, <3>2, <3>3
  <2> DEFINE w == (153 * m + 2) \div 5
  <2> HIDE DEF w
  <2>3. MonthBegins(Y, M) = w + 59 + LeapDay(Y) /\ w \in Nat
    BY <2>2 DEF w
  <2>4. JulianDate(t) = D + w + 365 * y + Leaps(z) - 30881
    BY <1>10 DEF w
  <2> QED
    BY <1>1, <1>4, <1>5, <2>1, <2>3, <2>4
<1> QED
  BY <1>1, <1>11, <1>12 DEF Y, M, D

(* The days that LibSetTime takes are those that Calendar has.             *)
LEMMA DaysThatExist ==
  ASSUME NEW t, t.year \in Nat, t.month \in 1 .. 12, t.day \in Nat
  PROVE  DayValid(t) <=> t.day \in 1 .. Clock!DaysIn(t.year, t.month)
<1> DEFINE Y == t.year   M == t.month   D == t.day   n == Clock!DaysIn(Y, M)
<1>1. Y \in Nat /\ M \in 1 .. 12 /\ D \in Nat
  OBVIOUS
<1>2. /\ n = <<31, 28, 31, 30, 31, 30, 31, 31, 30, 31, 30, 31>>[M] + IF M = 2 THEN LeapDay(Y) ELSE 0
      /\ n \in Nat
  BY <1>1, DaysInMonth
<1>3. LeapDay(Y) = IF IsLeapYear(t) THEN 1 ELSE 0
  BY DEF LeapDay, IsLeapYear, Clock!Leap
<1>4. DayValid(t) <=> /\ D >= 1
                      /\ D <= <<31, 29, 31, 30, 31, 30, 31, 31, 30, 31, 30, 31>>[M]
                      /\ M = 2 /\ ~IsLeapYear(t) => D <= 28
  BY DEF DayValid
<1> DEFINE ok == DayValid(t)
<1>5. ASSUME M = 2 PROVE ok <=> D \in 1 .. n
  BY <1>1, <1>2, <1>3, <1>4, <1>5
<1>6. ASSUME M # 2 PROVE ok <=> D \in 1 .. n
  <2>1. n = <<31, 29, 31, 30, 31, 30, 31, 31, 30, 31, 30, 31>>[M]
    BY <1>1, <1>2, <1>6, SMT
  <2>2. DayValid(t) <=> D >= 1 /\ D <= n
    BY <1>4, <1>6, <2>1
  <2> HIDE DEF n, D
  <2> QED
    BY <1>1, <1>2, <2>2
<1> QED
  BY <1>5, <1>6

(* The calendar's instant of a time is its number of seconds from 1970.    *)
LEMMA InstantIs ==
  ASSUME NEW t, IsTime(t)
  PROVE  Clock!Instant(t) = SecondsFrom1970(t)
<1> DEFINE n == JulianDate(t) - 2440588
           S == SecPerMin   M == MinPerHour   H == HourPerDay
           h == t.hour   i == t.minute   c == t.second
           k == Clock!MonthStart(t.year, t.month) + t.day - 1
<1>1. n \in Nat /\ h \in Nat /\ i \in Nat /\ c \in Nat /\ S \in Nat /\ M \in Nat /\ H \in Nat
  BY UnitsAreNumbers, DaysFrom1970 DEF IsTime
<1>2. k = n
  BY DayCount DEF IsTime
<1>3. Clock!Instant(t) = ((k * H + h) * M + i) * S + c
  BY DEF Clock!Instant
<1>4. SecondsFrom1970(t) = SecondsOf(S, M, H, n, h, i, c)
  BY DEF SecondsFrom1970
<1> HIDE DEF n, S, M, H, h, i, c, k
<1>5. SecondsFrom1970(t) = n * (H * (M * S)) + h * (M * S) + i * S + c
  BY <1>4 DEF SecondsOf
<1> DEFINE nH == n * H
<1>6. nH \in Nat /\ M * S \in Nat /\ n * (H * (M * S)) = nH * (M * S)
  BY <1>1, Products
<1> HIDE DEF nH
<1>7. ((nH + h) * M + i) * S = nH * (M * S) + h * (M * S) + i * S
  <2> DEFINE hM == (nH + h) * M
  <2>1. nH + h \in Nat /\ hM \in Nat
    BY <1>1, <1>6
  <2>2. (nH + h) * (M * S) = hM * S
    BY <1>1, <2>1, Products
  <2>3. (nH + h) * (M * S) = nH * (M * S) + h * (M * S)
    <3> DEFINE q == M * S
    <3>1. q \in Nat
      BY <1>6
    <3> HIDE DEF q
    <3>2. (nH + h) * q = nH * q + h * q
      BY <1>1, <1>6, <3>1
    <3> QED
      BY <3>2 DEF q
  <2> HIDE DEF hM
  <2>4. (hM + i) * S = hM * S + i * S
    BY <1>1, <2>1
  <2> QED
    BY <2>2, <2>3, <2>4 DEF hM
<1> QED
  BY <1>2, <1>3, <1>5, <1>6, <1>7 DEF nH

-----------------------------------------------------------------------------
(* The next second, carried from field to field.                           *)
Carries(S, M, H, n, h, i, c) ==
  /\ SecondsOf(S, M, H, n, h, i, c) \in Nat
  /\ SecondsOf(S, M, H, n, h, i, c + 1) = SecondsOf(S, M, H, n, h, i, c) + 1
  /\ SecondsOf(S, M, H, n, h, i + 1, 0) = SecondsOf(S, M, H, n, h, i, S - 1) + 1
  /\ SecondsOf(S, M, H, n, h + 1, 0, 0) = SecondsOf(S, M, H, n, h, M - 1, S - 1) + 1
  /\ SecondsOf(S, M, H, n + 1, 0, 0, 0) = SecondsOf(S, M, H, n, H - 1, M - 1, S - 1) + 1

(* A second more, with its carries, is a number more by one.               *)
LEMMA SecondsCarry ==
  ASSUME NEW S \in Nat \ {0}, NEW M \in Nat \ {0}, NEW H \in Nat \ {0},
         NEW n \in Nat, NEW h \in Nat, NEW i \in Nat, NEW c \in Nat
  PROVE  Carries(S, M, H, n, h, i, c)
<1> DEFINE MS == M * S   HMS == H * MS
<1>1. MS \in Nat /\ HMS \in Nat
  BY Products
<1>2. (M - 1) * S + S = MS /\ (M - 1) * S \in Nat
  <2> DEFINE k == M - 1
  <2>1. k \in Nat /\ M = k + 1
    OBVIOUS
  <2> HIDE DEF k
  <2>2. (k + 1) * S = k * S + S /\ k * S \in Nat
    BY <2>1
  <2> QED
    BY <2>1, <2>2 DEF k
<1> HIDE DEF MS
<1>3. (H - 1) * MS + MS = HMS /\ (H - 1) * MS \in Nat
  <2> DEFINE k == H - 1
  <2>1. k \in Nat /\ H = k + 1
    OBVIOUS
  <2> HIDE DEF k
  <2>2. (k + 1) * MS = k * MS + MS /\ k * MS \in Nat
    BY <1>1, <2>1
  <2> QED
    BY <2>1, <2>2 DEF k
<1> HIDE DEF HMS
<1>4. \A a, b, d, e : SecondsOf(S, M, H, a, b, d, e) = a * HMS + b * MS + d * S + e
  BY DEF SecondsOf, HMS, MS
<1>5. /\ n * HMS \in Nat /\ h * MS \in Nat /\ i * S \in Nat
      /\ (n + 1) * HMS = n * HMS + HMS /\ (h + 1) * MS = h * MS + MS /\ (i + 1) * S = i * S + S
      /\ 0 * MS = 0 /\ 0 * S = 0
  BY <1>1
<1>6. SecondsOf(S, M, H, n, h, i, c) \in Nat
  BY <1>4, <1>5
<1>7. SecondsOf(S, M, H, n, h, i, c + 1) = SecondsOf(S, M, H, n, h, i, c) + 1
  <2> DEFINE a == n * HMS + h * MS + i * S
  <2>1. SecondsOf(S, M, H, n, h, i, c + 1) = a + (c + 1) /\ SecondsOf(S, M, H, n, h, i, c) = a + c
    BY <1>4
  <2>2. a \in Nat
    BY <1>5
  <2> HIDE DEF a
  <2> QED
    BY <2>1, <2>2
<1>8. SecondsOf(S, M, H, n, h, i + 1, 0) = SecondsOf(S, M, H, n, h, i, S - 1) + 1
  BY <1>4, <1>5
<1>9. SecondsOf(S, M, H, n, h + 1, 0, 0) = SecondsOf(S, M, H, n, h, M - 1, S - 1) + 1
  <2>1. SecondsOf(S, M, H, n, h + 1, 0, 0) = n * HMS + (h + 1) * MS + 0 * S + 0
    BY <1>4
  <2>2. SecondsOf(S, M, H, n, h, M - 1, S - 1) = n * HMS + h * MS + (M - 1) * S + (S - 1)
    BY <1>4
  <2> QED
    BY <1>1, <1>2, <1>5, <2>1, <2>2
<1>10. SecondsOf(S, M, H, n + 1, 0, 0, 0) = SecondsOf(S, M, H, n, H - 1, M - 1, S - 1) + 1
  <2>1. SecondsOf(S, M, H, n + 1, 0, 0, 0) = (n + 1) * HMS + 0 * MS + 0 * S + 0
    BY <1>4
  <2>2. SecondsOf(S, M, H, n, H - 1, M - 1, S - 1) = n * HMS + (H - 1) * MS + (M - 1) * S + (S - 1)
    BY <1>4
  <2> QED
    BY <1>1, <1>2, <1>3, <1>5, <2>1, <2>2
<1> QED
  BY <1>6, <1>7, <1>8, <1>9, <1>10 DEF Carries

(* The day u follows the day t.                                            *)
Follows(u, t) ==
  \/ /\ t.day < Clock!DaysIn(t.year, t.month)
     /\ u.year = t.year /\ u.month = t.month /\ u.day = t.day + 1
  \/ /\ t.day >= Clock!DaysIn(t.year, t.month) /\ t.month < 12
     /\ u.year = t.year /\ u.month = t.month + 1 /\ u.day = 1
  \/ /\ t.day >= Clock!DaysIn(t.year, t.month) /\ t.month >= 12
     /\ u.year = t.year + 1 /\ u.month = 1 /\ u.day = 1

InNat(y, m) == MonthBegins(y, m) \in Nat /\ Clock!DaysIn(y, m) \in Nat

(* The days before a month and in it are numbers.                          *)
LEMMA MonthsAreNumbers ==
  ASSUME NEW y \in Nat, NEW m \in 1 .. 12
  PROVE  InNat(y, m)
BY DaysInMonth DEF InNat

(* A month begins when the one before is over.                             *)
LEMMA MonthAfter ==
  ASSUME NEW y \in Nat, NEW m \in 1 .. 12, NEW k, m < 12, k = m + 1
  PROVE  MonthBegins(y, k) = MonthBegins(y, m) + Clock!DaysIn(y, m)
BY DaysInMonth

(* The date after a valid one is valid, and JulianDate's next.             *)
LEMMA NextDay ==
  ASSUME NEW t, t.year \in Nat, t.year >= 1970, t.month \in 1 .. 12, t.day \in Nat, DayValid(t),
         NEW u, Follows(u, t)
  PROVE  /\ u.year \in Nat /\ u.year >= 1970 /\ u.month \in 1 .. 12 /\ u.day \in Nat /\ DayValid(u)
         /\ JulianDate(u) - 2440588 = (JulianDate(t) - 2440588) + 1
<1> DEFINE Y == t.year   M == t.month   D == t.day   n == Clock!DaysIn(Y, M)
<1>1. Y \in Nat /\ Y >= 1970 /\ M \in 1 .. 12 /\ D \in Nat /\ n \in Nat
  <2>1. Y \in Nat /\ Y >= 1970 /\ M \in 1 .. 12 /\ D \in Nat
    OBVIOUS
  <2> HIDE DEF Y, M, D
  <2> QED
    <3>1. InNat(Y, M)
      BY ONLY <2>1, MonthsAreNumbers
    <3> QED
      BY <2>1, <3>1 DEF InNat
<1>2. D \in 1 .. n
  BY DaysThatExist
<1>3. /\ u.year \in Nat /\ u.year >= 1970 /\ u.month \in 1 .. 12 /\ u.day \in Nat
      /\ Clock!DaysIn(u.year, u.month) \in Nat /\ u.day \in 1 .. Clock!DaysIn(u.year, u.month)
  <2>1. u.year \in Nat /\ u.year >= 1970 /\ u.month \in 1 .. 12 /\ u.day \in Nat
    BY <1>1 DEF Follows
  <2>2. /\ Clock!DaysIn(u.year, u.month) \in Nat
        /\ u.day = 1 => Clock!DaysIn(u.year, u.month) >= 1
    <3> DEFINE y == u.year   m == u.month
    <3>1. y \in Nat /\ m \in 1 .. 12
      BY <2>1
    <3>2. Clock!DaysIn(y, m) \in {28, 29, 30, 31}
      BY DEF Clock!DaysIn
    <3> QED
      BY <3>2
  <2> QED
    BY <1>1, <1>2, <2>1, <2>2 DEF Follows
<1>4. DayValid(u)
  BY <1>3, DaysThatExist
<1>5. JulianDate(t) - 2440588 = Clock!MonthStart(Y, M) + D - 1
  BY DayCount
<1>6. JulianDate(u) - 2440588 = Clock!MonthStart(u.year, u.month) + u.day - 1
  BY <1>3, DayCount
<1>7. Clock!MonthStart(Y, M) = 365 * (Y - 1970) + LeapsBefore(Y) + MonthBegins(Y, M)
  BY <1>1, MonthStarts
<1>8. /\ LeapsBefore(Y) \in Int /\ LeapDay(Y) \in 0 .. 1 /\ MonthBegins(Y, M) \in Nat
      /\ LeapsBefore(Y + 1) = LeapsBefore(Y) + LeapDay(Y)
  <2>1. Y >= 1 /\ Y + 1 \in Nat /\ Y + 1 >= 1 /\ (Y + 1) - 1 = Y
    BY <1>1
  <2>2. Leaps(Y) = LeapsBefore(Y) + 477 + LeapDay(Y) /\ LeapsBefore(Y) \in Int /\ LeapDay(Y) \in 0 .. 1
    BY <1>1, <2>1, LeapsAre
  <2>3. Leaps((Y + 1) - 1) = LeapsBefore(Y + 1) + 477 /\ LeapsBefore(Y + 1) \in Int
    BY <2>1, LeapsAre
  <2>4. MonthBegins(Y, M) \in Nat
    <3> HIDE DEF Y, M
    <3>1. InNat(Y, M)
      BY ONLY <1>1, MonthsAreNumbers
    <3> QED
      BY <3>1 DEF InNat
  <2> QED
    BY <2>1, <2>2, <2>3, <2>4
<1>9. CASE D < n
  <2>1. u.year = Y /\ u.month = M /\ u.day = D + 1
    BY <1>1, <1>9 DEF Follows
  <2> QED
    BY <1>1, <1>3, <1>4, <1>5, <1>6, <1>7, <1>8, <2>1
<1>10. CASE D = n /\ M < 12
  <2>1. u.year = Y /\ u.month = M + 1 /\ u.day = 1
    BY <1>1, <1>10 DEF Follows
  <2>2. MonthBegins(Y, M + 1) = MonthBegins(Y, M) + n
    <3> HIDE DEF Y, M
    <3> QED
      BY ONLY <1>1, <1>10, MonthAfter
  <2>3. M + 1 \in 1 .. 12
    BY <1>1, <1>10
  <2>4. Clock!MonthStart(Y, M + 1) = 365 * (Y - 1970) + LeapsBefore(Y) + MonthBegins(Y, M + 1)
    BY <1>1, <2>3, MonthStarts
  <2>5. JulianDate(u) - 2440588 = (JulianDate(t) - 2440588) + 1
    BY <1>1, <1>5, <1>6, <1>7, <1>8, <1>10, <2>1, <2>2, <2>4
  <2> QED
    BY <1>3, <1>4, <2>5
<1>11. CASE D = n /\ M = 12
  <2>1. u.year = Y + 1 /\ u.month = 1 /\ u.day = 1
    BY <1>1, <1>11 DEF Follows
  <2>2. MonthBegins(Y, 12) = 334 + LeapDay(Y) /\ MonthBegins(Y + 1, 1) = 0
    BY DEF MonthBegins
  <2>3. n = 31
    BY <1>11 DEF Clock!DaysIn
  <2>4. Clock!MonthStart(Y + 1, 1) = 365 * ((Y + 1) - 1970) + LeapsBefore(Y + 1) + MonthBegins(Y + 1, 1)
    <3>1. Y + 1 \in Nat /\ Y + 1 >= 1970 /\ 1 \in 1 .. 12
      BY <1>1
    <3> QED
      BY <3>1, MonthStarts
  <2> QED
    BY <1>1, <1>3, <1>4, <1>5, <1>6, <1>7, <1>8, <1>11, <2>1, <2>2, <2>3, <2>4
<1> QED
  BY <1>1, <1>2, <1>9, <1>10, <1>11

Shown(t) == [year |-> t.year, month |-> t.month, day |-> t.day,
             hour |-> t.hour, minute |-> t.minute, second |-> t.second]

(* Only year, month and day count for the date.                            *)
LEMMA SameDay ==
  ASSUME NEW t, NEW u, u.year = t.year, u.month = t.month, u.day = t.day
  PROVE  JulianDate(u) = JulianDate(t) /\ (DayValid(u) <=> DayValid(t))
BY DEF JulianDate, DayValid, IsLeapYear

(* Successor, field by field.                                              *)
LEMMA SuccessorFields ==
  ASSUME NEW t, t = Shown(t), IsTime(t)
  PROVE  LET u == Clock!Successor(t) IN
         /\ u = Shown(u)
         /\ t.second < SecPerMin - 1 =>
              /\ u.year = t.year /\ u.month = t.month /\ u.day = t.day
              /\ u.hour = t.hour /\ u.minute = t.minute /\ u.second = t.second + 1
         /\ t.second >= SecPerMin - 1 /\ t.minute < MinPerHour - 1 =>
              /\ u.year = t.year /\ u.month = t.month /\ u.day = t.day
              /\ u.hour = t.hour /\ u.minute = t.minute + 1 /\ u.second = 0
         /\ t.second >= SecPerMin - 1 /\ t.minute >= MinPerHour - 1 /\ t.hour < HourPerDay - 1 =>
              /\ u.year = t.year /\ u.month = t.month /\ u.day = t.day
              /\ u.hour = t.hour + 1 /\ u.minute = 0 /\ u.second = 0
         /\ t.second >= SecPerMin - 1 /\ t.minute >= MinPerHour - 1 /\ t.hour >= HourPerDay - 1 =>
              Follows(u, t) /\ u.hour = 0 /\ u.minute = 0 /\ u.second = 0
<1> DEFINE u == Clock!Successor(t)
<1>1. /\ t.second \in Int /\ t.minute \in Int /\ t.hour \in Int /\ t.month \in Int /\ t.day \in Int
      /\ SecPerMin \in Int /\ MinPerHour \in Int /\ HourPerDay \in Int
      /\ Clock!DaysIn(t.year, t.month) \in Int
  <2>1. Clock!DaysIn(t.year, t.month) \in {28, 29, 30, 31}
    BY DEF Clock!DaysIn
  <2> QED
    BY <2>1, UnitsAreNumbers DEF IsTime
<1>2. CASE t.second < SecPerMin - 1
  <2>1. u = [t EXCEPT !.second = t.second + 1]
    BY <1>2 DEF Clock!Successor
  <2> HIDE DEF u
  <2>2. u = [year |-> t.year, month |-> t.month, day |-> t.day,
             hour |-> t.hour, minute |-> t.minute, second |-> t.second + 1]
    BY <2>1 DEF Shown
  <2> QED
    BY <1>1, <1>2, <2>2 DEF u, Shown
<1>3. CASE t.second >= SecPerMin - 1 /\ t.minute < MinPerHour - 1
  <2>1. u = [t EXCEPT !.second = 0, !.minute = t.minute + 1]
    BY <1>1, <1>3 DEF Clock!Successor
  <2> HIDE DEF u
  <2>2. u = [year |-> t.year, month |-> t.month, day |-> t.day,
             hour |-> t.hour, minute |-> t.minute + 1, second |-> 0]
    BY <2>1 DEF Shown
  <2> QED
    BY <1>1, <1>3, <2>2 DEF u, Shown
<1>4. CASE t.second >= SecPerMin - 1 /\ t.minute >= MinPerHour - 1 /\ t.hour < HourPerDay - 1
  <2>1. u = [t EXCEPT !.second = 0, !.minute = 0, !.hour = t.hour + 1]
    BY <1>1, <1>4 DEF Clock!Successor
  <2> HIDE DEF u
  <2>2. u = [year |-> t.year, month |-> t.month, day |-> t.day,
             hour |-> t.hour + 1, minute |-> 0, second |-> 0]
    BY <2>1 DEF Shown
  <2> QED
    BY <1>1, <1>4, <2>2 DEF u, Shown
<1>5. CASE t.second >= SecPerMin - 1 /\ t.minute >= MinPerHour - 1 /\ t.hour >= HourPerDay - 1
  <2> DEFINE n == Clock!DaysIn(t.year, t.month)
             midnight == [t EXCEPT !.second = 0, !.minute = 0, !.hour = 0]
  <2>1. u = CASE t.day < n -> [midnight EXCEPT !.day = @ + 1]
              [] OTHER ->
            CASE t.month < 12 -> [midnight EXCEPT !.day = 1, !.month = @ + 1]
              [] OTHER -> [midnight EXCEPT !.day = 1, !.month = 1, !.year = @ + 1]
    BY <1>1, <1>5 DEF Clock!Successor
  <2>2. midnight = [year |-> t.year, month |-> t.month, day |-> t.day,
                    hour |-> 0, minute |-> 0, second |-> 0]
    <3>1. t = [year |-> t.year, month |-> t.month, day |-> t.day,
               hour |-> t.hour, minute |-> t.minute, second |-> t.second]
      BY DEF Shown
    <3> DEFINE r == [t EXCEPT !.second = 0]
    <3>2. r = [year |-> t.year, month |-> t.month, day |-> t.day,
               hour |-> t.hour, minute |-> t.minute, second |-> 0]
      BY <3>1
    <3>3. midnight = [r EXCEPT !.minute = 0, !.hour = 0]
      OBVIOUS
    <3> HIDE DEF r, midnight
    <3> QED
      BY <3>2, <3>3
  <2> HIDE DEF u, midnight
  <2>3. CASE t.day < n
    <3>1. u = [midnight EXCEPT !.day = @ + 1]
      BY <1>1, <2>1, <2>3
    <3>2. u = [year |-> t.year, month |-> t.month, day |-> t.day + 1,
               hour |-> 0, minute |-> 0, second |-> 0]
      BY <2>2, <3>1
    <3>3. u = Shown(u) /\ Follows(u, t) /\ u.hour = 0 /\ u.minute = 0 /\ u.second = 0
      BY <2>3, <3>2 DEF Shown, Follows
    <3> QED
      BY <1>1, <1>5, <3>3 DEF u
  <2>4. CASE t.day >= n /\ t.month < 12
    <3>1. u = [midnight EXCEPT !.day = 1, !.month = @ + 1]
      BY <1>1, <2>1, <2>4
    <3>2. u = [year |-> t.year, month |-> t.month + 1, day |-> 1,
               hour |-> 0, minute |-> 0, second |-> 0]
      BY <2>2, <3>1
    <3>3. u = Shown(u) /\ Follows(u, t) /\ u.hour = 0 /\ u.minute = 0 /\ u.second = 0
      BY <2>4, <3>2 DEF Shown, Follows
    <3> QED
      BY <1>1, <1>5, <3>3 DEF u
  <2>5. CASE t.day >= n /\ t.month >= 12
    <3>1. u = [midnight EXCEPT !.day = 1, !.month = 1, !.year = @ + 1]
      BY <1>1, <2>1, <2>5
    <3>2. u = [year |-> t.year + 1, month |-> 1, day |-> 1,
               hour |-> 0, minute |-> 0, second |-> 0]
      BY <2>2, <3>1
    <3>3. u = Shown(u) /\ Follows(u, t) /\ u.hour = 0 /\ u.minute = 0 /\ u.second = 0
      BY <2>5, <3>2 DEF Shown, Follows
    <3> QED
      BY <1>1, <1>5, <3>3 DEF u
  <2> QED
    BY <1>1, <2>3, <2>4, <2>5
<1> QED
  BY <1>1, <1>2, <1>3, <1>4, <1>5

(* A time as it is shown is shown again for its number of seconds.         *)
LEMMA ShownBack ==
  ASSUME NEW u, u = Shown(u), IsTime(u)
  PROVE  EpochToEfiTime(SecondsFrom1970(u)) = u
BY SecondsBack DEF Shown

(* What EpochToEfiTime shows after a second is the time that follows.      *)
LEMMA NextSecond ==
  ASSUME NEW s \in Nat
  PROVE  EpochToEfiTime(s + 1) = Clock!Successor(EpochToEfiTime(s))
<1> DEFINE t == EpochToEfiTime(s)
           u == Clock!Successor(t)
           S == SecPerMin   M == MinPerHour   H == HourPerDay
           n == JulianDate(t) - 2440588
<1>1. IsTime(t) /\ SecondsFrom1970(t) = s
  BY TimeShown
<1>2. t = Shown(t)
  BY DEF EpochToEfiTime, Shown
<1>3. /\ S \in Nat \ {0} /\ M \in Nat \ {0} /\ H \in Nat \ {0}
      /\ t.hour \in 0 .. H - 1 /\ t.minute \in 0 .. M - 1 /\ t.second \in 0 .. S - 1
  BY <1>1, UnitsAreNumbers DEF IsTime
<1>4. n \in Nat
  BY <1>1, DaysFrom1970 DEF IsTime
<1> HIDE DEF t, u, n
<1>carries. Carries(S, M, H, n, t.hour, t.minute, t.second)
  <2>1. /\ S \in Nat \ {0} /\ M \in Nat \ {0} /\ H \in Nat \ {0}
        /\ n \in Nat /\ t.hour \in Nat /\ t.minute \in Nat /\ t.second \in Nat
    BY <1>3, <1>4
  <2> QED
    BY ONLY <2>1, SecondsCarry
<1>5. s = SecondsOf(S, M, H, n, t.hour, t.minute, t.second)
  BY <1>1 DEF SecondsFrom1970, n
<1> DEFINE k == JulianDate(u) - 2440588
<1>6. SecondsFrom1970(u) = SecondsOf(S, M, H, k, u.hour, u.minute, u.second)
  BY DEF SecondsFrom1970
<1>7. u = Shown(u)
  BY <1>1, <1>2, SuccessorFields DEF u
<1> SUFFICES IsTime(u) /\ SecondsFrom1970(u) = s + 1
  BY <1>7, ShownBack DEF t, u
<1>8. ASSUME u.year = t.year, u.month = t.month, u.day = t.day
      PROVE  /\ u.year \in Nat /\ u.year >= 1970 /\ u.month \in 1 .. 12 /\ u.day \in Nat /\ DayValid(u)
             /\ k = n
  BY <1>1, <1>8, SameDay DEF IsTime, n
<1>9. CASE t.second < S - 1
  <2>1. /\ u.year = t.year /\ u.month = t.month /\ u.day = t.day
        /\ u.hour = t.hour /\ u.minute = t.minute /\ u.second = t.second + 1
    BY <1>1, <1>2, <1>9, SuccessorFields DEF u
  <2>2. SecondsFrom1970(u) = s + 1
    <3>1. SecondsFrom1970(u) = SecondsOf(S, M, H, n, t.hour, t.minute, t.second + 1)
      BY <1>6, <1>8, <2>1
    <3> QED
      BY <1>5, <1>carries, <3>1 DEF Carries
  <2> QED
    BY <1>3, <1>8, <1>9, <2>1, <2>2 DEF IsTime
<1>10. CASE t.second >= S - 1 /\ t.minute < M - 1
  <2>1. /\ u.year = t.year /\ u.month = t.month /\ u.day = t.day
        /\ u.hour = t.hour /\ u.minute = t.minute + 1 /\ u.second = 0
    BY <1>1, <1>2, <1>10, SuccessorFields DEF u
  <2>2. SecondsFrom1970(u) = s + 1
    <3>1. SecondsFrom1970(u) = SecondsOf(S, M, H, n, t.hour, t.minute + 1, 0)
      BY <1>6, <1>8, <2>1
    <3>2. s = SecondsOf(S, M, H, n, t.hour, t.minute, S - 1)
      BY <1>3, <1>5, <1>10
    <3> QED
      BY <1>carries, <3>1, <3>2 DEF Carries
  <2> QED
    BY <1>3, <1>8, <1>10, <2>1, <2>2 DEF IsTime
<1>11. CASE t.second >= S - 1 /\ t.minute >= M - 1 /\ t.hour < H - 1
  <2>1. /\ u.year = t.year /\ u.month = t.month /\ u.day = t.day
        /\ u.hour = t.hour + 1 /\ u.minute = 0 /\ u.second = 0
    BY <1>1, <1>2, <1>11, SuccessorFields DEF u
  <2>2. SecondsFrom1970(u) = s + 1
    <3>1. SecondsFrom1970(u) = SecondsOf(S, M, H, n, t.hour + 1, 0, 0)
      BY <1>6, <1>8, <2>1
    <3>2. s = SecondsOf(S, M, H, n, t.hour, M - 1, S - 1)
      BY <1>3, <1>5, <1>11
    <3> QED
      BY <1>carries, <3>1, <3>2 DEF Carries
  <2> QED
    BY <1>3, <1>8, <1>11, <2>1, <2>2 DEF IsTime
<1>12. CASE t.second >= S - 1 /\ t.minute >= M - 1 /\ t.hour >= H - 1
  <2>1. Follows(u, t) /\ u.hour = 0 /\ u.minute = 0 /\ u.second = 0
    BY <1>1, <1>2, <1>12, SuccessorFields DEF u
  <2>2. /\ u.year \in Nat /\ u.year >= 1970 /\ u.month \in 1 .. 12 /\ u.day \in Nat /\ DayValid(u)
        /\ k = n + 1
    BY <1>1, <2>1, NextDay DEF IsTime, n
  <2>3. SecondsFrom1970(u) = s + 1
    <3>1. SecondsFrom1970(u) = SecondsOf(S, M, H, n + 1, 0, 0, 0)
      BY <1>6, <2>1, <2>2
    <3>2. s = SecondsOf(S, M, H, n, H - 1, M - 1, S - 1)
      BY <1>3, <1>5, <1>12
    <3> QED
      BY <1>carries, <3>1, <3>2 DEF Carries
  <2> QED
    BY <1>3, <2>1, <2>2, <2>3 DEF IsTime
<1> QED
  BY <1>3, <1>9, <1>10, <1>11, <1>12

(* What is subtracted is a number, and what is added is a day at most.     *)
LEMMA AheadByADay ==
  ASSUME NEW t, t.zone \in Zones
  PROVE  Ahead(t) \in Int /\ -SEC_PER_DAY <= Ahead(t)
<1> DEFINE W == HourPerDay * MinPerHour
           z == IF t.zone = Unspecified THEN 0 ELSE t.zone * SecPerMin
           d == IF "in" \in t.daylight THEN SEC_PER_HOUR ELSE 0
<1>1. SecPerMin \in Nat /\ W \in Nat /\ W * SecPerMin = SEC_PER_DAY /\ SEC_PER_DAY \in Nat
  BY UnitsAreNumbers, Products
<1>2. d \in Nat
  BY UnitsAreNumbers
<1>3. Ahead(t) = z + d
  BY DEF Ahead
<1>4. z \in Int /\ -SEC_PER_DAY <= z
  <2>1. CASE t.zone = Unspecified
    BY <1>1, <2>1
  <2>2. CASE t.zone # Unspecified
    <3> DEFINE y == t.zone
    <3>1. y \in Int /\ -W <= y /\ z = y * SecPerMin
      BY <1>1, <2>2 DEF Zones
    <3> HIDE DEF y, W, z
    <3>2. y + W \in Nat
      BY <1>1, <3>1
    <3>3. (y + W) * SecPerMin \in Nat /\ (y + W) * SecPerMin = y * SecPerMin + W * SecPerMin
      BY <1>1, <3>1, <3>2
    <3>4. y * SecPerMin \in Int
      BY <1>1, <3>1
    <3> QED
      BY <1>1, <3>1, <3>3, <3>4
  <2> QED
    BY <2>1, <2>2
<1> HIDE DEF z, d
<1> QED
  BY <1>1, <1>2, <1>3, <1>4

(* A call that succeeds sets the clock to the instant that was asked for.  *)
LEMMA SetInstant ==
  ASSUME NEW t \in Times, ValidParameters(t), Supported(t)
  PROVE  /\ Clock!IsDate(t)
         /\ Clock!Instant(t) >= Ahead(t) =>
              Clock!Instant(EpochToEfiTime((EfiTimeToEpoch(t) - Ahead(t)) % UintnSpace))
                = Clock!Instant(t) - Ahead(t)
<1>1. IsTime(t) /\ EfiTimeToEpoch(t) = SecondsFrom1970(t)
  BY TimeRoundTrip
<1>2. t.year < 2106 /\ t.zone \in Zones
  BY DEF Supported, ValidParameters
<1>3. Clock!IsDate(t)
  <2>1. t.day \in 1 .. Clock!DaysIn(t.year, t.month)
    BY <1>1, DaysThatExist DEF IsTime
  <2>2. t.year \in 1970 .. 2105
    BY <1>1, <1>2 DEF IsTime
  <2> QED
    BY <1>1, <2>1, <2>2 DEF IsTime, Clock!IsDate
<1> DEFINE s == SecondsFrom1970(t)   a == Ahead(t)   x == s - a
<1>4. Clock!Instant(t) = s
  BY <1>1, InstantIs
<1>5. s \in Nat /\ s < 49673 * SEC_PER_DAY
  BY <1>1, <1>2, SecondsBack
<1>6. a \in Int /\ -SEC_PER_DAY <= a
  BY <1>2, AheadByADay
<1> SUFFICES ASSUME s >= a
             PROVE  Clock!Instant(EpochToEfiTime(x % UintnSpace)) = x
  BY <1>1, <1>3, <1>4
<1> HIDE DEF s, a
<1>7. x \in Nat /\ x < UintnSpace
  BY <1>5, <1>6, CounterAssumption, UnitsAreNumbers
<1>8. x % UintnSpace = x
  BY <1>7, UnitsAreNumbers
<1> HIDE DEF x
<1> QED
  BY <1>7, <1>8, TimeShown, InstantIs

(* The services implement Calendar, for all units of time, every width of  *)
(* the counter, and whatever is asked for (RealTimeClockLib.c).            *)
THEOREM ImplementsCalendar == Spec => KeepsCalendar
<1>1. TypeOK /\ Init => Clock!Init
  <2> SUFFICES ASSUME TypeOK, Init PROVE Clock!Init
    OBVIOUS
  <2>1. IsTime(EpochToEfiTime(rtc))
    BY TimeShown DEF TypeOK
  <2> QED
    BY <2>1 DEF Init, Clock!Init, IsTime
<1>2. TypeOK /\ [Next]_vars => [Clock!Next]_<<EpochToEfiTime(rtc), TimeZone, asked>>
  <2> SUFFICES ASSUME TypeOK, [Next]_vars
               PROVE  Clock!Next \/ UNCHANGED <<EpochToEfiTime(rtc), TimeZone, asked>>
    OBVIOUS
  <2>1. CASE UNCHANGED <<rtc, TimeZone, asked>>
    BY <2>1
  <2>2. CASE Tick
    <3>1. rtc \in Nat /\ rtc' = rtc + 1 /\ asked' = Unspecified /\ TimeZone' = TimeZone
      BY <2>2 DEF Tick, TypeOK
    <3>2. EpochToEfiTime(rtc') = Clock!Successor(EpochToEfiTime(rtc))
      BY <3>1, NextSecond
    <3> QED
      BY <3>1, <3>2 DEF Clock!Next, Clock!Tick
  <2>3. CASE Reset
    BY <2>3 DEF Reset, Clock!Next, Clock!Reset
  <2>4. ASSUME NEW t \in Times, LibSetTime(t)
        PROVE  Clock!Next \/ UNCHANGED <<rtc, TimeZone, asked>>
    <3>1. CASE /\ ValidParameters(t) /\ Supported(t)
               /\ rtc' = (EfiTimeToEpoch(t) - Ahead(t)) % UintnSpace
               /\ TimeZone' = t.zone /\ asked' = t
      <4>1. Clock!Set(t)
        BY <3>1, SetInstant DEF Clock!Set
      <4> QED
        BY <4>1 DEF Clock!Next
    <3>2. CASE UNCHANGED <<rtc, TimeZone, asked>>
      BY <3>2
    <3> QED
      BY <2>4, <3>1, <3>2 DEF LibSetTime
  <2>5. CASE LibRtcInitialize
    BY <2>5 DEF LibRtcInitialize
  <2> QED
    BY <2>1, <2>2, <2>3, <2>4, <2>5 DEF Next, vars
<1> QED
  BY <1>1, <1>2, TypeCorrect, PTL DEF Spec, KeepsCalendar, Clock!Spec
=============================================================================
