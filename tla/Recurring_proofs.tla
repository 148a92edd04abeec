-------------------------- MODULE Recurring_proofs ---------------------------
(***************************************************************************)
(* That the walks of the code yield the days a template means, and that the *)
(* runs for it skip no period in silence and write no instance over: for    *)
(* every set of templates, days and runs, and however many things go wrong. *)
(***************************************************************************)
EXTENDS Recurring, FiniteSetTheorems, WellFoundedInduction, TLAPS

(* A template stays as it was read. *)
Fixed ==
  /\ trigger = [u \in UnitsOf(anchor) |-> TriggerOf(anchor, u)]
  /\ meant = IF Relative(anchor) THEN {} ELSE DaysDue(anchor, Last, First - 1)

------------------------------------------------------------------------------
(* The least and the greatest of a set of numbers. *)

LEMMA LeastIsThere ==
  ASSUME NEW S, S \subseteq Nat, S # {}
  PROVE  Min(S) \in S /\ \A x \in S : Min(S) <= x
<1> DEFINE Less == {ss \in Nat \X Nat : ss[1] < ss[2]}
<1>1. IsWellFoundedOn(Less, Nat)
  BY NatLessThanWellFounded DEF OpToRel
<1>2. PICK x \in S : \A y \in S : ~(<<y, x>> \in Less)
  <2> HIDE DEF Less
  <2>1. QED BY <1>1, WFMin
<1>3. \A y \in S : x <= y
  <2> SUFFICES ASSUME NEW y \in S PROVE x <= y OBVIOUS
  <2>1. <<y, x>> \notin Less /\ x \in Nat /\ y \in Nat BY <1>2
  <2>2. ~(y < x) BY <2>1
  <2>3. QED BY <2>1, <2>2
<1>4. QED BY <1>3 DEF Min

LEMMA GreatestIsThere ==
  ASSUME NEW S, S \subseteq Nat, S # {}, IsFiniteSet(S)
  PROVE  Max(S) \in S /\ \A x \in S : x <= Max(S)
<1> DEFINE HasGreatest(T) == \E x \in T : \A y \in T : y <= x
           Bad == {T \in SUBSET S : T # {} /\ ~HasGreatest(T)}
           Sizes == {Cardinality(T) : T \in Bad}
<1>1. Bad = {}
  <2> SUFFICES ASSUME Bad # {} PROVE FALSE OBVIOUS
  <2>1. \A T \in Bad : IsFiniteSet(T) /\ Cardinality(T) \in Nat
    BY FS_Subset, FS_CardinalityType
  <2>2. Sizes \subseteq Nat /\ Sizes # {} BY <2>1
  <2> HIDE DEF HasGreatest
  <2>3. PICK T \in Bad : \A U \in Bad : Cardinality(T) <= Cardinality(U)
    <3>1. Min(Sizes) \in Sizes /\ \A x \in Sizes : Min(Sizes) <= x
      <4> HIDE DEF Sizes
      <4>1. QED BY <2>2, LeastIsThere
    <3>2. QED BY <3>1
  <2>4. PICK x \in T : TRUE BY <2>3
  <2>5. /\ IsFiniteSet(T \ {x}) /\ T \ {x} \in SUBSET S
        /\ Cardinality(T \ {x}) = Cardinality(T) - 1 /\ Cardinality(T) \in Nat
    BY <2>1, <2>3, <2>4, FS_RemoveElement
  <2>6. T \ {x} \notin Bad
    BY <2>3, <2>5
  <2>7. CASE T \ {x} = {}
    <3>1. HasGreatest(T) BY <2>3, <2>4, <2>7 DEF HasGreatest
    <3>2. QED BY <2>3, <3>1
  <2>8. CASE HasGreatest(T \ {x})
    <3>1. PICK m \in T \ {x} : \A y \in T \ {x} : y <= m
      BY <2>8 DEF HasGreatest
    <3>2. x \in Nat /\ T \subseteq Nat BY <2>3, <2>4
    <3>3. CASE x <= m
      <4>1. HasGreatest(T) BY <3>1, <3>3 DEF HasGreatest
      <4>2. QED BY <2>3, <4>1
    <3>4. CASE m < x
      <4>1. \A y \in T : y <= x BY <3>1, <3>2, <3>4
      <4>2. HasGreatest(T) BY <2>4, <4>1 DEF HasGreatest
      <4>3. QED BY <2>3, <4>2
    <3>5. QED BY <3>1, <3>2, <3>3, <3>4
  <2>9. QED BY <2>5, <2>6, <2>7, <2>8
<1>2. PICK x \in S : \A y \in S : y <= x
  BY <1>1
<1>3. QED
  <2>1. \A y \in S : x >= y BY <1>2
  <2>2. Max(S) \in S /\ \A y \in S : Max(S) >= y BY <2>1 DEF Max
  <2>3. QED BY <2>2

(* What holds of 0 and passes on to the next number holds of all: there would be a least
   one it does not hold of.                                                              *)
LEMMA Induction ==
  ASSUME NEW S, 0 \in S, \A n \in Nat : n \in S => n + 1 \in S
  PROVE  Nat \subseteq S
<1> DEFINE Less == {ss \in Nat \X Nat : ss[1] < ss[2]}
           Rest == Nat \ S
<1> SUFFICES ASSUME Rest # {} PROVE FALSE OBVIOUS
<1>1. IsWellFoundedOn(Less, Nat)
  BY NatLessThanWellFounded DEF OpToRel
<1>2. PICK x \in Rest : \A y \in Rest : ~(<<y, x>> \in Less)
  <2> HIDE DEF Less, Rest
  <2>1. Rest \subseteq Nat BY DEF Rest
  <2>2. QED BY <1>1, <2>1, WFMin
<1>3. x \in Nat /\ x # 0 BY <1>2
<1>4. x - 1 \in Nat /\ (x - 1) + 1 = x BY <1>3
<1>5. <<x - 1, x>> \in Less BY <1>3, <1>4
<1>6. x - 1 \in S BY <1>2, <1>4, <1>5
<1>7. QED BY <1>2, <1>4, <1>6

------------------------------------------------------------------------------
(* The calendar *)

(* The days before a year, and in a year those before a month. *)
Before(y) == 365 * (y - 1) + (y - 1) \div 4 - (y - 1) \div 100 + (y - 1) \div 400
Leap(y) == IF IsLeap(y) THEN 1 ELSE 0
BeforeMonth(y, m) ==
  <<0, 31, 59, 90, 120, 151, 181, 212, 243, 273, 304, 334>>[m] + (IF m > 2 /\ IsLeap(y) THEN 1 ELSE 0)

LEMMA DayIs ==
  ASSUME NEW y \in Int, NEW m \in 1 .. 12, NEW d \in Int
  PROVE  DayOf(y, m, d) = Before(y) + BeforeMonth(y, m) + d
BY DEF DayOf, Before, BeforeMonth

LEMMA YearIsLong ==
  ASSUME NEW y \in Int
  PROVE  /\ Before(y) \in Int /\ Leap(y) \in {0, 1}
         /\ Before(y + 1) = Before(y) + 365 + Leap(y)
<1>1. y \div 4 - (y - 1) \div 4 = IF y % 4 = 0 THEN 1 ELSE 0 OBVIOUS
<1>2. y \div 100 - (y - 1) \div 100 = IF y % 100 = 0 THEN 1 ELSE 0 OBVIOUS
<1>3. y \div 400 - (y - 1) \div 400 = IF y % 400 = 0 THEN 1 ELSE 0 OBVIOUS
<1>4. /\ y \div 4 \in Int /\ (y - 1) \div 4 \in Int /\ y \div 100 \in Int /\ (y - 1) \div 100 \in Int
      /\ y \div 400 \in Int /\ (y - 1) \div 400 \in Int
  OBVIOUS
<1>5. (y % 400 = 0 => y % 100 = 0) /\ (y % 100 = 0 => y % 4 = 0) OBVIOUS
<1>6. (y + 1) - 1 = y OBVIOUS
<1> DEFINE p == y \div 4
           q == (y - 1) \div 4
           r == y \div 100
           s == (y - 1) \div 100
           t == y \div 400
           u == (y - 1) \div 400
<1>7. Before(y) = 365 * (y - 1) + q - s + u BY DEF Before
<1>8. Before(y + 1) = 365 * y + p - r + t BY <1>6 DEF Before
<1>9. p \in Int /\ q \in Int /\ r \in Int /\ s \in Int /\ t \in Int /\ u \in Int BY <1>4
<1>10. (p - q) - (r - s) + (t - u) = Leap(y) BY <1>1, <1>2, <1>3, <1>5 DEF Leap, IsLeap
<1> HIDE DEF p, q, r, s, t, u
<1>11. QED BY <1>7, <1>8, <1>9, <1>10 DEF Leap

(* The months of a year. *)
LEMMA TheMonths ==
  ASSUME NEW y \in Int
  PROVE  /\ BeforeMonth(y, 1) = 0 /\ BeforeMonth(y, 2) = 31
         /\ BeforeMonth(y, 3) = 59 + Leap(y) /\ BeforeMonth(y, 4) = 90 + Leap(y)
         /\ BeforeMonth(y, 5) = 120 + Leap(y) /\ BeforeMonth(y, 6) = 151 + Leap(y)
         /\ BeforeMonth(y, 7) = 181 + Leap(y) /\ BeforeMonth(y, 8) = 212 + Leap(y)
         /\ BeforeMonth(y, 9) = 243 + Leap(y) /\ BeforeMonth(y, 10) = 273 + Leap(y)
         /\ BeforeMonth(y, 11) = 304 + Leap(y) /\ BeforeMonth(y, 12) = 334 + Leap(y)
         /\ MonthLength(y, 2) = 28 + Leap(y)
         /\ \A m \in {1, 3, 5, 7, 8, 10, 12} : MonthLength(y, m) = 31
         /\ \A m \in {4, 6, 9, 11} : MonthLength(y, m) = 30
BY DEF BeforeMonth, MonthLength, Leap

(* Months follow one another, and the last ends with the year. *)
LEMMA MonthsFollow ==
  ASSUME NEW y \in Int, NEW m \in 1 .. 12
  PROVE  /\ BeforeMonth(y, m) \in Nat /\ MonthLength(y, m) \in 28 .. 31
         /\ m < 12 => BeforeMonth(y, m + 1) = BeforeMonth(y, m) + MonthLength(y, m)
         /\ m = 12 => BeforeMonth(y, m) + MonthLength(y, m) = 365 + Leap(y)
         /\ \A k \in 1 .. 12 : m < k => BeforeMonth(y, m) + MonthLength(y, m) <= BeforeMonth(y, k)
<1> DEFINE B(k) == BeforeMonth(y, k)
           L(k) == MonthLength(y, k)
           one == Leap(y)
<1>1. one \in {0, 1} BY YearIsLong
<1>2. /\ B(1) = 0 /\ B(2) = 31 /\ B(3) = 59 + one /\ B(4) = 90 + one /\ B(5) = 120 + one
      /\ B(6) = 151 + one /\ B(7) = 181 + one /\ B(8) = 212 + one /\ B(9) = 243 + one
      /\ B(10) = 273 + one /\ B(11) = 304 + one /\ B(12) = 334 + one
  BY TheMonths
<1>3. /\ L(1) = 31 /\ L(2) = 28 + one /\ L(3) = 31 /\ L(4) = 30 /\ L(5) = 31 /\ L(6) = 30
      /\ L(7) = 31 /\ L(8) = 31 /\ L(9) = 30 /\ L(10) = 31 /\ L(11) = 30 /\ L(12) = 31
  BY TheMonths
<1> HIDE DEF B, L, one
<1>4. /\ \A k \in 1 .. 12 : B(k) \in Nat /\ L(k) \in 28 .. 31
      /\ \A k \in 1 .. 11 : B(k + 1) = B(k) + L(k)
      /\ B(12) + L(12) = 365 + one
  BY <1>1, <1>2, <1>3
<1>5. \A k \in 1 .. 12 : m < k => B(m) + L(m) <= B(k)
  <2>1. CASE m \in 1 .. 4 BY <1>1, <1>2, <1>3, <2>1
  <2>2. CASE m \in 5 .. 8 BY <1>1, <1>2, <1>3, <2>2
  <2>3. CASE m \in 9 .. 12 BY <1>1, <1>2, <1>3, <2>3
  <2>4. QED BY <2>1, <2>2, <2>3
<1>6. QED BY <1>4, <1>5 DEF B, L, one

LEMMA MonthNumbers ==
  ASSUME NEW y \in Int, NEW m \in 1 .. 12
  PROVE  BeforeMonth(y, m) \in Nat /\ MonthLength(y, m) \in 28 .. 31
BY MonthsFollow, Zenon

LEMMA MonthEnds ==
  ASSUME NEW y \in Int, NEW m \in 1 .. 12
  PROVE  BeforeMonth(y, m) + MonthLength(y, m) <= 365 + Leap(y)
<1> DEFINE end == BeforeMonth(y, m) + MonthLength(y, m)
<1>1. end \in Int /\ Leap(y) \in {0, 1}
  <2>1. BeforeMonth(y, m) \in Nat /\ MonthLength(y, m) \in 28 .. 31 BY MonthNumbers, Zenon
  <2>2. QED BY <2>1, YearIsLong
<1>2. /\ m = 12 => end = 365 + Leap(y)
      /\ \A k \in 1 .. 12 : m < k => end <= BeforeMonth(y, k)
  BY MonthsFollow, Zenon
<1>3. BeforeMonth(y, 12) = 334 + Leap(y) BY TheMonths
<1> HIDE DEF end
<1>4. end <= 365 + Leap(y) BY <1>1, <1>2, <1>3
<1>5. QED BY <1>4 DEF end

(* A year has 365 days or 366. *)
LEMMA LaterYear ==
  ASSUME NEW y \in Int, NEW z \in Int, y <= z
  PROVE  /\ Before(y) \in Int /\ Before(z) \in Int
         /\ Before(y) + 365 * (z - y) <= Before(z) /\ Before(z) <= Before(y) + 366 * (z - y)
<1> DEFINE G == {k \in Nat : /\ Before(y + k) \in Int
                             /\ Before(y) + 365 * k <= Before(y + k)
                             /\ Before(y + k) <= Before(y) + 366 * k}
<1>1. Before(y) \in Int BY YearIsLong
<1>2. 0 \in G BY <1>1
<1>3. ASSUME NEW k \in Nat, k \in G PROVE k + 1 \in G
  <2>1. y + k \in Int /\ y + (k + 1) = (y + k) + 1 OBVIOUS
  <2>2. Leap(y + k) \in {0, 1} /\ Before((y + k) + 1) = Before(y + k) + 365 + Leap(y + k)
    BY <2>1, YearIsLong
  <2>3. /\ Before(y + k) \in Int
        /\ Before(y) + 365 * k <= Before(y + k) /\ Before(y + k) <= Before(y) + 366 * k
    BY <1>3
  <2>4. QED BY <1>1, <2>1, <2>2, <2>3
<1>4. Nat \subseteq G
  <2> HIDE DEF G
  <2>1. QED BY <1>2, <1>3, Induction
<1>5. z - y \in Nat /\ y + (z - y) = z OBVIOUS
<1>6. z - y \in G BY <1>4, <1>5
<1>7. QED BY <1>1, <1>5, <1>6

(* Dates: a year, a month and a day it has. *)
IsDate(y, m, d) == y \in Int /\ m \in 1 .. 12 /\ d \in 1 .. MonthLength(y, m)

(* Dates of a later month are later days, and the first day of a month follows the
   last one of the month before.                                                   *)
LEMMA LaterMonth ==
  ASSUME NEW y, NEW m, NEW d, NEW z, NEW k, NEW e, IsDate(y, m, d), IsDate(z, k, e),
         12 * y + m < 12 * z + k
  PROVE  DayOf(y, m, d) < DayOf(z, k, e)
<1>1. /\ DayOf(y, m, d) = Before(y) + BeforeMonth(y, m) + d
      /\ DayOf(z, k, e) = Before(z) + BeforeMonth(z, k) + e
  BY DayIs DEF IsDate
<1>2. /\ BeforeMonth(y, m) \in Nat /\ MonthLength(y, m) \in 28 .. 31 /\ BeforeMonth(z, k) \in Nat
      /\ MonthLength(z, k) \in 28 .. 31 /\ y \in Int /\ z \in Int /\ m \in 1 .. 12 /\ k \in 1 .. 12
      /\ d \in 1 .. MonthLength(y, m) /\ e \in 1 .. MonthLength(z, k)
  BY MonthNumbers DEF IsDate
<1>3. Before(y) \in Int /\ Before(z) \in Int /\ Leap(y) \in {0, 1} BY <1>2, YearIsLong
<1>4. CASE y = z
  <2>1. m < k BY <1>2, <1>4
  <2>2. BeforeMonth(y, m) + MonthLength(y, m) <= BeforeMonth(y, k) BY <1>2, <2>1, MonthsFollow
  <2>3. QED BY <1>1, <1>2, <1>3, <1>4, <2>2
<1>5. CASE y # z
  <2>1. y + 1 \in Int /\ y + 1 <= z BY <1>2, <1>5
  <2>2. Before(y + 1) = Before(y) + 365 + Leap(y) BY <1>2, YearIsLong
  <2>3. Before(z) >= Before(y + 1)
    <3>1. Before(y + 1) + 365 * (z - (y + 1)) <= Before(z) /\ Before(y + 1) \in Int BY <1>2, <2>1, LaterYear
    <3>2. QED BY <1>2, <1>3, <2>1, <3>1
  <2>4. BeforeMonth(y, m) + MonthLength(y, m) <= 365 + Leap(y) BY <1>2, MonthEnds
  <2>5. QED BY <1>1, <1>2, <1>3, <2>2, <2>3, <2>4
<1>6. QED BY <1>4, <1>5

(* The year a day is in. *)
LEMMA TheYear ==
  ASSUME NEW n \in Nat \ {0}, NEW y \in Int, Before(y) < n, n <= Before(y + 1)
  PROVE  YearOf(n) = y /\ y >= 1
<1> DEFINE In(x) == DayOf(x, 1, 1) <= n /\ n < DayOf(x + 1, 1, 1)
           range == (n \div 366)..(n \div 365 + 1)
<1>1. \A x \in Int : /\ Before(x) \in Int /\ Before(x + 1) \in Int
                     /\ In(x) <=> Before(x) < n /\ n <= Before(x + 1)
  <2> SUFFICES ASSUME NEW x \in Int
               PROVE  /\ Before(x) \in Int /\ Before(x + 1) \in Int
                      /\ In(x) <=> Before(x) < n /\ n <= Before(x + 1)
    OBVIOUS
  <2>1. x + 1 \in Int OBVIOUS
  <2>2. Before(x) \in Int /\ Before(x + 1) \in Int BY <2>1, YearIsLong
  <2>3. BeforeMonth(x, 1) = 0 /\ BeforeMonth(x + 1, 1) = 0 BY <2>1, TheMonths
  <2>4. DayOf(x, 1, 1) = Before(x) + 1 /\ DayOf(x + 1, 1, 1) = Before(x + 1) + 1
    BY <2>1, <2>2, <2>3, DayIs
  <2>5. QED BY <2>2, <2>4
<1>2. Before(1) = 0 BY DEF Before
<1>3. y >= 1
  <2> SUFFICES ASSUME y < 1 PROVE FALSE OBVIOUS
  <2>1. y + 1 \in Int /\ y + 1 <= 1 OBVIOUS
  <2>2. Before(y + 1) \in Int /\ Before(y + 1) + 365 * (1 - (y + 1)) <= Before(1)
    BY <2>1, LaterYear
  <2>3. QED BY <1>2, <2>1, <2>2
<1>4. y \in range
  <2>1. Before(y) >= 365 * (y - 1) BY <1>2, <1>3, LaterYear
  <2>2. Before(y + 1) <= 366 * y
    <3>1. y + 1 \in Int /\ 1 <= y + 1 /\ (y + 1) - 1 = y BY <1>3
    <3>2. Before(y + 1) <= Before(1) + 366 * ((y + 1) - 1) BY <3>1, LaterYear
    <3>3. QED BY <1>2, <3>1, <3>2
  <2>3. 365 * (y - 1) < n /\ n <= 366 * y BY <1>1, <2>1, <2>2
  <2>4. n \div 366 <= y /\ y - 1 <= n \div 365 BY <1>3, <2>3
  <2>5. QED BY <2>4
<1>5. \A x \in range : In(x) => x = y
  <2> SUFFICES ASSUME NEW x \in Int, In(x), x # y PROVE FALSE OBVIOUS
  <2>1. Before(x) < n /\ n <= Before(x + 1) /\ Before(x) \in Int /\ Before(x + 1) \in Int
    BY <1>1
  <2>2. Before(y) \in Int /\ Before(y + 1) \in Int BY <1>1
  <2>3. CASE x < y
    <3>1. x + 1 \in Int /\ x + 1 <= y BY <2>3
    <3>2. Before(x + 1) + 365 * (y - (x + 1)) <= Before(y) BY <3>1, LaterYear
    <3>3. QED BY <2>1, <2>2, <3>1, <3>2
  <2>4. CASE y < x
    <3>1. y + 1 \in Int /\ y + 1 <= x BY <2>4
    <3>2. Before(y + 1) + 365 * (x - (y + 1)) <= Before(x) BY <3>1, LaterYear
    <3>3. QED BY <2>1, <2>2, <3>1, <3>2
  <2>5. QED BY <2>3, <2>4
<1>6. In(y) BY <1>1
<1>7. YearOf(n) = CHOOSE x \in range : In(x) BY DEF YearOf
<1> HIDE DEF In, range
<1>8. QED BY <1>3, <1>4, <1>5, <1>6, <1>7

(* Each day is in a year. *)
LEMMA SomeYear ==
  ASSUME NEW n \in Nat \ {0}
  PROVE  \E y \in Nat \ {0} : Before(y) < n /\ n <= Before(y + 1)
<1> DEFINE G == {k \in Nat : \E y \in Nat \ {0} : Before(y) < k + 1 /\ k + 1 <= Before(y + 1)}
<1>1. 0 \in G
  <2>1. Before(1) = 0 /\ Before(1 + 1) = 365 BY DEF Before
  <2>2. QED BY <2>1
<1>2. ASSUME NEW k \in Nat, k \in G PROVE k + 1 \in G
  <2>1. PICK y \in Nat \ {0} : Before(y) < k + 1 /\ k + 1 <= Before(y + 1) BY <1>2
  <2>2. /\ Before(y) \in Int /\ Before(y + 1) \in Int /\ Leap(y + 1) \in {0, 1}
        /\ Before((y + 1) + 1) = Before(y + 1) + 365 + Leap(y + 1)
    BY YearIsLong
  <2>3. CASE (k + 1) + 1 <= Before(y + 1) BY <2>1, <2>2, <2>3
  <2>4. CASE Before(y + 1) < (k + 1) + 1
    <3>1. y + 1 \in Nat \ {0} /\ (k + 1) + 1 <= Before((y + 1) + 1) BY <2>1, <2>2
    <3>2. QED BY <2>4, <3>1
  <2>5. QED BY <2>2, <2>3, <2>4
<1>3. Nat \subseteq G
  <2> HIDE DEF G
  <2>1. QED BY <1>1, <1>2, Induction
<1>4. n - 1 \in Nat /\ (n - 1) + 1 = n OBVIOUS
<1>5. n - 1 \in G BY <1>3, <1>4
<1>6. QED BY <1>4, <1>5

(* A date is told from its day. *)
LEMMA DateOf ==
  ASSUME NEW y, NEW m, NEW d, IsDate(y, m, d), y >= 1
  PROVE  /\ DayOf(y, m, d) \in Nat \ {0}
         /\ YearOf(DayOf(y, m, d)) = y /\ MonthOf(DayOf(y, m, d)) = m
         /\ DayInMonth(DayOf(y, m, d)) = d
<1> DEFINE n == DayOf(y, m, d)
<1>1. /\ y \in Int /\ m \in 1 .. 12 /\ d \in 1 .. MonthLength(y, m) BY DEF IsDate
<1>2. /\ n = Before(y) + BeforeMonth(y, m) + d /\ DayOf(y, m, 1) = Before(y) + BeforeMonth(y, m) + 1
  BY <1>1, DayIs
<1>3. /\ BeforeMonth(y, m) \in Nat /\ MonthLength(y, m) \in 28 .. 31
      /\ Before(y) \in Int /\ Before(y + 1) \in Int /\ Leap(y) \in {0, 1}
      /\ Before(y + 1) = Before(y) + 365 + Leap(y)
  <2>1. BeforeMonth(y, m) \in Nat /\ MonthLength(y, m) \in 28 .. 31 BY <1>1, MonthNumbers, Zenon
  <2>2. QED BY <1>1, <2>1, YearIsLong
<1>4. BeforeMonth(y, m) + MonthLength(y, m) <= 365 + Leap(y) BY <1>1, MonthEnds
<1>5. Before(y) >= 0
  <2>1. Before(1) = 0 BY DEF Before
  <2>2. Before(1) + 365 * (y - 1) <= Before(y) BY <1>1, LaterYear
  <2>3. QED BY <1>1, <1>3, <2>1, <2>2
<1>6. n \in Nat \ {0} /\ Before(y) < n /\ n <= Before(y + 1) BY <1>1, <1>2, <1>3, <1>4, <1>5
<1>7. YearOf(n) = y BY <1>1, <1>6, TheYear
<1>8. MonthOf(n) = m
  <2> DEFINE In(k) == n - DayOf(y, k, 1) \in 0..(MonthLength(y, k) - 1)
  <2>1. In(m) BY <1>1, <1>2, <1>3
  <2>2. \A k \in 1 .. 12 : In(k) => k = m
    <3> SUFFICES ASSUME NEW k \in 1 .. 12, In(k), k # m PROVE FALSE OBVIOUS
    <3>1. DayOf(y, k, 1) = Before(y) + BeforeMonth(y, k) + 1 BY <1>1, DayIs
    <3>2. BeforeMonth(y, k) \in Nat /\ MonthLength(y, k) \in 28 .. 31 BY <1>1, MonthNumbers
    <3>3. \/ BeforeMonth(y, m) + MonthLength(y, m) <= BeforeMonth(y, k)
          \/ BeforeMonth(y, k) + MonthLength(y, k) <= BeforeMonth(y, m)
      <4>1. m < k \/ k < m BY <1>1
      <4>2. CASE m < k BY <1>1, <4>2, MonthsFollow, Zenon
      <4>3. CASE k < m BY <1>1, <4>3, MonthsFollow, Zenon
      <4>4. QED BY <4>1, <4>2, <4>3
    <3>4. QED BY <1>1, <1>2, <1>3, <3>1, <3>2, <3>3
  <2>3. MonthOf(n) = CHOOSE k \in 1 .. 12 : In(k) BY <1>7 DEF MonthOf
  <2> HIDE DEF In
  <2>4. QED BY <1>1, <2>1, <2>2, <2>3
<1>9. DayInMonth(n) = d
  <2>1. DayInMonth(n) = n - DayOf(y, m, 1) + 1 BY <1>7, <1>8 DEF DayInMonth
  <2>2. QED BY <1>1, <1>2, <1>3, <2>1
<1>10. QED BY <1>6, <1>7, <1>8, <1>9

(* Every day has a date. *)
LEMMA EveryDay ==
  ASSUME NEW n \in Nat \ {0}
  PROVE  /\ IsDate(YearOf(n), MonthOf(n), DayInMonth(n)) /\ YearOf(n) >= 1
         /\ n = DayOf(YearOf(n), MonthOf(n), DayInMonth(n))
<1>1. PICK y \in Nat \ {0} : Before(y) < n /\ n <= Before(y + 1) BY SomeYear
<1> DEFINE B(k) == BeforeMonth(y, k)
           L(k) == MonthLength(y, k)
           one == Leap(y)
           i == n - Before(y)
<1>2. one \in {0, 1} /\ Before(y) \in Int /\ Before(y + 1) = Before(y) + 365 + one BY YearIsLong
<1>3. i \in 1 .. 365 + one BY <1>1, <1>2
<1>4. /\ B(1) = 0 /\ B(2) = 31 /\ B(3) = 59 + one /\ B(4) = 90 + one /\ B(5) = 120 + one
      /\ B(6) = 151 + one /\ B(7) = 181 + one /\ B(8) = 212 + one /\ B(9) = 243 + one
      /\ B(10) = 273 + one /\ B(11) = 304 + one /\ B(12) = 334 + one
  BY TheMonths
<1>5. /\ L(1) = 31 /\ L(2) = 28 + one /\ L(3) = 31 /\ L(4) = 30 /\ L(5) = 31 /\ L(6) = 30
      /\ L(7) = 31 /\ L(8) = 31 /\ L(9) = 30 /\ L(10) = 31 /\ L(11) = 30 /\ L(12) = 31
  BY TheMonths
<1>6. \E m \in 1 .. 12 : i - B(m) \in 1 .. L(m)
  <2> HIDE DEF B, L, one, i
  <2> DEFINE month == IF i <= 31 THEN 1 ELSE IF i <= 59 + one THEN 2 ELSE IF i <= 90 + one THEN 3
                      ELSE IF i <= 120 + one THEN 4 ELSE IF i <= 151 + one THEN 5
                      ELSE IF i <= 181 + one THEN 6 ELSE IF i <= 212 + one THEN 7
                      ELSE IF i <= 243 + one THEN 8 ELSE IF i <= 273 + one THEN 9
                      ELSE IF i <= 304 + one THEN 10 ELSE IF i <= 334 + one THEN 11 ELSE 12
  <2>1. month \in 1 .. 12 OBVIOUS
  <2>2. i - B(month) \in 1 .. L(month)
    <3>1. CASE i <= 120 + one BY <1>2, <1>3, <1>4, <1>5, <3>1
    <3>2. CASE 120 + one < i /\ i <= 243 + one BY <1>2, <1>3, <1>4, <1>5, <3>2
    <3>3. CASE 243 + one < i BY <1>2, <1>3, <1>4, <1>5, <3>3
    <3>4. QED BY <1>2, <1>3, <3>1, <3>2, <3>3
  <2> HIDE DEF month
  <2>3. QED BY <2>1, <2>2
<1>7. PICK m \in 1 .. 12 : i - B(m) \in 1 .. L(m) BY <1>6
<1> DEFINE d == i - B(m)
<1>8. IsDate(y, m, d) /\ y >= 1 BY <1>7 DEF IsDate
<1>9. DayOf(y, m, d) = n
  <2>4. y \in Int BY <1>1
  <2>1. BeforeMonth(y, m) \in Nat BY <1>7, <2>4, MonthNumbers, Zenon
  <2>2. DayOf(y, m, d) = Before(y) + B(m) + d BY <1>8, DayIs DEF IsDate
  <2>3. QED BY <1>2, <2>1, <2>2
<1> HIDE DEF d
<1>10. YearOf(n) = y /\ MonthOf(n) = m /\ DayInMonth(n) = d BY <1>8, <1>9, DateOf
<1>11. QED BY <1>8, <1>9, <1>10

(* The day after a date. *)
LEMMA DayAfter ==
  ASSUME NEW y, NEW m, NEW d, IsDate(y, m, d)
  PROVE  /\ d < MonthLength(y, m) => IsDate(y, m, d + 1) /\ DayOf(y, m, d + 1) = DayOf(y, m, d) + 1
         /\ d = MonthLength(y, m) /\ m < 12 =>
              IsDate(y, m + 1, 1) /\ DayOf(y, m + 1, 1) = DayOf(y, m, d) + 1
         /\ d = MonthLength(y, m) /\ m = 12 =>
              IsDate(y + 1, 1, 1) /\ DayOf(y + 1, 1, 1) = DayOf(y, m, d) + 1
<1>1. y \in Int /\ m \in 1 .. 12 /\ d \in 1 .. MonthLength(y, m) BY DEF IsDate
<1>2. BeforeMonth(y, m) \in Nat /\ MonthLength(y, m) \in 28 .. 31 BY <1>1, MonthNumbers, Zenon
<1>3. Before(y) \in Int /\ Leap(y) \in {0, 1} /\ Before(y + 1) = Before(y) + 365 + Leap(y)
  BY <1>1, YearIsLong
<1>4. DayOf(y, m, d) = Before(y) + BeforeMonth(y, m) + d BY <1>1, DayIs
<1>5. ASSUME d < MonthLength(y, m)
      PROVE  IsDate(y, m, d + 1) /\ DayOf(y, m, d + 1) = DayOf(y, m, d) + 1
  <2>1. d + 1 \in 1 .. MonthLength(y, m) BY <1>1, <1>2, <1>5
  <2>2. d + 1 \in Int BY <1>1, <1>2
  <2>3. DayOf(y, m, d + 1) = Before(y) + BeforeMonth(y, m) + (d + 1) BY <1>1, <2>2, DayIs, Zenon
  <2>4. QED BY <1>1, <1>2, <1>3, <1>4, <2>1, <2>3 DEF IsDate
<1>6. ASSUME d = MonthLength(y, m), m < 12
      PROVE  IsDate(y, m + 1, 1) /\ DayOf(y, m + 1, 1) = DayOf(y, m, d) + 1
  <2>1. m + 1 \in 1 .. 12 BY <1>1, <1>6
  <2>2. MonthLength(y, m + 1) \in 28 .. 31 BY <1>1, <2>1, MonthNumbers, Zenon
  <2>3. DayOf(y, m + 1, 1) = Before(y) + BeforeMonth(y, m + 1) + 1 BY <1>1, <2>1, DayIs
  <2>4. BeforeMonth(y, m + 1) = BeforeMonth(y, m) + MonthLength(y, m)
    BY <1>1, <1>6, MonthsFollow, Zenon
  <2>5. QED BY <1>1, <1>2, <1>3, <1>4, <1>6, <2>1, <2>2, <2>3, <2>4 DEF IsDate
<1>7. ASSUME d = MonthLength(y, m), m = 12
      PROVE  IsDate(y + 1, 1, 1) /\ DayOf(y + 1, 1, 1) = DayOf(y, m, d) + 1
  <2>1. y + 1 \in Int /\ 1 \in 1 .. 12 BY <1>1
  <2>2. MonthLength(y + 1, 1) \in 28 .. 31 BY <2>1, MonthNumbers, Zenon
  <2>3. DayOf(y + 1, 1, 1) = Before(y + 1) + BeforeMonth(y + 1, 1) + 1 BY <2>1, DayIs
  <2>4. BeforeMonth(y, m) + MonthLength(y, m) = 365 + Leap(y) BY <1>1, <1>7, MonthsFollow, Zenon
  <2>5. BeforeMonth(y + 1, 1) = 0 BY <2>1, TheMonths
  <2>6. QED BY <1>1, <1>2, <1>3, <1>4, <1>7, <2>1, <2>2, <2>3, <2>4, <2>5 DEF IsDate
<1>8. QED BY <1>5, <1>6, <1>7

(* A day is the last of its month where its month has no further day. *)
LEMMA LastDay ==
  ASSUME NEW y, NEW m, NEW d, IsDate(y, m, d), y >= 1
  PROVE  IsLastOfMonth(DayOf(y, m, d)) <=> d = MonthLength(y, m)
<1> DEFINE n == DayOf(y, m, d)
<1>1. y \in Int /\ m \in 1 .. 12 /\ d \in 1 .. MonthLength(y, m) /\ MonthLength(y, m) \in 28 .. 31
  BY MonthNumbers DEF IsDate
<1>2. MonthOf(n) = m BY DateOf
<1>3. ASSUME d < MonthLength(y, m) PROVE MonthOf(n + 1) = m
  <2>1. IsDate(y, m, d + 1) /\ DayOf(y, m, d + 1) = n + 1 BY <1>3, DayAfter
  <2>2. MonthOf(DayOf(y, m, d + 1)) = m BY <2>1, DateOf
  <2>3. QED BY <2>1, <2>2
<1>4. ASSUME d = MonthLength(y, m), m < 12 PROVE MonthOf(n + 1) = m + 1
  <2>1. IsDate(y, m + 1, 1) /\ DayOf(y, m + 1, 1) = n + 1 BY <1>4, DayAfter
  <2>2. MonthOf(DayOf(y, m + 1, 1)) = m + 1 BY <2>1, DateOf
  <2>3. QED BY <2>1, <2>2
<1>5. ASSUME d = MonthLength(y, m), m = 12 PROVE MonthOf(n + 1) = 1
  <2>1. IsDate(y + 1, 1, 1) /\ DayOf(y + 1, 1, 1) = n + 1 BY <1>5, DayAfter
  <2>2. y + 1 >= 1 BY <1>1
  <2>3. MonthOf(DayOf(y + 1, 1, 1)) = 1 BY <2>1, <2>2, DateOf
  <2>4. QED BY <2>1, <2>3
<1> HIDE DEF n
<1>6. IsLastOfMonth(n) <=> d = MonthLength(y, m)
  BY <1>1, <1>2, <1>3, <1>4, <1>5 DEF IsLastOfMonth
<1>7. QED BY <1>6 DEF n

(* Months are counted on from the first year. *)
MonthNo(n) == 12 * YearOf(n) + MonthOf(n) - 1

LEMMA MonthsGoOn ==
  ASSUME NEW n \in Nat \ {0}, NEW k \in Nat \ {0}, n <= k
  PROVE  /\ MonthNo(n) \in Nat /\ MonthNo(k) \in Nat /\ MonthNo(n) <= MonthNo(k)
         /\ YearOf(n) \in Nat \ {0} /\ YearOf(k) \in Nat \ {0} /\ YearOf(n) <= YearOf(k)
<1>1. /\ IsDate(YearOf(n), MonthOf(n), DayInMonth(n)) /\ YearOf(n) >= 1
      /\ n = DayOf(YearOf(n), MonthOf(n), DayInMonth(n))
  BY EveryDay
<1>2. /\ IsDate(YearOf(k), MonthOf(k), DayInMonth(k)) /\ YearOf(k) >= 1
      /\ k = DayOf(YearOf(k), MonthOf(k), DayInMonth(k))
  BY EveryDay
<1>3. YearOf(n) \in Int /\ YearOf(k) \in Int /\ MonthOf(n) \in 1 .. 12 /\ MonthOf(k) \in 1 .. 12
  BY <1>1, <1>2 DEF IsDate
<1>4. ~(12 * YearOf(k) + MonthOf(k) < 12 * YearOf(n) + MonthOf(n))
  <2> SUFFICES ASSUME 12 * YearOf(k) + MonthOf(k) < 12 * YearOf(n) + MonthOf(n) PROVE FALSE OBVIOUS
  <2>1. DayOf(YearOf(k), MonthOf(k), DayInMonth(k)) < DayOf(YearOf(n), MonthOf(n), DayInMonth(n))
    BY <1>1, <1>2, LaterMonth
  <2>2. QED BY <1>1, <1>2, <2>1
<1>5. QED BY <1>1, <1>2, <1>3, <1>4 DEF MonthNo

------------------------------------------------------------------------------
(* Anchors *)

Forms == {"month_end", "month_start", "quarter_end_plus", "fixed", "T_before"}

(* An anchor as the patterns let it through. *)
IsAnchor(a) ==
  /\ a.form \in Forms /\ a.n \in Nat
  /\ a.form \in {"fixed", "T_before"} => a.month \in 1..12 /\ a.day \in 1..MonthLength(2000, a.month)

(* The date a period is about, and how far from it the trigger is. *)
AboutMonth(a, u) ==
  IF a.form \in {"month_end", "month_start"} THEN u
  ELSE IF a.form = "quarter_end_plus" THEN 3 * u + 2 ELSE 12 * u + a.month - 1
AboutYear(a, u) == AboutMonth(a, u) \div 12
MonthIn(a, u) == (AboutMonth(a, u) % 12) + 1
DayIn(a, u) ==
  IF a.form = "month_start" THEN 1
  ELSE IF a.form \in {"month_end", "quarter_end_plus"} THEN MonthLength(AboutYear(a, u), MonthIn(a, u))
  ELSE a.day
About(a, u) == DayOf(AboutYear(a, u), MonthIn(a, u), DayIn(a, u))
Shift(a) ==
  IF a.form = "quarter_end_plus" THEN a.n ELSE IF a.form = "T_before" THEN 0 - a.n ELSE 0

LEMMA AboutType ==
  ASSUME NEW a, IsAnchor(a), NEW u \in Int
  PROVE  /\ AboutMonth(a, u) \in Int /\ AboutYear(a, u) \in Int /\ MonthIn(a, u) \in 1 .. 12
         /\ 12 * AboutYear(a, u) + MonthIn(a, u) = AboutMonth(a, u) + 1
         /\ DayIn(a, u) \in Nat \ {0} /\ Shift(a) \in Int /\ About(a, u) \in Int
<1>1. AboutMonth(a, u) \in Int BY DEF AboutMonth, IsAnchor, Forms
<1> DEFINE M == AboutMonth(a, u)
<1>2. M \div 12 \in Int /\ (M % 12) + 1 \in 1 .. 12 /\ 12 * (M \div 12) + (M % 12) + 1 = M + 1
  <2> HIDE DEF M
  <2>1. M \in Int BY <1>1 DEF M
  <2>2. QED BY <2>1
<1>3. AboutYear(a, u) \in Int /\ MonthIn(a, u) \in 1 .. 12
  BY <1>2 DEF AboutYear, MonthIn
<1>4. MonthLength(AboutYear(a, u), MonthIn(a, u)) \in 28 .. 31 BY <1>3, MonthNumbers, Zenon
<1>5. MonthLength(2000, a.month) \in Int BY DEF MonthLength
<1>6. DayIn(a, u) \in Nat \ {0} BY <1>4, <1>5 DEF DayIn, IsAnchor, Forms
<1>7. Shift(a) \in Int BY DEF Shift, IsAnchor
<1>8. About(a, u) \in Int
  <2>1. Before(AboutYear(a, u)) \in Int /\ BeforeMonth(AboutYear(a, u), MonthIn(a, u)) \in Nat
    BY <1>3, YearIsLong, MonthNumbers
  <2>2. DayIn(a, u) \in Int BY <1>6
  <2>3. QED BY <1>3, <2>1, <2>2, DayIs DEF About
<1>9. QED BY <1>1, <1>2, <1>3, <1>6, <1>7, <1>8 DEF AboutYear, MonthIn

(* A trigger is that far from a date there is. *)
LEMMA TriggerIs ==
  ASSUME NEW a, IsAnchor(a), NEW u \in Int
  PROVE  /\ Trigger(a, u) \in Int
         /\ Trigger(a, u) # NoDay =>
              /\ IsDate(AboutYear(a, u), MonthIn(a, u), DayIn(a, u))
              /\ Trigger(a, u) = About(a, u) + Shift(a)
         /\ IsDate(AboutYear(a, u), MonthIn(a, u), DayIn(a, u)) /\ AboutYear(a, u) >= 1 =>
              Trigger(a, u) = About(a, u) + Shift(a)
<1> DEFINE y == AboutYear(a, u)
           m == MonthIn(a, u)
           d == DayIn(a, u)
<1>1. y \in Int /\ m \in 1 .. 12 /\ d \in Nat \ {0} /\ Shift(a) \in Int BY AboutType
<1>2. MonthLength(y, m) \in 28 .. 31 BY <1>1, MonthNumbers, Zenon
<1>3. DayOf(y, m, d) \in Int BY AboutType DEF About
<1>4. CASE a.form \in {"month_end", "month_start"}
  <2>1. y = u \div 12 /\ m = (u % 12) + 1 /\ Shift(a) = 0
    BY <1>4 DEF AboutYear, MonthIn, AboutMonth, Shift
  <2>2. Trigger(a, u) = DayOf(y, m, d) BY <1>4, <2>1 DEF Trigger, DayIn
  <2>3. d \in 1 .. MonthLength(y, m) BY <1>2, <1>4 DEF DayIn
  <2>4. IsDate(y, m, d) BY <1>1, <2>3 DEF IsDate
  <2>5. QED BY <1>3, <2>1, <2>2, <2>4 DEF About
<1>5. CASE a.form = "quarter_end_plus"
  <2>1. (3 * u + 2) \div 12 = u \div 4 /\ ((3 * u + 2) % 12) + 1 = (3 * (u % 4)) + 3 OBVIOUS
  <2>2. y = u \div 4 /\ m = (3 * (u % 4)) + 3 /\ Shift(a) = a.n
    BY <1>5, <2>1 DEF AboutYear, MonthIn, AboutMonth, Shift
  <2>3. Trigger(a, u) = DayOf(y, m, d) + a.n BY <1>5, <2>2 DEF Trigger, QuarterEnd, DayIn
  <2>4. d \in 1 .. MonthLength(y, m) BY <1>2, <1>5 DEF DayIn
  <2>5. IsDate(y, m, d) BY <1>1, <2>4 DEF IsDate
  <2>6. QED BY <1>1, <1>3, <2>2, <2>3, <2>5 DEF About
<1>6. CASE a.form \in {"fixed", "T_before"}
  <2>1. a.month \in 1 .. 12 /\ a.n \in Nat BY <1>6 DEF IsAnchor
  <2>2. y = u /\ m = a.month /\ d = a.day
    <3>1. (12 * u + a.month - 1) \div 12 = u /\ ((12 * u + a.month - 1) % 12) + 1 = a.month
      BY <2>1
    <3>2. QED BY <1>6, <3>1 DEF AboutYear, MonthIn, AboutMonth, DayIn
  <2>3. FixedDay(u, a.month, a.day) = IF y >= 1 /\ d <= MonthLength(y, m) THEN DayOf(y, m, d) ELSE NoDay
    BY <2>2 DEF FixedDay
  <2>4. d <= MonthLength(y, m) <=> IsDate(y, m, d) BY <1>1, <1>2 DEF IsDate
  <2>5. IsDate(y, m, d) /\ y >= 1 => DayOf(y, m, d) # NoDay BY DateOf DEF NoDay
  <2>6. CASE a.form = "fixed"
    <3>1. Trigger(a, u) = FixedDay(u, a.month, a.day) /\ Shift(a) = 0 BY <2>6 DEF Trigger, Shift
    <3>2. QED BY <1>1, <1>3, <2>3, <2>4, <3>1 DEF About, NoDay
  <2>7. CASE a.form = "T_before"
    <3>1. /\ Trigger(a, u) = IF FixedDay(u, a.month, a.day) = NoDay THEN NoDay
                             ELSE FixedDay(u, a.month, a.day) - a.n
          /\ Shift(a) = 0 - a.n
      BY <2>7 DEF Trigger, Shift
    <3>2. QED BY <1>1, <1>3, <2>1, <2>3, <2>4, <2>5, <3>1 DEF About, NoDay
  <2>8. QED BY <1>6, <2>6, <2>7
<1>7. QED BY <1>4, <1>5, <1>6 DEF IsAnchor, Forms

(* Later periods have later triggers. *)
LEMMA LaterPeriod ==
  ASSUME NEW a, IsAnchor(a), NEW u \in Int, NEW v \in Int, u < v,
         Trigger(a, u) # NoDay, Trigger(a, v) # NoDay
  PROVE  Trigger(a, u) < Trigger(a, v)
<1>1. /\ IsDate(AboutYear(a, u), MonthIn(a, u), DayIn(a, u)) /\ Trigger(a, u) = About(a, u) + Shift(a)
      /\ IsDate(AboutYear(a, v), MonthIn(a, v), DayIn(a, v)) /\ Trigger(a, v) = About(a, v) + Shift(a)
  BY TriggerIs
<1>2. AboutMonth(a, u) < AboutMonth(a, v) BY DEF AboutMonth, IsAnchor, Forms
<1>3. 12 * AboutYear(a, u) + MonthIn(a, u) < 12 * AboutYear(a, v) + MonthIn(a, v)
  BY <1>2, AboutType
<1>4. About(a, u) < About(a, v) BY <1>1, <1>3, LaterMonth DEF About
<1>5. Trigger(a, u) \in Int /\ Trigger(a, v) \in Int /\ Shift(a) \in Int BY TriggerIs, AboutType
<1>6. About(a, u) \in Int /\ About(a, v) \in Int BY AboutType
<1>7. QED BY <1>1, <1>4, <1>5, <1>6

(* The period of the date it is about. *)
LEMMA UnitOfAbout ==
  ASSUME NEW a, IsAnchor(a), NEW u \in Int,
         IsDate(AboutYear(a, u), MonthIn(a, u), DayIn(a, u)), AboutYear(a, u) >= 1
  PROVE  About(a, u) \in Nat \ {0} /\ Unit(a, About(a, u)) = u
<1> DEFINE n == About(a, u)
           y == AboutYear(a, u)
           m == MonthIn(a, u)
<1>1. n \in Nat \ {0} /\ YearOf(n) = y /\ MonthOf(n) = m BY DateOf DEF About
<1>2. y \in Int /\ m \in 1 .. 12 /\ 12 * y + m = AboutMonth(a, u) + 1 BY AboutType
<1> HIDE DEF n, y, m
<1>3. CASE a.form \in {"month_end", "month_start"}
  <2>1. AboutMonth(a, u) = u BY <1>3 DEF AboutMonth
  <2>2. Unit(a, n) = 12 * y + m - 1 BY <1>1, <1>3 DEF Unit
  <2>3. QED BY <1>1, <1>2, <2>1, <2>2 DEF n
<1>4. CASE a.form = "quarter_end_plus"
  <2>1. AboutMonth(a, u) = 3 * u + 2 BY <1>4 DEF AboutMonth
  <2>2. Unit(a, n) = 4 * y + (m - 1) \div 3 BY <1>1, <1>4 DEF Unit
  <2>3. 4 * y + (m - 1) \div 3 = u BY <1>2, <2>1
  <2>4. QED BY <1>1, <2>2, <2>3 DEF n
<1>5. CASE a.form \in {"fixed", "T_before"}
  <2>1. AboutMonth(a, u) = 12 * u + a.month - 1 /\ a.month \in 1 .. 12
    BY <1>5 DEF AboutMonth, IsAnchor
  <2>2. Unit(a, n) = y BY <1>1, <1>5 DEF Unit
  <2>3. y = u BY <1>2, <2>1
  <2>4. QED BY <1>1, <2>2, <2>3 DEF n
<1>6. QED BY <1>3, <1>4, <1>5 DEF IsAnchor, Forms

(* Of a day, the period is about its year, and of a date as far as the anchor says. *)
LEMMA FallsOn ==
  ASSUME NEW a, IsAnchor(a), NEW n \in Nat \ {0}
  PROVE  /\ Unit(a, n) \in Nat /\ AboutYear(a, Unit(a, n)) = YearOf(n)
         /\ Falls(a, n + Shift(a)) <=>
              MonthOf(n) = MonthIn(a, Unit(a, n)) /\ DayInMonth(n) = DayIn(a, Unit(a, n))
<1> DEFINE y == YearOf(n)
           m == MonthOf(n)
           d == DayInMonth(n)
           u == Unit(a, n)
<1>1. IsDate(y, m, d) /\ y >= 1 /\ n = DayOf(y, m, d) BY EveryDay
<1>2. y \in Int /\ m \in 1 .. 12 /\ d \in 1 .. MonthLength(y, m) BY <1>1 DEF IsDate
<1>3. IsLastOfMonth(n) <=> d = MonthLength(y, m)
  <2>1. IsLastOfMonth(DayOf(y, m, d)) <=> d = MonthLength(y, m) BY <1>1, LastDay
  <2>2. QED BY <1>1, <2>1
<1>4. a.n \in Nat BY DEF IsAnchor
<1> HIDE DEF y, m, d
<1>5. CASE a.form \in {"month_end", "month_start"}
  <2>1. u = 12 * y + m - 1 BY <1>5 DEF Unit, y, m
  <2>2. u \in Nat /\ u \div 12 = y /\ (u % 12) + 1 = m
    <3> HIDE DEF u
    <3>1. QED BY <1>1, <1>2, <2>1
  <2>3. AboutYear(a, u) = y /\ MonthIn(a, u) = m /\ n + Shift(a) = n
    BY <1>5, <2>2 DEF AboutYear, MonthIn, AboutMonth, Shift
  <2>4. DayIn(a, u) = IF a.form = "month_start" THEN 1 ELSE MonthLength(y, m)
    BY <1>5, <2>3 DEF DayIn
  <2>5. Falls(a, n) <=> IF a.form = "month_start" THEN d = 1 ELSE IsLastOfMonth(n)
    BY <1>5 DEF Falls, d
  <2>6. QED BY <1>3, <2>2, <2>3, <2>4, <2>5 DEF y, m, d
<1>6. CASE a.form = "quarter_end_plus"
  <2>1. u = 4 * y + (m - 1) \div 3 BY <1>6 DEF Unit, y, m
  <2>2. u \in Nat /\ (3 * u + 2) \div 12 = y /\ ((3 * u + 2) % 12) + 1 = 3 * ((m - 1) \div 3) + 3
    <3>1. (m - 1) \div 3 \in 0 .. 3 BY <1>2
    <3> DEFINE q == (m - 1) \div 3
    <3> HIDE DEF u, q
    <3>2. q \in 0 .. 3 /\ u = 4 * y + q BY <2>1, <3>1 DEF q
    <3>3. u \in Nat /\ (3 * u + 2) \div 12 = y /\ ((3 * u + 2) % 12) + 1 = 3 * q + 3
      BY <1>1, <1>2, <3>2
    <3>4. QED BY <3>3 DEF q
  <2>3. AboutYear(a, u) = y /\ MonthIn(a, u) = 3 * ((m - 1) \div 3) + 3 /\ (n + Shift(a)) - a.n = n
    BY <1>4, <1>6, <2>2 DEF AboutYear, MonthIn, AboutMonth, Shift
  <2>4. DayIn(a, u) = MonthLength(y, MonthIn(a, u)) BY <1>6, <2>3 DEF DayIn
  <2>5. Falls(a, n + Shift(a)) <=> IsLastOfMonth(n) /\ m % 3 = 0 BY <1>6, <2>3 DEF Falls, m
  <2>6. m % 3 = 0 <=> m = MonthIn(a, u) BY <1>2, <2>3
  <2>7. QED BY <1>3, <2>2, <2>3, <2>4, <2>5, <2>6 DEF y, m, d
<1>7. CASE a.form \in {"fixed", "T_before"}
  <2>1. u = y BY <1>7 DEF Unit, y
  <2>2. a.month \in 1 .. 12 BY <1>7 DEF IsAnchor
  <2>3. (12 * y + a.month - 1) \div 12 = y /\ ((12 * y + a.month - 1) % 12) + 1 = a.month
    BY <1>2, <2>2
  <2>4. AboutYear(a, u) = y /\ MonthIn(a, u) = a.month /\ DayIn(a, u) = a.day
    BY <1>7, <2>1, <2>3 DEF AboutYear, MonthIn, AboutMonth, DayIn
  <2>5. Falls(a, n + Shift(a)) <=> m = a.month /\ d = a.day
    <3>1. CASE a.form = "fixed"
      <4>1. n + Shift(a) = n BY <3>1 DEF Shift
      <4>2. QED BY <3>1, <4>1 DEF Falls, m, d
    <3>2. CASE a.form = "T_before"
      <4>1. (n + Shift(a)) + a.n = n BY <1>4, <3>2 DEF Shift
      <4>2. QED BY <3>2, <4>1 DEF Falls, m, d
    <3>3. QED BY <1>7, <3>1, <3>2
  <2>6. u \in Nat BY <1>1, <1>2, <2>1
  <2>7. QED BY <2>4, <2>5, <2>6 DEF y, m, d
<1>8. QED BY <1>5, <1>6, <1>7 DEF IsAnchor, Forms

(* What the anchor means by a day, and the trigger of its period, are the same. *)
LEMMA FallsWhereItTriggers ==
  ASSUME NEW a, IsAnchor(a), NEW n \in Nat \ {0}, n - Shift(a) \in Nat \ {0}
  PROVE  /\ Falls(a, n) => Trigger(a, Unit(a, n - Shift(a))) = n
         /\ \A u \in Int : Trigger(a, u) = n => Falls(a, n) /\ u = Unit(a, n - Shift(a))
<1> DEFINE e == n - Shift(a)
           v == Unit(a, e)
<1>1. e \in Nat \ {0} /\ e + Shift(a) = n
  <2>1. Shift(a) \in Int BY DEF Shift, IsAnchor
  <2>2. QED BY <2>1
<1> HIDE DEF e
<1>2. /\ v \in Nat /\ AboutYear(a, v) = YearOf(e)
      /\ Falls(a, n) <=> MonthOf(e) = MonthIn(a, v) /\ DayInMonth(e) = DayIn(a, v)
  BY <1>1, FallsOn
<1>3. /\ IsDate(YearOf(e), MonthOf(e), DayInMonth(e)) /\ YearOf(e) >= 1
      /\ e = DayOf(YearOf(e), MonthOf(e), DayInMonth(e))
  BY <1>1, EveryDay
<1> HIDE DEF v
<1>4. ASSUME Falls(a, n) PROVE Trigger(a, v) = n
  <2>1. IsDate(AboutYear(a, v), MonthIn(a, v), DayIn(a, v)) /\ AboutYear(a, v) >= 1 /\ About(a, v) = e
    BY <1>2, <1>3, <1>4 DEF About
  <2>2. v \in Int BY <1>2
  <2>3. QED BY <1>1, <2>1, <2>2, TriggerIs
<1>5. ASSUME NEW u \in Int, Trigger(a, u) = n PROVE Falls(a, n) /\ u = v
  <2>1. IsDate(AboutYear(a, u), MonthIn(a, u), DayIn(a, u)) /\ n = About(a, u) + Shift(a)
    BY <1>5, TriggerIs DEF NoDay
  <2>2. About(a, u) = e
    <3>1. About(a, u) \in Int /\ Shift(a) \in Int BY AboutType
    <3>2. QED BY <1>1, <2>1, <3>1
  <2>3. AboutYear(a, u) >= 1
    <3>1. IsDate(1, 1, 1)
      <4>1. MonthLength(1, 1) = 31 BY DEF MonthLength
      <4>2. QED BY <4>1 DEF IsDate
    <3>2. DayOf(1, 1, 1) = 1
      <4>1. Before(1) = 0 /\ BeforeMonth(1, 1) = 0 BY TheMonths DEF Before
      <4>2. DayOf(1, 1, 1) = Before(1) + BeforeMonth(1, 1) + 1 BY DayIs
      <4>3. QED BY <4>1, <4>2
    <3>3. AboutYear(a, u) \in Int /\ MonthIn(a, u) \in 1 .. 12 BY AboutType
    <3>4. ASSUME AboutYear(a, u) < 1 PROVE FALSE
      <4>1. 12 * AboutYear(a, u) + MonthIn(a, u) < 12 * 1 + 1 BY <3>3, <3>4
      <4>2. About(a, u) < 1 BY <2>1, <3>1, <3>2, <4>1, LaterMonth DEF About
      <4>3. QED BY <1>1, <2>2, <4>2
    <3>5. QED BY <3>3, <3>4
  <2>4. u = v BY <2>1, <2>2, <2>3, UnitOfAbout DEF v
  <2>5. /\ MonthOf(About(a, u)) = MonthIn(a, u) /\ DayInMonth(About(a, u)) = DayIn(a, u)
    BY <2>1, <2>3, DateOf DEF About
  <2>6. QED BY <1>2, <2>2, <2>4, <2>5
<1>6. QED BY <1>4, <1>5 DEF v, e

(* A later day belongs to a later period, or the same. *)
LEMMA UnitsGoOn ==
  ASSUME NEW a, IsAnchor(a), NEW n \in Nat \ {0}, NEW k \in Nat \ {0}, n <= k
  PROVE  Unit(a, n) <= Unit(a, k) /\ Unit(a, n) \in Nat /\ Unit(a, k) \in Nat
<1>1. /\ MonthNo(n) \in Nat /\ MonthNo(k) \in Nat /\ MonthNo(n) <= MonthNo(k)
      /\ YearOf(n) \in Nat \ {0} /\ YearOf(k) \in Nat \ {0} /\ YearOf(n) <= YearOf(k)
  BY MonthsGoOn
<1>2. MonthOf(n) \in 1 .. 12 /\ MonthOf(k) \in 1 .. 12 BY EveryDay DEF IsDate
<1>3. Unit(a, n) \in Nat /\ Unit(a, k) \in Nat BY FallsOn
<1>4. CASE a.form \in {"month_end", "month_start"}
  BY <1>1, <1>4 DEF Unit, MonthNo
<1>5. CASE a.form = "quarter_end_plus"
  <2>1. \A x \in {n, k} : MonthNo(x) \div 3 = 4 * YearOf(x) + (MonthOf(x) - 1) \div 3
    BY <1>1, <1>2 DEF MonthNo
  <2>2. Unit(a, n) = MonthNo(n) \div 3 /\ Unit(a, k) = MonthNo(k) \div 3 BY <1>5, <2>1 DEF Unit
  <2>3. MonthNo(n) \div 3 <= MonthNo(k) \div 3 BY <1>1
  <2>4. QED BY <1>3, <2>2, <2>3
<1>6. CASE a.form \in {"fixed", "T_before"} BY <1>1, <1>6 DEF Unit
<1>7. QED BY <1>3, <1>4, <1>5, <1>6 DEF IsAnchor, Forms

------------------------------------------------------------------------------
(* The days and the periods of a template. *)

LEMMA TheDays ==
  /\ First \in Days /\ Last \in Days /\ \A n \in Days : First <= n /\ n <= Last
  /\ Days \subseteq Nat /\ First > 1
<1>1. Days \subseteq Nat /\ Days # {} /\ IsFiniteSet(Days) BY DaysAssumption
<1>2. First \in Days /\ \A n \in Days : First <= n BY <1>1, LeastIsThere DEF First
<1>3. Last \in Days /\ \A n \in Days : n <= Last BY <1>1, GreatestIsThere DEF Last
<1>4. QED BY <1>1, <1>2, <1>3, DaysAssumption

(* The year before the first day is in the calendar, and no walk stops short of it. *)
LEMMA TheAnchor ==
  ASSUME NEW t \in Templates, ~Relative(t.anchor)
  PROVE  /\ IsAnchor(t.anchor) /\ First - 365 \in Nat \ {0} /\ Unit(t.anchor, Last) \in Nat
         /\ \A d \in First - 365..Last :
              /\ d - Shift(t.anchor) \in Nat \ {0}
              /\ Unit(t.anchor, Last) - MaxSteps < Unit(t.anchor, d - Shift(t.anchor))
<1> DEFINE a == t.anchor
           back == First - 365 - IF a.form = "quarter_end_plus" THEN a.n ELSE 0
<1>1. IsAnchor(a) BY AnchorsAssumption DEF IsAnchor, Forms, Relative
<1>2. a.n \in Nat /\ MaxSteps \in Nat BY <1>1, LimitsAssumption DEF IsAnchor
<1>3. First \in Nat /\ Last \in Nat \ {0} BY TheDays
<1>4. back > 0 /\ Unit(a, Last) - MaxSteps < Unit(a, back) BY ReachAssumption
<1>5. back \in Nat \ {0} /\ back <= First - 365 BY <1>2, <1>3, <1>4
<1>6. \A k \in Nat \ {0} : Unit(a, k) \in Nat BY <1>1, FallsOn
<1>7. ASSUME NEW d \in First - 365..Last
      PROVE  d - Shift(a) \in Nat \ {0} /\ back <= d - Shift(a)
  BY <1>2, <1>3, <1>5 DEF Shift
<1> HIDE DEF a, back
<1>8. ASSUME NEW d \in First - 365..Last
      PROVE  Unit(a, Last) - MaxSteps < Unit(a, d - Shift(a))
  <2>1. d - Shift(a) \in Nat \ {0} /\ back <= d - Shift(a) BY <1>7
  <2>2. Unit(a, back) <= Unit(a, d - Shift(a)) BY <1>1, <1>5, <2>1, UnitsGoOn
  <2>3. QED BY <1>2, <1>3, <1>4, <1>5, <1>6, <2>1, <2>2
<1>9. QED BY <1>1, <1>3, <1>5, <1>6, <1>7, <1>8 DEF a

(* On a day, the walk yields the periods whose days are not later, but for those whose year
   has not come.                                                                          *)
LEMMA WalkYields ==
  ASSUME NEW t \in Templates, ~Relative(t.anchor), NEW n \in First..Last, NEW u \in Int,
         Trigger(t.anchor, u) \in First - 365..Last
  PROVE  /\ u \in Nat /\ Falls(t.anchor, Trigger(t.anchor, u))
         /\ Unit(t.anchor, Last) - MaxSteps < u
         /\ u \in Yielded(t.anchor, n) <=>
              Trigger(t.anchor, u) <= n /\ ~NotYetWalkedTo(t.anchor, Trigger(t.anchor, u), n)
<1> DEFINE a == t.anchor
           d == Trigger(a, u)
           e == d - Shift(a)
<1>1. /\ IsAnchor(a) /\ d \in Nat \ {0} /\ e \in Nat \ {0} /\ Unit(a, Last) \in Nat
      /\ Unit(a, Last) - MaxSteps < Unit(a, e)
  BY TheAnchor, TheDays
<1>2. Falls(a, d) /\ u = Unit(a, e) BY <1>1, FallsWhereItTriggers
<1>3. n \in Nat \ {0} /\ Last \in Nat \ {0} /\ n <= Last /\ MaxSteps \in Nat
  BY TheDays, LimitsAssumption
<1>4. Unit(a, n) \in Nat /\ Unit(a, n) <= Unit(a, Last) /\ u \in Nat
  BY <1>1, <1>2, <1>3, UnitsGoOn
<1>5. a.n \in Nat BY <1>1 DEF IsAnchor
<1>6. e = IF a.form = "quarter_end_plus" THEN d - a.n ELSE IF a.form = "T_before" THEN d + a.n ELSE d
  BY <1>1, <1>5 DEF Shift
<1>7. ASSUME d <= n PROVE u <= Unit(a, n) <=> ~NotYetWalkedTo(a, d, n)
  <2>1. CASE a.form = "T_before"
    <3>1. u = YearOf(d + a.n) /\ Unit(a, n) = YearOf(n) BY <1>2, <1>6, <2>1 DEF Unit
    <3>2. QED BY <1>4, <2>1, <3>1 DEF NotYetWalkedTo
  <2>2. CASE a.form # "T_before"
    <3>1. e <= n BY <1>1, <1>3, <1>5, <1>6, <1>7, <2>2
    <3>2. u <= Unit(a, n) BY <1>1, <1>2, <1>3, <3>1, UnitsGoOn
    <3>3. QED BY <2>2, <3>2 DEF NotYetWalkedTo
  <2>3. QED BY <2>1, <2>2
<1>8. u \in Yielded(a, n) <=> d <= n /\ u <= Unit(a, n)
  <2>1. Unit(a, n) - MaxSteps + 1 <= u
    <3> HIDE DEF a, d, e
    <3>1. QED BY <1>1, <1>2, <1>3, <1>4
  <2>2. u \in (Unit(a, n) - MaxSteps + 1)..Unit(a, n) <=> u <= Unit(a, n)
    <3> HIDE DEF a, d, e
    <3>1. QED BY <1>3, <1>4, <2>1
  <2>3. d # NoDay BY <1>1 DEF NoDay
  <2>4. QED BY <2>2, <2>3 DEF Yielded
<1>9. Unit(a, Last) - MaxSteps < u BY <1>1, <1>2
<1>10. QED BY <1>2, <1>4, <1>7, <1>8, <1>9

(* A day that is meant has a period. *)
LEMMA MeantHasPeriod ==
  ASSUME NEW t \in Templates, ~Relative(t.anchor), NEW d \in First - 365..Last, Falls(t.anchor, d)
  PROVE  \E u \in Nat : Trigger(t.anchor, u) = d
<1> DEFINE a == t.anchor
<1>1. IsAnchor(a) /\ d \in Nat \ {0} /\ d - Shift(a) \in Nat \ {0} BY TheAnchor, TheDays
<1>2. Trigger(a, Unit(a, d - Shift(a))) = d BY <1>1, FallsWhereItTriggers
<1>3. Unit(a, d - Shift(a)) \in Nat BY <1>1, FallsOn
<1>4. QED BY <1>2, <1>3

(* What a walk visits. *)
LEMMA YieldedType ==
  ASSUME NEW t \in Templates, ~Relative(t.anchor), NEW n \in First..Last
  PROVE  /\ Yielded(t.anchor, n) \subseteq Int /\ IsFiniteSet(Yielded(t.anchor, n))
         /\ \A u \in Yielded(t.anchor, n) :
              Trigger(t.anchor, u) \in Int /\ Trigger(t.anchor, u) <= n /\ u <= Unit(t.anchor, Last)
<1> DEFINE a == t.anchor
           walked == (Unit(a, n) - MaxSteps + 1)..Unit(a, n)
<1>1. IsAnchor(a) BY TheAnchor
<1>2. n \in Nat \ {0} /\ Last \in Nat \ {0} /\ n <= Last /\ MaxSteps \in Nat
  BY TheDays, LimitsAssumption
<1>3. Unit(a, n) \in Nat /\ Unit(a, Last) \in Nat /\ Unit(a, n) <= Unit(a, Last)
  BY <1>1, <1>2, UnitsGoOn
<1>4. /\ walked \subseteq Int /\ IsFiniteSet(walked)
      /\ \A u \in walked : u <= Unit(a, Last)
  <2> DEFINE low == Unit(a, n) - MaxSteps + 1
             high == Unit(a, n)
  <2>1. low \in Int /\ high \in Int /\ high <= Unit(a, Last) /\ Unit(a, Last) \in Int BY <1>2, <1>3
  <2> HIDE DEF low, high, a
  <2>2. IsFiniteSet(low..high) BY <2>1, FS_Interval
  <2>3. low..high \subseteq Int /\ \A u \in low..high : u <= Unit(a, Last) BY <2>1
  <2>4. QED BY <2>2, <2>3 DEF low, high
<1>5. \A u \in walked : Trigger(a, u) \in Int BY <1>1, <1>4, TriggerIs
<1>6. Yielded(a, n) \subseteq walked /\ \A u \in Yielded(a, n) : Trigger(a, u) <= n BY DEF Yielded
<1> HIDE DEF a, walked
<1>7. IsFiniteSet(Yielded(a, n)) BY <1>4, <1>6, FS_Subset
<1>8. QED BY <1>4, <1>5, <1>6, <1>7 DEF a

(* Starts is what its recursive definition says: there is such a function up to each number,
   and any two of them agree as far as both go.                                            *)
LEMMA StartsAre ==
  ASSUME NEW a
  PROVE  /\ Starts(a)[0] = Days
         /\ \A k \in Nat :
              Starts(a)[k + 1] = Days \cup ({AddTo(a, n) : n \in Starts(a)[k]} \cap First..Last)
<1> DEFINE After(S) == Days \cup ({AddTo(a, n) : n \in S} \cap First..Last)
           UpTo(j, f) == /\ f = [k \in 0..j |-> f[k]] /\ f[0] = Days
                         /\ \A k \in 1..j : f[k] = After(f[k - 1])
           Is(s) == s = [k \in Nat |-> IF k = 0 THEN Days ELSE After(s[k - 1])]
           There == {j \in Nat : \E f : UpTo(j, f)}
           Same == {k \in Nat : \A i \in Nat : \A j \in Nat : \A f : \A g :
                      UpTo(i, f) /\ UpTo(j, g) /\ k <= i /\ k <= j => f[k] = g[k]}
           first(j) == CHOOSE f : UpTo(j, f)
           starts_ == [k \in Nat |-> first(k)[k]]
<1> HIDE DEF After
<1>1. 0 \in There
  <2> DEFINE f == [k \in 0..0 |-> Days]
  <2>1. f = [k \in 0..0 |-> f[k]] /\ f[0] = Days /\ \A k \in 1..0 : f[k] = After(f[k - 1])
    OBVIOUS
  <2>2. UpTo(0, f) BY <2>1
  <2>3. QED BY <2>2
<1>2. ASSUME NEW j \in Nat, j \in There PROVE j + 1 \in There
  <2>1. PICK f : UpTo(j, f) BY <1>2
  <2> DEFINE g == [k \in 0..(j + 1) |-> IF k <= j THEN f[k] ELSE After(f[j])]
  <2>2. g = [k \in 0..(j + 1) |-> g[k]] OBVIOUS
  <2>3. \A k \in 0..j : g[k] = f[k] OBVIOUS
  <2>4. g[j + 1] = After(f[j]) OBVIOUS
  <2>5. g[0] = Days BY <2>1, <2>3
  <2> HIDE DEF g
  <2>6. \A k \in 1..(j + 1) : g[k] = After(g[k - 1])
    <3> SUFFICES ASSUME NEW k \in 1..(j + 1) PROVE g[k] = After(g[k - 1]) OBVIOUS
    <3>1. k - 1 \in 0..j OBVIOUS
    <3>2. CASE k = j + 1
      <4>1. k - 1 = j BY <3>2
      <4>2. QED BY <2>3, <2>4, <3>1, <3>2, <4>1
    <3>3. CASE k # j + 1
      <4>1. k \in 1..j /\ k \in 0..j BY <3>3
      <4>2. QED BY <2>1, <2>3, <3>1, <4>1
    <3>4. QED BY <3>2, <3>3
  <2>7. UpTo(j + 1, g) BY <2>2, <2>5, <2>6
  <2> HIDE DEF UpTo
  <2>8. j + 1 \in Nat OBVIOUS
  <2>9. QED BY <2>7, <2>8
<1>3. \A j \in Nat : UpTo(j, first(j))
  <2>1. Nat \subseteq There
    <3> HIDE DEF There
    <3>1. QED BY <1>1, <1>2, Induction
  <2> HIDE DEF UpTo
  <2>2. QED BY <2>1
<1>4. 0 \in Same OBVIOUS
<1>5. ASSUME NEW k \in Nat, k \in Same PROVE k + 1 \in Same
  <2>5. k + 1 \in Nat OBVIOUS
  <2> HIDE DEF UpTo
  <2> SUFFICES ASSUME NEW i \in Nat, NEW j \in Nat, NEW f, NEW g, UpTo(i, f), UpTo(j, g),
                      k + 1 <= i, k + 1 <= j
               PROVE  f[k + 1] = g[k + 1]
    BY <2>5
  <2> USE DEF UpTo
  <2>1. k <= i /\ k <= j /\ k + 1 \in 1..i /\ k + 1 \in 1..j /\ (k + 1) - 1 = k OBVIOUS
  <2>2. f[k] = g[k]
    <3> HIDE DEF UpTo
    <3>1. QED BY <1>5, <2>1
  <2>3. f[k + 1] = After(f[k]) /\ g[k + 1] = After(g[k]) BY <2>1
  <2>4. QED BY <2>2, <2>3
<1>6. Nat \subseteq Same
  <2> HIDE DEF Same
  <2>1. QED BY <1>4, <1>5, Induction
<1>7. starts_[0] = Days BY <1>3
<1>8. ASSUME NEW k \in Nat PROVE starts_[k + 1] = After(starts_[k])
  <2>1. UpTo(k, first(k)) /\ UpTo(k + 1, first(k + 1))
    <3>1. k + 1 \in Nat OBVIOUS
    <3> HIDE DEF UpTo, first
    <3>2. QED BY <1>3, <3>1
  <2> HIDE DEF first
  <2>2. first(k + 1)[k + 1] = After(first(k + 1)[k])
    <3>1. k + 1 \in 1..(k + 1) /\ (k + 1) - 1 = k OBVIOUS
    <3>2. QED BY <2>1, <3>1
  <2> HIDE DEF UpTo
  <2>3. first(k + 1)[k] = first(k)[k] BY <1>6, <2>1
  <2>4. QED BY <2>2, <2>3
<1> HIDE DEF starts_, UpTo, There, Same, first
<1>9. Is(starts_)
  <2>1. \A k \in Nat : starts_[k] = IF k = 0 THEN Days ELSE After(starts_[k - 1])
    <3> SUFFICES ASSUME NEW k \in Nat PROVE starts_[k] = IF k = 0 THEN Days ELSE After(starts_[k - 1])
      OBVIOUS
    <3>1. CASE k = 0 BY <1>7, <3>1
    <3>2. CASE k # 0
      <4>1. k - 1 \in Nat /\ (k - 1) + 1 = k BY <3>2
      <4>2. QED BY <1>8, <3>2, <4>1
    <3>3. QED BY <3>1, <3>2
  <2>2. starts_ = [k \in Nat |-> starts_[k]] BY DEF starts_
  <2>3. QED BY <2>1, <2>2
<1>10. Starts(a) = CHOOSE s : Is(s) BY DEF Starts, After
<1>11. Is(Starts(a))
  <2> HIDE DEF Is
  <2>1. QED BY <1>9, <1>10
<1>12. \A k \in Nat : k + 1 \in Nat /\ k + 1 # 0 /\ (k + 1) - 1 = k OBVIOUS
<1>13. Starts(a)[0] = Days /\ \A k \in Nat : Starts(a)[k + 1] = After(Starts(a)[k])
  BY <1>11, <1>12
<1>14. QED BY <1>13 DEF After

(* Where an interval ends. *)
LEMMA IntervalEnds ==
  ASSUME NEW t \in Templates, Relative(t.anchor), NEW n \in First..Last
  PROVE  /\ IntervalIsRight(t.anchor, n)
         /\ AddTo(t.anchor, n) \in Nat /\ n < AddTo(t.anchor, n)
<1> DEFINE a == t.anchor
           end == AddTo(a, n)
<1>1. n \in Nat \ {0} /\ a.n \in Nat \ {0} /\ a.form \in {"days", "months"}
  BY TheDays, AnchorsAssumption DEF Relative
<1>2. CASE a.form = "days"
  <2>1. end - n = a.n /\ end \in Nat /\ n < end BY <1>1, <1>2 DEF AddTo
  <2>2. QED BY <1>2, <2>1 DEF IntervalIsRight
<1>3. CASE a.form = "months"
  <2> DEFINE month == MonthOf(n) - 1 + a.n
             y == YearOf(n) + month \div 12
             m == (month % 12) + 1
             limit == MonthLength(y, m)
             d == IF DayInMonth(n) <= limit THEN DayInMonth(n) ELSE limit
  <2>1. IsDate(YearOf(n), MonthOf(n), DayInMonth(n)) /\ YearOf(n) >= 1 BY <1>1, EveryDay
  <2>2. YearOf(n) \in Int /\ MonthOf(n) \in 1 .. 12 /\ DayInMonth(n) \in Nat \ {0}
    <3>1. YearOf(n) \in Int /\ MonthOf(n) \in 1 .. 12 BY <2>1 DEF IsDate
    <3>2. MonthLength(YearOf(n), MonthOf(n)) \in 28 .. 31 BY <3>1, MonthNumbers, Zenon
    <3>3. DayInMonth(n) \in 1 .. MonthLength(YearOf(n), MonthOf(n)) BY <2>1 DEF IsDate
    <3>4. QED BY <3>1, <3>2, <3>3
  <2>3. y \in Int /\ y >= 1 /\ m \in 1 .. 12 /\ 12 * y + m = 12 * YearOf(n) + MonthOf(n) + a.n
    <3>1. month \in Nat BY <1>1, <2>2
    <3> HIDE DEF month
    <3>2. (month % 12) + 1 \in 1 .. 12 /\ 12 * (month \div 12) + (month % 12) + 1 = month + 1
      <4>1. month \in Int BY <3>1
      <4>2. QED BY <4>1
    <3>5. month \div 12 \in Nat
      <4>1. month \div 12 \in Int /\ month \div 12 >= 0 BY <3>1
      <4>2. QED BY <4>1
    <3>3. y \in Int /\ y >= 1 /\ m \in 1 .. 12 /\ 12 * y + m = 12 * YearOf(n) + month + 1
      BY <2>1, <2>2, <3>1, <3>2, <3>5
    <3>4. QED BY <1>1, <2>2, <3>3 DEF month
  <2> HIDE DEF y, m
  <2>4. limit \in 28 .. 31 BY <2>3, MonthNumbers, Zenon
  <2>5. IsDate(y, m, d)
    <3> HIDE DEF limit
    <3>1. d \in 1 .. limit BY <2>2, <2>4
    <3>2. QED BY <2>3, <3>1 DEF IsDate, limit
  <2>6. end = DayOf(y, m, d) BY <1>3 DEF AddTo, y, m
  <2> HIDE DEF d, end
  <2>7. YearOf(end) = y /\ MonthOf(end) = m /\ DayInMonth(end) = d BY <2>3, <2>5, <2>6, DateOf
  <2>8. IsLastOfMonth(end) <=> d = limit BY <2>3, <2>5, <2>6, LastDay
  <2>9. d = DayInMonth(n) \/ (d = limit /\ d < DayInMonth(n)) BY <2>2, <2>4 DEF d
  <2>10. 12 * YearOf(end) + MonthOf(end) = 12 * YearOf(n) + MonthOf(n) + a.n BY <2>3, <2>7
  <2>11. end \in Nat \ {0} BY <2>3, <2>5, <2>6, DateOf
  <2>12. n < end
    <3> SUFFICES ASSUME end <= n PROVE FALSE BY <1>1, <2>11
    <3>1. MonthNo(end) <= MonthNo(n) BY <1>1, <2>11, MonthsGoOn
    <3>2. QED BY <1>1, <2>2, <2>3, <2>7, <3>1 DEF MonthNo
  <2>13. QED BY <1>3, <2>7, <2>8, <2>9, <2>10, <2>11, <2>12 DEF IntervalIsRight, end
<1>4. QED BY <1>1, <1>2, <1>3

(* A start after more others than there are days would be too late. *)
LEMMA PeriodsGoOn ==
  ASSUME NEW t \in Templates, Relative(t.anchor)
  PROVE  /\ Days \subseteq UnitsOf(t.anchor) /\ UnitsOf(t.anchor) \subseteq First..Last
         /\ \A n \in Days : \A d \in UnitsOf(t.anchor) :
              {AddTo(t.anchor, d)} \cap 0..n \subseteq UnitsOf(t.anchor)
<1> DEFINE a == t.anchor
           S(k) == Starts(a)[k]
           late == Last - First
           G == {k \in Nat : \A x \in S(k + 1) : x \in S(k) \/ First + k + 1 <= x}
<1>1. /\ S(0) = Days
      /\ \A k \in Nat : S(k + 1) = Days \cup ({AddTo(a, n) : n \in S(k)} \cap First..Last)
  BY StartsAre
<1>2. First \in Nat /\ Last \in Nat /\ late \in Nat /\ Days \subseteq First..Last BY TheDays
<1>3. \A x \in First..Last : AddTo(a, x) \in Nat /\ x < AddTo(a, x) BY IntervalEnds
<1> HIDE DEF S, a
<1>4. \A k \in Nat : Days \subseteq S(k) /\ S(k) \subseteq First..Last
  <2> SUFFICES ASSUME NEW k \in Nat PROVE Days \subseteq S(k) /\ S(k) \subseteq First..Last OBVIOUS
  <2>1. CASE k = 0 BY <1>1, <1>2, <2>1
  <2>2. CASE k # 0
    <3>1. k - 1 \in Nat /\ (k - 1) + 1 = k BY <2>2
    <3>2. QED BY <1>1, <1>2, <3>1
  <2>3. QED BY <2>1, <2>2
<1>5. 0 \in G
  <2> SUFFICES ASSUME NEW x \in S(0 + 1), x \notin S(0) PROVE First + 0 + 1 <= x OBVIOUS
  <2>1. x \in {AddTo(a, n) : n \in S(0)} BY <1>1
  <2>2. PICK d \in S(0) : x = AddTo(a, d) BY <2>1
  <2>3. d \in First..Last BY <1>1, <1>2, <2>2
  <2>4. QED BY <1>2, <1>3, <2>2, <2>3
<1>6. ASSUME NEW k \in Nat, k \in G PROVE k + 1 \in G
  <2> SUFFICES ASSUME NEW x \in S((k + 1) + 1), x \notin S(k + 1) PROVE First + (k + 1) + 1 <= x
    OBVIOUS
  <2>1. x \in {AddTo(a, n) : n \in S(k + 1)} /\ x \in First..Last BY <1>1
  <2>2. PICK d \in S(k + 1) : x = AddTo(a, d) BY <2>1
  <2>3. d \notin S(k) BY <1>1, <2>1, <2>2
  <2>4. First + k + 1 <= d BY <1>6, <2>2, <2>3
  <2>5. d \in First..Last BY <1>4, <2>2
  <2>6. QED BY <1>2, <1>3, <2>2, <2>4, <2>5
<1>7. \A x \in S(late + 1) : x \in S(late)
  <2>1. Nat \subseteq G
    <3> HIDE DEF G
    <3>1. QED BY <1>5, <1>6, Induction
  <2> SUFFICES ASSUME NEW x \in S(late + 1), x \notin S(late) PROVE FALSE OBVIOUS
  <2>2. First + late + 1 <= x BY <1>2, <2>1
  <2>3. x \in First..Last BY <1>2, <1>4
  <2>4. QED BY <1>2, <2>2, <2>3
<1>8. UnitsOf(a) = S(late) BY DEF UnitsOf, S, a
<1> HIDE DEF late
<1>9. ASSUME NEW n \in Days, NEW d \in UnitsOf(a), AddTo(a, d) \in 0..n
      PROVE  AddTo(a, d) \in UnitsOf(a)
  <2>1. d \in S(late) /\ d \in First..Last BY <1>2, <1>4, <1>8
  <2>2. n \in First..Last BY TheDays
  <2>3. AddTo(a, d) \in First..Last BY <1>2, <1>3, <1>9, <2>1, <2>2
  <2>4. AddTo(a, d) \in S(late + 1) BY <1>1, <1>2, <2>1, <2>3
  <2>5. QED BY <1>7, <1>8, <2>4
<1>10. QED BY <1>2, <1>4, <1>8, <1>9 DEF a

LEMMA UnitsOfType ==
  ASSUME NEW t \in Templates
  PROVE  UnitsOf(t.anchor) \subseteq Nat /\ IsFiniteSet(UnitsOf(t.anchor))
<1> DEFINE a == t.anchor
<1>1. First \in Nat /\ Last \in Nat /\ First <= Last /\ MaxSteps \in Nat
  BY TheDays, LimitsAssumption
<1>2. CASE Relative(a)
  <2>1. UnitsOf(a) \subseteq First..Last BY <1>2, PeriodsGoOn
  <2>2. First..Last \subseteq Nat /\ IsFiniteSet(First..Last) BY <1>1, FS_Interval
  <2>3. QED BY <2>1, <2>2, FS_Subset
<1>3. CASE ~Relative(a)
  <2> DEFINE range == (Unit(a, Last) - MaxSteps + 1)..(Unit(a, Last) + 1)
  <2>1. UnitsOf(a) = {u \in range : Trigger(a, u) \in First..Last} BY <1>3 DEF UnitsOf
  <2>2. Unit(a, Last) \in Nat BY <1>3, TheAnchor
  <2>3. range \subseteq Int /\ IsFiniteSet(range) BY <1>1, <2>2, FS_Interval
  <2>4. ASSUME NEW u \in UnitsOf(a) PROVE u \in Nat
    <3>1. u \in Int /\ Trigger(a, u) \in First - 365..Last /\ First \in First..Last
      BY <1>1, <2>1, <2>3
    <3>2. QED BY <1>3, <3>1, WalkYields
  <2>5. UnitsOf(a) \subseteq range BY <2>1
  <2> HIDE DEF range
  <2>6. IsFiniteSet(UnitsOf(a)) BY <2>3, <2>5, FS_Subset
  <2>7. QED BY <2>4, <2>6
<1>4. QED BY <1>2, <1>3

LEMMA YieldedAreUnits ==
  ASSUME NEW t \in Templates, ~Relative(t.anchor), NEW n \in First..Last,
         NEW u \in Yielded(t.anchor, n), First <= Trigger(t.anchor, u)
  PROVE  u \in UnitsOf(t.anchor)
<1> DEFINE a == t.anchor
<1>1. u \in Int /\ Trigger(a, u) \in Int /\ Trigger(a, u) <= n /\ u <= Unit(a, Last)
  BY YieldedType
<1>2. First \in Nat /\ Last \in Nat /\ n <= Last /\ MaxSteps \in Nat BY TheDays, LimitsAssumption
<1>3. Trigger(a, u) \in First..Last /\ Trigger(a, u) \in First - 365..Last BY <1>1, <1>2
<1>4. Unit(a, Last) - MaxSteps < u BY <1>1, <1>3, WalkYields
<1>5. Unit(a, Last) \in Nat BY TheAnchor
<1> HIDE DEF a
<1>6. u \in (Unit(a, Last) - MaxSteps + 1)..(Unit(a, Last) + 1) BY <1>1, <1>2, <1>4, <1>5
<1>7. QED BY <1>3, <1>6 DEF UnitsOf, a

(* The walks fit the calendar. *)
LEMMA WalksFit ==
  ASSUME NEW t \in Templates, ~Relative(t.anchor)
  PROVE  WalkFits(t.anchor)
<1> DEFINE a == t.anchor
           asked(n) == {d \in DaysDue(a, Last, First - 1) : d <= n /\ ~NotYetWalkedTo(a, d, n)}
<1>1. IsAnchor(a) /\ First \in Nat \ {0} /\ Last \in Nat \ {0} /\ MaxSteps \in Nat
  BY TheAnchor, TheDays, LimitsAssumption
<1>2. ASSUME NEW u \in UnitsOf(a)
      PROVE  u \in Int /\ Trigger(a, u) \in First..Last /\ Trigger(a, u) \in First - 365..Last
  <2>1. u \in Int BY UnitsOfType
  <2>2. Trigger(a, u) \in First..Last BY DEF UnitsOf
  <2>3. QED BY <1>1, <2>1, <2>2
<1>3. ASSUME NEW u \in UnitsOf(a), NEW v \in Int, Trigger(a, v) # NoDay, u < v
      PROVE  Trigger(a, u) < Trigger(a, v)
  <2>1. u \in Int /\ Trigger(a, u) # NoDay BY <1>1, <1>2 DEF NoDay
  <2>2. QED BY <1>1, <1>3, <2>1, LaterPeriod
<1>4. \A u \in UnitsOf(a) : \A v \in UnitsOf(a) : u < v => Trigger(a, u) < Trigger(a, v)
  <2> SUFFICES ASSUME NEW u \in UnitsOf(a), NEW v \in UnitsOf(a), u < v
               PROVE  Trigger(a, u) < Trigger(a, v)
    OBVIOUS
  <2>1. v \in Int /\ Trigger(a, v) # NoDay BY <1>1, <1>2 DEF NoDay
  <2>2. QED BY <1>3, <2>1
<1>5. ASSUME NEW n \in Days, NEW v \in Yielded(a, n)
      PROVE  /\ v \in Int /\ Trigger(a, v) \in Int /\ Trigger(a, v) # NoDay /\ Trigger(a, v) <= n
             /\ v <= Unit(a, n)
  <2>1. n \in First..Last /\ n \in Nat \ {0} BY TheDays
  <2>2. v \in Int /\ Trigger(a, v) \in Int /\ Trigger(a, v) <= n BY <2>1, YieldedType
  <2>3. Unit(a, n) \in Nat BY <1>1, <2>1, FallsOn
  <2>4. v \in (Unit(a, n) - MaxSteps + 1)..Unit(a, n) /\ Trigger(a, v) # NoDay BY DEF Yielded
  <2> HIDE DEF a
  <2>5. v <= Unit(a, n) BY <1>1, <2>3, <2>4
  <2>6. QED BY <2>2, <2>4, <2>5
<1>6. ASSUME NEW n \in Days, NEW u \in Yielded(a, n), First <= Trigger(a, u)
      PROVE  Trigger(a, u) \in asked(n)
  <2>1. n \in First..Last /\ n \in Nat \ {0} BY TheDays
  <2>2. u \in Int /\ Trigger(a, u) \in First..Last /\ Trigger(a, u) \in First - 365..Last
    BY <1>1, <1>5, <1>6, <2>1
  <2>3. /\ Falls(a, Trigger(a, u)) /\ Trigger(a, u) <= n
        /\ ~NotYetWalkedTo(a, Trigger(a, u), n)
    BY <2>1, <2>2, WalkYields
  <2>4. (First - 1) + 1 = First BY <1>1
  <2>5. QED BY <2>2, <2>3, <2>4 DEF DaysDue
<1>7. ASSUME NEW n \in Days, NEW u \in UnitsOf(a), NEW v \in Yielded(a, n), u < v
      PROVE  First <= Trigger(a, v) /\ u \in Yielded(a, n)
  <2>1. Trigger(a, u) < Trigger(a, v) BY <1>3, <1>5, <1>7
  <2>2. First <= Trigger(a, v) BY <1>1, <1>2, <1>5, <2>1
  <2>3. Trigger(a, u) # NoDay /\ Trigger(a, u) <= n BY <1>1, <1>2, <1>5, <2>1, TheDays DEF NoDay
  <2>4. n \in First..Last /\ n \in Nat \ {0} /\ n <= Last BY TheDays
  <2>5. Unit(a, n) \in Nat /\ Unit(a, Last) \in Nat /\ Unit(a, n) <= Unit(a, Last)
    BY <1>1, <2>4, UnitsGoOn
  <2>6. Unit(a, Last) - MaxSteps < u BY <1>2, <2>4, WalkYields
  <2>7. v \in Int /\ v <= Unit(a, n) /\ u \in Int BY <1>2, <1>5
  <2>8. u \in (Unit(a, n) - MaxSteps + 1)..Unit(a, n)
    <3> HIDE DEF a
    <3>1. QED BY <1>1, <1>7, <2>5, <2>6, <2>7
  <2>9. QED BY <2>2, <2>3, <2>8 DEF Yielded
<1>8. ASSUME NEW n \in Days, NEW u \in UnitsOf(a), Trigger(a, u) \in asked(n)
      PROVE  u \in Yielded(a, n)
  <2>1. n \in First..Last BY TheDays
  <2>2. QED BY <1>2, <1>8, <2>1, WalkYields
<1> HIDE DEF a
<1>9. QED BY <1>4, <1>6, <1>7, <1>8 DEF WalkFits, a

(* Numbers and their values alike: as many are greater. *)
LEMMA AsManyGreater ==
  ASSUME NEW S, S \subseteq Nat, IsFiniteSet(S), NEW f \in [S -> Int],
         \A u \in S : \A v \in S : u < v => f[u] < f[v], NEW u \in S
  PROVE  Cardinality({d \in {f[v] : v \in S} : d > f[u]}) = Cardinality({v \in S : v > u})
<1> DEFINE A == {v \in S : v > u}
           B == {d \in {f[v] : v \in S} : d > f[u]}
           g == [v \in A |-> f[v]]
<1>1. \A v \in S : v \in Nat /\ f[v] \in Int OBVIOUS
<1>2. \A v \in S : v > u <=> f[v] > f[u] BY <1>1
<1>3. \A v \in A : g[v] \in B BY <1>2
<1>4. g \in Injection(A, B)
  <2>1. \A v \in A : \A w \in A : g[v] = g[w] => v = w BY <1>1
  <2>2. g \in [A -> B] BY <1>3
  <2>3. QED BY <2>1, <2>2 DEF Injection, IsInjective
<1>5. g \in Surjection(A, B)
  <2>1. \A d \in B : \E v \in A : g[v] = d BY <1>2
  <2>2. g \in [A -> B] BY <1>3
  <2>3. QED BY <2>1, <2>2 DEF Surjection
<1>6. IsFiniteSet(A) BY FS_Subset
<1> HIDE DEF A, B, g
<1>7. ExistsBijection(A, B) BY <1>4, <1>5 DEF ExistsBijection, Bijection
<1>8. Cardinality(B) = Cardinality(A) BY <1>6, <1>7, FS_Bijection
<1>9. QED BY <1>8 DEF A, B

(* What is collected of the year before a day are the days of it that are meant. *)
LEMMA CollectsMeant ==
  ASSUME NEW t \in Templates, ~Relative(t.anchor), NEW n \in First..Last
  PROVE  PeriodsAreRight(t.anchor, n, First - 365)
<1> DEFINE a == t.anchor
           since == First - 365
           Y == Yielded(a, n)
           G == {u \in Y : Trigger(a, u) > since}
           C == {u \in Y : Trigger(a, u) > since /\ Cardinality({v \in Y : v > u}) < SafetyLimit}
           meant_ == {d \in DaysDue(a, n, since) : ~NotYetWalkedTo(a, d, n)}
           f == [u \in G |-> Trigger(a, u)]
           above(u) == {v \in G : v > u}
<1>1. /\ IsAnchor(a) /\ First \in Nat /\ Last \in Nat /\ n \in Nat /\ n <= Last /\ First <= n
      /\ since \in Nat \ {0}
  BY TheAnchor, TheDays
<1>2. Y \subseteq Int /\ IsFiniteSet(Y) /\ \A u \in Y : Trigger(a, u) \in Int /\ Trigger(a, u) <= n
  BY YieldedType
<1>3. \A u \in Y : Trigger(a, u) # NoDay BY DEF Yielded
<1>4. \A u \in Y : \A v \in Y : u < v => Trigger(a, u) < Trigger(a, v)
  <2> SUFFICES ASSUME NEW u \in Y, NEW v \in Y, u < v PROVE Trigger(a, u) < Trigger(a, v) OBVIOUS
  <2>1. u \in Int /\ v \in Int BY <1>2
  <2>2. QED BY <1>1, <1>3, <2>1, LaterPeriod
<1>5. ASSUME NEW u \in G
      PROVE  u \in Nat /\ Trigger(a, u) \in meant_
  <2>1. u \in Int /\ Trigger(a, u) \in First - 365..Last /\ Trigger(a, u) \in (since + 1)..n
    BY <1>1, <1>2
  <2>2. u \in Nat /\ Falls(a, Trigger(a, u)) /\ ~NotYetWalkedTo(a, Trigger(a, u), n)
    BY <2>1, WalkYields
  <2>3. QED BY <2>1, <2>2 DEF DaysDue
<1>6. ASSUME NEW d \in meant_
      PROVE  \E u \in G : Trigger(a, u) = d
  <2>1. d \in (since + 1)..n /\ Falls(a, d) /\ ~NotYetWalkedTo(a, d, n) BY DEF DaysDue
  <2>2. d \in First - 365..Last /\ d <= n /\ d > since BY <1>1, <2>1
  <2>3. PICK u \in Nat : Trigger(a, u) = d BY <2>1, <2>2, MeantHasPeriod
  <2>4. u \in Int /\ Trigger(a, u) \in First - 365..Last BY <2>2, <2>3
  <2>5. u \in Y BY <2>1, <2>2, <2>3, <2>4, WalkYields
  <2>6. QED BY <2>2, <2>3, <2>5
<1>7. /\ G \subseteq Nat /\ G \subseteq Y /\ IsFiniteSet(G) /\ f \in [G -> Int]
      /\ \A u \in G : f[u] = Trigger(a, u)
  <2>1. G \subseteq Nat BY <1>5
  <2>2. IsFiniteSet(G) BY <1>2, FS_Subset
  <2>3. QED BY <1>2, <2>1, <2>2
<1>8. meant_ = {f[u] : u \in G}
  <2> HIDE DEF meant_, G, f
  <2>1. QED BY <1>5, <1>6, <1>7
<1>9. \A u \in G : {v \in Y : v > u} = above(u)
  <2> SUFFICES ASSUME NEW u \in G, NEW v \in Y, v > u PROVE v \in G OBVIOUS
  <2>1. Trigger(a, u) < Trigger(a, v) BY <1>2, <1>4, <1>7
  <2>2. QED BY <1>1, <1>2, <1>7, <2>1
<1>10. C = {u \in G : Cardinality(above(u)) < SafetyLimit}
  <2> HIDE DEF above
  <2>1. QED BY <1>9
<1>11. \A u \in G : Cardinality({d \in meant_ : d > f[u]}) = Cardinality(above(u))
  <2>1. \A u \in G : \A v \in G : u < v => f[u] < f[v] BY <1>4, <1>7
  <2> HIDE DEF G, f, meant_
  <2>2. QED BY <1>7, <1>8, <2>1, AsManyGreater
<1>12. /\ Pending(a, n, since, "all") = C
       /\ Pending(a, n, since, "next") = IF C # {} THEN {Max(C)} ELSE {}
  BY DEF Pending
<1>13. meant_ \subseteq Int BY <1>7, <1>8
<1>14. {Trigger(a, u) : u \in C} = {d \in meant_ : Cardinality({m \in meant_ : m > d}) < SafetyLimit}
  <2> HIDE DEF G, f, meant_, above, C, a
  <2> DEFINE few(d) == Cardinality({m \in meant_ : m > d}) < SafetyLimit
  <2>1. \A u \in G : u \in C <=> few(f[u]) BY <1>10, <1>11
  <2> HIDE DEF few
  <2>2. C \subseteq G BY <1>10
  <2>3. {Trigger(a, u) : u \in C} = {d \in meant_ : few(d)} BY <1>7, <1>8, <2>1, <2>2
  <2>4. QED BY <2>3 DEF few
<1>15. {Trigger(a, u) : u \in IF C # {} THEN {Max(C)} ELSE {}} = {d \in meant_ : \A m \in meant_ : m <= d}
  <2>1. CASE G = {}
    <3>1. C = {} /\ meant_ = {} BY <1>8, <1>10, <2>1
    <3> HIDE DEF C, meant_
    <3>2. QED BY <3>1
  <2>2. CASE G # {}
    <3> DEFINE g == Max(G)
    <3> HIDE DEF G
    <3>1. g \in G /\ \A u \in G : u <= g BY <1>7, <2>2, GreatestIsThere
    <3> HIDE DEF g
    <3>2. above(g) = {}
      <4> SUFFICES ASSUME NEW v \in G, v > g PROVE FALSE OBVIOUS
      <4>1. v \in Nat /\ g \in Nat /\ v <= g BY <1>7, <3>1
      <4>2. QED BY <4>1
    <3>3. g \in C
      <4>1. Cardinality(above(g)) < SafetyLimit BY <3>2, FS_EmptySet, LimitsAssumption
      <4> HIDE DEF C, above
      <4>2. QED BY <1>10, <3>1, <4>1
    <3> HIDE DEF above, C
    <3>4. C \subseteq G /\ C \subseteq Nat /\ IsFiniteSet(C) BY <1>7, <1>10, FS_Subset
    <3>5. Max(C) \in C /\ \A u \in C : u <= Max(C) BY <3>3, <3>4, GreatestIsThere
    <3>6. Max(C) = g
      <4> DEFINE c == Max(C)
      <4>1. c \in G /\ c \in Nat /\ g \in Nat /\ g <= c BY <3>3, <3>4, <3>5
      <4>2. c <= g BY <3>1, <4>1
      <4> HIDE DEF c
      <4>3. c = g BY <4>1, <4>2
      <4>4. QED BY <4>3 DEF c
    <3>7. f[g] \in meant_ /\ \A m \in meant_ : m <= f[g]
      <4> SUFFICES ASSUME NEW u \in G PROVE f[u] <= f[g]
        <5> HIDE DEF f, meant_
        <5>1. QED BY <1>8, <3>1
      <4>1. u = g \/ u < g BY <1>7, <3>1
      <4>2. f[u] \in Int /\ f[g] \in Int BY <1>7, <3>1
      <4>3. u < g => f[u] < f[g] BY <1>4, <1>7, <3>1
      <4> HIDE DEF f
      <4>4. QED BY <4>1, <4>2, <4>3
    <3>8. \A d \in meant_ : (\A m \in meant_ : m <= d) <=> d = f[g]
      <4> DEFINE top == f[g]
      <4>1. top \in meant_ /\ \A m \in meant_ : m <= top BY <3>7
      <4> HIDE DEF top, meant_
      <4>2. \A d \in meant_ : (\A m \in meant_ : m <= d) <=> d = top
        <5> SUFFICES ASSUME NEW d \in meant_, \A m \in meant_ : m <= d PROVE d = top
          BY <4>1
        <5>1. d \in Int /\ top \in Int /\ top <= d /\ d <= top BY <1>13, <4>1
        <5>2. QED BY <5>1
      <4>3. QED BY <4>2 DEF top
    <3>9. Trigger(a, g) = f[g] BY <1>7, <3>1
    <3> HIDE DEF f, meant_, a
    <3>10. QED BY <3>3, <3>6, <3>7, <3>8, <3>9
  <2>3. QED BY <2>1, <2>2
<1> HIDE DEF C
<1>16. QED BY <1>12, <1>14, <1>15 DEF PeriodsAreRight

LEMMA ThePeriods ==
  ASSUME TypeOK, Fixed
  PROVE  /\ Units = UnitsOf(anchor) /\ Units \subseteq Nat /\ IsFiniteSet(Units)
         /\ \A u \in Units : trigger[u] \in First..Last /\ trigger[u] = TriggerOf(anchor, u)
         /\ created \in Nat /\ (created # NoDay => First <= created)
         /\ Relative(anchor) =>
              /\ Days \subseteq Units
              /\ \A n \in Days : \A d \in Units : {AddTo(anchor, d)} \cap 0..n \subseteq Units
         /\ ~Relative(anchor) => \A n \in Days : \A u \in Yielded(anchor, n) :
              Trigger(anchor, u) \in Int /\ (First <= Trigger(anchor, u) => u \in Units)
<1>1. PICK t \in Templates : anchor = t.anchor /\ created = t.created
  <2>1. [anchor |-> anchor, catchup |-> catchup, created |-> created] \in Templates BY DEF TypeOK
  <2>2. QED BY <2>1
<1>2. Units = UnitsOf(anchor) /\ \A u \in Units : trigger[u] = TriggerOf(anchor, u)
  BY DEF Fixed, Units
<1>3. \A u \in UnitsOf(anchor) : TriggerOf(anchor, u) \in First..Last
  <2>1. Relative(anchor) => UnitsOf(anchor) \subseteq First..Last BY <1>1, PeriodsGoOn
  <2>2. QED BY <2>1 DEF UnitsOf, TriggerOf
<1>4. created \in Nat /\ (created # NoDay => First <= created)
  BY <1>1, TemplatesAssumption
<1>5. Units \subseteq Nat /\ IsFiniteSet(Units) BY <1>1, <1>2, UnitsOfType
<1>6. Relative(anchor) =>
        /\ Days \subseteq Units
        /\ \A n \in Days : \A d \in Units : {AddTo(anchor, d)} \cap 0..n \subseteq Units
  BY <1>1, <1>2, PeriodsGoOn
<1>7. ASSUME ~Relative(anchor), NEW n \in Days, NEW u \in Yielded(anchor, n)
      PROVE  Trigger(anchor, u) \in Int /\ (First <= Trigger(anchor, u) => u \in Units)
  <2>1. n \in First..Last BY TheDays
  <2>2. QED BY <1>1, <1>2, <1>7, <2>1, YieldedType, YieldedAreUnits
<1>8. QED BY <1>1, <1>2, <1>3, <1>4, <1>5, <1>6, <1>7

(* What a walk collects, and what a run takes of it. *)
Collected(n) ==
  {u \in Yielded(anchor, n) :
     /\ Trigger(anchor, u) > Baseline
     /\ Cardinality({v \in Yielded(anchor, n) : v > u}) < SafetyLimit}

LEMMA BaselineType ==
  ASSUME TypeOK, Fixed
  PROVE  /\ Baseline = NoDay \/ (Baseline \in Nat /\ First - 1 <= Baseline)
         /\ lastRun \in Nat /\ (lastRun # NoDay => Baseline = lastRun)
         /\ lastRun = NoDay => Baseline = IF created = NoDay THEN NoDay ELSE created - 1
<1>1. lastRun \in Days \cup {NoDay} \cup {trigger[u] : u \in Units} BY DEF TypeOK
<1>2. lastRun = NoDay \/ (lastRun \in Nat /\ First <= lastRun)
  <2>1. \A n \in Days : n \in Nat /\ First <= n BY TheDays
  <2>2. \A u \in Units : trigger[u] \in First..Last /\ First \in Nat BY TheDays, ThePeriods
  <2>3. QED BY <1>1, <2>1, <2>2
<1>3. created \in Nat /\ (created # NoDay => First <= created) BY ThePeriods
<1>4. First \in Nat /\ First > 1 BY TheDays
<1>5. QED BY <1>2, <1>3, <1>4 DEF Baseline, NoDay

LEMMA CollectedAreUnits ==
  ASSUME TypeOK, Fixed, ~Relative(anchor), Baseline # NoDay, NEW n \in Days
  PROVE  /\ Collected(n) \subseteq Units
         /\ Pending(anchor, n, Baseline, catchup)
              = IF catchup = "next" /\ Collected(n) # {} THEN {Max(Collected(n))} ELSE Collected(n)
         /\ Collected(n) # {} =>
              Max(Collected(n)) \in Collected(n) /\ \A u \in Collected(n) : u <= Max(Collected(n))
         /\ Pending(anchor, n, Baseline, catchup) \subseteq Units
<1>1. Collected(n) \subseteq Units
  <2> SUFFICES ASSUME NEW u \in Collected(n) PROVE u \in Units OBVIOUS
  <2>1. u \in Yielded(anchor, n) /\ Trigger(anchor, u) > Baseline BY DEF Collected
  <2>2. Trigger(anchor, u) \in Int BY <2>1, ThePeriods
  <2>3. First <= Trigger(anchor, u) BY <2>1, <2>2, BaselineType, TheDays
  <2>4. QED BY <2>1, <2>3, ThePeriods
<1>2. Collected(n) # {} =>
        Max(Collected(n)) \in Collected(n) /\ \A u \in Collected(n) : u <= Max(Collected(n))
  <2>1. Collected(n) \subseteq Nat /\ IsFiniteSet(Collected(n))
    BY <1>1, ThePeriods, FS_Subset
  <2>2. QED BY <2>1, GreatestIsThere
<1>3. Pending(anchor, n, Baseline, catchup)
        = IF catchup = "next" /\ Collected(n) # {} THEN {Max(Collected(n))} ELSE Collected(n)
  BY DEF Pending, Collected
<1>4. QED BY <1>1, <1>2, <1>3

LEMMA DueAreUnits ==
  ASSUME TypeOK, Fixed, NEW n \in Days, NEW index \in [Units -> Days \cup {NotThere, Open}]
  PROVE  DuePeriods(n, index) \subseteq Units
<1>1. CASE Relative(anchor)
  <2> DEFINE from == IF DoneDays(index) # {} THEN Max(DoneDays(index)) ELSE lastRun
             next == IF from = NoDay THEN n ELSE AddTo(anchor, from)
  <2>1. from \in Units \cup {NoDay}
    <3>1. CASE DoneDays(index) # {}
      <4>1. DoneDays(index) \subseteq Days BY DEF DoneDays
      <4>2. IsFiniteSet(DoneDays(index)) BY <4>1, DaysAssumption, FS_Subset
      <4>3. Max(DoneDays(index)) \in Days
        BY <3>1, <4>1, <4>2, TheDays, GreatestIsThere
      <4>4. QED BY <1>1, <3>1, <4>3, ThePeriods
    <3>2. CASE DoneDays(index) = {}
      <4>1. lastRun \in Days \cup {NoDay} \cup {trigger[u] : u \in Units} BY DEF TypeOK
      <4>2. \A u \in Units : trigger[u] = u BY <1>1, ThePeriods DEF TriggerOf
      <4>3. QED BY <1>1, <3>2, <4>1, <4>2, ThePeriods
    <3>3. QED BY <3>1, <3>2
  <2>2. DuePeriods(n, index) = {next} \cap 0..n BY <1>1 DEF DuePeriods
  <2> HIDE DEF from
  <2>3. QED BY <1>1, <2>1, <2>2, ThePeriods
<1>2. CASE ~Relative(anchor)
  <2>1. DuePeriods(n, index) \subseteq
          IF Baseline # NoDay THEN Pending(anchor, n, Baseline, catchup) ELSE {}
    BY <1>2 DEF DuePeriods, Periods
  <2>2. Baseline # NoDay => Pending(anchor, n, Baseline, catchup) \subseteq Units
    BY <1>2, CollectedAreUnits
  <2>3. QED BY <2>1, <2>2
<1>3. QED BY <1>1, <1>2
------------------------------------------------------------------------------
(* Types. *)

(* What a run has left to do, by the step it is at. *)
Running ==
  \A r \in Runners :
    /\ pc[r] = "write" => todo[r] # {}
    /\ pc[r] = "report" => todo[r] = {}
    /\ pc[r] = "idle" => todo[r] = {} /\ done[r] = {} /\ owed[r] = {}
    /\ r # Cli => ~blind[r]

LEMMA TemplateStays == [Next]_vars => UNCHANGED <<template, Units>>
<1> SUFFICES ASSUME [Next]_vars PROVE UNCHANGED template
  BY DEF template, Units
<1>1. ASSUME NEW r \in Runners, NEW n \in Days, NEW dark \in BOOLEAN, Start(r, n, dark)
      PROVE  UNCHANGED template
  BY <1>1 DEF Start
<1>2. ASSUME NEW r \in Runners, NEW placed \in BOOLEAN,
             Skip(r) \/ Miss(r) \/ Write(r) \/ WriteFails(r, placed) \/ Stamp(r)
               \/ StampFails(r, placed) \/ Report(r) \/ Abort(r)
      PROVE  UNCHANGED template
  BY <1>2 DEF Skip, Miss, Write, WriteFails, Stamp, StampFails, Report, Abort
<1>3. CASE Restart BY <1>3 DEF Restart
<1>4. ASSUME NEW i \in Indexes, NEW u \in Units, Notice(i, u) PROVE UNCHANGED template
  BY <1>4 DEF Notice
<1>5. ASSUME NEW u, NEW s, UserWrites(u, s) \/ UserRemoves(u) \/ UserStamps(s) PROVE UNCHANGED template
  BY <1>5 DEF UserWrites, UserRemoves, UserStamps
<1>6. CASE NextDay BY <1>6 DEF NextDay
<1>7. CASE UNCHANGED vars BY <1>7 DEF vars
<1>8. QED
  BY <1>1, <1>2, <1>3, <1>4, <1>5, <1>6, <1>7 DEF Next

LEMMA CurrentIsDue ==
  ASSUME TypeOK, Fixed, NEW r \in Runners, todo[r] # {}
  PROVE  Current(r) \in todo[r] /\ Current(r) \in Units /\ \A u \in todo[r] : Current(r) <= u
<1>1. todo[r] \subseteq Units /\ todo[r] \subseteq Nat BY ThePeriods DEF TypeOK
<1>2. QED BY <1>1, LeastIsThere DEF Current

LEMMA LastDone ==
  ASSUME TypeOK, Fixed, NEW r \in Runners, done[r] # {}
  PROVE  Max(done[r]) \in done[r] /\ Max(done[r]) \in Units /\ \A u \in done[r] : u <= Max(done[r])
<1>1. done[r] \in SUBSET Units BY DEF TypeOK
<1>2. done[r] \subseteq Nat /\ IsFiniteSet(done[r]) BY <1>1, ThePeriods, FS_Subset
<1>3. QED BY <1>1, <1>2, GreatestIsThere

LEMMA IndexAtStartType ==
  ASSUME TypeOK, NEW r \in Runners, NEW dark \in BOOLEAN
  PROVE  IndexAtStart(r, dark) \in [Units -> Days \cup {NotThere, Open}]
BY DEF TypeOK, IndexAtStart, Unseen, Indexes

LEMMA InitTypes == Init => TypeOK /\ Fixed /\ Running
<1> SUFFICES ASSUME Init PROVE TypeOK /\ Fixed /\ Running
  OBVIOUS
<1>1. Fixed BY DEF Init, Fixed
<1>2. Running BY DEF Init, Running
<1>3. [anchor |-> anchor, catchup |-> catchup, created |-> created] \in Templates
  <2>1. PICK t \in Templates : anchor = t.anchor /\ catchup = t.catchup /\ created = t.created
    BY DEF Init
  <2>2. QED BY <2>1, TemplatesAssumption
<1>4. TypeOK
  <2>1. First \in Days /\ MaxRuns \in Nat /\ MaxEvents \in Nat BY TheDays, BoundsAssumption
  <2>2. QED BY <1>3, <2>1 DEF Init, TypeOK, Unseen
<1>5. QED BY <1>1, <1>2, <1>4

(* What Over(rs) does to the types. *)
LEMMA OverTypes ==
  ASSUME TypeOK, Running, NEW rs \in SUBSET Runners, Over(rs)
  PROVE  /\ pc' \in [Runners -> {"idle", "look", "write", "report"}]
         /\ owed' \in [Runners -> SUBSET Units] /\ todo' \in [Runners -> SUBSET Units]
         /\ done' \in [Runners -> SUBSET Units] /\ errors' \in [Runners -> SUBSET Units]
         /\ blind' \in [Runners -> BOOLEAN] /\ excused' \in [Runners -> BOOLEAN]
         /\ Running'
<1>1. \A r \in Runners : r \in rs =>
        pc'[r] = "idle" /\ todo'[r] = {} /\ done'[r] = {} /\ owed'[r] = {} /\ blind'[r] = FALSE
  BY DEF Over
<1>2. \A r \in Runners : r \notin rs =>
        /\ pc'[r] = pc[r] /\ todo'[r] = todo[r] /\ done'[r] = done[r] /\ owed'[r] = owed[r]
        /\ blind'[r] = blind[r]
  BY DEF Over
<1>3. Running' BY <1>1, <1>2 DEF Running
<1>4. QED BY <1>3 DEF Over, TypeOK

LEMMA NextTypes == TypeOK /\ Fixed /\ Running /\ [Next]_vars => (TypeOK /\ Fixed /\ Running)'
<1> SUFFICES ASSUME TypeOK, Fixed, Running, [Next]_vars PROVE (TypeOK /\ Fixed /\ Running)'
  OBVIOUS
<1> USE DEF run, notes, past
<1>1. UNCHANGED <<template, Units>> BY TemplateStays
<1>2. Fixed' BY <1>1 DEF Fixed, template
<1>3. ASSUME NEW r \in Runners, NEW n \in Days, NEW dark \in BOOLEAN, Start(r, n, dark)
      PROVE  TypeOK' /\ Running'
  <2>1. IndexAtStart(r, dark) \in [Units -> Days \cup {NotThere, Open}] BY IndexAtStartType
  <2>2. DuePeriods(n, IndexAtStart(r, dark)) \subseteq Units BY <2>1, DueAreUnits
  <2>3. Owed(n) \subseteq Units /\ BeyondLimit(n) \subseteq Units
    BY DEF Owed, BeyondLimit, Upto
  <2>4. runs' \in 0..MaxRuns BY <1>3, BoundsAssumption DEF Start, TypeOK
  <2>5. TypeOK' BY <1>1, <1>3, <2>1, <2>2, <2>3, <2>4 DEF Start, TypeOK, template
  <2>6. Running' BY <1>3 DEF Start, Running, TypeOK
  <2>7. QED BY <2>5, <2>6
<1>4. ASSUME NEW r \in Runners, Skip(r) \/ Miss(r) PROVE TypeOK' /\ Running'
  <2>1. TypeOK'
    <3>1. CASE Skip(r) BY <1>1, <3>1 DEF Skip, TypeOK, template
    <3>2. CASE Miss(r)
      <4>1. excused' \in [Runners -> BOOLEAN]
        <5>1. Unseeable(r) \in BOOLEAN BY DEF Unseeable
        <5>2. excused' = [excused EXCEPT ![r] = Unseeable(r)] /\ excused \in [Runners -> BOOLEAN]
          BY <3>2 DEF Miss, TypeOK
        <5>3. QED BY <5>1, <5>2
      <4>2. pc' \in [Runners -> {"idle", "look", "write", "report"}] BY <3>2 DEF Miss, TypeOK
      <4>3. QED BY <1>1, <3>2, <4>1, <4>2 DEF Miss, TypeOK, template
    <3>3. QED BY <1>4, <3>1, <3>2
  <2>2. Running' BY <1>4 DEF Skip, Miss, Running, TypeOK
  <2>3. QED BY <2>1, <2>2
<1>5. ASSUME NEW u \in Units PROVE Told({u}) \in [Indexes -> SUBSET Units]
  BY DEF Told, TypeOK
<1>6. ASSUME NEW r \in Runners, Write(r) PROVE TypeOK' /\ Running'
  <2>1. Current(r) \in Units BY <1>6, CurrentIsDue DEF Write, Running
  <2>2. IndexOf(r) \in Indexes BY DEF IndexOf, Indexes
  <2>3. TypeOK'
    <3>1. text' \in [Units -> {"none", "user"} \cup Indexes] /\ status' \in [Units -> Days \cup {NotThere, Open}]
      BY <1>6, <2>1, <2>2 DEF Write, PlaceNote, TypeOK
    <3>2. seen' \in [Indexes -> [Units -> Days \cup {NotThere, Open}]]
      BY <1>6, <2>1, <2>2 DEF Write, TypeOK
    <3>3. news' \in [Indexes -> SUBSET Units] BY <1>5, <1>6, <2>1, <2>2 DEF Write
    <3>4. /\ todo' \in [Runners -> SUBSET Units] /\ done' \in [Runners -> SUBSET Units]
          /\ pc' \in [Runners -> {"idle", "look", "write", "report"}] /\ had' \subseteq Units
      BY <1>6, <2>1 DEF Write, TypeOK
    <3>5. UNCHANGED <<lastRun, day, owed, errors, blind, excused, failed, waived, runs, events>>
      BY <1>6 DEF Write
    <3>6. QED BY <1>1, <3>1, <3>2, <3>3, <3>4, <3>5 DEF TypeOK, template
  <2>4. Running' BY <1>6 DEF Write, Running, TypeOK
  <2>5. QED BY <2>3, <2>4
<1>7. ASSUME NEW r \in Runners, NEW placed \in BOOLEAN, WriteFails(r, placed) PROVE TypeOK' /\ Running'
  <2>1. Current(r) \in Units BY <1>7, CurrentIsDue DEF WriteFails, Running
  <2>2. events' \in 0..MaxEvents BY <1>7, BoundsAssumption DEF WriteFails, Event, TypeOK
  <2>3. IndexOf(r) \in Indexes BY DEF IndexOf, Indexes
  <2>4. TypeOK' BY <1>1, <1>5, <1>7, <2>1, <2>2, <2>3 DEF WriteFails, PlaceNote, TypeOK, template
  <2>5. Running' BY <1>7 DEF WriteFails, Running, TypeOK
  <2>6. QED BY <2>4, <2>5
<1>8. ASSUME NEW r \in Runners, NEW placed \in BOOLEAN, Stamp(r) \/ StampFails(r, placed)
      PROVE  TypeOK' /\ Running'
  <2>1. Max(done[r]) \in Units BY <1>8, LastDone DEF Stamp, StampFails
  <2>2. events' \in 0..MaxEvents BY <1>8, BoundsAssumption DEF Stamp, StampFails, Event, TypeOK
  <2>3. lastRun' \in (Days \cup {NoDay} \cup {trigger[u] : u \in Units})
    BY <1>8, <2>1 DEF Stamp, StampFails, TypeOK
  <2>4. TypeOK'
    <3>1. lastRun' \in (Days \cup {NoDay} \cup {trigger[u] : u \in Units})'
      BY <1>1, <2>3 DEF template
    <3>2. CASE Stamp(r) BY <1>1, <2>2, <3>1, <3>2 DEF Stamp, TypeOK, template
    <3>3. CASE StampFails(r, placed) BY <1>1, <2>2, <3>1, <3>3 DEF StampFails, TypeOK, template
    <3>4. QED BY <1>8, <3>2, <3>3
  <2>5. Running' BY <1>8 DEF Stamp, StampFails, Running, TypeOK
  <2>6. QED BY <2>4, <2>5
<1>9. ASSUME NEW r \in Runners, Report(r) \/ Abort(r) PROVE TypeOK' /\ Running'
  <2>1. Over({r}) BY <1>9 DEF Report, Abort
  <2>2. events' \in 0..MaxEvents BY <1>9, BoundsAssumption DEF Report, Abort, Event, TypeOK
  <2>3. seen' \in [Indexes -> [Units -> Days \cup {NotThere, Open}]] /\ news' \in [Indexes -> SUBSET Units]
    BY <1>9 DEF Report, Abort, TypeOK, Unseen, Indexes
  <2>4. TypeOK' BY <1>1, <1>9, <2>1, <2>2, <2>3, OverTypes DEF Report, Abort, TypeOK, template
  <2>5. QED BY <2>1, <2>4, OverTypes
<1>10. ASSUME Restart PROVE TypeOK' /\ Running'
  <2>1. Over({Scheduler} \cup Tools) /\ {Scheduler} \cup Tools \subseteq Runners
    BY <1>10 DEF Restart, Runners
  <2>2. events' \in 0..MaxEvents BY <1>10, BoundsAssumption DEF Restart, Event, TypeOK
  <2>3. seen' \in [Indexes -> [Units -> Days \cup {NotThere, Open}]] /\ news' \in [Indexes -> SUBSET Units]
    BY <1>10 DEF Restart, TypeOK, Indexes
  <2>4. TypeOK' BY <1>1, <1>10, <2>1, <2>2, <2>3, OverTypes DEF Restart, TypeOK, template
  <2>5. QED BY <2>1, <2>4, OverTypes
<1>11. ASSUME NEW i \in Indexes, NEW u \in Units, Notice(i, u) PROVE TypeOK' /\ Running'
  <2>1. TypeOK' BY <1>1, <1>11 DEF Notice, TypeOK, template
  <2>2. Running' BY <1>11 DEF Notice, Running
  <2>3. QED BY <2>1, <2>2
<1>12. ASSUME NEW u \in Units, NEW s \in {NotThere, Open, day}, UserWrites(u, s) \/ UserRemoves(u)
       PROVE  TypeOK' /\ Running'
  <2>1. events' \in 0..MaxEvents
    BY <1>12, BoundsAssumption DEF UserWrites, UserRemoves, Event, TypeOK
  <2>2. TypeOK'
    <3>1. CASE UserWrites(u, s)
      BY <1>1, <1>5, <2>1, <3>1 DEF UserWrites, TypeOK, template
    <3>2. CASE UserRemoves(u)
      BY <1>1, <1>5, <2>1, <3>2 DEF UserRemoves, TypeOK, template
    <3>3. QED BY <1>12, <3>1, <3>2
  <2>3. Running' BY <1>12 DEF UserWrites, UserRemoves, Running
  <2>4. QED BY <2>2, <2>3
<1>13. ASSUME NEW n \in Days \cup {NoDay}, UserStamps(n) PROVE TypeOK' /\ Running'
  <2>1. events' \in 0..MaxEvents BY <1>13, BoundsAssumption DEF UserStamps, Event, TypeOK
  <2>2. Upto(n) \subseteq Units BY DEF Upto
  <2>3. TypeOK' BY <1>1, <1>13, <2>1, <2>2 DEF UserStamps, TypeOK, template
  <2>4. Running' BY <1>13 DEF UserStamps, Running
  <2>5. QED BY <2>3, <2>4
<1>14. ASSUME NextDay PROVE TypeOK' /\ Running'
  BY <1>1, <1>14 DEF NextDay, TypeOK, Running, template
<1>15. ASSUME UNCHANGED vars PROVE TypeOK' /\ Running'
  BY <1>1, <1>15 DEF vars, TypeOK, Running, template
<1> HIDE DEF run, notes, past
<1>16. TypeOK' /\ Running'
  <2> HIDE DEF TypeOK, Running
  <2>1. QED
    BY <1>3, <1>4, <1>6, <1>7, <1>8, <1>9, <1>10, <1>11, <1>12, <1>13, <1>14, <1>15 DEF Next
<1>17. QED BY <1>2, <1>16

(* Every variable keeps its type: what a run is to do is made of periods of the template,
   and last_run is a day that was given or the day of a period.                          *)
THEOREM TypeCorrect == Spec => []TypeOK
<1>1. QED BY InitTypes, NextTypes, PTL DEF Spec

(* What the walks of the code yield are the days that the anchor means, for every template
   whose year the calendar reaches, and each interval ends on its day or, where the month
   has no such day, on the last one it has.                                             *)
THEOREM CalendarAlwaysRight == Spec => []CalendarIsRight
<1>1. TypeOK => CalendarIsRight
  <2> SUFFICES ASSUME TypeOK
               PROVE  /\ ~Relative(anchor) => WalkFits(anchor)
                      /\ \A n \in First..Last :
                           IF Relative(anchor) THEN IntervalIsRight(anchor, n)
                           ELSE PeriodsAreRight(anchor, n, First - 365)
    BY DEF CalendarIsRight
  <2>1. PICK t \in Templates : anchor = t.anchor
    <3>1. [anchor |-> anchor, catchup |-> catchup, created |-> created] \in Templates BY DEF TypeOK
    <3>2. QED BY <3>1
  <2>2. QED BY <2>1, WalksFit, CollectsMeant, IntervalEnds
<1>2. QED BY <1>1, TypeCorrect, PTL
------------------------------------------------------------------------------
(* Written once. *)

(* An index that is looked at is behind the notes only where it has not heard of a change. *)
Live(i) == i = "server" \/ (pc[Cli] # "idle" /\ ~blind[Cli])
Fresh == \A i \in Indexes : Live(i) => \A u \in Units \ news[i] : seen[i][u] = status[u]

(* A note that a process wrote without an error is one its own index has seen. *)
Own ==
  \A u \in Units : text[u] \in Indexes =>
    /\ status[u] = Open
    /\ Live(text[u]) /\ u \notin failed => seen[text[u]][u] # NotThere

(* Who is about to write has not seen a note that was to be seen. *)
ExcusedWriters == \A r \in Runners : pc[r] = "write" => excused[r]

LEMMA IndexIsLive ==
  ASSUME Running, NEW r \in Runners, pc[r] # "idle", ~blind[r]
  PROVE  Live(IndexOf(r)) /\ IndexOf(r) \in Indexes
BY DEF Live, IndexOf, Indexes

(* A change to the note of u which the indexes are told of. *)
LEMMA ToldOfChange ==
  ASSUME TypeOK, Fresh, UNCHANGED Units, NEW u \in Units, NEW i \in Indexes, Live(i),
         \A v \in Units \ {u} : status'[v] = status[v]
  PROVE  \A v \in Units \ Told({u})[i] : seen[i][v] = status'[v]
<1>1. Told({u})[i] = news[i] \cup {u}
  BY DEF Told, Live
<1>2. QED BY <1>1 DEF Fresh

LEMMA NextFresh == TypeOK /\ Fixed /\ Running /\ Fresh /\ [Next]_vars => Fresh'
<1> SUFFICES ASSUME TypeOK, Fixed, Running, Fresh, [Next]_vars PROVE Fresh'
  OBVIOUS
<1> USE DEF run, notes, past
<1>1. UNCHANGED Units BY TemplateStays
<1>2. ASSUME NEW r \in Runners, NEW n \in Days, NEW dark \in BOOLEAN, Start(r, n, dark) PROVE Fresh'
  <2>1. SUFFICES ASSUME NEW i \in Indexes, Live(i)', NEW u \in Units, u \notin news'[i]
                 PROVE  seen'[i][u] = status'[u]
    BY <1>1 DEF Fresh
  <2>2. UNCHANGED <<news, status>> BY <1>2 DEF Start
  <2>3. CASE i = IndexOf(r)
    <3>1. seen'[i] = IndexAtStart(r, dark) BY <1>2, <2>3 DEF Start, TypeOK
    <3>2. CASE r = Cli
      <4>1. i = "cli" BY <2>3, <3>2 DEF IndexOf
      <4>2. ~dark BY <1>2, <2>1, <3>2, <4>1 DEF Start, Live, TypeOK
      <4>3. QED BY <2>2, <3>1, <3>2, <4>2 DEF IndexAtStart
    <3>3. CASE r # Cli
      <4>1. i = "server" BY <2>3, <3>3 DEF IndexOf
      <4>2. QED BY <2>1, <2>2, <3>1, <3>3, <4>1 DEF IndexAtStart, Fresh, Live
    <3>4. QED BY <3>2, <3>3
  <2>4. CASE i # IndexOf(r)
    <3>1. seen'[i] = seen[i] BY <1>2, <2>4 DEF Start, TypeOK
    <3>2. Live(i)
      BY <1>2, <2>1, <2>4 DEF Start, Live, IndexOf, TypeOK, Indexes
    <3>3. QED BY <2>1, <2>2, <3>1, <3>2 DEF Fresh
  <2>5. QED BY <2>3, <2>4
<1>3. ASSUME NEW r \in Runners, NEW placed \in BOOLEAN,
             Skip(r) \/ Miss(r) \/ Stamp(r) \/ StampFails(r, placed)
      PROVE  Fresh'
  <2>1. UNCHANGED <<news, blind, seen, status>>
    BY <1>3 DEF Skip, Miss, Stamp, StampFails
  <2>2. pc[r] = "look" /\ \A o \in Runners \ {r} : pc'[o] = pc[o]
    BY <1>3 DEF Skip, Miss, Stamp, StampFails, TypeOK
  <2>3. \A i \in Indexes : Live(i)' => Live(i)
    BY <2>1, <2>2 DEF Live, Runners
  <2>4. QED BY <1>1, <2>1, <2>3 DEF Fresh
<1>4. ASSUME NEW r \in Runners, Write(r) PROVE Fresh'
  <2>1. SUFFICES ASSUME NEW i \in Indexes, Live(i)', NEW v \in Units, v \notin news'[i]
                 PROVE  seen'[i][v] = status'[v]
    BY <1>1 DEF Fresh
  <2> DEFINE u == Current(r)
  <2>2. u \in Units BY <1>4, CurrentIsDue DEF Write, Running
  <2>3. Live(i) BY <1>4, <2>1 DEF Write, Live, TypeOK
  <2>4. status' = [status EXCEPT ![u] = Open] BY <1>4 DEF Write, PlaceNote
  <2>5. \A w \in Units \ Told({u})[i] : seen[i][w] = status'[w]
    BY <1>1, <2>2, <2>3, <2>4, ToldOfChange DEF TypeOK
  <2>6. CASE i # IndexOf(r)
    <3>1. seen'[i] = seen[i] /\ news'[i] = Told({u})[i]
      BY <1>4, <2>6 DEF Write, Told, TypeOK
    <3>2. QED BY <2>1, <2>5, <3>1
  <2>7. CASE i = IndexOf(r)
    <3>1. /\ seen'[i] = [seen[i] EXCEPT ![u] = Open]
          /\ news'[i] = Told({u})[i] \ {u}
      BY <1>4, <2>7 DEF Write, Told, TypeOK
    <3>2. CASE v = u BY <2>2, <2>4, <3>1, <3>2 DEF TypeOK
    <3>3. CASE v # u BY <2>1, <2>5, <3>1, <3>3 DEF TypeOK
    <3>4. QED BY <3>2, <3>3
  <2>8. QED BY <2>6, <2>7
<1>5. ASSUME NEW r \in Runners, NEW placed \in BOOLEAN, WriteFails(r, placed) PROVE Fresh'
  <2> DEFINE u == Current(r)
  <2>1. u \in Units BY <1>5, CurrentIsDue DEF WriteFails, Running
  <2>2. \A i \in Indexes : Live(i)' => Live(i)
    BY <1>5 DEF WriteFails, Live, TypeOK
  <2>3. seen' = seen BY <1>5 DEF WriteFails
  <2>4. CASE placed
    <3>1. status' = [status EXCEPT ![u] = Open] /\ news' = Told({u})
      BY <1>5, <2>4 DEF WriteFails, PlaceNote
    <3>2. \A v \in Units \ {u} : status'[v] = status[v] BY <3>1 DEF TypeOK
    <3>3. QED BY <1>1, <2>1, <2>2, <2>3, <3>1, <3>2, ToldOfChange DEF Fresh
  <2>5. CASE ~placed
    <3>1. status' = status /\ news' = news BY <1>5, <2>5 DEF WriteFails
    <3>2. QED BY <1>1, <2>2, <2>3, <3>1 DEF Fresh
  <2>6. QED BY <2>4, <2>5
<1>6. ASSUME NEW r \in Runners, Report(r) \/ Abort(r) PROVE Fresh'
  <2>1. Over({r}) /\ status' = status BY <1>6 DEF Report, Abort
  <2>2. CASE r = Cli
    <3>1. pc'[Cli] = "idle" BY <2>1, <2>2 DEF Over
    <3>2. seen'["server"] = seen["server"] /\ news'["server"] = news["server"]
      BY <1>6, <2>2 DEF Report, Abort, TypeOK, Indexes
    <3>3. QED BY <1>1, <2>1, <3>1, <3>2 DEF Fresh, Live
  <2>3. CASE r # Cli
    <3>1. UNCHANGED <<seen, news>> BY <1>6, <2>3 DEF Report, Abort
    <3>2. pc'[Cli] = pc[Cli] /\ blind'[Cli] = blind[Cli] BY <2>1, <2>3 DEF Over, Runners
    <3>3. QED BY <1>1, <2>1, <3>1, <3>2 DEF Fresh, Live
  <2>4. QED BY <2>2, <2>3
<1>7. ASSUME Restart PROVE Fresh'
  <2>1. Cli \notin {Scheduler} \cup Tools BY RunnersAssumption
  <2>2. pc'[Cli] = pc[Cli] /\ blind'[Cli] = blind[Cli] BY <1>7, <2>1 DEF Restart, Over, Runners
  <2>3. status' = status /\ seen'["server"] = status
    BY <1>7 DEF Restart, TypeOK, Indexes
  <2>4. seen'["cli"] = seen["cli"] /\ news'["cli"] = news["cli"]
    BY <1>7 DEF Restart, TypeOK, Indexes
  <2>5. QED BY <1>1, <2>2, <2>3, <2>4 DEF Fresh, Live, Indexes
<1>8. ASSUME NEW i \in Indexes, NEW u \in Units, Notice(i, u) PROVE Fresh'
  <2>1. /\ seen' = [seen EXCEPT ![i] = [@ EXCEPT ![u] = status[u]]]
        /\ news' = [news EXCEPT ![i] = @ \ {u}] /\ UNCHANGED <<status, pc, blind>>
    BY <1>8 DEF Notice
  <2>2. \A j \in Indexes : Live(j)' = Live(j) BY <2>1 DEF Live
  <2>3. \A j \in Indexes : \A v \in Units \ news'[j] :
          seen'[j][v] = IF j = i /\ v = u THEN status[u] ELSE seen[j][v]
    BY <2>1 DEF TypeOK
  <2>4. \A j \in Indexes : \A v \in Units \ news'[j] : v \notin news[j] \/ (j = i /\ v = u)
    BY <2>1 DEF TypeOK
  <2>5. QED BY <1>1, <2>1, <2>2, <2>3, <2>4 DEF Fresh
<1>9. ASSUME NEW u \in Units, NEW s \in {NotThere, Open, day}, UserWrites(u, s) \/ UserRemoves(u)
      PROVE  Fresh'
  <2>1. /\ \A v \in Units \ {u} : status'[v] = status[v]
        /\ news' = Told({u}) /\ UNCHANGED <<seen, pc, blind>>
    BY <1>9 DEF UserWrites, UserRemoves, TypeOK
  <2>2. \A i \in Indexes : Live(i)' = Live(i) BY <2>1 DEF Live
  <2>3. QED BY <1>1, <2>1, <2>2, ToldOfChange DEF Fresh
<1>10. ASSUME NEW n, UserStamps(n) \/ NextDay \/ UNCHANGED vars PROVE Fresh'
  <2>1. UNCHANGED <<seen, status, news, pc, blind>>
    BY <1>10 DEF UserStamps, NextDay, vars
  <2>2. QED BY <1>1, <2>1 DEF Fresh, Live
<1> HIDE DEF run, notes, past
<1>11. QED
  <2> HIDE DEF TypeOK, Running, Fresh
  <2>1. QED BY <1>2, <1>3, <1>4, <1>5, <1>6, <1>7, <1>8, <1>9, <1>10 DEF Next

LEMMA NextOwn == TypeOK /\ Fixed /\ Running /\ Own /\ [Next]_vars => Own'
<1> SUFFICES ASSUME TypeOK, Fixed, Running, Own, [Next]_vars PROVE Own'
  OBVIOUS
<1> DEFINE OwnOf(u) == text[u] \in Indexes =>
                         /\ status[u] = Open
                         /\ Live(text[u]) /\ u \notin failed => seen[text[u]][u] # NotThere
<1> USE DEF run, notes, past
<1>1. UNCHANGED Units BY TemplateStays
<1>2. SUFFICES ASSUME NEW u \in Units PROVE OwnOf(u)'
  BY <1>1 DEF Own
<1>3. OwnOf(u) /\ "server" \in Indexes /\ Open # NotThere BY DEF Own, Indexes, Open, NotThere
<1>4. ASSUME text'[u] = text[u], status'[u] = status[u], failed \subseteq failed',
             text[u] \in Indexes /\ Live(text[u])'
               => \/ seen'[text[u]][u] = status[u]
                  \/ Live(text[u]) /\ seen'[text[u]][u] = seen[text[u]][u]
      PROVE  OwnOf(u)'
  BY <1>3, <1>4 DEF Live
<1>5. ASSUME UNCHANGED <<seen, blind>>, text'[u] = text[u], status'[u] = status[u], failed \subseteq failed',
             NEW r \in Runners, pc[r] # "idle", \A o \in Runners \ {r} : pc'[o] = pc[o]
      PROVE  OwnOf(u)'
  <2>1. \A i \in Indexes : Live(i)' => Live(i) BY <1>5 DEF Live, Runners
  <2>2. QED BY <1>4, <1>5, <2>1
<1>6. ASSUME NEW r \in Runners, NEW n \in Days, NEW dark \in BOOLEAN, Start(r, n, dark) PROVE OwnOf(u)'
  <2>1. UNCHANGED <<text, status, failed>> BY <1>6 DEF Start
  <2>2. SUFFICES ASSUME NEW i \in Indexes, Live(i)'
                 PROVE  seen'[i][u] = status[u] \/ (Live(i) /\ seen'[i][u] = seen[i][u])
    BY <1>4, <2>1
  <2>3. CASE i = IndexOf(r)
    <3>1. seen'[i] = IndexAtStart(r, dark) BY <1>6, <2>3 DEF Start, TypeOK
    <3>2. CASE r = Cli
      <4>1. i = "cli" BY <2>3, <3>2 DEF IndexOf
      <4>2. ~dark BY <1>6, <2>2, <3>2, <4>1 DEF Start, Live, TypeOK
      <4>3. QED BY <3>1, <3>2, <4>2 DEF IndexAtStart
    <3>3. CASE r # Cli
      <4>1. i = "server" BY <2>3, <3>3 DEF IndexOf
      <4>2. QED BY <3>1, <3>3, <4>1 DEF IndexAtStart, Live
    <3>4. QED BY <3>2, <3>3
  <2>4. CASE i # IndexOf(r)
    <3>1. seen'[i] = seen[i] BY <1>6, <2>4 DEF Start, TypeOK
    <3>2. Live(i) BY <1>6, <2>2, <2>4 DEF Start, Live, IndexOf, TypeOK, Indexes
    <3>3. QED BY <3>1, <3>2
  <2>5. QED BY <2>3, <2>4
<1>7. ASSUME NEW r \in Runners, NEW placed \in BOOLEAN,
             Skip(r) \/ Miss(r) \/ Stamp(r) \/ StampFails(r, placed)
      PROVE  OwnOf(u)'
  <2>1. UNCHANGED <<text, status, failed, seen, blind>>
    BY <1>7 DEF Skip, Miss, Stamp, StampFails
  <2>2. pc[r] = "look" /\ \A o \in Runners \ {r} : pc'[o] = pc[o]
    BY <1>7 DEF Skip, Miss, Stamp, StampFails, TypeOK
  <2>3. QED BY <1>5, <2>1, <2>2
<1>8. ASSUME NEW r \in Runners, Write(r) PROVE OwnOf(u)'
  <2> DEFINE w == Current(r)
  <2>1. w \in Units /\ IndexOf(r) \in Indexes
    BY <1>8, CurrentIsDue DEF Write, Running, IndexOf, Indexes
  <2>2. /\ text' = [text EXCEPT ![w] = IndexOf(r)] /\ status' = [status EXCEPT ![w] = Open]
        /\ seen' = [seen EXCEPT ![IndexOf(r)] = [@ EXCEPT ![w] = Open]]
        /\ UNCHANGED <<failed, blind>> /\ pc' = [pc EXCEPT ![r] = "look"] /\ pc[r] = "write"
    BY <1>8 DEF Write, PlaceNote
  <2>3. CASE u = w
    <3>1. text'[u] = IndexOf(r) /\ status'[u] = Open /\ seen'[IndexOf(r)][u] = Open
      BY <2>1, <2>2, <2>3 DEF TypeOK
    <3>2. QED BY <1>3, <3>1
  <2>4. CASE u # w
    <3>1. text'[u] = text[u] /\ status'[u] = status[u] BY <2>2, <2>4 DEF TypeOK
    <3>2. \A i \in Indexes : seen'[i][u] = seen[i][u] BY <2>2, <2>4 DEF TypeOK
    <3>3. \A i \in Indexes : Live(i)' => Live(i) BY <2>2 DEF Live, TypeOK
    <3>4. QED BY <1>4, <2>2, <3>1, <3>2, <3>3
  <2>5. QED BY <2>3, <2>4
<1>9. ASSUME NEW r \in Runners, NEW placed \in BOOLEAN, WriteFails(r, placed) PROVE OwnOf(u)'
  <2> DEFINE w == Current(r)
  <2>1. w \in Units BY <1>9, CurrentIsDue DEF WriteFails, Running
  <2>2. /\ UNCHANGED <<seen, blind>> /\ failed' = failed \cup {w}
        /\ pc[r] = "write" /\ pc' = [pc EXCEPT ![r] = "look"]
    BY <1>9 DEF WriteFails
  <2>3. CASE u = w /\ placed
    <3>1. status'[u] = Open /\ u \in failed'
      BY <1>9, <2>2, <2>3 DEF WriteFails, PlaceNote, TypeOK
    <3>2. QED BY <3>1
  <2>4. CASE u # w \/ ~placed
    <3>1. text'[u] = text[u] /\ status'[u] = status[u]
      BY <1>9, <2>4 DEF WriteFails, PlaceNote, TypeOK
    <3>2. \A o \in Runners \ {r} : pc'[o] = pc[o] BY <2>2 DEF TypeOK
    <3>3. QED BY <1>5, <2>2, <3>1, <3>2
  <2>5. QED BY <2>3, <2>4
<1>10. ASSUME NEW r \in Runners, Report(r) \/ Abort(r) PROVE OwnOf(u)'
  <2>1. Over({r}) /\ UNCHANGED <<text, status, failed>> BY <1>10 DEF Report, Abort
  <2>2. CASE r = Cli
    <3>1. pc'[Cli] = "idle" BY <2>1, <2>2 DEF Over, Runners
    <3>2. seen'["server"] = seen["server"] BY <1>10, <2>2 DEF Report, Abort, TypeOK, Indexes
    <3>3. \A i \in Indexes : Live(i)' => i = "server" BY <3>1 DEF Live
    <3>4. QED BY <1>4, <2>1, <3>2, <3>3 DEF Live
  <2>3. CASE r # Cli
    <3>1. UNCHANGED seen BY <1>10, <2>3 DEF Report, Abort
    <3>2. pc'[Cli] = pc[Cli] /\ blind'[Cli] = blind[Cli] BY <2>1, <2>3 DEF Over, Runners
    <3>3. \A i \in Indexes : Live(i)' => Live(i) BY <3>2 DEF Live
    <3>4. QED BY <1>4, <2>1, <3>1, <3>3
  <2>4. QED BY <2>2, <2>3
<1>11. ASSUME Restart PROVE OwnOf(u)'
  <2>1. Cli \notin {Scheduler} \cup Tools BY RunnersAssumption
  <2>2. pc'[Cli] = pc[Cli] /\ blind'[Cli] = blind[Cli] BY <1>11, <2>1 DEF Restart, Over, Runners
  <2>3. UNCHANGED <<text, status, failed>> /\ seen'["server"] = status /\ seen'["cli"] = seen["cli"]
    BY <1>11 DEF Restart, TypeOK, Indexes
  <2>4. \A i \in Indexes : Live(i)' => Live(i) BY <2>2 DEF Live
  <2>5. \A i \in Indexes : i = "server" \/ i = "cli" BY DEF Indexes
  <2>6. QED BY <1>4, <2>3, <2>4, <2>5
<1>12. ASSUME NEW i \in Indexes, NEW v \in Units, Notice(i, v) PROVE OwnOf(u)'
  <2>1. UNCHANGED <<text, status, failed, pc, blind>> BY <1>12 DEF Notice
  <2>2. \A j \in Indexes : Live(j)' = Live(j) BY <2>1 DEF Live
  <2>3. \A j \in Indexes : seen'[j][u] = IF j = i /\ u = v THEN status[u] ELSE seen[j][u]
    BY <1>12 DEF Notice, TypeOK
  <2>4. QED BY <1>4, <2>1, <2>2, <2>3
<1>13. ASSUME NEW v \in Units, NEW s \in {NotThere, Open, day}, UserWrites(v, s) \/ UserRemoves(v)
       PROVE  OwnOf(u)'
  <2>1. UNCHANGED <<seen, failed, pc, blind>> BY <1>13 DEF UserWrites, UserRemoves
  <2>2. CASE u = v
    <3>1. text'[u] \in {"user", "none"} BY <1>13, <2>2 DEF UserWrites, UserRemoves, TypeOK
    <3>2. QED BY <3>1 DEF Indexes
  <2>3. CASE u # v
    <3>1. text'[u] = text[u] /\ status'[u] = status[u]
      BY <1>13, <2>3 DEF UserWrites, UserRemoves, TypeOK
    <3>2. \A j \in Indexes : Live(j)' = Live(j) BY <2>1 DEF Live
    <3>3. QED BY <1>4, <2>1, <3>1, <3>2
  <2>4. QED BY <2>2, <2>3
<1>14. ASSUME NEW n, UserStamps(n) \/ NextDay \/ UNCHANGED vars PROVE OwnOf(u)'
  <2>1. UNCHANGED <<text, status, failed, seen, pc, blind>> BY <1>14 DEF UserStamps, NextDay, vars
  <2>2. \A j \in Indexes : Live(j)' = Live(j) BY <2>1 DEF Live
  <2>3. QED BY <1>4, <2>1, <2>2
<1> HIDE DEF run, notes, past, OwnOf
<1>15. QED
  <2> HIDE DEF TypeOK, Running, Own
  <2>1. QED BY <1>6, <1>7, <1>8, <1>9, <1>10, <1>11, <1>12, <1>13, <1>14 DEF Next

LEMMA NextExcused ==
  TypeOK /\ Fixed /\ Running /\ Fresh /\ Own /\ ExcusedWriters /\ [Next]_vars => ExcusedWriters'
<1> SUFFICES ASSUME TypeOK, Fixed, Running, Fresh, Own, ExcusedWriters, [Next]_vars,
                    NEW o \in Runners, pc'[o] = "write"
             PROVE  excused'[o]
  BY DEF ExcusedWriters
<1> USE DEF run, notes, past
<1>1. ASSUME pc[o] = "write", excused'[o] = excused[o] PROVE excused'[o]
  BY <1>1 DEF ExcusedWriters
<1>2. ASSUME NEW r \in Runners, Miss(r) PROVE excused'[o]
  <2>1. CASE o # r BY <1>1, <1>2, <2>1 DEF Miss, TypeOK
  <2>2. CASE o = r
    <3>1. Current(r) \in Units /\ pc[r] # "idle" /\ seen[IndexOf(r)][Current(r)] = NotThere
      BY <1>2, CurrentIsDue DEF Miss
    <3>2. Unseeable(r)
      <4>1. CASE blind[r] BY <4>1 DEF Unseeable
      <4>2. CASE ~blind[r]
        <5>1. Live(IndexOf(r)) /\ IndexOf(r) \in Indexes BY <3>1, <4>2, IndexIsLive
        <5>2. status[Current(r)] = NotThere \/ Current(r) \in news[IndexOf(r)]
          BY <3>1, <5>1 DEF Fresh
        <5>3. text[Current(r)] = IndexOf(r) => Current(r) \in failed
          BY <3>1, <5>1 DEF Own
        <5>4. QED BY <5>2, <5>3 DEF Unseeable
      <4>3. QED BY <4>1, <4>2
    <3>3. excused'[r] = Unseeable(r)
      BY <1>2 DEF Miss, TypeOK
    <3>4. QED BY <2>2, <3>2, <3>3
  <2>3. QED BY <2>1, <2>2
<1>3. ASSUME NEW r \in Runners, NEW n \in Days, NEW dark \in BOOLEAN, Start(r, n, dark) PROVE excused'[o]
  BY <1>1, <1>3 DEF Start, TypeOK
<1>4. ASSUME NEW r \in Runners, NEW placed \in BOOLEAN,
             Skip(r) \/ Write(r) \/ WriteFails(r, placed) \/ Stamp(r) \/ StampFails(r, placed)
      PROVE  excused'[o]
  <2>1. excused' = excused BY <1>4 DEF Skip, Write, WriteFails, Stamp, StampFails
  <2>2. pc[o] = "write" BY <1>4 DEF Skip, Write, WriteFails, Stamp, StampFails, TypeOK
  <2>3. QED BY <1>1, <2>1, <2>2
<1>5. ASSUME NEW rs, Over(rs) PROVE excused'[o]
  BY <1>1, <1>5 DEF Over
<1>6. ASSUME NEW r \in Runners, Report(r) \/ Abort(r) \/ Restart PROVE excused'[o]
  BY <1>5, <1>6 DEF Report, Abort, Restart
<1>7. ASSUME NEW i, NEW u, NEW s,
             Notice(i, u) \/ UserWrites(u, s) \/ UserRemoves(u) \/ UserStamps(s) \/ NextDay \/ UNCHANGED vars
      PROVE  excused'[o]
  BY <1>1, <1>7 DEF Notice, UserWrites, UserRemoves, UserStamps, NextDay, vars
<1> HIDE DEF run, notes, past
<1>8. QED
  BY <1>2, <1>3, <1>4, <1>6, <1>7 DEF Next

LEMMA InitOnce == Init => Fresh /\ Own /\ ExcusedWriters
BY DEF Init, Fresh, Own, Live, Unseen, Indexes, ExcusedWriters, Units

(* However the runs of the scheduler, the tool and the command line overlap, and whatever
   fails: an instance that exists is written over only when nothing of it was to be seen
   when the run looked; what a run of the same process wrote without an error was.      *)
THEOREM InstancesWrittenOnce == Spec => WritesOnce
<1>1. ExcusedWriters => \A r \in Runners : Write(r) /\ text[Current(r)] # "none" => excused[r]
  BY DEF ExcusedWriters, Write
<1>2. QED
  BY <1>1, InitTypes, NextTypes, InitOnce, NextFresh, NextOwn, NextExcused, PTL DEF Spec, WritesOnce
------------------------------------------------------------------------------
(* Nothing is skipped. *)

(* A period in the life of the template, in a year of its cadence. *)
Counts(u) == created # NoDay /\ created <= trigger[u] /\ OnCadence(anchor, u)

(* What says that a note is there has had one. *)
HadAll ==
  /\ \A u \in Units : status[u] # NotThere => u \in had
  /\ \A i \in Indexes : \A u \in Units : seen[i][u] # NotThere => u \in had
  /\ \A r \in Runners : done[r] \subseteq had

(* What a run owes, and what comes before what it does, is accounted for or left to do. *)
Owes(r) == owed[r] \subseteq Accounted \cup todo[r]
Covers(r) ==
  ~Relative(anchor) /\ catchup # "next" =>
    \A u \in Units : Counts(u) /\ (\E v \in todo[r] \cup done[r] : u <= v) => u \in Accounted \cup todo[r]
RunsAccount == \A r \in Runners : Owes(r) /\ Covers(r)

LEMMA TheWalks ==
  ASSUME TypeOK, ~Relative(anchor)
  PROVE  WalkFits(anchor)
<1>1. PICK t \in Templates : anchor = t.anchor
  <2>1. [anchor |-> anchor, catchup |-> catchup, created |-> created] \in Templates BY DEF TypeOK
  <2>2. QED BY <2>1
<1>2. QED BY <1>1, WalksFit

LEMMA LaterTriggerLater ==
  ASSUME TypeOK, Fixed, ~Relative(anchor), NEW u \in Units, NEW v \in Units, u < v
  PROVE  trigger[u] < trigger[v]
<1>1. Trigger(anchor, u) < Trigger(anchor, v) BY TheWalks, ThePeriods DEF WalkFits
<1>2. QED BY <1>1, ThePeriods DEF TriggerOf

(* A period that is walked by is collected, or beyond the limit. *)
LEMMA CollectedOrBeyond ==
  ASSUME TypeOK, Fixed, ~Relative(anchor), Baseline # NoDay, NEW n \in Days,
         NEW u \in Units, Baseline < trigger[u],
         \/ u \in Yielded(anchor, n)
         \/ Cardinality({v \in Yielded(anchor, n) : v > u}) >= SafetyLimit
  PROVE  u \in Collected(n) \cup BeyondLimit(n)
<1> DEFINE Later == {v \in Yielded(anchor, n) : v > u}
           Beyond == {v \in Upto(n) : v > u}
<1>1. \A v \in Yielded(anchor, n) : Trigger(anchor, v) <= n BY DEF Yielded
<1>2. \A v \in Units : Trigger(anchor, v) = trigger[v] /\ trigger[v] \in Nat /\ v \in Nat
  BY ThePeriods, TheDays DEF TriggerOf
<1>3. \A v \in Later : v \in Units /\ u < v /\ trigger[v] <= n
  <2> SUFFICES ASSUME NEW v \in Yielded(anchor, n), v > u PROVE v \in Units /\ u < v /\ trigger[v] <= n
    OBVIOUS
  <2>1. u < v OBVIOUS
  <2>2. First <= Trigger(anchor, v) BY <2>1, TheWalks, ThePeriods DEF WalkFits
  <2>3. v \in Units BY <2>2, ThePeriods
  <2>4. QED BY <1>1, <1>2, <2>1, <2>3
<1>4. Later \subseteq Beyond BY <1>3 DEF Upto
<1>5. IsFiniteSet(Beyond)
  <2>1. Beyond \subseteq Units BY DEF Upto
  <2>2. QED BY <2>1, ThePeriods, FS_Subset
<1>6. Cardinality(Later) <= Cardinality(Beyond) /\ Cardinality(Later) \in Nat /\ Cardinality(Beyond) \in Nat
  <2>1. IsFiniteSet(Later) /\ Cardinality(Later) <= Cardinality(Beyond)
    BY <1>4, <1>5, FS_Subset
  <2>2. QED BY <1>5, <2>1, FS_CardinalityType
<1>7. CASE Cardinality(Later) >= SafetyLimit
  <2>1. Cardinality(Beyond) >= SafetyLimit BY <1>6, <1>7, LimitsAssumption
  <2>2. Later # {} BY <1>7, LimitsAssumption, FS_EmptySet
  <2>3. PICK v \in Later : v \in Units /\ u < v /\ trigger[v] <= n BY <1>3, <2>2
  <2>4. trigger[u] < trigger[v] BY <2>3, LaterTriggerLater
  <2>5. n \in Nat /\ trigger[u] \in Nat /\ trigger[v] \in Nat BY <1>2, <2>3, TheDays
  <2>6. u \in Upto(n) BY <2>3, <2>4, <2>5 DEF Upto
  <2>7. QED BY <2>1, <2>6 DEF BeyondLimit
<1>8. CASE Cardinality(Later) < SafetyLimit
  <2>1. u \in Yielded(anchor, n) BY <1>6, <1>8, LimitsAssumption
  <2>2. Trigger(anchor, u) > Baseline BY <1>2
  <2>3. QED BY <1>8, <2>1, <2>2 DEF Collected
<1>9. QED BY <1>6, <1>7, <1>8, LimitsAssumption

LEMMA StartCovers ==
  ASSUME TypeOK, Fixed, NoSilentSkip, ~Relative(anchor), catchup # "next", NEW n \in Days,
         NEW index, NEW u \in Units, Counts(u), NEW v \in DuePeriods(n, index), u <= v
  PROVE  u \in DuePeriods(n, index) \cup BeyondLimit(n) \cup Accounted
<1>1. Baseline # NoDay /\ v \in Periods(anchor, n, Baseline, catchup) BY DEF DuePeriods
<1>2. v \in Collected(n) /\ v \in Units /\ v \in Yielded(anchor, n)
  <2>1. v \in Pending(anchor, n, Baseline, catchup) BY <1>1 DEF Periods
  <2>2. v \in Collected(n) BY <1>1, <2>1, CollectedAreUnits
  <2>3. QED BY <1>1, <2>2, CollectedAreUnits DEF Collected
<1>3. CASE u = v BY <1>3
<1>4. ASSUME u < v PROVE u \in DuePeriods(n, index) \cup BeyondLimit(n) \cup Accounted
  <2>1. \/ u \in Yielded(anchor, n)
        \/ Cardinality({w \in Yielded(anchor, n) : w > u}) >= SafetyLimit
    BY <1>2, <1>4, TheWalks, ThePeriods DEF WalkFits
  <2>2. trigger[u] \in Nat /\ Baseline \in Nat /\ created \in Nat
    BY <1>1, BaselineType, ThePeriods, TheDays
  <2>3. CASE Baseline < trigger[u]
    <3>1. u \in Collected(n) \cup BeyondLimit(n) BY <1>1, <2>1, <2>3, CollectedOrBeyond
    <3>2. u \in Collected(n) => u \in DuePeriods(n, index)
      BY <1>1, CollectedAreUnits DEF DuePeriods, Periods, Counts
    <3>3. QED BY <3>1, <3>2
  <2>4. CASE trigger[u] <= Baseline
    <3>1. lastRun # NoDay BY <1>1, <2>2, <2>4, BaselineType DEF Counts, NoDay
    <3>2. trigger[u] \in created..lastRun BY <2>2, <2>4, <3>1, BaselineType DEF Counts
    <3>3. u \in Accounted BY <3>2 DEF NoSilentSkip, Counts
    <3>4. QED BY <3>3
  <2>5. QED BY <2>2, <2>3, <2>4
<1>5. QED BY <1>2, <1>3, <1>4, ThePeriods

LEMMA OwedAreDue ==
  ASSUME TypeOK, Fixed, NEW n \in Days, NEW index
  PROVE  Owed(n) \subseteq DuePeriods(n, index) \cup BeyondLimit(n)
<1> SUFFICES ASSUME NEW u \in Owed(n), u \notin BeyondLimit(n) PROVE u \in DuePeriods(n, index)
  OBVIOUS
<1> DEFINE days == {d \in meant : Baseline < d /\ d <= n /\ ~NotYetWalkedTo(anchor, d, n)}
<1>1. ~Relative(anchor) /\ Baseline # NoDay BY DEF Owed
<1>2. /\ u \in Units /\ trigger[u] \in days /\ OnCadence(anchor, u)
      /\ catchup = "next" => \A later \in days : later <= trigger[u]
  BY <1>1 DEF Owed
<1>3. /\ meant = DaysDue(anchor, Last, First - 1)
      /\ \A v \in Units : Trigger(anchor, v) = trigger[v] /\ trigger[v] \in Nat /\ v \in Nat
  BY <1>1, ThePeriods, TheDays DEF Fixed, TriggerOf
<1>4. u \in Yielded(anchor, n) \/ Cardinality({v \in Yielded(anchor, n) : v > u}) >= SafetyLimit
  BY <1>1, <1>2, <1>3, TheWalks, ThePeriods DEF WalkFits
<1>5. u \in Collected(n)
  BY <1>1, <1>2, <1>4, CollectedOrBeyond
<1>6. u \in Pending(anchor, n, Baseline, catchup)
  <2>1. CASE catchup # "next" BY <1>1, <1>5, <2>1, CollectedAreUnits
  <2>2. CASE catchup = "next"
    <3> DEFINE m == Max(Collected(n))
    <3>1. m \in Collected(n) /\ m \in Units /\ u <= m BY <1>1, <1>5, CollectedAreUnits
    <3> HIDE DEF m
    <3>2. ASSUME u < m PROVE FALSE
      <4>1. m \in Yielded(anchor, n) /\ Trigger(anchor, m) > Baseline BY <3>1 DEF Collected
      <4>2. First <= Trigger(anchor, m) BY <1>3, <3>1, ThePeriods
      <4>3. Trigger(anchor, m) \in days
        BY <1>1, <1>3, <4>1, <4>2, TheWalks DEF WalkFits
      <4>4. trigger[m] <= trigger[u] BY <1>2, <1>3, <2>2, <3>1, <4>3
      <4>5. trigger[u] < trigger[m] BY <1>1, <1>2, <3>1, <3>2, LaterTriggerLater
      <4>6. QED BY <1>2, <1>3, <3>1, <4>4, <4>5
    <3>3. u = m BY <1>2, <1>3, <3>1, <3>2
    <3>4. QED BY <1>1, <1>5, <2>2, <3>3, CollectedAreUnits DEF m
  <2>3. QED BY <2>1, <2>2
<1>7. QED BY <1>1, <1>2, <1>6 DEF DuePeriods, Periods

(* What a step keeps for a run that does not start: what it no longer has to do is
   accounted for, or it is over.                                                  *)
Proceeds(r) ==
  \/ todo'[r] = {} /\ done'[r] = {} /\ owed'[r] = {}
  \/ /\ todo[r] \subseteq todo'[r] \cup Accounted' /\ owed'[r] = owed[r]
     /\ todo'[r] \cup done'[r] \subseteq todo[r] \cup done[r]

LEMMA ProceedingAccounts ==
  ASSUME RunsAccount, UNCHANGED <<template, Units>>, Accounted \subseteq Accounted',
         NEW r \in Runners, Proceeds(r)
  PROVE  (Owes(r) /\ Covers(r))'
<1>1. \A u : Counts(u)' = Counts(u) BY DEF Counts, template
<1>2. Relative(anchor)' = Relative(anchor) /\ catchup' = catchup BY DEF template
<1>3. Owes(r) /\ Covers(r) BY DEF RunsAccount
<1>4. CASE todo'[r] = {} /\ done'[r] = {} /\ owed'[r] = {}
  BY <1>4 DEF Owes, Covers
<1>5. CASE /\ todo[r] \subseteq todo'[r] \cup Accounted' /\ owed'[r] = owed[r]
           /\ todo'[r] \cup done'[r] \subseteq todo[r] \cup done[r]
  BY <1>1, <1>2, <1>3, <1>5 DEF Owes, Covers
<1>6. QED BY <1>4, <1>5 DEF Proceeds

LEMMA NextHad == TypeOK /\ Fixed /\ Running /\ HadAll /\ [Next]_vars => HadAll' /\ had \subseteq had'
<1> SUFFICES ASSUME TypeOK, Fixed, Running, HadAll, [Next]_vars PROVE HadAll' /\ had \subseteq had'
  OBVIOUS
<1> DEFINE Kept == HadAll' /\ had \subseteq had'
<1> USE DEF run, notes, past
<1>1. UNCHANGED Units BY TemplateStays
<1>2. ASSUME NEW r \in Runners, NEW n \in Days, NEW dark \in BOOLEAN, Start(r, n, dark) PROVE Kept
  <2>1. UNCHANGED <<status, done, had>> BY <1>2 DEF Start
  <2>2. \A u \in Units : IndexAtStart(r, dark)[u] # NotThere => u \in had
    BY DEF IndexAtStart, Unseen, HadAll, Indexes
  <2>3. \A i \in Indexes : seen'[i] = IF i = IndexOf(r) THEN IndexAtStart(r, dark) ELSE seen[i]
    BY <1>2 DEF Start, TypeOK
  <2>4. QED BY <1>1, <2>1, <2>2, <2>3 DEF HadAll
<1>3. ASSUME NEW r \in Runners, NEW placed \in BOOLEAN,
             Skip(r) \/ Miss(r) \/ Stamp(r) \/ StampFails(r, placed)
      PROVE  Kept
  <2>1. UNCHANGED <<status, seen, done, had>> BY <1>3 DEF Skip, Miss, Stamp, StampFails
  <2>2. QED BY <1>1, <2>1 DEF HadAll
<1>4. ASSUME NEW r \in Runners, Write(r) PROVE Kept
  <2>1. Current(r) \in Units BY <1>4, CurrentIsDue DEF Write, Running
  <2>2. had' = had \cup {Current(r)} BY <1>4 DEF Write
  <2>3. \A u \in Units \ {Current(r)} : status'[u] = status[u]
    BY <1>4 DEF Write, PlaceNote, TypeOK
  <2>4. \A i \in Indexes : \A u \in Units \ {Current(r)} : seen'[i][u] = seen[i][u]
    BY <1>4 DEF Write, TypeOK
  <2>5. \A o \in Runners : done'[o] \subseteq done[o] \cup {Current(r)}
    BY <1>4 DEF Write, TypeOK
  <2>6. QED BY <1>1, <2>2, <2>3, <2>4, <2>5 DEF HadAll
<1>5. ASSUME NEW r \in Runners, NEW placed \in BOOLEAN, WriteFails(r, placed) PROVE Kept
  <2>1. UNCHANGED <<seen, done>> BY <1>5 DEF WriteFails
  <2>2. CASE placed
    <3>1. had' = had \cup {Current(r)} BY <1>5, <2>2 DEF WriteFails
    <3>2. \A u \in Units \ {Current(r)} : status'[u] = status[u]
      BY <1>5, <2>2 DEF WriteFails, PlaceNote, TypeOK
    <3>3. QED BY <1>1, <2>1, <3>1, <3>2 DEF HadAll
  <2>3. CASE ~placed
    <3>1. had' = had /\ status' = status BY <1>5, <2>3 DEF WriteFails
    <3>2. QED BY <1>1, <2>1, <3>1 DEF HadAll
  <2>4. QED BY <2>2, <2>3
<1>6. ASSUME NEW rs, Over(rs) PROVE \A r \in Runners : done'[r] \subseteq done[r]
  BY <1>6 DEF Over
<1>7. ASSUME NEW r \in Runners, Report(r) \/ Abort(r) PROVE Kept
  <2>1. /\ UNCHANGED <<status, had>> /\ Over({r})
    BY <1>7 DEF Report, Abort
  <2>2. \A i \in Indexes : \A u \in Units : seen'[i][u] # NotThere => seen'[i][u] = seen[i][u]
    <3>1. seen' = seen \/ seen' = [seen EXCEPT !["cli"] = Unseen] BY <1>7 DEF Report, Abort
    <3>2. \A u \in Units : Unseen[u] = NotThere BY DEF Unseen
    <3>3. QED BY <3>1, <3>2 DEF TypeOK
  <2>3. QED BY <1>1, <1>6, <2>1, <2>2 DEF HadAll
<1>8. ASSUME Restart PROVE Kept
  <2>1. UNCHANGED <<status, had>> /\ Over({Scheduler} \cup Tools) BY <1>8 DEF Restart
  <2>2. \A i \in Indexes : seen'[i] = IF i = "server" THEN status ELSE seen[i]
    BY <1>8 DEF Restart, TypeOK
  <2>3. QED BY <1>1, <1>6, <2>1, <2>2 DEF HadAll
<1>9. ASSUME NEW i \in Indexes, NEW u \in Units, Notice(i, u) PROVE Kept
  <2>1. UNCHANGED <<status, had, done>> BY <1>9 DEF Notice
  <2>2. \A j \in Indexes : \A v \in Units :
          seen'[j][v] = IF j = i /\ v = u THEN status[u] ELSE seen[j][v]
    BY <1>9 DEF Notice, TypeOK
  <2>3. QED BY <1>1, <2>1, <2>2 DEF HadAll
<1>10. ASSUME NEW u \in Units, NEW s \in {NotThere, Open, day}, UserWrites(u, s) \/ UserRemoves(u) PROVE Kept
  <2>1. UNCHANGED <<seen, done>> /\ had \subseteq had' BY <1>10 DEF UserWrites, UserRemoves
  <2>2. \A v \in Units : status'[v] # NotThere => v \in had' \/ status'[v] = status[v]
    BY <1>10 DEF UserWrites, UserRemoves, TypeOK
  <2>3. QED BY <1>1, <2>1, <2>2 DEF HadAll
<1>11. ASSUME NEW n, UserStamps(n) \/ NextDay \/ UNCHANGED vars PROVE Kept
  <2>1. UNCHANGED <<status, seen, done, had>> BY <1>11 DEF UserStamps, NextDay, vars
  <2>2. QED BY <1>1, <2>1 DEF HadAll
<1> HIDE DEF run, notes, past, Kept
<1>12. Kept
  <2> HIDE DEF TypeOK, Running, HadAll
  <2>1. QED BY <1>2, <1>3, <1>4, <1>5, <1>7, <1>8, <1>9, <1>10, <1>11 DEF Next
<1>13. QED BY <1>12 DEF Kept

(* Only a start gives a run something to do. *)
LEMMA RunsProceed ==
  ASSUME TypeOK, Fixed, Running, HadAll, [Next]_vars
  PROVE  /\ Accounted \subseteq Accounted'
         /\ \/ \E r \in Runners, n \in Days, dark \in BOOLEAN : Start(r, n, dark)
            \/ \A o \in Runners : Proceeds(o)
<1> DEFINE Good == Accounted \subseteq Accounted' /\ \A o \in Runners : Proceeds(o)
<1> USE DEF run, notes, past
<1>1. ASSUME NEW r \in Runners, NEW n \in Days, NEW dark \in BOOLEAN, Start(r, n, dark)
      PROVE  Accounted \subseteq Accounted'
  BY <1>1 DEF Start, Accounted
<1>2. ASSUME NEW r \in Runners, Skip(r) PROVE Good
  <2>1. Current(r) \in todo[r] /\ Current(r) \in Units BY <1>2, CurrentIsDue DEF Skip
  <2>2. Current(r) \in had
    BY <1>2, <2>1 DEF Skip, HadAll, IndexOf, Indexes
  <2>3. UNCHANGED <<owed, done, had, failed, waived>> BY <1>2 DEF Skip
  <2>4. \A o \in Runners : todo'[o] = IF o = r THEN todo[r] \ {Current(r)} ELSE todo[o]
    BY <1>2 DEF Skip, TypeOK
  <2>5. QED BY <2>2, <2>3, <2>4 DEF Accounted, Proceeds
<1>3. ASSUME NEW r \in Runners, NEW placed \in BOOLEAN, Miss(r) \/ Stamp(r) \/ StampFails(r, placed)
      PROVE  Good
  <2>1. UNCHANGED <<todo, done, owed, had, failed, waived>> BY <1>3 DEF Miss, Stamp, StampFails
  <2>2. QED BY <2>1 DEF Accounted, Proceeds
<1>4. ASSUME NEW r \in Runners, Write(r) PROVE Good
  <2>1. Current(r) \in todo[r] BY <1>4, CurrentIsDue DEF Write, Running
  <2>2. UNCHANGED <<owed, failed, waived>> /\ had' = had \cup {Current(r)} BY <1>4 DEF Write
  <2>3. \A o \in Runners : /\ todo'[o] = IF o = r THEN todo[r] \ {Current(r)} ELSE todo[o]
                           /\ done'[o] = IF o = r THEN done[r] \cup {Current(r)} ELSE done[o]
    BY <1>4 DEF Write, TypeOK
  <2>4. QED BY <2>1, <2>2, <2>3 DEF Accounted, Proceeds
<1>5. ASSUME NEW r \in Runners, NEW placed \in BOOLEAN, WriteFails(r, placed) PROVE Good
  <2>1. UNCHANGED <<owed, done, waived>> /\ had \subseteq had' /\ failed' = failed \cup {Current(r)}
    BY <1>5 DEF WriteFails
  <2>2. \A o \in Runners : todo'[o] = IF o = r THEN todo[r] \ {Current(r)} ELSE todo[o]
    BY <1>5 DEF WriteFails, TypeOK
  <2>3. QED BY <2>1, <2>2 DEF Accounted, Proceeds
<1>6. ASSUME NEW rs, Over(rs) PROVE \A o \in Runners : Proceeds(o)
  BY <1>6 DEF Over, Proceeds
<1>7. ASSUME NEW r \in Runners, Report(r) \/ Abort(r) \/ Restart PROVE Good
  <2>1. UNCHANGED <<had, failed, waived>> BY <1>7 DEF Report, Abort, Restart
  <2>2. \E rs : Over(rs) BY <1>7 DEF Report, Abort, Restart
  <2>3. QED BY <1>6, <2>1, <2>2 DEF Accounted
<1>8. ASSUME NEW i, NEW u, NEW s,
             Notice(i, u) \/ UserWrites(u, s) \/ UserRemoves(u) \/ UserStamps(s) \/ NextDay \/ UNCHANGED vars
      PROVE  Good
  <2>1. /\ UNCHANGED <<todo, done, owed, failed>> /\ had \subseteq had' /\ waived \subseteq waived'
    BY <1>8 DEF Notice, UserWrites, UserRemoves, UserStamps, NextDay, vars
  <2>2. QED BY <2>1 DEF Accounted, Proceeds
<1> HIDE DEF run, notes, past
<1>9. Good \/ (Accounted \subseteq Accounted' /\ \E r \in Runners, n \in Days, dark \in BOOLEAN : Start(r, n, dark))
  <2>1. CASE \E r \in Runners, n \in Days, dark \in BOOLEAN : Start(r, n, dark)
    BY <1>1, <2>1
  <2>2. CASE ~\E r \in Runners, n \in Days, dark \in BOOLEAN : Start(r, n, dark)
    <3> HIDE DEF Good
    <3>1. Scheduler \in Runners BY DEF Runners
    <3>2. QED BY <1>2, <1>3, <1>4, <1>5, <1>7, <1>8, <2>2, <3>1 DEF Next
  <2>3. QED BY <2>1, <2>2
<1>10. QED BY <1>9

LEMMA NextAccounts ==
  TypeOK /\ Fixed /\ Running /\ HadAll /\ NoSilentSkip /\ RunsAccount /\ [Next]_vars
    => RunsAccount'
<1> SUFFICES ASSUME TypeOK, Fixed, Running, HadAll, NoSilentSkip, RunsAccount, [Next]_vars,
                    NEW o \in Runners
             PROVE  (Owes(o) /\ Covers(o))'
  BY DEF RunsAccount
<1>1. UNCHANGED <<template, Units>> /\ Accounted \subseteq Accounted' BY TemplateStays, RunsProceed
<1>2. CASE \A r \in Runners : Proceeds(r)
  BY <1>1, <1>2, ProceedingAccounts
<1>3. ASSUME NEW r \in Runners, NEW n \in Days, NEW dark \in BOOLEAN, Start(r, n, dark)
      PROVE  (Owes(o) /\ Covers(o))'
  <2>1. /\ todo' = [todo EXCEPT ![r] = DuePeriods(n, IndexAtStart(r, dark))]
        /\ owed' = [owed EXCEPT ![r] = Owed(n)] /\ done' = done /\ pc[r] = "idle"
        /\ waived' = IF Relative(anchor) THEN waived ELSE waived \cup BeyondLimit(n)
    BY <1>3 DEF Start
  <2>2. CASE o # r
    <3>1. Proceeds(o) BY <2>1, <2>2 DEF Proceeds, TypeOK
    <3>2. QED BY <1>1, <3>1, ProceedingAccounts
  <2>3. CASE o = r
    <3> DEFINE index == IndexAtStart(r, dark)
    <3>1. todo'[r] = DuePeriods(n, index) /\ owed'[r] = Owed(n) /\ done'[r] = {}
      BY <2>1 DEF TypeOK, Running
    <3>2. ~Relative(anchor) => BeyondLimit(n) \subseteq Accounted' BY <2>1 DEF Accounted
    <3>3. Owes(r)'
      <4>1. CASE Relative(anchor) BY <3>1, <4>1 DEF Owed, Owes
      <4>2. CASE ~Relative(anchor)
        <5>1. Owed(n) \subseteq DuePeriods(n, index) \cup BeyondLimit(n) BY OwedAreDue
        <5>2. QED BY <3>1, <3>2, <4>2, <5>1 DEF Owes
      <4>3. QED BY <4>1, <4>2
    <3>4. Covers(r)'
      <4>1. SUFFICES ASSUME ~Relative(anchor), catchup # "next", NEW u \in Units, Counts(u),
                            NEW v \in DuePeriods(n, index), u <= v
                     PROVE  u \in Accounted' \cup DuePeriods(n, index)
        <5>1. \A u : Counts(u)' = Counts(u) BY <1>1 DEF Counts, template
        <5>2. Relative(anchor)' = Relative(anchor) /\ catchup' = catchup BY <1>1 DEF template
        <5>3. QED BY <1>1, <3>1, <5>1, <5>2 DEF Covers
      <4>2. u \in DuePeriods(n, index) \cup BeyondLimit(n) \cup Accounted
        BY <4>1, StartCovers
      <4>3. QED BY <1>1, <3>2, <4>1, <4>2
    <3>5. QED BY <2>3, <3>3, <3>4
  <2>4. QED BY <2>2, <2>3
<1>4. QED BY <1>2, <1>3, RunsProceed

LEMMA NextSkipsNothing ==
  TypeOK /\ Fixed /\ Running /\ HadAll /\ NoSilentSkip /\ RunsAccount /\ [Next]_vars
    => NoSilentSkip'
<1> SUFFICES ASSUME TypeOK, Fixed, Running, HadAll, NoSilentSkip, RunsAccount, [Next]_vars
             PROVE  NoSilentSkip'
  OBVIOUS
<1> SUFFICES ASSUME ~Relative(anchor), NEW u \in Units, Counts(u), trigger[u] \in created..lastRun'
             PROVE  u \in Accounted' \/ (catchup = "next" /\ \E v \in Accounted' : v > u)
  <2>1. UNCHANGED <<template, Units>> BY TemplateStays
  <2>2. QED BY <2>1 DEF NoSilentSkip, Counts, template
<1> DEFINE Shown == u \in Accounted' \/ (catchup = "next" /\ \E v \in Accounted' : v > u)
<1> USE DEF run, notes, past
<1>1. Accounted \subseteq Accounted' BY RunsProceed
<1>2. ASSUME lastRun' = lastRun PROVE Shown
  BY <1>1, <1>2 DEF NoSilentSkip, Counts
<1>3. ASSUME NEW r \in Runners, NEW placed \in BOOLEAN, Stamp(r) \/ StampFails(r, placed) PROVE Shown
  <2> DEFINE m == Max(done[r])
  <2>1. m \in done[r] /\ m \in Units /\ m \in Accounted
    <3>1. m \in done[r] /\ m \in Units BY <1>3, LastDone DEF Stamp, StampFails
    <3>2. QED BY <3>1 DEF HadAll, Accounted
  <2> HIDE DEF m
  <2>2. CASE lastRun' = trigger[m]
    <3>1. trigger[u] <= trigger[m] /\ trigger[u] \in Nat /\ trigger[m] \in Nat /\ u \in Nat /\ m \in Nat
      BY <2>1, <2>2, ThePeriods, TheDays
    <3>2. ~(m < u) BY <2>1, <3>1, LaterTriggerLater
    <3>3. u <= m BY <3>1, <3>2
    <3>4. CASE catchup = "next" BY <1>1, <2>1, <3>1, <3>3, <3>4
    <3>5. CASE catchup # "next"
      <4>1. todo[r] = {} BY <1>3 DEF Stamp, StampFails
      <4>2. Covers(r) BY DEF RunsAccount
      <4>3. u \in Accounted BY <2>1, <3>3, <3>5, <4>1, <4>2 DEF Covers
      <4>4. QED BY <1>1, <4>3
    <3>6. QED BY <3>4, <3>5
  <2>3. lastRun' = trigger[m] \/ lastRun' = lastRun BY <1>3 DEF Stamp, StampFails, m
  <2>4. QED BY <1>2, <2>2, <2>3
<1>4. ASSUME NEW n \in Days \cup {NoDay}, UserStamps(n) PROVE Shown
  <2>1. lastRun' = n /\ waived' = waived \cup Upto(n) BY <1>4 DEF UserStamps
  <2>2. trigger[u] <= n BY <2>1, ThePeriods, TheDays DEF NoDay
  <2>3. QED BY <2>1, <2>2 DEF Upto, Accounted
<1>5. ASSUME NEW r, NEW n, NEW dark, NEW placed, NEW i, NEW v, NEW s,
             \/ Start(r, n, dark) \/ Skip(r) \/ Miss(r) \/ Write(r) \/ WriteFails(r, placed)
             \/ Report(r) \/ Abort(r) \/ Restart \/ Notice(i, v) \/ UserWrites(v, s) \/ UserRemoves(v)
             \/ NextDay \/ UNCHANGED vars
      PROVE  Shown
  <2>1. lastRun' = lastRun
    BY <1>5 DEF Start, Skip, Miss, Write, WriteFails, Report, Abort, Restart, Notice, UserWrites,
                UserRemoves, NextDay, vars
  <2>2. QED BY <1>2, <2>1
<1> HIDE DEF run, notes, past, Shown
<1>6. Shown BY <1>3, <1>4, <1>5 DEF Next
<1>7. QED BY <1>6 DEF Shown

LEMMA InitAccounts == Init => HadAll /\ RunsAccount /\ NoSilentSkip
<1> SUFFICES ASSUME Init PROVE HadAll /\ RunsAccount /\ NoSilentSkip
  OBVIOUS
<1>1. HadAll BY DEF Init, HadAll, Unseen
<1>2. RunsAccount BY DEF Init, RunsAccount, Owes, Covers
<1>3. NoSilentSkip
  <2>1. lastRun = NoDay /\ TypeOK /\ Fixed BY InitTypes DEF Init
  <2>2. \A u \in Units : created # NoDay => ~(trigger[u] \in created..lastRun)
    BY <2>1, ThePeriods, TheDays DEF NoDay
  <2>3. QED BY <2>2 DEF NoSilentSkip
<1>4. QED BY <1>1, <1>2, <1>3

(* Where the walks do what the calendar asks, last_run stands for all that came before it:
   no overlap of runs, stale last_run, failure or kill lets it pass over a period that had
   no note, was not reported as failed and was not left out on purpose.                  *)
THEOREM NothingSkipped == Spec => []NoSilentSkip
<1>1. QED
  BY InitTypes, NextTypes, InitAccounts, NextHad, NextAccounts, NextSkipsNothing, PTL DEF Spec

(* Likewise a run that reports no error has accounted for each day since the baseline it
   found on which its anchor falls, or in the mode "next" for the last of them.          *)
THEOREM CleanRunsComplete == Spec => CleanRunIsComplete
<1>1. Running /\ RunsAccount =>
        \A r \in Runners : Report(r) /\ errors[r] = {} => owed[r] \subseteq Accounted
  BY DEF Running, RunsAccount, Owes, Report
<1>2. QED
  BY <1>1, InitTypes, NextTypes, InitAccounts, NextHad, NextAccounts, NextSkipsNothing, PTL
  DEF Spec, CleanRunIsComplete
==============================================================================
