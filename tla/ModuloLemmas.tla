----------------------------- MODULE ModuloLemmas -----------------------------
(***************************************************************************)
(* The facts about % and \div that the proofs about wrapping counters and  *)
(* ring slots rest on, for every modulus, and about int16_t.               *)
(***************************************************************************)
EXTENDS Widths, TLAPS

(* Division with remainder. *)
LEMMA DivMod ==
    ASSUME NEW a \in Int, NEW m \in Nat, m > 0
    PROVE  /\ a \div m \in Int /\ a % m \in Int
           /\ a = m * (a \div m) + (a % m)
           /\ 0 <= a % m /\ a % m < m
  OBVIOUS

(* Quotient and remainder are unique. *)
LEMMA DivModUnique ==
    ASSUME NEW m \in Nat, m > 0, NEW q1 \in Int, NEW q2 \in Int,
           NEW r1 \in Int, NEW r2 \in Int,
           0 <= r1, r1 < m, 0 <= r2, r2 < m, m * q1 + r1 = m * q2 + r2
    PROVE  q1 = q2 /\ r1 = r2
<1>1. CASE q1 = q2
  BY <1>1
<1>2. CASE q1 > q2
  <2>1. PICK d \in Nat : q1 = q2 + d + 1
    <3>1. q1 - q2 - 1 \in Nat
      BY <1>2
    <3>. QED
      BY <3>1
  <2>2. m * q1 = m * q2 + m * d + m
    BY <2>1
  <2>3. m * d >= 0
    OBVIOUS
  <2>. QED
    BY <2>2, <2>3
<1>3. CASE q1 < q2
  <2>1. PICK d \in Nat : q2 = q1 + d + 1
    <3>1. q2 - q1 - 1 \in Nat
      BY <1>3
    <3>. QED
      BY <3>1
  <2>2. m * q2 = m * q1 + m * d + m
    BY <2>1
  <2>3. m * d >= 0
    OBVIOUS
  <2>. QED
    BY <2>2, <2>3
<1>. QED
  BY <1>1, <1>2, <1>3

(* How to show what a remainder is. *)
LEMMA ModIs ==
    ASSUME NEW a \in Int, NEW m \in Nat, m > 0, NEW q \in Int, NEW r \in Int,
           0 <= r, r < m, a = m * q + r
    PROVE  a % m = r
<1>. DEFINE q1 == a \div m
            r1 == a % m
<1>1. q1 \in Int /\ r1 \in Int /\ m * q1 + r1 = m * q + r /\ 0 <= r1 /\ r1 < m
  BY DivMod
<1>. HIDE DEF q1, r1
<1>2. r1 = r
  BY <1>1, DivModUnique
<1>. QED
  BY <1>2 DEF r1

(* A multiple of the modulus does not change the remainder. *)
LEMMA ModShift ==
    ASSUME NEW a \in Int, NEW m \in Nat, m > 0, NEW k \in Int
    PROVE  (a + m * k) % m = a % m
<1>1. PICK q \in Int, r \in Int : a = m * q + r /\ 0 <= r /\ r < m /\ a % m = r
  BY DivMod
<1>2. a + m * k = m * (q + k) + r
  BY <1>1
<1>3. q + k \in Int /\ a + m * k \in Int
  OBVIOUS
<1>4. (a + m * k) % m = r
  BY <1>1, <1>2, <1>3, ModIs
<1>. QED
  BY <1>1, <1>4

(* A remainder may be taken before an addition or after it. *)
LEMMA ModAdd ==
    ASSUME NEW a \in Int, NEW b \in Int, NEW m \in Nat, m > 0
    PROVE  ((a % m) + b) % m = (a + b) % m
<1>1. PICK q \in Int : a = m * q + (a % m) /\ a % m \in Int
  BY DivMod
<1>2. a + b = ((a % m) + b) + m * q
  BY <1>1
<1>3. (a % m) + b \in Int
  BY <1>1
<1>. QED
  BY <1>2, <1>3, ModShift

(* A remainder of a larger modulus first, when the smaller divides it. *)
LEMMA ModMod ==
    ASSUME NEW a \in Int, NEW m \in Nat, m > 0, NEW n \in Nat, n > 0, n % m = 0
    PROVE  (a % n) % m = a % m
<1>1. PICK k \in Int : n = m * k
  BY DivMod
<1>2. PICK q \in Int : a = n * q + (a % n) /\ a % n \in Int
  BY DivMod
<1>3. n * q = m * (k * q) /\ k * q \in Int
  BY <1>1
<1>. DEFINE r == a % n
            j == k * q
<1>4. a = r + m * j /\ r \in Int /\ j \in Int
  BY <1>2, <1>3
<1>. HIDE DEF r, j
<1>5. (r + m * j) % m = r % m
  BY <1>4, ModShift
<1>6. a % m = r % m
  BY <1>4, <1>5
<1>. QED
  BY <1>6 DEF r

(* Two remainders are as far apart as the numbers. *)
LEMMA ModDifference ==
    ASSUME NEW a \in Int, NEW b \in Int, NEW m \in Nat, m > 0
    PROVE  ((a % m) - (b % m)) % m = (a - b) % m
<1>1. b % m \in Int /\ b \div m \in Int /\ b = m * (b \div m) + (b % m)
  BY DivMod
<1>. DEFINE q == b \div m
            r == b % m
<1>2. ((a % m) + (-r)) % m = (a + (-r)) % m
  BY <1>1, ModAdd, -r \in Int
<1>3. ((a - b) + m * q) % m = (a - b) % m
  BY <1>1, ModShift, a - b \in Int
<1>. HIDE DEF q, r
<1>4. (a - b) + m * q = a + (-r)
  BY <1>1 DEF q, r
<1>5. (a % m) - r = (a % m) + (-r)
  BY <1>1, DivMod DEF r
<1>. QED
  BY <1>2, <1>3, <1>4, <1>5 DEF r

(* The signed distance of two 16 bit numbers is the distance of the        *)
(* numbers in full, if these are within reach of each other.               *)
LEMMA Int16IsDistance ==
    ASSUME NEW n \in Int, NEW t \in Int,
           -(U16Mod \div 2) <= n - t, n - t < U16Mod \div 2
    PROVE  Int16((n % U16Mod) - (t % U16Mod)) = n - t
<1>1. U16Mod \in Nat /\ U16Mod > 0 /\ U16Mod \div 2 \in Int
      /\ U16Mod = 2 * (U16Mod \div 2)
  BY WidthsAssumption, DivMod
<1>2. PICK q \in Int : n = U16Mod * q + (n % U16Mod) /\ n % U16Mod \in Int
  BY <1>1, DivMod
<1>3. PICK p \in Int : t = U16Mod * p + (t % U16Mod) /\ t % U16Mod \in Int
  BY <1>1, DivMod
<1>. DEFINE d == (n % U16Mod) - (t % U16Mod)
            k == q - p
<1>4. d \in Int /\ n - t = d + U16Mod * k /\ k \in Int
  BY <1>1, <1>2, <1>3
<1>. HIDE DEF d, k
<1>5. d % U16Mod = (n - t) % U16Mod
  <2>1. (d + U16Mod * k) % U16Mod = d % U16Mod
    BY <1>1, <1>4, ModShift
  <2>. QED
    BY <2>1, <1>4
<1>6. CASE n - t >= 0
  <2>1. (n - t) % U16Mod = n - t
    BY <1>1, <1>6, ModIs, n - t = U16Mod * 0 + (n - t), n - t < U16Mod
  <2>. QED
    BY <2>1, <1>5 DEF Int16, d
<1>7. CASE n - t < 0
  <2>1. n - t = U16Mod * (-1) + (n - t + U16Mod)
        /\ 0 <= n - t + U16Mod /\ n - t + U16Mod < U16Mod
        /\ n - t + U16Mod >= U16Mod \div 2
    BY <1>1, <1>7
  <2>2. (n - t) % U16Mod = n - t + U16Mod
    BY <1>1, <2>1, ModIs
  <2>. QED
    BY <1>1, <2>1, <2>2, <1>5 DEF Int16, d
<1>. QED
  BY <1>6, <1>7
=============================================================================
