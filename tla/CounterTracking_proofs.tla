------------------------ MODULE CounterTracking_proofs ------------------------
(***************************************************************************)
(* superFrameRecalculator orders superframes as they were sent, for every  *)
(* width of the two counters.                                              *)
(***************************************************************************)
EXTENDS CounterTracking, ModuloLemmas

(* The invariant with the types its induction needs. *)
IInv ==
    /\ truth \in Nat /\ base \in Int
    /\ mSuperFrameFirstTime \in BOOLEAN
    /\ OrderIsNumber

(* The first number seen is its own order: what it lacks of the number in  *)
(* full is the base.                                                       *)
LEMMA FirstNumber ==
    ASSUME IInv, NEW n \in Nat, See(n), mSuperFrameFirstTime
    PROVE  IInv'
<1>1. U16Mod \in Nat /\ U16Mod > 0 /\ U64Mod \in Nat /\ U64Mod > 0
  BY WidthsAssumption
<1>2. PICK q \in Int : n = U16Mod * q + (n % U16Mod) /\ n % U16Mod \in Int
                       /\ 0 <= n % U16Mod /\ n % U16Mod < U16Mod
  BY <1>1, DivMod, n \in Int
<1>3. base' = n - (n % U16Mod) /\ truth' = n /\ mSuperFrameFirstTime' = FALSE
      /\ mSuperFrameRecalc' = n % U16Mod /\ mOldSuperFrameNumber' = n % U16Mod
  BY DEF See, SuperFrameRecalculator, DeliveryOrderCandidate
<1>. DEFINE r == n % U16Mod
<1>4. base' = U16Mod * q + 0 /\ base' \in Int
  BY <1>1, <1>2, <1>3
<1>5. base' % U16Mod = 0
  BY <1>1, <1>4, ModIs
<1>6. PICK k \in Int : U64Mod = U16Mod * k
  BY <1>1, NestedWidths, DivMod
<1>7. U16Mod <= U64Mod
  <2>1. CASE k <= 0
    <3>1. U16Mod * (-k) >= 0 /\ U16Mod * k = -(U16Mod * (-k))
      BY <1>1, <2>1
    <3>. QED
      BY <1>1, <1>6, <3>1
  <2>2. CASE k >= 1
    <3>1. U16Mod * (k - 1) >= 0 /\ U16Mod * k = U16Mod * (k - 1) + U16Mod
      BY <1>1, <2>2
    <3>. QED
      BY <1>1, <1>6, <3>1
  <2>. QED
    BY <2>1, <2>2
<1>8. (truth' - base') = U64Mod * 0 + r /\ r \in Int /\ 0 <= r /\ r < U64Mod
  BY <1>1, <1>2, <1>3, <1>7
<1>9. (truth' - base') % U64Mod = r
  BY <1>1, <1>2, <1>3, <1>4, <1>8, ModIs
<1>. QED
  BY <1>2, <1>3, <1>4, <1>5, <1>9 DEF IInv, OrderIsNumber

(* Each further number adds its distance to the order. *)
LEMMA LaterNumber ==
    ASSUME IInv, NEW n \in Nat, See(n), ~mSuperFrameFirstTime
    PROVE  IInv'
<1>1. U16Mod \in Nat /\ U16Mod > 0 /\ U64Mod \in Nat /\ U64Mod > 0
  BY WidthsAssumption
<1>2. truth \in Int /\ n \in Int /\ base \in Int /\ WithinReach(n)
      /\ mSuperFrameRecalc = (truth - base) % U64Mod
      /\ mOldSuperFrameNumber = truth % U16Mod /\ base % U16Mod = 0
  BY DEF IInv, OrderIsNumber, See
<1>3. ChangeValue(n % U16Mod) = n - truth
  BY <1>2, Int16IsDistance DEF ChangeValue, WithinReach
<1>4. mSuperFrameRecalc' = (((truth - base) % U64Mod) + (n - truth)) % U64Mod
      /\ mOldSuperFrameNumber' = n % U16Mod /\ truth' = n /\ base' = base
  BY <1>2, <1>3 DEF See, SuperFrameRecalculator, DeliveryOrderCandidate
<1>5. (((truth - base) % U64Mod) + (n - truth)) % U64Mod
        = ((truth - base) + (n - truth)) % U64Mod
  BY <1>1, <1>2, ModAdd, truth - base \in Int, n - truth \in Int
<1>6. (truth - base) + (n - truth) = n - base
  BY <1>2
<1>. QED
  BY <1>2, <1>4, <1>5, <1>6 DEF IInv, OrderIsNumber, See, SuperFrameRecalculator

(* The delivery order of every superframe, whatever numbers come in        *)
(* whatever order, is its number in the stream less a constant.            *)
THEOREM OrderIsNumberAlways == Spec => []OrderIsNumber
<1>1. Init => IInv
  BY DEF Init, CounterInit, IInv, OrderIsNumber
<1>2. IInv /\ [Next]_vars => IInv'
  <2>. SUFFICES ASSUME IInv, [Next]_vars
                PROVE  IInv'
    OBVIOUS
  <2>1. ASSUME NEW n \in Nat, See(n)
        PROVE  IInv'
    BY <2>1, FirstNumber, LaterNumber DEF IInv
  <2>2. CASE UNCHANGED vars
    BY <2>2 DEF IInv, OrderIsNumber, vars, counterVars
  <2>. QED
    BY <2>1, <2>2 DEF Next
<1>3. IInv => OrderIsNumber
  BY DEF IInv
<1>. QED
  BY <1>1, <1>2, <1>3, PTL DEF Spec
=============================================================================
