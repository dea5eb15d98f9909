------------------------ MODULE RunToCompletion_proofs ------------------------
(***************************************************************************)
(* The run-to-completion receiver, fed by any number of senders over a     *)
(* link that loses, repeats and reorders, and by the fragments of Noise,   *)
(* for every width, ring, MTU, time-out and set of calls: types, the       *)
(* agreement of map and ring and the count of fragments; then, of senders  *)
(* that are told apart, what is delivered, when it is given up, in which   *)
(* order, and what a call leaves behind.                                   *)
(***************************************************************************)
EXTENDS RunToCompletion, HandedFrames_proofs

(* Inside a call only: the iterator and the delete list. *)
CallInv ==
    /\ pc \in {"idle", "unpacked", "pass"}
    /\ pc # "pass" => todo = {} /\ lDeleteList = {}
    /\ lMessage \in Messages \cup {"none"}

IInv ==
    /\ SenderIInv
    /\ now \in Nat
    /\ AssemblyInv
    /\ PassInv
    /\ CallInv

LEMMA IInvInit == Init => IInv
<1>. SUFFICES ASSUME Init
              PROVE  IInv
  OBVIOUS
<1>1. SenderIInv /\ now \in Nat
  BY SenderIInvInit DEF Init, LinkInit, ClockInit
<1>2. AssemblyInv /\ PassInv
  BY AssemblyInvInit, PassInvInit DEF Init
<1>3. CallInv
  BY DEF Init, PassInit, CallInv
<1>. QED
  BY <1>1, <1>2, <1>3 DEF IInv

LEMMA ReceiveFragmentKeeps ==
    ASSUME StreamsHaveEntries, IInv, NEW f \in InFlight \cup Noise,
           ReceiveFragment(f, f.id[1])
    PROVE  IInv'
<1>1. IsFragment(f) /\ f.id[1] \in Nat
  <2>1. CASE f \in InFlight
    BY <2>1, InFlightAreFragments, RunToCompletionAssumption DEF IInv
  <2>2. CASE f \in Noise
    BY <2>2, RunToCompletionAssumption DEF IsFragment
  <2>. QED
    BY <2>1, <2>2
<1>2. PICK m \in Messages : Unpack(f, f.id[1], m) /\ lMessage' = m
  BY DEF ReceiveFragment
<1>3. AssemblyInv'
  BY <1>1, <1>2, UnpackKeepsAssemblyInv DEF IInv
<1>4. PassInv' /\ CallInv'
  BY <1>2 DEF ReceiveFragment, IInv, CallInv, PassInv, passVars, headVars
<1>5. SenderIInv' /\ now' \in Nat
  BY StutterKeeps DEF ReceiveFragment, linkVars, IInv
<1>. QED
  BY <1>3, <1>4, <1>5 DEF IInv

LEMMA StartPassKeeps == ASSUME IInv, StartPass PROVE IInv'
<1>1. AssemblyInv' /\ SenderIInv' /\ now' \in Nat
  BY StutterKeeps DEF StartPass, linkVars, IInv
<1>2. PassInv'
  BY BeginPassKeeps DEF StartPass, assemblyVars, IInv
<1>3. CallInv'
  BY DEF StartPass, IInv, CallInv
<1>. QED
  BY <1>1, <1>2, <1>3 DEF IInv

LEMMA VisitKeeps ==
    ASSUME IInv, NEW k, DeliverToApplication(k) \/ VisitNotDue
    PROVE  IInv'
<1>1. AssemblyInv' /\ SenderIInv' /\ now' \in Nat /\ UNCHANGED mBucketMap
  BY StutterKeeps DEF DeliverToApplication, VisitNotDue, linkVars, assemblyVars, IInv
<1>2. PassInv'
  BY <1>1, DeliverBucketKeeps, PassOverKeeps DEF DeliverToApplication, VisitNotDue, IInv
<1>3. CallInv'
  BY DEF DeliverToApplication, VisitNotDue, IInv, CallInv
<1>. QED
  BY <1>1, <1>2, <1>3 DEF IInv

LEMMA ReturnKeeps == ASSUME IInv, Return PROVE IInv'
<1>1. AssemblyInv' /\ PassInv'
  BY CloseDeliveredKeeps, 0 \in Nat DEF Return, IInv
<1>2. SenderIInv' /\ now' \in Nat
  BY StutterKeeps DEF Return, linkVars, IInv
<1>3. CallInv'
  BY DEF Return, CloseDelivered, CallInv
<1>. QED
  BY <1>1, <1>2, <1>3 DEF IInv

LEMMA EnvironmentKeeps == ASSUME IInv, Environment PROVE IInv'
<1>1. SenderIInv' /\ now' \in Nat
  BY LinkKeeps DEF Environment, IInv
<1>2. AssemblyInv' /\ PassInv'
  BY StutterKeeps DEF Environment, assemblyVars, IInv
<1>3. CallInv'
  BY DEF Environment, passVars, IInv, CallInv
<1>. QED
  BY <1>1, <1>2, <1>3 DEF IInv

LEMMA IInvNext == ASSUME StreamsHaveEntries PROVE IInv /\ [Next]_vars => IInv'
<1>. SUFFICES ASSUME IInv, [Next]_vars
              PROVE  IInv'
  OBVIOUS
<1>1. CASE UNCHANGED vars
  <2>1. AssemblyInv' /\ PassInv' /\ SenderIInv' /\ now' \in Nat
    BY <1>1, StutterKeeps DEF vars, linkVars, assemblyVars, IInv
  <2>2. CallInv'
    BY <1>1 DEF vars, passVars, IInv, CallInv
  <2>. QED
    BY <2>1, <2>2 DEF IInv
<1>2. CASE Next
  BY <1>2, ReceiveFragmentKeeps, StartPassKeeps, VisitKeeps, ReturnKeeps,
     EnvironmentKeeps DEF Next
<1>. QED
  BY <1>1, <1>2

(* Every variable stays within its type, in every reachable state.         *)
THEOREM TypeOKAlways == ASSUME StreamsHaveEntries PROVE Spec => []TypeOK
<1>1. IInv => TypeOK
  BY AssemblyInvTypes DEF IInv, PassInv, CallInv, TypeOK, SenderIInv, SenderTypeOK
<1>. QED
  BY IInvInit, IInvNext, <1>1, PTL DEF Spec

(* A pass finds every active bucket in mBucketMap and no other, whatever   *)
(* fragments arrive and whatever fails.                                    *)
THEOREM MapMatchesBucketsAlways ==
    ASSUME StreamsHaveEntries PROVE Spec => []MapMatchesBuckets
<1>1. IInv => MapMatchesBuckets
  BY DEF IInv, AssemblyInv, RingInv
<1>. QED
  BY IInvInit, IInvNext, <1>1, PTL DEF Spec

(* A superframe is never taken for complete because a fragment was counted *)
(* twice: mFragmentCounter counts distinct fragments.                      *)
THEOREM FragmentsAccountedAlways ==
    ASSUME StreamsHaveEntries PROVE Spec => []FragmentsAccounted
<1>1. IInv => FragmentsAccounted
  BY DEF IInv, AssemblyInv, RingInv
<1>. QED
  BY IInvInit, IInvNext, <1>1, PTL DEF Spec

(***************************************************************************)
(* What the superframes hold.  Buckets and superframes that were handed    *)
(* over are sound, or spoilt by a fragment of Noise.                       *)
(***************************************************************************)
DeliveredRight ==
    /\ delivered \in Seq(SuperFrameRecord)
    /\ \A i \in 1 .. Len(delivered) : HandedRight(delivered[i], Noise)

ContentsInv == BucketsSound(Noise) /\ DeliveredRight

(* A fragment of another origin is told by the bytes it leaves behind. *)
NoiseLeavesTraces == \A f \in Noise : f.len > 0

LEMMA ContentsInvInit == Init => ContentsInv
<1>. SUFFICES ASSUME Init
              PROVE  ContentsInv
  OBVIOUS
<1>1. BucketsSound(Noise)
  BY DEF Init, AssemblyInit, BucketsSound, Sound, ClosedBucket
<1>. QED
  BY <1>1 DEF Init, ContentsInv, DeliveredRight

(* The steps that hand nothing over. *)
LEMMA DeliveredStaysRight ==
    ASSUME SenderIInv, DeliveredRight, UNCHANGED delivered,
           \/ UNCHANGED senderVars
           \/ Send \/ Number \/ (Tick /\ UNCHANGED senderVars)
    PROVE  DeliveredRight'
<1>1. \A s \in Sources : \A n \in 1 .. Len(sent[s]) :
          n \in 1 .. Len(sent'[s]) /\ sent'[s][n] = sent[s][n]
  <2>1. CASE UNCHANGED senderVars
    BY <2>1 DEF senderVars
  <2>2. CASE Send \/ Number \/ (Tick /\ UNCHANGED senderVars)
    BY <2>2, LinkGrows
  <2>. QED
    BY <2>1, <2>2
<1>2. \A d : HandedRight(d, Noise) => HandedRight(d, Noise)'
  BY <1>1, HandedStaysRight
<1>. QED
  BY <1>2 DEF DeliveredRight

LEMMA ContentsInvNext ==
    ASSUME StreamsHaveEntries, OneSource, NumbersSuffice, NoiseLeavesTraces,
           IInv, ContentsInv, [Next]_vars
    PROVE  ContentsInv'
<1>1. ASSUME NEW f \in InFlight \cup Noise, ReceiveFragment(f, f.id[1])
      PROVE  ContentsInv'
  <2>1. PICK m \in Messages : Unpack(f, f.id[1], m)
    BY <1>1 DEF ReceiveFragment
  <2>2. UNCHANGED senderVars /\ UNCHANGED delivered
    BY <1>1 DEF ReceiveFragment, linkVars
  <2>3. \A g \in Noise : IsFragment(g) /\ g.len > 0
    BY RunToCompletionAssumption DEF NoiseLeavesTraces
  <2>4. BucketsSound(Noise)'
    BY <2>1, <2>2, <2>3, UnpackKeepsSound, RunToCompletionAssumption
       DEF IInv, ContentsInv
  <2>. QED
    BY <2>2, <2>4, DeliveredStaysRight DEF IInv, ContentsInv
<1>2. ASSUME UNCHANGED <<senderVars, mBucketList, delivered>>
      PROVE  ContentsInv'
  <2>1. BucketsSound(Noise)'
    BY <1>2, StutterSound DEF ContentsInv
  <2>. QED
    BY <1>2, <2>1, DeliveredStaysRight DEF IInv, ContentsInv
<1>3. ASSUME NEW k \in DOMAIN mBucketMap, DeliverToApplication(k)
      PROVE  ContentsInv'
  <2>1. UNCHANGED senderVars /\ UNCHANGED mBucketList
    BY <1>3 DEF DeliverToApplication, linkVars, assemblyVars
  <2>2. BucketsSound(Noise)'
    BY <2>1, StutterSound DEF ContentsInv
  <2>3. \A d : HandedRight(d, Noise) => HandedRight(d, Noise)'
    BY <2>1, HandedStaysRight DEF senderVars
  <2>4. SuperFrame(k) \in SuperFrameRecord /\ HandedRight(SuperFrame(k), Noise)
    BY SuperFrameType, HandedIsSent DEF IInv, ContentsInv
  <2>5. delivered' = Append(delivered, SuperFrame(k))
    BY <1>3 DEF DeliverToApplication
  <2>. DEFINE d == SuperFrame(k)
  <2>. HIDE DEF d
  <2>6. delivered' \in Seq(SuperFrameRecord)
        /\ \A i \in 1 .. Len(delivered') :
              delivered'[i] = d \/ (i \in 1 .. Len(delivered) /\ delivered'[i] = delivered[i])
    BY <2>4, <2>5 DEF ContentsInv, DeliveredRight, d
  <2>. QED
    BY <2>2, <2>3, <2>4, <2>6 DEF ContentsInv, DeliveredRight, d
<1>4. CASE Return
  <2>1. CloseDelivered /\ UNCHANGED senderVars /\ UNCHANGED delivered
    BY <1>4 DEF Return, linkVars
  <2>2. BucketsSound(Noise)'
    BY <2>1, CloseSound DEF ContentsInv
  <2>. QED
    BY <2>1, <2>2, DeliveredStaysRight DEF IInv, ContentsInv
<1>5. CASE Environment
  <2>1. (Send \/ Number \/ (Tick /\ UNCHANGED senderVars))
        /\ UNCHANGED <<mBucketList, delivered>>
    BY <1>5 DEF Environment, assemblyVars
  <2>2. BucketsSound(Noise)'
    BY <2>1, SendSound DEF IInv, ContentsInv
  <2>. QED
    BY <2>1, <2>2, DeliveredStaysRight DEF IInv, ContentsInv
<1>6. CASE StartPass \/ VisitNotDue \/ UNCHANGED vars
  BY <1>2, <1>6 DEF StartPass, VisitNotDue, vars, linkVars, assemblyVars
<1>. QED
  BY <1>1, <1>3, <1>4, <1>5, <1>6 DEF Next

(* Every intact superframe is the packet of one call of packAndSend, byte  *)
(* for byte, with its size, time stamps, content, code, stream and source, *)
(* and a broken one holds bytes of one packet only, in their places,       *)
(* however fragments were lost, repeated, reordered and mixed with others. *)
THEOREM DeliveredIsWhatWasSentAlways ==
    ASSUME StreamsHaveEntries, OneSource, NumbersSuffice, NoiseLeavesTraces
    PROVE  Spec => []DeliveredIsWhatWasSent
<1>1. ContentsInv => DeliveredIsWhatWasSent
  BY DEF ContentsInv, DeliveredRight, DeliveredIsWhatWasSent, HandedRight, HoldsNoise, Spoilt
<1>2. IInv /\ ContentsInv /\ [Next]_vars => ContentsInv'
  BY ContentsInvNext
<1>. QED
  BY IInvInit, IInvNext, ContentsInvInit, <1>1, <1>2, PTL DEF Spec

(* No byte of a sender's fragment is written outside its bucket's          *)
(* allocation, whichever fragment sized it.                                *)
THEOREM WritesInBoundsAlways ==
    ASSUME StreamsHaveEntries, OneSource, NumbersSuffice, Noise = {}
    PROVE  Spec => []WritesInBounds
<1>1. NoiseLeavesTraces
  BY DEF NoiseLeavesTraces
<1>2. IInv /\ ContentsInv => WritesInBounds
  BY SoundInBounds DEF IInv, ContentsInv
<1>3. IInv /\ ContentsInv /\ [Next]_vars => ContentsInv'
  BY <1>1, ContentsInvNext
<1>. QED
  BY IInvInit, IInvNext, ContentsInvInit, <1>2, <1>3, PTL DEF Spec

(***************************************************************************)
(* Time-outs: the clock is sampled before the pass, and runs forward.      *)
(***************************************************************************)
ClockInv == TimeOutsSet /\ lTimeNow <= now

LEMMA ClockInvInit == Init => ClockInv
  BY TimeOutsSetInit DEF Init, PassInit, LinkInit, ClockInit, ClockInv

LEMMA ClockInvNext == ASSUME StreamsHaveEntries PROVE IInv /\ ClockInv /\ [Next]_vars => ClockInv'
<1>. SUFFICES ASSUME IInv, ClockInv, [Next]_vars
              PROVE  ClockInv'
  OBVIOUS
<1>1. now \in Nat /\ lTimeNow \in Nat
  BY DEF IInv, PassInv
<1>2. ASSUME UNCHANGED mBucketList, lTimeNow' <= now'
      PROVE  ClockInv'
  BY <1>2, StutterKeepsTimeOuts DEF ClockInv
<1>3. ASSUME NEW f \in InFlight \cup Noise, ReceiveFragment(f, f.id[1])
      PROVE  ClockInv'
  <2>1. PICK m \in Messages : Unpack(f, f.id[1], m)
    BY <1>3 DEF ReceiveFragment
  <2>2. IsFragment(f)
    BY InFlightAreFragments, RunToCompletionAssumption DEF IInv
  <2>3. TimeOutsSet'
    BY <2>1, <2>2, UnpackKeepsTimeOuts DEF IInv, ClockInv
  <2>. QED
    BY <1>3, <2>3 DEF ReceiveFragment, linkVars, passVars, ClockInv
<1>4. CASE StartPass
  BY <1>1, <1>2, <1>4 DEF StartPass, linkVars, assemblyVars
<1>5. ASSUME NEW k \in DOMAIN mBucketMap, DeliverToApplication(k)
      PROVE  ClockInv'
  BY <1>2, <1>5 DEF DeliverToApplication, DeliverBucket, linkVars, assemblyVars, ClockInv
<1>6. CASE VisitNotDue
  BY <1>2, <1>6 DEF VisitNotDue, PassOver, linkVars, assemblyVars, ClockInv
<1>7. CASE Return
  BY <1>1, <1>7, CloseKeepsTimeOuts DEF Return, linkVars, ClockInv
<1>8. CASE Environment
  <2>1. now' \in Nat /\ now' >= now
    BY <1>1, <1>8 DEF Environment, Send, Number, Tick
  <2>2. UNCHANGED <<mBucketList, lTimeNow>>
    BY <1>8 DEF Environment, assemblyVars, passVars
  <2>. QED
    BY <1>1, <1>2, <2>1, <2>2 DEF ClockInv
<1>9. CASE UNCHANGED vars
  BY <1>2, <1>9 DEF vars, linkVars, assemblyVars, passVars, ClockInv
<1>. QED
  BY <1>3, <1>4, <1>5, <1>6, <1>7, <1>8, <1>9 DEF Next

GiveUpInv ==
    /\ ClockInv
    /\ delivered \in Seq(SuperFrameRecord)
    /\ NoEarlyGiveUp

LEMMA GiveUpInvInit == Init => GiveUpInv
  BY ClockInvInit DEF Init, GiveUpInv, NoEarlyGiveUp

(* No superframe handed over is given up later. *)
LEMMA LaterIsNotEarly ==
    ASSUME now \in Nat, now' \in Nat, now' >= now, GiveUpInv, UNCHANGED delivered
    PROVE  (delivered \in Seq(SuperFrameRecord) /\ NoEarlyGiveUp)'
<1>1. GiveUpAfter \in Nat
  BY ProductType, AssemblyAssumption, HolAssumption DEF GiveUpAfter
<1>2. \A i \in 1 .. Len(delivered) : delivered[i].openedAt \in Nat
  <2>1. \A i \in 1 .. Len(delivered) : delivered[i] \in SuperFrameRecord
    BY DEF GiveUpInv
  <2>. QED
    BY <2>1 DEF SuperFrameRecord
<1>. QED
  BY <1>1, <1>2 DEF GiveUpInv, NoEarlyGiveUp, GiveUpAfter

LEMMA GiveUpInvNext ==
    ASSUME StreamsHaveEntries, TimeOutsFit, IInv, GiveUpInv, [Next]_vars
    PROVE  GiveUpInv'
<1>1. now \in Nat /\ lTimeNow \in Nat
  BY DEF IInv, PassInv
<1>2. ClockInv'
  BY ClockInvNext DEF GiveUpInv
<1>3. ASSUME UNCHANGED delivered, now' \in Nat, now' >= now
      PROVE  GiveUpInv'
  BY <1>1, <1>2, <1>3, LaterIsNotEarly DEF GiveUpInv
<1>4. ASSUME NEW f, ReceiveFragment(f, f.id[1])
      PROVE  GiveUpInv'
  BY <1>1, <1>3, <1>4 DEF ReceiveFragment, linkVars
<1>5. ASSUME NEW k \in DOMAIN mBucketMap, DeliverToApplication(k)
      PROVE  GiveUpInv'
  <2>1. UNCHANGED now
    BY <1>5 DEF DeliverToApplication, linkVars
  <2>. DEFINE d == SuperFrame(k)
  <2>2. d \in SuperFrameRecord
    BY SuperFrameType DEF IInv
  <2>3. d.mBroken => now >= d.openedAt + GiveUpAfter
    BY <1>1, <1>5, BrokenIsLate
       DEF DeliverToApplication, DeliverBucket, IInv, GiveUpInv, ClockInv, GiveUpAfter
  <2>4. delivered' = Append(delivered, d)
    BY <1>5 DEF DeliverToApplication
  <2>. HIDE DEF d
  <2>5. delivered' \in Seq(SuperFrameRecord)
        /\ \A i \in 1 .. Len(delivered') :
              delivered'[i] = d \/ (i \in 1 .. Len(delivered) /\ delivered'[i] = delivered[i])
    BY <2>2, <2>4 DEF GiveUpInv
  <2>6. NoEarlyGiveUp'
    BY <2>1, <2>3, <2>5 DEF GiveUpInv, NoEarlyGiveUp, GiveUpAfter
  <2>. QED
    BY <1>2, <2>5, <2>6 DEF GiveUpInv
<1>6. CASE StartPass \/ VisitNotDue \/ Return \/ UNCHANGED vars
  <2>1. UNCHANGED <<now, delivered>>
    BY <1>6 DEF StartPass, VisitNotDue, Return, vars, linkVars
  <2>. QED
    BY <1>1, <1>3, <2>1
<1>7. CASE Environment
  BY <1>1, <1>3, <1>7 DEF Environment, Send, Number, Tick
<1>. QED
  BY <1>4, <1>5, <1>6, <1>7 DEF Next

(* A superframe is delivered broken only when its bucket time-out, and     *)
(* with a head-of-line time-out that one on top, have passed since its     *)
(* first fragment came.                                                    *)
THEOREM NoEarlyGiveUpAlways ==
    ASSUME StreamsHaveEntries, TimeOutsFit PROVE Spec => []NoEarlyGiveUp
<1>1. GiveUpInv => NoEarlyGiveUp
  BY DEF GiveUpInv
<1>2. IInv /\ GiveUpInv /\ [Next]_vars => GiveUpInv'
  BY GiveUpInvNext
<1>. QED
  BY IInvInit, IInvNext, GiveUpInvInit, <1>1, <1>2, PTL DEF Spec

(***************************************************************************)
(* What a pass leaves behind.  While it runs, a complete bucket is still   *)
(* to be visited or was delivered; with a head-of-line time-out the        *)
(* iterator stands before every bucket that was not, or has stopped at one *)
(* that is not the expected complete one.                                  *)
(***************************************************************************)
Undelivered == DOMAIN mBucketMap \ lDeleteList

PassLeaves ==
    IF HolMode
    THEN /\ todo # {} => todo = Undelivered
         /\ todo = {} => \A k \in Undelivered :
               k = MinOrder(Undelivered) => ~ExpectedAndComplete(k)
    ELSE \A k \in Undelivered : Complete(BucketAt(k)) => k \in todo

KeptInv == (pc = "pass" => PassLeaves) /\ NothingDueIsKept

LEMMA KeptInvInit == Init => KeptInv
  BY DEF Init, AssemblyInit, KeptInv, NothingDueIsKept

LEMMA StartPassLeaves == ASSUME IInv, StartPass PROVE PassLeaves'
<1>1. UNCHANGED <<mBucketMap, mBucketList>>
  BY DEF StartPass, assemblyVars
<1>2. todo' = DOMAIN mBucketMap /\ lDeleteList' = {}
  BY DEF StartPass, BeginPass
<1>. QED
  BY <1>1, <1>2 DEF PassLeaves, Undelivered, HolMode

LEMMA DeliverLeaves ==
    ASSUME IInv, PassLeaves, NEW k \in DOMAIN mBucketMap, DeliverToApplication(k)
    PROVE  PassLeaves'
<1>1. UNCHANGED <<mBucketMap, mBucketList>>
  BY DEF DeliverToApplication, assemblyVars
<1>2. todo # {} /\ todo' = todo \ {k} /\ lDeleteList' = lDeleteList \cup {k}
  BY DEF DeliverToApplication, DeliverBucket
<1>3. Undelivered' = Undelivered \ {k}
  BY <1>1, <1>2 DEF Undelivered
<1>4. CASE HolMode
  <2>1. todo' = Undelivered'
    BY <1>2, <1>3, <1>4 DEF PassLeaves
  <2>. QED
    BY <1>4, <2>1 DEF PassLeaves, HolMode
<1>5. CASE ~HolMode
  BY <1>1, <1>2, <1>3, <1>5 DEF PassLeaves, HolMode, BucketAt, Complete
<1>. QED
  BY <1>4, <1>5

LEMMA VisitLeaves == ASSUME IInv, PassLeaves, VisitNotDue PROVE PassLeaves'
<1>1. UNCHANGED <<mBucketMap, mBucketList, lDeleteList, mNextExpectedFrameNumber>>
  BY DEF VisitNotDue, PassOver, headVars, assemblyVars
<1>2. todo # {} /\ ~Due(MinOrder(todo))
  BY DEF VisitNotDue, PassOver
<1>3. Undelivered' = Undelivered
  BY <1>1 DEF Undelivered
<1>4. CASE HolMode
  <2>1. todo' = {} /\ todo = Undelivered
    BY <1>2, <1>4 DEF VisitNotDue, PassOver, PassLeaves
  <2>2. ~ExpectedAndComplete(MinOrder(Undelivered))
    BY <1>2, <1>4, <2>1 DEF Due
  <2>3. \A k : ExpectedAndComplete(k)' <=> ExpectedAndComplete(k)
    BY <1>1 DEF ExpectedAndComplete, BucketAt, Complete
  <2>. QED
    BY <1>3, <1>4, <2>1, <2>2, <2>3 DEF PassLeaves, HolMode
<1>5. CASE ~HolMode
  <2>1. todo' = todo \ {MinOrder(todo)}
    BY <1>5 DEF VisitNotDue, PassOver
  <2>2. ~Complete(BucketAt(MinOrder(todo)))
    BY <1>2, <1>5 DEF Due
  <2>3. \A k : Complete(BucketAt(k))' <=> Complete(BucketAt(k))
    BY <1>1 DEF BucketAt, Complete
  <2>. QED
    BY <1>3, <1>5, <2>1, <2>2, <2>3 DEF PassLeaves, HolMode
<1>. QED
  BY <1>4, <1>5

LEMMA ReturnKeepsNothing ==
    ASSUME IInv, PassLeaves, Return
    PROVE  NothingDueIsKept'
<1>1. /\ todo = {} /\ UNCHANGED headVars
      /\ mBucketMap' = MapErase(lDeleteList)
      /\ mBucketList' = [s \in Slots |->
             IF s \in DeliveredSlots THEN ClosedBucket(mBucketList[s].mDeliveryOrder)
                                     ELSE mBucketList[s]]
  BY DEF Return, CloseDelivered
<1>2. DOMAIN mBucketMap' = Undelivered
      /\ \A k \in Undelivered : mBucketMap'[k] = mBucketMap[k]
  BY <1>1 DEF MapErase, Undelivered
<1>3. \A k \in DOMAIN mBucketMap : mBucketMap[k] \in Slots
                                  /\ mBucketList[mBucketMap[k]].mDeliveryOrder = k
  BY DEF IInv, AssemblyInv, RingInv, RingTypeOK, MapMatchesBuckets
<1>4. lDeleteList \subseteq DOMAIN mBucketMap
  BY DEF IInv, PassInv
<1>5. ASSUME NEW k \in Undelivered
      PROVE  Complete(BucketAt(k))' <=> Complete(BucketAt(k))
  <2>1. mBucketMap[k] \notin DeliveredSlots
    BY <1>3, <1>4 DEF DeliveredSlots, Undelivered
  <2>2. mBucketMap[k] \in Slots
    BY <1>3 DEF Undelivered
  <2>3. mBucketList'[mBucketMap'[k]] = mBucketList[mBucketMap[k]]
    BY <1>1, <1>2, <2>1, <2>2
  <2>. QED
    BY <2>3 DEF BucketAt, Complete
<1>6. CASE HolMode
  <2>1. \A k \in Undelivered : k = MinOrder(Undelivered) => ~ExpectedAndComplete(k)
    BY <1>1, <1>6 DEF PassLeaves
  <2>2. \A k \in Undelivered : ExpectedAndComplete(k)' <=> ExpectedAndComplete(k)
    BY <1>1, <1>5 DEF ExpectedAndComplete, headVars
  <2>. QED
    BY <1>2, <1>6, <2>1, <2>2 DEF NothingDueIsKept, HolMode
<1>7. CASE ~HolMode
  BY <1>1, <1>2, <1>5, <1>7 DEF NothingDueIsKept, PassLeaves, HolMode
<1>. QED
  BY <1>6, <1>7

LEMMA KeptInvNext ==
    ASSUME StreamsHaveEntries, IInv, KeptInv, [Next]_vars
    PROVE  KeptInv'
<1>1. ASSUME NEW f, ReceiveFragment(f, f.id[1])
      PROVE  KeptInv'
  BY <1>1 DEF ReceiveFragment, KeptInv, NothingDueIsKept
<1>2. CASE StartPass
  BY <1>2, StartPassLeaves DEF StartPass, KeptInv, NothingDueIsKept
<1>3. ASSUME NEW k \in DOMAIN mBucketMap, DeliverToApplication(k)
      PROVE  KeptInv'
  BY <1>3, DeliverLeaves DEF DeliverToApplication, KeptInv, NothingDueIsKept
<1>4. CASE VisitNotDue
  BY <1>4, VisitLeaves DEF VisitNotDue, KeptInv, NothingDueIsKept
<1>5. CASE Return
  <2>1. pc = "pass" /\ pc' = "idle"
    BY <1>5 DEF Return
  <2>. QED
    BY <1>5, <2>1, ReturnKeepsNothing DEF KeptInv
<1>6. CASE Environment \/ UNCHANGED vars
  <2>1. UNCHANGED <<mBucketList, mBucketMap, headVars, todo, lDeleteList, pc>>
    BY <1>6 DEF Environment, vars, assemblyVars, passVars
  <2>2. \A k : (Complete(BucketAt(k))' <=> Complete(BucketAt(k)))
               /\ (ExpectedAndComplete(k)' <=> ExpectedAndComplete(k))
    BY <2>1 DEF ExpectedAndComplete, BucketAt, Complete, headVars
  <2>3. NothingDueIsKept'
    BY <2>1, <2>2 DEF KeptInv, NothingDueIsKept, HolMode, headVars
  <2>4. PassLeaves => PassLeaves'
    BY <2>1, <2>2 DEF PassLeaves, HolMode, Undelivered
  <2>. QED
    BY <2>1, <2>3, <2>4 DEF KeptInv
<1>. QED
  BY <1>1, <1>2, <1>3, <1>4, <1>5, <1>6 DEF Next

(* When receiveFragment returns, it left no superframe behind that the     *)
(* fragment made deliverable: nothing would deliver it before the next     *)
(* fragment comes.                                                         *)
THEOREM NothingDueIsKeptAlways ==
    ASSUME StreamsHaveEntries PROVE Spec => []NothingDueIsKept
<1>1. KeptInv => NothingDueIsKept
  BY DEF KeptInv
<1>2. IInv /\ KeptInv /\ [Next]_vars => KeptInv'
  BY KeptInvNext
<1>. QED
  BY IInvInit, IInvNext, KeptInvInit, <1>1, <1>2, PTL DEF Spec

(***************************************************************************)
(* The orders.  Every number the receiver was told is that of a superframe *)
(* of the stream, and its order is the superframe's place in the stream    *)
(* less a constant, which the first number sets.  With it comes what keeps *)
(* superframes from being handed over twice or out of order.               *)
(***************************************************************************)
OrderInv ==
    /\ delivered \in Seq(SuperFrameRecord)
    /\ LinkInv
    /\ PassInOrder
    /\ \E hs : hs = delivered /\ KeepsOrder(hs)

LEMMA OrderInvInit == Init => OrderInv
<1>. SUFFICES ASSUME Init
              PROVE  OrderInv
  OBVIOUS
<1>1. Ordered(0, <<>>) /\ PassInOrder /\ NothingYet(<<>>) /\ delivered = <<>>
  BY OrderedInit DEF Init
<1>2. LinkInv
  BY LinkInvInit DEF Init
<1>. QED
  BY <1>1, <1>2, 0 \in Int DEF OrderInv, KeepsOrder

LEMMA ReceiveKeepsOrder ==
    ASSUME StreamsHaveEntries, OneSource, StreamWithinReach, Noise = {},
           IInv, OrderInv, NEW f \in InFlight \cup Noise, ReceiveFragment(f, f.id[1])
    PROVE  OrderInv'
<1>1. PICK hs : hs = delivered /\ KeepsOrder(hs)
  BY DEF OrderInv
<1>2. PICK m \in Messages : Unpack(f, f.id[1], m)
  BY DEF ReceiveFragment
<1>3. /\ pc = "idle" /\ (mSuperFrameFirstTime => MayJoinAt(f))
      /\ UNCHANGED <<linkVars, passVars>> /\ UNCHANGED delivered
  BY DEF ReceiveFragment
<1>4. todo = {} /\ lDeleteList = {}
  BY <1>3 DEF IInv, CallInv
<1>5. f \in InFlight /\ IsFragment(f)
  BY InFlightAreFragments, RunToCompletionAssumption DEF IInv
<1>6. PICK s \in Sources : \E n \in 1 .. Len(sent[s]) :
          f \in SentFragments(s, n) /\ UnderWay(s, n)
  BY <1>5, InFlightIsUnderWay DEF IInv
<1>7. PICK n \in 1 .. Len(sent[s]) : f \in SentFragments(s, n) /\ UnderWay(s, n)
  BY <1>6
<1>8. KeepsOrder(hs)'
  <2>1. /\ \E base \in Int : Ordered(base, hs)'
        /\ mSuperFrameFirstTime' => NothingYet(hs)'
    BY <1>1, <1>2, <1>3, <1>4, <1>5, <1>7, UnpackKeepsOrder DEF IInv, OrderInv, KeepsOrder
  <2>. QED
    BY <2>1 DEF KeepsOrder
<1>9. LinkInv' /\ PassInOrder'
  BY <1>3, <1>4, LinkInvStutter DEF OrderInv, PassInOrder, passVars
<1>. QED
  BY <1>1, <1>3, <1>8, <1>9 DEF OrderInv

LEMMA DeliverKeepsOrderInv ==
    ASSUME OneSource, StreamWithinReach, IInv, ClockInv, OrderInv,
           NEW k \in DOMAIN mBucketMap, DeliverToApplication(k)
    PROVE  OrderInv'
<1>1. PICK hs : hs = delivered /\ KeepsOrder(hs)
  BY DEF OrderInv
<1>2. DeliverBucket(k) /\ UNCHANGED <<linkVars, assemblyVars>>
  BY DEF DeliverToApplication
<1>3. PICK hs2 : hs2 = Append(hs, SuperFrame(k))
  OBVIOUS
<1>4. hs \in Seq(SuperFrameRecord) /\ delivered' = hs2
  BY <1>1, <1>3 DEF OrderInv, DeliverToApplication
<1>5. hs2 \in Seq(SuperFrameRecord)
  BY <1>3, <1>4, SuperFrameType, AppendIs DEF IInv
<1>6. KeepsOrder(hs2)'
  <2>1. PICK base \in Int : Ordered(base, hs)
    BY <1>1 DEF KeepsOrder
  <2>2. Ordered(base, hs2)' /\ (mSuperFrameFirstTime' => NothingYet(hs2)')
    BY <1>1, <1>2, <1>3, <1>4, <2>1, DeliverKeepsOrder
       DEF IInv, ClockInv, OrderInv, KeepsOrder
  <2>. QED
    BY <2>2 DEF KeepsOrder
<1>7. LinkInv' /\ PassInOrder'
  BY <1>2, LinkInvStutter, DeliverKeepsPass DEF OrderInv
<1>. QED
  BY <1>4, <1>5, <1>6, <1>7 DEF OrderInv

LEMMA OrderInvNext ==
    ASSUME StreamsHaveEntries, OneSource, StreamWithinReach, Noise = {},
           IInv, IInv', ClockInv, OrderInv, [Next]_vars
    PROVE  OrderInv'
<1>1. PICK hs : hs = delivered /\ KeepsOrder(hs)
  BY DEF OrderInv
<1>2. PICK base \in Int : Ordered(base, hs)
  BY <1>1 DEF KeepsOrder
<1>3. ASSUME UNCHANGED delivered, LinkInv', PassInOrder', Ordered(base, hs)',
             mSuperFrameFirstTime' => NothingYet(hs)'
      PROVE  OrderInv'
  <2>1. KeepsOrder(hs)'
    BY <1>3 DEF KeepsOrder
  <2>. QED
    BY <1>1, <1>3, <2>1 DEF OrderInv
<1>4. ASSUME UNCHANGED assemblyVars
      PROVE  mSuperFrameFirstTime' => NothingYet(hs)'
  BY <1>1, <1>4 DEF KeepsOrder, NothingYet, assemblyVars, counterVars
<1>5. CASE StartPass
  <2>1. pc = "unpacked" /\ BeginPass(TRUE) /\ UNCHANGED <<linkVars, assemblyVars>>
        /\ UNCHANGED delivered
    BY <1>5 DEF StartPass
  <2>2. todo = {} /\ lDeleteList = {}
    BY <2>1 DEF IInv, CallInv
  <2>3. Ordered(base, hs)' /\ PassInOrder'
    BY <1>2, <2>1, <2>2, BeginKeepsOrder DEF OrderInv
  <2>4. LinkInv'
    BY <2>1, LinkInvStutter DEF OrderInv
  <2>. QED
    BY <1>3, <1>4, <2>1, <2>3, <2>4
<1>6. CASE VisitNotDue
  <2>1. PassOver /\ UNCHANGED <<linkVars, assemblyVars>> /\ UNCHANGED delivered
    BY <1>6 DEF VisitNotDue
  <2>2. Ordered(base, hs)'
    BY <1>2, <2>1, OrderedStutter DEF PassOver
  <2>3. LinkInv' /\ PassInOrder'
    BY <2>1, LinkInvStutter, PassOverKeepsOrder DEF OrderInv
  <2>. QED
    BY <1>3, <1>4, <2>1, <2>2, <2>3
<1>7. CASE Return
  <2>1. CloseDelivered /\ UNCHANGED linkVars /\ UNCHANGED delivered
    BY <1>7 DEF Return
  <2>2. Ordered(base, hs)'
    BY <1>2, <2>1, CloseKeepsOrder DEF IInv
  <2>3. LinkInv' /\ PassInOrder'
    BY <2>1, LinkInvStutter, CloseKeepsPass DEF OrderInv
  <2>4. mSuperFrameFirstTime' => NothingYet(hs)'
    BY <1>1, <2>1, CloseKeepsNothing DEF KeepsOrder
  <2>. QED
    BY <1>3, <2>1, <2>2, <2>3, <2>4
<1>8. CASE Environment
  <2>1. /\ Send \/ Number \/ (Tick /\ UNCHANGED senderVars)
        /\ UNCHANGED <<assemblyVars, passVars, delivered>>
    BY <1>8 DEF Environment
  <2>2. UNCHANGED <<headVars, lDeleteList, todo, mBucketMap>>
    BY <2>1 DEF passVars, assemblyVars
  <2>3. Ordered(base, hs)'
    BY <1>1, <1>2, <2>1, <2>2, LinkKeepsOrder DEF IInv, OrderInv, KeepsOrder
  <2>4. LinkInv'
    BY <2>1, LinkInvNext DEF IInv, OrderInv
  <2>5. PassInOrder'
    BY <2>2 DEF OrderInv, PassInOrder, headVars
  <2>. QED
    BY <1>3, <1>4, <2>1, <2>3, <2>4, <2>5
<1>9. CASE UNCHANGED vars
  <2>1. UNCHANGED <<linkVars, assemblyVars, headVars, lDeleteList, todo, mBucketMap, delivered>>
    BY <1>9 DEF vars, passVars, assemblyVars
  <2>2. Ordered(base, hs)' /\ LinkInv'
    BY <1>2, <2>1, OrderedStutter, LinkInvStutter DEF OrderInv
  <2>3. PassInOrder'
    BY <2>1 DEF OrderInv, PassInOrder, headVars
  <2>. QED
    BY <1>3, <1>4, <2>1, <2>2, <2>3
<1>. QED
  BY <1>5, <1>6, <1>7, <1>8, <1>9, ReceiveKeepsOrder, DeliverKeepsOrderInv DEF Next

(* The 64 bit orders of two superframes delivered are as far apart as the  *)
(* superframes were in the stream, across any wrap of the 16 bit number,   *)
(* whatever was lost, repeated or overtaken on the way.                    *)
THEOREM OrdersFollowTheStreamAlways ==
    ASSUME StreamsHaveEntries, OneSource, StreamWithinReach, Noise = {}
    PROVE  Spec => []OrdersFollowTheStream
<1>1. IInv /\ OrderInv => OrdersFollowTheStream
  <2>. SUFFICES ASSUME IInv, OrderInv,
                       NEW i \in 1 .. Len(delivered), NEW j \in 1 .. Len(delivered),
                       NEW s \in Sources,
                       NEW m \in 1 .. Len(sent[s]), NEW n \in 1 .. Len(sent[s]),
                       SentAs(delivered[i], s, m), SentAs(delivered[j], s, n)
                PROVE  (delivered[i].order - delivered[j].order) % U64Mod = (m - n) % U64Mod
    BY DEF OrdersFollowTheStream
  <2>1. PICK hs : hs = delivered /\ KeepsOrder(hs)
    BY DEF OrderInv
  <2>2. PICK base \in Int : OrdersKept(base, hs)
    BY <2>1 DEF KeepsOrder, Ordered
  <2>3. delivered[i].order = Ord(m, base) /\ delivered[j].order = Ord(n, base)
    BY <2>1, <2>2, PlaceOfOrder DEF OrdersKept, IInv
  <2>4. m \in Int /\ n \in Int
    BY NumberInStream DEF IInv
  <2>5. (((m - base) % U64Mod) - ((n - base) % U64Mod)) % U64Mod
          = ((m - base) - (n - base)) % U64Mod
    BY <2>4, Moduli, ModDifference, m - base \in Int, n - base \in Int
  <2>6. (m - base) - (n - base) = m - n
    BY <2>4
  <2>. QED
    BY <2>3, <2>5, <2>6 DEF Ord
<1>2. IInv /\ IInv' /\ ClockInv /\ OrderInv /\ [Next]_vars => OrderInv'
  BY OrderInvNext
<1>. QED
  BY IInvInit, IInvNext, ClockInvInit, ClockInvNext, OrderInvInit, <1>1, <1>2, PTL DEF Spec

(***************************************************************************)
(* The refinement.  Send offers a packet, the visit of a due bucket hands  *)
(* one over, and no other step is seen by the channel.                     *)
(***************************************************************************)
LEMMA ChannelInit == Init => Channel!Init
<1>. SUFFICES ASSUME Init
              PROVE  Channel!Init
  OBVIOUS
<1>1. \A s \in Sources : sent[s] = <<>>
  BY DEF Init, LinkInit, SenderInit
<1>2. ASSUME NEW s \in Sources
      PROVE  Offered[s] = <<>>
  <2>1. Offered \in [Sources -> Seq(Calls)] /\ Len(Offered[s]) = 0
    BY <1>1, SenderIInvInit, OfferedIs DEF Init, LinkInit
  <2>. QED
    BY <2>1, EmptySeq
<1>3. Offered = [s \in Sources |-> <<>>]
  <2>1. Offered = [s \in Sources |-> Offered[s]]
    BY DEF Offered
  <2>. QED
    BY <1>2, <2>1
<1>4. AllHanded(delivered) = <<>>
  <2>1. delivered = <<>> /\ <<>> \in Seq(SuperFrameRecord)
    BY DEF Init
  <2>. DEFINE H == {AsHanded(d) : d \in SuperFrameRecord}
  <2>2. AllHanded(<<>>) \in Seq(H) /\ Len(AllHanded(<<>>)) = 0
    BY <2>1, AllHandedIs
  <2>. HIDE DEF H
  <2>3. AllHanded(<<>>) = <<>>
    BY <2>2, EmptySeq
  <2>. QED
    BY <2>1, <2>3
<1>. QED
  BY <1>3, <1>4 DEF Channel!Init

(* A step that hands nothing over. *)
LEMMA NothingHanded ==
    ASSUME NumbersSuffice, SenderIInv, SenderIInv', Noise = {}, DeliveredRight,
           UNCHANGED delivered,
           \A s \in Sources : \A n \in 1 .. Len(sent[s]) :
               n \in 1 .. Len(sent'[s]) /\ sent'[s][n] = sent[s][n]
    PROVE  AllHanded(delivered)' = AllHanded(delivered)
<1>1. \A i \in 1 .. Len(delivered) : HandedRight(delivered[i], {})
  BY DEF DeliveredRight
<1>2. \A i \in 1 .. Len(delivered) : AsHanded(delivered[i])' = AsHanded(delivered[i])
  <2>1. ASSUME NEW i \in 1 .. Len(delivered)
        PROVE  AsHanded(delivered[i])' = AsHanded(delivered[i])
    <3>1. PICK d : d = delivered[i]
      OBVIOUS
    <3>2. AsHanded(d)' = AsHanded(d)
      BY <1>1, <3>1, HandedStays
    <3>. QED
      BY <3>1, <3>2
  <2>. QED
    BY <2>1
<1>. QED
  BY <1>2 DEF AllHanded

LEMMA StutterHandsNothing ==
    ASSUME UNCHANGED sent, UNCHANGED delivered
    PROVE  UNCHANGED Channel!channelVars
<1>1. \A d : AsHanded(d)' = AsHanded(d)
  BY DEF AsHanded, NumberOf, SentAs, PacketIn, BytesIn
<1>2. AllHanded(delivered)' = AllHanded(delivered)
  BY <1>1 DEF AllHanded
<1>3. Offered' = Offered
  BY DEF Offered
<1>. QED
  BY <1>2, <1>3 DEF Channel!channelVars

LEMMA SendIsOffer ==
    ASSUME NumbersSuffice, IInv, IInv', Noise = {}, DeliveredRight, Send, UNCHANGED delivered
    PROVE  Channel!Next
<1>1. PICK s \in Sources, c \in Calls : PackAndSendAccepted(s, c, now)
  BY DEF Send
<1>2. AllHanded(delivered)' = AllHanded(delivered)
  BY LinkGrows, NothingHanded DEF IInv
<1>3. Offered' = [Offered EXCEPT ![s] = Append(Offered[s], c)]
  BY <1>1, SendOffers DEF IInv
<1>4. Channel!Offer(s, c)
  BY <1>2, <1>3 DEF Channel!Offer
<1>. QED
  BY <1>4 DEF Channel!Next

LEMMA DeliverIsHand ==
    ASSUME OneSource, StreamWithinReach, RingOutlastsWindow, HolMode => InOrderMode,
           Noise = {}, IInv, ContentsInv, OrderInv,
           NEW k \in DOMAIN mBucketMap, DeliverToApplication(k)
    PROVE  Channel!Hand
<1>1. PICK hs : hs = delivered /\ KeepsOrder(hs)
  BY DEF OrderInv
<1>2. hs \in Seq(SuperFrameRecord) /\ \A i \in 1 .. Len(hs) : HandedRight(hs[i], {})
  BY <1>1 DEF OrderInv, ContentsInv, DeliveredRight
<1>3. PICK h : h = AsHanded(SuperFrame(k))
  OBVIOUS
<1>4. PICK s \in Sources : \E n \in 1 .. Len(sent[s]) :
          /\ h.source = s /\ h.n = n
          /\ \/ h.packet = {sent[s][n].call} /\ h.bytes = PacketBytes(s, n)
             \/ h.packet = {} /\ h.bytes \subseteq PacketBytes(s, n)
          /\ \A i \in 1 .. Len(hs) : AsHanded(hs[i]).n # n
          /\ HolMode /\ hs # <<>> /\ n > AsHanded(hs[1]).n =>
                \A i \in 1 .. Len(hs) : AsHanded(hs[i]).n < n
  BY <1>1, <1>2, <1>3, KeyMayBeHanded DEF IInv, OrderInv, ContentsInv, DeliverToApplication
<1>5. PICK n \in 1 .. Len(sent[s]) :
          /\ h.source = s /\ h.n = n
          /\ \/ h.packet = {sent[s][n].call} /\ h.bytes = PacketBytes(s, n)
             \/ h.packet = {} /\ h.bytes \subseteq PacketBytes(s, n)
          /\ \A i \in 1 .. Len(hs) : AsHanded(hs[i]).n # n
          /\ HolMode /\ hs # <<>> /\ n > AsHanded(hs[1]).n =>
                \A i \in 1 .. Len(hs) : AsHanded(hs[i]).n < n
  BY <1>4
<1>. DEFINE H == {AsHanded(d) : d \in SuperFrameRecord}
            old == AllHanded(delivered)
<1>6. /\ old \in Seq(H) /\ Len(old) = Len(hs) /\ Len(hs) \in Nat
      /\ \A i \in 1 .. Len(hs) : old[i] = AsHanded(hs[i])
  BY <1>1, <1>2, AllHandedIs
<1>7. Len(Offered[s]) = Len(sent[s]) /\ Offered[s][n] = sent[s][n].call
  BY OfferedIs DEF IInv
<1>8. Channel!MayHand(s, n)
  <2>1. ~Channel!WasHanded(s, n)
    BY <1>5, <1>6 DEF Channel!WasHanded
  <2>2. HolMode => Channel!InItsTurn(s, n)
    <3>. SUFFICES ASSUME HolMode, old # <<>>, old[1].source = s, n > old[1].n,
                         NEW i \in 1 .. Len(old)
                  PROVE  old[i].n < n
      BY DEF Channel!InItsTurn
    <3>1. hs # <<>> /\ 1 \in 1 .. Len(hs)
      BY <1>2, <1>6
    <3>. QED
      BY <1>5, <1>6, <3>1
  <2>. QED
    BY <1>5, <1>7, <2>1, <2>2 DEF Channel!MayHand
<1>9. Channel!Intact(h) \/ Channel!Broken(h)
  <2>1. Channel!Bytes(s, n) = PacketBytes(s, n)
    BY <1>7 DEF Channel!Bytes, PacketBytes
  <2>. QED
    BY <1>5, <1>7, <2>1 DEF Channel!Intact, Channel!Broken
<1>10. UNCHANGED sent /\ delivered' = Append(hs, SuperFrame(k))
  BY <1>1 DEF DeliverToApplication, linkVars, senderVars
<1>11. AllHanded(delivered)' = Append(old, h)
  <2>1. \A d : AsHanded(d)' = AsHanded(d)
    BY <1>10 DEF AsHanded, NumberOf, SentAs, PacketIn, BytesIn
  <2>2. AllHanded(delivered)' = AllHanded(delivered')
    BY <2>1 DEF AllHanded
  <2>3. SuperFrame(k) \in SuperFrameRecord
    BY SuperFrameType DEF IInv
  <2>4. AllHanded(Append(hs, SuperFrame(k))) = Append(AllHanded(hs), h)
    BY <1>2, <1>3, <2>3, AllHandedAppend
  <2>. QED
    BY <1>1, <1>10, <2>2, <2>4
<1>12. PICK new : new = Append(old, h)
  OBVIOUS
<1>13. h \in H
  BY <1>3, SuperFrameType DEF IInv
<1>. HIDE DEF H
<1>14. /\ DOMAIN new = 1 .. Len(hs) + 1 /\ DOMAIN old = 1 .. Len(hs)
       /\ new[Len(hs) + 1] = h
  BY <1>6, <1>12, <1>13
<1>15. Len(hs) + 1 \in DOMAIN new \ DOMAIN old
  BY <1>6, <1>14
<1>16. Offered' = Offered
  BY <1>10 DEF Offered
<1>. QED
  BY <1>5, <1>8, <1>9, <1>11, <1>12, <1>14, <1>15, <1>16 DEF Channel!Hand

(* Fragments, buckets, the head and its time-outs implement a FrameChannel:*)
(* whatever is lost, repeated, late or out of turn on the link, a packet   *)
(* is handed over at most once, intact or in part, and with a head-of-line *)
(* time-out in the order of the source, as long as the ring outlasts the   *)
(* fragments that come late and the time-outs outlast their delay.         *)
THEOREM IsFrameChannelAlways ==
    ASSUME StreamsHaveEntries, OneSource, StreamWithinReach, RingOutlastsWindow,
           HolMode => InOrderMode, Noise = {}
    PROVE  Spec => IsFrameChannel
<1>1. NumbersSuffice /\ NoiseLeavesTraces
  BY Reach DEF NumbersSuffice, NoiseLeavesTraces
<1>2. IInv /\ ContentsInv /\ [Next]_vars => ContentsInv'
  BY <1>1, ContentsInvNext
<1>3. IInv /\ IInv' /\ ClockInv /\ OrderInv /\ [Next]_vars => OrderInv'
  BY OrderInvNext
<1>4. IInv /\ IInv' /\ ContentsInv /\ OrderInv /\ [Next]_vars
         => [Channel!Next]_(Channel!channelVars)
  <2>. SUFFICES ASSUME IInv, IInv', ContentsInv, OrderInv, [Next]_vars
                PROVE  [Channel!Next]_(Channel!channelVars)
    OBVIOUS
  <2>1. ASSUME NEW k \in DOMAIN mBucketMap, DeliverToApplication(k)
        PROVE  Channel!Next
    BY <2>1, DeliverIsHand DEF Channel!Next
  <2>2. CASE Environment
    <3>1. CASE Send
      BY <1>1, <2>2, <3>1, SendIsOffer DEF Environment, ContentsInv
    <3>2. CASE Number \/ (Tick /\ UNCHANGED senderVars)
      BY <2>2, <3>2, StutterHandsNothing DEF Environment, Number, SetSuperFrameNo, senderVars
    <3>. QED
      BY <2>2, <3>1, <3>2 DEF Environment
  <2>3. ASSUME NEW f, ReceiveFragment(f, f.id[1])
        PROVE  UNCHANGED Channel!channelVars
    BY <2>3, StutterHandsNothing DEF ReceiveFragment, linkVars, senderVars
  <2>4. CASE StartPass \/ VisitNotDue \/ Return \/ UNCHANGED vars
    <3>1. UNCHANGED sent /\ UNCHANGED delivered
      BY <2>4 DEF StartPass, VisitNotDue, Return, vars, linkVars, senderVars
    <3>. QED
      BY <3>1, StutterHandsNothing
  <2>. QED
    BY <2>1, <2>2, <2>3, <2>4 DEF Next
<1>. QED
  BY IInvInit, IInvNext, ContentsInvInit, <1>2, ClockInvInit, ClockInvNext,
     OrderInvInit, <1>3, ChannelInit, <1>4, PTL DEF Spec, IsFrameChannel, Channel!Spec

(***************************************************************************)
(* tooOldFragment.  The order of a closed bucket that was used is that of  *)
(* a superframe delivered, and one order is that of one superframe only.   *)
(***************************************************************************)
ClosedInv == \E hs : hs = delivered /\ ClosedWereHanded(hs)

TooOldInv == ClosedInv /\ TooOldMeansDelivered

LEMMA TooOldInvInit == Init => TooOldInv
<1>. SUFFICES ASSUME Init
              PROVE  TooOldInv
  OBVIOUS
<1>1. ClosedWereHanded(<<>>)
  BY DEF Init, AssemblyInit, PassInit, ClosedBucket, ClosedWereHanded, ClosedHanded
<1>2. ~(lMessage = "tooOldFragment")
  BY DEF Init
<1>. QED
  BY <1>1, <1>2 DEF Init, TooOldInv, ClosedInv, TooOldMeansDelivered

LEMMA ReceiveKeepsTooOld ==
    ASSUME StreamsHaveEntries, OneSource, StreamWithinReach, JoinsBeforeWrap, Noise = {},
           AllocMayFail = FALSE, IInv, ContentsInv, OrderInv, TooOldInv,
           NEW f \in InFlight \cup Noise, ReceiveFragment(f, f.id[1])
    PROVE  TooOldInv'
<1>1. PICK hs : hs = delivered /\ KeepsOrder(hs) /\ ClosedWereHanded(hs)
  BY DEF OrderInv, TooOldInv, ClosedInv
<1>2. PICK m \in Messages : Unpack(f, f.id[1], m) /\ lMessage' = m
  BY DEF ReceiveFragment
<1>3. /\ pc = "idle" /\ (mSuperFrameFirstTime => MayJoinAt(f))
      /\ UNCHANGED <<linkVars, passVars>> /\ UNCHANGED delivered
  BY DEF ReceiveFragment
<1>4. lDeleteList = {} /\ UNCHANGED lDeleteList
  BY <1>3 DEF IInv, CallInv, passVars
<1>5. f \in InFlight /\ IsFragment(f)
  BY InFlightAreFragments, RunToCompletionAssumption DEF IInv
<1>6. PICK s \in Sources : \E n \in 1 .. Len(sent[s]) : f \in SentFragments(s, n)
  BY <1>5, InFlightIsSent DEF IInv
<1>7. PICK n \in 1 .. Len(sent[s]) : f \in SentFragments(s, n)
  BY <1>6
<1>8. NumbersSuffice
  BY Reach, Moduli DEF StreamWithinReach, NumbersSuffice
<1>9. BucketsSound({})
  BY DEF ContentsInv
<1>10. ClosedWereHanded(hs)'
  BY <1>1, <1>2, <1>4, <1>5, <1>7, <1>8, <1>9, UnpackKeepsClosed DEF IInv
<1>11. TooOldMeansDelivered'
  <2>. SUFFICES ASSUME m = "tooOldFragment"
                PROVE  \E i \in 1 .. Len(hs) :
                           hs[i].mSuperFrameNo = mOldSuperFrameNumber'
    BY <1>1, <1>2, <1>3 DEF TooOldMeansDelivered
  <2>1. TooOldFragment(f)
    BY <1>2 DEF Unpack
  <2>2. mOldSuperFrameNumber' = f.sfn
    BY <2>1 DEF TooOldFragment, SuperFrameRecalculator
  <2>. QED
    BY <1>1, <1>3, <1>4, <1>5, <1>7, <2>1, <2>2, TooOldWasHanded DEF IInv, OrderInv
<1>. QED
  BY <1>1, <1>3, <1>10, <1>11 DEF TooOldInv, ClosedInv

LEMMA DeliverKeepsTooOld ==
    ASSUME IInv, OrderInv, TooOldInv,
           NEW k \in DOMAIN mBucketMap, DeliverToApplication(k)
    PROVE  TooOldInv'
<1>1. PICK hs : hs = delivered /\ ClosedWereHanded(hs)
  BY DEF TooOldInv, ClosedInv
<1>2. PICK hs2 : hs2 = Append(hs, SuperFrame(k))
  OBVIOUS
<1>3. /\ DeliverBucket(k) /\ UNCHANGED assemblyVars
      /\ delivered' = hs2 /\ UNCHANGED lMessage /\ UNCHANGED mOldSuperFrameNumber
  BY <1>1, <1>2 DEF DeliverToApplication, assemblyVars, counterVars
<1>4. hs \in Seq(SuperFrameRecord)
  BY <1>1 DEF OrderInv
<1>5. ClosedWereHanded(hs2)'
  BY <1>1, <1>2, <1>3, <1>4, DeliverKeepsClosed DEF IInv
<1>6. \A i \in 1 .. Len(hs) : i \in 1 .. Len(hs2) /\ hs2[i] = hs[i]
  <2>1. SuperFrame(k) \in SuperFrameRecord
    BY SuperFrameType DEF IInv
  <2>. QED
    BY <1>2, <1>4, <2>1, AppendIs
<1>7. TooOldMeansDelivered'
  BY <1>1, <1>3, <1>6 DEF TooOldInv, TooOldMeansDelivered
<1>. QED
  BY <1>3, <1>5, <1>7 DEF TooOldInv, ClosedInv

LEMMA TooOldInvNext ==
    ASSUME StreamsHaveEntries, OneSource, StreamWithinReach, JoinsBeforeWrap, Noise = {},
           AllocMayFail = FALSE, IInv, ContentsInv, OrderInv, TooOldInv, [Next]_vars
    PROVE  TooOldInv'
<1>1. PICK hs : hs = delivered /\ ClosedWereHanded(hs)
  BY DEF TooOldInv, ClosedInv
<1>2. CASE Return
  <2>1. /\ CloseDelivered /\ UNCHANGED delivered /\ lMessage' = "none"
    BY <1>2 DEF Return
  <2>2. ClosedWereHanded(hs)'
    BY <1>1, <2>1, CloseKeepsClosed DEF IInv
  <2>3. TooOldMeansDelivered'
    BY <2>1 DEF TooOldMeansDelivered
  <2>. QED
    BY <1>1, <2>1, <2>2, <2>3 DEF TooOldInv, ClosedInv
<1>3. ASSUME UNCHANGED <<mBucketList, mOldSuperFrameNumber, lMessage, delivered>>,
             lDeleteList' \subseteq lDeleteList
      PROVE  TooOldInv'
  <2>1. ClosedWereHanded(hs)'
    BY <1>1, <1>3 DEF ClosedWereHanded
  <2>2. TooOldMeansDelivered'
    BY <1>3 DEF TooOldInv, TooOldMeansDelivered
  <2>. QED
    BY <1>1, <1>3, <2>1, <2>2 DEF TooOldInv, ClosedInv
<1>4. CASE StartPass \/ VisitNotDue \/ Environment \/ UNCHANGED vars
  BY <1>3, <1>4 DEF StartPass, BeginPass, VisitNotDue, PassOver, Environment, vars,
     assemblyVars, counterVars, passVars
<1>. QED
  BY <1>2, <1>4, ReceiveKeepsTooOld, DeliverKeepsTooOld DEF Next

(* No superframe is refused as too old that was not delivered: the order   *)
(* of a fragment is found in a closed bucket only when its own superframe  *)
(* left it there, if memory never runs out, the first number received is   *)
(* before the wrap and all fragments are of the one sender.                *)
THEOREM TooOldMeansDeliveredAlways ==
    ASSUME StreamsHaveEntries, OneSource, StreamWithinReach, JoinsBeforeWrap, Noise = {},
           AllocMayFail = FALSE
    PROVE  Spec => []TooOldMeansDelivered
<1>1. NumbersSuffice /\ NoiseLeavesTraces
  BY Reach, Moduli DEF StreamWithinReach, NumbersSuffice, NoiseLeavesTraces
<1>2. IInv /\ ContentsInv /\ [Next]_vars => ContentsInv'
  BY <1>1, ContentsInvNext
<1>3. IInv /\ IInv' /\ ClockInv /\ OrderInv /\ [Next]_vars => OrderInv'
  BY OrderInvNext
<1>4. IInv /\ ContentsInv /\ OrderInv /\ TooOldInv /\ [Next]_vars => TooOldInv'
  BY TooOldInvNext
<1>5. TooOldInv => TooOldMeansDelivered
  BY DEF TooOldInv
<1>. QED
  BY IInvInit, IInvNext, ClockInvInit, ClockInvNext, ContentsInvInit, OrderInvInit,
     TooOldInvInit, <1>2, <1>3, <1>4, <1>5, PTL DEF Spec
=============================================================================
