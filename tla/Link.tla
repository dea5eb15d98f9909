--------------------------------- MODULE Link ---------------------------------
(***************************************************************************)
(* The transport between a sender's sendCallback and receiveFragment.  EFP *)
(* leaves it to the application, which may use UDP, several interfaces, or *)
(* anything else: fragments are lost, duplicated and reordered.  A sent    *)
(* fragment may be received any number of times, none included, until it   *)
(* is older than MaxDelay or more than Window superframes behind.          *)
(***************************************************************************)
EXTENDS Sender, Clock

CONSTANTS
    MaxDelay,   \* longest time a fragment is under way
    Window,     \* most superframes a fragment may be behind the newest one
    LastSend,   \* bound: no call of packAndSend after this instant
    JoinBy      \* the first superframe received is one of the first JoinBy

ASSUME LinkAssumption ==
    /\ MaxDelay \in Nat /\ Window \in Nat /\ LastSend \in Nat /\ JoinBy \in Nat

linkVars == <<senderVars, now>>

LinkInit == SenderInit /\ ClockInit

Send ==
    /\ now <= LastSend
    /\ \E s \in Sources, c \in Calls : PackAndSendAccepted(s, c, now)
    /\ UNCHANGED now

Number ==
    /\ \E s \in Sources, n \in StartNumbers : SetSuperFrameNo(s, n)
    /\ UNCHANGED now

UnderWay(s, n) ==
    /\ now - sent[s][n].at <= MaxDelay
    /\ n > Len(sent[s]) - Window

InFlight ==
    UNION {SentFragments(p[1], p[2]) :
             p \in {q \in Sources \X (1 .. MaxFrames) :
                      q[2] <= Len(sent[q[1]]) /\ UnderWay(q[1], q[2])}}

(* Where the receiver may tune in: the number before the one it starts at  *)
(* cannot be told from the number after 2^64 - 1.                          *)
MayJoinAt(f) == f.id[2] <= JoinBy
=============================================================================
