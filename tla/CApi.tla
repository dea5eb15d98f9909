--------------------------------- MODULE CApi ---------------------------------
(***************************************************************************)
(* The C API: objects behind handles, in a map and under a mutex for the   *)
(* senders and another map and mutex for the receivers.  A call holds its  *)
(* mutex to its end, callbacks included, so that a send callback which     *)
(* passes the fragment on to efp_receive_fragment takes the second mutex   *)
(* while its thread holds the first.  The handle counter is shared by both *)
(* sides and guarded by neither mutex; its increment is a read and a write.*)
(***************************************************************************)
EXTENDS Naturals, Sequences

CONSTANTS
    Threads,                \* the application's threads
    Creators,               \* the threads that call the two init functions
    ReceiveCallbackSends,   \* does a receive callback call efp_send_data
    MaxInits,               \* bound: calls of the init functions
    MaxCalls                \* bound: calls the application's threads make

ASSUME CApiAssumption ==
    /\ Creators \subseteq Threads
    /\ ReceiveCallbackSends \in BOOLEAN
    /\ MaxInits \in Nat /\ MaxCalls \in Nat

Kinds == {"send", "receive"}

VARIABLES
    c_object_handle,    \* the handle given out next
    efp_base_map,       \* by kind: efp_send_base_map and efp_receive_base_map,
                        \* from handles to the callback of the object
    efp_mutex,          \* by kind: the thread in efp_send_mutex, efp_receive_mutex
    stack,              \* per thread, the API calls in progress, innermost last
    live,               \* the objects the application was given and did not end
    inits,              \* calls of init so far, which name the callbacks
    calls               \* calls by the application's threads so far

vars == <<c_object_handle, efp_base_map, efp_mutex, stack, live, inits, calls>>

Nobody == "nobody"

Init ==
    /\ c_object_handle = 1
    /\ efp_base_map = [k \in Kinds |-> <<>>]
    /\ efp_mutex = [k \in Kinds |-> Nobody]
    /\ stack = [t \in Threads |-> <<>>]
    /\ live = {}
    /\ inits = 0 /\ calls = 0

Busy(t) == stack[t] # <<>>
Top(t) == stack[t][Len(stack[t])]
Pop(t) == SubSeq(stack[t], 1, Len(stack[t]) - 1)
At(t, fn, pc) == Busy(t) /\ Top(t).fn = fn /\ Top(t).pc = pc

Goto(t, pc) == stack' = [stack EXCEPT ![t][Len(stack[t])].pc = pc]

(* A call of function fn ("init", "use" or "end") of one side of the API.  *)
(* "use" is efp_send_data or efp_receive_fragment.                         *)
Call(fn, kind, handle, callback) ==
    [fn |-> fn, kind |-> kind, handle |-> handle, callback |-> callback,
     pc |-> "enter", loaded |-> 0]

Push(t, call) == stack' = [stack EXCEPT ![t] = Append(@, call)]

(***************************************************************************)
(* The application.  A handle is used only while it is live, and ended     *)
(* only when no call uses it.                                              *)
(***************************************************************************)
InUse(o) ==
    \E t \in Threads : \E i \in 1 .. Len(stack[t]) :
        stack[t][i].fn = "use" /\ stack[t][i].kind = o.kind /\ stack[t][i].handle = o.handle

AppInit(t) ==
    /\ ~Busy(t) /\ calls < MaxCalls
    /\ t \in Creators /\ inits < MaxInits
    /\ \E kind \in Kinds : Push(t, Call("init", kind, 0, inits + 1))
    /\ inits' = inits + 1 /\ calls' = calls + 1
    /\ UNCHANGED <<c_object_handle, efp_base_map, efp_mutex, live>>

AppUse(t) ==
    /\ ~Busy(t) /\ calls < MaxCalls
    /\ \E o \in live : Push(t, Call("use", o.kind, o.handle, o.callback))
    /\ calls' = calls + 1
    /\ UNCHANGED <<c_object_handle, efp_base_map, efp_mutex, live, inits>>

AppEnd(t) ==
    /\ ~Busy(t) /\ calls < MaxCalls
    /\ \E o \in live :
          /\ ~InUse(o)
          /\ Push(t, Call("end", o.kind, o.handle, o.callback))
          /\ live' = live \ {o}
    /\ calls' = calls + 1
    /\ UNCHANGED <<c_object_handle, efp_base_map, efp_mutex, inits>>

(* The callback of a call in progress calls the other side of the API.     *)
CallbackUses(t) ==
    /\ At(t, "use", "callback") /\ Len(stack[t]) = 1
    /\ Top(t).kind = "receive" => ReceiveCallbackSends
    /\ \E o \in live :
          /\ o.kind # Top(t).kind
          /\ stack' = [stack EXCEPT ![t] =
                 Append([@ EXCEPT ![Len(@)].pc = "leave"],
                        Call("use", o.kind, o.handle, o.callback))]
    /\ UNCHANGED <<c_object_handle, efp_base_map, efp_mutex, live, inits, calls>>

CallbackReturns(t) ==
    /\ At(t, "use", "callback")
    /\ Goto(t, "leave")
    /\ UNCHANGED <<c_object_handle, efp_base_map, efp_mutex, live, inits, calls>>

(***************************************************************************)
(* The functions of the API.                                               *)
(***************************************************************************)

(* One mutex for both sides of the API. *)
OneMutex(kind) == "send"

MutexOf(kind) == kind

Lock(t) ==
    /\ Busy(t) /\ Top(t).pc = "enter"
    /\ efp_mutex[MutexOf(Top(t).kind)] = Nobody
    /\ efp_mutex' = [efp_mutex EXCEPT ![MutexOf(Top(t).kind)] = t]
    /\ Goto(t, "locked")
    /\ UNCHANGED <<c_object_handle, efp_base_map, live, inits, calls>>

(* std::map::insert keeps an entry that is there, and the callback is set  *)
(* in whichever object results.                                            *)
Insert(t, kind) ==
    /\ At(t, "init", "locked") /\ Top(t).kind = kind
    /\ efp_base_map' = [efp_base_map EXCEPT ![kind] =
           [h \in DOMAIN @ \cup {c_object_handle} |->
               IF h = c_object_handle THEN Top(t).callback ELSE @[h]]]
    /\ stack' = [stack EXCEPT ![t][Len(stack[t])] =
           [@ EXCEPT !.handle = c_object_handle, !.pc = "inserted"]]
    /\ UNCHANGED <<c_object_handle, efp_mutex, live, inits, calls>>

EfpInitSend(t) == Insert(t, "send")
EfpInitReceive(t) == Insert(t, "receive")

IncrementLoad(t) ==
    /\ At(t, "init", "inserted")
    /\ stack' = [stack EXCEPT ![t][Len(stack[t])] =
           [@ EXCEPT !.loaded = c_object_handle, !.pc = "loaded"]]
    /\ UNCHANGED <<c_object_handle, efp_base_map, efp_mutex, live, inits, calls>>

(* A handle counter that only one side of the API moves on. *)
IncrementBySenders(t) ==
    /\ At(t, "init", "loaded")
    /\ c_object_handle' =
           IF Top(t).kind = "send" THEN Top(t).loaded + 1 ELSE c_object_handle
    /\ Goto(t, "leave")
    /\ UNCHANGED <<efp_base_map, efp_mutex, live, inits, calls>>

IncrementStore(t) ==
    /\ At(t, "init", "loaded")
    /\ c_object_handle' = Top(t).loaded + 1
    /\ Goto(t, "leave")
    /\ UNCHANGED <<efp_base_map, efp_mutex, live, inits, calls>>

(* The object is found and works: it calls the callback of its owner, the  *)
(* receiver in mode RUN_TO_COMPLETION.                                     *)
Use(t, kind) ==
    /\ At(t, "use", "locked") /\ Top(t).kind = kind
    /\ Top(t).handle \in DOMAIN efp_base_map[kind]
    /\ stack' = [stack EXCEPT ![t][Len(stack[t])] =
           [@ EXCEPT !.callback = efp_base_map[kind][Top(t).handle],
                     !.pc = "callback"]]
    /\ UNCHANGED <<c_object_handle, efp_base_map, efp_mutex, live, inits, calls>>

EfpSendData(t) == Use(t, "send")
EfpReceiveFragment(t) == Use(t, "receive")

(* The object is destroyed but its entry stays. *)
EraseNothing(t, kind) ==
    /\ At(t, "end", "locked") /\ Top(t).kind = kind
    /\ Goto(t, "leave")
    /\ UNCHANGED <<c_object_handle, efp_base_map, efp_mutex, live, inits, calls>>

(* The entry goes, and with it the object. *)
Erase(t, kind) ==
    /\ At(t, "end", "locked") /\ Top(t).kind = kind
    /\ efp_base_map' = [efp_base_map EXCEPT ![kind] =
           [h \in DOMAIN @ \ {Top(t).handle} |-> @[h]]]
    /\ Goto(t, "leave")
    /\ UNCHANGED <<c_object_handle, efp_mutex, live, inits, calls>>

EfpEndSend(t) == Erase(t, "send")
EfpEndReceive(t) == Erase(t, "receive")

(* The call returns, and with it its lock_guard. *)
Return(t) ==
    /\ Busy(t) /\ Top(t).pc = "leave"
    /\ efp_mutex' = [efp_mutex EXCEPT ![MutexOf(Top(t).kind)] = Nobody]
    /\ live' = IF Top(t).fn = "init"
               THEN live \cup {[kind |-> Top(t).kind, handle |-> Top(t).handle,
                                callback |-> Top(t).callback]}
               ELSE live
    /\ stack' = [stack EXCEPT ![t] = Pop(t)]
    /\ UNCHANGED <<c_object_handle, efp_base_map, inits, calls>>

Run(t) ==
    \/ CallbackUses(t) \/ CallbackReturns(t)
    \/ Lock(t) \/ Return(t)
    \/ EfpInitSend(t) \/ EfpInitReceive(t)
    \/ IncrementLoad(t) \/ IncrementStore(t)
    \/ EfpSendData(t) \/ EfpReceiveFragment(t)
    \/ EfpEndSend(t) \/ EfpEndReceive(t)

Next == \E t \in Threads : AppInit(t) \/ AppUse(t) \/ AppEnd(t) \/ Run(t)

Spec == Init /\ [][Next]_vars

(* A thread inside the API is scheduled, and a callback returns. *)
FairSpec == Spec /\ \A t \in Threads : WF_vars(Run(t))

(***************************************************************************)
(* Correctness.                                                            *)
(***************************************************************************)

(* "the object ID created during init to be used when calling the other    *)
(* methods": as long as an object is not ended, its handle finds it and no *)
(* other one: with the callback its owner gave.                            *)
HandleNamesItsObject ==
    \A o \in live :
        /\ o.handle \in DOMAIN efp_base_map[o.kind]
        /\ efp_base_map[o.kind][o.handle] = o.callback

(* What efp_end_send and efp_end_receive ended is gone from the maps, for  *)
(* nothing else collects it: an entry belongs to a live object or to a     *)
(* call of init or end that is under way.                                  *)
EndedAreCollected ==
    \A kind \in Kinds : \A h \in DOMAIN efp_base_map[kind] :
        \/ \E o \in live : o.kind = kind /\ o.handle = h
        \/ \E t \in Threads : Busy(t) /\ stack[t][1].fn # "use"
              /\ stack[t][1].kind = kind /\ stack[t][1].handle = h

(* Every call of the API returns, whatever the other threads call and      *)
(* although a send callback calls efp_receive_fragment under both mutexes: *)
(* no two threads take the mutexes in opposite orders.                     *)
EveryCallReturns == \A t \in Threads : Busy(t) ~> ~Busy(t)
=============================================================================
