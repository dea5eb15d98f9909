# A TLA+ model of the Elastic Frame Protocol

EFP cuts a packet (a *superframe*) into fragments that fit the MTU of a
transport, and puts superframes together again from fragments that may come
late, twice, out of order or not at all. These modules model the sender and the
receiver of `src/ElasticFrameProtocol.{h,cpp}`; TLC checks them on small
instances, among them that both modes of the receiver implement one abstract
channel, and TLAPS proves every invariant and every refinement that the passing
runs check, for every value of the constants within the assumptions listed below.
Names of variables, operators and actions are those of the code where TLA+ allows it.
Line numbers are those of `src/ElasticFrameProtocol.cpp` unless another file is named.

## The system

| component | state | operations | modelled in |
|---|---|---|---|
| sender | `mCurrentMTU`, `mSuperFrameNoGenerator` | `packAndSend`, `packAndSendFromPtr`, `setSuperFrameNo` | `Sender` |
| superframe counter | `mOldSuperFrameNumber`, `mSuperFrameRecalc`, `mSuperFrameFirstTime` | `superFrameRecalculator` | `SuperFrameCounter`, `CounterTracking` |
| bucket assembly | `mBucketList`, `mBucketMap`, `mStreams` | `unpackType1`, `unpackType2`, `unpackType3` | `Assembly` |
| delivery, run to completion | `mDeliveryHOLFirstRun`, `mNextExpectedFrameNumber` | `receiveFragment`, `runToCompletionMethod` | `DeliveryPass`, `RunToCompletion` |
| delivery, threaded | the same, `mSuperFrameQueue`, `mSuperFrameReady`, the thread flags | `receiveFragment`, `receiverWorker`, `deliveryWorker`, `stopReceiver`, the destructor | `DeliveryPass`, `ThreadedReceiver` |
| transport | fragments under way | lose, repeat, reorder | `Link`, `Clock` (environment) |
| zero-copy sender | as the sender, and the caller's buffer | `destructivePackAndSendFromPtr` | `ZeroCopySender` |
| embedded data | none | `addEmbeddedData`, `efp_add_embedded_data`, `extractEmbeddedData`, `gotData` | `Embedded` |
| C API | two handle maps, two mutexes, `c_object_handle` | `efp_init_send` ... `efp_end_receive` | `CApi`, `ThreadedReceiver` |
| bindings and examples | none of the protocol's | the order of calls of `efp_c_api/main.c`, in `CApi` | partly |
| logging, unit tests, build | none | | not modelled |

How they interact. The sender calls `sendCallback` once per fragment, and the
application carries the bytes to `receiveFragment` with a source number.
`receiveFragment` unpacks the fragment into the bucket of its superframe, a slot
of a ring chosen by the low bits of the 16 bit superframe number, and enters a
newly opened bucket into `mBucketMap` under its 64 bit delivery order. In mode
`RUN_TO_COMPLETION` the same call then runs a pass over the map and calls the
application back with what is due. In mode `THREADED`, `receiverWorker` runs the
pass every 10 ms under `mNetMtx` and moves what is due into `mSuperFrameQueue`,
and `deliveryWorker` takes superframes from there and calls the application.
With a head-of-line (HOL) time-out a pass delivers in order and stops at the
first superframe that is not due.

What is hard:

- *ordering and loss*: three kinds of fragments, each of which may be the one
  that opens the bucket, in any order, any number of times;
- *numbers*: a 16 bit number that wraps widened to an order that must not;
  sizes and counts at the edges of 16 and 32 bits;
- *time-outs* against late fragments, and the head that moves with them;
- *reuse* of a slot, whose last order decides what is "too old";
- *threads*: a worker, a delivery thread, receiving threads and a stop, with
  three mutexes, a condition variable and atomic flags;
- *the life of a receiver*: its destructor under a mutex of the C API that a
  callback may need;
- *buffers written and read at once*: headers over a packet not yet sent, and
  headers read where there may be none.

What makes the components correct:

- sender: every byte exactly once, positions without gaps, no fragment over the
  MTU, self checks that never fire, no number lost on an error path;
- counter: the order is the number in the stream, whatever wraps;
- assembly: map and ring agree, the count of fragments is the number of distinct
  positions, writes stay in the buffer, an intact superframe is the packet sent;
- delivery: at most once, in order with HOL, not given up early, nothing due
  left behind, "too old" only after a delivery;
- threads: no lost wake-up, no superframe left in the queue, everything accepted
  is delivered in the end, the threads end when they are told to, with one callback
  more at most;
- zero-copy sender: the same fragments, no byte overwritten before it was sent;
- embedded data: what was embedded comes back, and whatever a header says, the
  application is shown the packet and nothing else;
- C API: a handle names one object, what was ended is collected, calls return.

Together, both modes of the receiver promise one thing, stated in `FrameChannel`:
a channel that takes packets and hands each over at most once, intact or broken,
and in order if there is a head-of-line time-out.

## The modules

`Widths` gives the unsigned types by the number of their values (`U16Mod`,
`U32Mod`, `U64Mod`) and reads 16 bits as signed; `Contents` has the contents and
codes the protocol tells apart. `Clock` is `steady_clock`.

`Sender` has one action per way out of `packAndSendFromPtr`.
`PackMessage` are the early returns in their order, `PackAndSendRejected` a call
that takes one, `PackAndSendAccepted` the rest of the function; `FragmentsOf`
computes the fragments with the function's own arithmetic, including the
`uint16_t` casts. A fragment is a record: its position `frag`, the last position
`of`, and the part of the packet it carries as `off` and `len`. `sent` is a
history of what went out. Fragments of one call leave at one instant: how they
interleave with others is the link's business. The flags of the header, which
both sides only copy, are left out, and so are the send buffers, which hold
nothing between calls.

`ZeroCopySender` extends `Sender` by `destructivePackAndSendFromPtr`, one step per
`rSendFunction`, so that the calls of several senders interleave. Offsets name the
bytes of the buffer, negative ones the room before the packet. `Emit` writes a
header before `lDataPointer` and lets `rSendFunction` read the header and what
follows; `overwritten` are the bytes headers were written to, and a fragment's
`polluted` those of its payload among them when it is read. `Begin` takes only
calls that pass the checks, which are the same as those of `packAndSendFromPtr`;
a call that does not returns at once as `PackAndSendRejected` does.

`SuperFrameCounter` is `superFrameRecalculator`. `CounterTracking` composes it
with a stream counted without end: `truth` is the number seen last in full,
`base` what it exceeds its order by.

`Assembly` is the three unpack methods. They differ in where a fragment's
position and sizes come from (`FragmentSize`, `ReserveThis`, `FrameSizeOnOpen`,
`FrameSizeOnAccept`) and are otherwise the same code, so there is one disjunct
per way through them: `Truncated`, `TooOldFragment`, `OpenBucket`,
`OpenWithoutMemory`, `OpenOutOfBounds`, `OutOfResources`, `OutOfBounds`,
`DuplicatePacket`, `AcceptFragment`. The bytes of a bucket are a set of
*chunks*, each naming the position it was copied to and the bytes of which
packet it holds; `cap` is the size allocated. A closed bucket keeps only what
the code reads of it later, its `mDeliveryOrder`.

`DeliveryPass` is the loop that `runToCompletionMethod` (448-541) and
`receiverWorker` (622-730) have in common, one step per bucket visited: `todo` is
what the iterator has still to visit. The buckets delivered stay active until
`CloseDelivered`, as in the code.

`RunToCompletion` composes senders, link and a receiver whose
`receiveFragment` is `ReceiveFragment`, `StartPass`, the visits and `Return`.
Calls hold `mReceiveMtx` and do not overlap; clock and senders run meanwhile.
`Noise` is a set of fragments that no sender of the model made.

`ThreadedReceiver` composes the same parts with the threads. A step is the code
between two points where another thread can see the state:

| action | code |
|---|---|
| `WorkerSample` | the loop test and the planned instant `lTimeSample + lTimeCompensation` (583-609) |
| `WorkerLock` | taking `mNetMtx`, the empty map, the speculative head (611-647) |
| `WorkerEnqueue`, `WorkerNotify` | the section under `mSuperFrameMtx`, and the `notify_one` after it |
| `WorkerPassOver`, `WorkerClose`, `WorkerExit` | a bucket not due, the delete list and unlock, the end |
| `DeliveryLoop`, `DeliveryWait`, `DeliveryTake`, `DeliveryCallback` | loop test, `wait`, the section under the lock, the return from the callback (544-572) |
| `CallbackLocksMutex` | the callback calls a function of the C API that needs `efp_receive_mutex` |
| `SpuriousWakeup` | what `std::condition_variable` allows |
| `StopBegin`, `StopSignal`, `StopNotify`, `StopReturns` | `stopReceiver`, when the threads end in time (745-768) |
| `StopSleeps`, `StopPoll` | one round of its loop: the sleep, and the poll that is used up, the last of which gives up (759-766) |
| `Destroy` | `delete[] mBucketList` at the end of the destructor (61) |

`notify_one` reaches `deliveryWorker` only if it waits at that moment. `mNetMtx` is
held in the program counters "pass" and "notify", so `receiveFragment` cannot
interleave with a pass there. The destructor is the only caller of `stopReceiver`,
and whoever destroys a receiver receives no more with it; the C API sees to that
with `efp_receive_mutex`. With `CallbackLocks` the application's callback may call the
C API: it then cannot return while `efp_end_receive`, which holds that mutex, waits for
it in `stopReceiver`. The polls of `stopReceiver` are counted (`lLockProtect`, from
`MaxPolls`, 1000 in the code), and nothing is assumed of what the threads get done
between two of them: the last one gives up whatever the worker or the callback is
doing, and `Destroy` follows either way. What a thread does with the receiver after
that is undefined and not followed (`ReceiverExists`).

`FrameChannel` is the abstract specification: packets `offered` by sources and
what was `handed` to the application, with no fragments, buckets, numbers, clock
or threads. `HandedFrames` has the refinement mapping, shared by both receivers: the
packets offered are the calls accepted by `packAndSend`, and a delivered
superframe is seen as the packet its fields describe and the bytes it holds.
`RunToCompletion!IsFrameChannel` and `ThreadedReceiver!IsFrameChannel` state that
each implements it. The order promised is what the code gives: superframes older
than the first one handed over, to which the head was set, may follow it.

`Embedded` (`EmbeddedSpec`) models a packet as its embedded blocks and the size of
its payload. A block knows how far `ahead` of the payload it starts, which what is
put in front of it later does not change, and its position in the packet follows.
`AddEmbeddedData` and `EfpAddEmbeddedData` put a block in front, the latter with a
size cast to 16 bits; `GotData`, `ExtractOne` and `CallBack` are `gotData` and the
loop of `extractEmbeddedData`. Where the walk reads a header at a position that is
no block's, `HeadersAt` gives every header there is, for the bytes may say anything.

`CApi` has the C functions as sequences of steps between lock and return. The
counter `c_object_handle` is shared by functions under two different mutexes, so
its increment is a read (`IncrementLoad`) and a write (`IncrementStore`). Calls
nest: `stack` holds, per thread, the call in progress and the one its callback
makes. The application follows the order of `efp_c_api/main.c`: it uses a handle
while it is live, and ends it once.

`Link` is the environment: a fragment may be received any number of times, none
included, until it is older than `MaxDelay` or more than `Window` superframes
behind. `JoinBy` bounds the superframe at which a receiver tunes in.

Operators with a comment such as "A limit that uses all of uint16_t" directly
before the definition they resemble (`LargestPacketByMax` before
`LargestPacket`) are deliberate mistakes. No specification uses them; each was
put in place of the right definition to see that a property notices.

## What the runs show

All runs use 3 bit fragment and superframe numbers, a MTU of 5 bytes with
headers of 1 and 3 bytes, a clock tick for a millisecond, and 4 or 5 bit
stand-ins for the wide types; so a superframe number wraps at 8, a type1
fragment holds 4 bytes and a type2 fragment 2, and a remainder of 3 bytes needs a
type3 fragment.

| run | instance | properties |
|---|---|---|
| `counter` | numbers to 45: five wraps of the number, one of the order | `OrderIsNumber` |
| `sender` | 2 superframes, copied or zero-copy, all sizes 0..28 (27 is too large), every reserved argument, numbers from 0 and from the maximum | `SenderTypeOK`, `NumbersConsecutive`, `NoCalculationError`, `FragmentsCoverPacket`, `FragmentNoFitsBitset`, `SameFragments`, `HeadersInTheirRoom`, `IsSender` |
| `hol` | 3 superframes of 2 fragments, numbers from 0 or from 6, ring of 4, HOL | `IsFrameChannel`, `OrdersFollowTheStream`, `NothingDueIsKept`, `TooOldMeansDelivered`, `NoEarlyGiveUp`, `TypeOK` |
| `arrivals` | 2 superframes of 0, 2, 6 or 11 bytes: 1, 2 or 4 fragments of all types; ring of 2, stray fragments that contradict the bucket, no HOL | `DeliveredIsWhatWasSent`, `WritesInBounds`, `MapMatchesBuckets`, `FragmentsAccounted`, `NothingDueIsKept`, `NoEarlyGiveUp` |
| `threads` | 3 superframes of 2 fragments, sent together and received in the tick they are sent in, through worker, queue and delivery thread, HOL, fair threads | `IsFrameChannel`, `ReadyWhileQueued`, `TypeOK`, `NoEarlyGiveUp`, `AcceptedIsDelivered` |
| `life` | 2 superframes of one fragment, the destructor at any moment with 2 polls, a callback that may need the mutex of `efp_end_receive`, failing allocations, no HOL, fair threads | `ThreadsEnd`, `OneCallbackIsLeft`, `NoSleepThroughStop`, `NoLostWakeup`, `MapMatchesBuckets`, `IsFrameChannel` |
| `embedded` | up to 2 pieces of 0..5 bytes with a 2 bit size field, any flags and types, payloads of 0, 1 and 3 bytes, broken or not | `EmbeddedComesBack`, `CallbacksCoverPacket` |
| `handles` | 2 threads, up to 3 objects and 8 calls with their nested calls, one thread creates | `HandleNamesItsObject`, `EndedAreCollected`, `EveryCallReturns` |

Why the bounds are enough. The three superframes of `hol` and `threads` are the fewest
for which one is delivered before, one blocks and one waits behind it, or two are queued
and one is called back. In `threads` no fragment is delayed past its tick, in which it
still comes before, after and between any steps of the threads; delayed fragments meet
the threads in `life`, and the proof of `IsFrameChannel` covers any delay shorter than
both time-outs. Two fragments
are the fewest for which a superframe can be incomplete; that every type and order of
arrival is covered is the business of `arrivals`. Its four sizes are those that make a
type2 fragment alone, empty or not, a type1 and a type2 fragment, and all three types;
the sizes between, among them the one that leaves a type2 fragment of several without
payload, are left to the theorems. Its strays of type 1 carry 4 bytes, as type1
fragments of the sender do, and disagree in position, in the number of fragments or in
the superframe they name; fragments that disagree in size are in no run. Two polls are
the fewest of which the first is not the last; what a thread does between two polls is
not bounded, so more of them add nothing. Starting at number 6, the wrap from 7 to 0
lies between the second and the third superframe. A ring of 4 is longer than the window
of 3 superframes, as the ring of 8192 is meant to be; `arrivals` uses one of 2, which
two superframes fill. The delay of 1 tick in `hol` is shorter than both time-outs
together, which the order of `FrameChannel` needs: a fragment later than that finds its
superframe given up and the head behind it; four ticks leave time for both time-outs of
the last superframe. `CHECK_DEADLOCK FALSE` appears where the clock and the senders stop
at their bounds (`MaxNow`, `LastSend`, `MaxFrames`, `MaxCalls`) or a packet is handed
over, so that the model comes to rest; there a missing wake-up shows in
`AcceptedIsDelivered`, `ThreadsEnd` and `EveryCallReturns` instead. `counter` and
`sender` are checked for deadlock. In `embedded`, two blocks are the fewest with an
order, and sizes of 4 and 5 are those a 2 bit field cuts to 0 and 1. In `handles`, a
sender, a receiver and a third object are the fewest for a handle to be given out after
one that was ended.

Fairness. `ThreadedReceiver!FairSpec`, for `threads` and `life`: the two threads are
scheduled, the clock goes on, a destructor that has begun goes on. `deliveryWorker`
being scheduled includes that the application's callback returns, which the API asks of
it, except, with `CallbackLocks`, while it waits for `efp_receive_mutex`. Nothing is
assumed of the link, the senders, spurious wake-ups, of whether the receiver is
destroyed, and of whether the callback or the worker is done before the polls are used
up. Nor need the polls go on: a loop with a limit ends in any case, and `ThreadsEnd` is
to say that the threads do not rest on the limit. `CApi!FairSpec`, for `handles`: a
thread inside the API is scheduled, and gets a mutex that stays free; a callback
returns. Weak fairness is enough for the mutexes because the calls are bounded.

### Where the code does not do what is written about it

Each of these has a run of one property that TLC refutes.

- `head_moves_back`: when a late superframe times out, line 502 (and 692) sets
  the head to its order plus one, *behind* superframes already delivered. The
  next superframe, though complete, is then not "expected", and waits for its
  own time-outs. `src/README.md:66` speaks of moving the head forward, line 483
  of jumping ahead.
- `stale_code`: a superframe without its type2 fragment is delivered with the
  code of an earlier one; the comment at lines 306-307 says with an illegal one.
- `left_behind`: `stopReceiver` gives up after its polls, for instance when a callback
  takes longer than a second or waits for the mutex of `efp_end_receive`. The
  destructor logs it and frees the receiver (61), to which `deliveryWorker` comes back
  from the callback. Line 54 says "If our worker is active we need to stop it."; line
  762 accepts the exit of `stopReceiver`, not the `delete[]` after it.
- `handles_unique`: with two threads that create objects, `efp_init_send` and
  `efp_init_receive` increment `c_object_handle` under different mutexes. One
  increment is lost, the next object of the same kind gets a handle that is taken,
  `std::map::insert` keeps the old object, and its callback is overwritten with the
  new owner's: both owners hold the handle of one object. The header promises "the
  object ID created during init" (`elastic_frame_protocol_c_api.h:42`). The passing run
  `handles` lets one thread create objects and any thread use and end them.

More limits are plain from the code, and the passing runs and the theorems stay
within them:

- a receiver that tunes in at number 0 computes order `UINT64_MAX` for the
  superframe before it, which is also the initial `mDeliveryOrder` of its bucket
  (`src/ElasticFrameProtocol.h:568`), so it is refused as too old although it was
  never delivered. With `JoinBy = 2` the superframes numbered 0 that may be first
  have none before them; with `StartNumbers = {7}` TLC finds `TooOldMeansDelivered`
  violated;
- `efp_send_data` and the other functions of the C API dereference the end
  iterator for a handle that is not there (1339, 1382, 1391, 1404); the application
  of `CApi` does not use one;
- a receive callback in run-to-completion mode that calls `efp_send_data`, and a
  send callback that calls `efp_receive_fragment`, on two threads, take the two
  mutexes in opposite orders and may block each other; `CApi` can show it
  with `ReceiveCallbackSends = TRUE`, the run has it `FALSE`, so that `EveryCallReturns`
  says nothing of that deadlock;
- the C header counts the time-outs of `efp_init_receive` in units of 10 ms
  (`elastic_frame_protocol_c_api.h:49`), the code takes milliseconds;
- a bucket is found by the superframe number alone (129), so that two sources
  that use the same number at the same time share it; the runs have one source;
- `mStreams` has 255 entries (`src/ElasticFrameProtocol.h:619`) and the sender
  accepts stream 255; the theorems assume `StreamsHaveEntries`;
- milliseconds times 1000 is computed in `uint32_t` (156, 481, 671);
  `BucketTimeout` and `HolTimeout` model the wrap, the runs' time-outs are below it.

## What is proved

A proof module extends the component it is about. `ModuloLemmas` has the facts
about `%` that the provers do not know: a remainder of a sum, and of a
remainder by a multiple.

### The sender

`CounterTracking_proofs`: `Spec => []OrderIsNumber`, for all widths and all
natural numbers. The invariant is `OrderIsNumber` with the types of `truth`
and `base`. The step is that `Int16` of a difference of two numbers less than
half the range apart is that difference (`Int16IsDistance`).

`Sender_proofs`: the five properties of the sender, for every MTU, header size
and set of calls. The arithmetic rests on `CountOfType1`: a packet within
`LargestPacket` has fewer than 2^16 type1 fragments, so the casts lose nothing.
From it `FragmentFacts` tells what each position carries, `PieceOfByte` which
position carries a byte, and `PacketCovered` that each byte has exactly one
carrier. `NumbersConsecutive` is not inductive: the invariant adds that the next
number follows the last superframe sent, and `NumberedFromFirst`, that each number
is the first one plus the place in the stream.

`ZeroCopySender_proofs`: `ZeroCopySpec => SenderSpec`, a refinement for every MTU,
header sizes and packet. The invariant says where a call in progress is: behind
the type1 fragments sent so far, or at the end of the packet once the type3
fragment is sent; from it the self checks before the closing fragment never fire
(`NeverMiscalculated`), so every call ends as a `PackAndSendAccepted` step.
`HeadersInTheirRoom` adds that every header of a call in progress was written in
front of bytes already sent, or in the caller's room (`RoomInv`), and
`SameFragments` that what it has sent so far are the first fragments of the copying
sender, unspoilt (`OutInv`): the header written last never reaches a byte that is
still to be sent. The type invariant comes over from the Sender by the refinement.

### The receiver

`HandedFrames_proofs` has what the two modes of the receiver share.

- `AssemblyInv` is kept by every way through the unpack methods
  (`UnpackKeepsAssemblyInv`). `MapMatchesBuckets` is not inductive: the order under
  which a bucket is entered might belong to another one. It cannot, because an order
  modulo the ring size is the slot (`OrdersKeepToTheirSlot`), which needs the
  counter's low bits to be the number seen last (`CounterFollowsNumber`) and the
  ring to divide 2^16.
- Each step of a pass keeps the iterator and the delete list inside the map. That
  the map has a least key rests on well-founded induction.
- `BucketsSound`: every active bucket holds, at the right positions, exactly the
  fragments it marks as received, of one superframe, and the sizes, time stamps
  and content that these fragments tell (`Holds`). Whichever of the three types
  comes first sizes the bucket differently, so `OpenSizes` and `LaterSize` go
  through them. When a bucket counts as complete it has them all, and so the
  packet (`HandedIsSent`).
- `TimeOutsSet`: the time-out of an active bucket is the instant it was opened
  plus the bucket time-out.
- `Ordered`: what the receivers know of the superframes handed over so far. It is
  stated of a sequence, which is `delivered` in one mode and `Handed`, with what is
  in the callback and in the queue, in the other; each part leans on the one before.
  - `OrdersKept`: the counter, the buckets and what was handed over name superframes
    of the stream, and the order of the n-th is `Ord(n, base)`, for one `base` that
    the first number received fixes.
  - `HandedOnce`: no order twice. While the pass runs the map still has the order;
    afterwards the closed bucket remembers it; and once another superframe has taken
    that bucket, the link's window is past it (`Passed`). This is where the ring has
    to be as long as the window.
  - `HandedInOrder`: a superframe between two handed over that was itself left out
    is in no bucket and no longer under way. The head passed it over only when a later
    one had waited for both its time-outs, and those outlast the delay of the link.
- `ClosedWereHanded`: a closed bucket that was used holds the order of a superframe
  handed over, and so `tooOldFragment` is right (`TooOldWasHanded`).
- `HandedAsPromised` and `HandedStays`: a superframe handed over is, through the
  refinement mapping, the packet offered in its place, and remains so when more are
  offered.

`RunToCompletion_proofs`: `TypeOK`, `MapMatchesBuckets` and `FragmentsAccounted`
for any number of senders, any ring, any time-outs, any noise of well-formed
fragments. `DeliveredIsWhatWasSent` and `WritesInBounds` follow from
`BucketsSound`. `NoEarlyGiveUp` follows from `TimeOutsSet`. `NothingDueIsKept`
needs an invariant of the pass (`PassLeaves`): what the iterator has left behind is
not due, and, with HOL, was passed over only behind one that is not due.
`OrdersFollowTheStream` needs that everything the receiver was told, the counter, the
buckets and what was delivered, keeps one distance between orders and places in the
stream, the `base` that the first number sets (`OrdersKept`). `IsFrameChannel` is the
refinement: a visit that delivers is `Hand` of the superframe the bucket held
(`DeliverIsHand`), an accepted `packAndSend` is `Offer`, every other step a stutter.
`TooOldMeansDelivered` follows from `ClosedWereHanded`.

`ThreadedReceiver_proofs`: `ReadyWhileQueued`, `NoLostWakeup`, `NoSleepThroughStop` from
an invariant of control alone: that `mThreadActive` is clear once the stop has begun,
and that `mSuperFrameReady` stays set once the stop has set it, unless `deliveryWorker`
took the flag and must meet the loop test first. `OneCallbackIsLeft`: once
`mThreadActive` is clear a callback is followed by the loop test (`LastCallback`) and
that by the end of the loop (`PastCallbacks`), whatever the queue holds. `TypeOK`,
`MapMatchesBuckets` and `NoEarlyGiveUp` as above, the last for what is handed over, in
the callback or queued. `IsFrameChannel`: `WorkerEnqueue` appends to `Handed` and
`DeliveryTake` and `DeliveryCallback` leave it as it is (`EnqueueAppends`,
`DeliveryMovesOn`), so `Handed` satisfies `Ordered` under every interleaving. The
channel sees a superframe only when the callback has it; that it is then its turn needs
more than `Ordered`, which speaks of all of `Handed`: each prefix of it is in order too
(`InSequence`).

### Above the receiver

`Api_proofs`: `EmbeddedComesBack` and `CallbacksCoverPacket` for any number and sizes of
embedded blocks. What the walk collected lies side by side from the first byte to its
position whatever the headers say (`SideBySide`); if they are as documented it stands at
a block (`AtBlock`), and the blocks lie without a gap before the payload (`Layout`).
`HandleNamesItsObject` and `EndedAreCollected` for any number of threads, calls and
nested calls: a handle in the map belongs to a live object or to the call that makes or
ends it (`Collected`), an object being made has a handle no other one has (`MadeOnce`),
and an object is ended by one call (`EndsItsOwn`).

### Assumptions

Those on the constants are stated in the modules: widths are even and nested, the
ring divides the 16 bit range, headers fit the MTU, the MTU is a `uint16_t`. The
theorems that need more say so, and name them. The passing runs that check a property
stay within what its theorem assumes, but for one: `arrivals` checks `WritesInBounds`
with strays, all of the usual length, and the theorem has none.

| assumption | meaning and reason |
|---|---|
| `StreamsHaveEntries` | no stream number without an entry in `mStreams`; the code leaves this to the application |
| `OneSource` | one sender; a bucket is found by the superframe number alone, so two sources that use the same number share it |
| `NumbersSuffice` | no more than 2^16 superframes, so that no two have the same number; the code relies on a fragment not coming back a whole turn of the number later |
| `StreamWithinReach` | no more than 2^15 superframes, the range of the `int16_t` in `superFrameRecalculator`: the receiver may then be told any two of them one after the other |
| `RingOutlastsWindow` | the ring is at least as long as the link's window: a fragment comes before as many superframes as there are buckets (8192) have been sent after its own. Otherwise a bucket forgets what it delivered while it can still be sent again |
| `HeadOutlastsDelay` | for the order with HOL: both time-outs together are longer than the link delays a fragment. A fragment later than that is of a superframe given up, and is opened again behind the head |
| `JoinsBeforeWrap` | for the order with HOL and for `TooOldMeansDelivered`: the stream's first number plus `JoinBy` is not past the wrap, so that no superframe before the first one received has an order below 0; see the limit above |
| `AllocMayFail = FALSE` | for `TooOldMeansDelivered`: a bucket that could not allocate is closed with an order nobody was given |
| `NoiseLeavesTraces` | a stray fragment carries at least one byte, so that a superframe it spoils can be told |
| `Noise = {}` | fragments come from the sender; a stray number moves the receiver's counter anywhere |
| `TimeOutsFit` | time-outs of less than 2^32 microseconds; the code computes them in `uint32_t` |
| `OneCreatingThread` | one thread creates objects; with two, `handles_unique` shows the property violated |

### Only model-checked

Liveness (`AcceptedIsDelivered`, `ThreadsEnd`, `EveryCallReturns`), which is
out of the prover's reach, and the runs that show a violation. Every invariant
and every refinement of the passing runs is proved; what the proofs cannot say is
that the hypotheses can be met and the steps happen, for which the runs stand, each
with every disjunct of its next-state relation taken.

## What is not modelled

Callbacks that call back into the object whose mutex their thread holds, which
deadlocks at once; what happens to a callback that outlives its receiver, which is
undefined; `receiveFragment`'s returns before unpacking (type 0, unknown type,
short header), which change nothing; the constructors' choice of the MTU and mode;
payload bytes, flags other than `INLINE_PAYLOAD`, and logging. Restarted senders are
not modelled apart from `setSuperFrameNo` before the first superframe. The Go binding
and `main.cpp` only call the API; the unit tests and the build are no part of the
program.

## Plan

1. More than one source: the order of each stream, for sources whose numbers in use
   do not meet in the ring, in place of `OneSource`.
2. Restart of a sender, and more superframes lost than the counter can bridge: what
   remains true of a receiver when `StreamWithinReach` fails, and when it recovers.
3. The bound that `AcceptedIsDelivered` leaves open, as a safety property to be
   proved: no active bucket is older than its time-outs and one sleep of the worker.
