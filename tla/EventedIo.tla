----------------------------- MODULE EventedIo -----------------------------
(***************************************************************************)
(* shclog::io::iouring::EventedIo (include/shclog/io/iouring.hpp:101-704): *)
(* the submission and completion rings one application thread shares with  *)
(* the kernel.                                                             *)
(*                                                                         *)
(* The three push_ functions differ in the fields they fill and the three  *)
(* pop_ functions in how they name an errno; here a push carries a request *)
(* and a pop returns the request whose completion it consumed.  No         *)
(* user_data is set, so that is all that ties one to the other.            *)
(*                                                                         *)
(* The kernel is external, and modelled from what io_uring_enter and the   *)
(* rings do in the modes the code asks for.  With SqPoll the thread that   *)
(* drains the submission ring runs on its own, and the store of sq_tail is *)
(* not ordered before the load of sq_flags that follows it (a release      *)
(* store, then a plain load: lines 684-686): seenTail is what that thread  *)
(* sees.  Ring indices are u32; they wrap at W here.                       *)
(***************************************************************************)
EXTENDS Integers, Sequences, FiniteSets, SequencesExt

CONSTANTS Reqs,          \* requests: buffers with a target, reused once popped
          NULL,
          Created,       \* what create was called with: <<SqPoll, capacity>> pairs
          W,             \* where u32 wraps (bound; 2^32 in the code)
          MaxFailures    \* failing calls of io_uring_enter (bound)

PowerOfTwo(n) == \E k \in 0..n : n = 2^k

\* create() refuses another capacity (line 139); the rings' sizes, both powers of
\* two, divide the indices' range.
ASSUME CreatedAssumption ==
    \A c \in Created :
        /\ c[1] \in BOOLEAN /\ c[2] \in Nat /\ c[2] >= 1 /\ PowerOfTwo(c[2])
        /\ W >= 4 * c[2] /\ W % (2 * c[2]) = 0
ASSUME BoundsAssumption ==
    /\ W \in Nat /\ PowerOfTwo(W) /\ MaxFailures \in Nat
    /\ IsFiniteSet(Reqs) /\ NULL \notin Reqs

VARIABLES
    ring,         \* the constant members: is_sq_poll and sq_mask + 1
    sqHead, sqTail, sqes, sqArray,    \* the submission ring
    cqHead, cqTail, cqes,             \* the completion ring
    needWakeup,   \* IORING_SQ_NEED_WAKEUP in sq_flags
    seenTail,     \* sq_tail as the kernel's submission thread sees it
    poller,       \* that thread: "run", "arm" (flag set, will look again), "asleep"
    inflight,     \* requests the kernel took and has not completed
    overflow,     \* completions that found no room in the ring
    app,          \* where the application thread is
    req,          \* the request it is pushing
    free,         \* requests the application may push
    owed,         \* history: pushes that returned Success and were not popped
    latest,       \* history: the request of the latest of them, or NULL if
                  \* another one was owed then or a pop came after
    failures,     \* history: calls of io_uring_enter that failed
    stranded      \* history: pushes among them (PushResult::WakeFailed)

sqVars == <<sqHead, sqTail, sqes, sqArray, seenTail>>
cqVars == <<cqHead, cqTail, cqes, overflow>>
kernelVars == <<needWakeup, poller, inflight>>
callerVars == <<ring, free, owed, latest, failures, stranded>>
vars == <<sqVars, cqVars, kernelVars, app, req, callerVars>>

Entries == ring.sq_mask + 1
CqEntries == 2 * Entries      \* what the kernel allocates by default

\* Mutant of Plus1: an index that is not reduced to the width of u32.
Plus1_NoWrap(i) == i + 1

Plus1(i) == (i + 1) % W
Between(a, b) == (b - a) % W           \* u32 subtraction b - a
Index(i, size) == i % size             \* i & mask

TypeOK ==
    /\ ring \in [is_sq_poll : BOOLEAN, sq_mask : {c[2] - 1 : c \in Created}]
    /\ {sqHead, sqTail, seenTail, cqHead, cqTail} \subseteq 0..(W - 1)
    /\ sqes \in [0..(Entries - 1) -> Reqs \cup {NULL}]
    /\ sqArray \in [0..(Entries - 1) -> 0..(Entries - 1)]
    /\ cqes \in [0..(CqEntries - 1) -> Reqs \cup {NULL}]
    /\ needWakeup \in BOOLEAN
    /\ poller \in {"run", "arm", "asleep"}
    /\ inflight \subseteq Reqs /\ free \subseteq Reqs
    /\ overflow \in Seq(Reqs)
    /\ app \in {"idle", "fill", "publish", "flags", "wake", "enter", "wait", "reap"}
    /\ {req, latest} \subseteq Reqs \cup {NULL}
    /\ owed \in 0..Cardinality(Reqs)
    /\ failures \in 0..MaxFailures /\ stranded \in 0..failures

Init ==
    /\ \E c \in Created : ring = [is_sq_poll |-> c[1], sq_mask |-> c[2] - 1]
    /\ sqHead = 0 /\ sqTail = 0 /\ seenTail = 0 /\ cqHead = 0 /\ cqTail = 0
    /\ sqes = [i \in 0..(Entries - 1) |-> NULL]
    /\ sqArray = [i \in 0..(Entries - 1) |-> 0]
    /\ cqes = [i \in 0..(CqEntries - 1) |-> NULL]
    /\ needWakeup = FALSE /\ poller = "run"
    /\ inflight = {} /\ overflow = <<>>
    /\ app = "idle" /\ req = NULL
    /\ free = Reqs
    /\ owed = 0 /\ latest = NULL
    /\ failures = 0 /\ stranded = 0

-----------------------------------------------------------------------------
(* push_write, push_writev, push_read *)

\* Mutant of PushSlot: a full ring is taken to have room.
PushSlot_OffByOne ==
    /\ app = "idle"
    /\ Between(sqHead, sqTail) <= Entries
    /\ \E r \in free : req' = r /\ free' = free \ {r}
    /\ app' = "fill"
    /\ UNCHANGED <<sqVars, cqVars, kernelVars, ring, owed, latest, failures, stranded>>

\* next_sq_slot.  When the ring is full the push returns QueueIsFull and
\* changes nothing.
PushSlot ==
    /\ app = "idle"
    /\ Between(sqHead, sqTail) < Entries
    /\ \E r \in free : req' = r /\ free' = free \ {r}
    /\ app' = "fill"
    /\ UNCHANGED <<sqVars, cqVars, kernelVars, ring, owed, latest, failures, stranded>>

\* Fill the entry of the slot.
PushFill ==
    /\ app = "fill"
    /\ sqes' = [sqes EXCEPT ![Index(sqTail, Entries)] = req]
    /\ app' = "publish"
    /\ UNCHANGED <<sqHead, sqTail, sqArray, seenTail, cqVars, kernelVars, req, callerVars>>

\* submit: sq_array[index] = index, then the release store of sq_tail.  The
\* application's own system calls see the store, another thread need not yet.
PushPublish ==
    /\ app = "publish"
    /\ sqArray' = [sqArray EXCEPT ![Index(sqTail, Entries)] = Index(sqTail, Entries)]
    /\ sqTail' = Plus1(sqTail)
    /\ seenTail' = IF ring.is_sq_poll THEN seenTail ELSE sqTail'
    /\ app' = IF ring.is_sq_poll THEN "flags" ELSE "enter"
    /\ UNCHANGED <<sqHead, sqes, cqVars, kernelVars, req, callerVars>>

\* The load of sq_flags at line 686.
PushFlags ==
    /\ app = "flags"
    /\ app' = IF needWakeup THEN "wake" ELSE "enter"
    /\ UNCHANGED <<sqVars, cqVars, kernelVars, req, callerVars>>

PushSucceeds ==
    /\ app' = "idle"
    /\ req' = NULL
    /\ owed' = owed + 1
    /\ latest' = IF owed = 0 THEN req ELSE NULL
    /\ UNCHANGED <<ring, free, failures, stranded>>

\* io_uring_enter with IORING_ENTER_SQ_WAKEUP.
PushWake ==
    /\ app = "wake"
    /\ seenTail' = sqTail
    /\ poller' = "run"
    /\ needWakeup' = FALSE
    /\ PushSucceeds
    /\ UNCHANGED <<sqHead, sqTail, sqes, sqArray, cqVars, inflight>>

\* The kernel takes the request of the oldest entry.
Consume ==
    /\ inflight' = inflight \cup {sqes[sqArray[Index(sqHead, Entries)]]}
    /\ sqHead' = Plus1(sqHead)

\* io_uring_enter with to_submit = 1: takes one entry, or with a submission
\* thread nothing.
PushEnter ==
    /\ app = "enter"
    /\ IF ring.is_sq_poll THEN UNCHANGED <<inflight, sqHead>> ELSE Consume
    /\ seenTail' = sqTail
    /\ PushSucceeds
    /\ UNCHANGED <<sqTail, sqes, sqArray, cqVars, needWakeup, poller>>

\* The system call returns an error.
EnterFails ==
    /\ failures < MaxFailures
    /\ failures' = failures + 1

\* Mutant of PushFails: the result of io_uring_enter is ignored.
PushFails_Ignored ==
    /\ app \in {"wake", "enter"}
    /\ EnterFails
    /\ seenTail' = sqTail
    /\ app' = "idle"
    /\ req' = NULL
    /\ owed' = owed + 1
    /\ latest' = IF owed = 0 THEN req ELSE NULL
    /\ UNCHANGED <<sqHead, sqTail, sqes, sqArray, cqVars, kernelVars, ring,
                   free, stranded>>

\* Either call fails: the push returns WakeFailed, the entry stays published.
PushFails ==
    /\ app \in {"wake", "enter"}
    /\ EnterFails
    /\ app' = "idle"
    /\ req' = NULL
    /\ seenTail' = sqTail
    /\ stranded' = stranded + 1
    /\ UNCHANGED <<sqHead, sqTail, sqes, sqArray, cqVars, kernelVars, ring,
                   free, owed, latest>>

-----------------------------------------------------------------------------
(* pop_write, pop_writev, pop_read: pop_one *)

\* Callers pop what they pushed: with nothing submitted the call never returns.
PopCall ==
    /\ app = "idle"
    /\ owed > 0
    /\ app' = "wait"
    /\ UNCHANGED <<sqVars, cqVars, kernelVars, req, callerVars>>

\* io_uring_enter with min_complete = 1 returns once a completion is there.
PopWait ==
    /\ app = "wait"
    /\ cqHead # cqTail
    /\ app' = "reap"
    /\ UNCHANGED <<sqVars, cqVars, kernelVars, req, callerVars>>

\* The call is interrupted or refused: CompletionCheckError.
PopFails ==
    /\ app = "wait"
    /\ EnterFails
    /\ app' = "idle"
    /\ UNCHANGED <<sqVars, cqVars, kernelVars, req, ring, free, owed, latest, stranded>>

\* Mutant of PopReap: cq_head is not advanced.
PopReap_Keep ==
    /\ app = "reap"
    /\ app' = "idle"
    /\ IF cqHead = cqTail
       THEN UNCHANGED <<free, latest, owed>>
       ELSE /\ free' = free \cup {cqes[Index(cqHead, CqEntries)]}
            /\ latest' = NULL
            /\ owed' = owed - 1
    /\ UNCHANGED <<sqVars, cqVars, kernelVars, req, ring, failures, stranded>>

\* Read the oldest completion and give its place back.  RingEmpty is returned when
\* there is none, which a single consumer does not meet behind PopWait.
PopReap ==
    /\ app = "reap"
    /\ app' = "idle"
    /\ IF cqHead = cqTail
       THEN UNCHANGED <<cqHead, free, latest, owed>>
       ELSE /\ free' = free \cup {cqes[Index(cqHead, CqEntries)]}
            /\ cqHead' = Plus1(cqHead)
            /\ latest' = NULL
            /\ owed' = owed - 1
    /\ UNCHANGED <<sqVars, cqTail, cqes, overflow, kernelVars, req, ring,
                   failures, stranded>>

-----------------------------------------------------------------------------
(* The kernel *)

\* A request completes, in any order.
Complete(r) ==
    /\ r \in inflight
    /\ inflight' = inflight \ {r}
    /\ IF overflow = <<>> /\ Between(cqHead, cqTail) < CqEntries
       THEN /\ cqes' = [cqes EXCEPT ![Index(cqTail, CqEntries)] = r]
            /\ cqTail' = Plus1(cqTail)
            /\ UNCHANGED overflow
       ELSE /\ overflow' = Append(overflow, r)
            /\ UNCHANGED <<cqes, cqTail>>
    /\ UNCHANGED <<sqVars, cqHead, needWakeup, poller, app, req, callerVars>>

\* A waiting io_uring_enter moves completions that found no room.
FlushOverflow ==
    /\ app = "wait"
    /\ overflow # <<>> /\ Between(cqHead, cqTail) < CqEntries
    /\ cqes' = [cqes EXCEPT ![Index(cqTail, CqEntries)] = Head(overflow)]
    /\ cqTail' = Plus1(cqTail)
    /\ overflow' = Tail(overflow)
    /\ UNCHANGED <<sqVars, cqHead, kernelVars, app, req, callerVars>>

\* The submission thread takes an entry, or announces that it will sleep and
\* looks at the ring once more.
PollTake ==
    /\ ring.is_sq_poll /\ poller = "run" /\ sqHead # seenTail
    /\ Consume
    /\ UNCHANGED <<sqTail, sqes, sqArray, seenTail, cqVars, needWakeup, poller, app,
                   req, callerVars>>

PollArm ==
    /\ ring.is_sq_poll /\ poller = "run" /\ sqHead = seenTail
    /\ needWakeup' = TRUE
    /\ poller' = "arm"
    /\ UNCHANGED <<sqVars, cqVars, inflight, app, req, callerVars>>

PollRecheck ==
    /\ ring.is_sq_poll /\ poller = "arm"
    /\ poller' = IF sqHead = seenTail THEN "asleep" ELSE "run"
    /\ needWakeup' = (sqHead = seenTail)
    /\ UNCHANGED <<sqVars, cqVars, inflight, app, req, callerVars>>

\* The store of sq_tail reaches the submission thread.
TailVisible ==
    /\ seenTail # sqTail
    /\ seenTail' = sqTail
    /\ UNCHANGED <<sqHead, sqTail, sqes, sqArray, cqVars, kernelVars, app, req, callerVars>>

PushStep == PushFill \/ PushPublish \/ PushFlags \/ PushWake \/ PushEnter
PopStep == PopWait \/ PopReap
Poller == PollTake \/ PollArm \/ PollRecheck

Next ==
    \/ PushSlot \/ PushStep \/ PushFails
    \/ PopCall \/ PopStep \/ PopFails
    \/ \E r \in Reqs : Complete(r)
    \/ FlushOverflow \/ Poller \/ TailVisible

Spec == Init /\ [][Next]_vars

\* A call that began goes on, stores become visible, and the kernel works.
FairSpec ==
    /\ Spec
    /\ WF_vars(PushStep) /\ WF_vars(PopStep) /\ WF_vars(Poller)
    /\ WF_vars(TailVisible) /\ WF_vars(FlushOverflow)
    /\ \A r \in Reqs : WF_vars(Complete(r))

-----------------------------------------------------------------------------
(* Properties *)

\* The requests of the entries from index a to index b of a ring.
Entry(slots, size, a, b) ==
    [k \in 1..Between(a, b) |-> slots[Index(a + k - 1, size)]]

Submitted == Entry([i \in DOMAIN sqes |-> sqes[sqArray[i]]], Entries, sqHead, sqTail)
Completed == Entry(cqes, CqEntries, cqHead, cqTail) \o overflow

Pushing == IF app \in {"fill", "publish"} THEN {req} ELSE {}
Places == <<Range(Submitted), Range(Completed), Pushing, inflight, free>>
Distinct(s) == \A j, k \in 1..Len(s) : s[j] = s[k] => j = k
Apart(sets) == \A j, k \in 1..Len(sets) : j # k => sets[j] \cap sets[k] = {}

\* A request handed to a push is in one place until a pop returns it: an entry
\* of the submission ring, the kernel, or a completion.  No entry is reused
\* before the kernel took it, no completion is lost or returned twice, also
\* when the indices wrap, a call fails or the completion ring overflows.
NoRequestLost ==
    /\ Distinct(Submitted) /\ Distinct(Completed)
    /\ Apart(Places) /\ UNION Range(Places) = Reqs

\* What the caller is owed is what it published and did not pop, less the pushes
\* that returned WakeFailed: their requests stay in play.  Without a submission
\* thread they stay in the ring, because each push submits one entry, the
\* oldest; after Entries failures every push returns QueueIsFull for good.
StrandedStay ==
    LET publishing == IF app \in {"flags", "wake", "enter"} THEN 1 ELSE 0
    IN  /\ Len(Submitted) + Cardinality(inflight) + Len(Completed)
             = owed + stranded + publishing
        /\ ~ring.is_sq_poll => Len(Submitted) = stranded + publishing

\* A caller that keeps one push outstanding, as the pipeline does, pops the
\* completion of that push, as long as no call has failed.
InOrderUntilFailure ==
    [][app = "reap" /\ app' = "idle" /\ latest # NULL /\ failures = 0
         => latest \in free']_vars

\* A pop of something a successful push submitted returns, as the test with a
\* submission thread expects of the pop behind its push (test_iouring.cpp:96-100).
PopReturns == (app = "wait") ~> (app # "wait")
=============================================================================
