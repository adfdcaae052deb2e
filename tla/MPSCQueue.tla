----------------------------- MODULE MPSCQueue -----------------------------
(***************************************************************************)
(* shclog::mpsc_queue::MPSCQueue, the bounded ring of atomic pointers of   *)
(* include/shclog/mpsc_queue.hpp:36-150.                                   *)
(*                                                                         *)
(* One action per atomic operation of enqueue and dequeue; code between    *)
(* two atomics touches only the calling thread's locals and moves with one *)
(* of them.  `count' admits producers, `head' hands out tickets, and a     *)
(* slot goes from nullptr to an item and back.  The three are updated one  *)
(* after the other, so every state between them is reachable here.         *)
(*                                                                         *)
(* head and the tickets are naturals: the code's are 64-bit and wrap, but  *)
(* they are only used as `h & buf_mask', which the wrap preserves because  *)
(* the capacity divides 2^64 (MPSCQueueProofs!SlotOfWrappedTicket).        *)
(* enqueue(nullptr) returns at once and changes nothing: no action.        *)
(***************************************************************************)
EXTENDS Integers, Sequences, FiniteSets

CONSTANTS Producers,   \* threads calling enqueue
          NULL,        \* nullptr
          max,         \* the capacity create() was given
          Quota        \* items each producer hands over (bound)

\* create() refuses a capacity below 2 or that is not a power of two
\* (mpsc_queue.hpp:72).
ValidCapacity(c) == c >= 2 /\ \E k \in 1..c : c = 2^k

ASSUME ProducersAssumption == IsFiniteSet(Producers)
ASSUME CapacityAssumption == max \in Nat /\ ValidCapacity(max)
ASSUME QuotaAssumption == Quota \in Nat
ASSUME NullAssumption == NULL \notin Producers \X (1..Quota)

Items == Producers \X (1..Quota)

VARIABLES
    count,   \* std::atomic<usize> count
    head,    \* std::atomic<usize> head
    buffer,  \* the slots: nullptr or an item
    tail,    \* the consumer's index
    phase,   \* "live"; "drain" in ~MPSCQueue; "gone" after it
    pc,      \* where each producer is in enqueue
    h,       \* the ticket each producer drew last
    cpc,     \* "release": the consumer exchanged a slot, count still includes it
    ret,     \* the item of the latest dequeue that returned one
    sent,    \* history: enqueues that returned true, per producer
    taken,   \* history: items exchanged out of the ring
    got      \* history: number of the last item taken from each producer

vars == <<count, head, buffer, tail, phase, pc, h, cpc, ret, sent, taken, got>>

Slots == 0..(max - 1)

\* h & buf_mask, for a power-of-two capacity.
Slot(t) == t % max

\* The item p holds in its unique_ptr during a call of enqueue.
Held(p) == <<p, sent[p] + 1>>

TypeOK ==
    /\ count \in Nat
    /\ head \in Nat
    /\ buffer \in [Slots -> Items \cup {NULL}]
    /\ tail \in Slots
    /\ phase \in {"live", "drain", "gone"}
    /\ pc \in [Producers -> {"idle", "check", "add", "sub", "ticket", "store"}]
    /\ h \in [Producers -> Nat]
    /\ cpc \in {"idle", "release"}
    /\ ret \in Items \cup {NULL}
    /\ sent \in [Producers -> 0..Quota]
    /\ taken \in Nat
    /\ got \in [Producers -> 0..Quota]

Init ==
    /\ count = 0
    /\ head = 0
    /\ buffer = [s \in Slots |-> NULL]
    /\ tail = 0
    /\ phase = "live"
    /\ pc = [p \in Producers |-> "idle"]
    /\ h = [p \in Producers |-> 0]
    /\ cpc = "idle"
    /\ ret = NULL
    /\ sent = [p \in Producers |-> 0]
    /\ taken = 0
    /\ got = [p \in Producers |-> 0]

-----------------------------------------------------------------------------
(* enqueue, by producer p *)

consumerVars == <<tail, cpc, ret, taken, got>>

\* p calls enqueue with its next item, or again with the one it still owns
\* after a call that returned false.
EnqCall(p) ==
    /\ phase = "live"
    /\ pc[p] = "idle"
    /\ sent[p] < Quota
    /\ pc' = [pc EXCEPT ![p] = "check"]
    /\ UNCHANGED <<count, head, buffer, phase, h, sent, consumerVars>>

\* Mutant of EnqCheck: no relaxed load, every call touches count.
EnqCheck_Absent(p) ==
    /\ pc[p] = "check"
    /\ pc' = [pc EXCEPT ![p] = "add"]
    /\ UNCHANGED <<count, head, buffer, phase, h, sent, consumerVars>>

\* The relaxed load that rejects without touching count.
EnqCheck(p) ==
    /\ pc[p] = "check"
    /\ pc' = [pc EXCEPT ![p] = IF count >= max THEN "idle" ELSE "add"]
    /\ UNCHANGED <<count, head, buffer, phase, h, sent, consumerVars>>

\* Mutant of EnqAdd: cur_count > max for cur_count >= max.
EnqAdd_OffByOne(p) ==
    /\ pc[p] = "add"
    /\ count' = count + 1
    /\ pc' = [pc EXCEPT ![p] = IF count > max THEN "sub" ELSE "ticket"]
    /\ UNCHANGED <<head, buffer, phase, h, sent, consumerVars>>

\* cur_count = count.fetch_add(1), and the test on cur_count.
EnqAdd(p) ==
    /\ pc[p] = "add"
    /\ count' = count + 1
    /\ pc' = [pc EXCEPT ![p] = IF count >= max THEN "sub" ELSE "ticket"]
    /\ UNCHANGED <<head, buffer, phase, h, sent, consumerVars>>

\* Mutant of EnqBackOff: the increment stays.
EnqBackOff_Forgotten(p) ==
    /\ pc[p] = "sub"
    /\ pc' = [pc EXCEPT ![p] = "idle"]
    /\ UNCHANGED <<count, head, buffer, phase, h, sent, consumerVars>>

\* No room: undo the increment and return false.
EnqBackOff(p) ==
    /\ pc[p] = "sub"
    /\ count' = count - 1
    /\ pc' = [pc EXCEPT ![p] = "idle"]
    /\ UNCHANGED <<head, buffer, phase, h, sent, consumerVars>>

\* Mutant of EnqTicket: h = ++head.
EnqTicket_PreIncrement(p) ==
    /\ pc[p] = "ticket"
    /\ h' = [h EXCEPT ![p] = head + 1]
    /\ head' = head + 1
    /\ pc' = [pc EXCEPT ![p] = "store"]
    /\ UNCHANGED <<count, buffer, phase, sent, consumerVars>>

\* h = head.fetch_add(1).
EnqTicket(p) ==
    /\ pc[p] = "ticket"
    /\ h' = [h EXCEPT ![p] = head]
    /\ head' = head + 1
    /\ pc' = [pc EXCEPT ![p] = "store"]
    /\ UNCHANGED <<count, buffer, phase, sent, consumerVars>>

\* Put the item in the slot of the ticket and return true.
EnqStore(p) ==
    /\ pc[p] = "store"
    /\ buffer' = [buffer EXCEPT ![Slot(h[p])] = Held(p)]
    /\ sent' = [sent EXCEPT ![p] = @ + 1]
    /\ pc' = [pc EXCEPT ![p] = "idle"]
    /\ UNCHANGED <<count, head, phase, h, consumerVars>>

Enqueue(p) ==
    \/ EnqCall(p)
    \/ EnqCheck(p)
    \/ EnqAdd(p)
    \/ EnqBackOff(p)
    \/ EnqTicket(p)
    \/ EnqStore(p)

-----------------------------------------------------------------------------
(* dequeue and the destructor, by the one consumer *)

producerVars == <<head, pc, h, sent>>

\* Mutant of DeqTake: tail++ without the mask.
DeqTake_NoMask ==
    /\ phase # "gone"
    /\ cpc = "idle"
    /\ buffer[tail] # NULL
    /\ ret' = buffer[tail]
    /\ buffer' = [buffer EXCEPT ![tail] = NULL]
    /\ tail' = tail + 1
    /\ cpc' = "release"
    /\ taken' = taken + 1
    /\ got' = [got EXCEPT ![buffer[tail][1]] = buffer[tail][2]]
    /\ UNCHANGED <<count, phase, producerVars>>

\* Mutant of DeqTake: a load where the code exchanges.
DeqTake_Load ==
    /\ phase # "gone"
    /\ cpc = "idle"
    /\ buffer[tail] # NULL
    /\ ret' = buffer[tail]
    /\ tail' = Slot(tail + 1)
    /\ cpc' = "release"
    /\ taken' = taken + 1
    /\ got' = [got EXCEPT ![buffer[tail][1]] = buffer[tail][2]]
    /\ UNCHANGED <<count, buffer, phase, producerVars>>

\* Exchange the tail slot with nullptr; on an item, advance the private tail.
DeqTake ==
    /\ phase # "gone"
    /\ cpc = "idle"
    /\ buffer[tail] # NULL
    /\ ret' = buffer[tail]
    /\ buffer' = [buffer EXCEPT ![tail] = NULL]
    /\ tail' = Slot(tail + 1)
    /\ cpc' = "release"
    /\ taken' = taken + 1
    /\ got' = [got EXCEPT ![buffer[tail][1]] = buffer[tail][2]]
    /\ UNCHANGED <<count, phase, producerVars>>

\* Give the room back and return the item.
DeqRelease ==
    /\ cpc = "release"
    /\ count' = count - 1
    /\ cpc' = "idle"
    /\ UNCHANGED <<buffer, tail, phase, ret, taken, got, producerVars>>

\* The owner destroys the queue once no thread is inside it.
Destroy ==
    /\ phase = "live"
    /\ cpc = "idle"
    /\ \A p \in Producers : pc[p] = "idle"
    /\ phase' = "drain"
    /\ UNCHANGED <<count, buffer, producerVars, consumerVars>>

\* Mutant of DrainEnd: a destructor that does not drain.
DrainEnd_Default ==
    /\ phase = "drain"
    /\ cpc = "idle"
    /\ phase' = "gone"
    /\ UNCHANGED <<count, buffer, producerVars, consumerVars>>

\* The destructor's loop ends on the first dequeue that finds a nullptr.
DrainEnd ==
    /\ phase = "drain"
    /\ cpc = "idle"
    /\ buffer[tail] = NULL
    /\ phase' = "gone"
    /\ UNCHANGED <<count, buffer, producerVars, consumerVars>>

Dequeue == DeqTake \/ DeqRelease

Next ==
    \/ \E p \in Producers : Enqueue(p)
    \/ Dequeue
    \/ Destroy
    \/ DrainEnd

Spec == Init /\ [][Next]_vars

\* Callers retry a rejected enqueue and an empty dequeue until they are done
\* (test_mpsc_queue.cpp, test_iouring.cpp), and every thread is scheduled.
FairSpec ==
    /\ Spec
    /\ \A p \in Producers : WF_vars(Enqueue(p))
    /\ WF_vars(Dequeue)

-----------------------------------------------------------------------------
(* Properties *)

AtStep(s) == {p \in Producers : pc[p] = s}

\* Increments of count without a ticket, increments about to be undone, and the
\* decrement the consumer owes between its exchange and its fetch_sub.
Admitted == AtStep("ticket")
Rejecting == AtStep("sub")
Owed == IF cpc = "release" THEN 1 ELSE 0

\* A producer about to store finds its slot empty (the assertion at line 121):
\* no interleaving of admissions, tickets and releases lets a ticket come round
\* to a slot whose item was not taken yet, which would leak that item.
NoOverwrite == \A p \in AtStep("store") : buffer[Slot(h[p])] = NULL

\* count is the items in the ring or promised to it, plus the increments about
\* to be undone and the decrement the consumer still owes.  With it neither
\* fetch_sub can wrap below zero (the assertion at line 140).
CountAccounts ==
    /\ count = (head - taken) + Cardinality(Admitted)
                 + Cardinality(Rejecting) + Owed
    /\ cpc = "release" => count > 0

\* A dequeue that finds nullptr was not wrong about the oldest ticket: either
\* every ticket was taken, or its producer is still before its store.
NullMeansPending ==
    cpc = "idle" /\ buffer[tail] = NULL =>
        \/ taken = head
        \/ \E p \in AtStep("store") : h[p] = taken

\* What is in the ring from a producer is exactly what it sent and was not yet
\* taken, in the order of the tickets, of which the one it holds is its last:
\* nothing is lost, duplicated, or overtaken by a later item.
InRing(p) == {n \in 1..Quota : \E s \in Slots : buffer[s] = <<p, n>>}

Holds(t, p) == buffer[Slot(t)] # NULL /\ buffer[Slot(t)][1] = p

InTicketOrder ==
    \A p \in Producers, t \in taken..(head - 1) : Holds(t, p) =>
        /\ pc[p] = "store" => t < h[p]
        /\ \A u \in (t + 1)..(head - 1) :
              Holds(u, p) => buffer[Slot(t)][2] < buffer[Slot(u)][2]

NothingLost ==
    /\ \A p \in Producers :
          got[p] <= sent[p] /\ InRing(p) = (got[p] + 1)..sent[p]
    /\ InTicketOrder

\* The destructor leaves no item behind ("drain on free because queue owns
\* data", line 26), although it stops at the first empty slot.
DrainLeavesNothing ==
    phase = "gone" => \A s \in Slots : buffer[s] = NULL

\* Producers that retry get everything through, and the consumer receives it,
\* unless the queue is destroyed.  The load at line 105 is what makes it so:
\* without it three producers can keep backing each other off forever.
EverythingDelivered ==
    <>(phase # "live" \/ \A p \in Producers : got[p] = Quota)

-----------------------------------------------------------------------------
(* Why they hold: the ring invariant, inductive with TypeOK and CountAccounts *)

\* The window taken..head-1 of outstanding tickets, together with the admitted
\* producers still to draw one, never exceeds the ring: an admission counts
\* before its ticket exists, a release only after its slot is empty.
RoomForAll == (head - taken) + Cardinality(Admitted) + Owed <= max

\* No two producers hold one ticket, and every ticket held is in the window.
TicketsHeld ==
    \A p \in AtStep("store") :
        /\ h[p] \in taken..(head - 1)
        /\ \A q \in AtStep("store") : q # p => h[q] # h[p]

\* A slot is empty exactly when its ticket is held or it has none.
SlotsOfWindow ==
    /\ \A t \in taken..(head - 1) :
          buffer[Slot(t)] = NULL <=> \E p \in AtStep("store") : h[p] = t
    /\ \A s \in Slots :
          buffer[s] # NULL => \E t \in taken..(head - 1) : Slot(t) = s

\* Once the destructor runs no call is in progress; it ends with the window
\* empty.
Quiescent ==
    /\ phase # "live" => \A p \in Producers : pc[p] = "idle"
    /\ phase = "gone" => cpc = "idle" /\ taken = head

\* A call in progress owns an item.
CallsHaveItem == \A p \in Producers : pc[p] # "idle" => sent[p] < Quota

\* How the consumer's index, the tickets and the slots fit together.
RingInv ==
    /\ taken <= head
    /\ tail = Slot(taken)
    /\ RoomForAll
    /\ TicketsHeld
    /\ SlotsOfWindow
    /\ Quiescent
    /\ CallsHaveItem

-----------------------------------------------------------------------------
(* Refinement of MpscChannel: a ticket claims a place, the store publishes. *)

\* The items of the producers that drew ticket t and have not stored yet.
Claimants(t) == {p \in AtStep("store") : h[p] = t}

Place(t) ==
    IF buffer[Slot(t)] # NULL
    THEN [item |-> buffer[Slot(t)], ready |-> TRUE]
    ELSE [item |-> IF Claimants(t) = {}
                   THEN NULL
                   ELSE Held(CHOOSE p \in Claimants(t) : TRUE),
          ready |-> FALSE]

chanBar == [k \in 1..(head - taken) |-> Place(taken + k - 1)]

Channel == INSTANCE MpscChannel WITH
    Capacity <- max, chan <- chanBar, out <- ret

ImplementsChannel == Channel!Spec
=============================================================================
