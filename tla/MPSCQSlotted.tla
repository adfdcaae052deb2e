---------------------------- MODULE MPSCQSlotted ----------------------------
(***************************************************************************)
(* shclog::mpsc_queue::MPSCQSlotted, the array queue with a sequence       *)
(* number per cell of include/shclog/mpsc_queue.hpp:152-225.               *)
(*                                                                         *)
(* head.fetch_add hands out positions without limit; a producer then spins *)
(* until its cell's sequence number says that the cell is free for that    *)
(* position.  `data' is a plain field: only the sequence numbers keep its  *)
(* accesses apart.  Positions are usize; here they wrap at W, a small      *)
(* multiple of N, so that the wrap itself is explored and the state space  *)
(* is finite.  Items are reused once dequeued.                             *)
(*                                                                         *)
(* N is a template parameter the code does not check.  With N = 1, or N    *)
(* not a power of two, the queue loses items; SizeAssumption says what its *)
(* users must respect.  enqueue does not refuse nullptr, which a consumer  *)
(* could not tell from an empty queue: Items holds none.                   *)
(***************************************************************************)
EXTENDS Integers, Sequences, FiniteSets, SequencesExt

CONSTANTS Producers,   \* threads calling enqueue
          Items,       \* the items that exist
          NULL,        \* nullptr
          N,           \* cells
          W            \* where usize wraps (bound; 2^64 in the code)

ASSUME SizeAssumption == N \in Nat /\ N >= 2 /\ \E k \in 1..N : N = 2^k

\* Every live position, and the distance of a sequence number to one of them,
\* fits a signed usize; both sizes being powers of two, the laps end at the wrap.
ASSUME WrapAssumption ==
    /\ IsFiniteSet(Producers) /\ NULL \notin Items
    /\ W \in Nat /\ W % N = 0 /\ \E k \in 1..W : W = 2^k
    /\ W >= 2 * (N + Cardinality(Producers))

VARIABLES
    head,   \* std::atomic<usize> head: the next position
    tail,   \* usize tail: the consumer's position
    seq,    \* Cell::seq
    data,   \* Cell::data
    pc,     \* where each producer is in enqueue
    item,   \* what it enqueues
    pos,    \* the position it drew
    cpc,    \* where the consumer is in dequeue
    out,    \* the item of the latest dequeue that returned one
    free,   \* items owned by the callers
    line    \* history: items with a position not yet taken, in position order

consumerVars == <<tail, cpc, out>>
vars == <<head, seq, data, pc, item, pos, consumerVars, free, line>>

Cells == 0..(N - 1)
Positions == 0..(W - 1)

Cell(i) == i % N       \* i & MASK
\* Mutant of Plus: positions that are not reduced to the width of usize.
Plus_NoWrap(i, k) == i + k

Plus(i, k) == (i + k) % W

\* static_cast<isize>(a) - static_cast<isize>(b)
Dif(a, b) == LET d == (a - b) % W IN IF d < W \div 2 THEN d ELSE d - W

TypeOK ==
    /\ head \in Positions /\ tail \in Positions
    /\ seq \in [Cells -> Positions]
    /\ data \in [Cells -> Items \cup {NULL}]
    /\ pc \in [Producers -> {"idle", "claim", "spin", "write", "publish"}]
    /\ item \in [Producers -> Items \cup {NULL}]
    /\ pos \in [Producers -> Positions]
    /\ cpc \in {"idle", "read", "advance"}
    /\ out \in Items \cup {NULL}
    /\ free \subseteq Items
    /\ line \in Seq(Items)

Init ==
    /\ head = 0 /\ tail = 0
    /\ seq = [i \in Cells |-> i]
    /\ data = [i \in Cells |-> NULL]
    /\ pc = [p \in Producers |-> "idle"]
    /\ item = [p \in Producers |-> NULL]
    /\ pos = [p \in Producers |-> 0]
    /\ cpc = "idle" /\ out = NULL
    /\ free = Items
    /\ line = <<>>

-----------------------------------------------------------------------------
(* enqueue, by producer p *)

EnqCall(p) ==
    /\ pc[p] = "idle"
    /\ \E i \in free :
         /\ item' = [item EXCEPT ![p] = i]
         /\ free' = free \ {i}
    /\ pc' = [pc EXCEPT ![p] = "claim"]
    /\ UNCHANGED <<head, seq, data, pos, consumerVars, line>>

\* pos = head.fetch_add(1).
EnqClaim(p) ==
    /\ pc[p] = "claim"
    /\ pos' = [pos EXCEPT ![p] = head]
    /\ head' = Plus(head, 1)
    /\ line' = Append(line, item[p])
    /\ pc' = [pc EXCEPT ![p] = "spin"]
    /\ UNCHANGED <<seq, data, item, consumerVars, free>>

\* Mutant of EnqSpin: the cell is taken without waiting for its lap.
EnqSpin_Absent(p) ==
    /\ pc[p] = "spin"
    /\ pc' = [pc EXCEPT ![p] = "write"]
    /\ UNCHANGED <<head, seq, data, item, pos, consumerVars, free, line>>

\* The loop of lines 187-203 ends when the cell is free for this position.
EnqSpin(p) ==
    /\ pc[p] = "spin"
    /\ Dif(seq[Cell(pos[p])], pos[p]) = 0
    /\ pc' = [pc EXCEPT ![p] = "write"]
    /\ UNCHANGED <<head, seq, data, item, pos, consumerVars, free, line>>

\* slot->data = v.release().
EnqWrite(p) ==
    /\ pc[p] = "write"
    /\ data' = [data EXCEPT ![Cell(pos[p])] = item[p]]
    /\ pc' = [pc EXCEPT ![p] = "publish"]
    /\ UNCHANGED <<head, seq, item, pos, consumerVars, free, line>>

\* slot->seq.store(pos + 1); the call's locals are gone.
EnqPublish(p) ==
    /\ pc[p] = "publish"
    /\ seq' = [seq EXCEPT ![Cell(pos[p])] = Plus(pos[p], 1)]
    /\ item' = [item EXCEPT ![p] = NULL]
    /\ pos' = [pos EXCEPT ![p] = 0]
    /\ pc' = [pc EXCEPT ![p] = "idle"]
    /\ UNCHANGED <<head, data, consumerVars, free, line>>

\* What a call does once it was made.
Enqueue(p) == EnqClaim(p) \/ EnqSpin(p) \/ EnqWrite(p) \/ EnqPublish(p)

-----------------------------------------------------------------------------
(* dequeue, by the one consumer; returning nullptr changes nothing *)

producerVars == <<head, pc, item, pos>>

\* The cell of the tail was published (dif >= 0); below, dequeue returns nullptr.
DeqLoad ==
    /\ cpc = "idle"
    /\ Dif(seq[Cell(tail)], Plus(tail, 1)) >= 0
    /\ cpc' = "read"
    /\ UNCHANGED <<producerVars, seq, data, tail, out, free, line>>

\* v = slot->data.
DeqRead ==
    /\ cpc = "read"
    /\ out' = data[Cell(tail)]
    /\ line' = Tail(line)
    /\ cpc' = "advance"
    /\ UNCHANGED <<producerVars, seq, data, tail, free>>

\* Mutant of DeqAdvance: seq.store(tail + 1) frees the cell for no position.
DeqAdvance_NextPosition ==
    /\ cpc = "advance"
    /\ seq' = [seq EXCEPT ![Cell(tail)] = Plus(tail, 1)]
    /\ tail' = Plus(tail, 1)
    /\ free' = free \cup {out}
    /\ cpc' = "idle"
    /\ UNCHANGED <<producerVars, data, out, line>>

\* slot->seq.store(tail + N); tail++; the caller owns the item.
DeqAdvance ==
    /\ cpc = "advance"
    /\ seq' = [seq EXCEPT ![Cell(tail)] = Plus(tail, N)]
    /\ tail' = Plus(tail, 1)
    /\ free' = free \cup {out}
    /\ cpc' = "idle"
    /\ UNCHANGED <<producerVars, data, out, line>>

Dequeue == DeqLoad \/ DeqRead \/ DeqAdvance

Next ==
    \/ \E p \in Producers : EnqCall(p) \/ Enqueue(p)
    \/ Dequeue

Spec == Init /\ [][Next]_vars

\* A call that began goes on (its spin reads the cell again and again), and the
\* consumer keeps polling.
FairSpec ==
    /\ Spec
    /\ \A p \in Producers : WF_vars(Enqueue(p))
    /\ WF_vars(Dequeue)

-----------------------------------------------------------------------------
(* Properties *)

\* No two threads may be at an access of one cell's plain `data' field: two
\* producers about to write it, or one of them and the consumer about to read.
NoDataRace ==
    \A p \in Producers : pc[p] = "write" =>
        /\ \A q \in Producers \ {p} :
             pc[q] = "write" => Cell(pos[q]) # Cell(pos[p])
        /\ cpc = "read" => Cell(tail) # Cell(pos[p])

\* The sequence number of each cell says exactly where its position of the
\* current lap stands: not drawn, drawn by one producer that has not published,
\* or published with the item that drew it, however many positions of later
\* laps are already spinning on the cell.
Drawn == (head - tail) % W                            \* positions not freed yet
Drawers(t) == {p \in Producers : pc[p] \in {"spin", "write", "publish"} /\ pos[p] = t}
Oldest == IF cpc = "advance" THEN <<out>> \o line ELSE line

CellsInStep ==
    /\ Len(Oldest) = Drawn
    /\ \A k \in 0..(N - 1) :
         LET t == Plus(tail, k) IN
         \/ /\ seq[Cell(t)] = t
            /\ Cardinality(Drawers(t)) = IF k < Drawn THEN 1 ELSE 0
         \/ /\ seq[Cell(t)] = Plus(t, 1)
            /\ k < Drawn
            /\ Drawers(t) = {}
            /\ data[Cell(t)] = Oldest[k + 1]

\* Every item that has a position is handed out, in spite of the spinning.
EveryItemDelivered ==
    \A i \in Items : (i \in Range(line)) ~> (i \in free)

-----------------------------------------------------------------------------
(* Refinement of MpscChannel: the position claims, the sequence publishes. *)

PositionOf(k) == Plus(tail, k - 1 + (IF cpc = "advance" THEN 1 ELSE 0))

Published(k) == seq[Cell(PositionOf(k))] = Plus(PositionOf(k), 1)

chanBar == [k \in 1..Len(line) |-> [item |-> line[k], ready |-> Published(k)]]

Channel == INSTANCE MpscChannel WITH
    Capacity <- N + Cardinality(Producers), chan <- chanBar

ImplementsChannel == Channel!Spec
=============================================================================
