---------------------------- MODULE MpscChannel ----------------------------
(***************************************************************************)
(* What every queue of shclog/mpsc_queue.hpp promises its callers: a FIFO  *)
(* channel from many producers to one consumer.                            *)
(*                                                                         *)
(* An enqueue has two effects.  It first claims the next place of the      *)
(* channel (the ticket, or the exchanged head), which fixes the order, and *)
(* later publishes the item there.  A dequeue takes the item of the first  *)
(* place, and only once it is published.  Nothing else changes the         *)
(* channel: an item is neither dropped, duplicated nor overtaken.  Calls   *)
(* that return false or nullptr are stuttering steps of this module.       *)
(*                                                                         *)
(* MPSCQueue, MPSCQSlotted and UnboundedLinkedMPSCQ are each checked to    *)
(* implement Spec under a refinement mapping.                              *)
(***************************************************************************)
EXTENDS Naturals, Sequences

CONSTANTS Items,     \* what producers hand over
          NULL,      \* nullptr
          Capacity   \* most places claimed and not yet taken

VARIABLES chan,      \* places claimed and not yet taken, in claim order
          out        \* what the latest successful dequeue returned

vars == <<chan, out>>

Cell == [item : Items, ready : BOOLEAN]

TypeOK == chan \in Seq(Cell) /\ out \in Items \cup {NULL}

Init == chan = <<>> /\ out = NULL

\* A producer claims the last place for item i.
Claim(i) ==
    /\ Len(chan) < Capacity
    /\ \A k \in 1..Len(chan) : chan[k].item # i
    /\ chan' = Append(chan, [item |-> i, ready |-> FALSE])
    /\ UNCHANGED out

\* The producer that claimed place k puts its item there.
Publish(k) ==
    /\ ~chan[k].ready
    /\ chan' = [chan EXCEPT ![k].ready = TRUE]
    /\ UNCHANGED out

\* The consumer takes the item of the first place.
Take ==
    /\ chan # <<>>
    /\ Head(chan).ready
    /\ out' = Head(chan).item
    /\ chan' = Tail(chan)

Next ==
    \/ \E i \in Items : Claim(i)
    \/ \E k \in 1..Len(chan) : Publish(k)
    \/ Take

Spec == Init /\ [][Next]_vars
=============================================================================
