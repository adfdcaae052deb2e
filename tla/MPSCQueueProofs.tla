-------------------------- MODULE MPSCQueueProofs --------------------------
(***************************************************************************)
(* Theorems about MPSCQueue, for any finite set of producers, any capacity *)
(* create() accepts and any number of items.  The second half is about     *)
(* FIFO: from each producer the consumer receives exactly what was sent,   *)
(* in that order (NothingLost), and every step is a step of MpscChannel or *)
(* leaves it alone (ImplementsChannel).                                    *)
(***************************************************************************)
EXTENDS MPSCQueue, SequenceTheorems, FiniteSetTheorems, TLAPS

-----------------------------------------------------------------------------
(* Slots: arithmetic of `h & buf_mask' *)

\* The capacity create() accepts is a natural number and at least 2.
LEMMA MaxType == max \in Nat /\ max >= 2
BY CapacityAssumption DEF ValidCapacity

\* A ticket masks to a slot of the buffer.
LEMMA SlotRange == \A t \in Nat : Slot(t) \in Slots
BY MaxType DEF Slot, Slots

\* Every ticket is some number of whole laps of the ring plus its slot.
LEMMA Laps == \A t \in Nat : \E q \in Nat : t = q * max + Slot(t)
<1> SUFFICES ASSUME NEW t \in Nat PROVE \E q \in Nat : t = q * max + Slot(t)
  OBVIOUS
<1>1. t \div max \in Nat /\ t = (t \div max) * max + (t % max)
  BY MaxType
<1> QED
  BY <1>1 DEF Slot

\* More laps are at least a whole ring further.
LEMMA LapsApart ==
    \A q, r \in Nat : q < r => q * max + max <= r * max
<1> SUFFICES ASSUME NEW q \in Nat, NEW r \in Nat, q < r
             PROVE  q * max + max <= r * max
  OBVIOUS
<1>1. \E d \in Nat : r = q + 1 + d
  <2>1. r - q - 1 \in Nat /\ r = q + 1 + (r - q - 1)
    OBVIOUS
  <2> QED BY <2>1
<1>2. PICK d \in Nat : r = q + 1 + d
  BY <1>1
<1>3. r * max = q * max + max + d * max
  BY <1>2, MaxType
<1>4. d * max \in Nat /\ q * max \in Nat
  BY MaxType
<1> QED
  BY <1>3, <1>4, MaxType

\* Masking forgets whole laps of the ring: (q * max + s) & buf_mask = s.
LEMMA SlotOfLaps == \A q \in Nat, s \in Slots : Slot(q * max + s) = s
<1> SUFFICES ASSUME NEW q \in Nat, NEW s \in Slots PROVE Slot(q * max + s) = s
  OBVIOUS
<1> DEFINE t == q * max + s
<1>1. t \in Nat /\ s \in Nat /\ s < max /\ q * max \in Nat
  BY MaxType DEF Slots
<1>2. PICK r \in Nat : t = r * max + Slot(t)
  BY <1>1, Laps
<1>3. Slot(t) \in Nat /\ Slot(t) < max /\ r * max \in Nat
  BY <1>1, SlotRange, MaxType DEF Slots
<1> HIDE DEF t
<1>4. t = q * max + s
  BY DEF t
<1>5. ~(q < r)
  BY <1>1, <1>2, <1>3, <1>4, LapsApart, MaxType
<1>6. ~(r < q)
  BY <1>1, <1>2, <1>3, <1>4, LapsApart, MaxType
<1>7. q = r
  BY <1>5, <1>6
<1> QED
  BY <1>1, <1>2, <1>3, <1>4, <1>7

\* Advancing the masked index is masking the advanced one (line 135).
LEMMA SlotSucc == \A t \in Nat : Slot(Slot(t) + 1) = Slot(t + 1)
<1> SUFFICES ASSUME NEW t \in Nat PROVE Slot(Slot(t) + 1) = Slot(t + 1)
  OBVIOUS
<1>1. PICK q \in Nat : t = q * max + Slot(t)
  BY Laps
<1>2. Slot(t) \in Slots /\ q * max \in Nat
  BY SlotRange, MaxType
<1>3. CASE Slot(t) + 1 \in Slots
  <2>1. t + 1 = q * max + (Slot(t) + 1)
    BY <1>1, <1>2 DEF Slots
  <2>2. 0 * max + (Slot(t) + 1) = Slot(t) + 1
    BY <1>2, MaxType DEF Slots
  <2> QED
    BY <1>3, <2>1, <2>2, SlotOfLaps
<1>4. CASE Slot(t) + 1 \notin Slots
  <2>1. Slot(t) + 1 = max
    BY <1>2, <1>4, MaxType DEF Slots
  <2>2. t + 1 = (q + 1) * max + 0
    BY <1>1, <1>2, <2>1, MaxType DEF Slots
  <2>3. max = 1 * max + 0 /\ 0 \in Slots /\ q + 1 \in Nat
    BY MaxType DEF Slots
  <2>4. Slot(max) = 0 /\ Slot(t + 1) = 0
    BY <2>2, <2>3, SlotOfLaps
  <2> QED
    BY <2>1, <2>4
<1> QED
  BY <1>3, <1>4

\* Tickets less than a capacity apart have different slots.
LEMMA SlotInjective ==
    \A t, u \in Nat : t < u /\ u < t + max => Slot(t) # Slot(u)
<1> SUFFICES ASSUME NEW t \in Nat, NEW u \in Nat,
                    t < u, u < t + max, Slot(t) = Slot(u)
             PROVE  FALSE
  OBVIOUS
<1>1. PICK q \in Nat : t = q * max + Slot(t)
  BY Laps
<1>2. PICK r \in Nat : u = r * max + Slot(t)
  BY Laps
<1>3. Slot(t) \in Nat /\ q * max \in Nat /\ r * max \in Nat
  BY SlotRange, MaxType DEF Slots
<1>4. q # r
  BY <1>1, <1>2, <1>3
<1>5. CASE q < r
  BY <1>1, <1>2, <1>3, <1>5, LapsApart, MaxType
<1>6. CASE r < q
  BY <1>1, <1>2, <1>3, <1>6, LapsApart, MaxType
<1> QED
  BY <1>4, <1>5, <1>6

\* A ticket that wrapped at a multiple of the capacity, as the code's 64-bit
\* counters do, still has the slot of the unbounded one.
THEOREM SlotOfWrappedTicket ==
    \A t \in Nat, k \in Nat \ {0} : Slot(t % (k * max)) = Slot(t)
<1>1. ASSUME NEW t \in Nat, NEW k \in Nat \ {0}, NEW w, w = k * max
      PROVE  Slot(t % w) = Slot(t)
  <2>1. w \in Nat /\ w > 0
    BY <1>1, MaxType
  <2>2. t % w \in Nat /\ t \div w \in Nat /\ t = (t \div w) * w + (t % w)
    BY <2>1
  <2>3. PICK d \in Nat, r \in Nat : r = t % w /\ t = d * w + r
    BY <2>2
  <2>4. PICK q \in Nat : r = q * max + Slot(r)
    BY <2>3, Laps
  <2>5. Slot(r) \in Slots /\ Slot(r) \in Nat
    BY <2>3, SlotRange DEF Slots
  <2>6. d * w = (d * k) * max
    BY <1>1, MaxType
  <2>7. t = (d * k + q) * max + Slot(r) /\ d * k + q \in Nat
    BY <2>3, <2>4, <2>5, <2>6, MaxType
  <2> QED
    BY <2>3, <2>5, <2>7, SlotOfLaps
<1> QED
  BY <1>1

-----------------------------------------------------------------------------
(* Counting the producers at a step of enqueue *)

Steps == {"idle", "check", "add", "sub", "ticket", "store"}

\* The sets of producers at one point of enqueue are finite, so counting
\* them, as the accounts of count do, makes sense.
LEMMA FiniteSteps ==
    \A s : IsFiniteSet(AtStep(s)) /\ Cardinality(AtStep(s)) \in Nat
<1> SUFFICES ASSUME NEW s
             PROVE  IsFiniteSet(AtStep(s)) /\ Cardinality(AtStep(s)) \in Nat
  OBVIOUS
<1>1. AtStep(s) \in SUBSET Producers
  BY DEF AtStep
<1>2. IsFiniteSet(AtStep(s))
  BY <1>1, ProducersAssumption, FS_Subset
<1> QED
  BY <1>2, FS_CardinalityType

\* A producer going from step a to step b leaves one set and joins the other.
LEMMA Moves ==
    ASSUME TypeOK, NEW p \in Producers, NEW b \in Steps, pc[p] # b,
           pc' = [pc EXCEPT ![p] = b]
    PROVE  /\ AtStep(b)' = AtStep(b) \cup {p}
           /\ Cardinality(AtStep(b)') = Cardinality(AtStep(b)) + 1
           /\ \A s \in Steps \ {b, pc[p]} : AtStep(s)' = AtStep(s)
           /\ \A s \in Steps : s = pc[p] =>
                /\ AtStep(s)' = AtStep(s) \ {p}
                /\ Cardinality(AtStep(s)') = Cardinality(AtStep(s)) - 1
                /\ Cardinality(AtStep(s)) >= 1
<1>1. \A q \in Producers : pc'[q] = IF q = p THEN b ELSE pc[q]
  BY DEF TypeOK
<1>2. AtStep(b)' = AtStep(b) \cup {p} /\ p \notin AtStep(b)
  BY <1>1 DEF AtStep
<1>3. Cardinality(AtStep(b)') = Cardinality(AtStep(b)) + 1
  BY <1>2, FiniteSteps, FS_AddElement
<1>4. \A s \in Steps \ {b, pc[p]} : AtStep(s)' = AtStep(s)
  BY <1>1 DEF AtStep
<1>5. ASSUME NEW s \in Steps, s = pc[p]
      PROVE  /\ AtStep(s)' = AtStep(s) \ {p}
             /\ Cardinality(AtStep(s)') = Cardinality(AtStep(s)) - 1
             /\ Cardinality(AtStep(s)) >= 1
  <2>1. AtStep(s)' = AtStep(s) \ {p} /\ p \in AtStep(s)
    BY <1>1, <1>5 DEF AtStep
  <2>2. Cardinality(AtStep(s) \ {p}) = Cardinality(AtStep(s)) - 1
    BY <2>1, FiniteSteps, FS_RemoveElement
  <2>3. Cardinality(AtStep(s) \ {p}) \in Nat
    BY FiniteSteps, FS_RemoveElement, FS_CardinalityType
  <2> QED
    BY <2>1, <2>2, <2>3, FiniteSteps
<1> QED
  BY <1>2, <1>3, <1>4, <1>5

-----------------------------------------------------------------------------
(* The inductive invariant *)

IInv == TypeOK /\ RingInv /\ CountAccounts

\* Within the window different tickets have different slots.
LEMMA WindowSlots ==
    ASSUME TypeOK, RoomForAll, taken <= head
    PROVE  \A t, u \in taken..(head - 1) : t # u => Slot(t) # Slot(u)
<1>1. head - taken <= max
  BY FiniteSteps, MaxType DEF TypeOK, RoomForAll, Admitted, Owed
<1> SUFFICES ASSUME NEW t \in taken..(head - 1), NEW u \in taken..(head - 1),
                    t < u
             PROVE  Slot(t) # Slot(u)
  BY DEF TypeOK
<1>2. t \in Nat /\ u \in Nat /\ u < t + max
  BY <1>1, MaxType DEF TypeOK
<1> QED
  BY <1>2, SlotInjective

\* create() leaves an empty ring, of which the invariant holds (lines 69-87).
LEMMA InitInv == Init => IInv
<1> SUFFICES ASSUME Init PROVE IInv
  OBVIOUS
<1> USE DEF Init
<1>1. TypeOK
  BY MaxType, QuotaAssumption DEF TypeOK, Slots
<1>2. \A s \in Steps \ {"idle"} : AtStep(s) = {} /\ Cardinality(AtStep(s)) = 0
  BY FS_EmptySet DEF AtStep, Steps
<1>3. Cardinality(Admitted) = 0 /\ Cardinality(Rejecting) = 0 /\ Owed = 0
  BY <1>2 DEF Admitted, Rejecting, Owed, Steps
<1>4. CountAccounts
  BY <1>3 DEF CountAccounts
<1>5. RingInv
  <2>1. tail = Slot(taken)
    BY MaxType DEF Slot
  <2>2. RoomForAll
    BY <1>3, MaxType DEF RoomForAll
  <2>3. TicketsHeld
    BY DEF TicketsHeld, AtStep
  <2>4. SlotsOfWindow
    BY DEF SlotsOfWindow, AtStep
  <2>5. Quiescent
    BY DEF Quiescent
  <2>6. CallsHaveItem
    BY DEF CallsHaveItem
  <2> QED
    BY <2>1, <2>2, <2>3, <2>4, <2>5, <2>6 DEF RingInv
<1> QED
  BY <1>1, <1>4, <1>5 DEF IInv

\* What the steps that leave tickets, slots and the consumer alone preserve.
LEMMA RingUntouched ==
    ASSUME IInv, AtStep("store")' = AtStep("store"),
           UNCHANGED <<head, buffer, tail, h, taken>>
    PROVE  (tail = Slot(taken))' /\ (taken <= head)' /\ TicketsHeld' /\ SlotsOfWindow'
<1>1. tail = Slot(taken) /\ taken <= head /\ TicketsHeld /\ SlotsOfWindow
  BY DEF IInv, RingInv
<1>2. (tail = Slot(taken))' /\ (taken <= head)'
  BY <1>1 DEF Slot
<1>3. TicketsHeld'
  BY <1>1 DEF TicketsHeld
<1>4. SlotsOfWindow'
  BY <1>1 DEF SlotsOfWindow, Slot
<1> QED
  BY <1>2, <1>3, <1>4

\* A producer that is inside enqueue makes a step of it: the destructor is not
\* running, and what is not about the step itself stays.
LEMMA CallStep ==
    ASSUME IInv, NEW p \in Producers, NEW b \in Steps,
           pc' = [pc EXCEPT ![p] = b],
           phase = "live", sent' = sent, UNCHANGED <<phase, cpc, taken>>,
           b = "idle" \/ sent[p] < Quota
    PROVE  Quiescent' /\ CallsHaveItem' /\ pc' \in [Producers -> Steps]
<1>1. pc \in [Producers -> Steps] /\ CallsHaveItem
  BY DEF IInv, TypeOK, RingInv, Steps
<1>2. Quiescent'
  BY DEF Quiescent
<1>3. CallsHaveItem'
  BY <1>1 DEF CallsHaveItem
<1> QED
  BY <1>1, <1>2, <1>3

\* A call of enqueue begins with an item, before the destructor (line 100).
LEMMA EnqCallInv ==
    ASSUME IInv, NEW p \in Producers, EnqCall(p) PROVE IInv'
<1> USE DEF EnqCall, consumerVars
<1>1. TypeOK /\ RingInv /\ CountAccounts
  BY DEF IInv
<1>2. Quiescent' /\ CallsHaveItem' /\ pc' \in [Producers -> Steps]
  BY CallStep DEF Steps
<1>3. \A s \in {"sub", "ticket", "store"} : AtStep(s)' = AtStep(s)
  BY <1>1, Moves DEF Steps
<1>4. TypeOK'
  BY <1>1, <1>2 DEF TypeOK, Steps
<1>5. Admitted' = Admitted /\ Rejecting' = Rejecting /\ Owed' = Owed
  BY <1>3 DEF Admitted, Rejecting, Owed
<1>6. CountAccounts' /\ RoomForAll'
  BY <1>1, <1>5 DEF CountAccounts, RoomForAll, RingInv
<1>7. (tail = Slot(taken))' /\ (taken <= head)' /\ TicketsHeld' /\ SlotsOfWindow'
  BY <1>3, RingUntouched
<1> QED
  BY <1>2, <1>4, <1>6, <1>7 DEF IInv, RingInv

\* The relaxed load moves the producer and nothing else (lines 105-106).
LEMMA EnqCheckInv ==
    ASSUME IInv, NEW p \in Producers, EnqCheck(p) PROVE IInv'
<1> USE DEF EnqCheck, consumerVars
<1>1. TypeOK /\ RingInv /\ CountAccounts
  BY DEF IInv
<1>2. PICK b \in {"idle", "add"} : pc' = [pc EXCEPT ![p] = b]
  OBVIOUS
<1>3. phase = "live" /\ sent[p] < Quota
  BY <1>1 DEF RingInv, Quiescent, CallsHaveItem
<1>4. Quiescent' /\ CallsHaveItem' /\ pc' \in [Producers -> Steps]
  BY <1>2, <1>3, CallStep DEF Steps
<1>5. \A s \in {"sub", "ticket", "store"} : AtStep(s)' = AtStep(s)
  BY <1>1, <1>2, Moves DEF Steps
<1>6. TypeOK'
  BY <1>1, <1>4 DEF TypeOK, Steps
<1>7. Admitted' = Admitted /\ Rejecting' = Rejecting /\ Owed' = Owed
  BY <1>5 DEF Admitted, Rejecting, Owed
<1>8. CountAccounts' /\ RoomForAll'
  BY <1>1, <1>7 DEF CountAccounts, RoomForAll, RingInv
<1>9. (tail = Slot(taken))' /\ (taken <= head)' /\ TicketsHeld' /\ SlotsOfWindow'
  BY <1>5, RingUntouched
<1> QED
  BY <1>4, <1>6, <1>8, <1>9 DEF IInv, RingInv

\* The admission: below max, the counted promises leave room for one more.
LEMMA EnqAddInv ==
    ASSUME IInv, NEW p \in Producers, EnqAdd(p) PROVE IInv'
<1> USE DEF EnqAdd, consumerVars
<1>1. TypeOK /\ RingInv /\ CountAccounts
  BY DEF IInv
<1>2. phase = "live" /\ sent[p] < Quota
  BY <1>1 DEF RingInv, Quiescent, CallsHaveItem
<1>3. PICK b \in {"sub", "ticket"} :
        pc' = [pc EXCEPT ![p] = b] /\ (b = "ticket" => ~(count >= max))
  OBVIOUS
<1>4. Quiescent' /\ CallsHaveItem' /\ pc' \in [Producers -> Steps]
  BY <1>2, <1>3, CallStep DEF Steps
<1>5. AtStep("store")' = AtStep("store")
  BY <1>1, <1>3, Moves DEF Steps
<1>6. TypeOK'
  BY <1>1, <1>4 DEF TypeOK, Steps
<1>7. Owed' = Owed /\ Owed \in 0..1
  BY DEF Owed
<1>8. /\ Cardinality(Admitted) \in Nat /\ Cardinality(Rejecting) \in Nat
      /\ count \in Nat /\ head \in Nat /\ taken \in Nat /\ taken <= head
  BY <1>1, FiniteSteps DEF Admitted, Rejecting, TypeOK, RingInv
<1>9. CountAccounts' /\ RoomForAll'
  <2>1. CASE b = "sub"
    <3>1. /\ Admitted' = Admitted
          /\ Cardinality(Rejecting') = Cardinality(Rejecting) + 1
      BY <1>1, <1>3, <2>1, Moves DEF Steps, Admitted, Rejecting
    <3> QED
      BY <1>1, <1>7, <1>8, <3>1 DEF CountAccounts, RoomForAll, RingInv
  <2>2. CASE b = "ticket"
    <3>1. /\ Rejecting' = Rejecting
          /\ Cardinality(Admitted') = Cardinality(Admitted) + 1
      BY <1>1, <1>3, <2>2, Moves DEF Steps, Admitted, Rejecting
    <3> QED
      BY <1>1, <1>3, <1>7, <1>8, <2>2, <3>1, MaxType
      DEF CountAccounts, RoomForAll, RingInv
  <2> QED
    BY <2>1, <2>2
<1>10. (tail = Slot(taken))' /\ (taken <= head)' /\ TicketsHeld' /\ SlotsOfWindow'
  BY <1>5, RingUntouched
<1> QED
  BY <1>4, <1>6, <1>9, <1>10 DEF IInv, RingInv

\* The undone increment leaves count with its Rejecting share (line 110).
LEMMA EnqBackOffInv ==
    ASSUME IInv, NEW p \in Producers, EnqBackOff(p) PROVE IInv'
<1> USE DEF EnqBackOff, consumerVars
<1>1. TypeOK /\ RingInv /\ CountAccounts
  BY DEF IInv
<1>2. phase = "live"
  BY <1>1 DEF RingInv, Quiescent
<1>3. Quiescent' /\ CallsHaveItem' /\ pc' \in [Producers -> Steps]
  BY <1>2, CallStep DEF Steps
<1>4. AtStep("store")' = AtStep("store") /\ Admitted' = Admitted
  BY <1>1, Moves DEF Steps, Admitted
<1>5. /\ Cardinality(Rejecting') = Cardinality(Rejecting) - 1
      /\ Cardinality(Rejecting) >= 1
  BY <1>1, Moves DEF Steps, Rejecting
<1>6. Owed' = Owed /\ Owed \in 0..1 /\ (cpc = "release" => Owed = 1)
  BY DEF Owed
<1>7. /\ Cardinality(Admitted) \in Nat /\ Cardinality(Rejecting) \in Nat
      /\ count \in Nat /\ head \in Nat /\ taken \in Nat /\ taken <= head
  BY <1>1, FiniteSteps DEF Admitted, Rejecting, TypeOK, RingInv
<1>8. CountAccounts' /\ RoomForAll' /\ count' \in Nat
  BY <1>1, <1>4, <1>5, <1>6, <1>7 DEF CountAccounts, RoomForAll, RingInv
<1>9. TypeOK'
  BY <1>1, <1>3, <1>8 DEF TypeOK, Steps
<1>10. (tail = Slot(taken))' /\ (taken <= head)' /\ TicketsHeld' /\ SlotsOfWindow'
  BY <1>4, RingUntouched
<1> QED
  BY <1>3, <1>8, <1>9, <1>10 DEF IInv, RingInv

\* A producer that was admitted will draw a ticket whose slot is empty: its
\* admission counts before the ticket does, so the window is not yet the ring.
LEMMA NextSlotEmpty ==
    ASSUME IInv, AtStep("ticket") # {}
    PROVE  head < taken + max /\ buffer[Slot(head)] = NULL
<1>1. /\ RoomForAll /\ SlotsOfWindow
      /\ head \in Nat /\ taken \in Nat /\ taken <= head
  BY DEF IInv, RingInv, TypeOK
<1>2. Cardinality(Admitted) \in Nat /\ Cardinality(Admitted) # 0 /\ Owed \in 0..1
  BY FiniteSteps, FS_EmptySet DEF Admitted, Owed
<1>3. head < taken + max
  BY <1>1, <1>2, MaxType DEF RoomForAll
<1>4. \A t \in taken..(head - 1) : Slot(t) # Slot(head)
  BY <1>1, <1>3, SlotInjective, MaxType
<1>5. Slot(head) \in Slots
  BY <1>1, SlotRange
<1> QED
  BY <1>1, <1>3, <1>4, <1>5 DEF SlotsOfWindow

\* Drawing a ticket: the admission guarantees that the window does not yet
\* cover the ring, so the new ticket's slot is an empty one.
LEMMA EnqTicketInv ==
    ASSUME IInv, NEW p \in Producers, EnqTicket(p) PROVE IInv'
<1> USE DEF EnqTicket, consumerVars
<1>1. TypeOK /\ RingInv /\ CountAccounts
  BY DEF IInv
<1>2. phase = "live" /\ sent[p] < Quota
  BY <1>1 DEF RingInv, Quiescent, CallsHaveItem
<1>3. Quiescent' /\ CallsHaveItem' /\ pc' \in [Producers -> Steps]
  BY <1>2, CallStep DEF Steps
<1>4. TypeOK'
  BY <1>1, <1>3 DEF TypeOK, Steps
<1>5. AtStep("store")' = AtStep("store") \cup {p} /\ Rejecting' = Rejecting
  BY <1>1, Moves DEF Steps, Rejecting
<1>6. /\ Cardinality(Admitted') = Cardinality(Admitted) - 1
      /\ Cardinality(Admitted) >= 1
  BY <1>1, Moves DEF Steps, Admitted
<1>7. Owed' = Owed /\ Owed \in 0..1
  BY DEF Owed
<1>8. /\ Cardinality(Admitted) \in Nat /\ Cardinality(Rejecting) \in Nat
      /\ count \in Nat /\ head \in Nat /\ taken \in Nat /\ taken <= head
  BY <1>1, FiniteSteps DEF Admitted, Rejecting, TypeOK, RingInv
<1>9. CountAccounts' /\ RoomForAll'
  BY <1>1, <1>5, <1>6, <1>7, <1>8 DEF CountAccounts, RoomForAll, RingInv
<1>10. taken' <= head' /\ (tail = Slot(taken))'
  BY <1>1, <1>8 DEF RingInv, Slot
<1>11. TicketsHeld /\ SlotsOfWindow /\ p \notin AtStep("store")
  BY <1>1 DEF RingInv, AtStep
<1>12. h'[p] = head /\ \A q \in AtStep("store") : q # p /\ h'[q] = h[q] /\ h[q] < head
  BY <1>1, <1>8, <1>11 DEF TicketsHeld, AtStep, TypeOK
<1>13. TicketsHeld'
  BY <1>5, <1>8, <1>11, <1>12 DEF TicketsHeld
<1>14. buffer[Slot(head)] = NULL
  BY NextSlotEmpty DEF AtStep
<1>15. SlotsOfWindow'
  <2>1. ASSUME NEW t \in taken..head
        PROVE  buffer[Slot(t)] = NULL <=> \E q \in AtStep("store")' : h'[q] = t
    <3>1. CASE t = head
      BY <1>5, <1>12, <1>14, <3>1
    <3>2. CASE t # head
      <4>1. t \in taken..(head - 1)
        BY <1>8, <3>2
      <4> QED
        BY <1>5, <1>11, <1>12, <3>2, <4>1 DEF SlotsOfWindow
    <3> QED
      BY <3>1, <3>2
  <2>2. (taken..(head - 1))' = taken..head /\ taken..(head - 1) \subseteq taken..head
    BY <1>8
  <2>3. \A s \in Slots : buffer[s] # NULL => \E t \in taken..head : Slot(t) = s
    BY <1>11, <2>2 DEF SlotsOfWindow
  <2> QED
    BY <2>1, <2>2, <2>3 DEF SlotsOfWindow, Slot
<1> QED
  BY <1>3, <1>4, <1>9, <1>10, <1>13, <1>15 DEF IInv, RingInv

\* The store fills the slot of the ticket, which was empty, and only that one
\* (line 116).
LEMMA EnqStoreInv ==
    ASSUME IInv, NEW p \in Producers, EnqStore(p) PROVE IInv'
<1> USE DEF EnqStore, consumerVars
<1>1. TypeOK /\ RingInv /\ CountAccounts
  BY DEF IInv
<1>2. phase = "live" /\ sent[p] < Quota
  BY <1>1 DEF RingInv, Quiescent, CallsHaveItem
<1>3. sent[p] + 1 \in 1..Quota /\ Held(p) \in Items /\ Held(p) # NULL
  BY <1>1, <1>2, QuotaAssumption, NullAssumption DEF TypeOK, Held, Items
<1>4. pc' \in [Producers -> Steps] /\ Quiescent' /\ CallsHaveItem'
  BY <1>1, <1>2 DEF TypeOK, Steps, RingInv, Quiescent, CallsHaveItem
<1>5. TypeOK'
  <2>1. buffer' \in [Slots -> Items \cup {NULL}]
    BY <1>1, <1>3 DEF TypeOK
  <2>2. sent' \in [Producers -> 0..Quota]
    BY <1>1, <1>3, QuotaAssumption DEF TypeOK
  <2> QED
    BY <1>1, <1>4, <2>1, <2>2 DEF TypeOK, Steps
<1>6. /\ AtStep("store")' = AtStep("store") \ {p} /\ p \in AtStep("store")
      /\ Admitted' = Admitted /\ Rejecting' = Rejecting /\ Owed' = Owed
  <2>1. p \in AtStep("store") /\ Owed' = Owed
    BY DEF AtStep, Owed
  <2>2. /\ AtStep("store")' = AtStep("store") \ {p}
        /\ AtStep("ticket")' = AtStep("ticket") /\ AtStep("sub")' = AtStep("sub")
    BY <1>1, Moves DEF Steps
  <2> QED
    BY <2>1, <2>2 DEF Admitted, Rejecting
<1>7. CountAccounts' /\ RoomForAll'
  BY <1>1, <1>6 DEF CountAccounts, RoomForAll, RingInv
<1>8. (tail = Slot(taken))' /\ (taken <= head)'
  BY <1>1 DEF RingInv, Slot
<1>9. TicketsHeld /\ SlotsOfWindow /\ taken <= head /\ RoomForAll
  BY <1>1 DEF RingInv
<1>10. TicketsHeld'
  BY <1>6, <1>9 DEF TicketsHeld
<1>11. h[p] \in taken..(head - 1) /\ h[p] \in Nat /\ Slot(h[p]) \in Slots
  BY <1>1, <1>6, <1>9, SlotRange DEF TicketsHeld, TypeOK
<1>12. \A s \in Slots : buffer'[s] = IF s = Slot(h[p]) THEN Held(p) ELSE buffer[s]
  BY <1>1 DEF TypeOK
<1>13. \A t \in taken..(head - 1) : t \in Nat /\ Slot(t) \in Slots
  BY <1>1, SlotRange DEF TypeOK
<1>14. SlotsOfWindow'
  <2>1. ASSUME NEW t \in taken..(head - 1)
        PROVE  buffer'[Slot(t)] = NULL <=> \E q \in AtStep("store")' : h[q] = t
    <3>1. CASE t = h[p]
      BY <1>3, <1>6, <1>9, <1>12, <1>13, <3>1 DEF TicketsHeld
    <3>2. CASE t # h[p]
      <4>1. Slot(t) # Slot(h[p])
        BY <1>1, <1>9, <1>11, <3>2, WindowSlots
      <4> QED
        BY <1>6, <1>9, <1>12, <1>13, <3>2, <4>1 DEF SlotsOfWindow
    <3> QED
      BY <3>1, <3>2
  <2>2. \A s \in Slots :
          buffer'[s] # NULL => \E t \in taken..(head - 1) : Slot(t) = s
    BY <1>9, <1>11, <1>12 DEF SlotsOfWindow
  <2> QED
    BY <2>1, <2>2 DEF SlotsOfWindow, Slot
<1> QED
  BY <1>4, <1>5, <1>7, <1>8, <1>10, <1>14 DEF IInv, RingInv

\* The take moves the window's lower end past its first ticket, whose slot it
\* empties; a producer that has not stored cannot hold that ticket.
LEMMA DeqTakeInv ==
    ASSUME IInv, DeqTake PROVE IInv'
<1> USE DEF DeqTake, producerVars
<1>1. TypeOK /\ RingInv /\ CountAccounts
  BY DEF IInv
<1>2. /\ TicketsHeld /\ SlotsOfWindow /\ RoomForAll /\ tail = Slot(taken)
      /\ taken \in Nat /\ head \in Nat /\ taken <= head
  BY <1>1 DEF RingInv, TypeOK
<1>3. taken < head
  BY <1>1, <1>2 DEF SlotsOfWindow, TypeOK
<1>4. \A t \in taken..(head - 1) : t \in Nat /\ Slot(t) \in Slots
  BY <1>2, SlotRange
<1>5. \A t \in (taken + 1)..(head - 1) : t \in taken..(head - 1) /\ Slot(t) # tail
  <2>1. taken \in taken..(head - 1)
    BY <1>2, <1>3
  <2>2. ASSUME NEW t \in (taken + 1)..(head - 1)
        PROVE  t \in taken..(head - 1) /\ t # taken
    BY <1>2
  <2> QED
    BY <1>1, <1>2, <2>1, <2>2, WindowSlots
<1>6. tail' = Slot(taken') /\ tail' \in Slots /\ taken' = taken + 1
  BY <1>2, SlotSucc, SlotRange
<1>7. buffer[tail] \in Items
  BY <1>1 DEF TypeOK
<1>8. TypeOK'
  BY <1>1, <1>6, <1>7 DEF TypeOK, Items
<1>9. (tail = Slot(taken))' /\ (taken <= head)'
  BY <1>2, <1>3, <1>6 DEF Slot
<1>10. AtStep("store")' = AtStep("store") /\ Admitted' = Admitted /\ Rejecting' = Rejecting
  BY DEF AtStep, Admitted, Rejecting
<1>11. CountAccounts' /\ RoomForAll'
  <2>1. Owed = 0 /\ Owed' = 1
    BY DEF Owed
  <2>2. /\ Cardinality(Admitted) \in Nat /\ Cardinality(Rejecting) \in Nat
        /\ count \in Nat
    BY <1>1, FiniteSteps DEF Admitted, Rejecting, TypeOK
  <2> QED
    BY <1>1, <1>2, <1>3, <1>6, <1>10, <2>1, <2>2 DEF CountAccounts, RoomForAll
<1>12. \A q \in AtStep("store") : h[q] \in (taken + 1)..(head - 1)
  <2>1. ASSUME NEW q \in AtStep("store") PROVE h[q] # taken
    BY <1>2, <1>3 DEF SlotsOfWindow
  <2> QED
    BY <1>2, <2>1 DEF TicketsHeld
<1>13. TicketsHeld'
  BY <1>2, <1>6, <1>10, <1>12 DEF TicketsHeld
<1>14. \A s \in Slots : buffer'[s] = IF s = tail THEN NULL ELSE buffer[s]
  BY <1>1 DEF TypeOK
<1>15. SlotsOfWindow'
  <2>1. \A t \in (taken + 1)..(head - 1) :
          buffer'[Slot(t)] = NULL <=> \E q \in AtStep("store") : h[q] = t
    BY <1>2, <1>4, <1>5, <1>14 DEF SlotsOfWindow
  <2>2. ASSUME NEW s \in Slots, buffer'[s] # NULL
        PROVE  \E t \in (taken + 1)..(head - 1) : Slot(t) = s
    <3>1. s # tail /\ buffer[s] # NULL
      BY <1>14, <2>2
    <3>2. PICK t \in taken..(head - 1) : Slot(t) = s
      BY <1>2, <3>1 DEF SlotsOfWindow
    <3>3. t # taken
      BY <1>2, <3>1, <3>2
    <3> QED
      BY <1>2, <3>2, <3>3
  <2> QED
    BY <1>6, <1>10, <2>1, <2>2 DEF SlotsOfWindow, Slot
<1>16. Quiescent' /\ CallsHaveItem'
  BY <1>1 DEF RingInv, Quiescent, CallsHaveItem
<1> QED
  BY <1>8, <1>9, <1>11, <1>13, <1>15, <1>16 DEF IInv, RingInv

\* The fetch_sub pays what the take left owed, so that the room it gives back
\* is there (line 139).
LEMMA DeqReleaseInv ==
    ASSUME IInv, DeqRelease PROVE IInv'
<1> USE DEF DeqRelease, producerVars
<1>1. TypeOK /\ RingInv /\ CountAccounts
  BY DEF IInv
<1>2. \A s : AtStep(s)' = AtStep(s)
  BY DEF AtStep
<1>3. Admitted' = Admitted /\ Rejecting' = Rejecting /\ Owed = 1 /\ Owed' = 0
  BY <1>2 DEF Admitted, Rejecting, Owed
<1>4. /\ Cardinality(Admitted) \in Nat /\ Cardinality(Rejecting) \in Nat
      /\ count \in Nat /\ head \in Nat /\ taken \in Nat /\ taken <= head
  BY <1>1, FiniteSteps DEF Admitted, Rejecting, TypeOK, RingInv
<1>5. CountAccounts' /\ RoomForAll' /\ count' \in Nat
  BY <1>1, <1>3, <1>4, MaxType DEF CountAccounts, RoomForAll, RingInv
<1>6. TypeOK'
  BY <1>1, <1>5 DEF TypeOK
<1>7. (tail = Slot(taken))' /\ (taken <= head)' /\ TicketsHeld' /\ SlotsOfWindow'
  BY <1>2, RingUntouched
<1>8. Quiescent' /\ CallsHaveItem'
  BY <1>1 DEF RingInv, Quiescent, CallsHaveItem
<1> QED
  BY <1>5, <1>6, <1>7, <1>8 DEF IInv, RingInv

\* Destroy and DrainEnd change the phase alone.
LEMMA PhaseInv ==
    ASSUME IInv, UNCHANGED <<count, head, buffer, tail, pc, h, cpc, ret, sent, taken, got>>,
           phase' \in {"live", "drain", "gone"}, Quiescent'
    PROVE  IInv'
<1>1. TypeOK /\ RingInv /\ CountAccounts
  BY DEF IInv
<1>2. \A s : AtStep(s)' = AtStep(s)
  BY DEF AtStep
<1>3. Admitted' = Admitted /\ Rejecting' = Rejecting /\ Owed' = Owed
  BY <1>2 DEF Admitted, Rejecting, Owed
<1>4. CountAccounts' /\ RoomForAll' /\ CallsHaveItem'
  BY <1>1, <1>3 DEF CountAccounts, RoomForAll, RingInv, CallsHaveItem
<1>5. TypeOK'
  BY <1>1 DEF TypeOK
<1>6. (tail = Slot(taken))' /\ (taken <= head)' /\ TicketsHeld' /\ SlotsOfWindow'
  BY <1>2, RingUntouched
<1> QED
  BY <1>4, <1>5, <1>6 DEF IInv, RingInv

\* The destructor begins with no call in progress (line 95).
LEMMA DestroyInv ==
    ASSUME IInv, Destroy PROVE IInv'
<1>1. Quiescent'
  BY DEF Destroy, producerVars, Quiescent
<1> QED
  BY <1>1, PhaseInv DEF Destroy, producerVars, consumerVars

\* The destructor's loop cannot stop early: with no call in progress the oldest
\* ticket's slot is empty only if there is no ticket.
LEMMA DrainEndInv ==
    ASSUME IInv, DrainEnd PROVE IInv'
<1>1. TypeOK /\ RingInv
  BY DEF IInv
<1>2. \A p \in Producers : pc[p] = "idle"
  BY <1>1 DEF DrainEnd, RingInv, Quiescent
<1>3. taken = head
  <2>1. SUFFICES ASSUME taken < head PROVE FALSE
    BY <1>1 DEF RingInv, TypeOK
  <2>2. taken \in taken..(head - 1) /\ buffer[Slot(taken)] = NULL
    BY <1>1, <2>1 DEF RingInv, TypeOK, DrainEnd
  <2>3. \E p \in AtStep("store") : h[p] = taken
    BY <1>1, <2>2 DEF RingInv, SlotsOfWindow
  <2> QED
    BY <1>2, <2>3 DEF AtStep
<1>4. Quiescent'
  BY <1>2, <1>3 DEF DrainEnd, producerVars, consumerVars, Quiescent
<1> QED
  BY <1>4, PhaseInv DEF DrainEnd, producerVars, consumerVars

\* Every step of the queue preserves the invariant.
LEMMA NextInv == IInv /\ [Next]_vars => IInv'
<1> SUFFICES ASSUME IInv, [Next]_vars PROVE IInv'
  OBVIOUS
<1>1. ASSUME NEW p \in Producers, Enqueue(p) PROVE IInv'
  BY <1>1, EnqCallInv, EnqCheckInv, EnqAddInv, EnqBackOffInv, EnqTicketInv,
     EnqStoreInv DEF Enqueue
<1>2. CASE Dequeue
  BY <1>2, DeqTakeInv, DeqReleaseInv DEF Dequeue
<1>3. CASE Destroy
  BY <1>3, DestroyInv
<1>4. CASE DrainEnd
  BY <1>4, DrainEndInv
<1>5. CASE UNCHANGED vars
  <2>1. Quiescent /\ TypeOK
    BY DEF IInv, RingInv
  <2>2. Quiescent' /\ phase' \in {"live", "drain", "gone"}
    BY <1>5, <2>1 DEF vars, Quiescent, TypeOK
  <2> QED
    BY <1>5, <2>2, PhaseInv DEF vars
<1> QED
  BY <1>1, <1>2, <1>3, <1>4, <1>5 DEF Next

-----------------------------------------------------------------------------
(* The theorems *)

\* Every reachable state satisfies the ring invariant: the consumer's index,
\* the outstanding tickets, the slots and count always agree.
THEOREM RingInvariant == Spec => []IInv
<1> QED
  BY InitInv, NextInv, PTL DEF Spec

\* The part of it a run checks.
THEOREM RingIsConsistent == Spec => []RingInv
<1>1. IInv => RingInv
  BY DEF IInv
<1> QED
  BY RingInvariant, <1>1, PTL

\* The variables keep their types; above all count never goes below zero.
THEOREM TypeCorrect == Spec => []TypeOK
<1>1. IInv => TypeOK
  BY DEF IInv
<1> QED
  BY RingInvariant, <1>1, PTL

\* The debug assertion of line 121: a ticket's slot is empty when its producer
\* stores, so no item is ever overwritten.
THEOREM NeverOverwrites == Spec => []NoOverwrite
<1>1. IInv => NoOverwrite
  <2> SUFFICES ASSUME IInv, NEW p \in AtStep("store")
               PROVE  buffer[Slot(h[p])] = NULL
    BY DEF NoOverwrite
  <2>1. h[p] \in taken..(head - 1)
    BY DEF IInv, RingInv, TicketsHeld
  <2> QED
    BY <2>1 DEF IInv, RingInv, SlotsOfWindow
<1> QED
  BY RingInvariant, <1>1, PTL

\* What count is between calls and inside them, and the assertion of line 140.
THEOREM CountIsExact == Spec => []CountAccounts
<1>1. IInv => CountAccounts
  BY DEF IInv
<1> QED
  BY RingInvariant, <1>1, PTL

\* A nullptr from dequeue means that the oldest ticket has no item yet.
THEOREM NullIsJustified == Spec => []NullMeansPending
<1>1. IInv => NullMeansPending
  <2> SUFFICES ASSUME IInv, buffer[tail] = NULL, taken # head
               PROVE  \E p \in AtStep("store") : h[p] = taken
    BY DEF NullMeansPending
  <2>1. taken \in taken..(head - 1) /\ tail = Slot(taken) /\ SlotsOfWindow
    BY DEF IInv, RingInv, TypeOK
  <2> QED
    BY <2>1 DEF SlotsOfWindow
<1> QED
  BY RingInvariant, <1>1, PTL

\* The destructor's loop, which stops at the first empty slot, leaves none full.
THEOREM DrainIsComplete == Spec => []DrainLeavesNothing
<1>1. IInv => DrainLeavesNothing
  <2> SUFFICES ASSUME IInv, phase = "gone", NEW s \in Slots, buffer[s] # NULL
               PROVE  FALSE
    BY DEF DrainLeavesNothing
  <2>1. taken = head /\ head \in Nat
    BY DEF IInv, RingInv, Quiescent, TypeOK
  <2>2. \E t \in taken..(head - 1) : Slot(t) = s
    BY DEF IInv, RingInv, SlotsOfWindow
  <2> QED
    BY <2>1, <2>2
<1> QED
  BY RingInvariant, <1>1, PTL

-----------------------------------------------------------------------------
(* Parts of the invariant that the proofs below use again and again *)

Window == taken..(head - 1)

\* The items of one producer differ in their numbers only.
LEMMA ItemFields ==
    \A i \in Items : i[1] \in Producers /\ i[2] \in 1..Quota /\ i = <<i[1], i[2]>>
BY DEF Items

\* The tickets in the window and the slots they mask to.
LEMMA WindowType ==
    ASSUME TypeOK
    PROVE  /\ \A t \in Window : t \in Nat /\ Slot(t) \in Slots
           /\ \A t \in Window : buffer[Slot(t)] # NULL => buffer[Slot(t)] \in Items
BY SlotRange DEF TypeOK, Window

\* Every full slot is the slot of exactly one ticket of the window.
LEMMA TicketOfSlot ==
    ASSUME IInv, NEW s \in Slots, buffer[s] # NULL
    PROVE  \E t \in Window : Slot(t) = s
BY DEF IInv, RingInv, SlotsOfWindow, Window

-----------------------------------------------------------------------------
(* Nothing is lost, duplicated or overtaken *)

FifoInv == IInv /\ NothingLost

\* An empty ring loses nothing.
LEMMA InitFifo == Init => NothingLost
<1> SUFFICES ASSUME Init PROVE NothingLost
  OBVIOUS
<1>1. \A p \in Producers : InRing(p) = {}
  BY NullAssumption DEF Init, InRing
<1>2. \A p \in Producers : (got[p] + 1)..sent[p] = {}
  BY DEF Init
<1>3. InTicketOrder
  BY DEF Init, InTicketOrder
<1> QED
  BY <1>1, <1>2, <1>3 DEF NothingLost, Init

\* What the steps that neither fill nor empty a slot preserve.
LEMMA FifoUntouched ==
    ASSUME NothingLost, UNCHANGED <<head, buffer, sent, taken, got>>,
           \A p \in Producers : pc'[p] = "store" => pc[p] = "store" /\ h'[p] = h[p]
    PROVE  NothingLost'
<1>1. \A p \in Producers : InRing(p)' = InRing(p)
  BY DEF InRing
<1>2. \A t, p : Holds(t, p)' <=> Holds(t, p)
  BY DEF Holds, Slot
<1>3. InTicketOrder'
  BY <1>2 DEF InTicketOrder, NothingLost, Slot
<1> QED
  BY <1>1, <1>3 DEF NothingLost

\* A new ticket is later than every one in the window, and its slot is empty.
LEMMA EnqTicketFifo ==
    ASSUME FifoInv, NEW p \in Producers, EnqTicket(p) PROVE NothingLost'
<1> USE DEF EnqTicket, consumerVars
<1>1. TypeOK /\ RingInv /\ NothingLost /\ IInv'
  BY EnqTicketInv DEF FifoInv, IInv
<1>2. head \in Nat /\ taken \in Nat /\ taken <= head
  BY <1>1 DEF TypeOK, RingInv
<1>3. \A q \in Producers : InRing(q)' = InRing(q)
  BY DEF InRing
<1>4. h'[p] = head /\ \A q \in Producers \ {p} : h'[q] = h[q] /\ pc'[q] = pc[q]
  BY <1>1 DEF TypeOK
<1>5. \A t, q : Holds(t, q)' <=> Holds(t, q)
  BY DEF Holds, Slot
<1>6. buffer[Slot(head)] = NULL
  BY NextSlotEmpty DEF FifoInv, AtStep
<1>7. InTicketOrder'
  <2> SUFFICES ASSUME NEW q \in Producers, NEW t \in taken..head, Holds(t, q)
               PROVE  /\ pc'[q] = "store" => t < h'[q]
                      /\ \A u \in (t + 1)..head :
                           Holds(u, q) => buffer[Slot(t)][2] < buffer[Slot(u)][2]
    BY <1>2, <1>5 DEF InTicketOrder, Slot
  <2>1. t # head
    BY <1>6 DEF Holds
  <2>2. t \in taken..(head - 1)
    BY <1>2, <2>1
  <2>3. pc'[q] = "store" => t < h'[q]
    BY <1>1, <1>2, <1>4, <2>2 DEF NothingLost, InTicketOrder
  <2>4. ASSUME NEW u \in (t + 1)..head, Holds(u, q)
        PROVE  buffer[Slot(t)][2] < buffer[Slot(u)][2]
    <3>1. u \in (t + 1)..(head - 1)
      BY <1>2, <1>6, <2>2, <2>4 DEF Holds
    <3> QED
      BY <1>1, <2>2, <2>4, <3>1 DEF NothingLost, InTicketOrder
  <2> QED
    BY <2>3, <2>4
<1> QED
  BY <1>1, <1>3, <1>7 DEF NothingLost
\* The stored item is its producer's next, and its ticket the producer's last.
LEMMA EnqStoreFifo ==
    ASSUME FifoInv, NEW p \in Producers, EnqStore(p) PROVE NothingLost'
<1> USE DEF EnqStore, consumerVars
<1>1. TypeOK /\ RingInv /\ NothingLost
  BY DEF FifoInv, IInv
<1>2. p \in AtStep("store") /\ h[p] \in Window /\ h[p] \in Nat /\ Slot(h[p]) \in Slots
  BY <1>1, WindowType DEF AtStep, RingInv, TicketsHeld, Window
<1>3. buffer[Slot(h[p])] = NULL
  BY <1>1, <1>2 DEF RingInv, SlotsOfWindow, Window
<1>4. /\ sent[p] \in Nat /\ sent[p] + 1 \in 1..Quota
      /\ \A q \in Producers : got[q] \in Nat /\ sent[q] \in Nat
  BY <1>1, QuotaAssumption DEF TypeOK, RingInv, CallsHaveItem
<1>5. Held(p) = <<p, sent[p] + 1>> /\ Held(p) # NULL
  BY <1>4, NullAssumption DEF Held
<1>6. \A s \in Slots : buffer'[s] = IF s = Slot(h[p]) THEN Held(p) ELSE buffer[s]
  BY <1>1 DEF TypeOK
<1>7. \A q \in Producers : sent'[q] = IF q = p THEN sent[q] + 1 ELSE sent[q]
  BY <1>1 DEF TypeOK
<1>8. ASSUME NEW q \in Producers
      PROVE  got[q] <= sent'[q] /\ InRing(q)' = (got[q] + 1)..sent'[q]
  <2>1. /\ got[q] <= sent[q] /\ InRing(q) = (got[q] + 1)..sent[q]
        /\ InRing(p) = (got[p] + 1)..sent[p]
    BY <1>1 DEF NothingLost
  <2>2. \A n \in 1..Quota : n \in InRing(q)' <=> n \in InRing(q) \/ <<q, n>> = Held(p)
    <3> SUFFICES ASSUME NEW n \in 1..Quota
                 PROVE  (\E s \in Slots : buffer'[s] = <<q, n>>) <=>
                        (\E s \in Slots : buffer[s] = <<q, n>>) \/ <<q, n>> = Held(p)
      BY DEF InRing
    <3>1. <<q, n>> # NULL
      BY NullAssumption
    <3> QED
      BY <1>2, <1>3, <1>6, <3>1
  <2>3. CASE q # p
    <3>1. InRing(q)' = InRing(q)
      <4>1. \A n \in 1..Quota : <<q, n>> # Held(p)
        BY <1>5, <2>3
      <4>2. InRing(q) \subseteq 1..Quota /\ InRing(q)' \subseteq 1..Quota
        BY DEF InRing
      <4> HIDE DEF EnqStore
      <4> QED
        BY <2>2, <4>1, <4>2
    <3> QED
      BY <1>7, <2>1, <2>3, <3>1
  <2>4. CASE q = p
    <3>1. InRing(p)' = InRing(p) \cup {sent[p] + 1}
      <4>1. \A n \in 1..Quota : <<q, n>> = Held(p) <=> n = sent[p] + 1
        BY <1>5, <2>4
      <4>2. InRing(p) \subseteq 1..Quota /\ InRing(p)' \subseteq 1..Quota
        BY DEF InRing
      <4> HIDE DEF EnqStore
      <4> QED
        BY <1>4, <2>2, <2>4, <4>1, <4>2
    <3>2. got[p] <= sent[p]
      BY <1>1 DEF NothingLost
    <3>3. ((got[p] + 1)..sent[p]) \cup {sent[p] + 1} = (got[p] + 1)..(sent[p] + 1)
      BY <1>4, <3>2
    <3> QED
      BY <1>4, <1>7, <2>1, <2>4, <3>1, <3>2, <3>3
  <2> QED
    BY <2>3, <2>4
<1>9. InTicketOrder'
  <2> SUFFICES ASSUME NEW q \in Producers, NEW t \in Window, Holds(t, q)'
               PROVE  /\ pc'[q] = "store" => t < h[q]
                      /\ \A u \in (t + 1)..(head - 1) :
                           Holds(u, q)' => buffer'[Slot(t)][2] < buffer'[Slot(u)][2]
    BY DEF InTicketOrder, Slot, Window
  <2>1. \A u \in Window : u # h[p] =>
          buffer'[Slot(u)] = buffer[Slot(u)] /\ (Holds(u, q)' <=> Holds(u, q))
    <3>1. \A u \in Window : u # h[p] => Slot(u) # Slot(h[p])
      BY <1>1, <1>2, WindowSlots DEF RingInv, Window
    <3> QED
      BY <1>1, <1>6, <3>1, WindowType DEF Holds, Slot
  <2>2. \A u \in (t + 1)..(head - 1) : u \in Window
    BY <1>1, WindowType DEF Window, TypeOK
  <2>3. buffer'[Slot(h[p])] = <<p, sent[p] + 1>>
    BY <1>2, <1>5, <1>6
  <2>4. CASE t = h[p]
    <3>1. q = p
      BY <2>3, <2>4 DEF Holds, Slot
    <3>2. pc'[q] # "store"
      BY <1>1, <3>1 DEF TypeOK
    <3>3. \A u \in (t + 1)..(head - 1) : ~Holds(u, q)'
      <4> SUFFICES ASSUME NEW u \in (t + 1)..(head - 1), Holds(u, p) PROVE FALSE
        BY <1>1, <1>2, <2>1, <2>2, <2>4, <3>1
      <4>1. u < h[p]
        BY <1>1, <2>2 DEF NothingLost, InTicketOrder, Window
      <4> QED
        BY <1>2, <2>4, <4>1
    <3> QED
      BY <3>2, <3>3
  <2>5. CASE t # h[p]
    <3>1. Holds(t, q) /\ buffer'[Slot(t)] = buffer[Slot(t)]
      BY <2>1, <2>5
    <3>2. pc'[q] = "store" => t < h[q]
      BY <1>1, <3>1 DEF NothingLost, InTicketOrder, TypeOK, Window
    <3>3. ASSUME NEW u \in (t + 1)..(head - 1), Holds(u, q)'
          PROVE  buffer'[Slot(t)][2] < buffer'[Slot(u)][2]
      <4>1. CASE u = h[p]
        <5>1. q = p
          BY <2>3, <3>3, <4>1 DEF Holds, Slot
        <5>2. buffer[Slot(t)] = <<p, buffer[Slot(t)][2]>> /\ buffer[Slot(t)][2] \in 1..Quota
          BY <1>1, <3>1, <5>1, WindowType, ItemFields DEF Holds
        <5>3. buffer[Slot(t)][2] \in InRing(p)
          BY <1>1, <5>2, WindowType DEF InRing
        <5> QED
          BY <1>1, <1>4, <2>3, <3>1, <4>1, <5>3 DEF NothingLost
      <4>2. CASE u # h[p]
        BY <1>1, <2>1, <2>2, <3>1, <3>3, <4>2 DEF NothingLost, InTicketOrder, Window
      <4> QED
        BY <4>1, <4>2
    <3> QED
      BY <3>2, <3>3
  <2> QED
    BY <2>4, <2>5
<1> QED
  BY <1>8, <1>9 DEF NothingLost

\* The item of the oldest ticket is the first of its producer's not yet taken:
\* an earlier one would have to lie behind a later ticket.
LEMMA DeqTakeFifo ==
    ASSUME FifoInv, DeqTake PROVE NothingLost'
<1> USE DEF DeqTake, producerVars
<1>1. TypeOK /\ RingInv /\ NothingLost /\ IInv
  BY DEF FifoInv, IInv
<1>2. head \in Nat /\ taken \in Nat /\ tail = Slot(taken) /\ tail \in Slots
  BY <1>1 DEF TypeOK, RingInv
<1>3. taken \in Window
  <2>1. \E t \in Window : TRUE
    BY <1>1, <1>2, TicketOfSlot
  <2> QED
    BY <1>2, <2>1 DEF Window
<1>4. PICK p \in Producers, n \in 1..Quota : buffer[tail] = <<p, n>>
  BY <1>1, <1>2 DEF TypeOK, Items
<1>5. \A q \in Producers : got[q] \in Nat /\ sent[q] \in Nat
  BY <1>1, QuotaAssumption DEF TypeOK
<1>6. \A s \in Slots : buffer'[s] = IF s = tail THEN NULL ELSE buffer[s]
  BY <1>1 DEF TypeOK
<1>7. n \in InRing(p)
  BY <1>2, <1>4 DEF InRing
<1>8. n = got[p] + 1
  <2> SUFFICES ASSUME n # got[p] + 1 PROVE FALSE
    OBVIOUS
  <2>1. n \in (got[p] + 1)..sent[p]
    BY <1>1, <1>4, <1>7 DEF NothingLost
  <2>2. got[p] + 1 \in InRing(p) /\ got[p] + 1 < n
    BY <1>1, <1>4, <1>5, <2>1 DEF NothingLost
  <2>3. PICK s \in Slots : buffer[s] = <<p, got[p] + 1>>
    BY <2>2 DEF InRing
  <2>4. got[p] + 1 \in 1..Quota
    BY <2>2 DEF InRing
  <2>5. PICK t \in Window : Slot(t) = s
    BY <1>1, <1>4, <2>3, <2>4, NullAssumption, TicketOfSlot
  <2>6. t \in (taken + 1)..(head - 1)
    BY <1>2, <1>4, <2>2, <2>3, <2>5 DEF Window
  <2>7. Holds(taken, p) /\ Holds(t, p)
    BY <1>2, <1>4, <2>3, <2>4, <2>5, NullAssumption DEF Holds
  <2>8. buffer[Slot(taken)][2] < buffer[Slot(t)][2]
    BY <1>1, <1>3, <1>4, <2>6, <2>7 DEF NothingLost, InTicketOrder, Window
  <2> QED
    BY <1>2, <1>4, <1>5, <2>2, <2>3, <2>5, <2>8
<1>9. \A q \in Producers : got'[q] = IF q = p THEN n ELSE got[q]
  BY <1>1, <1>4 DEF TypeOK
<1>10. ASSUME NEW q \in Producers
       PROVE  got'[q] <= sent[q] /\ InRing(q)' = (got'[q] + 1)..sent[q]
  <2>1. got[q] <= sent[q] /\ InRing(q) = (got[q] + 1)..sent[q]
    BY <1>1 DEF NothingLost
  <2>2. InRing(q) \subseteq 1..Quota /\ InRing(q)' \subseteq 1..Quota
    BY DEF InRing
  <2>3. ASSUME NEW m \in 1..Quota
        PROVE  m \in InRing(q)' <=> m \in InRing(q) /\ <<q, m>> # <<p, n>>
    <3>1. <<q, m>> # NULL
      BY NullAssumption
    <3>2. ASSUME NEW s \in Slots, buffer[s] = <<p, n>> PROVE s = tail
      <4>1. PICK t \in Window : Slot(t) = s
        BY <1>1, <1>4, <3>2, NullAssumption, TicketOfSlot
      <4>2. t = taken
        <5> SUFFICES ASSUME t \in (taken + 1)..(head - 1) PROVE FALSE
          BY <1>2, <4>1 DEF Window
        <5>1. Holds(taken, p) /\ Holds(t, p)
          BY <1>2, <1>4, <3>2, <4>1, NullAssumption DEF Holds
        <5>2. buffer[Slot(taken)][2] < buffer[Slot(t)][2]
          BY <1>1, <1>3, <1>4, <5>1 DEF NothingLost, InTicketOrder, Window
        <5> QED
          BY <1>2, <1>4, <3>2, <4>1, <5>2
      <4> QED
        BY <1>2, <4>1, <4>2
    <3>3. (\E s \in Slots : buffer'[s] = <<q, m>>) <=>
          (\E s \in Slots : buffer[s] = <<q, m>>) /\ <<q, m>> # <<p, n>>
      BY <1>2, <1>4, <1>6, <3>1, <3>2
    <3> QED
      BY <3>3 DEF InRing
  <2> HIDE DEF DeqTake
  <2>4. CASE q = p
    <3>1. InRing(p)' = InRing(p) \ {n}
      BY <2>2, <2>3, <2>4
    <3>2. got[p] + 1 <= sent[p]
      BY <1>5, <1>7, <1>8, <2>1, <2>4
    <3>3. ((got[p] + 1)..sent[p]) \ {got[p] + 1} = (got[p] + 1 + 1)..sent[p]
      BY <1>4, <1>5
    <3> QED
      BY <1>5, <1>8, <1>9, <2>1, <2>4, <3>1, <3>2, <3>3
  <2>5. CASE q # p
    <3>1. InRing(q)' = InRing(q)
      BY <2>2, <2>3, <2>5
    <3> QED
      BY <1>9, <2>1, <2>5, <3>1
  <2> QED
    BY <2>4, <2>5
<1>11. InTicketOrder'
  <2>1. \A t \in (taken + 1)..(head - 1) : t \in Window
    BY <1>2 DEF Window
  <2>2. \A t \in Window, q \in Producers : Holds(t, q)' => Holds(t, q) /\ buffer'[Slot(t)] = buffer[Slot(t)]
    BY <1>1, <1>6, WindowType DEF Holds, Slot
  <2> SUFFICES ASSUME NEW q \in Producers, NEW t \in (taken + 1)..(head - 1), Holds(t, q)'
               PROVE  /\ pc[q] = "store" => t < h[q]
                      /\ \A u \in (t + 1)..(head - 1) :
                           Holds(u, q)' => buffer'[Slot(t)][2] < buffer'[Slot(u)][2]
    BY DEF InTicketOrder, Slot
  <2>3. \A u \in (t + 1)..(head - 1) : u \in Window
    BY <1>2 DEF Window
  <2> QED
    BY <1>1, <2>1, <2>2, <2>3 DEF NothingLost, InTicketOrder, Window
<1> QED
  BY <1>10, <1>11 DEF NothingLost

\* Every step preserves it.
LEMMA FifoNext == FifoInv /\ [Next]_vars => FifoInv'
<1> SUFFICES ASSUME FifoInv, [Next]_vars PROVE NothingLost'
  BY NextInv DEF FifoInv
<1>1. pc \in [Producers -> Steps] /\ NothingLost
  BY DEF FifoInv, IInv, TypeOK, Steps
<1>2. ASSUME NEW p \in Producers, EnqCall(p) \/ EnqCheck(p) \/ EnqAdd(p) \/ EnqBackOff(p)
      PROVE  NothingLost'
  <2>1. \A q \in Producers : pc'[q] = "store" => pc[q] = "store"
    BY <1>1, <1>2 DEF EnqCall, EnqCheck, EnqAdd, EnqBackOff
  <2> QED
    BY <1>1, <1>2, <2>1, FifoUntouched
    DEF EnqCall, EnqCheck, EnqAdd, EnqBackOff, consumerVars
<1>3. ASSUME NEW p \in Producers, EnqTicket(p) \/ EnqStore(p) PROVE NothingLost'
  BY <1>3, EnqTicketFifo, EnqStoreFifo
<1>4. CASE DeqTake
  BY <1>4, DeqTakeFifo
<1>5. CASE DeqRelease \/ Destroy \/ DrainEnd \/ UNCHANGED vars
  BY <1>1, <1>5, FifoUntouched
  DEF DeqRelease, Destroy, DrainEnd, vars, producerVars, consumerVars
<1> QED
  BY <1>2, <1>3, <1>4, <1>5 DEF Next, Enqueue, Dequeue

\* The ring invariant and the order of the items, in every reachable state.
THEOREM FifoInvariant == Spec => []FifoInv
<1>1. Init => FifoInv
  BY InitInv, InitFifo DEF FifoInv
<1> QED
  BY <1>1, FifoNext, PTL DEF Spec

\* From each producer the ring holds exactly what was sent and not yet taken,
\* in order: the consumer misses nothing, gets nothing twice, nothing early.
THEOREM NothingIsLost == Spec => []NothingLost
<1>1. FifoInv => NothingLost
  BY DEF FifoInv
<1> QED
  BY FifoInvariant, <1>1, PTL

-----------------------------------------------------------------------------
(* The channel a state of the ring stands for *)

\* What a place of the window shows: the item in its slot, or the one its only
\* claimant has not stored yet.
PlacesOK ==
    \A t \in Window :
        /\ Place(t) \in Channel!Cell
        /\ buffer[Slot(t)] # NULL =>
              Place(t) = [item |-> buffer[Slot(t)], ready |-> TRUE]
        /\ buffer[Slot(t)] = NULL => \E p \in AtStep("store") : h[p] = t
        /\ \A p \in AtStep("store") : h[p] = t =>
              /\ buffer[Slot(t)] = NULL
              /\ Place(t) = [item |-> Held(p), ready |-> FALSE]

\* A producer at its store holds an item.
LEMMA HeldType ==
    ASSUME IInv
    PROVE  \A p \in Producers : pc[p] # "idle" => Held(p) \in Items /\ Held(p) # NULL
BY QuotaAssumption, NullAssumption
DEF IInv, TypeOK, RingInv, CallsHaveItem, Held, Items

\* The mapping is right about every place: claimants are unique.
LEMMA Places == IInv => PlacesOK
<1> SUFFICES ASSUME IInv, NEW t \in Window
             PROVE  /\ Place(t) \in Channel!Cell
                    /\ buffer[Slot(t)] # NULL =>
                          Place(t) = [item |-> buffer[Slot(t)], ready |-> TRUE]
                    /\ buffer[Slot(t)] = NULL => \E p \in AtStep("store") : h[p] = t
                    /\ \A p \in AtStep("store") : h[p] = t =>
                          /\ buffer[Slot(t)] = NULL
                          /\ Place(t) = [item |-> Held(p), ready |-> FALSE]
  BY DEF PlacesOK
<1>1. TypeOK /\ TicketsHeld /\ SlotsOfWindow
  BY DEF IInv, RingInv
<1>2. buffer[Slot(t)] = NULL <=> \E p \in AtStep("store") : h[p] = t
  BY <1>1 DEF SlotsOfWindow, Window
<1>3. CASE buffer[Slot(t)] # NULL
  <2>1. Place(t) = [item |-> buffer[Slot(t)], ready |-> TRUE]
    BY <1>3 DEF Place
  <2> QED
    BY <1>1, <1>2, <1>3, <2>1, WindowType DEF Channel!Cell
<1>4. CASE buffer[Slot(t)] = NULL
  <2>1. PICK p \in AtStep("store") : h[p] = t
    BY <1>2, <1>4
  <2>2. \A q \in AtStep("store") : h[q] = t => q = p
    BY <1>1, <2>1 DEF TicketsHeld
  <2>3. Claimants(t) = {p}
    BY <2>1, <2>2 DEF Claimants
  <2>4. (CHOOSE q \in {p} : TRUE) = p
    OBVIOUS
  <2>5. Place(t) = [item |-> Held(p), ready |-> FALSE]
    BY <1>4, <2>3, <2>4 DEF Place
  <2>6. Held(p) \in Items
    BY <2>1, HeldType DEF AtStep
  <2>7. Place(t) \in Channel!Cell
    BY <2>5, <2>6 DEF Channel!Cell
  <2> QED
    BY <1>4, <2>1, <2>2, <2>5, <2>7
<1> QED
  BY <1>3, <1>4

\* The channel is the sequence of the places of the window.
ChanOK ==
    /\ head \in Nat /\ taken \in Nat /\ taken <= head
    /\ chanBar \in Seq(Channel!Cell)
    /\ Len(chanBar) = head - taken
    /\ \A k \in 1..(head - taken) :
          taken + k - 1 \in Window /\ chanBar[k] = Place(taken + k - 1)

\* A function on 1..n is a sequence of length n.
LEMMA SeqOfFunction ==
    ASSUME NEW S, NEW n \in Nat, NEW f \in [1..n -> S]
    PROVE  f \in Seq(S) /\ Len(f) = n
OBVIOUS

\* The invariant makes it one.
LEMMA ChanShape == IInv => ChanOK
<1> SUFFICES ASSUME IInv PROVE ChanOK
  OBVIOUS
<1>1. head \in Nat /\ taken \in Nat /\ taken <= head
  BY DEF IInv, TypeOK, RingInv
<1>2. \A k \in 1..(head - taken) : taken + k - 1 \in Window
  BY <1>1 DEF Window
<1>3. \A k \in 1..(head - taken) :
        /\ Place(taken + k - 1) \in Channel!Cell
        /\ chanBar[k] = Place(taken + k - 1)
  BY <1>2, Places DEF PlacesOK, chanBar
<1>4. chanBar \in [1..(head - taken) -> Channel!Cell]
  BY <1>3 DEF chanBar
<1>5. head - taken \in Nat
  BY <1>1
<1> QED
  BY <1>1, <1>2, <1>3, <1>4, <1>5, SeqOfFunction DEF ChanOK

\* A place stays as it is when its slot and its claimant do.
LEMMA SamePlace ==
    ASSUME PlacesOK, PlacesOK', NEW t \in Window, t \in Window',
           buffer'[Slot(t)] = buffer[Slot(t)],
           \A p \in AtStep("store") : h[p] = t =>
               p \in AtStep("store")' /\ h'[p] = t /\ sent'[p] = sent[p]
    PROVE  Place(t)' = Place(t)
<1>1. Slot(t)' = Slot(t)
  BY DEF Slot
<1>2. CASE buffer[Slot(t)] # NULL
  BY <1>1, <1>2 DEF PlacesOK
<1>3. CASE buffer[Slot(t)] = NULL
  <2>1. PICK p \in AtStep("store") : h[p] = t
    BY <1>3 DEF PlacesOK
  <2>2. Place(t) = [item |-> Held(p), ready |-> FALSE]
    BY <2>1 DEF PlacesOK
  <2>3. Place(t)' = [item |-> Held(p)', ready |-> FALSE]
    BY <2>1 DEF PlacesOK
  <2>4. Held(p)' = Held(p)
    BY <2>1 DEF Held
  <2> QED
    BY <2>2, <2>3, <2>4
<1> QED
  BY <1>2, <1>3

\* Equal windows with equal places are equal channels.
LEMMA SameChannel ==
    ASSUME ChanOK, ChanOK', UNCHANGED <<head, taken>>,
           \A t \in Window : Place(t)' = Place(t)
    PROVE  chanBar' = chanBar
<1>1. /\ chanBar \in Seq(Channel!Cell) /\ chanBar' \in Seq(Channel!Cell)
      /\ Len(chanBar') = Len(chanBar)
  BY DEF ChanOK, Channel!Cell
<1>2. \A k \in 1..Len(chanBar) : chanBar'[k] = chanBar[k]
  BY DEF ChanOK
<1> QED
  BY <1>1, <1>2, SeqEqual

-----------------------------------------------------------------------------
(* Every step of the ring is a step of the channel, or none *)

\* What a state and its successor are known to satisfy.
Related ==
    /\ FifoInv /\ PlacesOK /\ ChanOK
    /\ FifoInv' /\ PlacesOK' /\ ChanOK'

\* Steps that leave slots, tickets and histories alone are no step of the channel.
LEMMA QuietStep ==
    ASSUME Related, UNCHANGED <<head, buffer, sent, taken, ret>>,
           \A p \in AtStep("store") : p \in AtStep("store")' /\ h'[p] = h[p]
    PROVE  UNCHANGED <<chanBar, ret>>
<1>1. \A t \in Window : t \in Window' /\ Place(t)' = Place(t)
  BY SamePlace DEF Related, Window
<1> QED
  BY <1>1, SameChannel DEF Related

\* The ticket claims the next place for the item its producer holds, which is
\* nowhere else in the channel.
LEMMA TicketClaims ==
    ASSUME Related, NEW p \in Producers, EnqTicket(p)
    PROVE  Channel!Claim(Held(p)) /\ Held(p) \in Items
<1> USE DEF EnqTicket, consumerVars
<1>1. TypeOK /\ IInv /\ NothingLost /\ pc[p] = "ticket"
  BY DEF Related, FifoInv, IInv
<1>2. Held(p) \in Items /\ Held(p) # NULL /\ Held(p)' = Held(p)
  BY <1>1, HeldType DEF Held
<1>3. /\ head \in Nat /\ taken \in Nat /\ taken <= head
      /\ chanBar \in Seq(Channel!Cell) /\ Len(chanBar) = head - taken
  BY DEF Related, ChanOK
<1>4. Len(chanBar) < max
  BY <1>1, <1>3, NextSlotEmpty, MaxType DEF AtStep
<1>5. ASSUME NEW k \in 1..Len(chanBar), chanBar[k].item = Held(p) PROVE FALSE
  <2>1. PICK t \in Window : chanBar[k] = Place(t)
    BY <1>3 DEF Related, ChanOK
  <2>2. CASE buffer[Slot(t)] # NULL
    <3>1. buffer[Slot(t)] = <<p, sent[p] + 1>>
      BY <1>5, <2>1, <2>2 DEF Related, PlacesOK, Held
    <3>2. sent[p] + 1 \in InRing(p)
      BY <1>1, <1>2, <3>1, WindowType DEF InRing, Held, Items
    <3>3. sent[p] + 1 \notin (got[p] + 1)..sent[p]
      BY <1>1, QuotaAssumption DEF TypeOK
    <3> QED
      BY <1>1, <3>2, <3>3 DEF NothingLost
  <2>3. CASE buffer[Slot(t)] = NULL
    <3>1. PICK q \in AtStep("store") : h[q] = t
      BY <2>3 DEF Related, PlacesOK
    <3>2. chanBar[k].item = Held(q)
      BY <2>1, <3>1 DEF Related, PlacesOK
    <3>3. q = p
      BY <1>5, <3>2 DEF Held
    <3> QED
      BY <1>1, <3>1, <3>3 DEF AtStep
  <2> QED
    BY <2>2, <2>3
<1> DEFINE e == [item |-> Held(p), ready |-> FALSE]
<1>6. chanBar' = Append(chanBar, e)
  <2>1. e \in Channel!Cell
    BY <1>2 DEF Channel!Cell
  <2> HIDE DEF e
  <2>2. /\ Append(chanBar, e) \in Seq(Channel!Cell)
        /\ Len(Append(chanBar, e)) = Len(chanBar) + 1
        /\ \A k \in 1..Len(chanBar) : Append(chanBar, e)[k] = chanBar[k]
        /\ Append(chanBar, e)[Len(chanBar) + 1] = e
    BY <1>3, <2>1, AppendProperties
  <2>3. /\ chanBar' \in Seq(Channel!Cell) /\ Len(chanBar') = Len(chanBar) + 1
        /\ \A k \in 1..(head + 1 - taken) : chanBar'[k] = Place(taken + k - 1)'
    BY <1>3 DEF Related, ChanOK, Channel!Cell
  <2>4. \A k \in 1..Len(chanBar) : chanBar'[k] = chanBar[k]
    <3> SUFFICES ASSUME NEW t \in Window PROVE Place(t)' = Place(t)
      BY <1>3, <2>3 DEF Related, ChanOK
    <3>1. t \in Window'
      BY <1>3 DEF Window
    <3>2. \A q \in AtStep("store") : q \in AtStep("store")' /\ h'[q] = h[q]
      BY <1>1 DEF AtStep, TypeOK
    <3> QED
      BY <3>1, <3>2, SamePlace DEF Related
  <2>5. chanBar'[Len(chanBar) + 1] = e
    <3>1. PICK t \in Nat : t = head
      BY <1>3
    <3>2. p \in AtStep("store")' /\ h'[p] = t /\ t \in Window'
      BY <1>1, <1>3, <3>1 DEF AtStep, TypeOK, Window
    <3>3. Place(t)' = [item |-> Held(p)', ready |-> FALSE]
      BY <3>2 DEF Related, PlacesOK
    <3>4. chanBar'[Len(chanBar) + 1] = Place(t)'
      <4>1. head + 1 - taken \in 1..(head + 1 - taken)
        BY <1>3
      <4>2. taken + (head + 1 - taken) - 1 = t /\ Len(chanBar) + 1 = head + 1 - taken
        BY <1>3, <3>1
      <4> QED
        BY <2>3, <4>1, <4>2
    <3> QED
      BY <1>2, <3>3, <3>4 DEF e
  <2>6. \A k \in 1..Len(chanBar') : chanBar'[k] = Append(chanBar, e)[k]
    BY <1>3, <2>2, <2>3, <2>4, <2>5
  <2> QED
    BY <2>2, <2>3, <2>6, SeqEqual
<1> QED
  BY <1>2, <1>4, <1>5, <1>6 DEF Channel!Claim

\* What publishing does to a place.
LEMMA PublishedCell ==
    ASSUME NEW i, NEW a, NEW b
    PROVE  [[item |-> i, ready |-> a] EXCEPT !.ready = b] = [item |-> i, ready |-> b]
OBVIOUS

\* The store publishes the place its producer claimed.
LEMMA StorePublishes ==
    ASSUME Related, NEW p \in Producers, EnqStore(p)
    PROVE  \E k \in 1..Len(chanBar) : Channel!Publish(k)
<1> USE DEF EnqStore, consumerVars
<1>1. TypeOK /\ RingInv /\ IInv /\ p \in AtStep("store") /\ pc[p] = "store"
  BY DEF Related, FifoInv, IInv, AtStep
<1>2. /\ head \in Nat /\ taken \in Nat /\ taken <= head
      /\ chanBar \in Seq(Channel!Cell) /\ Len(chanBar) = head - taken
      /\ chanBar' \in Seq(Channel!Cell) /\ Len(chanBar') = head - taken
      /\ \A k \in 1..(head - taken) : chanBar[k] = Place(taken + k - 1)
      /\ \A k \in 1..(head - taken) : chanBar'[k] = Place(taken + k - 1)'
  BY DEF Related, ChanOK, Channel!Cell
<1>3. PICK t \in Window : h[p] = t
  BY <1>1 DEF RingInv, TicketsHeld, Window
<1>4. t \in Nat /\ Slot(t) \in Slots /\ Slot(t)' = Slot(t) /\ t \in Window'
  BY <1>1, WindowType DEF Slot, Window
<1>5. PICK k \in 1..(head - taken) : k = t - taken + 1
  BY <1>2, <1>3, <1>4 DEF Window
<1>6. \A s \in Slots : buffer'[s] = IF s = Slot(t) THEN Held(p) ELSE buffer[s]
  BY <1>1, <1>3 DEF TypeOK
<1>7. Held(p) \in Items /\ Held(p) # NULL
  BY <1>1, HeldType
<1>8. Place(t) = [item |-> Held(p), ready |-> FALSE]
  BY <1>1, <1>3 DEF Related, PlacesOK
<1>9. Place(t)' = [item |-> Held(p), ready |-> TRUE]
  BY <1>4, <1>6, <1>7 DEF Related, PlacesOK
<1>10. ASSUME NEW u \in Window, u # t PROVE Place(u)' = Place(u)
  <2>1. Slot(u) # Slot(t) /\ Slot(u) \in Slots /\ u \in Window'
    BY <1>1, <1>10, WindowSlots, WindowType DEF RingInv, Window
  <2>2. buffer'[Slot(u)] = buffer[Slot(u)]
    BY <1>6, <2>1
  <2>3. \A q \in AtStep("store") : h[q] = u =>
          q \in AtStep("store")' /\ h'[q] = u /\ sent'[q] = sent[q]
    BY <1>1, <1>3, <1>10 DEF AtStep, TypeOK
  <2> QED
    BY <2>1, <2>2, <2>3, SamePlace DEF Related
<1> DEFINE e == [item |-> Held(p), ready |-> TRUE]
<1>11. chanBar[k] = [item |-> Held(p), ready |-> FALSE] /\ chanBar'[k] = e
  <2>1. taken + k - 1 = t
    BY <1>2, <1>4, <1>5
  <2> QED
    BY <1>2, <1>5, <1>8, <1>9, <2>1
<1>12. \A j \in 1..(head - taken) : j # k => chanBar'[j] = chanBar[j]
  <2> SUFFICES ASSUME NEW j \in 1..(head - taken), j # k
               PROVE  Place(taken + j - 1)' = Place(taken + j - 1)
    BY <1>2
  <2>1. PICK u \in Window : u = taken + j - 1
    <3>1. taken + j - 1 \in Window
      BY DEF Related, ChanOK
    <3> QED BY <3>1
  <2>2. u # t
    BY <1>2, <1>4, <1>5, <2>1
  <2>3. Place(taken + j - 1)' = Place(u)'
    BY <2>1
  <2> QED
    BY <1>10, <2>1, <2>2, <2>3
<1>13. chanBar' = [chanBar EXCEPT ![k].ready = TRUE]
  <2>1. [chanBar[k] EXCEPT !.ready = TRUE] = e /\ e \in Channel!Cell
    <3>1. [[item |-> Held(p), ready |-> FALSE] EXCEPT !.ready = TRUE] = e
      BY PublishedCell
    <3> QED
      BY <1>7, <1>11, <3>1 DEF Channel!Cell
  <2> HIDE DEF e
  <2>2. [chanBar EXCEPT ![k].ready = TRUE] = [chanBar EXCEPT ![k] = e]
    BY <2>1
  <2>3. /\ [chanBar EXCEPT ![k] = e] \in Seq(Channel!Cell)
        /\ Len([chanBar EXCEPT ![k] = e]) = Len(chanBar)
        /\ \A j \in 1..Len(chanBar) :
              [chanBar EXCEPT ![k] = e][j] = IF j = k THEN e ELSE chanBar[j]
    BY <1>2, <1>5, <2>1, ExceptSeq
  <2>4. chanBar' = [chanBar EXCEPT ![k] = e]
    BY <1>2, <1>11, <1>12, <2>3, SeqEqual
  <2> QED
    BY <2>2, <2>4
<1>14. Channel!Publish(k)
  BY <1>11, <1>13 DEF Channel!Publish
<1> QED
  BY <1>2, <1>14

\* The exchange takes the first place, which is published.
LEMMA TakeTakes ==
    ASSUME Related, DeqTake PROVE Channel!Take
<1> USE DEF DeqTake, producerVars
<1>1. TypeOK /\ RingInv /\ IInv
  BY DEF Related, FifoInv, IInv
<1>2. /\ head \in Nat /\ taken \in Nat /\ taken <= head
      /\ chanBar \in Seq(Channel!Cell) /\ Len(chanBar) = head - taken
      /\ chanBar' \in Seq(Channel!Cell) /\ Len(chanBar') = head - (taken + 1)
      /\ \A k \in 1..(head - taken) : chanBar[k] = Place(taken + k - 1)
      /\ \A k \in 1..(head - (taken + 1)), u \in Nat :
            u = taken + k => chanBar'[k] = Place(u)'
  <2>1. head \in Nat /\ taken \in Nat /\ taken <= head
    BY DEF Related, ChanOK
  <2>2. chanBar \in Seq(Channel!Cell) /\ Len(chanBar) = head - taken
    BY DEF Related, ChanOK
  <2>3. chanBar' \in Seq(Channel!Cell) /\ Len(chanBar') = head' - taken'
    BY DEF Related, ChanOK, Channel!Cell
  <2>4. \A k \in 1..(head - taken) : chanBar[k] = Place(taken + k - 1)
    BY DEF Related, ChanOK
  <2>5. \A k \in 1..(head' - taken'), u \in Nat :
           u = taken' + k - 1 => chanBar'[k] = Place(u)'
    BY DEF Related, ChanOK
  <2>6. head' = head /\ taken' = taken + 1
    OBVIOUS
  <2> HIDE DEF DeqTake, producerVars
  <2>7. ASSUME NEW k \in 1..(head - (taken + 1)), NEW u \in Nat, u = taken + k
        PROVE  k \in 1..(head' - taken') /\ u = taken' + k - 1
    BY <2>1, <2>6, <2>7
  <2> QED
    BY <2>1, <2>2, <2>3, <2>4, <2>5, <2>6, <2>7
<1>3. tail = Slot(taken) /\ tail \in Slots
  BY <1>1 DEF RingInv, TypeOK
<1>4. taken \in Window
  <2>1. \E t \in Window : TRUE
    BY <1>1, <1>3, TicketOfSlot
  <2> QED
    BY <1>2, <2>1 DEF Window
<1>5. Place(taken) = [item |-> buffer[tail], ready |-> TRUE]
  BY <1>3, <1>4 DEF Related, PlacesOK
<1>6. chanBar[1] = Place(taken) /\ Len(chanBar) >= 1 /\ chanBar # <<>>
  BY <1>2, <1>4, EmptySeq DEF Window
<1>7. Head(chanBar) = chanBar[1]
  BY <1>6
<1>8. \A s \in Slots : buffer'[s] = IF s = tail THEN NULL ELSE buffer[s]
  BY <1>1 DEF TypeOK
<1>9. ASSUME NEW u \in Window, u # taken PROVE Place(u)' = Place(u)
  <2>1. Slot(u) # tail /\ Slot(u) \in Slots /\ u \in Window'
    <3>1. Slot(u) # Slot(taken)
      <4>1. u \in taken..(head - 1) /\ taken \in taken..(head - 1)
        BY <1>4, <1>9 DEF Window
      <4> QED
        BY <1>1, <1>2, <1>9, <4>1, WindowSlots DEF RingInv
    <3>2. Slot(u) \in Slots
      BY <1>1, <1>9, WindowType
    <3>3. u \in Window'
      BY <1>2, <1>9 DEF Window
    <3> QED
      BY <1>3, <3>1, <3>2, <3>3
  <2>2. buffer'[Slot(u)] = buffer[Slot(u)]
    BY <1>8, <2>1
  <2>3. \A q \in AtStep("store") :
          q \in AtStep("store")' /\ h'[q] = h[q] /\ sent'[q] = sent[q]
    BY DEF AtStep
  <2> QED
    BY <2>1, <2>2, <2>3, SamePlace DEF Related
<1>10. /\ Tail(chanBar) \in Seq(Channel!Cell)
       /\ Len(Tail(chanBar)) = Len(chanBar) - 1
       /\ \A k \in 1..Len(Tail(chanBar)) : Tail(chanBar)[k] = chanBar[k + 1]
  BY <1>2, <1>6, HeadTailProperties
<1>11. ASSUME NEW k \in 1..(head - (taken + 1)) PROVE chanBar'[k] = chanBar[k + 1]
  <2>1. PICK u \in Window : u = taken + k
    <3>1. taken + k \in Window
      BY <1>2 DEF Window
    <3> QED BY <3>1
  <2>2. chanBar[k + 1] = Place(u)
    BY <1>2, <2>1
  <2>3. chanBar'[k] = Place(u)'
    BY <1>1, <1>2, <2>1, WindowType
  <2> QED
    BY <1>2, <1>9, <2>1, <2>2, <2>3
<1>12. chanBar' = Tail(chanBar)
  <2>1. Len(chanBar') = Len(Tail(chanBar))
    BY <1>2, <1>10
  <2>2. ASSUME NEW k \in 1..Len(chanBar') PROVE chanBar'[k] = Tail(chanBar)[k]
    BY <1>2, <1>10, <1>11, <2>1
  <2> QED
    BY <1>2, <1>10, <2>1, <2>2, SeqEqual
<1> QED
  BY <1>5, <1>6, <1>7, <1>12 DEF Channel!Take

\* One step of the queue, seen through the mapping.
LEMMA StepSimulation ==
    FifoInv /\ FifoInv' /\ [Next]_vars => [Channel!Next]_<<chanBar, ret>>
<1> SUFFICES ASSUME FifoInv, FifoInv', [Next]_vars
             PROVE  Channel!Next \/ UNCHANGED <<chanBar, ret>>
  OBVIOUS
<1>1. (IInv => PlacesOK /\ ChanOK) /\ (IInv' => PlacesOK' /\ ChanOK')
  BY Places, ChanShape, PTL
<1>2. Related
  BY <1>1 DEF Related, FifoInv
<1>3. pc \in [Producers -> Steps]
  BY DEF FifoInv, IInv, TypeOK, Steps
<1>4. ASSUME NEW p \in Producers, EnqCall(p) \/ EnqCheck(p) \/ EnqAdd(p) \/ EnqBackOff(p)
      PROVE  UNCHANGED <<chanBar, ret>>
  <2>1. /\ UNCHANGED <<head, buffer, sent, taken, ret, h>>
        /\ \A q \in AtStep("store") : q \in AtStep("store")'
    BY <1>3, <1>4
    DEF EnqCall, EnqCheck, EnqAdd, EnqBackOff, consumerVars, AtStep
  <2> QED
    BY <1>2, <2>1, QuietStep
<1>5. ASSUME NEW p \in Producers, EnqTicket(p) PROVE Channel!Next
  BY <1>2, <1>5, TicketClaims DEF Channel!Next
<1>6. ASSUME NEW p \in Producers, EnqStore(p) PROVE Channel!Next
  BY <1>2, <1>6, StorePublishes DEF Channel!Next
<1>7. CASE DeqTake
  BY <1>2, <1>7, TakeTakes DEF Channel!Next
<1>8. CASE DeqRelease \/ Destroy \/ DrainEnd \/ UNCHANGED vars
  <2>1. /\ UNCHANGED <<head, buffer, sent, taken, ret, h>>
        /\ \A q \in AtStep("store") : q \in AtStep("store")'
    BY <1>8
    DEF DeqRelease, Destroy, DrainEnd, vars, producerVars, consumerVars, AtStep
  <2> QED
    BY <1>2, <2>1, QuietStep
<1> QED
  BY <1>4, <1>5, <1>6, <1>7, <1>8 DEF Next, Enqueue, Dequeue

\* The bounded ring is a FIFO channel of its capacity: an enqueue claims a place
\* and publishes it, a dequeue takes the first, and nothing else happens.
THEOREM RingIsChannel == Spec => ImplementsChannel
<1>1. Init => Channel!Init
  <2> SUFFICES ASSUME Init PROVE chanBar = <<>> /\ ret = NULL
    BY DEF Channel!Init
  <2>1. ChanOK /\ head = 0 /\ taken = 0 /\ ret = NULL
    BY InitInv, ChanShape DEF Init
  <2>2. Len(chanBar) = 0 /\ chanBar \in Seq(Channel!Cell)
    BY <2>1 DEF ChanOK
  <2> QED
    BY <2>1, <2>2, EmptySeq
<1> QED
  BY FifoInvariant, <1>1, StepSimulation, PTL
  DEF Spec, ImplementsChannel, Channel!Spec, Channel!vars
=============================================================================
