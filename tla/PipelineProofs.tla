--------------------------- MODULE PipelineProofs ---------------------------
(***************************************************************************)
(* Theorems about Pipeline, for any producers, number of lines and buffer  *)
(* size.                                                                   *)
(***************************************************************************)
EXTENDS Pipeline, SequenceTheorems, FiniteSetTheorems, TLAPS

-----------------------------------------------------------------------------
(* The inductive invariant *)

\* A producer that will make a line has not made all of them.
MakesMore == \A p \in Producers : pc[p] = "make" => made[p] < LinesPerProducer

\* What the consumer knows while it collects a batch: it asked for a line only
\* where one is missing and fits, and a line is held over from then on.
Collecting ==
    /\ cpc \in {"dequeue", "process"} =>
          Consumed < TotalLines /\ Len(buffer[active]) < MaxIoBytes
    /\ cpc = "dequeue" => overflow = NULL
    /\ cpc = "process" => overflow # NULL
    /\ cpc = "quit" => buffer[active] = <<>>
    /\ cpc \in {"retire", "push"} => buffer[active] # <<>>

\* The active buffer is what was consumed behind the file offset; between two
\* batches nothing is.
BatchIsConsumed ==
    IF cpc \in {"top", "drain", "joined"}
    THEN offset = Consumed
    ELSE /\ offset + Len(buffer[active]) = Consumed
         /\ \A k \in 1..Len(buffer[active]) : buffer[active][k] = expected[offset + k]

\* The ring holds nothing, or one write of the buffer that is not active, in
\* progress or completed; nothing when a write is pushed and at the end.
Flight ==
    /\ \/ /\ writes = {} /\ done = <<>>
          /\ inFlight = [b \in Buffers |-> FALSE]
       \/ /\ inFlight = [b \in Buffers |-> b = 1 - active]
          /\ \/ done = <<>> /\ \E w \in writes : writes = {w} /\ w.buf = 1 - active
             \/ done = <<1 - active>> /\ writes = {}
    /\ cpc \in {"push", "joined"} => inFlight = [b \in Buffers |-> FALSE]
    /\ cpc = "retire" => inFlight[1 - active]

\* Up to its offset the file is what was consumed, and a write in progress, the
\* last one, has what was consumed behind that in its buffer.
Written ==
    /\ writes = {} => \A k \in 1..offset : file[k] = expected[k]
    /\ \A w \in writes :
          /\ w.at + w.len = offset /\ w.len = Len(buffer[w.buf])
          /\ \A k \in 1..w.at : file[k] = expected[k]
          /\ \A k \in 1..w.len : buffer[w.buf][k] = expected[w.at + k]

Sizes ==
    /\ Consumed <= TotalLines
    /\ \A b \in Buffers : Len(buffer[b]) <= MaxIoBytes

IInv ==
    /\ TypeOK /\ MakesMore /\ Collecting /\ BatchIsConsumed
    /\ Flight /\ Written /\ Sizes /\ NoLineLost

-----------------------------------------------------------------------------
(* Lines and places *)

LEMMA TotalLinesType == TotalLines \in Nat
<1>1. Cardinality(Producers) \in Nat /\ LinesPerProducer \in Nat
  BY SizesAssumption, FS_CardinalityType
<1>2. \A a, b \in Nat : a * b \in Nat
  OBVIOUS
<1> QED
  BY <1>1, <1>2 DEF TotalLines

\* What publishing does to a place.
LEMMA PublishedCell ==
    ASSUME NEW c \in Queue!Cell
    PROVE  /\ [c EXCEPT !.ready = TRUE] \in Queue!Cell
           /\ [c EXCEPT !.ready = TRUE].item = c.item
<1>1. ASSUME NEW S, NEW d \in [item : S, ready : BOOLEAN], NEW b \in BOOLEAN
      PROVE  /\ [d EXCEPT !.ready = b] \in [item : S, ready : BOOLEAN]
             /\ [d EXCEPT !.ready = b].item = d.item
  OBVIOUS
<1> QED
  BY <1>1 DEF Queue!Cell

\* The lines in the queue, and the one held over.
Waiting == [k \in 1..Len(chan) |-> chan[k].item]

HeldOver == IF overflow = NULL THEN <<>> ELSE <<overflow>>

\* The types of the parts of InOrder.
OrderOK ==
    /\ expected \in Seq(Lines) /\ HeldOver \in Seq(Lines) /\ Waiting \in Seq(Lines)
    /\ Len(Waiting) = Len(chan) /\ \A k \in 1..Len(chan) : Waiting[k] = chan[k].item
    /\ expected \o HeldOver \in Seq(Lines)
    /\ InOrder = (expected \o HeldOver) \o Waiting /\ InOrder \in Seq(Lines)
    /\ chan \in Seq(Queue!Cell) /\ Len(chan) \in Nat

LEMMA OrderIs == TypeOK => OrderOK
<1> SUFFICES ASSUME TypeOK PROVE OrderOK
  OBVIOUS
<1>1. chan \in Seq(Queue!Cell) /\ expected \in Seq(Lines) /\ overflow \in Lines \cup {NULL}
  BY DEF TypeOK, Queue!TypeOK
<1>2. Len(chan) \in Nat /\ \A k \in 1..Len(chan) : chan[k].item \in Lines
  <2>1. \A k \in 1..Len(chan) : chan[k] \in Queue!Cell
    BY <1>1, ElementOfSeq
  <2> QED
    BY <1>1, <2>1, LenProperties DEF Queue!Cell
<1>3. /\ Waiting \in Seq(Lines) /\ Len(Waiting) = Len(chan)
      /\ \A k \in 1..Len(chan) : Waiting[k] = chan[k].item
  BY <1>2 DEF Waiting
<1>4. HeldOver \in Seq(Lines)
  BY <1>1 DEF HeldOver
<1>5. InOrder = (expected \o HeldOver) \o Waiting
  BY DEF InOrder, HeldOver, Waiting
<1>6. expected \o HeldOver \in Seq(Lines) /\ (expected \o HeldOver) \o Waiting \in Seq(Lines)
  BY <1>1, <1>3, <1>4, ConcatProperties
<1> QED
  BY <1>1, <1>2, <1>3, <1>4, <1>5, <1>6 DEF OrderOK

\* A sequence is its first element before the others.
LEMMA FrontAndRest ==
    ASSUME NEW S, NEW s \in Seq(S), s # <<>>
    PROVE  <<Head(s)>> \o Tail(s) = s
<1>1. /\ Head(s) \in S /\ Tail(s) \in Seq(S) /\ Len(Tail(s)) = Len(s) - 1
      /\ \A i \in 1..Len(Tail(s)) : Tail(s)[i] = s[i + 1]
      /\ Len(s) \in Nat \ {0} /\ Head(s) = s[1]
  BY HeadTailProperties, EmptySeq
<1>2. <<Head(s)>> \in Seq(S) /\ Len(<<Head(s)>>) = 1 /\ <<Head(s)>>[1] = s[1]
  BY <1>1
<1>3. /\ <<Head(s)>> \o Tail(s) \in Seq(S)
      /\ Len(<<Head(s)>> \o Tail(s)) = 1 + Len(Tail(s))
      /\ \A i \in 1..(1 + Len(Tail(s))) :
            (<<Head(s)>> \o Tail(s))[i] = IF i <= 1 THEN <<Head(s)>>[i] ELSE Tail(s)[i - 1]
  BY <1>1, <1>2, ConcatProperties
<1>4. ASSUME NEW i \in 1..Len(s) PROVE (<<Head(s)>> \o Tail(s))[i] = s[i]
  BY <1>1, <1>2, <1>3
<1> QED
  BY <1>1, <1>3, <1>4, SeqEqual

\* A claim puts its line behind all others.
LEMMA ClaimJoins ==
    ASSUME OrderOK, OrderOK', NEW l \in Lines, Queue!Claim(l), UNCHANGED <<expected, overflow>>
    PROVE  InOrder' = Append(InOrder, l)
<1>1. HeldOver' = HeldOver
  BY DEF HeldOver
<1> DEFINE e == [item |-> l, ready |-> FALSE]
<1>2. chan' = Append(chan, e) /\ e \in Queue!Cell /\ e.item = l
  BY DEF Queue!Claim, Queue!Cell
<1> HIDE DEF e
<1>3. /\ Len(chan') = Len(chan) + 1 /\ chan'[Len(chan) + 1] = e
      /\ \A k \in 1..Len(chan) : chan'[k] = chan[k]
  BY <1>2, AppendProperties DEF OrderOK
<1>4. /\ Append(Waiting, l) \in Seq(Lines) /\ Len(Append(Waiting, l)) = Len(Waiting) + 1
      /\ \A i \in 1..Len(Waiting) : Append(Waiting, l)[i] = Waiting[i]
      /\ Append(Waiting, l)[Len(Waiting) + 1] = l
  BY AppendProperties DEF OrderOK
<1>5. ASSUME NEW k \in 1..Len(Waiting') PROVE Waiting'[k] = Append(Waiting, l)[k]
  <2>1. Waiting'[k] = chan'[k].item /\ k \in 1..(Len(chan) + 1)
    BY <1>3 DEF OrderOK
  <2> QED
    BY <1>2, <1>3, <1>4, <2>1 DEF OrderOK
<1>6. Waiting' \in Seq(Lines) /\ Len(Waiting') = Len(Append(Waiting, l))
  BY <1>3, <1>4 DEF OrderOK
<1>7. Waiting' = Append(Waiting, l)
  BY <1>4, <1>5, <1>6, SeqEqual
<1>8. Waiting' = Waiting \o <<l>> /\ <<l>> \in Seq(Lines)
  BY <1>7, AppendIsConcat DEF OrderOK
<1>9. InOrder' = (expected \o HeldOver) \o (Waiting \o <<l>>)
  BY <1>1, <1>8 DEF OrderOK
<1>10. InOrder' = InOrder \o <<l>>
  <2>1. \A s, t, u \in Seq(Lines) : s \o (t \o u) = (s \o t) \o u
    BY ConcatAssociative, SMTT(15)
  <2>2. /\ expected \o HeldOver \in Seq(Lines) /\ Waiting \in Seq(Lines)
        /\ InOrder = (expected \o HeldOver) \o Waiting
    BY DEF OrderOK
  <2> QED
    BY <1>8, <1>9, <2>1, <2>2
<1> QED
  BY <1>10, AppendIsConcat DEF OrderOK

\* A publication moves no line.
LEMMA PublishStays ==
    ASSUME OrderOK, NEW k \in 1..Len(chan), Queue!Publish(k)
    PROVE  /\ chan' \in Seq(Queue!Cell) /\ Waiting' = Waiting
<1>1. chan[k] \in Queue!Cell
  BY ElementOfSeq DEF OrderOK
<1>2. PICK c \in Queue!Cell : c = [chan[k] EXCEPT !.ready = TRUE] /\ c.item = chan[k].item
  BY <1>1, PublishedCell
<1>3. chan' = [chan EXCEPT ![k] = c]
  BY <1>2 DEF Queue!Publish
<1>4. /\ chan' \in Seq(Queue!Cell) /\ Len(chan') = Len(chan)
      /\ \A j \in 1..Len(chan) : chan'[j] = IF j = k THEN c ELSE chan[j]
  BY <1>3, ExceptSeq DEF OrderOK
<1>5. Waiting' = [j \in 1..Len(chan) |-> chan'[j].item]
  BY <1>4 DEF Waiting
<1> QED
  BY <1>2, <1>4, <1>5 DEF Waiting

\* A take moves the first line out of the queue, to where it is held over.
LEMMA TakeMoves ==
    ASSUME OrderOK, OrderOK', Queue!Take, overflow = NULL, overflow' = out',
           UNCHANGED expected
    PROVE  InOrder' = InOrder
<1>1. /\ chan # <<>> /\ chan' = Tail(chan) /\ out' = Head(chan).item
      /\ Head(chan) \in Queue!Cell
  BY HeadTailProperties DEF Queue!Take, OrderOK
<1>2. /\ Len(chan') = Len(chan) - 1 /\ \A i \in 1..(Len(chan) - 1) : chan'[i] = chan[i + 1]
      /\ Len(chan) >= 1 /\ Head(chan) = chan[1]
  BY <1>1, HeadTailProperties, EmptySeq DEF OrderOK
<1>3. overflow' \in Lines /\ HeldOver' = <<overflow'>> /\ HeldOver = <<>>
  BY <1>1, SizesAssumption DEF Queue!Cell, HeldOver
<1>4. Waiting # <<>> /\ Head(Waiting) = overflow'
  BY <1>1, <1>2 DEF OrderOK
<1>5. /\ Tail(Waiting) \in Seq(Lines) /\ Len(Tail(Waiting)) = Len(Waiting) - 1
      /\ \A i \in 1..(Len(Waiting) - 1) : Tail(Waiting)[i] = Waiting[i + 1]
  BY <1>4, HeadTailProperties DEF OrderOK
<1>6. ASSUME NEW i \in 1..Len(Waiting') PROVE Waiting'[i] = Tail(Waiting)[i]
  <2>1. Waiting'[i] = chan'[i].item /\ i \in 1..(Len(chan) - 1) /\ i + 1 \in 1..Len(chan)
    BY <1>2 DEF OrderOK
  <2> QED
    BY <1>2, <1>5, <2>1 DEF OrderOK
<1>7. Waiting' \in Seq(Lines) /\ Len(Waiting') = Len(Tail(Waiting))
  BY <1>2, <1>5 DEF OrderOK
<1>8. Waiting' = Tail(Waiting)
  BY <1>5, <1>6, <1>7, SeqEqual
<1>9. InOrder = expected \o Waiting
  BY <1>3, ConcatEmptySeq DEF OrderOK
<1>10. <<overflow'>> \in Seq(Lines) /\ <<overflow'>> \o Tail(Waiting) = Waiting
  BY <1>3, <1>4, FrontAndRest DEF OrderOK
<1>11. InOrder' = (expected \o <<overflow'>>) \o Tail(Waiting)
  BY <1>3, <1>8 DEF OrderOK
<1>12. \A s, t, u \in Seq(Lines) : s \o (t \o u) = (s \o t) \o u
  BY ConcatAssociative, SMTT(15)
<1>13. expected \in Seq(Lines)
  BY DEF OrderOK
<1> QED
  BY <1>5, <1>9, <1>10, <1>11, <1>12, <1>13

\* Consuming moves the line that is held over.
LEMMA ConsumeMoves ==
    ASSUME OrderOK, OrderOK', overflow \in Lines, expected' = Append(expected, overflow),
           overflow' = NULL, UNCHANGED chan
    PROVE  InOrder' = InOrder
<1>1. HeldOver = <<overflow>> /\ HeldOver' = <<>> /\ Waiting' = Waiting
  BY SizesAssumption DEF HeldOver, Waiting
<1>2. expected' = expected \o HeldOver /\ expected' \in Seq(Lines)
  BY <1>1, AppendIsConcat DEF OrderOK
<1>3. expected' \o HeldOver' = expected'
  BY <1>1, <1>2, ConcatEmptySeq
<1> QED
  BY <1>1, <1>2, <1>3 DEF OrderOK

-----------------------------------------------------------------------------
(* No line is lost *)

\* Lines that only move keep their order.
LEMMA OrderStays ==
    ASSUME NoLineLost, InOrder' = InOrder, UNCHANGED made
    PROVE  NoLineLost'
BY DEF NoLineLost, Rising

\* The line that is made is its producer's next one.
LEMMA OrderGrows ==
    ASSUME TypeOK, OrderOK, NoLineLost, NEW p \in Producers,
           made[p] < LinesPerProducer, InOrder' = Append(InOrder, <<p, made[p] + 1>>),
           made' = [made EXCEPT ![p] = @ + 1]
    PROVE  NoLineLost'
<1>1. made \in [Producers -> Nat] /\ LinesPerProducer \in Nat
  BY SizesAssumption DEF TypeOK
<1> DEFINE l == <<p, made[p] + 1>>
<1>2. l \in Lines /\ l[1] = p /\ l[2] = made[p] + 1
  BY <1>1 DEF Lines
<1> HIDE DEF l
<1>3. InOrder \in Seq(Lines) /\ InOrder' = Append(InOrder, l)
  BY DEF OrderOK, l
<1>4. PICK s \in Seq(Lines), t \in Seq(Lines) : s = InOrder /\ t = InOrder'
  BY <1>2, <1>3, AppendProperties
<1>5. /\ Len(s) \in Nat /\ Len(t) = Len(s) + 1 /\ t[Len(s) + 1] = l
      /\ \A k \in 1..Len(s) : t[k] = s[k]
  BY <1>2, <1>3, <1>4, AppendProperties, LenProperties
<1>6. Range(s) = {s[k] : k \in 1..Len(s)} /\ Range(t) = {t[k] : k \in 1..Len(t)}
  BY RangeEquality
<1>7. Range(t) = Range(s) \cup {l}
  <2>1. \A k \in 1..Len(s) : k \in 1..Len(t) /\ t[k] = s[k]
    BY <1>5
  <2>2. Len(s) + 1 \in 1..Len(t) /\ t[Len(s) + 1] = l
    BY <1>5
  <2>3. \A k \in 1..Len(t) : k \in 1..Len(s) \/ k = Len(s) + 1
    BY <1>5
  <2>4. \A m \in Range(t) : m \in Range(s) \/ m = l
    BY <1>6, <2>1, <2>2, <2>3
  <2>5. \A m \in Range(s) : m \in Range(t)
    BY <1>6, <2>1
  <2>6. l \in Range(t)
    BY <1>6, <2>2
  <2> QED
    BY <2>4, <2>5, <2>6
<1>8. Range(s) = {m \in Lines : m[2] <= made[m[1]]} /\ Rising(s)
  BY <1>4 DEF NoLineLost
<1>9. \A m \in Lines : m[1] \in Producers /\ m[2] \in Nat /\ m = <<m[1], m[2]>>
  BY SizesAssumption DEF Lines
<1>10. \A m \in Lines : m[2] <= made'[m[1]] <=> m[2] <= made[m[1]] \/ m = l
  <2> SUFFICES ASSUME NEW m \in Lines
               PROVE  m[2] <= made'[m[1]] <=> m[2] <= made[m[1]] \/ m = l
    OBVIOUS
  <2>1. CASE m[1] # p
    BY <1>1, <1>2, <1>9, <2>1
  <2>2. CASE m[1] = p
    <3>1. made'[m[1]] = made[p] + 1
      BY <1>1, <2>2
    <3>2. m = l <=> m[2] = made[p] + 1
      BY <1>2, <1>9, <2>2 DEF l
    <3> QED
      BY <1>1, <1>9, <2>2, <3>1, <3>2
  <2> QED
    BY <2>1, <2>2
<1>11. Range(t) = {m \in Lines : m[2] <= made'[m[1]]}
  BY <1>2, <1>7, <1>8, <1>10
<1>12. Rising(t)
  <2> SUFFICES ASSUME NEW j \in 1..Len(t), NEW k \in 1..Len(t), j < k, t[j][1] = t[k][1]
               PROVE  t[j][2] < t[k][2]
    BY DEF Rising
  <2>1. j \in 1..Len(s) /\ t[j] = s[j]
    BY <1>5
  <2>2. CASE k \in 1..Len(s)
    BY <1>5, <1>8, <2>1, <2>2 DEF Rising
  <2>3. CASE k = Len(s) + 1
    <3>1. s[j] \in Range(s) /\ s[j][1] = p /\ t[k][2] = made[p] + 1
      BY <1>2, <1>5, <1>6, <2>1, <2>3
    <3>2. PICK m \in Lines : m = s[j] /\ m[2] <= made[p]
      BY <1>8, <3>1
    <3>3. m[2] \in Nat /\ made[p] \in Nat
      BY <1>1, <1>9
    <3>4. m[2] < made[p] + 1
      BY <3>2, <3>3
    <3> QED
      BY <2>1, <3>1, <3>2, <3>4
  <2> QED
    BY <1>5, <2>2, <2>3
<1> QED
  BY <1>4, <1>11, <1>12 DEF NoLineLost

-----------------------------------------------------------------------------
(* The invariant holds at first and every step keeps it *)

\* What the consumer and the ring keep among themselves.
ConsumerInv == Collecting /\ BatchIsConsumed /\ Flight /\ Written /\ Sizes

LEMMA InitInv == Init => IInv
<1> SUFFICES ASSUME Init PROVE IInv
  OBVIOUS
<1> USE DEF Init, Queue!Init
<1>1. TotalLines \in Nat /\ 0 \in 0..TotalLines /\ LinesPerProducer \in Nat \ {0}
  BY TotalLinesType, SizesAssumption
<1>2. TypeOK
  <2>1. Queue!TypeOK
    BY DEF Queue!TypeOK, Queue!Cell
  <2>2. /\ racing \in BOOLEAN /\ active \in Buffers
        /\ made \in [Producers -> 0..LinesPerProducer]
    <3>1. 0 \in 0..LinesPerProducer
      BY <1>1
    <3> QED
      BY <3>1 DEF Buffers
  <2>6. pc \in [Producers -> {"make", "publish", "finish", "finished"}]
    OBVIOUS
  <2>3. /\ buffer \in [Buffers -> Seq(Lines)] /\ inFlight \in [Buffers -> BOOLEAN]
        /\ done \in Seq(Buffers) /\ expected \in Seq(Lines)
    BY DEF Buffers
  <2>4. /\ offset \in 0..TotalLines /\ file \in [1..TotalLines -> Lines \cup {NULL}]
        /\ writes \subseteq [buf : Buffers, len : 1..MaxIoBytes, at : 0..TotalLines]
    BY <1>1
  <2>5. /\ overflow \in Lines \cup {NULL}
        /\ cpc \in {"top", "collect", "dequeue", "empty", "process", "flush", "quit",
                    "retire", "push", "drain", "joined"}
    OBVIOUS
  <2> QED
    BY <2>1, <2>2, <2>3, <2>4, <2>5, <2>6 DEF TypeOK
<1>3. MakesMore
  BY <1>1 DEF MakesMore
<1>4. ConsumerInv
  <2>1. Len(expected) = 0 /\ \A b \in Buffers : Len(buffer[b]) = 0
    BY DEF Buffers
  <2>2. MaxIoBytes \in Nat
    BY SizesAssumption
  <2> QED
    BY <1>1, <2>1, <2>2
    DEF ConsumerInv, Collecting, BatchIsConsumed, Flight, Written, Sizes, Consumed, Buffers
<1>5. NoLineLost
  <2>1. InOrder \in Seq(Lines)
    BY <1>2, OrderIs DEF OrderOK
  <2>2. Len(InOrder) = 0
    <3>1. chan = <<>> /\ expected = <<>> /\ HeldOver = <<>>
      BY DEF HeldOver
    <3>2. Len(Waiting) = 0 /\ Waiting \in Seq(Lines) /\ InOrder = (<<>> \o <<>>) \o Waiting
      BY <1>2, <3>1, OrderIs DEF OrderOK
    <3>3. <<>> \in Seq(Lines) /\ Len(<<>>) = 0
      BY EmptySeq
    <3>4. <<>> \o <<>> \in Seq(Lines) /\ Len(<<>> \o <<>>) = 0
      BY <3>3, ConcatEmptySeq
    <3> QED
      BY <3>2, <3>4, ConcatProperties
  <2>3. \A k \in 1..Len(InOrder) : FALSE
    BY <2>2
  <2>4. Range(InOrder) = {}
    BY <2>1, <2>3, RangeEquality
  <2>5. {l \in Lines : l[2] <= made[l[1]]} = {}
    <3> SUFFICES ASSUME NEW l \in Lines PROVE ~(l[2] <= made[l[1]])
      OBVIOUS
    <3>1. l[1] \in Producers /\ l[2] \in 1..LinesPerProducer
      BY DEF Lines
    <3> QED
      BY <1>1, <3>1
  <2> QED
    BY <2>3, <2>4, <2>5 DEF NoLineLost, Rising
<1> QED
  BY <1>2, <1>3, <1>4, <1>5 DEF IInv, ConsumerInv

\* A producer does nothing to the consumer and the ring.
LEMMA ConsumerApart ==
    ASSUME ConsumerInv, UNCHANGED <<cpc, consumerVars, ringVars>>
    PROVE  ConsumerInv'
BY DEF ConsumerInv, Collecting, BatchIsConsumed, Flight, Written, Sizes, Consumed,
       consumerVars, ringVars

LEMMA ClaimLineInv ==
    ASSUME IInv, NEW p \in Producers, ClaimLine(p)
    PROVE  IInv'
<1> USE DEF ClaimLine
<1>1. TypeOK /\ MakesMore /\ ConsumerInv /\ NoLineLost
  BY DEF IInv, ConsumerInv
<1>2. made[p] \in Nat /\ made[p] < LinesPerProducer /\ LinesPerProducer \in Nat
  BY <1>1, SizesAssumption DEF TypeOK, MakesMore
<1> DEFINE l == <<p, made[p] + 1>>
<1>3. l \in Lines
  BY <1>2 DEF Lines
<1> HIDE DEF l
<1>4. Queue!Claim(l) /\ UNCHANGED <<expected, overflow>>
  BY DEF consumerVars, l
<1>5. TypeOK'
  <2>1. chan' \in Seq(Queue!Cell) /\ out' \in Lines \cup {NULL}
    <3>1. [item |-> l, ready |-> FALSE] \in Queue!Cell
      BY <1>3 DEF Queue!Cell
    <3> QED
      BY <1>1, <1>4, <3>1, AppendProperties DEF TypeOK, Queue!TypeOK, Queue!Claim
  <2>2. made' \in [Producers -> 0..LinesPerProducer]
    BY <1>1, <1>2 DEF TypeOK
  <2>3. pc' \in [Producers -> {"make", "publish", "finish", "finished"}]
    BY <1>1 DEF TypeOK
  <2>4. racing' \in BOOLEAN
    OBVIOUS
  <2> QED
    BY <1>1, <2>1, <2>2, <2>3, <2>4
    DEF TypeOK, Queue!TypeOK, Queue!Cell, consumerVars, ringVars
<1>6. MakesMore'
  BY <1>1 DEF MakesMore, TypeOK
<1>7. ConsumerInv'
  BY <1>1, ConsumerApart
<1>8. NoLineLost'
  <2>1. OrderOK /\ OrderOK'
    BY <1>1, <1>5, OrderIs, PTL
  <2>2. InOrder' = Append(InOrder, l)
    BY <1>3, <1>4, <2>1, ClaimJoins
  <2> QED
    BY <1>1, <1>2, <2>1, <2>2, OrderGrows DEF l
<1> QED
  BY <1>5, <1>6, <1>7, <1>8 DEF IInv, ConsumerInv

LEMMA PublishLineInv ==
    ASSUME IInv, NEW p \in Producers, PublishLine(p)
    PROVE  IInv'
<1> USE DEF PublishLine
<1>1. TypeOK /\ MakesMore /\ ConsumerInv /\ NoLineLost /\ OrderOK
  BY OrderIs DEF IInv, ConsumerInv
<1>2. chan' \in Seq(Queue!Cell) /\ Waiting' = Waiting /\ out' = out
  BY <1>1, PublishStays DEF Queue!Publish
<1>3. TypeOK'
  <2>1. pc' \in [Producers -> {"make", "publish", "finish", "finished"}]
    BY <1>1 DEF TypeOK
  <2> QED
    BY <1>1, <1>2, <2>1 DEF TypeOK, Queue!TypeOK, Queue!Cell, consumerVars, ringVars
<1>4. MakesMore'
  <2>1. made[p] \in 0..LinesPerProducer /\ LinesPerProducer \in Nat
    BY <1>1, SizesAssumption DEF TypeOK
  <2> QED
    BY <1>1, <2>1 DEF MakesMore, TypeOK
<1>5. ConsumerInv'
  BY <1>1, ConsumerApart
<1>6. NoLineLost'
  <2>1. OrderOK'
    BY <1>3, OrderIs, PTL
  <2>2. HeldOver' = HeldOver /\ expected' = expected
    BY DEF HeldOver, consumerVars
  <2>3. InOrder' = InOrder
    BY <1>1, <1>2, <2>1, <2>2 DEF OrderOK
  <2> QED
    BY <1>1, <2>3, OrderStays
<1> QED
  BY <1>3, <1>4, <1>5, <1>6 DEF IInv, ConsumerInv

\* Steps that neither make nor move a line.
LEMMA OrderApart ==
    ASSUME NoLineLost, UNCHANGED <<expected, overflow, chan, made>>
    PROVE  NoLineLost'
<1>1. InOrder' = InOrder
  BY DEF InOrder
<1> QED
  BY <1>1, OrderStays

LEMMA FinishInv ==
    ASSUME IInv, NEW p \in Producers, Finish(p)
    PROVE  IInv'
<1> USE DEF Finish, queueVars
<1>1. TypeOK /\ MakesMore /\ ConsumerInv /\ NoLineLost
  BY DEF IInv, ConsumerInv
<1>2. TypeOK'
  <2>1. pc' \in [Producers -> {"make", "publish", "finish", "finished"}]
    BY <1>1 DEF TypeOK
  <2> QED
    BY <1>1, <2>1 DEF TypeOK, Queue!TypeOK, Queue!Cell, consumerVars, ringVars
<1>3. MakesMore'
  BY <1>1 DEF MakesMore, TypeOK
<1>4. ConsumerInv'
  BY <1>1, ConsumerApart
<1>5. NoLineLost'
  BY <1>1, OrderApart DEF consumerVars
<1> QED
  BY <1>2, <1>3, <1>4, <1>5 DEF IInv, ConsumerInv

\* Steps of the consumer inside a batch that only move it on.
LEMMA MovesOn ==
    ASSUME IInv, UNCHANGED <<queueVars, producerVars, consumerVars, ringVars>>,
           racing' \in BOOLEAN, cpc \notin {"top", "drain", "joined"},
           cpc' \in {"collect", "dequeue", "empty", "process", "flush", "quit",
                     "retire", "push"},
           Collecting', cpc' = "push" => ~inFlight[1 - active],
           cpc' = "retire" => inFlight[1 - active]
    PROVE  IInv'
<1> USE DEF queueVars, producerVars, consumerVars, ringVars
<1>1. TypeOK /\ MakesMore /\ ConsumerInv /\ NoLineLost
  BY DEF IInv, ConsumerInv
<1>2. TypeOK'
  BY <1>1 DEF TypeOK, Queue!TypeOK, Queue!Cell
<1>3. MakesMore' /\ NoLineLost'
  BY <1>1, OrderApart DEF MakesMore
<1>4. BatchIsConsumed' /\ Written' /\ Sizes'
  BY <1>1 DEF ConsumerInv, BatchIsConsumed, Written, Sizes, Consumed
<1>5. Flight'
  <2>1. active \in {0, 1}
    BY <1>1 DEF TypeOK, Buffers
  <2>2. 1 - active \in Buffers
    BY <2>1 DEF Buffers
  <2>3. CASE cpc' = "push"
    BY <1>1, <2>2, <2>3 DEF ConsumerInv, Flight
  <2>4. CASE cpc' # "push"
    BY <1>1, <2>4 DEF ConsumerInv, Flight
  <2> QED
    BY <2>3, <2>4
<1> QED
  BY <1>2, <1>3, <1>4, <1>5 DEF IInv

LEMMA MovingInv ==
    ASSUME IInv, EndBatch \/ NextLine \/ DequeueNull \/ OnEmpty \/ Flush
    PROVE  IInv'
<1> USE DEF IInv, queueVars, producerVars, consumerVars, ringVars
<1>1. racing \in BOOLEAN
  BY DEF TypeOK
<1>2. CASE EndBatch \/ DequeueNull \/ OnEmpty
  <2>1. Collecting' /\ cpc' \in {"empty", "collect", "flush"}
    BY <1>2 DEF EndBatch, DequeueNull, OnEmpty, Collecting
  <2> QED
    BY <1>1, <1>2, <2>1, MovesOn DEF EndBatch, DequeueNull, OnEmpty
<1>3. CASE NextLine
  <2>1. Collecting' /\ cpc' \in {"dequeue", "process"}
    BY <1>3 DEF NextLine, Collecting, Consumed
  <2>2. racing' \in BOOLEAN
    BY <1>3 DEF NextLine
  <2> QED
    BY <1>3, <2>1, <2>2, MovesOn DEF NextLine
<1>4. CASE Flush
  <2>1. /\ Collecting' /\ cpc' \in {"quit", "retire", "push"}
        /\ cpc' = "push" => ~inFlight[1 - active]
        /\ cpc' = "retire" => inFlight[1 - active]
    BY <1>4 DEF Flush, Collecting
  <2> QED
    BY <1>1, <1>4, <2>1, MovesOn DEF Flush
<1> QED
  BY <1>2, <1>3, <1>4

LEMMA TopInv ==
    ASSUME IInv, Top
    PROVE  IInv'
<1> USE DEF IInv, Top, queueVars, producerVars, ringVars
<1>1. active \in Buffers /\ buffer \in [Buffers -> Seq(Lines)] /\ MaxIoBytes \in Nat
  BY SizesAssumption DEF TypeOK
<1>2. \/ cpc' = "collect" /\ buffer' = [buffer EXCEPT ![active] = <<>>]
      \/ cpc' = "drain" /\ buffer' = buffer
  OBVIOUS
<1>3. TypeOK'
  <2>1. <<>> \in Seq(Lines)
    BY EmptySeq
  <2>2. buffer' \in [Buffers -> Seq(Lines)]
    BY <1>1, <1>2, <2>1
  <2> QED
    BY <1>2, <2>2 DEF TypeOK, Queue!TypeOK, Queue!Cell
<1>4. MakesMore' /\ NoLineLost'
  BY OrderApart DEF MakesMore
<1>5. Collecting'
  BY <1>2 DEF Collecting
<1>6. /\ \A b \in Buffers : b # active => buffer'[b] = buffer[b]
      /\ cpc' = "collect" => buffer'[active] = <<>>
      /\ cpc' = "drain" => buffer' = buffer
  BY <1>1, <1>2
<1>7. BatchIsConsumed'
  <2>1. offset = Consumed /\ offset \in Nat
    BY TotalLinesType DEF BatchIsConsumed, TypeOK
  <2> QED
    BY <1>2, <1>6, <2>1 DEF BatchIsConsumed, Consumed
<1>8. Flight'
  BY <1>2 DEF Flight
<1>9. Written'
  <2>1. \A w \in writes : w.buf \in Buffers /\ w.buf # active
    BY <1>1 DEF Flight, Buffers
  <2> QED
    BY <1>6, <2>1 DEF Written
<1>10. Sizes'
  BY <1>1, <1>2, <1>6 DEF Sizes, Consumed
<1> QED
  BY <1>3, <1>4, <1>5, <1>7, <1>8, <1>9, <1>10

LEMMA DequeueLineInv ==
    ASSUME IInv, DequeueLine
    PROVE  IInv'
<1> USE DEF IInv, DequeueLine, producerVars, ringVars
<1>1. OrderOK /\ chan \in Seq(Queue!Cell) /\ overflow = NULL
  BY OrderIs DEF OrderOK, Collecting
<1>2. chan' \in Seq(Queue!Cell) /\ out' \in Lines
  <2>1. chan # <<>> /\ chan' = Tail(chan) /\ out' = Head(chan).item
    BY DEF Queue!Take
  <2>2. Tail(chan) \in Seq(Queue!Cell) /\ Head(chan) \in Queue!Cell
    BY <1>1, <2>1, HeadTailProperties
  <2> QED
    BY <2>1, <2>2 DEF Queue!Cell
<1>3. TypeOK'
  BY <1>2 DEF TypeOK, Queue!TypeOK, Queue!Cell
<1>4. NoLineLost'
  <2>1. OrderOK'
    BY <1>3, OrderIs, PTL
  <2>2. InOrder' = InOrder
    BY <1>1, <2>1, TakeMoves
  <2> QED
    BY <2>2, OrderStays
<1>5. MakesMore'
  BY DEF MakesMore
<1>6. Collecting'
  BY <1>2, SizesAssumption DEF Collecting, Consumed
<1>7. BatchIsConsumed' /\ Written' /\ Sizes' /\ Flight'
  BY DEF BatchIsConsumed, Written, Sizes, Consumed, Flight
<1> QED
  BY <1>3, <1>4, <1>5, <1>6, <1>7

\* The line goes into the buffer and among the consumed ones, or waits.
LEMMA ProcessInv ==
    ASSUME IInv, Process
    PROVE  IInv'
<1> USE DEF IInv, Process, queueVars, producerVars, ringVars
<1>1. /\ active \in Buffers /\ buffer \in [Buffers -> Seq(Lines)] /\ MaxIoBytes \in Nat
      /\ expected \in Seq(Lines) /\ overflow \in Lines /\ TotalLines \in Nat
      /\ Len(expected) \in Nat /\ offset \in Nat /\ Len(buffer[active]) \in Nat
  BY SizesAssumption, TotalLinesType, LenProperties DEF TypeOK, Collecting
<1>2. CASE Len(buffer[active]) + 1 >= MaxIoBytes
  <2>1. Collecting' /\ cpc' = "flush" /\ UNCHANGED consumerVars
    BY <1>2 DEF Collecting, consumerVars
  <2> QED
    BY <2>1, MovesOn DEF TypeOK
<1>3. CASE ~(Len(buffer[active]) + 1 >= MaxIoBytes)
  <2>1. /\ cpc' = "collect" /\ overflow' = NULL
        /\ expected' = Append(expected, overflow)
        /\ buffer' = [buffer EXCEPT ![active] = Append(@, overflow)]
    BY <1>3
  <2>2. /\ expected' \in Seq(Lines) /\ Len(expected') = Len(expected) + 1
        /\ \A k \in 1..Len(expected) : expected'[k] = expected[k]
        /\ expected'[Len(expected) + 1] = overflow
    BY <1>1, <2>1, AppendProperties
  <2>3. /\ buffer'[active] \in Seq(Lines)
        /\ Len(buffer'[active]) = Len(buffer[active]) + 1
        /\ \A k \in 1..Len(buffer[active]) : buffer'[active][k] = buffer[active][k]
        /\ buffer'[active][Len(buffer[active]) + 1] = overflow
        /\ \A b \in Buffers : b # active => buffer'[b] = buffer[b]
        /\ buffer' \in [Buffers -> Seq(Lines)]
    <3>1. buffer'[active] = Append(buffer[active], overflow)
      BY <1>1, <2>1
    <3>2. buffer[active] \in Seq(Lines)
      BY <1>1
    <3>3. /\ Append(buffer[active], overflow) \in Seq(Lines)
          /\ Len(Append(buffer[active], overflow)) = Len(buffer[active]) + 1
          /\ \A k \in 1..Len(buffer[active]) :
                Append(buffer[active], overflow)[k] = buffer[active][k]
          /\ Append(buffer[active], overflow)[Len(buffer[active]) + 1] = overflow
      BY <1>1, <3>2, AppendProperties
    <3>4. \A b \in Buffers : b # active => buffer'[b] = buffer[b]
      BY <1>1, <2>1
    <3>5. buffer' \in [Buffers -> Seq(Lines)]
      BY <1>1, <2>1, <3>3
    <3> QED
      BY <3>1, <3>3, <3>4, <3>5
  <2>4. TypeOK'
    BY <2>1, <2>2, <2>3 DEF TypeOK, Queue!TypeOK, Queue!Cell
  <2>5. NoLineLost'
    <3>1. OrderOK /\ OrderOK'
      BY <2>4, OrderIs, PTL
    <3>2. InOrder' = InOrder
      BY <1>1, <2>1, <3>1, ConsumeMoves
    <3> QED
      BY <3>2, OrderStays
  <2>6. MakesMore' /\ Collecting'
    BY <2>1 DEF MakesMore, Collecting
  <2>7. offset + Len(buffer[active]) = Len(expected)
        /\ \A k \in 1..Len(buffer[active]) : buffer[active][k] = expected[offset + k]
    BY DEF BatchIsConsumed, Consumed
  <2>8. BatchIsConsumed'
    <3>1. offset + Len(buffer'[active]) = Len(expected')
      BY <1>1, <2>2, <2>3, <2>7
    <3>2. ASSUME NEW k \in 1..Len(buffer'[active])
          PROVE  buffer'[active][k] = expected'[offset + k]
      <4>1. CASE k \in 1..Len(buffer[active])
        <5>1. offset + k \in 1..Len(expected)
          BY <1>1, <2>7, <4>1
        <5> QED
          BY <2>2, <2>3, <2>7, <4>1, <5>1
      <4>2. CASE k = Len(buffer[active]) + 1
        <5>1. offset + k = Len(expected) + 1
          BY <1>1, <2>7, <4>2
        <5> QED
          BY <2>2, <2>3, <4>2, <5>1
      <4> QED
        BY <1>1, <2>3, <4>1, <4>2
    <3> QED
      BY <2>1, <3>1, <3>2 DEF BatchIsConsumed, Consumed
  <2>9. Flight'
    BY <2>1 DEF Flight
  <2>10. Written'
    <3>1. \A k \in 1..offset : expected'[k] = expected[k]
      BY <1>1, <2>2, <2>7
    <3>2. \A w \in writes : w.buf \in Buffers /\ w.buf # active /\ w.at \in Nat /\ w.len \in Nat
      <4>1. active \in {0, 1}
        BY <1>1 DEF Buffers
      <4>2. \A w \in writes : w.buf = 1 - active
        BY DEF Flight
      <4>3. \A w \in writes : w.at \in Nat /\ w.len \in Nat
        BY <1>1 DEF TypeOK
      <4> QED
        BY <4>1, <4>2, <4>3 DEF Buffers
    <3>3. writes = {} => \A k \in 1..offset : file[k] = expected'[k]
      BY <3>1 DEF Written
    <3>4. ASSUME NEW w \in writes
          PROVE  /\ w.at + w.len = offset /\ w.len = Len(buffer'[w.buf])
                 /\ \A k \in 1..w.at : file[k] = expected'[k]
                 /\ \A k \in 1..w.len : buffer'[w.buf][k] = expected'[w.at + k]
      <4>1. /\ w.at + w.len = offset /\ w.len = Len(buffer[w.buf])
            /\ \A k \in 1..w.at : file[k] = expected[k]
            /\ \A k \in 1..w.len : buffer[w.buf][k] = expected[w.at + k]
        BY DEF Written
      <4>2. \A k \in 1..w.at : k \in 1..offset
        BY <1>1, <3>2, <4>1
      <4>3. \A k \in 1..w.len : w.at + k \in 1..offset
        BY <1>1, <3>2, <4>1
      <4>4. buffer'[w.buf] = buffer[w.buf]
        BY <2>3, <3>2
      <4> QED
        BY <3>1, <4>1, <4>2, <4>3, <4>4
    <3> QED
      BY <3>3, <3>4 DEF Written
  <2>11. Sizes'
    <3>1. Len(expected) < TotalLines
      BY DEF Collecting, Consumed
    <3>2. Len(expected') <= TotalLines
      BY <1>1, <2>2, <3>1
    <3>3. ASSUME NEW b \in Buffers PROVE Len(buffer'[b]) <= MaxIoBytes
      <4>1. CASE b = active
        BY <1>1, <1>3, <2>3, <4>1
      <4>2. CASE b # active
        BY <2>3, <4>2 DEF Sizes
      <4> QED
        BY <4>1, <4>2
    <3> QED
      BY <3>2, <3>3 DEF Sizes, Consumed
  <2> QED
    BY <2>4, <2>5, <2>6, <2>8, <2>9, <2>10, <2>11
<1> QED
  BY <1>2, <1>3

\* An empty batch ends where it began.
LEMMA QuitInv ==
    ASSUME IInv, Quit
    PROVE  IInv'
<1> USE DEF IInv, Quit, queueVars, producerVars, consumerVars, ringVars
<1>1. cpc' \in {"top", "drain"}
  OBVIOUS
<1>2. TypeOK'
  BY <1>1 DEF TypeOK, Queue!TypeOK, Queue!Cell
<1>3. MakesMore' /\ NoLineLost'
  BY OrderApart DEF MakesMore
<1>4. offset = Consumed
  <2>1. Len(buffer[active]) = 0 /\ offset \in Nat
    BY TotalLinesType DEF Collecting, TypeOK
  <2> QED
    BY <2>1 DEF BatchIsConsumed
<1>5. Collecting' /\ BatchIsConsumed' /\ Flight' /\ Written' /\ Sizes'
  BY <1>1, <1>4 DEF Collecting, BatchIsConsumed, Flight, Written, Sizes, Consumed
<1> QED
  BY <1>2, <1>3, <1>5

\* Popping the one write that is in flight clears the one flag that is set.
LEMMA FlagCleared ==
    ASSUME NEW c \in Buffers
    PROVE  [[b \in Buffers |-> b = c] EXCEPT ![c] = FALSE] = [b \in Buffers |-> FALSE]
<1>1. \A b \in Buffers : [[d \in Buffers |-> d = c] EXCEPT ![c] = FALSE][b] = FALSE
  <2> SUFFICES ASSUME NEW b \in Buffers
               PROVE  [[d \in Buffers |-> d = c] EXCEPT ![c] = FALSE][b] = FALSE
    OBVIOUS
  <2>1. CASE b = c
    BY <2>1
  <2>2. CASE b # c
    <3>1. (b = c) = FALSE
      BY <2>2
    <3> QED
      BY <2>2, <3>1
  <2> QED
    BY <2>1, <2>2
<1> QED
  BY <1>1

\* The completion that is popped is the other buffer's.
LEMMA RetireInv ==
    ASSUME IInv, Retire
    PROVE  IInv'
<1> USE DEF IInv, Retire, queueVars, producerVars
<1>1. active \in {0, 1} /\ 1 - active \in Buffers
  BY DEF TypeOK, Buffers
<1>2. writes = {} /\ done = <<1 - active>>
  BY DEF Flight
<1>3. done' = <<>> /\ inFlight' = [b \in Buffers |-> FALSE]
  <2>1. inFlight = [b \in Buffers |-> b = 1 - active]
    BY <1>1 DEF Flight
  <2> QED
    BY <1>1, <1>2, <2>1, FlagCleared
<1>4. TypeOK'
  BY <1>1, <1>3 DEF TypeOK, Queue!TypeOK, Queue!Cell
<1>5. MakesMore' /\ NoLineLost'
  BY OrderApart DEF MakesMore
<1>6. Collecting' /\ BatchIsConsumed' /\ Written' /\ Sizes'
  BY DEF Collecting, BatchIsConsumed, Written, Sizes, Consumed
<1>7. Flight'
  BY <1>2, <1>3 DEF Flight
<1> QED
  BY <1>4, <1>5, <1>6, <1>7

\* The write that is pushed has the consumed lines behind the file offset.
LEMMA PushWriteInv ==
    ASSUME IInv, PushWrite
    PROVE  IInv'
<1> USE DEF IInv, PushWrite, queueVars, producerVars
<1>1. active \in {0, 1} /\ active \in Buffers /\ 1 - active \in Buffers
      /\ 1 - (1 - active) = active
  BY DEF TypeOK, Buffers
<1>2. /\ buffer \in [Buffers -> Seq(Lines)] /\ MaxIoBytes \in Nat
      /\ TotalLines \in Nat /\ offset \in Nat /\ Consumed <= TotalLines
      /\ Len(buffer[active]) \in 1..MaxIoBytes
  <2>1. buffer[active] \in Seq(Lines) /\ buffer[active] # <<>>
    BY <1>1 DEF TypeOK, Collecting
  <2>2. Len(buffer[active]) \in Nat \ {0}
    BY <2>1, EmptySeq
  <2>3. Len(buffer[active]) <= MaxIoBytes /\ Consumed <= TotalLines
    BY <1>1 DEF Sizes
  <2> QED
    BY <2>2, <2>3, SizesAssumption, TotalLinesType DEF TypeOK
<1>3. writes = {} /\ done = <<>> /\ inFlight = [b \in Buffers |-> FALSE]
  <2>1. inFlight = [b \in Buffers |-> FALSE]
    BY DEF Flight
  <2>2. inFlight # [b \in Buffers |-> b = 1 - active]
    <3>1. [b \in Buffers |-> b = 1 - active][1 - active] = TRUE
      BY <1>1
    <3>2. inFlight[1 - active] = FALSE
      BY <1>1, <2>1
    <3> QED
      BY <3>1, <3>2
  <2> QED
    BY <2>1, <2>2 DEF Flight
<1>4. offset + Len(buffer[active]) = Consumed
      /\ \A k \in 1..Len(buffer[active]) : buffer[active][k] = expected[offset + k]
  BY DEF BatchIsConsumed
<1> DEFINE w == [buf |-> active, len |-> Len(buffer[active]), at |-> offset]
<1>5. /\ w.buf = active /\ w.len = Len(buffer[active]) /\ w.at = offset
      /\ w \in [buf : Buffers, len : 1..MaxIoBytes, at : 0..TotalLines]
  BY <1>1, <1>2 DEF TypeOK
<1>6. writes' = {w}
  BY <1>3
<1> HIDE DEF w
<1>7. inFlight' = [b \in Buffers |-> b = 1 - active'] /\ active' \in Buffers /\ active = 1 - active'
  BY <1>1, <1>3 DEF Buffers
<1>8. offset' = Consumed /\ Consumed \in 0..TotalLines
  BY <1>2, <1>4
<1>9. TypeOK'
  <2>1. writes' \subseteq [buf : Buffers, len : 1..MaxIoBytes, at : 0..TotalLines]
    BY <1>5, <1>6
  <2>2. inFlight' \in [Buffers -> BOOLEAN]
    BY <1>7
  <2> QED
    BY <1>7, <1>8, <2>1, <2>2 DEF TypeOK, Queue!TypeOK, Queue!Cell
<1>10. MakesMore' /\ NoLineLost'
  BY OrderApart DEF MakesMore
<1>11. Collecting' /\ Sizes'
  BY DEF Collecting, Sizes, Consumed
<1>12. BatchIsConsumed'
  BY <1>8 DEF BatchIsConsumed, Consumed
<1>13. Flight'
  BY <1>3, <1>5, <1>6, <1>7 DEF Flight
<1>14. Written'
  <2>1. \A k \in 1..offset : file[k] = expected[k]
    BY <1>3 DEF Written
  <2> QED
    BY <1>4, <1>5, <1>6, <1>8, <2>1 DEF Written
<1> QED
  BY <1>9, <1>10, <1>11, <1>12, <1>13, <1>14

\* The drain pops the one completion there is.
LEMMA DrainRingInv ==
    ASSUME IInv, DrainRing
    PROVE  IInv'
<1> USE DEF IInv, DrainRing, queueVars, producerVars
<1>1. active \in {0, 1} /\ 1 - active \in Buffers
  BY DEF TypeOK, Buffers
<1>2. MakesMore' /\ NoLineLost'
  BY OrderApart DEF MakesMore
<1>3. CASE \E b \in Buffers : inFlight[b]
  <2>1. inFlight = [b \in Buffers |-> b = 1 - active] /\ done # <<>>
    BY <1>3 DEF Flight
  <2>2. writes = {} /\ done = <<1 - active>>
    BY <2>1 DEF Flight
  <2>3. done' = <<>> /\ cpc' = cpc /\ inFlight' = [b \in Buffers |-> FALSE]
    <3>1. PICK b \in Buffers : inFlight[b] /\ inFlight' = [inFlight EXCEPT ![b] = FALSE]
      BY <1>3
    <3>2. b = 1 - active
      BY <2>1, <3>1
    <3>3. done' = <<>> /\ cpc' = cpc
      BY <1>3, <2>2
    <3> QED
      BY <2>1, <3>1, <3>2, <3>3, FlagCleared
  <2>4. TypeOK'
    BY <2>3 DEF TypeOK, Queue!TypeOK, Queue!Cell
  <2>5. Flight'
    BY <2>2, <2>3 DEF Flight
  <2> QED
    BY <1>2, <2>3, <2>4, <2>5 DEF Collecting, BatchIsConsumed, Written, Sizes, Consumed
<1>4. CASE ~ \E b \in Buffers : inFlight[b]
  <2>1. cpc' = "joined" /\ UNCHANGED <<done, inFlight>>
    BY <1>4
  <2>2. TypeOK'
    BY <2>1 DEF TypeOK, Queue!TypeOK, Queue!Cell
  <2>3. Flight'
    <3>1. inFlight # [b \in Buffers |-> b = 1 - active]
      BY <1>1, <1>4
    <3> QED
      BY <2>1, <3>1 DEF Flight
  <2> QED
    BY <1>2, <2>1, <2>2, <2>3 DEF Collecting, BatchIsConsumed, Written, Sizes, Consumed
<1> QED
  BY <1>3, <1>4

\* The write that completes fills the file up to the offset.
LEMMA CompleteWriteInv ==
    ASSUME IInv, NEW w \in writes, CompleteWrite(w)
    PROVE  IInv'
<1> USE DEF IInv, CompleteWrite, queueVars, producerVars, consumerVars
<1>1. /\ writes = {w} /\ w.buf = 1 - active /\ done = <<>>
      /\ inFlight = [b \in Buffers |-> b = 1 - active]
  BY DEF Flight
<1>2. /\ w.buf \in Buffers /\ w.len \in Nat /\ w.at \in Nat /\ offset \in Nat
      /\ buffer[w.buf] \in Seq(Lines) /\ TotalLines \in Nat /\ offset <= TotalLines
  <2>1. w \in [buf : Buffers, len : 1..MaxIoBytes, at : 0..TotalLines]
    BY DEF TypeOK
  <2> QED
    BY <2>1, TotalLinesType DEF TypeOK
<1>3. /\ w.at + w.len = offset /\ w.len = Len(buffer[w.buf])
      /\ \A k \in 1..w.at : file[k] = expected[k]
      /\ \A k \in 1..w.len : buffer[w.buf][k] = expected[w.at + k]
  BY DEF Written
<1>4. writes' = {} /\ done' = <<1 - active>>
  BY <1>1
<1>5. \A k \in 1..TotalLines :
        file'[k] = IF k \in (w.at + 1)..(w.at + w.len) /\ k - w.at <= Len(buffer[w.buf])
                   THEN buffer[w.buf][k - w.at] ELSE file[k]
  OBVIOUS
<1>6. ASSUME NEW k \in 1..TotalLines PROVE file'[k] \in Lines \cup {NULL}
  <2>1. CASE k \in (w.at + 1)..(w.at + w.len) /\ k - w.at <= Len(buffer[w.buf])
    <3>1. k - w.at \in 1..Len(buffer[w.buf])
      BY <1>2, <1>3, <2>1
    <3> QED
      BY <1>2, <1>5, <2>1, <3>1, ElementOfSeq
  <2>2. CASE ~(k \in (w.at + 1)..(w.at + w.len) /\ k - w.at <= Len(buffer[w.buf]))
    BY <1>5, <2>2 DEF TypeOK
  <2> QED
    BY <2>1, <2>2
<1>7. TypeOK'
  <2>1. file' \in [1..TotalLines -> Lines \cup {NULL}]
    BY <1>6
  <2>2. done' \in Seq(Buffers)
    BY <1>1, <1>2, <1>4
  <2> QED
    BY <1>4, <2>1, <2>2 DEF TypeOK, Queue!TypeOK, Queue!Cell
<1>8. MakesMore' /\ NoLineLost'
  BY OrderApart DEF MakesMore
<1>9. Collecting' /\ BatchIsConsumed' /\ Sizes'
  BY DEF Collecting, BatchIsConsumed, Sizes, Consumed
<1>10. Flight'
  BY <1>1, <1>4 DEF Flight
<1>11. Written'
  <2>1. ASSUME NEW k \in 1..offset PROVE file'[k] = expected[k]
    <3>1. k \in 1..TotalLines
      BY <1>2
    <3>2. CASE k <= w.at
      BY <1>2, <1>3, <1>5, <3>1, <3>2
    <3>3. CASE k > w.at
      <4>1. /\ k \in (w.at + 1)..(w.at + w.len) /\ k - w.at <= Len(buffer[w.buf])
            /\ k - w.at \in 1..w.len /\ w.at + (k - w.at) = k
        <5>1. w.at \in Nat /\ w.len \in Nat /\ w.at + w.len = offset /\ w.len = Len(buffer[w.buf])
          BY <1>2, <1>3
        <5> QED
          BY <3>3, <5>1
      <4> QED
        BY <1>3, <1>5, <3>1, <4>1
    <3> QED
      BY <1>2, <3>2, <3>3
  <2> QED
    BY <1>4, <2>1 DEF Written
<1> QED
  BY <1>7, <1>8, <1>9, <1>10, <1>11

-----------------------------------------------------------------------------
(* The theorems *)

LEMMA NextInv == IInv /\ [Next]_vars => IInv'
<1> SUFFICES ASSUME IInv, [Next]_vars PROVE IInv'
  OBVIOUS
<1>1. ASSUME NEW p \in Producers, Producer(p) PROVE IInv'
  BY <1>1, ClaimLineInv, PublishLineInv, FinishInv DEF Producer
<1>2. CASE Consumer
  BY <1>2, TopInv, MovingInv, DequeueLineInv, ProcessInv, QuitInv, RetireInv,
     PushWriteInv, DrainRingInv DEF Consumer
<1>3. ASSUME NEW w \in writes, CompleteWrite(w) PROVE IInv'
  BY <1>3, CompleteWriteInv
<1>4. CASE UNCHANGED vars
  <2>1. UNCHANGED <<queueVars, racing, producerVars, cpc, consumerVars, ringVars>>
    BY <1>4 DEF vars
  <2>2. TypeOK'
    BY <2>1 DEF IInv, TypeOK, Queue!TypeOK, Queue!Cell, queueVars, producerVars,
                consumerVars, ringVars
  <2>3. ConsumerInv'
    BY <2>1, ConsumerApart DEF IInv, ConsumerInv
  <2>4. MakesMore' /\ NoLineLost'
    BY <2>1, OrderApart DEF IInv, MakesMore, queueVars, producerVars, consumerVars
  <2> QED
    BY <2>2, <2>3, <2>4 DEF IInv, ConsumerInv
<1> QED
  BY <1>1, <1>2, <1>3, <1>4 DEF Next

\* The inductive invariant, in every reachable state.
THEOREM Invariant == Spec => []IInv
BY InitInv, NextInv, PTL DEF Spec

\* Every variable keeps its type: the file offset stays within the file, a write
\* is never empty nor longer than a buffer, and every completion names a buffer.
THEOREM TypeCorrect == Spec => []TypeOK
<1>1. IInv => TypeOK
  BY DEF IInv
<1> QED
  BY Invariant, <1>1, PTL

\* The consumer never has two writes in flight, so the completion it pops,
\* whichever it is, is that of the buffer it clears (lines 597-620, 659-679).
THEOREM OneWriteInFlight == Spec => []OneInFlight
<1>1. IInv => OneInFlight
  <2> SUFFICES ASSUME IInv PROVE OneInFlight
    OBVIOUS
  <2>1. active \in {0, 1} /\ 1 - active \in Buffers /\ done \in Seq(Buffers)
    BY DEF IInv, TypeOK, Buffers
  <2>2. Range(done) = {done[k] : k \in 1..Len(done)}
    BY <2>1, RangeEquality
  <2>3. CASE writes = {} /\ done = <<>> /\ inFlight = [b \in Buffers |-> FALSE]
    <3>1. Cardinality(writes) = 0 /\ Len(done) = 0 /\ Range(done) = {}
      BY <2>2, <2>3, FS_EmptySet
    <3> QED
      BY <2>3, <3>1 DEF OneInFlight
  <2>4. ASSUME inFlight = [b \in Buffers |-> b = 1 - active]
        PROVE  {b \in Buffers : inFlight[b]} = {1 - active}
    BY <2>1, <2>4
  <2>5. ASSUME inFlight = [b \in Buffers |-> b = 1 - active], done = <<>>,
               NEW w \in writes, writes = {w}, w.buf = 1 - active
        PROVE  OneInFlight
    <3>1. Cardinality({w}) = 1
      BY FS_Singleton
    <3>2. Len(done) = 0 /\ Range(done) = {}
      BY <2>2, <2>5
    <3>3. {v.buf : v \in writes} = {1 - active}
      BY <2>5
    <3> QED
      BY <2>4, <2>5, <3>1, <3>2, <3>3 DEF OneInFlight
  <2>6. ASSUME inFlight = [b \in Buffers |-> b = 1 - active], done = <<1 - active>>,
               writes = {}
        PROVE  OneInFlight
    <3>1. Cardinality(writes) = 0 /\ Len(done) = 1 /\ done[1] = 1 - active
      BY <2>6, FS_EmptySet
    <3>2. Range(done) = {1 - active}
      BY <2>2, <3>1
    <3> QED
      BY <2>4, <2>6, <3>1, <3>2 DEF OneInFlight
  <2> QED
    BY <2>3, <2>5, <2>6 DEF IInv, Flight
<1> QED
  BY Invariant, <1>1, PTL

\* Every line a producer made is consumed, held over or queued, exactly once,
\* and in its producer's order.
THEOREM LinesSurvive == Spec => []NoLineLost
<1>1. IInv => NoLineLost
  BY DEF IInv
<1> QED
  BY Invariant, <1>1, PTL

\* With no write outstanding the file is, up to its offset, the lines consumed
\* in the order they were consumed, and at the end it is all of them.
THEOREM FileMatches == Spec => []FileIsExpected
<1>1. IInv => FileIsExpected
  <2> SUFFICES ASSUME IInv PROVE FileIsExpected
    OBVIOUS
  <2> USE DEF IInv
  <2>1. /\ offset \in Nat /\ TotalLines \in Nat /\ expected \in Seq(Lines)
        /\ Len(expected) \in Nat /\ file \in [1..TotalLines -> Lines \cup {NULL}]
        /\ offset <= TotalLines /\ active \in Buffers
    BY TotalLinesType, LenProperties DEF TypeOK
  <2>2. offset <= Len(expected)
    <3>1. Len(buffer[active]) \in Nat
      BY <2>1, LenProperties DEF TypeOK
    <3> QED
      BY <2>1, <3>1 DEF BatchIsConsumed, Consumed
  <2>3. ASSUME writes = {} PROVE SubSeq(file, 1, offset) = SubSeq(expected, 1, offset)
    <3>1. \A k \in 1..offset : file[k] = expected[k] /\ expected[k] \in Lines
      BY <2>1, <2>2, <2>3, ElementOfSeq DEF Written
    <3>2. /\ SubSeq(file, 1, offset) \in Seq(Lines)
          /\ Len(SubSeq(file, 1, offset)) = IF 1 <= offset THEN offset - 1 + 1 ELSE 0
          /\ \A i \in 1..(offset - 1 + 1) : SubSeq(file, 1, offset)[i] = file[1 + i - 1]
      BY <2>1, <3>1, SubSeqProperties
    <3>3. /\ SubSeq(expected, 1, offset) \in Seq(Lines)
          /\ Len(SubSeq(expected, 1, offset)) = IF 1 <= offset THEN offset - 1 + 1 ELSE 0
          /\ \A i \in 1..(offset - 1 + 1) :
                SubSeq(expected, 1, offset)[i] = expected[1 + i - 1]
      BY <2>1, <3>1, SubSeqProperties
    <3>4. ASSUME NEW i \in 1..Len(SubSeq(file, 1, offset))
          PROVE  SubSeq(file, 1, offset)[i] = SubSeq(expected, 1, offset)[i]
      <4>1. i \in 1..offset /\ 1 + i - 1 = i /\ i \in 1..(offset - 1 + 1)
        BY <2>1, <3>2
      <4> QED
        BY <3>1, <3>2, <3>3, <4>1
    <3> QED
      BY <3>2, <3>3, <3>4, SeqEqual
  <2>4. cpc = "joined" => offset = Consumed
    BY DEF BatchIsConsumed
  <2> QED
    BY <2>2, <2>3, <2>4 DEF FileIsExpected, Consumed
<1> QED
  BY Invariant, <1>1, PTL

\* No step of the consumer touches a buffer that the kernel may still read.
THEOREM BuffersAreStable == Spec => BufferStable
<1>1. IInv /\ [Next]_vars =>
        [\A w \in writes : w \in writes' => buffer'[w.buf] = buffer[w.buf]]_vars
  <2> SUFFICES ASSUME IInv, Next, NEW w \in writes
               PROVE  buffer'[w.buf] = buffer[w.buf]
    OBVIOUS
  <2>1. w.buf \in Buffers /\ w.buf # active /\ buffer \in [Buffers -> Seq(Lines)]
    <3>1. active \in {0, 1} /\ w.buf = 1 - active /\ buffer \in [Buffers -> Seq(Lines)]
      BY DEF IInv, TypeOK, Flight, Buffers
    <3> QED
      BY <3>1 DEF Buffers
  <2>2. CASE Top \/ Process
    BY <2>1, <2>2 DEF Top, Process
  <2>3. CASE ~(Top \/ Process)
    BY <2>3 DEF Next, Producer, ClaimLine, PublishLine, Finish, Consumer, EndBatch,
       NextLine, DequeueLine, DequeueNull, OnEmpty, Flush, Quit, Retire, PushWrite,
       DrainRing, CompleteWrite, consumerVars
  <2> QED
    BY <2>2, <2>3
<1> QED
  BY Invariant, <1>1, PTL DEF Spec, BufferStable
=============================================================================
