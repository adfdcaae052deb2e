----------------------- MODULE UnboundedLinkedProofs -----------------------
(***************************************************************************)
(* Theorems about UnboundedLinkedMPSCQ, for any producers and any nodes:   *)
(* its invariants, and that it implements MpscChannel.                     *)
(***************************************************************************)
EXTENDS UnboundedLinkedMPSCQ, SequenceTheorems, FiniteSetTheorems, TLAPS

-----------------------------------------------------------------------------
(* The inductive invariant *)

InChain(n) == \E k \in 1..Len(chain) : chain[k] = n

\* n was exchanged into head right after m.
Follows(m, n) == \E k \in 1..(Len(chain) - 1) : chain[k] = m /\ chain[k + 1] = n

\* No node is in the queue twice.
NoNodeTwice ==
    /\ Len(chain) >= 1
    /\ \A j, k \in 1..Len(chain) : chain[j] = chain[k] => j = k

\* A node belongs to a caller, to one producer that is pushing it, or to the
\* queue; between the exchange and the link to the last two.
Owners ==
    /\ \A n \in free : ~InChain(n)
    /\ \A p \in Producers : pc[p] # "idle" =>
          /\ node[p] \in Nodes /\ node[p] \notin free
          /\ \A q \in Producers : pc[q] # "idle" /\ node[q] = node[p] => q = p
    /\ \A p \in Producers : pc[p] \in {"clear", "swap"} => ~InChain(node[p])
    /\ \A n \in Nodes :
          \/ n \in free \/ InChain(n)
          \/ \E p \in Producers : pc[p] \in {"clear", "swap"} /\ node[p] = n

\* What a push has done at each of its steps.
PushAt(p) ==
    /\ pc[p] = "swap" => next[node[p]] = NULL
    /\ pc[p] = "link" => Follows(prev[p], node[p])

\* What pop knows at each of its steps.
PopAt ==
    /\ cpc \notin {"idle", "load"} => lt = tail /\ lt # stub
    /\ cpc \in {"sclear", "sswap"} => ~InChain(stub)
    /\ cpc = "sswap" => next[stub] = NULL
    /\ cpc = "slink" => Follows(cprev, stub)
    /\ cpc = "recheck" => InChain(stub)

\* As long as no push exchanged during the call, a node that pop saw without a
\* next is the last one.
Calm ==
    calm /\ cpc # "idle" => Linking = {} /\ (cpc = "head" => Len(chain) = 1)

\* The destructor runs alone, and stops at the stub.
Phases ==
    /\ phase # "live" => (\A p \in Producers : pc[p] = "idle") /\ (cpc # "idle" => calm)
    /\ phase = "gone" => cpc = "idle" /\ chain = <<stub>>

IInv ==
    /\ TypeOK /\ ChainIntact /\ NoNodeTwice /\ Owners
    /\ \A p \in Producers : PushAt(p)
    /\ PopAt /\ Calm /\ Phases

-----------------------------------------------------------------------------
(* The chain *)

\* nullptr and the stub are no items.
LEMMA Names == NULL \notin AllNodes /\ stub \in AllNodes /\ stub \notin Nodes
BY NodesAssumption DEF AllNodes

\* The chain is a sequence of nodes that begins at tail and ends at head.
LEMMA ChainFacts ==
    ASSUME TypeOK, NoNodeTwice, ChainIntact
    PROVE  /\ chain \in Seq(AllNodes) /\ Len(chain) \in Nat \ {0} /\ chain # <<>>
           /\ \A k \in 1..Len(chain) : chain[k] \in AllNodes
           /\ InChain(head) /\ InChain(tail)
           /\ head \in AllNodes /\ tail \in AllNodes
<1>1. chain \in Seq(AllNodes) /\ Len(chain) >= 1
  BY DEF TypeOK, NoNodeTwice
<1>2. Len(chain) \in Nat /\ chain # <<>> /\ \A k \in 1..Len(chain) : chain[k] \in AllNodes
  BY <1>1, EmptySeq, LenProperties, ElementOfSeq
<1> QED
  BY <1>1, <1>2 DEF ChainIntact, InChain, TypeOK

\* A node whose next is set is followed by it.
LEMMA SecondOfChain ==
    ASSUME TypeOK, NoNodeTwice, ChainIntact, next[tail] # NULL
    PROVE  Len(chain) >= 2 /\ chain[2] = next[tail] /\ ~Gap(tail, chain[2])
<1>1. Len(chain) \in Nat \ {0} /\ chain[1] = tail
  BY ChainFacts DEF ChainIntact
<1>2. Len(chain) # 1
  BY <1>1 DEF ChainIntact
<1> QED
  BY <1>1, <1>2 DEF ChainIntact

\* Without a push in progress, a node without a next is the last one.
LEMMA OnlyOfChain ==
    ASSUME TypeOK, NoNodeTwice, ChainIntact, next[tail] = NULL,
           Linking = {}, cpc # "slink"
    PROVE  Len(chain) = 1
<1> SUFFICES ASSUME Len(chain) # 1 PROVE FALSE
  OBVIOUS
<1>1. Len(chain) \in Nat \ {0} /\ chain[1] = tail
  BY ChainFacts DEF ChainIntact
<1>2. 2 \in 1..Len(chain) /\ 1 \in 1..(Len(chain) - 1)
  BY <1>1
<1>3. chain[2] \in AllNodes
  BY <1>2, ChainFacts
<1>4. ~Gap(tail, chain[2])
  BY DEF Gap
<1>5. next[chain[1]] = chain[1 + 1]
  BY <1>1, <1>2, <1>4 DEF ChainIntact
<1> QED
  BY <1>1, <1>3, <1>5, Names

\* Each gap is between two neighbours of the chain.
LEMMA GapsFollow ==
    ASSUME \A p \in Producers : PushAt(p), PopAt, NEW m, NEW n, Gap(m, n)
    PROVE  Follows(m, n)
BY DEF Gap, PushAt, PopAt, Linking

\* A chain that grows.
LEMMA AppendedChain ==
    ASSUME TypeOK, NoNodeTwice, NEW n \in AllNodes, ~InChain(n),
           chain' = Append(chain, n)
    PROVE  /\ chain' \in Seq(AllNodes) /\ Len(chain') = Len(chain) + 1
           /\ Len(chain) \in Nat \ {0}
           /\ \A k \in 1..Len(chain) : chain'[k] = chain[k]
           /\ chain'[Len(chain) + 1] = n
           /\ NoNodeTwice'
           /\ \A m : InChain(m)' <=> InChain(m) \/ m = n
           /\ \A l, m : Follows(l, m)' <=> Follows(l, m) \/ (l = chain[Len(chain)] /\ m = n)
<1>1. chain \in Seq(AllNodes) /\ Len(chain) >= 1 /\ Len(chain) \in Nat
  BY LenProperties DEF TypeOK, NoNodeTwice
<1>2. /\ chain' \in Seq(AllNodes) /\ Len(chain') = Len(chain) + 1
      /\ \A k \in 1..Len(chain) : chain'[k] = chain[k]
      /\ chain'[Len(chain) + 1] = n
  BY <1>1, AppendProperties
<1>3. NoNodeTwice'
  BY <1>1, <1>2 DEF NoNodeTwice, InChain
<1>4. ASSUME NEW m PROVE InChain(m)' <=> InChain(m) \/ m = n
  BY <1>1, <1>2 DEF InChain
<1>5. ASSUME NEW l, NEW m
      PROVE  Follows(l, m)' <=> Follows(l, m) \/ (l = chain[Len(chain)] /\ m = n)
  <2>1. Follows(l, m)' <=> \E k \in 1..Len(chain) : chain'[k] = l /\ chain'[k + 1] = m
    BY <1>1, <1>2 DEF Follows
  <2>2. \A k \in 1..(Len(chain) - 1) : chain'[k] = chain[k] /\ chain'[k + 1] = chain[k + 1]
    BY <1>1, <1>2
  <2>3. chain'[Len(chain)] = chain[Len(chain)] /\ Len(chain) \in 1..Len(chain)
    BY <1>1, <1>2
  <2>4. 1..Len(chain) = (1..(Len(chain) - 1)) \cup {Len(chain)}
    BY <1>1
  <2> QED
    BY <1>2, <2>1, <2>2, <2>3, <2>4 DEF Follows
<1> QED
  BY <1>1, <1>2, <1>3, <1>4, <1>5

\* A chain that loses its first node.
LEMMA ShortenedChain ==
    ASSUME TypeOK, NoNodeTwice, Len(chain) >= 2, chain' = Tail(chain)
    PROVE  /\ chain' \in Seq(AllNodes) /\ Len(chain') = Len(chain) - 1
           /\ Len(chain) \in Nat
           /\ \A k \in 1..(Len(chain) - 1) : chain'[k] = chain[k + 1]
           /\ NoNodeTwice'
           /\ \A m : InChain(m)' <=> InChain(m) /\ m # chain[1]
           /\ \A l, m : Follows(l, m)' <=> Follows(l, m) /\ l # chain[1]
<1>1. chain \in Seq(AllNodes) /\ Len(chain) \in Nat /\ chain # <<>>
  BY LenProperties, EmptySeq DEF TypeOK
<1>2. /\ chain' \in Seq(AllNodes) /\ Len(chain') = Len(chain) - 1
      /\ \A k \in 1..(Len(chain) - 1) : chain'[k] = chain[k + 1]
  BY <1>1, HeadTailProperties
<1>3. NoNodeTwice'
  BY <1>1, <1>2 DEF NoNodeTwice
<1>4. ASSUME NEW m PROVE InChain(m)' <=> InChain(m) /\ m # chain[1]
  <2>1. ASSUME NEW k \in 1..Len(chain), chain[k] = m, m # chain[1] PROVE InChain(m)'
    <3>1. k - 1 \in 1..(Len(chain) - 1) /\ chain'[k - 1] = m
      BY <1>1, <1>2, <2>1
    <3> QED
      BY <1>2, <3>1 DEF InChain
  <2>2. ASSUME NEW k \in 1..Len(chain'), chain'[k] = m PROVE InChain(m) /\ m # chain[1]
    <3>1. k + 1 \in 1..Len(chain) /\ chain[k + 1] = m /\ k + 1 # 1 /\ 1 \in 1..Len(chain)
      BY <1>1, <1>2, <2>2
    <3> QED
      BY <3>1 DEF InChain, NoNodeTwice
  <2> QED
    BY <2>1, <2>2 DEF InChain
<1>5. ASSUME NEW l, NEW m PROVE Follows(l, m)' <=> Follows(l, m) /\ l # chain[1]
  <2>1. ASSUME NEW k \in 1..(Len(chain) - 1), chain[k] = l, chain[k + 1] = m, l # chain[1]
        PROVE  Follows(l, m)'
    <3>1. k - 1 \in 1..(Len(chain') - 1) /\ chain'[k - 1] = l /\ chain'[(k - 1) + 1] = m
      BY <1>1, <1>2, <2>1
    <3> QED
      BY <3>1 DEF Follows
  <2>2. ASSUME NEW k \in 1..(Len(chain') - 1), chain'[k] = l, chain'[k + 1] = m
        PROVE  Follows(l, m) /\ l # chain[1]
    <3>1. /\ k + 1 \in 1..(Len(chain) - 1) /\ chain[k + 1] = l /\ chain[(k + 1) + 1] = m
          /\ k + 1 # 1 /\ k + 1 \in 1..Len(chain) /\ 1 \in 1..Len(chain)
      BY <1>1, <1>2, <2>2
    <3> QED
      BY <3>1 DEF Follows, NoNodeTwice
  <2> QED
    BY <2>1, <2>2 DEF Follows
<1> QED
  BY <1>1, <1>2, <1>3, <1>4, <1>5

\* An exchange of head leaves a gap behind the node that was the last one.
LEMMA ChainGrows ==
    ASSUME TypeOK, ChainIntact, NoNodeTwice, NEW n \in AllNodes, ~InChain(n),
           next[n] = NULL, head' = n, chain' = Append(chain, n), UNCHANGED <<tail, next>>,
           \A l, m : Gap(l, m)' <=> Gap(l, m) \/ (l = head /\ m = n)
    PROVE  ChainIntact'
<1>1. /\ Len(chain') = Len(chain) + 1 /\ Len(chain) \in Nat \ {0}
      /\ \A k \in 1..Len(chain) : chain'[k] = chain[k]
      /\ chain'[Len(chain) + 1] = n
  BY AppendedChain
<1>2. chain[1] = tail /\ chain[Len(chain)] = head /\ next[head] = NULL
  BY DEF ChainIntact
<1>3. ASSUME NEW k \in 1..(Len(chain') - 1), NEW l, NEW m,
             l = chain'[k], m = chain'[k + 1]
      PROVE  IF Gap(l, m)' THEN next'[l] = NULL ELSE next'[l] = m
  <2>1. CASE k = Len(chain)
    <3>1. l = head /\ m = n
      BY <1>1, <1>2, <1>3, <2>1
    <3> QED
      BY <1>2, <3>1
  <2>2. CASE k # Len(chain)
    <3>1. k \in 1..(Len(chain) - 1) /\ k \in 1..Len(chain) /\ k + 1 \in 1..Len(chain)
      BY <1>1, <2>2
    <3>2. l = chain[k] /\ m = chain[k + 1] /\ m # n
      BY <1>1, <1>3, <3>1 DEF InChain
    <3>3. Gap(l, m)' <=> Gap(l, m)
      BY <3>2
    <3> QED
      BY <3>1, <3>2, <3>3 DEF ChainIntact
  <2> QED
    BY <2>1, <2>2
<1>4. \A k \in 1..(Len(chain') - 1) :
        (IF Gap(chain[k], chain[k + 1])
         THEN next[chain[k]] = NULL ELSE next[chain[k]] = chain[k + 1])'
  BY <1>3 DEF Gap
<1>5. chain'[1] = tail' /\ chain'[Len(chain')] = head' /\ next'[head'] = NULL
  BY <1>1, <1>2
<1> QED
  BY <1>4, <1>5 DEF ChainIntact

\* A store of next closes one gap.
LEMMA GapCloses ==
    ASSUME TypeOK, ChainIntact, NoNodeTwice, NEW a, NEW b, Follows(a, b),
           next' = [next EXCEPT ![a] = b], UNCHANGED <<head, tail, chain>>,
           \A l, m : Gap(l, m)' <=> Gap(l, m) /\ ~(l = a /\ m = b)
    PROVE  ChainIntact'
<1>1. PICK i \in 1..(Len(chain) - 1) : chain[i] = a /\ chain[i + 1] = b
  BY DEF Follows
<1>2. Len(chain) \in Nat \ {0} /\ i \in 1..Len(chain) /\ Len(chain) \in 1..Len(chain)
  BY ChainFacts
<1>3. a # head
  BY <1>1, <1>2 DEF ChainIntact, NoNodeTwice
<1>4. \A m \in AllNodes : next'[m] = IF m = a THEN b ELSE next[m]
  BY DEF TypeOK
<1>5. ASSUME NEW k \in 1..(Len(chain) - 1)
      PROVE  IF Gap(chain[k], chain[k + 1])'
             THEN next'[chain[k]] = NULL ELSE next'[chain[k]] = chain[k + 1]
  <2>1. k \in 1..Len(chain)
    BY <1>2
  <2>2. chain[k] \in AllNodes
    BY <2>1, ChainFacts
  <2>3. CASE k = i
    BY <1>1, <1>4, <2>2, <2>3
  <2>4. CASE k # i
    <3>1. chain[k] # a
      BY <1>1, <1>2, <2>1, <2>4 DEF NoNodeTwice
    <3>2. Gap(chain[k], chain[k + 1])' <=> Gap(chain[k], chain[k + 1])
      BY <3>1
    <3> QED
      BY <1>4, <2>2, <3>1, <3>2 DEF ChainIntact
  <2> QED
    BY <2>3, <2>4
<1>6. next'[head] = NULL
  BY <1>3, <1>4, ChainFacts DEF ChainIntact
<1> QED
  BY <1>5, <1>6 DEF ChainIntact

\* The empty queue.
LEMMA InitInv == Init => IInv
<1> SUFFICES ASSUME Init PROVE IInv
  OBVIOUS
<1> USE DEF Init
<1>1. chain \in Seq(AllNodes) /\ Len(chain) = 1 /\ chain[1] = stub
  BY Names
<1>2. TypeOK
  BY <1>1, Names DEF TypeOK
<1>3. ChainIntact
  BY <1>1, Names DEF ChainIntact
<1>4. NoNodeTwice
  BY <1>1 DEF NoNodeTwice
<1>5. Owners
  BY <1>1, Names DEF Owners, InChain
<1>6. (\A p \in Producers : PushAt(p)) /\ PopAt /\ Calm /\ Phases
  BY DEF PushAt, PopAt, Calm, Phases
<1> QED
  BY <1>2, <1>3, <1>4, <1>5, <1>6 DEF IInv

-----------------------------------------------------------------------------
(* The producers *)

\* A caller's item becomes its producer's.
LEMMA EnqCallInv ==
    ASSUME IInv, NEW p \in Producers, EnqCall(p) PROVE IInv'
<1> USE DEF IInv, EnqCall, queueVars, consumerVars
<1>1. PICK n \in free : node' = [node EXCEPT ![p] = n] /\ free' = free \ {n}
  OBVIOUS
<1>2. n \in Nodes /\ n \in AllNodes
  BY DEF TypeOK, AllNodes
<1>3. TypeOK'
  BY <1>1, <1>2 DEF TypeOK
<1>4. /\ pc'[p] = "clear" /\ node'[p] = n
      /\ \A q \in Producers \ {p} : pc'[q] = pc[q] /\ node'[q] = node[q]
      /\ Linking' = Linking
  BY <1>1 DEF TypeOK, Linking
<1>5. \A l, m : Gap(l, m)' <=> Gap(l, m)
  BY <1>4 DEF Gap, Linking
<1>6. ChainIntact' /\ NoNodeTwice'
  BY <1>5 DEF ChainIntact, NoNodeTwice
<1>7. Owners'
  BY <1>1, <1>2, <1>4 DEF Owners, InChain
<1>8. \A q \in Producers : PushAt(q)'
  BY <1>4 DEF PushAt, Follows
<1>9. PopAt' /\ Calm'
  BY <1>4 DEF PopAt, Calm, InChain, Follows
<1>10. Phases'
  BY DEF Phases
<1> QED
  BY <1>3, <1>6, <1>7, <1>8, <1>9, <1>10

\* The node that is cleared is not in the queue.
LEMMA PushClearInv ==
    ASSUME IInv, NEW p \in Producers, PushClear(p) PROVE IInv'
<1> USE DEF IInv, PushClear, consumerVars
<1>1. node[p] \in Nodes /\ node[p] \in AllNodes /\ ~InChain(node[p])
  BY DEF Owners, AllNodes
<1>2. TypeOK'
  BY DEF TypeOK
<1>3. /\ pc'[p] = "swap" /\ \A q \in Producers \ {p} : pc'[q] = pc[q]
      /\ Linking' = Linking
      /\ \A m \in AllNodes : next'[m] = IF m = node[p] THEN NULL ELSE next[m]
  BY DEF TypeOK, Linking
<1>4. \A l, m : Gap(l, m)' <=> Gap(l, m)
  BY <1>3 DEF Gap, Linking
<1>5. \A m : InChain(m) => m \in AllNodes /\ next'[m] = next[m]
  BY <1>1, <1>3, ChainFacts DEF InChain
<1>6. ChainIntact'
  BY <1>4, <1>5, ChainFacts DEF ChainIntact, InChain
<1>7. NoNodeTwice'
  BY DEF NoNodeTwice
<1>8. Owners'
  BY <1>3 DEF Owners, InChain
<1>9. \A q \in Producers : PushAt(q)'
  BY <1>1, <1>3, Names DEF PushAt, Follows, TypeOK
<1>10. PopAt' /\ Calm'
  BY <1>1, <1>3, Names DEF PopAt, Calm, InChain, Follows
<1>11. Phases'
  BY DEF Phases
<1> QED
  BY <1>2, <1>6, <1>7, <1>8, <1>9, <1>10, <1>11

\* The exchange appends the node to the chain, behind a gap.
LEMMA PushSwapInv ==
    ASSUME IInv, NEW p \in Producers, PushSwap(p) PROVE IInv'
<1> USE DEF IInv, PushSwap, consumerVars
<1>1. node[p] \in Nodes /\ node[p] \in AllNodes /\ ~InChain(node[p]) /\ next[node[p]] = NULL
  BY DEF Owners, AllNodes, PushAt
<1>2. /\ chain' \in Seq(AllNodes) /\ Len(chain') = Len(chain) + 1
      /\ Len(chain) \in Nat \ {0}
      /\ \A k \in 1..Len(chain) : chain'[k] = chain[k]
      /\ chain'[Len(chain) + 1] = node[p]
      /\ NoNodeTwice'
      /\ \A m : InChain(m)' <=> InChain(m) \/ m = node[p]
      /\ \A l, m : Follows(l, m)' <=> Follows(l, m) \/ (l = chain[Len(chain)] /\ m = node[p])
  BY <1>1, AppendedChain
<1>3. chain[Len(chain)] = head /\ head \in AllNodes /\ next[head] = NULL
  BY ChainFacts DEF ChainIntact
<1>4. TypeOK'
  BY <1>1, <1>2, <1>3 DEF TypeOK
<1>5. /\ pc'[p] = "link" /\ prev'[p] = head
      /\ \A q \in Producers \ {p} : pc'[q] = pc[q] /\ prev'[q] = prev[q]
      /\ Linking' = Linking \cup {p} /\ p \notin Linking
  BY DEF TypeOK, Linking
<1>6. \A l, m : Gap(l, m)' <=> Gap(l, m) \/ (l = head /\ m = node[p])
  BY <1>5 DEF Gap
<1>7. ChainIntact'
  BY <1>1, <1>6, ChainGrows
<1>8. Owners'
  <2>1. \A n \in free' : ~InChain(n)'
    BY <1>1, <1>2 DEF Owners
  <2>4. ASSUME NEW q \in Producers, pc'[q] \in {"clear", "swap"} PROVE ~InChain(node[q])'
    <3>1. q # p /\ pc[q] = pc'[q] /\ node[q] # node[p] /\ ~InChain(node[q])
      BY <1>5, <2>4 DEF Owners
    <3> QED
      BY <1>2, <3>1
  <2>2. \A q \in Producers : pc'[q] # "idle" =>
          /\ node'[q] \in Nodes /\ node'[q] \notin free'
          /\ \A r \in Producers : pc'[r] # "idle" /\ node'[r] = node'[q] => r = q
    BY <1>5 DEF Owners
  <2>3. \A n \in Nodes :
          \/ n \in free' \/ InChain(n)'
          \/ \E q \in Producers : pc'[q] \in {"clear", "swap"} /\ node'[q] = n
    BY <1>1, <1>2, <1>5 DEF Owners
  <2> QED
    BY <2>1, <2>2, <2>3, <2>4 DEF Owners
<1>9. \A q \in Producers : PushAt(q)'
  BY <1>2, <1>3, <1>5 DEF PushAt
<1>10. PopAt' /\ Calm'
  BY <1>1, <1>2, Names DEF PopAt, Calm
<1>11. Phases'
  BY DEF Phases
<1> QED
  BY <1>2, <1>4, <1>7, <1>8, <1>9, <1>10, <1>11

\* The link closes the gap that the exchange left, and no other one.
LEMMA PushLinkInv ==
    ASSUME IInv, NEW p \in Producers, PushLink(p) PROVE IInv'
<1> USE DEF IInv, PushLink, consumerVars
<1>1. Follows(prev[p], node[p]) /\ node[p] \in Nodes /\ prev[p] \in AllNodes
  BY DEF PushAt, Owners, TypeOK
<1>2. TypeOK'
  BY <1>1, Names DEF TypeOK, AllNodes
<1>3. /\ pc'[p] = "idle"
      /\ \A q \in Producers \ {p} :
            pc'[q] = pc[q] /\ node'[q] = node[q] /\ prev'[q] = prev[q]
      /\ Linking' = Linking \ {p} /\ p \in Linking
      /\ \A m \in AllNodes : next'[m] = IF m = prev[p] THEN node[p] ELSE next[m]
  BY DEF TypeOK, Linking
<1>4. \A l, m : Gap(l, m)' <=> Gap(l, m) /\ ~(l = prev[p] /\ m = node[p])
  <2>1. \A q \in Linking : node[q] = node[p] => q = p
    BY <1>3 DEF Owners, Linking
  <2> QED
    BY <1>1, <1>3, <2>1, Names DEF Gap
<1>5. ChainIntact'
  BY <1>1, <1>4, GapCloses
<1>6. NoNodeTwice'
  BY DEF NoNodeTwice
<1>7. Owners'
  BY <1>3 DEF Owners, InChain
<1>8. InChain(prev[p])
  <2>1. Len(chain) \in Nat
    BY ChainFacts
  <2> QED
    BY <1>1, <2>1 DEF Follows, InChain
<1>9. \A q \in Producers : PushAt(q)'
  <2>1. \A q \in Producers \ {p} : pc[q] = "swap" => node[q] \in AllNodes /\ node[q] # prev[p]
    BY <1>8 DEF Owners, TypeOK
  <2> QED
    BY <1>3, <2>1 DEF PushAt, Follows
<1>10. PopAt'
  BY <1>3, <1>8, Names DEF PopAt, InChain, Follows
<1>11. Calm' /\ Phases'
  BY <1>3 DEF Calm, Phases
<1> QED
  BY <1>2, <1>5, <1>6, <1>7, <1>9, <1>10, <1>11

-----------------------------------------------------------------------------
(* The consumer and the destructor *)

\* The first node leaves the chain: no push still has to link to it.
LEMMA FirstLeaves ==
    ASSUME TypeOK, ChainIntact, NoNodeTwice, \A p \in Producers : PushAt(p), PopAt,
           next[tail] # NULL, tail' = next[tail], chain' = Tail(chain),
           UNCHANGED <<head, next, producerVars>>, cpc # "slink", cpc' # "slink"
    PROVE  /\ ChainIntact' /\ NoNodeTwice' /\ \A p \in Producers : PushAt(p)'
           /\ chain' \in Seq(AllNodes)
           /\ \A m : InChain(m)' <=> InChain(m) /\ m # tail
           /\ \A p \in Linking : node[p] # tail
           /\ tail' \in AllNodes /\ tail' # tail
<1> USE DEF producerVars
<1>1. Len(chain) >= 2 /\ chain[2] = next[tail] /\ ~Gap(tail, chain[2])
  BY SecondOfChain
<1>2. /\ chain' \in Seq(AllNodes) /\ Len(chain') = Len(chain) - 1
      /\ Len(chain) \in Nat
      /\ \A k \in 1..(Len(chain) - 1) : chain'[k] = chain[k + 1]
      /\ NoNodeTwice'
      /\ \A m : InChain(m)' <=> InChain(m) /\ m # chain[1]
      /\ \A l, m : Follows(l, m)' <=> Follows(l, m) /\ l # chain[1]
  BY <1>1, ShortenedChain
<1>3. chain[1] = tail /\ chain[Len(chain)] = head /\ next[head] = NULL
  BY DEF ChainIntact
<1>4. 1 \in 1..Len(chain) /\ 2 \in 1..Len(chain) /\ 1 \in 1..(Len(chain) - 1)
  BY <1>1, <1>2
<1>5. \A l, m : Gap(l, m)' <=> Gap(l, m)
  BY DEF Gap, Linking
<1>6. ChainIntact'
  <2>1. chain'[1] = tail' /\ chain'[Len(chain')] = head'
    <3>1. Len(chain) - 1 \in 1..(Len(chain) - 1)
      BY <1>1, <1>2
    <3>2. chain'[Len(chain) - 1] = chain[(Len(chain) - 1) + 1] /\ (Len(chain) - 1) + 1 = Len(chain)
      BY <1>2, <3>1
    <3> QED
      BY <1>1, <1>2, <1>3, <1>4, <3>2
  <2>2. ASSUME NEW k \in 1..(Len(chain') - 1), NEW l, NEW m,
               l = chain'[k], m = chain'[k + 1]
        PROVE  IF Gap(l, m)' THEN next'[l] = NULL ELSE next'[l] = m
    <3>1. /\ k \in 1..(Len(chain) - 1) /\ k + 1 \in 1..(Len(chain) - 1)
      BY <1>2
    <3>2. l = chain[k + 1] /\ m = chain[(k + 1) + 1]
      BY <1>2, <2>2, <3>1
    <3> QED
      BY <1>5, <3>1, <3>2 DEF ChainIntact
  <2>3. \A k \in 1..(Len(chain') - 1) :
          (IF Gap(chain[k], chain[k + 1])
           THEN next[chain[k]] = NULL ELSE next[chain[k]] = chain[k + 1])'
    <3> TAKE k \in 1..(Len(chain') - 1)
    <3>1. PICK l, m : l = chain'[k] /\ m = chain'[k + 1]
      OBVIOUS
    <3>2. IF Gap(l, m)' THEN next'[l] = NULL ELSE next'[l] = m
      BY <2>2, <3>1
    <3> QED
      BY <3>1, <3>2 DEF Gap
  <2> QED
    BY <1>3, <2>1, <2>3 DEF ChainIntact
<1>7. ASSUME NEW p \in Linking PROVE prev[p] # tail /\ node[p] # tail
  <2>1. PICK k \in 1..(Len(chain) - 1) : chain[k] = prev[p] /\ chain[k + 1] = node[p]
    BY DEF PushAt, Follows, Linking
  <2>2. k \in 1..Len(chain) /\ k + 1 \in 1..Len(chain) /\ k + 1 # 1
    BY <1>2
  <2>3. node[p] # tail
    BY <1>3, <1>4, <2>1, <2>2 DEF NoNodeTwice
  <2>4. ASSUME prev[p] = tail PROVE FALSE
    <3>1. k = 1
      BY <1>3, <1>4, <2>1, <2>2, <2>4 DEF NoNodeTwice
    <3>2. Gap(tail, chain[2])
      BY <2>1, <2>4, <3>1 DEF Gap
    <3> QED
      BY <1>1, <3>2
  <2> QED
    BY <2>3, <2>4
<1>8. \A p \in Producers : PushAt(p)'
  BY <1>2, <1>3, <1>7 DEF PushAt, Linking
<1>9. tail' \in AllNodes /\ tail' # tail
  BY <1>1, <1>3, <1>4, ChainFacts DEF NoNodeTwice
<1> QED
  BY <1>2, <1>3, <1>6, <1>7, <1>8, <1>9

\* dequeue hands out the first node, which no thread will touch again.
LEMMA TakeInv ==
    ASSUME IInv, tail # stub, next[tail] # NULL, cpc \in {"load", "reload", "recheck"},
           ReturnNode(tail), UNCHANGED <<head, next, producerVars, calm>>
    PROVE  IInv'
<1> USE DEF IInv, ReturnNode, Return
<1>1. /\ ChainIntact' /\ NoNodeTwice' /\ \A p \in Producers : PushAt(p)'
      /\ chain' \in Seq(AllNodes)
      /\ \A m : InChain(m)' <=> InChain(m) /\ m # tail
      /\ \A p \in Linking : node[p] # tail
      /\ tail' \in AllNodes
  BY FirstLeaves
<1>2. tail \in Nodes /\ InChain(tail)
  BY ChainFacts DEF TypeOK, AllNodes
<1>3. TypeOK'
  BY <1>1, <1>2, Names DEF TypeOK, producerVars
<1>4. Owners'
  <2>1. \A p \in Producers : pc[p] # "idle" => node[p] # tail
    BY <1>1, <1>2 DEF Owners, TypeOK, Linking
  <2> QED
    BY <1>1, <1>2, <2>1 DEF Owners, producerVars
<1>5. PopAt' /\ Calm'
  BY DEF PopAt, Calm
<1>6. Phases'
  BY DEF Phases, producerVars
<1> QED
  BY <1>1, <1>3, <1>4, <1>5, <1>6

\* dequeue returns nullptr: as long as no push exchanged during the call there
\* is nothing left but the stub.
LEMMA NullIsEmpty ==
    ASSUME IInv, calm,
           \/ cpc = "load" /\ tail = stub /\ next[stub] = NULL
           \/ cpc = "head" /\ lt # head
           \/ cpc = "recheck" /\ next[lt] = NULL
    PROVE  chain = <<stub>>
<1> USE DEF IInv
<1>1. Linking = {} /\ Len(chain) \in Nat /\ chain \in Seq(AllNodes) /\ chain[1] = tail
  BY ChainFacts DEF Calm, ChainIntact
<1>2. CASE cpc = "load" /\ tail = stub /\ next[stub] = NULL
  <2>1. Len(chain) = 1
    BY <1>1, <1>2, OnlyOfChain
  <2> QED
    BY <1>1, <1>2, <2>1
<1>3. CASE cpc = "head" /\ lt # head
  <2>1. Len(chain) = 1 /\ lt = tail /\ chain[Len(chain)] = head
    BY <1>3 DEF Calm, PopAt, ChainIntact
  <2> QED
    BY <1>1, <1>3, <2>1
<1>4. CASE cpc = "recheck" /\ next[lt] = NULL
  <2>1. lt = tail /\ lt # stub /\ InChain(stub)
    BY <1>4 DEF PopAt
  <2>2. Len(chain) = 1
    BY <1>1, <1>4, <2>1, OnlyOfChain
  <2> QED
    BY <1>1, <2>1, <2>2 DEF InChain
<1> QED
  BY <1>2, <1>3, <1>4

LEMMA ReturnNullInv ==
    ASSUME IInv, ReturnNull, UNCHANGED <<head, next, producerVars, calm>>,
           \/ cpc = "load" /\ tail = stub /\ next[stub] = NULL
           \/ cpc = "head" /\ lt # head
           \/ cpc = "recheck" /\ next[lt] = NULL
    PROVE  IInv'
<1> USE DEF IInv, ReturnNull, Return, producerVars
<1>1. TypeOK'
  BY Names DEF TypeOK
<1>2. ChainIntact'
  <2>1. \A l, m : Gap(l, m)' <=> Gap(l, m)
    BY DEF Gap, Linking
  <2> QED
    BY <2>1 DEF ChainIntact
<1>3. NoNodeTwice'
  BY DEF NoNodeTwice
<1>4. Owners'
  BY DEF Owners, InChain
<1>5. \A p \in Producers : PushAt(p)'
  BY DEF PushAt, Follows
<1>6. PopAt' /\ Calm'
  BY DEF PopAt, Calm
<1>7. Phases'
  <2>1. phase # "live" => calm
    BY DEF Phases
  <2>2. phase' = "gone" => chain = <<stub>>
    BY <2>1, NullIsEmpty DEF Phases
  <2> QED
    BY <2>2 DEF Phases
<1> QED
  BY <1>1, <1>2, <1>3, <1>4, <1>5, <1>6, <1>7

\* Steps of pop that only load.
LEMMA PopCallInv == IInv /\ PopCall => IInv'
<1> SUFFICES ASSUME IInv, PopCall PROVE IInv'
  OBVIOUS
<1> USE DEF IInv, PopCall, queueVars, producerVars
<1>1. TypeOK'
  BY DEF TypeOK
<1>2. ChainIntact'
  <2>1. \A l, m : Gap(l, m)' <=> Gap(l, m)
    BY DEF Gap, Linking
  <2> QED
    BY <2>1 DEF ChainIntact
<1>3. NoNodeTwice' /\ Owners' /\ \A p \in Producers : PushAt(p)'
  BY DEF NoNodeTwice, Owners, InChain, PushAt, Follows
<1>4. PopAt' /\ Calm'
  BY DEF PopAt, Calm, Linking
<1>5. Phases'
  BY DEF Phases, Linking
<1> QED
  BY <1>1, <1>2, <1>3, <1>4, <1>5

\* pop goes on to compare with head, or to push the stub.
LEMMA PopGoesOn ==
    ASSUME IInv, cpc \in {"load", "reload", "head"}, cpc' \in {"head", "sclear"},
           lt' = tail, tail # stub,
           calm /\ cpc' = "head" => Len(chain) = 1,
           cpc' = "sclear" => tail = head,
           UNCHANGED <<queueVars, producerVars, cprev, phase, out, free, chain, calm>>
    PROVE  IInv'
<1> USE DEF IInv, queueVars, producerVars
<1>1. TypeOK'
  BY DEF TypeOK
<1>2. ChainIntact'
  <2>1. \A l, m : Gap(l, m)' <=> Gap(l, m)
    BY DEF Gap, Linking
  <2> QED
    BY <2>1 DEF ChainIntact
<1>3. NoNodeTwice' /\ Owners' /\ \A p \in Producers : PushAt(p)'
  BY DEF NoNodeTwice, Owners, InChain, PushAt, Follows
<1>4. cpc' = "sclear" => ~InChain(stub)
  <2>1. Len(chain) \in Nat \ {0} /\ chain[1] = tail /\ chain[Len(chain)] = head
    BY ChainFacts DEF ChainIntact
  <2>2. 1 \in 1..Len(chain) /\ Len(chain) \in 1..Len(chain)
    BY <2>1
  <2>3. tail = head => Len(chain) = 1
    BY <2>1, <2>2 DEF NoNodeTwice
  <2>4. Len(chain) = 1 => ~InChain(stub)
    BY <2>1 DEF InChain
  <2> QED
    BY <2>3, <2>4
<1>5. PopAt' /\ Calm'
  BY <1>4 DEF PopAt, Calm, InChain, Linking
<1>6. Phases'
  BY DEF Phases
<1> QED
  BY <1>1, <1>2, <1>3, <1>5, <1>6

\* pop steps over the stub.
LEMMA SkipStubInv ==
    ASSUME IInv, cpc = "load", tail = stub, next[stub] # NULL,
           lt' = next[stub], tail' = next[stub], chain' = Tail(chain), cpc' = "reload",
           UNCHANGED <<head, next, producerVars, cprev, phase, out, free, calm>>
    PROVE  IInv'
<1> USE DEF IInv
<1>1. /\ ChainIntact' /\ NoNodeTwice' /\ \A p \in Producers : PushAt(p)'
      /\ chain' \in Seq(AllNodes)
      /\ \A m : InChain(m)' <=> InChain(m) /\ m # tail
      /\ tail' \in AllNodes /\ tail' # tail
  BY FirstLeaves
<1>2. TypeOK'
  BY <1>1 DEF TypeOK, producerVars
<1>3. Owners'
  BY <1>1, Names DEF Owners, producerVars
<1>4. PopAt' /\ Calm'
  BY <1>1 DEF PopAt, Calm, Linking, producerVars
<1>5. Phases'
  BY DEF Phases, producerVars
<1> QED
  BY <1>1, <1>2, <1>3, <1>4, <1>5

\* The first load of pop.
LEMMA PopLoadInv == IInv /\ PopLoad => IInv'
<1> SUFFICES ASSUME IInv, PopLoad PROVE IInv'
  OBVIOUS
<1> USE DEF PopLoad
<1>1. CASE tail = stub /\ next[stub] = NULL /\ ReturnNull
  BY <1>1, ReturnNullInv
<1>2. CASE /\ tail = stub /\ next[stub] # NULL
           /\ lt' = next[stub] /\ tail' = next[stub]
           /\ chain' = Tail(chain)
           /\ cpc' = "reload"
           /\ UNCHANGED <<cprev, phase, out, free>>
  BY <1>2, SkipStubInv
<1>3. CASE tail # stub /\ next[tail] # NULL /\ ReturnNode(tail)
  BY <1>3, TakeInv
<1>4. CASE /\ tail # stub /\ next[tail] = NULL
           /\ lt' = tail
           /\ cpc' = "head"
           /\ UNCHANGED <<tail, cprev, phase, out, free, chain>>
  <2>1. calm => Len(chain) = 1
    BY <1>4, OnlyOfChain DEF IInv, Calm
  <2> QED
    BY <1>4, <2>1, PopGoesOn DEF queueVars
<1> QED
  BY <1>1, <1>2, <1>3, <1>4

\* The second load, behind the stub.
LEMMA PopReloadInv == IInv /\ PopReload => IInv'
<1> SUFFICES ASSUME IInv, PopReload PROVE IInv'
  OBVIOUS
<1> USE DEF PopReload
<1>1. lt = tail /\ tail # stub /\ cpc = "reload"
  BY DEF IInv, PopAt
<1>2. CASE next[lt] # NULL /\ ReturnNode(lt)
  BY <1>1, <1>2, TakeInv
<1>3. CASE /\ next[lt] = NULL
           /\ cpc' = "head"
           /\ UNCHANGED <<tail, lt, cprev, phase, out, free, chain>>
  <2>1. calm => Len(chain) = 1
    BY <1>1, <1>3, OnlyOfChain DEF IInv, Calm
  <2> QED
    BY <1>1, <1>3, <2>1, PopGoesOn DEF queueVars
<1> QED
  BY <1>2, <1>3

\* The load of head.
LEMMA PopHeadInv == IInv /\ PopHead => IInv'
<1> SUFFICES ASSUME IInv, PopHead PROVE IInv'
  OBVIOUS
<1> USE DEF PopHead
<1>1. lt = tail /\ tail # stub /\ cpc = "head"
  BY DEF IInv, PopAt
<1>2. CASE lt # head /\ ReturnNull
  BY <1>1, <1>2, ReturnNullInv
<1>3. CASE /\ lt = head
           /\ cpc' = "sclear"
           /\ UNCHANGED <<tail, lt, cprev, phase, out, free, chain>>
  BY <1>1, <1>3, PopGoesOn DEF queueVars
<1> QED
  BY <1>2, <1>3

\* The last load, behind the pushed stub.
LEMMA PopRecheckInv == IInv /\ PopRecheck => IInv'
<1> SUFFICES ASSUME IInv, PopRecheck PROVE IInv'
  OBVIOUS
<1> USE DEF PopRecheck
<1>1. lt = tail /\ tail # stub /\ cpc = "recheck"
  BY DEF IInv, PopAt
<1>2. CASE next[lt] # NULL /\ ReturnNode(lt)
  BY <1>1, <1>2, TakeInv
<1>3. CASE next[lt] = NULL /\ ReturnNull
  BY <1>1, <1>3, ReturnNullInv
<1> QED
  BY <1>2, <1>3

\* push(&stub) clears the stub, which is not in the queue.
LEMMA StubClearInv == IInv /\ StubClear => IInv'
<1> SUFFICES ASSUME IInv, StubClear PROVE IInv'
  OBVIOUS
<1> USE DEF IInv, StubClear, producerVars
<1>1. ~InChain(stub) /\ cpc = "sclear"
  BY DEF PopAt
<1>2. TypeOK'
  BY DEF TypeOK
<1>3. \A m \in AllNodes : next'[m] = IF m = stub THEN NULL ELSE next[m]
  BY DEF TypeOK
<1>4. \A l, m : Gap(l, m)' <=> Gap(l, m)
  BY DEF Gap, Linking
<1>5. \A m : InChain(m) => m \in AllNodes /\ next'[m] = next[m]
  BY <1>1, <1>3, ChainFacts DEF InChain
<1>6. ChainIntact'
  BY <1>4, <1>5, ChainFacts DEF ChainIntact, InChain
<1>7. NoNodeTwice' /\ Owners'
  BY DEF NoNodeTwice, Owners, InChain
<1>8. \A q \in Producers : PushAt(q)'
  BY <1>3 DEF PushAt, Follows, TypeOK
<1>9. PopAt' /\ Calm'
  BY <1>3, Names DEF PopAt, Calm, InChain, Linking
<1>10. Phases'
  BY DEF Phases
<1> QED
  BY <1>2, <1>6, <1>7, <1>8, <1>9, <1>10

\* The stub is exchanged like an item.
LEMMA StubSwapInv == IInv /\ StubSwap => IInv'
<1> SUFFICES ASSUME IInv, StubSwap PROVE IInv'
  OBVIOUS
<1> USE DEF IInv, StubSwap, producerVars
<1>1. ~InChain(stub) /\ next[stub] = NULL /\ cpc = "sswap"
  BY DEF PopAt
<1>2. /\ chain' \in Seq(AllNodes)
      /\ NoNodeTwice'
      /\ \A m : InChain(m)' <=> InChain(m) \/ m = stub
      /\ \A l, m : Follows(l, m)' <=> Follows(l, m) \/ (l = chain[Len(chain)] /\ m = stub)
  BY <1>1, Names, AppendedChain
<1>3. chain[Len(chain)] = head /\ head \in AllNodes
  BY ChainFacts DEF ChainIntact
<1>4. TypeOK'
  BY <1>2, <1>3, Names DEF TypeOK
<1>5. \A l, m : Gap(l, m)' <=> Gap(l, m) \/ (l = head /\ m = stub)
  BY <1>1 DEF Gap, Linking
<1>6. ChainIntact'
  BY <1>1, <1>5, Names, ChainGrows
<1>7. Owners'
  BY <1>2, Names DEF Owners, TypeOK
<1>8. \A q \in Producers : PushAt(q)'
  BY <1>2 DEF PushAt
<1>9. PopAt' /\ Calm'
  BY <1>1, <1>2, <1>3 DEF PopAt, Calm, Linking
<1>10. Phases'
  BY <1>1 DEF Phases
<1> QED
  BY <1>2, <1>4, <1>6, <1>7, <1>8, <1>9, <1>10

\* The stub is linked like an item.
LEMMA StubLinkInv == IInv /\ StubLink => IInv'
<1> SUFFICES ASSUME IInv, StubLink PROVE IInv'
  OBVIOUS
<1> USE DEF IInv, StubLink, producerVars
<1>1. Follows(cprev, stub) /\ cprev \in AllNodes /\ cpc = "slink"
  BY DEF PopAt, TypeOK
<1>2. TypeOK'
  BY <1>1, Names DEF TypeOK
<1>3. \A m \in AllNodes : next'[m] = IF m = cprev THEN stub ELSE next[m]
  BY DEF TypeOK
<1>4. \A l, m : Gap(l, m)' <=> Gap(l, m) /\ ~(l = cprev /\ m = stub)
  <2>1. \A p \in Linking : node[p] # stub
    BY Names DEF Owners, Linking
  <2> QED
    BY <1>1, <2>1 DEF Gap, Linking
<1>5. ChainIntact'
  BY <1>1, <1>4, GapCloses
<1>6. InChain(cprev) /\ InChain(stub)
  <2>1. Len(chain) \in Nat
    BY ChainFacts
  <2>2. PICK k \in 1..(Len(chain) - 1) : chain[k] = cprev /\ chain[k + 1] = stub
    BY <1>1 DEF Follows
  <2>3. k \in 1..Len(chain) /\ k + 1 \in 1..Len(chain)
    BY <2>1
  <2> QED
    BY <2>2, <2>3 DEF InChain
<1>7. NoNodeTwice' /\ Owners'
  BY DEF NoNodeTwice, Owners, InChain
<1>8. \A q \in Producers : PushAt(q)'
  <2>1. \A q \in Producers : pc[q] = "swap" => node[q] \in AllNodes /\ node[q] # cprev
    BY <1>6 DEF Owners, TypeOK
  <2> QED
    BY <1>3, <2>1 DEF PushAt, Follows
<1>9. PopAt' /\ Calm'
  BY <1>1, <1>6 DEF PopAt, Calm, InChain, Linking
<1>10. Phases'
  BY <1>1 DEF Phases
<1> QED
  BY <1>2, <1>5, <1>7, <1>8, <1>9, <1>10

\* The destructor begins when no thread is inside the queue.
LEMMA DestroyInv == IInv /\ Destroy => IInv'
<1> SUFFICES ASSUME IInv, Destroy PROVE IInv'
  OBVIOUS
<1> USE DEF IInv, Destroy, queueVars, producerVars
<1>1. TypeOK'
  BY DEF TypeOK
<1>2. ChainIntact'
  <2>1. \A l, m : Gap(l, m)' <=> Gap(l, m)
    BY DEF Gap, Linking
  <2> QED
    BY <2>1 DEF ChainIntact
<1>3. NoNodeTwice' /\ Owners' /\ \A p \in Producers : PushAt(p)'
  BY DEF NoNodeTwice, Owners, InChain, PushAt, Follows
<1>4. PopAt' /\ Calm' /\ Phases'
  BY DEF PopAt, Calm, Phases
<1> QED
  BY <1>1, <1>2, <1>3, <1>4

\* Steps that change nothing.
LEMMA StutterInv == IInv /\ UNCHANGED vars => IInv'
<1> SUFFICES ASSUME IInv, UNCHANGED vars PROVE IInv'
  OBVIOUS
<1> USE DEF IInv, vars, queueVars, producerVars, consumerVars
<1>1. TypeOK' /\ NoNodeTwice' /\ Owners' /\ \A p \in Producers : PushAt(p)'
  BY DEF TypeOK, NoNodeTwice, Owners, InChain, PushAt, Follows
<1>2. ChainIntact'
  <2>1. \A l, m : Gap(l, m)' <=> Gap(l, m)
    BY DEF Gap, Linking
  <2> QED
    BY <2>1 DEF ChainIntact
<1>3. PopAt' /\ Calm' /\ Phases'
  BY DEF PopAt, Calm, Phases, InChain, Follows, Linking
<1> QED
  BY <1>1, <1>2, <1>3

-----------------------------------------------------------------------------
(* The theorems *)

\* Every step preserves the invariant.
LEMMA NextInv == IInv /\ [Next]_vars => IInv'
<1> SUFFICES ASSUME IInv, [Next]_vars PROVE IInv'
  OBVIOUS
<1>1. ASSUME NEW p \in Producers, EnqCall(p) \/ Push(p) PROVE IInv'
  BY <1>1, EnqCallInv, PushClearInv, PushSwapInv, PushLinkInv DEF Push
<1>2. CASE Pop
  BY <1>2, PopCallInv, PopLoadInv, PopReloadInv, PopHeadInv, StubClearInv,
     StubSwapInv, StubLinkInv, PopRecheckInv DEF Pop
<1>3. CASE Destroy
  BY <1>3, DestroyInv
<1>4. CASE UNCHANGED vars
  BY <1>4, StutterInv
<1> QED
  BY <1>1, <1>2, <1>3, <1>4 DEF Next

\* In every behaviour of the queue each node has one owner, and each thread
\* inside the queue knows what its step says of the chain.
THEOREM Invariant == Spec => []IInv
BY InitInv, NextInv, PTL DEF Spec

\* The variables keep their types.
THEOREM TypeCorrect == Spec => []TypeOK
<1>1. IInv => TypeOK
  BY DEF IInv
<1> QED
  BY <1>1, Invariant, PTL

\* ChainIntact: next leads from tail to head through every node in the order of
\* the exchanges, but for the gaps of the pushes in progress (push, pop).
THEOREM ChainStaysIntact == Spec => []ChainIntact
<1>1. IInv => ChainIntact
  BY DEF IInv
<1> QED
  BY <1>1, Invariant, PTL

\* NoUseAfterFree: whatever the queue and the threads inside it will still read
\* or write belongs to no caller (push and pop, mpsc_queue.hpp:274-326).
THEOREM NothingFreedIsUsed == Spec => []NoUseAfterFree
<1>1. IInv => NoUseAfterFree
  <2> SUFFICES ASSUME IInv PROVE NoUseAfterFree
    OBVIOUS
  <2> USE DEF IInv
  <2>1. InChain(head) /\ InChain(tail) /\ Len(chain) \in Nat
    BY ChainFacts
  <2>2. \A m, n : Follows(m, n) => InChain(m)
    BY <2>1 DEF Follows, InChain
  <2>3. \A n : InChain(n) => n \notin free
    BY DEF Owners
  <2>4. \A p \in Linking : prev[p] \notin free
    BY <2>2, <2>3 DEF PushAt, Linking
  <2>5. \A p \in Producers : pc[p] # "idle" => node[p] \notin free
    BY DEF Owners
  <2>6. /\ cpc \notin {"idle", "load"} => lt \notin free
        /\ cpc = "slink" => cprev \notin free
    BY <2>1, <2>2, <2>3 DEF PopAt
  <2> QED
    BY <2>1, <2>3, <2>4, <2>5, <2>6 DEF NoUseAfterFree
<1> QED
  BY <1>1, Invariant, PTL

-----------------------------------------------------------------------------
(* The items of the chain *)

\* Without the stub the items are the whole chain, and otherwise what is before
\* and behind it.
LEMMA QueuedCases ==
    ASSUME TypeOK, NoNodeTwice
    PROVE  /\ ~InChain(stub) => Queued = chain
           /\ \A k \in 1..Len(chain) : chain[k] = stub =>
                Queued = SubSeq(chain, 1, k - 1) \o SubSeq(chain, k + 1, Len(chain))
<1>1. ASSUME ~InChain(stub) PROVE Queued = chain
  BY <1>1 DEF Queued, RemoveFirst, InChain
<1>2. ASSUME NEW k \in 1..Len(chain), chain[k] = stub
      PROVE  Queued = SubSeq(chain, 1, k - 1) \o SubSeq(chain, k + 1, Len(chain))
  <2>1. {i \in 1..Len(chain) : chain[i] = stub} = {k}
    BY <1>2 DEF NoNodeTwice
  <2>2. k \in Nat
    BY LenProperties DEF TypeOK
  <2>3. SelectInSeq(chain, LAMBDA v : v = stub) = k
    BY <2>1, <2>2 DEF SelectInSeq, Min
  <2> QED
    BY <1>2, <2>3 DEF Queued, RemoveFirst, RemoveAt
<1> QED
  BY <1>1, <1>2

\* The items, one by one.
LEMMA QueuedItems ==
    ASSUME TypeOK, NoNodeTwice
    PROVE  /\ Queued \in Seq(Nodes)
           /\ ~InChain(stub) => Len(Queued) = Len(chain)
                                /\ \A j \in 1..Len(chain) : Queued[j] = chain[j]
           /\ \A k \in 1..Len(chain) : chain[k] = stub =>
                /\ Len(Queued) = Len(chain) - 1
                /\ \A j \in 1..(Len(chain) - 1) :
                     Queued[j] = IF j < k THEN chain[j] ELSE chain[j + 1]
<1>1. chain \in Seq(AllNodes) /\ Len(chain) \in Nat /\ \A j \in 1..Len(chain) : chain[j] \in AllNodes
  BY LenProperties, ElementOfSeq DEF TypeOK
<1>2. CASE ~InChain(stub)
  <2>1. Queued = chain
    BY <1>2, QueuedCases
  <2>2. \A j \in 1..Len(chain) : chain[j] \in Nodes
    BY <1>1, <1>2 DEF InChain, AllNodes
  <2>3. chain = [j \in 1..Len(chain) |-> chain[j]]
    BY <1>1, LenProperties
  <2>4. chain \in [1..Len(chain) -> Nodes]
    BY <2>2, <2>3
  <2>5. chain \in Seq(Nodes)
    BY <1>1, <2>4, SeqDef
  <2> QED
    BY <1>2, <2>1, <2>5 DEF InChain
<1>3. ASSUME NEW k \in 1..Len(chain), chain[k] = stub
      PROVE  /\ Queued \in Seq(Nodes)
             /\ Len(Queued) = Len(chain) - 1
             /\ \A j \in 1..(Len(chain) - 1) :
                  Queued[j] = IF j < k THEN chain[j] ELSE chain[j + 1]
  <2> DEFINE a == SubSeq(chain, 1, k - 1)
             b == SubSeq(chain, k + 1, Len(chain))
  <2>1. k \in Nat /\ k >= 1 /\ k <= Len(chain)
    BY <1>1
  <2>2. \A j \in 1..Len(chain) : j # k => chain[j] \in Nodes
    BY <1>1, <1>3 DEF NoNodeTwice, AllNodes
  <2>3. /\ a \in Seq(Nodes) /\ Len(a) = k - 1
        /\ \A i \in 1..(k - 1) : a[i] = chain[i]
    <3>1. \A i \in 1..(k - 1) : chain[i] \in Nodes
      BY <1>1, <2>1, <2>2
    <3> QED
      BY <2>1, <3>1, SubSeqProperties
  <2>4. /\ b \in Seq(Nodes) /\ Len(b) = Len(chain) - k
        /\ \A i \in 1..(Len(chain) - k) : b[i] = chain[k + i]
    <3>1. \A i \in (k + 1)..Len(chain) : chain[i] \in Nodes
      BY <1>1, <2>1, <2>2
    <3>2. /\ b \in Seq(Nodes)
          /\ Len(b) = IF k + 1 <= Len(chain) THEN Len(chain) - (k + 1) + 1 ELSE 0
          /\ \A i \in 1..(Len(chain) - (k + 1) + 1) : b[i] = chain[(k + 1) + i - 1]
      BY <1>1, <2>1, <3>1, SubSeqProperties
    <3> QED
      BY <1>1, <2>1, <3>2
  <2> HIDE DEF a, b
  <2>5. /\ a \o b \in Seq(Nodes) /\ Len(a \o b) = Len(a) + Len(b)
        /\ \A j \in 1..(Len(a) + Len(b)) : (a \o b)[j] =
              IF j <= Len(a) THEN a[j] ELSE b[j - Len(a)]
    BY <2>3, <2>4, ConcatProperties
  <2>6. Len(a) + Len(b) = Len(chain) - 1
    BY <1>1, <2>1, <2>3, <2>4
  <2>7. ASSUME NEW j \in 1..(Len(chain) - 1)
        PROVE  (a \o b)[j] = IF j < k THEN chain[j] ELSE chain[j + 1]
    <3>1. CASE j < k
      BY <2>1, <2>3, <2>5, <2>6, <3>1
    <3>2. CASE ~(j < k)
      <4>1. j - (k - 1) \in 1..(Len(chain) - k) /\ k + (j - (k - 1)) = j + 1
        BY <1>1, <2>1, <3>2
      <4>2. (a \o b)[j] = b[j - (k - 1)]
        BY <1>1, <2>1, <2>3, <2>5, <2>6, <3>2
      <4> QED
        BY <2>4, <3>2, <4>1, <4>2
    <3> QED
      BY <3>1, <3>2
  <2>8. Queued = a \o b
    BY <1>3, QueuedCases DEF a, b
  <2> QED
    BY <2>5, <2>6, <2>7, <2>8
<1> QED
  BY <1>2, <1>3 DEF InChain

\* With only the stub in the chain there are no items.
LEMMA OnlyStub ==
    ASSUME TypeOK, NoNodeTwice, chain = <<stub>> PROVE Queued = <<>>
<1>1. Len(chain) = 1 /\ chain[1] = stub
  OBVIOUS
<1>2. Queued \in Seq(Nodes) /\ Len(Queued) = 0
  BY <1>1, QueuedItems
<1> QED
  BY <1>2, EmptySeq

\* NoItemLeaks: every item is in one place, and none is left in the queue by the
\* destructor, which stops at the first nullptr (mpsc_queue.hpp:249-252).
THEOREM NoItemIsLost == Spec => []NoItemLeaks
<1>1. IInv => NoItemLeaks
  <2> SUFFICES ASSUME IInv PROVE NoItemLeaks
    OBVIOUS
  <2>1. \A n : n \in Range(chain) <=> InChain(n)
    BY ChainFacts, RangeEquality DEF IInv, InChain
  <2>2. phase = "gone" => Queued = <<>>
    BY OnlyStub DEF IInv, Phases
  <2> QED
    BY <2>1, <2>2 DEF NoItemLeaks, IInv, Owners
<1> QED
  BY <1>1, Invariant, PTL

\* NullMeansEmptyOrRacing: dequeue returns nullptr with an item in the queue
\* only if a push was between its exchange and its link during the call.
THEOREM NullIsTrue == Spec => NullMeansEmptyOrRacing
<1>1. IInv /\ [Next]_vars =>
        (cpc # "idle" /\ cpc' = "idle" /\ free' = free /\ calm => Queued = <<>>)
  <2> SUFFICES ASSUME IInv, [Next]_vars, cpc # "idle", cpc' = "idle", free' = free, calm
               PROVE  Queued = <<>>
    OBVIOUS
  <2>1. /\ Pop
        /\ cpc \notin {"idle"}
    BY DEF Next, EnqCall, Push, PushClear, PushSwap, PushLink, Destroy, vars, consumerVars
  <2>2. tail \notin free /\ (cpc # "load" => lt = tail)
    <3>1. InChain(tail)
      BY ChainFacts DEF IInv
    <3> QED
      BY <3>1 DEF IInv, Owners, PopAt
  <2>3. ~ReturnNode(tail)
    BY <2>2 DEF ReturnNode
  <2>4. \/ cpc = "load" /\ tail = stub /\ next[stub] = NULL
        \/ cpc = "head" /\ lt # head
        \/ cpc = "recheck" /\ next[lt] = NULL
    BY <2>1, <2>2, <2>3
    DEF Pop, PopCall, PopLoad, PopReload, PopHead, StubClear, StubSwap, StubLink, PopRecheck
  <2> QED
    BY <2>4, NullIsEmpty, OnlyStub DEF IInv
<1>2. IInv /\ [Next]_vars =>
        [cpc # "idle" /\ cpc' = "idle" /\ free' = free /\ calm => Queued = <<>>]_vars
  BY <1>1
<1> QED
  BY <1>2, Invariant, PTL DEF Spec, NullMeansEmptyOrRacing

-----------------------------------------------------------------------------
(* The linked queue implements MpscChannel: each exchange of an item claims *)
(* the next place of the channel, each link publishes a place, each dequeue *)
(* that returns a node takes the first one, and no other step, the stub's   *)
(* way through the chain included, is visible.                              *)

-----------------------------------------------------------------------------
(* How the items change when the chain does *)

\* The items are the chain without the stub, if it is there.
QueuedOK ==
    /\ chain \in Seq(AllNodes) /\ Len(chain) \in Nat /\ Queued \in Seq(Nodes)
    /\ ~InChain(stub) => Len(Queued) = Len(chain)
                         /\ \A j \in 1..Len(chain) : Queued[j] = chain[j]
    /\ \A k \in 1..Len(chain) : chain[k] = stub =>
          /\ Len(Queued) = Len(chain) - 1
          /\ \A j \in 1..(Len(chain) - 1) :
               Queued[j] = IF j < k THEN chain[j] ELSE chain[j + 1]

LEMMA ItemsOfChain == IInv => QueuedOK
BY QueuedItems, LenProperties DEF IInv, TypeOK, QueuedOK

\* A node is among the items if it is one and in the chain.
LEMMA ItemsInChain ==
    ASSUME IInv
    PROVE  \A n : (\E k \in 1..Len(Queued) : Queued[k] = n) <=> n \in Nodes /\ InChain(n)
<1>1. QueuedOK
  BY ItemsOfChain
<1>2. ASSUME NEW k \in 1..Len(Queued) PROVE Queued[k] \in Nodes /\ InChain(Queued[k])
  <2>1. Queued[k] \in Nodes
    BY <1>1, ElementOfSeq DEF QueuedOK
  <2>2. CASE ~InChain(stub)
    BY <1>1, <2>1, <2>2 DEF QueuedOK, InChain
  <2>3. ASSUME NEW s \in 1..Len(chain), chain[s] = stub PROVE InChain(Queued[k])
    <3>1. PICK l \in Nat : l = Len(chain) /\ s \in 1..l /\ Len(Queued) = l - 1
      BY <1>1, <2>3 DEF QueuedOK
    <3>2. Queued[k] = IF k < s THEN chain[k] ELSE chain[k + 1]
      BY <1>1, <2>3, <3>1 DEF QueuedOK
    <3>3. k \in 1..Len(chain) /\ k + 1 \in 1..Len(chain)
      BY <3>1
    <3> QED
      BY <3>2, <3>3 DEF InChain
  <2> QED
    BY <2>1, <2>2, <2>3 DEF InChain
<1>3. ASSUME NEW n \in Nodes, NEW i \in 1..Len(chain), chain[i] = n
      PROVE  \E k \in 1..Len(Queued) : Queued[k] = n
  <2>1. CASE ~InChain(stub)
    BY <1>1, <1>3, <2>1 DEF QueuedOK
  <2>2. ASSUME NEW s \in 1..Len(chain), chain[s] = stub
        PROVE  \E k \in 1..Len(Queued) : Queued[k] = n
    <3>1. i # s
      BY <1>3, <2>2, Names
    <3>2. CASE i < s
      BY <1>1, <1>3, <2>2, <3>2 DEF QueuedOK
    <3>3. CASE i > s
      <4>1. i - 1 \in 1..Len(Queued) /\ Queued[i - 1] = chain[(i - 1) + 1] /\ (i - 1) + 1 = i
        BY <1>1, <2>2, <3>3 DEF QueuedOK
      <4> QED
        BY <1>3, <4>1
    <3> QED
      BY <1>1, <3>1, <3>2, <3>3 DEF QueuedOK
  <2> QED
    BY <2>1, <2>2 DEF InChain
<1> QED
  BY <1>2, <1>3 DEF InChain

\* No item is there twice.
LEMMA ItemsApart ==
    ASSUME IInv, NEW j \in 1..Len(Queued), NEW k \in 1..Len(Queued), Queued[j] = Queued[k]
    PROVE  j = k
<1>1. QueuedOK /\ NoNodeTwice
  BY ItemsOfChain DEF IInv
<1>2. CASE ~InChain(stub)
  BY <1>1, <1>2 DEF QueuedOK, NoNodeTwice
<1>3. ASSUME NEW s \in 1..Len(chain), chain[s] = stub PROVE j = k
  <2>1. ASSUME NEW i \in 1..Len(Queued)
        PROVE  \E a \in 1..Len(chain) : Queued[i] = chain[a] /\ a = IF i < s THEN i ELSE i + 1
    <3>1. /\ Len(chain) \in Nat /\ Len(Queued) = Len(chain) - 1
          /\ Queued[i] = IF i < s THEN chain[i] ELSE chain[i + 1]
      BY <1>1, <1>3 DEF QueuedOK
    <3>2. CASE i < s
      BY <3>1, <3>2
    <3>3. CASE ~(i < s)
      BY <3>1, <3>3
    <3> QED
      BY <3>2, <3>3
  <2>2. PICK a \in 1..Len(chain) : Queued[j] = chain[a] /\ a = IF j < s THEN j ELSE j + 1
    BY <2>1
  <2>3. PICK b \in 1..Len(chain) : Queued[k] = chain[b] /\ b = IF k < s THEN k ELSE k + 1
    BY <2>1
  <2>4. a = b
    BY <1>1, <2>2, <2>3 DEF NoNodeTwice
  <2> QED
    BY <2>2, <2>3, <2>4
<1> QED
  BY <1>2, <1>3 DEF InChain

\* An item joins at the end.
LEMMA ItemJoins ==
    ASSUME IInv, IInv', NEW n \in Nodes, ~InChain(n), chain' = Append(chain, n)
    PROVE  Queued' = Append(Queued, n)
<1>1. QueuedOK /\ QueuedOK'
  BY ItemsOfChain, PTL
<1>2. /\ Len(chain') = Len(chain) + 1 /\ Len(chain) \in Nat
      /\ \A k \in 1..Len(chain) : chain'[k] = chain[k]
      /\ chain'[Len(chain) + 1] = n
      /\ \A m : InChain(m)' <=> InChain(m) \/ m = n
  BY AppendedChain DEF IInv, AllNodes
<1>3. /\ Append(Queued, n) \in Seq(Nodes)
      /\ Len(Append(Queued, n)) = Len(Queued) + 1
      /\ \A i \in 1..Len(Queued) : Append(Queued, n)[i] = Queued[i]
      /\ Append(Queued, n)[Len(Queued) + 1] = n
      /\ Len(Queued) \in Nat
  BY <1>1, AppendProperties, LenProperties DEF QueuedOK
<1> DEFINE q == Append(Queued, n)
<1> HIDE DEF q
<1>4. Len(Queued') = Len(q) /\ \A j \in 1..Len(q) : Queued'[j] = q[j]
  <2>1. CASE ~InChain(stub)
    <3>1. ~InChain(stub)'
      BY <1>2, <2>1, Names
    <3> QED
      BY <1>1, <1>2, <1>3, <2>1, <3>1 DEF QueuedOK, q
  <2>2. ASSUME NEW s \in 1..Len(chain), chain[s] = stub
        PROVE  Len(Queued') = Len(q) /\ \A j \in 1..Len(q) : Queued'[j] = q[j]
    <3>1. s \in 1..Len(chain') /\ chain'[s] = stub
      BY <1>2, <2>2
    <3>2. /\ Len(Queued') = Len(chain)
          /\ \A j \in 1..Len(chain) :
                Queued'[j] = IF j < s THEN chain'[j] ELSE chain'[j + 1]
      <4>1. /\ Len(Queued') = Len(chain') - 1
            /\ \A j \in 1..(Len(chain') - 1) :
                  Queued'[j] = IF j < s THEN chain'[j] ELSE chain'[j + 1]
        BY <1>1, <3>1 DEF QueuedOK
      <4> QED
        BY <1>2, <4>1
    <3>3. /\ Len(Queued) = Len(chain) - 1
          /\ \A j \in 1..(Len(chain) - 1) :
                Queued[j] = IF j < s THEN chain[j] ELSE chain[j + 1]
      BY <1>1, <2>2 DEF QueuedOK
    <3>4. ASSUME NEW j \in 1..(Len(chain) - 1) PROVE Queued'[j] = Queued[j]
      BY <1>2, <3>2, <3>3
    <3>5. Queued'[Len(chain)] = n
      BY <1>2, <3>2
    <3> QED
      BY <1>2, <1>3, <3>2, <3>3, <3>4, <3>5 DEF q
  <2> QED
    BY <2>1, <2>2 DEF InChain
<1> QED
  BY <1>1, <1>3, <1>4, SeqEqual DEF QueuedOK, q

\* The stub joins unseen.
LEMMA StubJoins ==
    ASSUME IInv, IInv', ~InChain(stub), chain' = Append(chain, stub)
    PROVE  Queued' = Queued
<1>1. QueuedOK /\ QueuedOK'
  BY ItemsOfChain, PTL
<1>2. /\ Len(chain') = Len(chain) + 1 /\ Len(chain) \in Nat
      /\ \A k \in 1..Len(chain) : chain'[k] = chain[k]
      /\ chain'[Len(chain) + 1] = stub
  BY Names, AppendedChain DEF IInv
<1>3. Len(chain) + 1 \in 1..Len(chain')
  BY <1>2
<1>4. /\ Len(Queued') = Len(chain)
      /\ \A j \in 1..Len(chain) :
            Queued'[j] = IF j < Len(chain) + 1 THEN chain'[j] ELSE chain'[j + 1]
  BY <1>1, <1>2, <1>3 DEF QueuedOK
<1>5. Len(Queued') = Len(Queued) /\ \A j \in 1..Len(Queued) : Queued'[j] = Queued[j]
  BY <1>1, <1>2, <1>4 DEF QueuedOK
<1> QED
  BY <1>1, <1>5, SeqEqual DEF QueuedOK

\* The first node leaves: the stub unseen, an item from the front.
LEMMA FirstGoes ==
    ASSUME IInv, IInv', Len(chain) >= 2, chain' = Tail(chain)
    PROVE  /\ chain[1] = stub => Queued' = Queued
           /\ chain[1] # stub =>
                Queued # <<>> /\ Head(Queued) = chain[1] /\ Queued' = Tail(Queued)
<1>1. QueuedOK /\ QueuedOK'
  BY ItemsOfChain, PTL
<1>2. /\ Len(chain') = Len(chain) - 1 /\ Len(chain) \in Nat
      /\ \A k \in 1..(Len(chain) - 1) : chain'[k] = chain[k + 1]
      /\ \A m : InChain(m)' <=> InChain(m) /\ m # chain[1]
  BY ShortenedChain DEF IInv
<1>3. CASE chain[1] = stub
  <2>1. Len(Queued') = Len(Queued) /\ \A j \in 1..Len(Queued) : Queued'[j] = Queued[j]
    <3>1. ~InChain(stub)' /\ 1 \in 1..Len(chain)
      BY <1>2, <1>3
    <3>2. Len(Queued') = Len(chain') /\ \A j \in 1..Len(chain') : Queued'[j] = chain'[j]
      BY <1>1, <3>1 DEF QueuedOK
    <3>3. /\ Len(Queued) = Len(chain) - 1
          /\ \A j \in 1..(Len(chain) - 1) :
                Queued[j] = IF j < 1 THEN chain[j] ELSE chain[j + 1]
      BY <1>1, <1>3, <3>1 DEF QueuedOK
    <3> QED
      BY <1>2, <3>2, <3>3
  <2> QED
    BY <1>1, <1>3, <2>1, SeqEqual DEF QueuedOK
<1>4. CASE chain[1] # stub
  <2>1. Len(Queued) \in Nat /\ Len(Queued) >= 1 /\ Queued[1] = chain[1]
    <3>1. CASE ~InChain(stub)
      BY <1>1, <1>2, <3>1 DEF QueuedOK
    <3>2. ASSUME NEW s \in 1..Len(chain), chain[s] = stub
          PROVE  Len(Queued) \in Nat /\ Len(Queued) >= 1 /\ Queued[1] = chain[1]
      <4>1. /\ Len(Queued) = Len(chain) - 1
            /\ \A j \in 1..(Len(chain) - 1) :
                  Queued[j] = IF j < s THEN chain[j] ELSE chain[j + 1]
        BY <1>1, <3>2 DEF QueuedOK
      <4>2. s # 1 /\ 1 < s
        BY <1>2, <1>4, <3>2
      <4> QED
        BY <1>2, <4>1, <4>2
    <3> QED
      BY <3>1, <3>2 DEF InChain
  <2>2. Queued # <<>>
    BY <2>1
  <2>3. /\ Head(Queued) = Queued[1] /\ Tail(Queued) \in Seq(Nodes)
        /\ Len(Tail(Queued)) = Len(Queued) - 1
        /\ \A i \in 1..(Len(Queued) - 1) : Tail(Queued)[i] = Queued[i + 1]
    BY <1>1, <2>2, HeadTailProperties DEF QueuedOK
  <2>4. /\ Len(Queued') = Len(Queued) - 1
        /\ \A j \in 1..(Len(Queued) - 1) : Queued'[j] = Queued[j + 1]
    <3>1. CASE ~InChain(stub)
      BY <1>1, <1>2, <3>1 DEF QueuedOK
    <3>2. ASSUME NEW s \in 1..Len(chain), chain[s] = stub
          PROVE  /\ Len(Queued') = Len(Queued) - 1
                 /\ \A j \in 1..(Len(Queued) - 1) : Queued'[j] = Queued[j + 1]
      <4>1. s # 1 /\ s - 1 \in 1..Len(chain') /\ chain'[s - 1] = stub
        BY <1>2, <1>4, <3>2
      <4>2. /\ Len(Queued') = Len(chain) - 2
            /\ \A j \in 1..(Len(chain) - 2) :
                  Queued'[j] = IF j < s - 1 THEN chain'[j] ELSE chain'[j + 1]
        <5>1. /\ Len(Queued') = Len(chain') - 1
              /\ \A j \in 1..(Len(chain') - 1) :
                    Queued'[j] = IF j < s - 1 THEN chain'[j] ELSE chain'[j + 1]
          BY <1>1, <4>1 DEF QueuedOK
        <5> QED
          BY <1>2, <5>1
      <4>3. /\ Len(Queued) = Len(chain) - 1
            /\ \A j \in 1..(Len(chain) - 1) :
                  Queued[j] = IF j < s THEN chain[j] ELSE chain[j + 1]
        BY <1>1, <3>2 DEF QueuedOK
      <4> QED
        BY <1>2, <4>2, <4>3
    <3> QED
      BY <3>1, <3>2 DEF InChain
  <2>5. Queued' = Tail(Queued)
    BY <1>1, <2>3, <2>4, SeqEqual DEF QueuedOK
  <2> QED
    BY <1>4, <2>1, <2>2, <2>3, <2>5
<1> QED
  BY <1>3, <1>4

-----------------------------------------------------------------------------
(* The places of the channel *)

\* The next of a node in the chain is the node that follows it, without a gap.
LEMMA NextFollows ==
    ASSUME IInv, NEW m, InChain(m), next[m] # NULL
    PROVE  Follows(m, next[m]) /\ InChain(next[m]) /\ ~Gap(m, next[m])
<1> USE DEF IInv
<1>1. PICK k \in 1..Len(chain) : chain[k] = m
  BY DEF InChain
<1>2. Len(chain) \in Nat
  BY ChainFacts
<1>3. k # Len(chain)
  BY <1>1 DEF ChainIntact
<1>4. k \in 1..(Len(chain) - 1) /\ k + 1 \in 1..Len(chain)
  BY <1>2, <1>3
<1>5. next[m] = chain[k + 1] /\ ~Gap(m, chain[k + 1])
  BY <1>1, <1>4 DEF ChainIntact
<1> QED
  BY <1>1, <1>4, <1>5 DEF Follows, InChain

\* A node follows one node at most, and the first one follows none.
LEMMA FollowsOne ==
    ASSUME IInv, NEW l, NEW m, NEW n, Follows(l, n)
    PROVE  /\ InChain(l) /\ InChain(n) /\ n # tail
           /\ Follows(m, n) => m = l
<1>1. PICK i \in 1..(Len(chain) - 1) : chain[i] = l /\ chain[i + 1] = n
  BY DEF Follows
<1>2. Len(chain) \in Nat /\ chain[1] = tail /\ NoNodeTwice
  BY ChainFacts DEF IInv, ChainIntact
<1>3. i \in 1..Len(chain) /\ i + 1 \in 1..Len(chain) /\ 1 \in 1..Len(chain) /\ i + 1 # 1
  BY <1>2
<1>4. n # tail
  BY <1>1, <1>2, <1>3 DEF NoNodeTwice
<1>5. ASSUME NEW j \in 1..(Len(chain) - 1), chain[j] = m, chain[j + 1] = n
      PROVE  m = l
  <2>1. j + 1 \in 1..Len(chain)
    BY <1>2
  <2>2. j + 1 = i + 1
    BY <1>1, <1>2, <1>3, <1>5, <2>1 DEF NoNodeTwice
  <2>3. j = i
    BY <2>2
  <2> QED
    BY <1>1, <1>5, <2>3
<1> QED
  BY <1>1, <1>3, <1>4, <1>5 DEF InChain, Follows

\* What Ready means.
ReadyOK ==
    \A n : /\ Ready(n) \in BOOLEAN
           /\ Ready(n) <=> n = tail \/ \E m : InChain(m) /\ next[m] = n

LEMMA ReadyIs == IInv => ReadyOK
<1> SUFFICES ASSUME IInv, NEW n
             PROVE  /\ Ready(n) \in BOOLEAN
                    /\ Ready(n) <=> n = tail \/ \E m : InChain(m) /\ next[m] = n
  BY DEF ReadyOK
<1>1. \A m : m \in Range(chain) <=> InChain(m)
  BY ChainFacts, RangeEquality DEF IInv, InChain
<1> QED
  BY <1>1 DEF Ready

\* The place of item n in the channel.
Place(n) == [item |-> n, ready |-> Ready(n)]

ChanOK ==
    /\ chanBar \in Seq(Channel!Cell) /\ Len(chanBar) = Len(Queued) /\ Len(Queued) \in Nat
    /\ \A k \in 1..Len(Queued) : Queued[k] \in Nodes /\ chanBar[k] = Place(Queued[k])

\* A function on an initial segment is a sequence.
LEMMA SeqOfFunction ==
    ASSUME NEW S, NEW n \in Nat, NEW f \in [1..n -> S]
    PROVE  f \in Seq(S) /\ Len(f) = n
OBVIOUS

LEMMA ChanShape == IInv => ChanOK
<1> SUFFICES ASSUME IInv PROVE ChanOK
  OBVIOUS
<1>1. Queued \in Seq(Nodes) /\ Len(Queued) \in Nat /\ \A k \in 1..Len(Queued) : Queued[k] \in Nodes
  BY ItemsOfChain, LenProperties, ElementOfSeq DEF QueuedOK
<1>2. \A n \in Nodes : Place(n) \in Channel!Cell
  BY ReadyIs DEF ReadyOK, Place, Channel!Cell
<1>3. chanBar = [k \in 1..Len(Queued) |-> Place(Queued[k])]
  BY DEF chanBar, Place
<1>4. chanBar \in [1..Len(Queued) -> Channel!Cell]
  BY <1>1, <1>2, <1>3
<1>5. chanBar \in Seq(Channel!Cell) /\ Len(chanBar) = Len(Queued)
  BY <1>1, <1>4, SeqOfFunction
<1> QED
  BY <1>1, <1>3, <1>5 DEF ChanOK

-----------------------------------------------------------------------------
(* Every step of the queue is a step of the channel, or none *)

\* What a state and its successor are known to satisfy.
Related ==
    /\ IInv /\ QueuedOK /\ ReadyOK /\ ChanOK
    /\ IInv' /\ QueuedOK' /\ ReadyOK' /\ ChanOK'

\* Places whose items are as ready as before are the same.
LEMMA SamePlace ==
    ASSUME ReadyOK, ReadyOK', NEW n, Ready(n)' <=> Ready(n)
    PROVE  Place(n)' = Place(n)
<1>1. Ready(n)' = Ready(n)
  BY DEF ReadyOK
<1> QED
  BY <1>1 DEF Place

LEMMA SameChannel ==
    ASSUME Related, Queued' = Queued,
           \A n \in Nodes : InChain(n) => (Ready(n)' <=> Ready(n))
    PROVE  chanBar' = chanBar
<1>1. ASSUME NEW k \in 1..Len(Queued) PROVE chanBar'[k] = chanBar[k]
  <2>1. PICK n \in Nodes : n = Queued[k]
    BY DEF Related, ChanOK
  <2>2. InChain(n)
    BY <2>1, ItemsInChain DEF Related
  <2>3. Place(n)' = Place(n)
    BY <2>2, SamePlace DEF Related
  <2>4. chanBar[k] = Place(n)
    BY <2>1 DEF Related, ChanOK
  <2>5. chanBar'[k] = Place(n)'
    BY <2>1 DEF Related, ChanOK, Place, Ready
  <2> QED
    BY <2>3, <2>4, <2>5
<1>2. /\ chanBar \in Seq(Channel!Cell) /\ chanBar' \in Seq(Channel!Cell)
      /\ Len(chanBar) = Len(Queued) /\ Len(chanBar') = Len(Queued)
  BY DEF Related, ChanOK, Channel!Cell
<1> QED
  BY <1>1, <1>2, SeqEqual

\* Steps that leave the chain alone are no step of the channel, and so is the
\* clearing of a node outside it.
LEMMA QuietStep ==
    ASSUME Related, UNCHANGED <<tail, chain, out>>,
           \A m : InChain(m) => next'[m] = next[m]
    PROVE  UNCHANGED <<chanBar, out>>
<1>1. Queued' = Queued
  BY DEF Queued
<1>2. \A m : InChain(m)' <=> InChain(m)
  BY DEF InChain
<1>3. \A n : Ready(n)' <=> Ready(n)
  BY <1>2 DEF Related, ReadyOK
<1> QED
  BY <1>1, <1>3, SameChannel

\* An initial segment of the numbers has as many members as its last one.
LEMMA SegmentSize ==
    ASSUME NEW n \in Nat
    PROVE  IsFiniteSet(1..n) /\ Cardinality(1..n) = n
<1>1. IsFiniteSet(1..n) /\ Cardinality(1..n) = IF 1 > n THEN 0 ELSE n - 1 + 1
  BY FS_Interval
<1> QED
  BY <1>1

\* The exchange claims the next place for an item that is not in the channel.
LEMMA SwapClaims ==
    ASSUME Related, NEW p \in Producers, PushSwap(p)
    PROVE  Channel!Claim(node[p])
<1> USE DEF PushSwap, consumerVars
<1>1. PICK n \in Nodes : n = node[p] /\ ~InChain(n) /\ next[n] = NULL
  BY DEF Related, IInv, Owners, PushAt
<1>2. chain' = Append(chain, n) /\ UNCHANGED <<tail, next, out>>
  BY <1>1
<1>3. Queued' = Append(Queued, n)
  BY <1>1, <1>2, ItemJoins DEF Related
<1>4. \A m : InChain(m)' <=> InChain(m) \/ m = n
  BY <1>1, <1>2, AppendedChain DEF Related, IInv, AllNodes
<1>5. \A x \in Nodes : InChain(x) => (Ready(x)' <=> Ready(x))
  BY <1>1, <1>2, <1>4, Names DEF Related, ReadyOK, AllNodes
<1>6. ~Ready(n)'
  <2>1. InChain(tail)
    BY ChainFacts DEF Related, IInv
  <2>2. \A m : InChain(m) /\ next[m] = n => FALSE
    BY <1>1, NextFollows, Names DEF Related, AllNodes
  <2> QED
    BY <1>1, <1>2, <1>4, <2>1, <2>2, Names DEF Related, ReadyOK, AllNodes
<1>7. Queued \in Seq(Nodes) /\ Len(Queued) \in Nat
  BY DEF Related, QueuedOK, ChanOK
<1>8. /\ Len(Queued') = Len(Queued) + 1 /\ Queued'[Len(Queued) + 1] = n
      /\ \A k \in 1..Len(Queued) : Queued'[k] = Queued[k]
  BY <1>3, <1>7, AppendProperties
<1>9. \A k \in 1..Len(Queued) : Queued[k] # n
  BY <1>1, ItemsInChain DEF Related
<1>10. Len(chanBar) < Cardinality(Nodes)
  <2>1. IsFiniteSet(Nodes) /\ IsFiniteSet(Nodes \ {n})
        /\ Cardinality(Nodes \ {n}) = Cardinality(Nodes) - 1 /\ Cardinality(Nodes) \in Nat
    BY NodesAssumption, FS_RemoveElement, FS_CardinalityType
  <2>2. PICK len \in Nat : len = Len(Queued)
    BY <1>7
  <2>3. Queued \in [1..len -> Nodes \ {n}]
    BY <1>7, <1>9, <2>2, LenProperties
  <2>4. IsFiniteSet(1..len) /\ Cardinality(1..len) = len
    BY <2>2, SegmentSize
  <2>5. ~(Cardinality(Nodes \ {n}) < len)
    <3> SUFFICES ASSUME Cardinality(Nodes \ {n}) < Cardinality(1..len) PROVE FALSE
      BY <2>4
    <3>1. PICK x \in 1..len, y \in 1..len : x # y /\ Queued[x] = Queued[y]
      BY <2>1, <2>3, <2>4, FS_PigeonHole
    <3>2. IInv
      BY DEF Related
    <3> QED
      BY <2>2, <3>1, <3>2, ItemsApart
  <2> QED
    BY <1>7, <2>1, <2>2, <2>5 DEF Related, ChanOK
<1> DEFINE e == [item |-> n, ready |-> FALSE]
<1>11. Place(n)' = e
  BY <1>6 DEF Related, ReadyOK, Place
<1>12. e \in Channel!Cell
  BY DEF Channel!Cell
<1> HIDE DEF e
<1>13. chanBar' = Append(chanBar, e)
  <2>1. /\ chanBar \in Seq(Channel!Cell) /\ Len(chanBar) = Len(Queued)
        /\ chanBar' \in Seq(Channel!Cell) /\ Len(chanBar') = Len(Queued) + 1
    BY <1>8 DEF Related, ChanOK, Channel!Cell
  <2>2. /\ Append(chanBar, e) \in Seq(Channel!Cell)
        /\ Len(Append(chanBar, e)) = Len(chanBar) + 1
        /\ \A i \in 1..Len(chanBar) : Append(chanBar, e)[i] = chanBar[i]
        /\ Append(chanBar, e)[Len(chanBar) + 1] = e
    BY <1>12, <2>1, AppendProperties
  <2>3. chanBar'[Len(Queued) + 1] = e
    <3>1. Len(Queued) + 1 \in 1..Len(Queued')
      BY <1>7, <1>8
    <3> QED
      BY <1>8, <1>11, <3>1 DEF Related, ChanOK, Place, Ready
  <2>4. ASSUME NEW k \in 1..Len(Queued) PROVE chanBar'[k] = chanBar[k]
    <3>1. PICK x \in Nodes : x = Queued[k]
      BY DEF Related, ChanOK
    <3>2. InChain(x) /\ Queued'[k] = x /\ k \in 1..Len(Queued')
      BY <1>7, <1>8, <3>1, ItemsInChain DEF Related
    <3>3. Place(x)' = Place(x)
      BY <1>5, <3>2, SamePlace DEF Related
    <3>4. chanBar'[k] = Place(x)'
      BY <3>2 DEF Related, ChanOK, Place, Ready
    <3> QED
      BY <3>1, <3>3, <3>4 DEF Related, ChanOK
  <2> QED
    BY <1>7, <2>1, <2>2, <2>3, <2>4, SeqEqual
<1>14. ASSUME NEW k \in 1..Len(chanBar) PROVE chanBar[k].item # n
  <2>1. PICK x \in Nodes : x = Queued[k] /\ x # n /\ chanBar[k] = Place(x)
    BY <1>9 DEF Related, ChanOK
  <2> QED
    BY <2>1 DEF Place
<1> QED
  BY <1>1, <1>2, <1>10, <1>13, <1>14 DEF Channel!Claim, e

\* A link makes ready the node it points to, and no other one.
LEMMA LinkReadies ==
    ASSUME Related, NEW m, NEW n \in AllNodes, Gap(m, n), Follows(m, n),
           UNCHANGED <<tail, chain>>, next' = [next EXCEPT ![m] = n]
    PROVE  /\ ~Ready(n) /\ Ready(n)'
           /\ \A x \in Nodes : x # n => (Ready(x)' <=> Ready(x))
<1>1. IInv /\ InChain(m) /\ n # tail
  BY FollowsOne DEF Related
<1>2. m \in AllNodes
  BY <1>1, ChainFacts DEF IInv, InChain
<1>3. next[m] = NULL
  BY <1>1 DEF IInv, ChainIntact, Follows, NoNodeTwice, FollowsOne
<1>4. \A l : InChain(l)' <=> InChain(l)
  BY DEF InChain
<1>5. \A l : InChain(l) => l \in AllNodes /\ next'[l] = IF l = m THEN n ELSE next[l]
  BY <1>1, ChainFacts DEF IInv, InChain, TypeOK
<1>6. ASSUME NEW l, InChain(l), next[l] = n PROVE FALSE
  <2>1. Follows(l, n) /\ ~Gap(l, n)
    BY <1>1, <1>6, NextFollows, Names
  <2>2. l = m
    BY <1>1, <2>1, FollowsOne
  <2> QED
    BY <2>1, <2>2
<1>7. ~Ready(n)
  BY <1>1, <1>6 DEF Related, ReadyOK
<1>8. Ready(n)'
  BY <1>1, <1>4, <1>5 DEF Related, ReadyOK
<1>9. ASSUME NEW x \in Nodes, x # n PROVE Ready(x)' <=> Ready(x)
  BY <1>3, <1>4, <1>5, <1>9, Names DEF Related, ReadyOK, AllNodes
<1> QED
  BY <1>7, <1>8, <1>9

\* What publishing does to a place.
LEMMA PublishedCell ==
    ASSUME NEW i, NEW a, NEW b
    PROVE  [[item |-> i, ready |-> a] EXCEPT !.ready = b] = [item |-> i, ready |-> b]
OBVIOUS

\* The link publishes the place of its producer's node.
LEMMA LinkPublishes ==
    ASSUME Related, NEW p \in Producers, PushLink(p)
    PROVE  \E k \in 1..Len(chanBar) : Channel!Publish(k)
<1> USE DEF PushLink, consumerVars
<1>1. PICK n \in Nodes, m \in AllNodes : n = node[p] /\ m = prev[p] /\ Follows(m, n) /\ Gap(m, n)
  <2>1. node[p] \in Nodes /\ prev[p] \in AllNodes /\ Follows(prev[p], node[p])
    BY DEF Related, IInv, Owners, PushAt, TypeOK
  <2>2. Gap(prev[p], node[p])
    BY DEF Gap, Linking
  <2> QED
    BY <2>1, <2>2
<1>2. IInv /\ InChain(n)
  BY <1>1, FollowsOne DEF Related
<1>3. next' = [next EXCEPT ![m] = n] /\ n \in AllNodes
  BY <1>1 DEF AllNodes
<1>4. ~Ready(n) /\ Ready(n)' /\ \A x \in Nodes : x # n => (Ready(x)' <=> Ready(x))
  BY <1>1, <1>3, LinkReadies
<1>5. PICK k \in 1..Len(Queued) : Queued[k] = n
  BY <1>2, ItemsInChain
<1>6. /\ chanBar \in Seq(Channel!Cell) /\ Len(chanBar) = Len(Queued)
      /\ chanBar' \in Seq(Channel!Cell) /\ Len(chanBar') = Len(Queued)
      /\ Queued' = Queued
  <2>1. Queued' = Queued
    BY DEF Queued
  <2> QED
    BY <2>1 DEF Related, ChanOK, Channel!Cell
<1> DEFINE e == [item |-> n, ready |-> TRUE]
<1>7. chanBar[k] = [item |-> n, ready |-> FALSE] /\ chanBar'[k] = e
  <2>1. Place(n) = [item |-> n, ready |-> FALSE] /\ Place(n)' = e
    BY <1>4 DEF Related, ReadyOK, Place
  <2>2. chanBar[k] = Place(n)
    BY <1>5 DEF Related, ChanOK
  <2>3. chanBar'[k] = Place(n)'
    <3>1. k \in 1..Len(Queued') /\ Queued'[k] = n
      BY <1>5, <1>6
    <3> QED
      BY <3>1 DEF Related, ChanOK, Place, Ready
  <2> QED
    BY <2>1, <2>2, <2>3
<1>8. ASSUME NEW j \in 1..Len(Queued), j # k PROVE chanBar'[j] = chanBar[j]
  <2>1. PICK x \in Nodes : x = Queued[j]
    BY DEF Related, ChanOK
  <2>2. x # n
    BY <1>2, <1>5, <1>8, <2>1, ItemsApart
  <2>3. Place(x)' = Place(x)
    BY <1>4, <2>2, SamePlace DEF Related
  <2>4. chanBar[j] = Place(x)
    BY <2>1 DEF Related, ChanOK
  <2>5. chanBar'[j] = Place(x)'
    BY <1>6, <2>1 DEF Related, ChanOK, Place, Ready
  <2> QED
    BY <2>3, <2>4, <2>5
<1>9. chanBar' = [chanBar EXCEPT ![k].ready = TRUE]
  <2>1. [chanBar[k] EXCEPT !.ready = TRUE] = e /\ e \in Channel!Cell
    <3>1. [[item |-> n, ready |-> FALSE] EXCEPT !.ready = TRUE] = e
      BY PublishedCell
    <3> QED
      BY <1>7, <3>1 DEF Channel!Cell
  <2> HIDE DEF e
  <2>2. [chanBar EXCEPT ![k].ready = TRUE] = [chanBar EXCEPT ![k] = e]
    BY <2>1
  <2>3. /\ [chanBar EXCEPT ![k] = e] \in Seq(Channel!Cell)
        /\ Len([chanBar EXCEPT ![k] = e]) = Len(chanBar)
        /\ \A j \in 1..Len(chanBar) :
              [chanBar EXCEPT ![k] = e][j] = IF j = k THEN e ELSE chanBar[j]
    BY <1>5, <1>6, <2>1, ExceptSeq
  <2>4. \A j \in 1..Len(chanBar) : chanBar'[j] = [chanBar EXCEPT ![k] = e][j]
    BY <1>6, <1>7, <1>8, <2>3
  <2>5. chanBar' = [chanBar EXCEPT ![k] = e]
    BY <1>6, <2>3, <2>4, SeqEqual
  <2> QED
    BY <2>2, <2>5
<1>10. Channel!Publish(k)
  BY <1>7, <1>9 DEF Channel!Publish
<1> QED
  BY <1>5, <1>6, <1>10

\* When tail moves on, the node it moves to is as ready as it was.
LEMMA TailMoves ==
    ASSUME Related, next[tail] # NULL, chain' = Tail(chain), tail' = next[tail],
           UNCHANGED next
    PROVE  /\ Len(chain) >= 2 /\ chain[1] = tail
           /\ \A x \in Nodes : x # tail => (Ready(x)' <=> Ready(x))
<1>1. IInv /\ IInv'
  BY DEF Related
<1>2. Len(chain) >= 2 /\ chain[1] = tail /\ InChain(tail)
  BY <1>1, SecondOfChain, ChainFacts DEF IInv, ChainIntact
<1>3. \A m : InChain(m)' <=> InChain(m) /\ m # tail
  BY <1>1, <1>2, ShortenedChain DEF IInv
<1>4. ASSUME NEW x \in Nodes, x # tail PROVE Ready(x)' <=> Ready(x)
  BY <1>2, <1>3, <1>4 DEF Related, ReadyOK
<1> QED
  BY <1>2, <1>4

\* A node that pop returns is the item of the first place, which is published.
LEMMA ReturnTakes ==
    ASSUME Related, ReturnNode(tail), next[tail] # NULL, tail # stub, UNCHANGED next
    PROVE  Channel!Take
<1> USE DEF ReturnNode
<1>1. IInv /\ IInv' /\ Len(chain) >= 2 /\ chain[1] = tail
      /\ \A x \in Nodes : x # tail => (Ready(x)' <=> Ready(x))
  BY TailMoves DEF Related
<1>2. Queued # <<>> /\ Head(Queued) = tail /\ Queued' = Tail(Queued)
  BY <1>1, FirstGoes
<1>3. PICK n \in Nodes : n = tail /\ n = Queued[1]
  BY <1>1, <1>2, ChainFacts DEF IInv, AllNodes
<1>4. Queued \in Seq(Nodes) /\ Len(Queued) \in Nat /\ Len(Queued) >= 1
  BY <1>2, EmptySeq DEF Related, QueuedOK, ChanOK
<1>5. /\ Len(Queued') = Len(Queued) - 1
      /\ \A i \in 1..(Len(Queued) - 1) : Queued'[i] = Queued[i + 1]
  BY <1>2, <1>4, HeadTailProperties
<1>6. /\ chanBar \in Seq(Channel!Cell) /\ Len(chanBar) = Len(Queued)
      /\ chanBar' \in Seq(Channel!Cell) /\ Len(chanBar') = Len(Queued) - 1
  BY <1>5 DEF Related, ChanOK, Channel!Cell
<1>7. chanBar # <<>> /\ Head(chanBar) = [item |-> n, ready |-> TRUE]
  <2>1. chanBar # <<>> /\ Head(chanBar) = chanBar[1] /\ 1 \in 1..Len(Queued)
    BY <1>4, <1>6, EmptySeq
  <2>2. chanBar[1] = Place(n) /\ Ready(n) = TRUE
    BY <1>3, <2>1 DEF Related, ChanOK, ReadyOK
  <2> QED
    BY <2>1, <2>2 DEF Place
<1>8. /\ Tail(chanBar) \in Seq(Channel!Cell)
      /\ Len(Tail(chanBar)) = Len(chanBar) - 1
      /\ \A k \in 1..Len(Tail(chanBar)) : Tail(chanBar)[k] = chanBar[k + 1]
  BY <1>6, <1>7, HeadTailProperties
<1>9. ASSUME NEW k \in 1..(Len(Queued) - 1) PROVE chanBar'[k] = chanBar[k + 1]
  <2>1. k + 1 \in 1..Len(Queued) /\ 1 \in 1..Len(Queued) /\ k + 1 # 1
        /\ k \in 1..Len(Queued')
    BY <1>4, <1>5
  <2>2. PICK x \in Nodes : x = Queued[k + 1] /\ x = Queued'[k]
    BY <1>5, <2>1 DEF Related, ChanOK
  <2>3. x # tail
    BY <1>1, <1>3, <2>1, <2>2, ItemsApart
  <2>4. Place(x)' = Place(x)
    BY <1>1, <2>3, SamePlace DEF Related
  <2>5. chanBar[k + 1] = Place(x)
    BY <2>1, <2>2 DEF Related, ChanOK
  <2>6. chanBar'[k] = Place(x)'
    BY <2>1, <2>2 DEF Related, ChanOK, Place, Ready
  <2> QED
    BY <2>4, <2>5, <2>6
<1>10. chanBar' = Tail(chanBar)
  BY <1>4, <1>6, <1>8, <1>9, SeqEqual
<1> QED
  BY <1>3, <1>7, <1>10 DEF Channel!Take

\* The consumer's walk over the stub and its push of the stub are not seen.
LEMMA StubUnseen ==
    ASSUME Related,
           \/ PopLoad /\ tail = stub /\ next[stub] # NULL
           \/ StubClear \/ StubSwap \/ StubLink
    PROVE  UNCHANGED <<chanBar, out>>
<1> USE DEF producerVars
<1>1. IInv /\ IInv'
  BY DEF Related
<1>2. CASE PopLoad /\ tail = stub /\ next[stub] # NULL
  <2>1. chain' = Tail(chain) /\ tail' = next[tail] /\ UNCHANGED <<next, out>>
    BY <1>2 DEF PopLoad
  <2>2. /\ Len(chain) >= 2 /\ chain[1] = stub
        /\ \A x \in Nodes : x # tail => (Ready(x)' <=> Ready(x))
    BY <1>2, <2>1, TailMoves
  <2>3. Queued' = Queued
    BY <1>1, <2>1, <2>2, FirstGoes
  <2>4. chanBar' = chanBar
    BY <1>2, <2>2, <2>3, Names, SameChannel
  <2> QED
    BY <2>1, <2>4
<1>3. CASE StubClear
  <2>1. ~InChain(stub) /\ UNCHANGED <<tail, chain, out>> /\ next' = [next EXCEPT ![stub] = NULL]
    BY <1>1, <1>3 DEF StubClear, IInv, PopAt
  <2>2. \A m : InChain(m) => next'[m] = next[m]
    BY <1>1, <2>1, ChainFacts DEF IInv, TypeOK, InChain
  <2> QED
    BY <2>1, <2>2, QuietStep
<1>4. CASE StubSwap
  <2>1. /\ ~InChain(stub) /\ next[stub] = NULL
        /\ chain' = Append(chain, stub) /\ UNCHANGED <<tail, next, out>>
    BY <1>1, <1>4 DEF StubSwap, IInv, PopAt
  <2>2. Queued' = Queued
    BY <1>1, <2>1, StubJoins
  <2>3. \A m : InChain(m)' <=> InChain(m) \/ m = stub
    BY <1>1, <2>1, Names, AppendedChain DEF IInv
  <2>4. \A x \in Nodes : Ready(x)' <=> Ready(x)
    BY <2>1, <2>3, Names DEF Related, ReadyOK, AllNodes
  <2> QED
    BY <2>1, <2>2, <2>4, SameChannel
<1>5. CASE StubLink
  <2>1. /\ Gap(cprev, stub) /\ Follows(cprev, stub)
        /\ next' = [next EXCEPT ![cprev] = stub] /\ UNCHANGED <<tail, chain, out>>
    BY <1>1, <1>5 DEF StubLink, IInv, PopAt, Gap
  <2>2. \A x \in Nodes : Ready(x)' <=> Ready(x)
    BY <2>1, Names, LinkReadies
  <2>3. Queued' = Queued
    BY <2>1 DEF Queued
  <2> QED
    BY <2>1, <2>2, <2>3, SameChannel
<1> QED
  BY <1>2, <1>3, <1>4, <1>5

\* The other steps of pop return a node that is ready, or change nothing that
\* the channel shows.
LEMMA PopTakesOrQuiet ==
    ASSUME Related, PopLoad \/ PopReload \/ PopHead \/ PopRecheck
    PROVE  Channel!Take \/ UNCHANGED <<chanBar, out>>
<1> USE DEF producerVars
<1>1. IInv
  BY DEF Related
<1>2. CASE UNCHANGED <<tail, chain, next, out>>
  BY <1>2, QuietStep
<1>3. CASE PopLoad /\ tail = stub /\ next[stub] # NULL
  BY <1>3, StubUnseen
<1>4. CASE PopLoad /\ ~(tail = stub /\ next[stub] # NULL)
  <2>1. CASE tail # stub /\ next[tail] # NULL
    BY <1>4, <2>1, ReturnTakes DEF PopLoad
  <2>2. CASE ~(tail # stub /\ next[tail] # NULL)
    BY <1>2, <1>4, <2>2 DEF PopLoad, ReturnNull
  <2> QED
    BY <2>1, <2>2
<1>5. CASE PopReload
  <2>1. lt = tail /\ lt # stub
    BY <1>1, <1>5 DEF PopReload, IInv, PopAt
  <2>2. CASE next[lt] # NULL
    BY <1>5, <2>1, <2>2, ReturnTakes DEF PopReload
  <2>3. CASE next[lt] = NULL
    BY <1>2, <1>5, <2>3 DEF PopReload
  <2> QED
    BY <2>2, <2>3
<1>6. CASE PopHead
  BY <1>2, <1>6 DEF PopHead, ReturnNull
<1>7. CASE PopRecheck
  <2>1. lt = tail /\ lt # stub
    BY <1>1, <1>7 DEF PopRecheck, IInv, PopAt
  <2>2. CASE next[lt] # NULL
    BY <1>7, <2>1, <2>2, ReturnTakes DEF PopRecheck
  <2>3. CASE next[lt] = NULL
    BY <1>2, <1>7, <2>3 DEF PopRecheck, ReturnNull
  <2> QED
    BY <2>2, <2>3
<1> QED
  BY <1>3, <1>4, <1>5, <1>6, <1>7

\* A producer that takes an item from its caller, or clears it, does nothing to
\* the chain.
LEMMA ProducerQuiet ==
    ASSUME Related, NEW p \in Producers, EnqCall(p) \/ PushClear(p)
    PROVE  UNCHANGED <<chanBar, out>>
<1> USE DEF queueVars, consumerVars
<1>1. UNCHANGED <<tail, chain, out>>
  BY DEF EnqCall, PushClear
<1>2. \A m : InChain(m) => next'[m] = next[m]
  <2>1. CASE EnqCall(p)
    BY <2>1 DEF EnqCall
  <2>2. CASE PushClear(p)
    <3>1. ~InChain(node[p]) /\ next' = [next EXCEPT ![node[p]] = NULL]
      BY <2>2 DEF PushClear, Related, IInv, Owners
    <3>2. \A m : InChain(m) => m \in AllNodes /\ m # node[p]
      BY <3>1, ChainFacts DEF Related, IInv, InChain
    <3> QED
      BY <3>1, <3>2 DEF Related, IInv, TypeOK
  <2> QED
    BY <2>1, <2>2
<1> QED
  BY <1>1, <1>2, QuietStep

\* One step of the queue, seen through the mapping.
LEMMA StepSimulation ==
    IInv /\ IInv' /\ [Next]_vars => [Channel!Next]_<<chanBar, out>>
<1> SUFFICES ASSUME IInv, IInv', [Next]_vars
             PROVE  Channel!Next \/ UNCHANGED <<chanBar, out>>
  OBVIOUS
<1>1. /\ IInv => QueuedOK /\ ReadyOK /\ ChanOK
      /\ IInv' => QueuedOK' /\ ReadyOK' /\ ChanOK'
  BY ItemsOfChain, ReadyIs, ChanShape, PTL
<1>2. Related
  BY <1>1 DEF Related
<1>3. ASSUME NEW p \in Producers, EnqCall(p) \/ Push(p)
      PROVE  Channel!Next \/ UNCHANGED <<chanBar, out>>
  <2>1. CASE EnqCall(p) \/ PushClear(p)
    BY <1>2, <2>1, ProducerQuiet
  <2>2. CASE PushSwap(p)
    <3>1. node[p] \in Nodes
      BY <2>2 DEF PushSwap, IInv, Owners
    <3> QED
      BY <1>2, <2>2, <3>1, SwapClaims DEF Channel!Next
  <2>3. CASE PushLink(p)
    BY <1>2, <2>3, LinkPublishes DEF Channel!Next
  <2> QED
    BY <1>3, <2>1, <2>2, <2>3 DEF Push
<1>4. CASE PopLoad \/ PopReload \/ PopHead \/ PopRecheck
  BY <1>2, <1>4, PopTakesOrQuiet DEF Channel!Next
<1>5. CASE StubClear \/ StubSwap \/ StubLink
  BY <1>2, <1>5, StubUnseen
<1>6. CASE PopCall \/ Destroy \/ UNCHANGED vars
  <2>1. UNCHANGED <<tail, chain, next, out>>
    BY <1>6 DEF PopCall, Destroy, vars, queueVars, consumerVars
  <2> QED
    BY <1>2, <2>1, QuietStep
<1> QED
  BY <1>3, <1>4, <1>5, <1>6 DEF Next, Pop

\* The linked queue is a FIFO channel with a place for every node: whatever the
\* order in which producers exchange and link and the consumer pops, the items
\* leave in the order of the exchanges, each once, each after its link.
THEOREM LinkedQueueIsChannel == Spec => ImplementsChannel
<1>1. Init => Channel!Init
  <2> SUFFICES ASSUME Init PROVE chanBar = <<>> /\ out = NULL
    BY DEF Channel!Init
  <2>1. IInv /\ chain = <<stub>> /\ out = NULL
    BY InitInv DEF Init
  <2>2. QueuedOK /\ ChanOK
    BY <2>1, ItemsOfChain, ChanShape
  <2>3. Len(chain) = 1 /\ chain[1] = stub
    BY <2>1
  <2>4. Len(Queued) = 0
    BY <2>2, <2>3 DEF QueuedOK
  <2>5. Len(chanBar) = 0 /\ chanBar \in Seq(Channel!Cell)
    BY <2>2, <2>4 DEF ChanOK
  <2> QED
    BY <2>1, <2>5, EmptySeq
<1> QED
  BY Invariant, <1>1, StepSimulation, PTL
  DEF Spec, ImplementsChannel, Channel!Spec, Channel!vars
=============================================================================
