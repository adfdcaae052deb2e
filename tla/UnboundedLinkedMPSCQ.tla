------------------------ MODULE UnboundedLinkedMPSCQ ------------------------
(***************************************************************************)
(* shclog::mpsc_queue::UnboundedLinkedMPSCQ, the intrusive linked queue of *)
(* include/shclog/mpsc_queue.hpp:227-327 (push and pop after D. Vyukov).   *)
(*                                                                         *)
(* One action per access to an atomic.  A node is identified with the item *)
(* it is embedded in (container_of, lines 235-243).  Callers own the nodes *)
(* in `free': they may delete them, reuse the memory, or enqueue the item  *)
(* again, so the queue must not touch one.  The nodes are finite and       *)
(* reused, which makes the state space finite without a bound on calls.    *)
(***************************************************************************)
EXTENDS Naturals, Sequences, FiniteSets, SequencesExt

CONSTANTS Producers,   \* threads calling enqueue
          Nodes,       \* the nodes of the items that exist
          stub,        \* the queue's own node
          NULL         \* nullptr

ASSUME NodesAssumption ==
    /\ IsFiniteSet(Nodes) /\ IsFiniteSet(Producers)
    /\ stub \notin Nodes /\ NULL \notin Nodes /\ NULL # stub

AllNodes == Nodes \cup {stub}

VARIABLES
    head,    \* std::atomic<Node *> head: the node pushed last
    tail,    \* Node *tail: the consumer's end
    next,    \* std::atomic<Node *> next of every node
    pc,      \* where each producer is in push
    node,    \* the node each producer pushes
    prev,    \* what its exchange of head returned
    cpc,     \* where the consumer is in pop
    lt,      \* pop's local_tail
    cprev,   \* what the exchange of head returned in push(&stub)
    phase,   \* "live"; "drain" in the destructor; "gone" after it
    out,     \* the node of the latest dequeue that returned one
    free,    \* nodes owned by the callers
    chain,   \* history: nodes from tail on, in the order of the exchanges
    calm     \* history: no push was between its exchange and its link since
             \* the consumer's latest call

queueVars == <<head, tail, next>>
producerVars == <<pc, node, prev>>
consumerVars == <<cpc, lt, cprev, phase, out>>
vars == <<queueVars, producerVars, consumerVars, free, chain, calm>>

TypeOK ==
    /\ {head, tail, lt, cprev} \subseteq AllNodes
    /\ next \in [AllNodes -> AllNodes \cup {NULL}]
    /\ pc \in [Producers -> {"idle", "clear", "swap", "link"}]
    /\ node \in [Producers -> AllNodes]
    /\ prev \in [Producers -> AllNodes]
    /\ cpc \in {"idle", "load", "reload", "head", "sclear", "sswap", "slink", "recheck"}
    /\ phase \in {"live", "drain", "gone"}
    /\ out \in Nodes \cup {NULL}
    /\ free \subseteq Nodes
    /\ chain \in Seq(AllNodes)
    /\ calm \in BOOLEAN

Init ==
    /\ head = stub /\ tail = stub
    /\ next = [n \in AllNodes |-> NULL]
    /\ pc = [p \in Producers |-> "idle"]
    /\ node = [p \in Producers |-> stub]
    /\ prev = [p \in Producers |-> stub]
    /\ cpc = "idle" /\ lt = stub /\ cprev = stub
    /\ phase = "live"
    /\ out = NULL
    /\ free = Nodes
    /\ chain = <<stub>>
    /\ calm = TRUE

-----------------------------------------------------------------------------
(* enqueue: item.release() and push, by producer p *)

\* The caller gives up one of its items.
EnqCall(p) ==
    /\ phase = "live"
    /\ pc[p] = "idle"
    /\ \E n \in free :
         /\ node' = [node EXCEPT ![p] = n]
         /\ free' = free \ {n}
    /\ pc' = [pc EXCEPT ![p] = "clear"]
    /\ UNCHANGED <<queueVars, prev, consumerVars, chain, calm>>

\* Mutant of PushClear: n->next keeps what an earlier pass through the queue left.
PushClear_Absent(p) ==
    /\ pc[p] = "clear"
    /\ pc' = [pc EXCEPT ![p] = "swap"]
    /\ UNCHANGED <<queueVars, node, prev, consumerVars, free, chain, calm>>

\* n->next = nullptr.
PushClear(p) ==
    /\ pc[p] = "clear"
    /\ next' = [next EXCEPT ![node[p]] = NULL]
    /\ pc' = [pc EXCEPT ![p] = "swap"]
    /\ UNCHANGED <<head, tail, node, prev, consumerVars, free, chain, calm>>

\* prev = head.exchange(n): the item has its place.
PushSwap(p) ==
    /\ pc[p] = "swap"
    /\ prev' = [prev EXCEPT ![p] = head]
    /\ head' = node[p]
    /\ chain' = Append(chain, node[p])
    /\ calm' = FALSE
    /\ pc' = [pc EXCEPT ![p] = "link"]
    /\ UNCHANGED <<tail, next, node, consumerVars, free>>

\* prev->next.store(n): the item can be reached; the call's locals are gone.
PushLink(p) ==
    /\ pc[p] = "link"
    /\ next' = [next EXCEPT ![prev[p]] = node[p]]
    /\ pc' = [pc EXCEPT ![p] = "idle"]
    /\ node' = [node EXCEPT ![p] = stub]
    /\ prev' = [prev EXCEPT ![p] = stub]
    /\ UNCHANGED <<head, tail, consumerVars, free, chain, calm>>

Push(p) == PushClear(p) \/ PushSwap(p) \/ PushLink(p)

-----------------------------------------------------------------------------
(* dequeue: pop, by the one consumer *)

Linking == {p \in Producers : pc[p] = "link"}

\* The end of pop, with its locals.
Return == cpc' = "idle" /\ lt' = stub /\ cprev' = stub

\* pop returns nullptr; the destructor's loop ends on it.
ReturnNull ==
    /\ Return
    /\ phase' = IF phase = "drain" THEN "gone" ELSE phase
    /\ UNCHANGED <<tail, out, free, chain>>

\* Mutant of ReturnNode: the node that follows is returned.
ReturnNode_Next(n) ==
    /\ Return
    /\ tail' = next[n]
    /\ out' = next[n]
    /\ free' = free \cup {n}
    /\ chain' = Tail(chain)
    /\ UNCHANGED phase

\* tail = next; return n: the caller owns the item of n again.
ReturnNode(n) ==
    /\ Return
    /\ tail' = next[n]
    /\ out' = n
    /\ free' = free \cup {n}
    /\ chain' = Tail(chain)
    /\ UNCHANGED phase

PopCall ==
    /\ phase # "gone"
    /\ cpc = "idle"
    /\ cpc' = "load"
    /\ calm' = (Linking = {})
    /\ UNCHANGED <<queueVars, producerVars, lt, cprev, phase, out, free, chain>>

\* Load tail->next (line 292), skip the stub (294-301), or return (303-306).
PopLoad ==
    /\ cpc = "load"
    /\ \/ /\ tail = stub /\ next[stub] = NULL
          /\ ReturnNull
       \/ /\ tail = stub /\ next[stub] # NULL
          /\ lt' = next[stub] /\ tail' = next[stub]
          /\ chain' = Tail(chain)
          /\ cpc' = "reload"
          /\ UNCHANGED <<cprev, phase, out, free>>
       \/ /\ tail # stub /\ next[tail] # NULL
          /\ ReturnNode(tail)
       \/ /\ tail # stub /\ next[tail] = NULL
          /\ lt' = tail
          /\ cpc' = "head"
          /\ UNCHANGED <<tail, cprev, phase, out, free, chain>>
    /\ UNCHANGED <<head, next, producerVars, calm>>

\* Mutant of PopReload: the second load of next is not tested for nullptr.
PopReload_Unchecked ==
    /\ cpc = "reload"
    /\ ReturnNode(lt)
    /\ UNCHANGED <<head, next, producerVars, calm>>

\* Behind the stub: load the next of the node that follows it (line 300).
PopReload ==
    /\ cpc = "reload"
    /\ \/ /\ next[lt] # NULL
          /\ ReturnNode(lt)
       \/ /\ next[lt] = NULL
          /\ cpc' = "head"
          /\ UNCHANGED <<tail, lt, cprev, phase, out, free, chain>>
    /\ UNCHANGED <<head, next, producerVars, calm>>

\* Mutant of PopHead: the last node is left for a later push to link.
PopHead_NoStub ==
    /\ cpc = "head"
    /\ ReturnNull
    /\ UNCHANGED <<head, next, producerVars, calm>>

\* Load head: another node was pushed since, or local_tail is the last one.
PopHead ==
    /\ cpc = "head"
    /\ \/ /\ lt # head
          /\ ReturnNull
       \/ /\ lt = head
          /\ cpc' = "sclear"
          /\ UNCHANGED <<tail, lt, cprev, phase, out, free, chain>>
    /\ UNCHANGED <<head, next, producerVars, calm>>

\* push(&stub), in the steps a producer's push takes.
StubClear ==
    /\ cpc = "sclear"
    /\ next' = [next EXCEPT ![stub] = NULL]
    /\ cpc' = "sswap"
    /\ UNCHANGED <<head, tail, producerVars, lt, cprev, phase, out, free, chain, calm>>

StubSwap ==
    /\ cpc = "sswap"
    /\ cprev' = head
    /\ head' = stub
    /\ chain' = Append(chain, stub)
    /\ cpc' = "slink"
    /\ UNCHANGED <<tail, next, producerVars, lt, phase, out, free, calm>>

StubLink ==
    /\ cpc = "slink"
    /\ next' = [next EXCEPT ![cprev] = stub]
    /\ cpc' = "recheck"
    /\ UNCHANGED <<head, tail, producerVars, lt, cprev, phase, out, free, chain, calm>>

\* Mutant of PopRecheck: after push(&stub) local_tail is returned at once,
\* though another producer may have come between it and the stub.
PopRecheck_Unchecked ==
    /\ cpc = "recheck"
    /\ Return
    /\ tail' = IF next[lt] = NULL THEN stub ELSE next[lt]
    /\ out' = lt
    /\ free' = free \cup {lt}
    /\ chain' = Tail(chain)
    /\ UNCHANGED <<phase, head, next, producerVars, calm>>

\* Load local_tail->next again (line 318).
PopRecheck ==
    /\ cpc = "recheck"
    /\ \/ /\ next[lt] # NULL
          /\ ReturnNode(lt)
       \/ /\ next[lt] = NULL
          /\ ReturnNull
    /\ UNCHANGED <<head, next, producerVars, calm>>

Pop ==
    \/ PopCall \/ PopLoad \/ PopReload \/ PopHead
    \/ StubClear \/ StubSwap \/ StubLink \/ PopRecheck

\* The owner destroys the queue once no thread is inside it.
Destroy ==
    /\ phase = "live"
    /\ cpc = "idle"
    /\ \A p \in Producers : pc[p] = "idle"
    /\ phase' = "drain"
    /\ UNCHANGED <<queueVars, producerVars, cpc, lt, cprev, out, free, chain, calm>>

Next ==
    \/ \E p \in Producers : EnqCall(p) \/ Push(p)
    \/ Pop
    \/ Destroy

Spec == Init /\ [][Next]_vars

\* A push that began goes on, and the consumer keeps polling.
FairSpec ==
    /\ Spec
    /\ \A p \in Producers : WF_vars(Push(p))
    /\ WF_vars(Pop)

-----------------------------------------------------------------------------
(* Properties *)

\* The nodes of the chain that are items, oldest first.
Queued == RemoveFirst(chain, stub)

\* Following next from tail reaches head through every node in the order of the
\* exchanges, except where the thread that exchanged has not linked yet; that
\* thread still points at both ends of the gap.
Gap(m, n) ==
    \/ \E p \in Linking : prev[p] = m /\ node[p] = n
    \/ cpc = "slink" /\ cprev = m /\ n = stub

ChainIntact ==
    /\ chain[1] = tail
    /\ chain[Len(chain)] = head
    /\ next[head] = NULL
    /\ \A k \in 1..(Len(chain) - 1) :
         IF Gap(chain[k], chain[k + 1])
         THEN next[chain[k]] = NULL
         ELSE next[chain[k]] = chain[k + 1]

\* Nothing the queue will still read or write belongs to a caller: not the node
\* a stalled producer is about to link to, nor the one pop re-reads.
NoUseAfterFree ==
    /\ head \notin free /\ tail \notin free
    /\ \A p \in Linking : prev[p] \notin free
    /\ \A p \in Producers : pc[p] # "idle" => node[p] \notin free
    /\ cpc \in {"reload", "head", "sclear", "sswap", "slink", "recheck"} => lt \notin free
    /\ cpc = "slink" => cprev \notin free

\* dequeue returns nullptr with an item in the queue only if a push was between
\* its exchange and its link at some moment of the call.
NullMeansEmptyOrRacing ==
    [][cpc # "idle" /\ cpc' = "idle" /\ free' = free /\ calm => Queued = <<>>]_vars

\* Every item is always in one place, and after the destructor, which stops at
\* the first nullptr, none is in the queue (the queue owns them: none leaks).
NoItemLeaks ==
    /\ \A n \in Nodes :
         \/ n \in free /\ n \notin Range(chain)
         \/ n \notin free /\ n \in Range(chain)
         \/ \E p \in Producers : pc[p] \in {"clear", "swap"} /\ node[p] = n
    /\ phase = "gone" => Queued = <<>>

\* Every item whose push took its place is handed out, however the consumer's
\* polls fall between the steps of other pushes.
EveryItemDelivered ==
    \A n \in Nodes : (n \in Range(chain)) ~> (n \in free)

-----------------------------------------------------------------------------
(* Refinement of MpscChannel: the exchange claims a place, the link publishes. *)

Ready(n) == n = tail \/ \E m \in Range(chain) : next[m] = n

chanBar == [k \in 1..Len(Queued) |-> [item |-> Queued[k], ready |-> Ready(Queued[k])]]

Channel == INSTANCE MpscChannel WITH
    Items <- Nodes, Capacity <- Cardinality(Nodes), chan <- chanBar

ImplementsChannel == Channel!Spec
=============================================================================
