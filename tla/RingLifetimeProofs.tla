------------------------- MODULE RingLifetimeProofs -------------------------
(***************************************************************************)
(* Theorems about RingLifetime, for any objects, threads, quota of         *)
(* descriptors, number of rings and size of a thread's registration table. *)
(***************************************************************************)
EXTENDS RingLifetime, FiniteSetTheorems, TLAPS

-----------------------------------------------------------------------------
(* The inductive invariant *)

Parts == {"sq", "cq", "sqes"}

\* What h, the locals of create() or the members of object o, holds is of o's
\* ring: the descriptor names it and the mappings are its own and still there.
OfItsRing(o, h) ==
    /\ h.fd # NONE => files[h.fd] = ring[o]
    /\ \A part \in Parts : h[part] # NONE => h[part] = ring[o] /\ <<ring[o], part>> \in maps
    /\ h # Nothing => ring[o] # NONE

HoldOwn == \A o \in Objs : OfItsRing(o, local[o]) /\ OfItsRing(o, object[o])

\* No ring is set up for two objects.
RingsApart == \A o, p \in Objs : o # p /\ ring[o] # NONE => ring[p] # ring[o]

TmpIsFile == tmp_fd # NONE => files[tmp_fd] = FILE

\* The index an object keeps is that of its ring, in the table of its thread.
IndexIsOwn ==
    \A o \in Objs : registered_ring_fd[o] # NONE =>
        /\ ring[o] # NONE
        /\ registered_rings[Thread[o]][registered_ring_fd[o]] = ring[o]

\* Nothing is open, mapped or registered that no one holds.
FdsHeld ==
    \A f \in Fds : files[f] # NONE =>
        f = tmp_fd \/ \E o \in Objs : local[o].fd = f \/ object[o].fd = f
MapsHeld ==
    \A r \in Rings, part \in Parts : <<r, part>> \in maps =>
        \E o \in Objs : local[o][part] = r \/ object[o][part] = r
RegistrationsHeld ==
    \A t \in Threads, i \in Indices : registered_rings[t][i] # NONE =>
        \E o \in Objs : Thread[o] = t /\ registered_ring_fd[o] = i

\* What create() has acquired when it is done with its last mapping.
Complete(h) ==
    h.fd # NONE /\ h.sq # NONE /\ h.sqes # NONE /\ (h.cq # NONE \/ single_mmap)

\* What is held at each step of create() and of the destructor.
HeldAt(o) ==
    /\ pc[o] = "none" =>
          local[o] = Nothing /\ object[o] = Nothing /\ registered_ring_fd[o] = NONE
    /\ pc[o] \in {"sq", "cq", "sqes", "new"} =>
          local[o].fd # NONE /\ object[o] = Nothing /\ registered_ring_fd[o] = NONE
    /\ pc[o] \in {"cq", "sqes", "new"} => local[o].sq # NONE
    /\ pc[o] \in {"sqes", "new"} => local[o].cq # NONE \/ single_mmap
    /\ pc[o] = "new" => local[o].sqes # NONE
    /\ pc[o] = "register" => registered_ring_fd[o] = NONE
    /\ pc[o] \in {"register", "live", "unregister files", "unregister ring"} =>
          local[o] = Nothing /\ Complete(object[o])
    /\ pc[o] = "return" =>
          \/ object[o] = Nothing /\ registered_ring_fd[o] = NONE
          \/ local[o] = Nothing /\ Complete(object[o])
    /\ pc[o] = "members" => local[o] = Nothing /\ registered_ring_fd[o] = NONE

AllHeldAt == \A o \in Objs : HeldAt(o)

Ownership ==
    /\ HoldOwn /\ RingsApart /\ TmpIsFile /\ IndexIsOwn
    /\ FdsHeld /\ MapsHeld /\ RegistrationsHeld

IInv == TypeOK /\ Ownership /\ AllHeldAt

-----------------------------------------------------------------------------
(* Names and records *)

\* NONE and FILE are neither descriptors nor rings.
LEMMA Names ==
    /\ NONE \notin Fds /\ NONE \notin Rings /\ NONE \notin Indices
    /\ FILE \notin Rings /\ FILE # NONE
<1>1. Indices \subseteq Nat
  BY NumbersAssumption DEF Indices
<1>2. NONE \notin Nat /\ FILE \notin Nat /\ FILE # NONE
  BY NamesAssumption
<1> QED
  BY <1>1, <1>2, NumbersAssumption

\* What can be held, field by field.
LEMMA HoldingFields ==
    ASSUME NEW h \in Holding
    PROVE  /\ h.fd \in Fds \cup {NONE}
           /\ \A part \in Parts : h[part] \in Rings \cup {NONE}
           /\ h["sq"] = h.sq /\ h["cq"] = h.cq /\ h["sqes"] = h.sqes
           /\ h = Nothing <=> h.fd = NONE /\ \A part \in Parts : h[part] = NONE
BY DEF Holding, Nothing, Parts

\* Nothing holds nothing.
LEMMA NothingHolds ==
    /\ Nothing \in Holding /\ Nothing.fd = NONE
    /\ \A part \in Parts : Nothing[part] = NONE
BY DEF Nothing, Holding, Parts

\* The empty start.
LEMMA InitInv == Init => IInv
<1> SUFFICES ASSUME Init PROVE IInv
  OBVIOUS
<1> USE DEF Init
<1>1. TypeOK
  BY NothingHolds DEF TypeOK
<1>2. Ownership
  BY NothingHolds
  DEF Ownership, HoldOwn, OfItsRing, RingsApart, TmpIsFile, IndexIsOwn, FdsHeld,
      MapsHeld, RegistrationsHeld
<1>3. AllHeldAt
  BY DEF AllHeldAt, HeldAt
<1> QED
  BY <1>1, <1>2, <1>3 DEF IInv

-----------------------------------------------------------------------------
(* Consequences of the invariant that several steps use *)

\* What is held, and the rings behind it, have their types.
LEMMA HeldTypes ==
    ASSUME TypeOK, NEW o \in Objs
    PROVE  /\ local[o] \in Holding /\ object[o] \in Holding
           /\ ring[o] \in Rings \cup {NONE}
           /\ registered_ring_fd[o] \in Indices \cup {NONE}
           /\ Thread[o] \in Threads
BY DEF TypeOK, Threads

\* Two objects do not hold one descriptor, nor does an object hold the file's.
LEMMA FdsApart ==
    ASSUME TypeOK, HoldOwn, RingsApart, TmpIsFile, NEW o \in Objs, NEW f \in Fds,
           local[o].fd = f \/ object[o].fd = f
    PROVE  /\ ring[o] # NONE /\ files[f] = ring[o] /\ f # tmp_fd
           /\ \A p \in Objs \ {o} : local[p].fd # f /\ object[p].fd # f
<1>1. \A p \in Objs : local[p].fd = f \/ object[p].fd = f =>
          files[f] = ring[p] /\ ring[p] # NONE
  <2> SUFFICES ASSUME NEW p \in Objs, NEW h \in {local[p], object[p]}, h.fd = f
               PROVE  files[f] = ring[p] /\ ring[p] # NONE
    OBVIOUS
  <2>1. h \in Holding /\ OfItsRing(p, h) /\ h.fd # NONE
    BY HeldTypes, Names DEF HoldOwn
  <2>2. h # Nothing
    BY <2>1, HoldingFields
  <2> QED
    BY <2>1, <2>2 DEF OfItsRing
<1>2. files[f] = ring[o] /\ ring[o] # NONE
  BY <1>1
<1>3. f # tmp_fd
  BY <1>2, HeldTypes, Names DEF TmpIsFile
<1>4. \A p \in Objs \ {o} : local[p].fd # f /\ object[p].fd # f
  BY <1>1, <1>2 DEF RingsApart
<1> QED
  BY <1>2, <1>3, <1>4

\* A mapping of o's ring is held by o.
LEMMA OwnMapping ==
    ASSUME TypeOK, HoldOwn, RingsApart, MapsHeld, NEW o \in Objs, ring[o] # NONE,
           NEW part \in Parts, <<ring[o], part>> \in maps
    PROVE  local[o][part] = ring[o] \/ object[o][part] = ring[o]
<1>1. ring[o] \in Rings
  BY HeldTypes
<1>2. PICK p \in Objs : local[p][part] = ring[o] \/ object[p][part] = ring[o]
  BY <1>1 DEF MapsHeld
<1>3. ring[p] = ring[o]
  BY <1>2 DEF HoldOwn, OfItsRing
<1> QED
  BY <1>2, <1>3 DEF RingsApart

\* Ownership is about the tables and what each object holds: not about program
\* counters, nor about whether locals or members hold it.
LEMMA OwnershipFrame ==
    ASSUME Ownership,
           \A o \in Objs : {local'[o], object'[o]} = {local[o], object[o]},
           UNCHANGED <<files, maps, registered_rings, registered_ring_fd, tmp_fd, ring>>
    PROVE  Ownership'
<1> USE DEF Ownership
<1>1. HoldOwn'
  <2> SUFFICES ASSUME NEW o \in Objs, NEW h \in {local'[o], object'[o]}
               PROVE  OfItsRing(o, h)'
    BY DEF HoldOwn
  <2>1. OfItsRing(o, h)
    BY DEF HoldOwn
  <2> QED
    BY <2>1 DEF OfItsRing
<1>2. FdsHeld'
  BY DEF FdsHeld
<1>3. MapsHeld'
  BY DEF MapsHeld
<1>4. RingsApart' /\ TmpIsFile' /\ IndexIsOwn' /\ RegistrationsHeld'
  BY DEF RingsApart, TmpIsFile, IndexIsOwn, RegistrationsHeld
<1> QED
  BY <1>1, <1>2, <1>3, <1>4

\* What is held by other objects does not depend on this one's program counter.
LEMMA OthersHeldAt ==
    ASSUME AllHeldAt, NEW o \in Objs, UNCHANGED single_mmap,
           \A p \in Objs \ {o} :
               /\ pc'[p] = pc[p] /\ local'[p] = local[p] /\ object'[p] = object[p]
               /\ registered_ring_fd'[p] = registered_ring_fd[p],
           HeldAt(o)'
    PROVE  AllHeldAt'
<1> SUFFICES ASSUME NEW p \in Objs \ {o} PROVE HeldAt(p)'
  BY DEF AllHeldAt
<1>1. HeldAt(p)
  BY DEF AllHeldAt
<1> QED
  BY <1>1 DEF HeldAt, Complete

-----------------------------------------------------------------------------
(* create() *)

\* The new ring gets a descriptor no one holds, and no other object has it.
LEMMA SetupInv ==
    ASSUME IInv, NEW o \in Objs, Setup(o) PROVE IInv'
<1> USE DEF Setup, IoUringSetup
<1>1. TypeOK /\ Ownership /\ AllHeldAt
  BY DEF IInv
<1>2. PICK f \in Fds, r \in Rings :
        /\ files[f] = NONE /\ Gone(r)
        /\ files' = [files EXCEPT ![f] = r]
        /\ resources' = [resources EXCEPT ![r] = {}]
        /\ local' = [local EXCEPT ![o] = [Nothing EXCEPT !.fd = f]]
        /\ ring' = [ring EXCEPT ![o] = r]
  BY DEF IsLowest
<1> DEFINE h == [Nothing EXCEPT !.fd = f]
<1>3. /\ h \in Holding /\ h.fd = f /\ h # Nothing
      /\ \A part \in Parts : h[part] = NONE
  BY Names DEF Nothing, Holding, Parts
<1> HIDE DEF h
<1>4. local' = [local EXCEPT ![o] = h]
  BY <1>2 DEF h
<1>5. TypeOK'
  <2>1. local' \in [Objs -> Holding] /\ ring' \in [Objs -> Rings \cup {NONE}]
    <3> HIDE DEF Setup, IoUringSetup
    <3>1. local' \in [Objs -> Holding]
      BY <1>1, <1>3, <1>4 DEF TypeOK
    <3>2. ring' \in [Objs -> Rings \cup {NONE}]
      BY <1>1, <1>2 DEF TypeOK
    <3> QED
      BY <3>1, <3>2
  <2>2. /\ files' \in [Fds -> Rings \cup {FILE, NONE}]
        /\ resources' \in [Rings -> SUBSET {"files", "buffers"}]
    BY <1>1, <1>2 DEF TypeOK
  <2> QED
    BY <1>1, <2>1, <2>2 DEF TypeOK
<1>6. /\ \A p \in Objs : local'[p] = IF p = o THEN h ELSE local[p]
      /\ \A p \in Objs : ring'[p] = IF p = o THEN r ELSE ring[p]
      /\ \A g \in Fds : files'[g] = IF g = f THEN r ELSE files[g]
      /\ pc'[o] = "sq" /\ \A p \in Objs \ {o} : pc'[p] = pc[p]
      /\ UNCHANGED <<maps, registered_rings, object, registered_ring_fd, tmp_fd>>
  BY <1>1, <1>2, <1>4 DEF TypeOK
<1>7. object[o] = Nothing /\ registered_ring_fd[o] = NONE
  BY <1>1 DEF AllHeldAt, HeldAt
<1>8. r # NONE /\ f # NONE /\ r # FILE /\ \A p \in Objs : ring[p] # r
  BY <1>2, Names DEF Gone
<1>9. HoldOwn'
  <2> SUFFICES ASSUME NEW p \in Objs, NEW g \in {local'[p], object'[p]}
               PROVE  OfItsRing(p, g)'
    BY DEF HoldOwn
  <2>1. CASE p = o
    BY <1>3, <1>6, <1>7, <1>8, <2>1, NothingHolds DEF OfItsRing
  <2>2. CASE p # o
    <3>1. OfItsRing(p, g) /\ g \in Holding
      BY <1>1, <1>6, <2>2, HeldTypes DEF Ownership, HoldOwn
    <3>2. g.fd # f
      <4>1. g # Nothing => ring[p] # NONE
        BY <3>1 DEF OfItsRing
      <4> QED
        BY <1>2, <1>8, <3>1, <4>1, HoldingFields DEF OfItsRing
    <3>3. g.fd # NONE => files'[g.fd] = files[g.fd]
      BY <1>6, <3>1, <3>2, HoldingFields
    <3> QED
      BY <1>6, <2>2, <3>1, <3>3 DEF OfItsRing
  <2> QED
    BY <2>1, <2>2
<1>10. RingsApart'
  BY <1>1, <1>6, <1>8 DEF RingsApart, Ownership
<1>11. TmpIsFile'
  <2> HIDE DEF Setup, IoUringSetup
  <2>1. tmp_fd # NONE => tmp_fd \in Fds /\ files[tmp_fd] = FILE
    BY <1>1 DEF TmpIsFile, Ownership, TypeOK
  <2>2. tmp_fd # NONE => tmp_fd # f
    BY <1>2, <2>1, Names
  <2> QED
    BY <1>6, <2>1, <2>2 DEF TmpIsFile
<1>12. IndexIsOwn'
  BY <1>1, <1>6, <1>7 DEF IndexIsOwn, Ownership
<1>13. FdsHeld'
  <2> SUFFICES ASSUME NEW g \in Fds, files'[g] # NONE
               PROVE  g = tmp_fd' \/ \E p \in Objs : local'[p].fd = g \/ object'[p].fd = g
    BY DEF FdsHeld
  <2>1. CASE g = f
    BY <1>3, <1>6, <2>1
  <2>2. CASE g # f
    <3>1. local[o] = Nothing
      BY <1>1 DEF AllHeldAt, HeldAt
    <3>2. g = tmp_fd \/ \E p \in Objs : local[p].fd = g \/ object[p].fd = g
      BY <1>1, <1>6, <2>2 DEF Ownership, FdsHeld
    <3> QED
      BY <1>6, <3>1, <3>2, NothingHolds, Names
  <2> QED
    BY <2>1, <2>2
<1>14. MapsHeld'
  <2>1. local[o] = Nothing
    BY <1>1 DEF AllHeldAt, HeldAt
  <2> QED
    BY <1>1, <1>6, <2>1, NothingHolds, Names DEF MapsHeld, Ownership
<1>15. RegistrationsHeld'
  BY <1>1, <1>6 DEF RegistrationsHeld, Ownership
<1>16. AllHeldAt'
  <2>1. HeldAt(o)'
    BY <1>3, <1>6, <1>7, <1>8 DEF HeldAt
  <2> QED
    BY <1>1, <1>6, <2>1, OthersHeldAt
<1> QED
  BY <1>5, <1>9, <1>10, <1>11, <1>12, <1>13, <1>14, <1>15, <1>16 DEF IInv, Ownership

\* A mapping is that of the object's own ring, and its local holds it.
LEMMA MapInv ==
    ASSUME IInv, NEW o \in Objs, NEW part \in Parts, NEW next,
           Map(o, part, next), HeldAt(o)',
           pc[o] \in {"sq", "cq", "sqes", "new"},
           next \in {"cq", "sqes", "new"}
    PROVE  IInv'
<1> USE DEF Map, Mapping
<1>1. TypeOK /\ Ownership /\ AllHeldAt
  BY DEF IInv
<1>2. PICK r \in Rings : r = ring[o] /\ r = files[local[o].fd]
  <2>1. local[o].fd # NONE /\ local[o] \in Holding /\ OfItsRing(o, local[o])
    BY <1>1, HeldTypes DEF AllHeldAt, HeldAt, Ownership, HoldOwn
  <2>2. local[o] # Nothing
    BY <2>1, HoldingFields
  <2> QED
    BY <1>1, <2>1, <2>2, HeldTypes DEF OfItsRing
<1> DEFINE h == [local[o] EXCEPT ![part] = r]
<1>3. /\ h \in Holding /\ h.fd = local[o].fd /\ h[part] = r
      /\ \A q \in Parts : h[q] = IF q = part THEN r ELSE local[o][q]
  BY <1>1, HeldTypes DEF Holding, Parts
<1>4. local' = [local EXCEPT ![o] = h] /\ maps' = maps \cup {<<r, part>>}
  BY <1>1, <1>2 DEF TypeOK
<1> HIDE DEF h
<1>5. TypeOK'
  <2>1. local' \in [Objs -> Holding]
    BY <1>1, <1>3, <1>4 DEF TypeOK
  <2>2. maps' \subseteq Rings \X {"sq", "cq", "sqes"}
    <3>1. <<r, part>> \in Rings \X {"sq", "cq", "sqes"}
      BY DEF Parts
    <3> QED
      BY <1>1, <1>4, <3>1 DEF TypeOK
  <2>3. pc' \in [Objs -> {"none", "sq", "cq", "sqes", "new", "register", "return", "live",
                          "unregister files", "unregister ring", "members"}]
    BY <1>1 DEF TypeOK
  <2> QED
    BY <1>1, <2>1, <2>2, <2>3 DEF TypeOK
<1>6. /\ \A p \in Objs : local'[p] = IF p = o THEN h ELSE local[p]
      /\ \A p \in Objs \ {o} : pc'[p] = pc[p]
      /\ UNCHANGED <<files, registered_rings, object, registered_ring_fd, tmp_fd, ring>>
  BY <1>1, <1>4 DEF TypeOK
<1>7. HoldOwn'
  <2> SUFFICES ASSUME NEW p \in Objs, NEW g \in {local'[p], object'[p]}
               PROVE  OfItsRing(p, g)'
    BY DEF HoldOwn
  <2>1. CASE p = o /\ g = h
    <3>1. OfItsRing(o, local[o]) /\ ring[o] # NONE
      BY <1>1, <1>2, Names DEF Ownership, HoldOwn
    <3> QED
      BY <1>2, <1>3, <1>4, <1>6, <2>1, <3>1 DEF OfItsRing
  <2>2. CASE ~(p = o /\ g = h)
    <3>1. OfItsRing(p, g)
      BY <1>1, <1>6, <2>2 DEF Ownership, HoldOwn
    <3> QED
      BY <1>4, <1>6, <3>1 DEF OfItsRing
  <2> QED
    BY <2>1, <2>2
<1>8. RingsApart' /\ TmpIsFile' /\ IndexIsOwn' /\ RegistrationsHeld'
  BY <1>1, <1>6 DEF Ownership, RingsApart, TmpIsFile, IndexIsOwn, RegistrationsHeld
<1>9. FdsHeld'
  BY <1>1, <1>3, <1>6 DEF Ownership, FdsHeld
<1>10. MapsHeld'
  <2> SUFFICES ASSUME NEW s \in Rings, NEW q \in Parts, <<s, q>> \in maps'
               PROVE  \E p \in Objs : local'[p][q] = s \/ object'[p][q] = s
    BY DEF MapsHeld
  <2>1. CASE <<s, q>> = <<r, part>>
    <3>1. s = r /\ q = part
      BY <2>1
    <3>2. local'[o][q] = s \/ object'[o][q] = s
      BY <1>3, <1>6, <3>1
    <3> QED
      BY <3>2
  <2>2. CASE <<s, q>> # <<r, part>>
    <3>1. PICK p \in Objs : local[p][q] = s \/ object[p][q] = s
      BY <1>1, <1>4, <2>2 DEF Ownership, MapsHeld
    <3>2. CASE p = o /\ q = part /\ local[o][q] = s
      <4>1. s = r
        BY <1>1, <1>2, <3>2, Names DEF Ownership, HoldOwn, OfItsRing
      <4> QED
        BY <2>2, <3>2, <4>1
    <3>3. CASE ~(p = o /\ q = part /\ local[o][q] = s)
      BY <1>3, <1>6, <3>1, <3>3
    <3> QED
      BY <3>2, <3>3
  <2> QED
    BY <2>1, <2>2
<1>11. AllHeldAt'
  BY <1>1, <1>6, OthersHeldAt
<1> QED
  BY <1>5, <1>7, <1>8, <1>9, <1>10, <1>11 DEF IInv, Ownership

\* The move changes who holds, not what is held.
LEMMA NewInv ==
    ASSUME IInv, NEW o \in Objs, New(o) PROVE IInv'
<1> USE DEF New, kernelVars
<1>1. TypeOK /\ Ownership /\ AllHeldAt
  BY DEF IInv
<1>2. object[o] = Nothing /\ Complete(local[o]) /\ registered_ring_fd[o] = NONE
  BY <1>1 DEF AllHeldAt, HeldAt, Complete
<1>3. TypeOK'
  BY <1>1, NothingHolds, HeldTypes DEF TypeOK, MovedFrom
<1>4. /\ local'[o] = Nothing /\ object'[o] = local[o] /\ pc'[o] = "register"
      /\ \A p \in Objs \ {o} :
            local'[p] = local[p] /\ object'[p] = object[p] /\ pc'[p] = pc[p]
  BY <1>1 DEF TypeOK, MovedFrom
<1>5. Ownership'
  BY <1>1, <1>2, <1>4, OwnershipFrame
<1>6. HeldAt(o)'
  BY <1>2, <1>4 DEF HeldAt, Complete
<1>7. AllHeldAt'
  BY <1>1, <1>4, <1>6, OthersHeldAt
<1> QED
  BY <1>3, <1>5, <1>7 DEF IInv

\* Steps that neither acquire nor give anything back.
LEMMA PcInv ==
    ASSUME IInv, NEW o \in Objs, NEW b, pc' = [pc EXCEPT ![o] = b],
           UNCHANGED <<single_mmap, files, maps, registered_rings, local, object,
                       registered_ring_fd, tmp_fd, ring>>,
           \/ pc[o] \in {"sq", "cq", "sqes", "new", "register"} /\ b = "return"
           \/ pc[o] = "return" /\ local[o] = Nothing /\ object[o] # Nothing /\ b = "live"
           \/ pc[o] = "live" /\ b = "unregister files"
           \/ pc[o] = "unregister files" /\ b = "unregister ring",
           resources' \in [Rings -> SUBSET {"files", "buffers"}]
    PROVE  IInv'
<1>1. TypeOK /\ Ownership /\ AllHeldAt /\ HeldAt(o)
  BY DEF IInv, AllHeldAt
<1>2. TypeOK'
  BY <1>1 DEF TypeOK
<1>3. Ownership'
  BY <1>1, OwnershipFrame
<1>4. pc'[o] = b /\ \A p \in Objs \ {o} : pc'[p] = pc[p]
  BY <1>1 DEF TypeOK
<1>5. HeldAt(o)'
  BY <1>1, <1>4 DEF HeldAt, Complete
<1>6. AllHeldAt'
  BY <1>1, <1>4, <1>5, OthersHeldAt
<1> QED
  BY <1>2, <1>3, <1>6 DEF IInv

\* What the unused part of a ring's record may be changed to.
LEMMA ResourcesType ==
    ASSUME TypeOK, NEW r, NEW S \in SUBSET {"files", "buffers"}
    PROVE  /\ [resources EXCEPT ![r] = @ \cup S] \in [Rings -> SUBSET {"files", "buffers"}]
           /\ [resources EXCEPT ![r] = @ \ S] \in [Rings -> SUBSET {"files", "buffers"}]
BY DEF TypeOK

\* The kernel registers the ring the members' descriptor names, at a free index.
LEMMA RegisterRingInv ==
    ASSUME IInv, NEW o \in Objs, RegisterRing(o) PROVE IInv'
<1> USE DEF RegisterRing
<1>1. TypeOK /\ Ownership /\ AllHeldAt /\ HeldAt(o) /\ pc[o] = "register"
  BY DEF IInv, AllHeldAt
<1>2. PICK i \in Indices :
        /\ registered_rings[Thread[o]][i] = NONE
        /\ registered_rings' = [registered_rings EXCEPT ![Thread[o]][i] = files[object[o].fd]]
        /\ registered_ring_fd' = [registered_ring_fd EXCEPT ![o] = i]
  BY DEF IsLowest
<1>3. PICK r \in Rings : r = files[object[o].fd] /\ r = ring[o]
  <2>1. object[o].fd # NONE /\ object[o] \in Holding /\ OfItsRing(o, object[o])
    BY <1>1, HeldTypes DEF HeldAt, Complete, Ownership, HoldOwn
  <2>2. object[o] # Nothing
    BY <2>1, HoldingFields
  <2> QED
    BY <1>1, <2>1, <2>2, HeldTypes DEF OfItsRing
<1>4. Thread[o] \in Threads
  BY DEF Threads
<1>5. /\ \A p \in Objs : registered_ring_fd'[p] = IF p = o THEN i ELSE registered_ring_fd[p]
      /\ \A t \in Threads, j \in Indices : registered_rings'[t][j] =
            IF t = Thread[o] /\ j = i THEN r ELSE registered_rings[t][j]
      /\ pc'[o] = "return" /\ \A p \in Objs \ {o} : pc'[p] = pc[p]
  <2>1. registered_rings \in [Threads -> [Indices -> Rings \cup {NONE}]]
    BY <1>1 DEF TypeOK
  <2>2. registered_rings' = [registered_rings EXCEPT ![Thread[o]][i] = r]
    BY <1>2, <1>3
  <2> HIDE DEF RegisterRing
  <2>3. \A t \in Threads, j \in Indices : registered_rings'[t][j] =
            IF t = Thread[o] /\ j = i THEN r ELSE registered_rings[t][j]
    BY <1>4, <2>1, <2>2
  <2>4. \A p \in Objs : registered_ring_fd'[p] = IF p = o THEN i ELSE registered_ring_fd[p]
    BY <1>1, <1>2 DEF TypeOK
  <2>5. pc'[o] = "return" /\ \A p \in Objs \ {o} : pc'[p] = pc[p]
    BY <1>1 DEF TypeOK, RegisterRing
  <2> QED
    BY <2>3, <2>4, <2>5
<1>6. TypeOK'
  <2>1. registered_rings' \in [Threads -> [Indices -> Rings \cup {NONE}]]
    <3>1. registered_rings \in [Threads -> [Indices -> Rings \cup {NONE}]]
      BY <1>1 DEF TypeOK
    <3> QED
      BY <1>2, <1>3, <1>4, <3>1
  <2>2. registered_ring_fd' \in [Objs -> Indices \cup {NONE}]
    BY <1>1, <1>2 DEF TypeOK
  <2> QED
    BY <1>1, <2>1, <2>2 DEF TypeOK
<1>7. HoldOwn' /\ RingsApart' /\ TmpIsFile' /\ FdsHeld' /\ MapsHeld'
  BY <1>1 DEF Ownership, HoldOwn, OfItsRing, RingsApart, TmpIsFile, FdsHeld, MapsHeld
<1>8. IndexIsOwn'
  <2> SUFFICES ASSUME NEW p \in Objs, registered_ring_fd'[p] # NONE
               PROVE  /\ ring[p] # NONE
                      /\ registered_rings'[Thread[p]][registered_ring_fd'[p]] = ring[p]
    BY DEF IndexIsOwn
  <2>1. CASE p = o
    BY <1>3, <1>4, <1>5, <2>1, Names
  <2>2. CASE p # o
    BY <1>1, <1>2, <1>5, <2>2, HeldTypes, Names DEF Ownership, IndexIsOwn
  <2> QED
    BY <2>1, <2>2
<1>9. RegistrationsHeld'
  <2> SUFFICES ASSUME NEW t \in Threads, NEW j \in Indices, registered_rings'[t][j] # NONE
               PROVE  \E p \in Objs : Thread[p] = t /\ registered_ring_fd'[p] = j
    BY DEF RegistrationsHeld
  <2>1. CASE t = Thread[o] /\ j = i
    BY <1>5, <2>1
  <2>2. CASE ~(t = Thread[o] /\ j = i)
    <3>1. PICK p \in Objs : Thread[p] = t /\ registered_ring_fd[p] = j
      BY <1>1, <1>5, <2>2 DEF Ownership, RegistrationsHeld
    <3>2. p # o
      BY <1>1, <3>1, Names DEF HeldAt
    <3> QED
      BY <1>5, <3>1, <3>2
  <2> QED
    BY <2>1, <2>2
<1>10. HeldAt(o)'
  BY <1>1, <1>5 DEF HeldAt, Complete
<1>11. AllHeldAt'
  BY <1>1, <1>5, <1>10, OthersHeldAt
<1> QED
  BY <1>6, <1>7, <1>8, <1>9, <1>11 DEF IInv, Ownership

-----------------------------------------------------------------------------
(* Giving back *)

\* The destructor of one owner: a mapping goes, or at last the descriptor.
LEMMA ReleaseCases ==
    ASSUME NEW h \in Holding, h # Nothing, Release(h)
    PROVE  \/ \E part \in Parts :
                /\ h[part] # NONE
                /\ maps' = maps \ {<<h[part], part>>} /\ files' = files
                /\ Released(h) = [h EXCEPT ![part] = NONE]
           \/ /\ h.fd # NONE /\ \A part \in Parts : h[part] = NONE
              /\ files' = [files EXCEPT ![h.fd] = NONE] /\ maps' = maps
              /\ Released(h) = Nothing
<1>1. CASE h.sqes # NONE
  <2>1. h["sqes"] # NONE /\ "sqes" \in Parts
    BY <1>1, HoldingFields DEF Parts
  <2> QED
    BY <1>1, <2>1, HoldingFields DEF Release, Released, Unmap, Holding
<1>2. CASE h.sqes = NONE /\ h.cq # NONE
  <2>1. h["cq"] # NONE /\ "cq" \in Parts
    BY <1>2, HoldingFields DEF Parts
  <2> QED
    BY <1>2, <2>1, HoldingFields DEF Release, Released, Unmap, Holding
<1>3. CASE h.sqes = NONE /\ h.cq = NONE /\ h.sq # NONE
  <2>1. h["sq"] # NONE /\ "sq" \in Parts
    BY <1>3, HoldingFields DEF Parts
  <2> QED
    BY <1>3, <2>1, HoldingFields DEF Release, Released, Unmap, Holding
<1>4. CASE h.sqes = NONE /\ h.cq = NONE /\ h.sq = NONE
  <2>1. \A part \in Parts : h[part] = NONE
    BY <1>4, HoldingFields DEF Parts
  <2>2. h.fd # NONE
    BY <2>1, HoldingFields
  <2> QED
    BY <1>4, <2>1, <2>2 DEF Release, Released, Close
<1> QED
  BY <1>1, <1>2, <1>3, <1>4

\* One owner gives back what it held and nothing else changes: what is held is
\* still there, and nothing that is gone is held.
LEMMA ReleaseOwnership ==
    ASSUME TypeOK, Ownership, NEW o \in Objs, NEW h \in Holding, h # Nothing, Release(h),
           {local[o], object[o]} = {h, Nothing},
           {local'[o], object'[o]} = {Released(h), Nothing},
           \A p \in Objs \ {o} : local'[p] = local[p] /\ object'[p] = object[p],
           UNCHANGED <<registered_rings, registered_ring_fd, tmp_fd, ring>>
    PROVE  /\ Ownership' /\ Released(h) \in Holding
           /\ files' \in [Fds -> Rings \cup {FILE, NONE}]
           /\ maps' \subseteq Rings \X {"sq", "cq", "sqes"}
<1> USE DEF Ownership
<1> DEFINE g == Released(h)
<1>1. OfItsRing(o, h) /\ ring[o] # NONE
  BY DEF HoldOwn, OfItsRing
<1>2. RingsApart' /\ IndexIsOwn' /\ RegistrationsHeld'
  BY DEF RingsApart, IndexIsOwn, RegistrationsHeld
<1>3. \A p \in Objs \ {o} : ring[p] # ring[o]
  BY <1>1 DEF RingsApart
<1>4. ASSUME NEW part \in Parts, h[part] # NONE,
             maps' = maps \ {<<h[part], part>>}, files' = files,
             g = [h EXCEPT ![part] = NONE]
      PROVE  HoldOwn' /\ FdsHeld' /\ MapsHeld' /\ TmpIsFile' /\ g \in Holding
  <2>1. /\ g \in Holding /\ g.fd = h.fd
        /\ \A q \in Parts : g[q] = IF q = part THEN NONE ELSE h[q]
    BY <1>4 DEF Holding, Parts
  <2> HIDE DEF g
  <2>2. h[part] = ring[o]
    BY <1>1, <1>4 DEF OfItsRing
  <2>3. HoldOwn'
    <3> SUFFICES ASSUME NEW p \in Objs, NEW x \in {local'[p], object'[p]}
                 PROVE  OfItsRing(p, x)'
      BY DEF HoldOwn
    <3>1. CASE p = o /\ x = g
      BY <1>1, <1>4, <2>1, <2>2, <3>1 DEF OfItsRing
    <3>2. CASE p = o /\ x = Nothing
      BY <3>2, NothingHolds DEF OfItsRing
    <3>3. CASE p # o
      <4>1. OfItsRing(p, x)
        BY <3>3 DEF HoldOwn
      <4> QED
        BY <1>3, <1>4, <2>2, <3>3, <4>1 DEF OfItsRing
    <3> QED
      BY <3>1, <3>2, <3>3 DEF g
  <2>4. FdsHeld'
    <3> SUFFICES ASSUME NEW f \in Fds, files'[f] # NONE, f # tmp_fd'
                 PROVE  \E p \in Objs : local'[p].fd = f \/ object'[p].fd = f
      BY DEF FdsHeld
    <3>1. PICK p \in Objs : local[p].fd = f \/ object[p].fd = f
      BY <1>4 DEF FdsHeld
    <3>2. CASE p = o
      <4>1. h.fd = f
        BY <3>1, <3>2, NothingHolds, Names
      <4> QED
        BY <2>1, <4>1 DEF g
    <3>3. CASE p # o
      BY <3>1, <3>3
    <3> QED
      BY <3>2, <3>3
  <2>5. MapsHeld'
    <3> SUFFICES ASSUME NEW s \in Rings, NEW q \in Parts, <<s, q>> \in maps'
                 PROVE  \E p \in Objs : local'[p][q] = s \/ object'[p][q] = s
      BY DEF MapsHeld
    <3>1. PICK p \in Objs : local[p][q] = s \/ object[p][q] = s
      BY <1>4 DEF MapsHeld
    <3>2. CASE p = o
      <4>1. h[q] = s
        BY <3>1, <3>2, NothingHolds, Names
      <4>2. q # part
        BY <1>4, <4>1
      <4> QED
        BY <2>1, <4>1, <4>2 DEF g
    <3>3. CASE p # o
      BY <3>1, <3>3
    <3> QED
      BY <3>2, <3>3
  <2> QED
    BY <1>4, <2>1, <2>3, <2>4, <2>5 DEF TmpIsFile
<1>5. ASSUME h.fd # NONE, \A part \in Parts : h[part] = NONE,
             files' = [files EXCEPT ![h.fd] = NONE], maps' = maps, g = Nothing
      PROVE  HoldOwn' /\ FdsHeld' /\ MapsHeld' /\ TmpIsFile'
  <2> HIDE DEF g
  <2>1. PICK f \in Fds : f = h.fd
    BY <1>5, HoldingFields
  <2>2. \A e \in Fds : files'[e] = IF e = f THEN NONE ELSE files[e]
    BY <1>5, <2>1 DEF TypeOK
  <2>3. f # tmp_fd /\ \A p \in Objs \ {o} : local[p].fd # f /\ object[p].fd # f
    BY <2>1, FdsApart
  <2>4. HoldOwn'
    <3> SUFFICES ASSUME NEW p \in Objs, NEW x \in {local'[p], object'[p]}
                 PROVE  OfItsRing(p, x)'
      BY DEF HoldOwn
    <3>1. CASE p = o
      BY <1>5, <3>1, NothingHolds DEF OfItsRing, g
    <3>2. CASE p # o
      <4>1. OfItsRing(p, x) /\ x \in Holding /\ x.fd # f
        BY <2>3, <3>2, HeldTypes DEF HoldOwn
      <4>2. x.fd # NONE => files'[x.fd] = files[x.fd]
        BY <2>2, <4>1, HoldingFields
      <4> QED
        BY <1>5, <3>2, <4>1, <4>2 DEF OfItsRing
    <3> QED
      BY <3>1, <3>2
  <2>5. FdsHeld'
    <3> SUFFICES ASSUME NEW e \in Fds, files'[e] # NONE, e # tmp_fd'
                 PROVE  \E p \in Objs : local'[p].fd = e \/ object'[p].fd = e
      BY DEF FdsHeld
    <3>1. e # f /\ files[e] # NONE
      BY <2>2
    <3>2. PICK p \in Objs : local[p].fd = e \/ object[p].fd = e
      BY <3>1 DEF FdsHeld
    <3>3. p # o
      BY <2>1, <3>1, <3>2, NothingHolds, Names
    <3> QED
      BY <3>2, <3>3
  <2>6. MapsHeld'
    <3> SUFFICES ASSUME NEW s \in Rings, NEW q \in Parts, <<s, q>> \in maps'
                 PROVE  \E p \in Objs : local'[p][q] = s \/ object'[p][q] = s
      BY DEF MapsHeld
    <3>1. PICK p \in Objs : local[p][q] = s \/ object[p][q] = s
      BY <1>5 DEF MapsHeld
    <3>2. p # o
      BY <1>5, <3>1, NothingHolds, Names
    <3> QED
      BY <3>1, <3>2
  <2>7. TmpIsFile'
    <3>1. tmp_fd \in Fds \cup {NONE}
      BY DEF TypeOK
    <3> QED
      BY <2>2, <2>3, <3>1 DEF TmpIsFile
  <2> QED
    BY <2>4, <2>5, <2>6, <2>7
<1>6. /\ HoldOwn' /\ FdsHeld' /\ MapsHeld' /\ TmpIsFile' /\ g \in Holding
      /\ files' \in [Fds -> Rings \cup {FILE, NONE}]
      /\ maps' \subseteq Rings \X {"sq", "cq", "sqes"}
  <2> HIDE DEF Ownership
  <2>1. CASE \E part \in Parts :
                /\ h[part] # NONE
                /\ maps' = maps \ {<<h[part], part>>} /\ files' = files
                /\ g = [h EXCEPT ![part] = NONE]
    <3> HIDE DEF g
    <3> QED
      BY <1>4, <2>1 DEF TypeOK
  <2>2. CASE /\ h.fd # NONE /\ \A part \in Parts : h[part] = NONE
             /\ files' = [files EXCEPT ![h.fd] = NONE] /\ maps' = maps
             /\ g = Nothing
    <3> HIDE DEF g
    <3> QED
      BY <1>5, <2>2, NothingHolds DEF TypeOK
  <2> QED
    BY <2>1, <2>2, ReleaseCases
<1> QED
  BY <1>2, <1>6

\* The locals of a create() that fails give back what they hold.
LEMMA UnwindInv ==
    ASSUME IInv, NEW o \in Objs, Unwind(o) PROVE IInv'
<1> USE DEF Unwind
<1>1. TypeOK /\ Ownership /\ AllHeldAt /\ HeldAt(o)
  BY DEF IInv, AllHeldAt
<1>2. object[o] = Nothing /\ registered_ring_fd[o] = NONE
  BY <1>1 DEF HeldAt
<1>3. /\ local'[o] = Released(local[o]) /\ object'[o] = object[o]
      /\ \A p \in Objs \ {o} : local'[p] = local[p] /\ object'[p] = object[p]
  BY <1>1 DEF TypeOK
<1>4. /\ Ownership' /\ Released(local[o]) \in Holding
      /\ files' \in [Fds -> Rings \cup {FILE, NONE}]
      /\ maps' \subseteq Rings \X {"sq", "cq", "sqes"}
  BY <1>1, <1>2, <1>3, HeldTypes, ReleaseOwnership
<1>5. TypeOK'
  BY <1>1, <1>4 DEF TypeOK
<1>6. HeldAt(o)'
  BY <1>2 DEF HeldAt
<1>7. AllHeldAt'
  BY <1>1, <1>3, <1>6, OthersHeldAt
<1> QED
  BY <1>4, <1>5, <1>7 DEF IInv

\* The members of a destroyed object give back what they hold.
LEMMA DestroyMemberInv ==
    ASSUME IInv, NEW o \in Objs, DestroyMember(o) PROVE IInv'
<1> USE DEF DestroyMember
<1>1. TypeOK /\ Ownership /\ AllHeldAt /\ HeldAt(o)
  BY DEF IInv, AllHeldAt
<1>2. local[o] = Nothing /\ registered_ring_fd[o] = NONE
  BY <1>1 DEF HeldAt
<1>3. /\ object'[o] = Released(object[o]) /\ local'[o] = local[o]
      /\ \A p \in Objs \ {o} : local'[p] = local[p] /\ object'[p] = object[p]
  BY <1>1 DEF TypeOK
<1>4. /\ Ownership' /\ Released(object[o]) \in Holding
      /\ files' \in [Fds -> Rings \cup {FILE, NONE}]
      /\ maps' \subseteq Rings \X {"sq", "cq", "sqes"}
  BY <1>1, <1>2, <1>3, HeldTypes, ReleaseOwnership
<1>5. TypeOK'
  BY <1>1, <1>4 DEF TypeOK
<1>6. HeldAt(o)'
  BY <1>2 DEF HeldAt
<1>7. AllHeldAt'
  BY <1>1, <1>3, <1>6, OthersHeldAt
<1> QED
  BY <1>4, <1>5, <1>7 DEF IInv

\* What holds nothing can be created again.
LEMMA ForgetInv ==
    ASSUME IInv, NEW o \in Objs,
           local[o] = Nothing, object[o] = Nothing, registered_ring_fd[o] = NONE,
           pc' = [pc EXCEPT ![o] = "none"], ring' = [ring EXCEPT ![o] = NONE],
           UNCHANGED <<kernelVars, local, object, registered_ring_fd, tmp_fd>>
    PROVE  IInv'
<1> USE DEF kernelVars
<1>1. TypeOK /\ Ownership /\ AllHeldAt
  BY DEF IInv
<1>2. TypeOK'
  BY <1>1 DEF TypeOK
<1>3. /\ pc'[o] = "none" /\ \A p \in Objs \ {o} : pc'[p] = pc[p]
      /\ \A p \in Objs : ring'[p] = IF p = o THEN NONE ELSE ring[p]
  BY <1>1 DEF TypeOK
<1>4. HoldOwn'
  <2> SUFFICES ASSUME NEW p \in Objs, NEW x \in {local[p], object[p]}
               PROVE  OfItsRing(p, x)'
    BY DEF HoldOwn
  <2>1. CASE p = o
    BY <2>1, NothingHolds DEF OfItsRing
  <2>2. CASE p # o
    <3>1. OfItsRing(p, x)
      BY <1>1 DEF HoldOwn, Ownership
    <3> QED
      BY <1>3, <2>2, <3>1 DEF OfItsRing
  <2> QED
    BY <2>1, <2>2
<1>5. RingsApart' /\ IndexIsOwn'
  BY <1>1, <1>3 DEF RingsApart, IndexIsOwn, Ownership
<1>6. TmpIsFile' /\ FdsHeld' /\ MapsHeld' /\ RegistrationsHeld'
  BY <1>1 DEF TmpIsFile, FdsHeld, MapsHeld, RegistrationsHeld, Ownership
<1>7. AllHeldAt'
  BY <1>1, <1>3, OthersHeldAt DEF HeldAt
<1> QED
  BY <1>2, <1>4, <1>5, <1>6, <1>7 DEF IInv, Ownership

\* create() returns what it made, or gives the name back.
LEMMA ReturnInv ==
    ASSUME IInv, NEW o \in Objs, Return(o) PROVE IInv'
<1> USE DEF Return
<1>1. TypeOK /\ HeldAt(o)
  BY DEF IInv, AllHeldAt
<1>2. CASE object[o] = Nothing
  <2>1. registered_ring_fd[o] = NONE
    BY <1>1, <1>2, NothingHolds DEF HeldAt, Complete
  <2> QED
    BY <1>2, <2>1, ForgetInv
<1>3. CASE object[o] # Nothing
  <2>1. ring' = ring
    BY <1>1, <1>3 DEF TypeOK
  <2>2. pc' = [pc EXCEPT ![o] = "live"] /\ pc[o] = "return" /\ local[o] = Nothing
    BY <1>3
  <2>3. resources' \in [Rings -> SUBSET {"files", "buffers"}]
    BY <1>1 DEF TypeOK, kernelVars
  <2>4. UNCHANGED <<single_mmap, files, maps, registered_rings, local, object,
                    registered_ring_fd, tmp_fd>>
    BY DEF kernelVars
  <2> HIDE DEF Return
  <2> QED
    BY <1>3, <2>1, <2>2, <2>3, <2>4, PcInv
<1> QED
  BY <1>2, <1>3

\* ~EventedIo clears its own index and no other object's.
LEMMA UnregisterRingInv ==
    ASSUME IInv, NEW o \in Objs, UnregisterRing(o) PROVE IInv'
<1>1. TypeOK /\ Ownership /\ AllHeldAt /\ HeldAt(o) /\ pc[o] = "unregister ring"
  BY DEF IInv, AllHeldAt, UnregisterRing
<1>2. /\ pc'[o] = "members" /\ \A p \in Objs \ {o} : pc'[p] = pc[p]
      /\ \A p \in Objs : registered_ring_fd'[p] =
            IF p = o THEN NONE ELSE registered_ring_fd[p]
      /\ UNCHANGED <<single_mmap, files, maps, resources, local, object, tmp_fd, ring>>
  BY <1>1 DEF UnregisterRing, TypeOK
<1>3. Thread[o] \in Threads
  BY DEF Threads
<1>4. registered_rings' \in [Threads -> [Indices -> Rings \cup {NONE}]]
  <2>1. registered_rings \in [Threads -> [Indices -> Rings \cup {NONE}]]
    BY <1>1 DEF TypeOK
  <2>2. [registered_rings EXCEPT ![Thread[o]][registered_ring_fd[o]] = NONE]
          \in [Threads -> [Indices -> Rings \cup {NONE}]]
    BY <1>3, <2>1
  <2> QED
    BY <2>1, <2>2 DEF UnregisterRing
<1>5. \A t \in Threads, i \in Indices : registered_rings'[t][i] =
          IF t = Thread[o] /\ i = registered_ring_fd[o] THEN NONE ELSE registered_rings[t][i]
  <2>1. registered_rings \in [Threads -> [Indices -> Rings \cup {NONE}]]
        /\ registered_ring_fd[o] \in Indices \cup {NONE}
    BY <1>1 DEF TypeOK
  <2>2. CASE registered_ring_fd[o] = NONE
    <3>1. registered_rings' = registered_rings
      BY <2>2 DEF UnregisterRing
    <3> QED
      BY <2>2, <3>1, Names
  <2>3. CASE registered_ring_fd[o] # NONE
    <3>1. registered_rings' =
            [registered_rings EXCEPT ![Thread[o]][registered_ring_fd[o]] = NONE]
      BY <2>3 DEF UnregisterRing
    <3> QED
      BY <1>3, <2>1, <2>3, <3>1
  <2> QED
    BY <2>2, <2>3
<1>6. TypeOK'
  <2>1. registered_ring_fd' \in [Objs -> Indices \cup {NONE}]
        /\ pc' \in [Objs -> {"none", "sq", "cq", "sqes", "new", "register", "return",
                             "live", "unregister files", "unregister ring", "members"}]
    BY <1>1 DEF UnregisterRing, TypeOK
  <2> QED
    BY <1>1, <1>2, <1>4, <2>1 DEF TypeOK
<1>7. HoldOwn' /\ RingsApart' /\ TmpIsFile' /\ FdsHeld' /\ MapsHeld'
  <2>1. HoldOwn'
    BY <1>1, <1>2 DEF Ownership, HoldOwn, OfItsRing
  <2>2. RingsApart' /\ TmpIsFile'
    BY <1>1, <1>2 DEF Ownership, RingsApart, TmpIsFile
  <2>3. FdsHeld' /\ MapsHeld'
    BY <1>1, <1>2 DEF Ownership, FdsHeld, MapsHeld
  <2> QED
    BY <2>1, <2>2, <2>3
<1>8. IndexIsOwn'
  <2> SUFFICES ASSUME NEW p \in Objs \ {o}, NEW i \in Indices, i = registered_ring_fd[p]
               PROVE  ring[p] # NONE /\ registered_rings'[Thread[p]][i] = ring[p]
    BY <1>1, <1>2, HeldTypes DEF IndexIsOwn
  <2>1. ring[p] # NONE /\ registered_rings[Thread[p]][i] = ring[p]
    BY <1>1, Names DEF IndexIsOwn, Ownership
  <2>2. ~(Thread[p] = Thread[o] /\ i = registered_ring_fd[o])
    BY <1>1, <2>1, Names DEF IndexIsOwn, RingsApart, Ownership
  <2>3. Thread[p] \in Threads
    BY DEF Threads
  <2> QED
    BY <1>5, <2>1, <2>2, <2>3
<1>9. RegistrationsHeld'
  <2> SUFFICES ASSUME NEW t \in Threads, NEW i \in Indices, registered_rings'[t][i] # NONE
               PROVE  \E p \in Objs : Thread[p] = t /\ registered_ring_fd'[p] = i
    BY DEF RegistrationsHeld
  <2>1. /\ ~(t = Thread[o] /\ i = registered_ring_fd[o])
        /\ registered_rings[t][i] # NONE
    BY <1>5
  <2>2. PICK p \in Objs : Thread[p] = t /\ registered_ring_fd[p] = i
    BY <1>1, <2>1 DEF RegistrationsHeld, Ownership
  <2> QED
    BY <1>2, <2>1, <2>2
<1>10. HeldAt(o)'
  BY <1>1, <1>2 DEF HeldAt
<1>11. AllHeldAt'
  BY <1>1, <1>2, <1>10, OthersHeldAt
<1> QED
  BY <1>6, <1>7, <1>8, <1>9, <1>11 DEF IInv, Ownership

-----------------------------------------------------------------------------
(* The file, and the other steps *)

\* The file gets a descriptor no one holds.
LEMMA TmpFileInv == IInv /\ TmpFile => IInv'
<1> SUFFICES ASSUME IInv, TmpFile PROVE IInv'
  OBVIOUS
<1> USE DEF objectVars
<1>1. TypeOK /\ Ownership /\ AllHeldAt
  BY DEF IInv
<1>2. PICK f \in Fds :
        files[f] = NONE /\ files' = [files EXCEPT ![f] = FILE] /\ tmp_fd' = f
  BY DEF TmpFile, IsLowest
<1>3. UNCHANGED <<single_mmap, maps, registered_rings, resources, pc, local, object,
                  registered_ring_fd, ring>> /\ tmp_fd = NONE
  BY DEF TmpFile
<1>4. \A e \in Fds : files'[e] = IF e = f THEN FILE ELSE files[e]
  BY <1>1, <1>2 DEF TypeOK
<1>5. TypeOK'
  BY <1>1, <1>2, <1>3 DEF TypeOK
<1>6. \A p \in Objs : local[p].fd # f /\ object[p].fd # f
  BY <1>1, <1>2, FdsApart DEF Ownership
<1>7. HoldOwn'
  <2> SUFFICES ASSUME NEW p \in Objs, NEW x \in {local[p], object[p]}
               PROVE  OfItsRing(p, x)'
    BY <1>3 DEF HoldOwn
  <2>1. OfItsRing(p, x) /\ x \in Holding /\ x.fd # f
    BY <1>1, <1>6, HeldTypes DEF HoldOwn, Ownership
  <2>2. x.fd # NONE => files'[x.fd] = files[x.fd]
    BY <1>4, <2>1, HoldingFields
  <2> QED
    BY <1>3, <2>1, <2>2 DEF OfItsRing
<1>8. TmpIsFile'
  BY <1>2, <1>4 DEF TmpIsFile
<1>9. FdsHeld'
  BY <1>1, <1>2, <1>3, <1>4, Names DEF FdsHeld, Ownership
<1>10. RingsApart' /\ IndexIsOwn' /\ MapsHeld' /\ RegistrationsHeld'
  BY <1>1, <1>3 DEF RingsApart, IndexIsOwn, MapsHeld, RegistrationsHeld, Ownership
<1>11. AllHeldAt'
  BY <1>1, <1>3 DEF AllHeldAt, HeldAt, Complete
<1> QED
  BY <1>5, <1>7, <1>8, <1>9, <1>10, <1>11 DEF IInv, Ownership

\* Closing the file closes no object's descriptor.
LEMMA CloseTmpInv == IInv /\ CloseTmp => IInv'
<1> SUFFICES ASSUME IInv, CloseTmp PROVE IInv'
  OBVIOUS
<1> USE DEF objectVars
<1>1. TypeOK /\ Ownership /\ AllHeldAt
  BY DEF IInv
<1>2. PICK f \in Fds :
        tmp_fd = f /\ files' = [files EXCEPT ![f] = NONE] /\ tmp_fd' = NONE
  BY <1>1 DEF CloseTmp, Close, TypeOK
<1>3. UNCHANGED <<single_mmap, maps, registered_rings, resources, pc, local, object,
                  registered_ring_fd, ring>>
  BY DEF CloseTmp, Close
<1>4. \A e \in Fds : files'[e] = IF e = f THEN NONE ELSE files[e]
  BY <1>1, <1>2 DEF TypeOK
<1>5. TypeOK'
  BY <1>1, <1>2, <1>3 DEF TypeOK
<1>6. \A p \in Objs : local[p].fd # f /\ object[p].fd # f
  BY <1>1, <1>2, FdsApart DEF Ownership
<1>7. HoldOwn'
  <2> SUFFICES ASSUME NEW p \in Objs, NEW x \in {local[p], object[p]}
               PROVE  OfItsRing(p, x)'
    BY <1>3 DEF HoldOwn
  <2>1. OfItsRing(p, x) /\ x \in Holding /\ x.fd # f
    BY <1>1, <1>6, HeldTypes DEF HoldOwn, Ownership
  <2>2. x.fd # NONE => files'[x.fd] = files[x.fd]
    BY <1>4, <2>1, HoldingFields
  <2> QED
    BY <1>3, <2>1, <2>2 DEF OfItsRing
<1>8. TmpIsFile'
  BY <1>2 DEF TmpIsFile
<1>9. FdsHeld'
  BY <1>1, <1>2, <1>3, <1>4 DEF FdsHeld, Ownership
<1>10. RingsApart' /\ IndexIsOwn' /\ MapsHeld' /\ RegistrationsHeld'
  BY <1>1, <1>3 DEF RingsApart, IndexIsOwn, MapsHeld, RegistrationsHeld, Ownership
<1>11. AllHeldAt'
  BY <1>1, <1>3 DEF AllHeldAt, HeldAt, Complete
<1> QED
  BY <1>5, <1>7, <1>8, <1>9, <1>10, <1>11 DEF IInv, Ownership

\* Steps that change no table but what is registered with a ring.
LEMMA IdleInv ==
    ASSUME IInv, resources' \in [Rings -> SUBSET {"files", "buffers"}],
           UNCHANGED <<single_mmap, files, maps, registered_rings, objectVars, tmp_fd>>
    PROVE  IInv'
<1> USE DEF objectVars
<1>1. TypeOK'
  BY DEF IInv, TypeOK
<1>2. Ownership'
  BY OwnershipFrame DEF IInv
<1>3. AllHeldAt'
  BY DEF IInv, AllHeldAt, HeldAt, Complete
<1> QED
  BY <1>1, <1>2, <1>3 DEF IInv

\* The three mappings of create().
LEMMA MapsInv ==
    ASSUME IInv, NEW o \in Objs, MapSq(o) \/ MapCq(o) \/ MapSqes(o) PROVE IInv'
<1>1. TypeOK /\ HeldAt(o)
  BY DEF IInv, AllHeldAt
<1>2. ASSUME NEW part \in Parts, NEW next, Map(o, part, next),
             pc[o] \in {"sq", "cq", "sqes", "new"}
      PROVE  /\ pc'[o] = next /\ object'[o] = object[o] /\ single_mmap' = single_mmap
             /\ registered_ring_fd'[o] = registered_ring_fd[o]
             /\ local'[o].fd = local[o].fd
             /\ local[o].sq # NONE \/ part = "sq" => local'[o].sq # NONE
             /\ local[o].cq # NONE \/ part = "cq" => local'[o].cq # NONE
             /\ local[o].sqes # NONE \/ part = "sqes" => local'[o].sqes # NONE
  <2>1. local[o].fd # NONE /\ local[o] \in Holding /\ OfItsRing(o, local[o])
    BY <1>1, <1>2, HeldTypes DEF IInv, HeldAt, Ownership, HoldOwn
  <2>2. files[local[o].fd] # NONE
    BY <2>1, HoldingFields DEF OfItsRing
  <2>3. local'[o] = [local[o] EXCEPT ![part] = files[local[o].fd]]
    BY <1>1, <1>2 DEF Map, Mapping, TypeOK
  <2>4. /\ local'[o].fd = local[o].fd
        /\ local[o].sq # NONE \/ part = "sq" => local'[o].sq # NONE
        /\ local[o].cq # NONE \/ part = "cq" => local'[o].cq # NONE
        /\ local[o].sqes # NONE \/ part = "sqes" => local'[o].sqes # NONE
    BY <2>1, <2>2, <2>3 DEF Holding, Parts
  <2> QED
    BY <1>1, <1>2, <2>4 DEF Map, TypeOK
<1>3. CASE MapSq(o)
  <2> DEFINE next == IF single_mmap THEN "sqes" ELSE "cq"
  <2>1. Map(o, "sq", next) /\ pc[o] = "sq" /\ "sq" \in Parts
    BY <1>3 DEF MapSq, Map, Parts
  <2>2. next \in {"cq", "sqes", "new"}
    OBVIOUS
  <2>3. /\ pc'[o] = next /\ object'[o] = object[o] /\ single_mmap' = single_mmap
        /\ registered_ring_fd'[o] = registered_ring_fd[o] /\ local'[o].fd = local[o].fd
        /\ local'[o].sq # NONE
    BY <1>2, <2>1
  <2>4. HeldAt(o)'
    BY <1>1, <2>1, <2>3 DEF HeldAt
  <2> QED
    BY <2>1, <2>2, <2>4, MapInv
<1>4. CASE MapCq(o)
  <2>1. Map(o, "cq", "sqes") /\ pc[o] = "cq" /\ "cq" \in Parts /\ "sq" \in Parts
    BY <1>4 DEF MapCq, Map, Parts
  <2>2. /\ pc'[o] = "sqes" /\ object'[o] = object[o] /\ single_mmap' = single_mmap
        /\ registered_ring_fd'[o] = registered_ring_fd[o] /\ local'[o].fd = local[o].fd
        /\ (local[o].sq # NONE => local'[o].sq # NONE) /\ local'[o].cq # NONE
    BY <1>2, <2>1
  <2>3. HeldAt(o)'
    BY <1>1, <2>1, <2>2 DEF HeldAt
  <2> QED
    BY <2>1, <2>3, MapInv
<1>5. CASE MapSqes(o)
  <2>1. Map(o, "sqes", "new") /\ pc[o] = "sqes" /\ "sqes" \in Parts
        /\ "cq" \in Parts /\ "sq" \in Parts
    BY <1>5 DEF MapSqes, Map, Parts
  <2>2. /\ pc'[o] = "new" /\ object'[o] = object[o] /\ single_mmap' = single_mmap
        /\ registered_ring_fd'[o] = registered_ring_fd[o] /\ local'[o].fd = local[o].fd
        /\ local[o].sq # NONE => local'[o].sq # NONE
        /\ local[o].cq # NONE => local'[o].cq # NONE
        /\ local'[o].sqes # NONE
    BY <1>2, <2>1
  <2>3. HeldAt(o)'
    BY <1>1, <2>1, <2>2 DEF HeldAt
  <2> QED
    BY <2>1, <2>3, MapInv
<1> QED
  BY <1>3, <1>4, <1>5

-----------------------------------------------------------------------------
(* The theorems *)

\* Every step preserves the invariant.
LEMMA NextInv == IInv /\ [Next]_vars => IInv'
<1> SUFFICES ASSUME IInv, [Next]_vars PROVE IInv'
  OBVIOUS
<1>1. TypeOK
  BY DEF IInv
<1>2. ASSUME NEW o \in Objs, Create(o) PROVE IInv'
  <2>1. CASE Setup(o)
    BY <2>1, SetupInv
  <2>2. CASE MapSq(o) \/ MapCq(o) \/ MapSqes(o)
    BY <2>2, MapsInv
  <2>3. CASE New(o)
    BY <2>3, NewInv
  <2>4. CASE RegisterRing(o)
    BY <2>4, RegisterRingInv
  <2>5. CASE RegisterRingFails(o) \/ CreateFails(o)
    <3>1. /\ pc' = [pc EXCEPT ![o] = "return"]
          /\ pc[o] \in {"sq", "cq", "sqes", "new", "register"}
          /\ UNCHANGED <<single_mmap, files, maps, registered_rings, local, object,
                         registered_ring_fd, tmp_fd, ring, resources>>
      BY <2>5 DEF RegisterRingFails, CreateFails, kernelVars
    <3>2. resources' \in [Rings -> SUBSET {"files", "buffers"}]
      BY <1>1, <3>1 DEF TypeOK
    <3> QED
      BY <3>1, <3>2, PcInv
  <2>6. CASE Unwind(o)
    BY <2>6, UnwindInv
  <2>7. CASE Return(o)
    BY <2>7, ReturnInv
  <2> QED
    BY <1>2, <2>1, <2>2, <2>3, <2>4, <2>5, <2>6, <2>7 DEF Create
<1>3. ASSUME NEW o \in Objs, Destroy(o) PROVE IInv'
  <2>1. CASE UnregisterBuffers(o)
    <3>1. /\ pc' = [pc EXCEPT ![o] = "unregister files"] /\ pc[o] = "live"
          /\ resources' = [resources EXCEPT ![Reached(o)] = @ \ {"buffers"}]
          /\ UNCHANGED <<single_mmap, files, maps, registered_rings, local, object,
                         registered_ring_fd, tmp_fd, ring>>
      BY <2>1 DEF UnregisterBuffers, Unregister
    <3>2. resources' \in [Rings -> SUBSET {"files", "buffers"}]
      BY <1>1, <3>1, ResourcesType
    <3> QED
      BY <3>1, <3>2, PcInv
  <2>2. CASE UnregisterFiles(o)
    <3>1. /\ pc' = [pc EXCEPT ![o] = "unregister ring"] /\ pc[o] = "unregister files"
          /\ resources' = [resources EXCEPT ![Reached(o)] = @ \ {"files"}]
          /\ UNCHANGED <<single_mmap, files, maps, registered_rings, local, object,
                         registered_ring_fd, tmp_fd, ring>>
      BY <2>2 DEF UnregisterFiles, Unregister
    <3>2. resources' \in [Rings -> SUBSET {"files", "buffers"}]
      BY <1>1, <3>1, ResourcesType
    <3> QED
      BY <3>1, <3>2, PcInv
  <2>3. CASE UnregisterRing(o)
    BY <2>3, UnregisterRingInv
  <2>4. CASE DestroyMember(o)
    BY <2>4, DestroyMemberInv
  <2>5. CASE Destroyed(o)
    <3>1. local[o] = Nothing /\ registered_ring_fd[o] = NONE
      BY <2>5 DEF Destroyed, IInv, AllHeldAt, HeldAt
    <3> QED
      BY <2>5, <3>1, ForgetInv DEF Destroyed
  <2> QED
    BY <1>3, <2>1, <2>2, <2>3, <2>4, <2>5 DEF Destroy
<1>4. ASSUME NEW o \in Objs, NEW what \in {"files", "buffers"}, Register(o, what)
      PROVE  IInv'
  <2>1. resources' \in [Rings -> SUBSET {"files", "buffers"}]
    BY <1>1, <1>4, ResourcesType DEF Register
  <2> QED
    BY <1>4, <2>1, IdleInv DEF Register
<1>5. CASE UNCHANGED vars
  <2>1. /\ UNCHANGED <<single_mmap, files, maps, registered_rings, objectVars, tmp_fd>>
        /\ resources' = resources
    BY <1>5 DEF vars, kernelVars
  <2>2. resources' \in [Rings -> SUBSET {"files", "buffers"}]
    BY <1>1, <2>1 DEF TypeOK
  <2> QED
    BY <2>1, <2>2, IdleInv
<1> QED
  BY <1>2, <1>3, <1>4, <1>5, TmpFileInv, CloseTmpInv DEF Next

\* In every behaviour of create(), the destructor and the file each owner holds
\* what its program counter says, of its own ring, and nothing else is held.
THEOREM Invariant == Spec => []IInv
BY InitInv, NextInv, PTL DEF Spec

\* The variables keep their types.
THEOREM TypeCorrect == Spec => []TypeOK
<1>1. IInv => TypeOK
  BY DEF IInv
<1> QED
  BY <1>1, Invariant, PTL

\* NothingLeaks: a create() that fails at any step and a destroyed object leave
\* no descriptor, mapping or registration behind (unique_fd, MmapDeleter and
\* ~EventedIo, iouring.hpp:118-289).
THEOREM LeavesNothing == Spec => []NothingLeaks
<1>1. IInv => NothingLeaks
  <2> SUFFICES ASSUME TypeOK, Ownership PROVE NothingLeaks
    BY DEF IInv
  <2>1. \A f \in Fds : files[f] # NONE => f = tmp_fd \/ Holders(f) # {}
    BY DEF Ownership, FdsHeld, Holders
  <2>2. \A m \in maps : \E o \in Objs : m[1] \in {local[o][m[2]], object[o][m[2]]}
    <3> SUFFICES ASSUME NEW m \in maps
                 PROVE  \E o \in Objs : m[1] \in {local[o][m[2]], object[o][m[2]]}
      OBVIOUS
    <3>1. m \in Rings \X Parts
      BY DEF TypeOK, Parts
    <3>2. m[1] \in Rings /\ m[2] \in Parts /\ m = <<m[1], m[2]>>
      BY <3>1
    <3> QED
      BY <3>2 DEF Ownership, MapsHeld
  <2> QED
    BY <2>1, <2>2 DEF NothingLeaks, Ownership, RegistrationsHeld
<1> QED
  BY <1>1, Invariant, PTL

\* DescriptorsAreOwn: each descriptor has one owner and names what that owner
\* opened, so no close hits another thread's ring or file (unique_fd, file.hpp).
THEOREM OwnDescriptors == Spec => []DescriptorsAreOwn
<1>1. IInv => DescriptorsAreOwn
  <2> SUFFICES ASSUME TypeOK, Ownership PROVE DescriptorsAreOwn
    BY DEF IInv
  <2>1. ASSUME NEW f \in Fds
        PROVE  Cardinality(Holders(f)) + (IF f = tmp_fd THEN 1 ELSE 0) <= 1
    <3>1. CASE Holders(f) = {}
      BY <3>1, FS_EmptySet
    <3>2. ASSUME NEW o \in Holders(f) PROVE Cardinality(Holders(f)) = 1 /\ f # tmp_fd
      <4>1. o \in Objs /\ (local[o].fd = f \/ object[o].fd = f)
        BY <3>2 DEF Holders
      <4>2. f # tmp_fd /\ \A p \in Objs \ {o} : local[p].fd # f /\ object[p].fd # f
        BY <4>1, FdsApart DEF Ownership
      <4>3. Holders(f) = {o}
        BY <3>2, <4>2 DEF Holders
      <4> QED
        BY <4>2, <4>3, FS_Singleton
    <3> QED
      BY <3>1, <3>2
  <2>2. \A o \in Objs : \A h \in {local[o], object[o]} : h.fd # NONE => files[h.fd] = ring[o]
    BY DEF Ownership, HoldOwn, OfItsRing
  <2> QED
    BY <2>1, <2>2 DEF DescriptorsAreOwn, Ownership, TmpIsFile
<1> QED
  BY <1>1, Invariant, PTL

\* EnterReachesRing: the index or descriptor an object passes to io_uring_enter
\* (get_ring_fd) names the ring whose memory it maps.
THEOREM OwnRingEntered == Spec => []EnterReachesRing
<1>1. IInv => EnterReachesRing
  <2> SUFFICES ASSUME TypeOK, Ownership, AllHeldAt, NEW o \in Objs, pc[o] = "live"
               PROVE  /\ Entered(o) = ring[o]
                      /\ \A part \in Parts :
                            object[o][part] = ring[o] \/ (part = "cq" /\ single_mmap)
                      /\ \A part \in Parts :
                            object[o][part] # NONE => <<ring[o], part>> \in maps
    BY DEF IInv, EnterReachesRing, Parts
  <2>1. Complete(object[o]) /\ object[o] \in Holding /\ OfItsRing(o, object[o])
    BY HeldTypes DEF AllHeldAt, HeldAt, Ownership, HoldOwn
  <2>2. Entered(o) = ring[o]
    BY <2>1 DEF Entered, Reached, OfItsRing, Complete, Ownership, IndexIsOwn
  <2>3. \A part \in Parts : object[o][part] = NONE => part = "cq" /\ single_mmap
    BY <2>1, HoldingFields DEF Complete, Parts
  <2> QED
    BY <2>1, <2>2, <2>3 DEF OfItsRing
<1> QED
  BY <1>1, Invariant, PTL
=============================================================================
