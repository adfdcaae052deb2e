---------------------------- MODULE RingLifetime ----------------------------
(***************************************************************************)
(* How an EventedIo comes to be and goes (include/shclog/io/iouring.hpp:   *)
(* 118-289 and 607-648): create() acquires a descriptor, two or three      *)
(* mappings, the object and a registration, any of which may be refused,   *)
(* and unique_fd and MmapDeleter give back what a failed create() or a     *)
(* destroyed object holds.  A temporary file shares the process's          *)
(* descriptor numbers, which the kernel reuses at once.                    *)
(*                                                                         *)
(* There is one step per system call, so the calls of several threads      *)
(* interleave.  An object belongs to the thread that created it.  Errors   *)
(* are told apart only by what they leave behind, and those of close and   *)
(* munmap are ignored as in the code.  With assertions compiled out the    *)
(* destructor goes on when the kernel refuses to unregister.               *)
(***************************************************************************)
EXTENDS Integers, FiniteSets

CONSTANTS Objs,       \* variables of the program that may own an EventedIo
          Thread,     \* the thread of each
          Fds,        \* descriptor numbers the process may use (its quota)
          RegMax,     \* rings a thread may register (IO_RINGFD_REG_MAX)
          Rings,      \* rings, reused once nothing refers to them (bound)
          FILE,       \* an open temporary file
          NONE        \* closed, unmapped, -1, nullptr, nullopt

Threads == {Thread[o] : o \in Objs}
Indices == 0..(RegMax - 1)

ASSUME NumbersAssumption == Fds \subseteq Nat /\ Rings \subseteq Nat /\ RegMax \in Nat
ASSUME NamesAssumption == NONE \notin Nat /\ FILE \notin Nat /\ NONE # FILE

VARIABLES
    single_mmap,        \* IORING_FEAT_SINGLE_MMAP, a feature of the kernel
    files,              \* the process's descriptor table
    maps,               \* mappings: <<ring, which part of it>>
    registered_rings,   \* each thread's table of registered rings
    resources,          \* what is registered with each ring
    pc,                 \* where create() or ~EventedIo of an object is
    local,              \* what the local variables of create() hold
    object,             \* what the members of the object hold
    registered_ring_fd, \* its index in registered_rings
    tmp_fd,             \* the unique_fd tmpfile() returned
    ring                \* history: the ring create() set up

kernelVars == <<single_mmap, files, maps, registered_rings, resources>>
objectVars == <<pc, local, object, registered_ring_fd, ring>>
vars == <<kernelVars, objectVars, tmp_fd>>

Nothing == [fd |-> NONE, sq |-> NONE, cq |-> NONE, sqes |-> NONE]
Holding == [fd : Fds \cup {NONE}, sq : Rings \cup {NONE},
            cq : Rings \cup {NONE}, sqes : Rings \cup {NONE}]

TypeOK ==
    /\ single_mmap \in BOOLEAN
    /\ files \in [Fds -> Rings \cup {FILE, NONE}]
    /\ maps \subseteq Rings \X {"sq", "cq", "sqes"}
    /\ registered_rings \in [Threads -> [Indices -> Rings \cup {NONE}]]
    /\ resources \in [Rings -> SUBSET {"files", "buffers"}]
    /\ pc \in [Objs -> {"none", "sq", "cq", "sqes", "new", "register", "return", "live",
                        "unregister files", "unregister ring", "members"}]
    /\ local \in [Objs -> Holding] /\ object \in [Objs -> Holding]
    /\ registered_ring_fd \in [Objs -> Indices \cup {NONE}]
    /\ tmp_fd \in Fds \cup {NONE}
    /\ ring \in [Objs -> Rings \cup {NONE}]

Init ==
    /\ single_mmap \in BOOLEAN
    /\ files = [f \in Fds |-> NONE]
    /\ maps = {}
    /\ registered_rings = [t \in Threads |-> [i \in Indices |-> NONE]]
    /\ resources = [r \in Rings |-> {}]
    /\ pc = [o \in Objs |-> "none"]
    /\ local = [o \in Objs |-> Nothing] /\ object = [o \in Objs |-> Nothing]
    /\ registered_ring_fd = [o \in Objs |-> NONE]
    /\ tmp_fd = NONE
    /\ ring = [o \in Objs |-> NONE]

-----------------------------------------------------------------------------
(* The kernel's tables *)

\* The lowest number that is free in a table.
IsLowest(n, table) == table[n] = NONE /\ \A m \in DOMAIN table : m < n => table[m] # NONE

\* A ring nothing refers to any more is gone.
Gone(r) ==
    /\ \A f \in Fds : files[f] # r
    /\ \A m \in maps : m[1] # r
    /\ \A t \in Threads, i \in Indices : registered_rings[t][i] # r
    /\ \A o \in Objs : ring[o] # r

\* A thread makes one call at a time.
MayCall(o) == \A p \in Objs : Thread[p] = Thread[o] => pc[p] \in {"none", "live"}

-----------------------------------------------------------------------------
(* Owners give back what they hold *)

\* Mutant of MovedFrom: a move leaves the descriptor in the source.
MovedFrom_KeepsFd(h) == [Nothing EXCEPT !.fd = h.fd]

\* What a move leaves in its source.
MovedFrom(h) == Nothing

\* close and munmap; their errors are ignored.
Close(f) == files' = [files EXCEPT ![f] = NONE] /\ UNCHANGED maps
Unmap(r, part) == maps' = maps \ {<<r, part>>} /\ UNCHANGED files

\* Mutant of Release: a mapping is forgotten instead of unmapped.
Release_NoUnmap(h) ==
    IF h.sqes = NONE /\ h.cq = NONE /\ h.sq = NONE
    THEN Close(h.fd)
    ELSE UNCHANGED <<files, maps>>

\* The destructor of the last declared owner that holds something.
Release(h) ==
    CASE h.sqes # NONE -> Unmap(h.sqes, "sqes")
      [] h.sqes = NONE /\ h.cq # NONE -> Unmap(h.cq, "cq")
      [] h.sqes = NONE /\ h.cq = NONE /\ h.sq # NONE -> Unmap(h.sq, "sq")
      [] OTHER -> Close(h.fd)

Released(h) ==
    CASE h.sqes # NONE -> [h EXCEPT !.sqes = NONE]
      [] h.sqes = NONE /\ h.cq # NONE -> [h EXCEPT !.cq = NONE]
      [] h.sqes = NONE /\ h.cq = NONE /\ h.sq # NONE -> [h EXCEPT !.sq = NONE]
      [] OTHER -> Nothing

-----------------------------------------------------------------------------
(* create *)

\* A new ring r gets descriptor f.
IoUringSetup(f, r) ==
    /\ IsLowest(f, files)
    /\ Gone(r) /\ \A s \in Rings : s < r => ~Gone(s)
    /\ files' = [files EXCEPT ![f] = r]
    /\ resources' = [resources EXCEPT ![r] = {}]

\* When io_uring_setup fails, for instance because no descriptor is free,
\* create() returns with nothing acquired.
Setup(o) ==
    /\ pc[o] = "none" /\ MayCall(o)
    /\ \E f \in Fds, r \in Rings :
          /\ IoUringSetup(f, r)
          /\ local' = [local EXCEPT ![o] = [Nothing EXCEPT !.fd = f]]
          /\ ring' = [ring EXCEPT ![o] = r]
    /\ pc' = [pc EXCEPT ![o] = "sq"]
    /\ UNCHANGED <<single_mmap, maps, registered_rings, object, registered_ring_fd, tmp_fd>>

\* What mmap of a part maps: that of the ring the descriptor names.
Mapping(fd, part) == <<files[fd], part>>

\* io_uring_mmap.
Map(o, part, next) ==
    /\ pc[o] = part
    /\ LET mapping == Mapping(local[o].fd, part)
       IN  /\ maps' = maps \cup {mapping}
           /\ local' = [local EXCEPT ![o][part] = mapping[1]]
    /\ pc' = [pc EXCEPT ![o] = next]
    /\ UNCHANGED <<single_mmap, files, registered_rings, resources, object,
                   registered_ring_fd, tmp_fd, ring>>

MapSq(o) == Map(o, "sq", IF single_mmap THEN "sqes" ELSE "cq")
MapCq(o) == Map(o, "cq", "sqes")
MapSqes(o) == Map(o, "sqes", "new")

\* The object is allocated and the locals are moved into its members.
New(o) ==
    /\ pc[o] = "new"
    /\ object' = [object EXCEPT ![o] = local[o]]
    /\ local' = [local EXCEPT ![o] = MovedFrom(local[o])]
    /\ pc' = [pc EXCEPT ![o] = "register"]
    /\ UNCHANGED <<kernelVars, registered_ring_fd, tmp_fd, ring>>

\* A mapping or the allocation is refused: create() returns an error, and the
\* locals give back what was acquired so far.
CreateFails(o) ==
    /\ pc[o] \in {"sq", "cq", "sqes", "new"}
    /\ pc' = [pc EXCEPT ![o] = "return"]
    /\ UNCHANGED <<kernelVars, local, object, registered_ring_fd, tmp_fd, ring>>

\* Mutant of RegisterRing: the descriptor is kept instead of the index.
RegisterRing_Fd(o) ==
    /\ pc[o] = "register"
    /\ \E i \in Indices :
          /\ IsLowest(i, registered_rings[Thread[o]])
          /\ registered_rings' =
               [registered_rings EXCEPT ![Thread[o]][i] = files[object[o].fd]]
          /\ registered_ring_fd' = [registered_ring_fd EXCEPT ![o] = object[o].fd]
    /\ pc' = [pc EXCEPT ![o] = "return"]
    /\ UNCHANGED <<single_mmap, files, maps, resources, local, object, tmp_fd, ring>>

\* register_ring_fd: the kernel picks the index.
RegisterRing(o) ==
    /\ pc[o] = "register"
    /\ \E i \in Indices :
          /\ IsLowest(i, registered_rings[Thread[o]])
          /\ registered_rings' =
               [registered_rings EXCEPT ![Thread[o]][i] = files[object[o].fd]]
          /\ registered_ring_fd' = [registered_ring_fd EXCEPT ![o] = i]
    /\ pc' = [pc EXCEPT ![o] = "return"]
    /\ UNCHANGED <<single_mmap, files, maps, resources, local, object, tmp_fd, ring>>

\* The kernel refuses, because the table is full or it knows no such call: the
\* object goes on with its descriptor.
RegisterRingFails(o) ==
    /\ pc[o] = "register"
    /\ pc' = [pc EXCEPT ![o] = "return"]
    /\ UNCHANGED <<kernelVars, local, object, registered_ring_fd, tmp_fd, ring>>

\* The locals of create() are destroyed, one after the other.
Unwind(o) ==
    /\ pc[o] = "return" /\ local[o] # Nothing
    /\ Release(local[o])
    /\ local' = [local EXCEPT ![o] = Released(local[o])]
    /\ UNCHANGED <<single_mmap, registered_rings, resources, pc, object,
                   registered_ring_fd, tmp_fd, ring>>

Return(o) ==
    /\ pc[o] = "return" /\ local[o] = Nothing
    /\ LET failed == object[o] = Nothing
       IN  /\ pc' = [pc EXCEPT ![o] = IF failed THEN "none" ELSE "live"]
           /\ ring' = [ring EXCEPT ![o] = IF failed THEN NONE ELSE ring[o]]
    /\ UNCHANGED <<kernelVars, local, object, registered_ring_fd, tmp_fd>>

-----------------------------------------------------------------------------
(* Registration and ~EventedIo *)

\* The ring system calls on object o's descriptor reach.
Reached(o) == files[object[o].fd]

\* register_files and register_buffers; the kernel refuses a second time.
Register(o, what) ==
    /\ pc[o] = "live" /\ MayCall(o)
    /\ what \notin resources[Reached(o)]
    /\ resources' = [resources EXCEPT ![Reached(o)] = @ \cup {what}]
    /\ UNCHANGED <<single_mmap, files, maps, registered_rings, objectVars, tmp_fd>>

Unregister(o, what, at, next) ==
    /\ pc[o] = at
    /\ resources' = [resources EXCEPT ![Reached(o)] = @ \ {what}]
    /\ pc' = [pc EXCEPT ![o] = next]
    /\ UNCHANGED <<single_mmap, files, maps, registered_rings, local, object,
                   registered_ring_fd, tmp_fd, ring>>

UnregisterBuffers(o) == MayCall(o) /\ Unregister(o, "buffers", "live", "unregister files")
UnregisterFiles(o) == Unregister(o, "files", "unregister files", "unregister ring")

\* Mutant of UnregisterRing: the offset is left at zero.
UnregisterRing_First(o) ==
    /\ pc[o] = "unregister ring"
    /\ IF registered_ring_fd[o] # NONE
       THEN registered_rings' = [registered_rings EXCEPT ![Thread[o]][0] = NONE]
       ELSE UNCHANGED registered_rings
    /\ registered_ring_fd' = [registered_ring_fd EXCEPT ![o] = NONE]
    /\ pc' = [pc EXCEPT ![o] = "members"]
    /\ UNCHANGED <<single_mmap, files, maps, resources, local, object, tmp_fd, ring>>

\* unregister_ring_fd.
UnregisterRing(o) ==
    /\ pc[o] = "unregister ring"
    /\ IF registered_ring_fd[o] # NONE
       THEN registered_rings' =
              [registered_rings EXCEPT ![Thread[o]][registered_ring_fd[o]] = NONE]
       ELSE UNCHANGED registered_rings
    /\ registered_ring_fd' = [registered_ring_fd EXCEPT ![o] = NONE]
    /\ pc' = [pc EXCEPT ![o] = "members"]
    /\ UNCHANGED <<single_mmap, files, maps, resources, local, object, tmp_fd, ring>>

\* The members are destroyed, one after the other.
DestroyMember(o) ==
    /\ pc[o] = "members" /\ object[o] # Nothing
    /\ Release(object[o])
    /\ object' = [object EXCEPT ![o] = Released(object[o])]
    /\ UNCHANGED <<single_mmap, registered_rings, resources, pc, local,
                   registered_ring_fd, tmp_fd, ring>>

Destroyed(o) ==
    /\ pc[o] = "members" /\ object[o] = Nothing
    /\ pc' = [pc EXCEPT ![o] = "none"]
    /\ ring' = [ring EXCEPT ![o] = NONE]
    /\ UNCHANGED <<kernelVars, local, object, registered_ring_fd, tmp_fd>>

-----------------------------------------------------------------------------
(* A file beside the rings *)

\* tmpfile: the descriptor moves from a local into the result.
TmpFile ==
    /\ tmp_fd = NONE
    /\ \E f \in Fds :
          /\ IsLowest(f, files)
          /\ files' = [files EXCEPT ![f] = FILE]
          /\ tmp_fd' = f
    /\ UNCHANGED <<single_mmap, maps, registered_rings, resources, objectVars>>

\* Its owner is reset or destroyed.
CloseTmp ==
    /\ tmp_fd # NONE
    /\ Close(tmp_fd)
    /\ tmp_fd' = NONE
    /\ UNCHANGED <<single_mmap, registered_rings, resources, objectVars>>

Create(o) ==
    \/ Setup(o) \/ MapSq(o) \/ MapCq(o) \/ MapSqes(o) \/ New(o)
    \/ RegisterRing(o) \/ RegisterRingFails(o) \/ CreateFails(o)
    \/ Unwind(o) \/ Return(o)

Destroy(o) ==
    \/ UnregisterBuffers(o) \/ UnregisterFiles(o) \/ UnregisterRing(o)
    \/ DestroyMember(o) \/ Destroyed(o)

Next ==
    \/ \E o \in Objs : Create(o) \/ Destroy(o)
    \/ \E o \in Objs, what \in {"files", "buffers"} : Register(o, what)
    \/ TmpFile \/ CloseTmp

Spec == Init /\ [][Next]_vars

-----------------------------------------------------------------------------
(* Properties *)

Holders(f) == {o \in Objs : local[o].fd = f} \cup {o \in Objs : object[o].fd = f}

\* Every open descriptor, mapping and registration is held by a create() in
\* progress, an object or the file's owner: a create() that fails at any of its
\* steps and a destroyed object leave nothing behind.
NothingLeaks ==
    /\ \A f \in Fds : files[f] # NONE => f = tmp_fd \/ Holders(f) # {}
    /\ \A m \in maps : \E o \in Objs : m[1] \in {local[o][m[2]], object[o][m[2]]}
    /\ \A t \in Threads, i \in Indices : registered_rings[t][i] # NONE =>
          \E o \in Objs : Thread[o] = t /\ registered_ring_fd[o] = i

\* A descriptor has one owner and names what that owner opened.  Closing one
\* twice would close what took its number since: another thread's ring or file.
DescriptorsAreOwn ==
    /\ \A f \in Fds : Cardinality(Holders(f)) + (IF f = tmp_fd THEN 1 ELSE 0) <= 1
    /\ \A o \in Objs : \A h \in {local[o], object[o]} : h.fd # NONE => files[h.fd] = ring[o]
    /\ tmp_fd # NONE => files[tmp_fd] = FILE

\* The ring io_uring_enter reaches through get_ring_fd, by index or descriptor.
Entered(o) ==
    IF registered_ring_fd[o] # NONE
    THEN registered_rings[Thread[o]][registered_ring_fd[o]]
    ELSE Reached(o)

\* An object enters its own ring, whichever other rings its thread registered
\* and unregistered meanwhile, and works on that ring's memory.
EnterReachesRing ==
    \A o \in Objs : pc[o] = "live" =>
        /\ Entered(o) = ring[o]
        /\ \A part \in {"sq", "cq", "sqes"} :
              object[o][part] = ring[o] \/ (part = "cq" /\ single_mmap)
        /\ \A part \in {"sq", "cq", "sqes"} :
              object[o][part] # NONE => <<ring[o], part>> \in maps

\* ~EventedIo asserts that unregistering succeeded (iouring.hpp:125 and 132);
\* the kernel refuses to unregister what is not registered.
DestructorAsserts ==
    [][\A o \in Objs :
         /\ UnregisterBuffers(o) => "buffers" \in resources[Reached(o)]
         /\ UnregisterFiles(o) => "files" \in resources[Reached(o)]]_vars
=============================================================================
