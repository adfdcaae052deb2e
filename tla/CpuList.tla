------------------------------ MODULE CpuList -------------------------------
(***************************************************************************)
(* shclog::io::cpu::list_cpu_cores (include/shclog/io/cpu.hpp:69-183): one *)
(* file of /sys after the other names the CPUs that share a core, until a  *)
(* file cannot be opened.  CPUs come and go meanwhile; the files of one    *)
(* that is offline do not exist, and the others do not name it.            *)
(*                                                                         *)
(* A file's content is a sequence of numbers, as from_chars reads them,    *)
(* and the separators below.  At most 64 bytes of it are read; what the    *)
(* kernel writes for a core fits them.                                     *)
(***************************************************************************)
EXTENDS Integers, Sequences, FiniteSets, FiniteSetsExt, SequencesExt

CONSTANTS Topologies,     \* machines: a sequence of CPU sets, one per core
          MaxHotplugs,    \* CPUs that come or go during a listing (bound)
          MaxContent      \* longest content ParserStaysInside looks at (bound)

COMMA == -1
DASH == -2
NEWLINE == -3
IsNumber(c) == c >= 0

ASSUME TopologiesAssumption ==
    \A cores \in Topologies :
        /\ cores \in Seq(SUBSET Nat) /\ IsFiniteSet(UNION Range(cores))
        /\ UNION Range(cores) = 0..(Cardinality(UNION Range(cores)) - 1)
        /\ \A c, d \in DOMAIN cores : c # d => cores[c] \cap cores[d] = {}

VARIABLES cores,       \* the machine
          online,      \* its CPUs that are up
          hotplugs,
          listing,     \* where the loop is: "open", "read", or how it ended
          result,      \* the cores listed so far
          seen         \* history: who was online when each file was read

listVars == <<cores, online, hotplugs, listing, result, seen>>

Cpus == UNION Range(cores)
CoreOf(cpu) == UNION {c \in Range(cores) : cpu \in c}

\* What the kernel writes for a set of CPUs: runs as a-b, separated by commas.
RunEnd(cpus, a) == Min({b \in cpus : b >= a /\ b + 1 \notin cpus})
Run(cpus, a) == IF RunEnd(cpus, a) = a THEN <<a>> ELSE <<a, DASH, RunEnd(cpus, a)>>

KernelTexts(cpus) ==
    LET last == Max(cpus)
        text[a \in 0..last] ==                           \* of the CPUs from a on
            IF a \notin cpus THEN text[a + 1]
            ELSE Run(cpus, a) \o IF RunEnd(cpus, a) = last THEN <<NEWLINE>>
                                 ELSE <<COMMA>> \o text[RunEnd(cpus, a) + 1]
    IN  text

KernelList(cpus) == IF cpus = {} THEN <<NEWLINE>> ELSE KernelTexts(cpus)[0]

ListInit ==
    /\ cores \in Topologies
    /\ online \in SUBSET Cpus
    /\ hotplugs = 0
    /\ listing = "open"
    /\ result = <<>> /\ seen = <<>>

-----------------------------------------------------------------------------
(* The parser *)

\* Mutant of RangeOf: the last CPU of a range is left out.
RangeOf_Open(lo, hi) == [k \in 1..(IF hi > lo THEN hi - lo ELSE 1) |-> lo + k - 1]

\* lo, then the loop from lo + 1 to hi.
RangeOf(lo, hi) == [k \in 1..(IF hi > lo THEN hi - lo + 1 ELSE 1) |-> lo + k - 1]

\* The item at place `it' goes up to the next comma.  It is a number, or two with
\* a dash between; the item ends where no more of it is understood, and the place
\* behind it is skipped, whatever is there.
ItemAt(content, it) ==
    LET comma == Min({p \in it..Len(content) : content[p] = COMMA} \cup {Len(content) + 1})
        number == it < comma /\ IsNumber(content[it])
        range == it + 1 < comma /\ content[it + 1] = DASH
        upTo == it + 2 < comma /\ IsNumber(content[it + 2])
    IN  IF ~number \/ (range /\ ~upTo) THEN [cpus |-> <<>>, next |-> it]
        ELSE IF range THEN [cpus |-> RangeOf(content[it], content[it + 2]), next |-> it + 4]
        ELSE [cpus |-> <<content[it]>>, next |-> it + 2]

\* At the end of a content, which begins before it.
Ending(content) ==
    IF content = <<>> THEN "overrun"
    ELSE IF content[Len(content)] = NEWLINE THEN "parsed" ELSE "MalformedFile"

\* What is read from each place of a content on: a list of CPUs, or why not.
\* Behind the end that place is outside the buffer.
ParseFrom(content) ==
    LET end == Len(content) + 1
        from[it \in 1..(end + 1)] ==
            IF it > end THEN [why |-> "overrun", siblings |-> <<>>]
            ELSE IF it = end THEN [why |-> Ending(content), siblings |-> <<>>]
            ELSE IF ItemAt(content, it).cpus = <<>> THEN [why |-> "MalformedFile", siblings |-> <<>>]
            ELSE [why |-> from[ItemAt(content, it).next].why,
                  siblings |-> ItemAt(content, it).cpus \o from[ItemAt(content, it).next].siblings]
    IN  from

Parse(content) == ParseFrom(content)[1]

-----------------------------------------------------------------------------
(* The loop over CPUs *)

i == Len(result)

\* The file of CPU i is opened.
OpenFile ==
    /\ listing = "open" /\ i \in online
    /\ listing' = "read"
    /\ UNCHANGED <<cores, online, hotplugs, result, seen>>

\* It does not exist, or cannot be opened for another reason: the list ends,
\* and the caller is not told which.
OpenFails ==
    /\ listing = "open"
    /\ listing' = "listed"
    /\ UNCHANGED <<cores, online, hotplugs, result, seen>>

\* It is read and parsed, and closed in any case.
ReadFile ==
    /\ listing = "read" /\ i \in online
    /\ LET r == Parse(KernelList(CoreOf(i) \cap online))
           parsed == r.why = "parsed"
           core == [core_idx |-> i, siblings |-> r.siblings]
       IN  /\ listing' = IF parsed THEN "open" ELSE r.why
           /\ result' = IF parsed THEN Append(result, core) ELSE result
    /\ seen' = Append(seen, online)
    /\ UNCHANGED <<cores, online, hotplugs>>

\* The CPU went offline since its file was opened, or the read fails otherwise.
ReadFails ==
    /\ listing = "read"
    /\ listing' = "CouldNotReadCPUFile"
    /\ UNCHANGED <<cores, online, hotplugs, result, seen>>

\* A CPU goes offline or comes back.
Hotplug(cpu) ==
    /\ listing \in {"open", "read"}
    /\ hotplugs < MaxHotplugs
    /\ hotplugs' = hotplugs + 1
    /\ online' = IF cpu \in online THEN online \ {cpu} ELSE online \cup {cpu}
    /\ UNCHANGED <<cores, listing, result, seen>>

ListNext ==
    \/ OpenFile \/ OpenFails \/ ReadFile \/ ReadFails
    \/ \E cpu \in Cpus : Hotplug(cpu)

-----------------------------------------------------------------------------
(* Properties *)

\* The first sibling of each core listed: the CPUs the benchmark pins threads to.
Firsts == {result[k].siblings[1] : k \in DOMAIN result}

\* Each core listed is that of its CPU, with every sibling that was online when
\* its file was read, ascending; what the kernel writes is never refused and
\* never read beyond its end.  The first siblings name every core listed, and
\* each once on a machine that does not change meanwhile; a CPU that comes or
\* goes between two reads may make one core appear once more, and no more often.
CoresAreListed ==
    /\ \A k \in DOMAIN result :
          LET s == result[k].siblings
          IN  /\ result[k].core_idx = k - 1 /\ k - 1 \in Range(s)
              /\ Range(s) = CoreOf(k - 1) \cap seen[k]
              /\ \A a, b \in DOMAIN s : a < b => s[a] < s[b]
    /\ listing \notin {"MalformedFile", "overrun"}
    /\ \A k \in DOMAIN result : Firsts \cap CoreOf(k - 1) # {}
    /\ \A c \in Range(cores) : Cardinality(Firsts \cap c) <= 1 + hotplugs

\* Whatever was read of a file, the parser looks outside it only if it ends in a
\* number: the place skipped is then the one behind the end, and the check for the
\* newline comes too late.  A file of more than 64 bytes is cut and may end so.
\* What is accepted ends in a newline and names a CPU, so that siblings[0] exists.
Contents ==
    {c \in UNION {[1..n -> {0, 2, COMMA, DASH, NEWLINE}] : n \in 1..MaxContent} :
        \A p \in 1..(Len(c) - 1) : ~(IsNumber(c[p]) /\ IsNumber(c[p + 1]))}

ParserStaysInside ==
    \A c \in Contents :
        LET r == Parse(c)
        IN  /\ r.why = "overrun" => IsNumber(Last(c))
            /\ r.why = "parsed" => r.siblings # <<>> /\ Last(c) = NEWLINE
=============================================================================
