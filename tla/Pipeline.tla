------------------------------ MODULE Pipeline ------------------------------
(***************************************************************************)
(* The library's one composition, the logging pipeline of                  *)
(* test/shclog/io/test_iouring.cpp:397-679: producer threads enqueue       *)
(* lines; a consumer collects them into one of two buffers and writes the  *)
(* full one through the ring while it collects into the other.             *)
(*                                                                         *)
(* The queue is used through what the queue modules establish of it: it is *)
(* an MpscChannel, and dequeue returns nullptr only if the channel is      *)
(* empty or an enqueue was between its claim and its publication during    *)
(* the call (UnboundedLinkedMPSCQ!NullMeansEmptyOrRacing).  The ring is    *)
(* used as EventedIo without a submission thread and without failing       *)
(* calls: every write is taken at once, reads its buffer at any time until *)
(* it completes, and a pop waits for some completion.                      *)
(*                                                                         *)
(* A line counts one byte and the file offset counts lines.  The preset    *)
(* file allocation (fallocate) and the benchmark code are left out.        *)
(***************************************************************************)
EXTENDS Integers, Sequences, FiniteSets, SequencesExt

CONSTANTS Producers,
          LinesPerProducer,
          MaxIoBytes,       \* MAX_IO_BYTES: buffer size in lines
          NULL

Lines == Producers \X (1..LinesPerProducer)

ASSUME SizesAssumption ==
    /\ IsFiniteSet(Producers)
    /\ LinesPerProducer \in Nat \ {0}
    /\ MaxIoBytes \in Nat /\ MaxIoBytes >= 2      \* every line fits a buffer
    /\ NULL \notin Lines

TotalLines == Cardinality(Producers) * LinesPerProducer
Buffers == {0, 1}

VARIABLES
    chan,       \* the queue: lines claimed and not taken (MpscChannel)
    out,        \* what the latest successful dequeue returned
    racing,     \* an enqueue overlapped the dequeue in progress
    made,       \* lines each producer has claimed a place for
    pc,         \* "make", "publish", "finish" (before fetch_add), "finished"
    cpc,        \* where the consumer is
    active,     \* active_buffer
    buffer,     \* buffers, with line_count and io_bytes as the length
    overflow,   \* the line that did not fit, or NULL
    inFlight,   \* in_flight
    offset,     \* file_offset
    writes,     \* writes the kernel works on: buffer, length and offset
    done,       \* buffers of completed writes not popped yet
    file,       \* what was written at each offset, NULL where nothing was
    expected    \* expected: lines consumed, in order

queueVars == <<chan, out>>
producerVars == <<made, pc>>
ringVars == <<writes, done, file>>
consumerVars == <<active, buffer, overflow, inFlight, offset, expected>>
vars == <<queueVars, racing, producerVars, cpc, consumerVars, ringVars>>

Queue == INSTANCE MpscChannel WITH Items <- Lines, Capacity <- TotalLines

Consumed == Len(expected)                                \* consumed_lines
AllFinished == \A p \in Producers : pc[p] = "finished"   \* producers_finished

TypeOK ==
    /\ Queue!TypeOK
    /\ racing \in BOOLEAN
    /\ made \in [Producers -> 0..LinesPerProducer]
    /\ pc \in [Producers -> {"make", "publish", "finish", "finished"}]
    /\ cpc \in {"top", "collect", "dequeue", "empty", "process", "flush", "quit",
                "retire", "push", "drain", "joined"}
    /\ active \in Buffers
    /\ buffer \in [Buffers -> Seq(Lines)]
    /\ overflow \in Lines \cup {NULL}
    /\ inFlight \in [Buffers -> BOOLEAN]
    /\ offset \in 0..TotalLines
    /\ writes \subseteq [buf : Buffers, len : 1..MaxIoBytes, at : 0..TotalLines]
    /\ done \in Seq(Buffers)
    /\ file \in [1..TotalLines -> Lines \cup {NULL}]
    /\ expected \in Seq(Lines)

Init ==
    /\ Queue!Init
    /\ racing = FALSE
    /\ made = [p \in Producers |-> 0]
    /\ pc = [p \in Producers |-> "make"]
    /\ cpc = "top"
    /\ active = 0
    /\ buffer = [b \in Buffers |-> <<>>]
    /\ overflow = NULL
    /\ inFlight = [b \in Buffers |-> FALSE]
    /\ offset = 0
    /\ writes = {} /\ done = <<>>
    /\ file = [k \in 1..TotalLines |-> NULL]
    /\ expected = <<>>

-----------------------------------------------------------------------------
(* Producer p: the loop of lines 438-457, then line 459 *)

ClaimLine(p) ==
    /\ pc[p] = "make"
    /\ Queue!Claim(<<p, made[p] + 1>>)
    /\ made' = [made EXCEPT ![p] = @ + 1]
    /\ pc' = [pc EXCEPT ![p] = "publish"]
    /\ racing' = TRUE
    /\ UNCHANGED <<cpc, consumerVars, ringVars>>

PublishLine(p) ==
    /\ pc[p] = "publish"
    /\ \E k \in 1..Len(chan) : chan[k].item = <<p, made[p]>> /\ Queue!Publish(k)
    /\ pc' = [pc EXCEPT ![p] = IF made[p] = LinesPerProducer THEN "finish" ELSE "make"]
    /\ UNCHANGED <<racing, made, cpc, consumerVars, ringVars>>

\* producers_finished.fetch_add(1).
Finish(p) ==
    /\ pc[p] = "finish"
    /\ pc' = [pc EXCEPT ![p] = "finished"]
    /\ UNCHANGED <<queueVars, racing, made, cpc, consumerVars, ringVars>>

Producer(p) == ClaimLine(p) \/ PublishLine(p) \/ Finish(p)

-----------------------------------------------------------------------------
(* The consumer: the loop of lines 492-651 *)

\* Begin a batch in the active buffer, or leave when every line was consumed.
Top ==
    /\ cpc = "top"
    /\ IF Consumed < TotalLines
       THEN /\ buffer' = [buffer EXCEPT ![active] = <<>>]
            /\ cpc' = "collect"
       ELSE /\ cpc' = "drain"
            /\ UNCHANGED buffer
    /\ UNCHANGED <<queueVars, racing, producerVars, active, overflow, inFlight, offset,
                   expected, ringVars>>

\* The batch ends when its time is over, at any moment, or nothing is left.
EndBatch ==
    /\ cpc = "collect"
    /\ cpc' = "flush"
    /\ UNCHANGED <<queueVars, racing, producerVars, consumerVars, ringVars>>

\* The next line: the one that did not fit the last buffer, or a dequeue.
NextLine ==
    /\ cpc = "collect"
    /\ Len(buffer[active]) < MaxIoBytes
    /\ Consumed < TotalLines
    /\ cpc' = IF overflow = NULL THEN "dequeue" ELSE "process"
    /\ racing' = \E k \in 1..Len(chan) : ~chan[k].ready
    /\ UNCHANGED <<queueVars, producerVars, consumerVars, ringVars>>

DequeueLine ==
    /\ cpc = "dequeue"
    /\ Queue!Take
    /\ overflow' = out'
    /\ cpc' = "process"
    /\ UNCHANGED <<racing, producerVars, active, buffer, inFlight, offset, expected,
                   ringVars>>

DequeueNull ==
    /\ cpc = "dequeue"
    /\ chan = <<>> \/ racing
    /\ cpc' = "empty"
    /\ UNCHANGED <<queueVars, racing, producerVars, consumerVars, ringVars>>

\* On nullptr, end the batch if all producers have finished (lines 542-548).
OnEmpty ==
    /\ cpc = "empty"
    /\ cpc' = IF AllFinished THEN "flush" ELSE "collect"
    /\ UNCHANGED <<queueVars, racing, producerVars, consumerVars, ringVars>>

\* Mutant of Process: a line that does not fit is not kept for the next buffer.
Process_DropOverflow ==
    /\ cpc = "process"
    /\ overflow' = NULL
    /\ IF Len(buffer[active]) + 1 >= MaxIoBytes
       THEN /\ cpc' = "flush"
            /\ UNCHANGED <<buffer, expected>>
       ELSE /\ buffer' = [buffer EXCEPT ![active] = Append(@, overflow)]
            /\ expected' = Append(expected, overflow)
            /\ cpc' = "collect"
    /\ UNCHANGED <<queueVars, racing, producerVars, active, inFlight, offset, ringVars>>

\* Lines 556-586.  `overflow' holds the line, as `message' does in the code,
\* and keeps it if the buffer has no room.
Process ==
    /\ cpc = "process"
    /\ IF Len(buffer[active]) + 1 >= MaxIoBytes
       THEN /\ cpc' = "flush"
            /\ UNCHANGED <<buffer, overflow, expected>>
       ELSE /\ buffer' = [buffer EXCEPT ![active] = Append(@, overflow)]
            /\ expected' = Append(expected, overflow)
            /\ overflow' = NULL
            /\ cpc' = "collect"
    /\ UNCHANGED <<queueVars, racing, producerVars, active, inFlight, offset, ringVars>>

\* Mutant of Flush: the other buffer's write is not waited for.
Flush_NoRetire ==
    /\ cpc = "flush"
    /\ cpc' = IF buffer[active] = <<>> THEN "quit" ELSE "push"
    /\ UNCHANGED <<queueVars, racing, producerVars, consumerVars, ringVars>>

\* Lines 590-597.
Flush ==
    /\ cpc = "flush"
    /\ cpc' = IF buffer[active] = <<>> THEN "quit"
              ELSE IF inFlight[1 - active] THEN "retire"
              ELSE "push"
    /\ UNCHANGED <<queueVars, racing, producerVars, consumerVars, ringVars>>

\* An empty batch: leave the loop if all producers have finished.
Quit ==
    /\ cpc = "quit"
    /\ cpc' = IF AllFinished THEN "drain" ELSE "top"
    /\ UNCHANGED <<queueVars, racing, producerVars, consumerVars, ringVars>>

\* pop_write, then in_flight[in_flight_buffer] = false.
Retire ==
    /\ cpc = "retire"
    /\ done # <<>>
    /\ done' = Tail(done)
    /\ inFlight' = [inFlight EXCEPT ![1 - active] = FALSE]
    /\ cpc' = "push"
    /\ UNCHANGED <<queueVars, racing, producerVars, active, buffer, overflow, offset,
                   expected, writes, file>>

\* Mutant of PushWrite: file_offset is not advanced.
PushWrite_SameOffset ==
    /\ cpc = "push"
    /\ writes' = writes \cup {[buf |-> active, len |-> Len(buffer[active]), at |-> offset]}
    /\ inFlight' = [inFlight EXCEPT ![active] = TRUE]
    /\ active' = 1 - active
    /\ cpc' = "top"
    /\ UNCHANGED <<queueVars, racing, producerVars, buffer, overflow, offset, expected,
                   done, file>>

\* Mutant of PushWrite: the consumer goes on with the buffer it submitted.
PushWrite_NoFlip ==
    /\ cpc = "push"
    /\ writes' = writes \cup {[buf |-> active, len |-> Len(buffer[active]), at |-> offset]}
    /\ offset' = offset + Len(buffer[active])
    /\ inFlight' = [inFlight EXCEPT ![active] = TRUE]
    /\ cpc' = "top"
    /\ UNCHANGED <<queueVars, racing, producerVars, active, buffer, overflow, expected,
                   done, file>>

\* Mutant of PushWrite: a third buffer.
PushWrite_ThirdBuffer ==
    /\ cpc = "push"
    /\ writes' = writes \cup {[buf |-> active, len |-> Len(buffer[active]), at |-> offset]}
    /\ offset' = offset + Len(buffer[active])
    /\ inFlight' = [inFlight EXCEPT ![active] = TRUE]
    /\ active' = active + 1
    /\ cpc' = "top"
    /\ UNCHANGED <<queueVars, racing, producerVars, buffer, overflow, expected, done, file>>

\* push_write of the active buffer; the other one becomes active.
PushWrite ==
    /\ cpc = "push"
    /\ writes' = writes \cup {[buf |-> active, len |-> Len(buffer[active]), at |-> offset]}
    /\ offset' = offset + Len(buffer[active])
    /\ inFlight' = [inFlight EXCEPT ![active] = TRUE]
    /\ active' = 1 - active
    /\ cpc' = "top"
    /\ UNCHANGED <<queueVars, racing, producerVars, buffer, overflow, expected, done, file>>

\* Mutant of DrainRing: it pops once for a buffer whose write is not in flight, too.
DrainRing_Untested ==
    /\ cpc = "drain"
    /\ done # <<>>
    /\ done' = Tail(done)
    /\ IF \E b \in Buffers : inFlight[b]
       THEN inFlight' = [b \in Buffers |-> FALSE] /\ UNCHANGED cpc
       ELSE cpc' = "joined" /\ UNCHANGED inFlight
    /\ UNCHANGED <<queueVars, racing, producerVars, active, buffer, overflow, offset,
                   expected, writes, file>>

\* After the loop, pop what is in flight (lines 659-679).
DrainRing ==
    /\ cpc = "drain"
    /\ IF \E b \in Buffers : inFlight[b]
       THEN /\ done # <<>>
            /\ done' = Tail(done)
            /\ \E b \in Buffers :
                 /\ inFlight[b] /\ \A c \in Buffers : inFlight[c] => b <= c
                 /\ inFlight' = [inFlight EXCEPT ![b] = FALSE]
            /\ UNCHANGED cpc
       ELSE cpc' = "joined" /\ UNCHANGED <<done, inFlight>>
    /\ UNCHANGED <<queueVars, racing, producerVars, active, buffer, overflow, offset,
                   expected, writes, file>>

Consumer ==
    \/ Top \/ EndBatch \/ NextLine \/ DequeueLine \/ DequeueNull \/ OnEmpty \/ Process
    \/ Flush \/ Quit \/ Retire \/ PushWrite \/ DrainRing

\* The kernel writes what the buffer holds at that time.
CompleteWrite(w) ==
    /\ w \in writes
    /\ writes' = writes \ {w}
    /\ done' = Append(done, w.buf)
    /\ file' = [k \in 1..TotalLines |->
                  IF k \in (w.at + 1)..(w.at + w.len) /\ k - w.at <= Len(buffer[w.buf])
                  THEN buffer[w.buf][k - w.at] ELSE file[k]]
    /\ UNCHANGED <<queueVars, racing, producerVars, cpc, consumerVars>>

Next ==
    \/ \E p \in Producers : Producer(p)
    \/ Consumer
    \/ \E w \in writes : CompleteWrite(w)

Spec == Init /\ [][Next]_vars

\* Threads are scheduled, writes complete, and a batch lasts long enough (33 ms)
\* that a consumer that begins batches for ever also looks at the queue.
FairSpec ==
    /\ Spec
    /\ \A p \in Producers : WF_vars(Producer(p))
    /\ WF_vars(Consumer) /\ SF_vars(NextLine)
    /\ WF_vars(\E w \in writes : CompleteWrite(w))

-----------------------------------------------------------------------------
(* Properties *)

\* A buffer is not touched while a write may still read it.
BufferStable ==
    [][\A w \in writes : w \in writes' => buffer'[w.buf] = buffer[w.buf]]_vars

\* in_flight is what the ring holds, and it never holds two writes: the pops,
\* which take any completion, are right about whose it is.
OneInFlight ==
    /\ {b \in Buffers : inFlight[b]} = {w.buf : w \in writes} \cup Range(done)
    /\ Cardinality(writes) + Len(done) <= 1

\* The lines in the order of the claims: consumed, held over for the next
\* buffer, or in the queue.
InOrder == expected \o (IF overflow = NULL THEN <<>> ELSE <<overflow>>)
             \o [k \in 1..Len(chan) |-> chan[k].item]

\* Those of one producer stand in the order it made them; none is there twice.
Rising(lines) ==
    \A j, k \in 1..Len(lines) :
        j < k /\ lines[j][1] = lines[k][1] => lines[j][2] < lines[k][2]

\* Every line that was made is in one of the three places, once, and no line has
\* overtaken an earlier one of its producer.
NoLineLost ==
    /\ Range(InOrder) = {l \in Lines : l[2] <= made[l[1]]}
    /\ Rising(InOrder)

\* When no write is outstanding the file is the lines consumed, without a hole,
\* short of those in the batch being collected.
FileIsExpected ==
    /\ offset <= Consumed
    /\ writes = {} => SubSeq(file, 1, offset) = SubSeq(expected, 1, offset)
    /\ cpc = "joined" => offset = Consumed

\* The pipeline ends.
Ends == <>(cpc = "joined")

\* The check after the loop (line 655).
AllLinesConsumedAtEnd == cpc \in {"drain", "joined"} => Consumed = TotalLines
=============================================================================
