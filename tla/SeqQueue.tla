------------------------------ MODULE SeqQueue ------------------------------
(***************************************************************************)
(* The struct seq_queue of caches-queues-lists.c, the queue to_main of     *)
(* mksquashfs.  The reader numbers the blocks it reads; deflators, fragment *)
(* threads and the reader itself insert them in any order; the main thread *)
(* takes them out in the order of their numbers.                           *)
(*                                                                         *)
(* A block is in the hands of the reader ("reading"), then of one of the   *)
(* threads that will insert it ("sent"), then in the hash table ("table"). *)
(* The hash table is the set of the blocks in it: seq_queue_get compares   *)
(* whole sequence numbers, so the chains only speed up the search.         *)
(***************************************************************************)
EXTENDS Integers, FiniteSets

CONSTANTS
    Blocks,      \* the blocks that can be in flight at once (file_buffers)
    SeqMod,      \* sequence numbers are kept modulo this (2^32)
    Interrupt    \* whether mksquashfs may be interrupted

\* The caches bound the number of buffers, far below the range of the counter.
ASSUME SeqAssumption ==
    /\ IsFiniteSet(Blocks)
    /\ SeqMod \in Nat \ {0} /\ Cardinality(Blocks) < SeqMod
    /\ Interrupt \in BOOLEAN

VARIABLES
    where,            \* where each block is
    number,           \* file_buffer->sequence
    fragment,         \* file_buffer->fragment
    seq,              \* the static counter of the reader
    sequence,         \* the static counter of seq_queue_get
    fragment_count,   \* queue->fragment_count
    block_count,      \* queue->block_count
    main,             \* whether the main thread waits in seq_queue_get
    producers         \* "joined" once restore_thrd has stopped them

seqVars == <<where, number, fragment, seq, sequence, fragment_count,
             block_count, main, producers>>

In(place) == {b \in Blocks : where[b] = place}

\* seq_queue_init and the two static counters.
SeqInit ==
    /\ where = [b \in Blocks |-> "free"]
    /\ number = [b \in Blocks |-> 0]
    /\ fragment = [b \in Blocks |-> FALSE]
    /\ seq = 0
    /\ sequence = 0
    /\ fragment_count = 0
    /\ block_count = 0
    /\ main = "running"
    /\ producers = "running"

-----------------------------------------------------------------------------
\* The reader gets a buffer and numbers it: file_buffer->sequence = seq ++.
\* reader_read_process holds on to the previous block while it reads the next.
ReaderTake(b) ==
    /\ producers = "running"
    /\ Cardinality(In("reading")) < 2
    /\ where[b] = "free"
    /\ where' = [where EXCEPT ![b] = "reading"]
    /\ number' = [number EXCEPT ![b] = seq]
    /\ seq' = (seq + 1) % SeqMod
    /\ UNCHANGED <<fragment, sequence, fragment_count, block_count, main, producers>>

\* put_file_buffer hands the older block on; only a block that goes to
\* to_process_frag has the fragment flag set.
ReaderSend(b, f) ==
    /\ producers = "running"
    /\ where[b] = "reading"
    /\ \A c \in In("reading") \ {b} : number[c] = (number[b] + 1) % SeqMod
    /\ where' = [where EXCEPT ![b] = "sent"]
    /\ fragment' = [fragment EXCEPT ![b] = f]
    /\ UNCHANGED <<number, seq, sequence, fragment_count, block_count, main, producers>>

\* Mutant of ReaderReturn: the number of the unused buffer is not given back.
ReaderReturnKeep(b, f) ==
    /\ producers = "running"
    /\ where[b] = "reading"
    /\ \E prev \in In("reading") \ {b} :
          /\ number[b] = (number[prev] + 1) % SeqMod
          /\ where' = [where EXCEPT ![b] = "free", ![prev] = "sent"]
          /\ fragment' = [fragment EXCEPT ![prev] = f]
    /\ UNCHANGED <<number, seq, sequence, fragment_count, block_count, main, producers>>

\* At the end of the file or at a read error reader_read_process finds itself
\* with a buffer too many: it releases the newer one, takes the number back
\* (seq --) and hands the previous one on.
ReaderReturn(b, f) ==
    /\ producers = "running"
    /\ where[b] = "reading"
    /\ \E prev \in In("reading") \ {b} :
          /\ number[b] = (number[prev] + 1) % SeqMod
          /\ where' = [where EXCEPT ![b] = "free", ![prev] = "sent"]
          /\ fragment' = [fragment EXCEPT ![prev] = f]
    /\ seq' = (seq - 1) % SeqMod
    /\ UNCHANGED <<number, sequence, fragment_count, block_count, main, producers>>

\* Mutant of SeqQueuePut: the count of fragments is not kept apart.
SeqQueuePutOneCount(b) ==
    /\ producers = "running"
    /\ where[b] = "sent"
    /\ where' = [where EXCEPT ![b] = "table"]
    /\ block_count' = block_count + 1
    /\ main' = IF number[b] = sequence /\ main = "waiting" THEN "woken" ELSE main
    /\ UNCHANGED <<number, fragment, seq, sequence, fragment_count, producers>>

\* Mutant of SeqQueuePut: the test for the signal looks one number ahead.
SeqQueuePutSignalNext(b) ==
    /\ producers = "running"
    /\ where[b] = "sent"
    /\ where' = [where EXCEPT ![b] = "table"]
    /\ fragment_count' = fragment_count + (IF fragment[b] THEN 1 ELSE 0)
    /\ block_count' = block_count + (IF fragment[b] THEN 0 ELSE 1)
    /\ main' = IF number[b] = (sequence + 1) % SeqMod /\ main = "waiting"
               THEN "woken" ELSE main
    /\ UNCHANGED <<number, fragment, seq, sequence, producers>>

\* seq_queue_put: the main thread is signalled only for the block it waits for.
SeqQueuePut(b) ==
    /\ producers = "running"
    /\ where[b] = "sent"
    /\ where' = [where EXCEPT ![b] = "table"]
    /\ fragment_count' = fragment_count + (IF fragment[b] THEN 1 ELSE 0)
    /\ block_count' = block_count + (IF fragment[b] THEN 0 ELSE 1)
    /\ main' = IF number[b] = sequence /\ main = "waiting" THEN "woken" ELSE main
    /\ UNCHANGED <<number, fragment, seq, sequence, producers>>

\* Mutant of SeqQueueGet: any block of the table will do.
SeqQueueGetAny ==
    /\ main # "waiting"
    /\ \E b \in In("table") :
          /\ where' = [where EXCEPT ![b] = "free"]
          /\ fragment_count' = fragment_count - (IF fragment[b] THEN 1 ELSE 0)
          /\ block_count' = block_count - (IF fragment[b] THEN 0 ELSE 1)
          /\ sequence' = (sequence + 1) % SeqMod
          /\ main' = "running"
    /\ UNCHANGED <<number, fragment, seq, producers>>

\* One pass of the loop of seq_queue_get, with the mutex held.
SeqQueueGet ==
    /\ main # "waiting"
    /\ \/ \E b \in In("table") :
             /\ number[b] = sequence
             /\ where' = [where EXCEPT ![b] = "free"]
             /\ fragment_count' = fragment_count - (IF fragment[b] THEN 1 ELSE 0)
             /\ block_count' = block_count - (IF fragment[b] THEN 0 ELSE 1)
             /\ sequence' = (sequence + 1) % SeqMod
             /\ main' = "running"
       \/ /\ \A b \in In("table") : number[b] # sequence
          /\ main' = "waiting"
          /\ UNCHANGED <<where, sequence, fragment_count, block_count>>
    /\ UNCHANGED <<number, fragment, seq, producers>>

SpuriousMainWakeup ==
    /\ main = "waiting"
    /\ main' = "woken"
    /\ UNCHANGED <<where, number, fragment, seq, sequence, fragment_count,
                   block_count, producers>>

\* restore_thrd joins the reader, the deflators and the fragment threads ...
JoinProducers ==
    /\ Interrupt
    /\ producers = "running"
    /\ producers' = "joined"
    /\ UNCHANGED <<where, number, fragment, seq, sequence, fragment_count,
                   block_count, main>>

\* ... and then empties the table: seq_queue_flush.  The buffers are dropped.
SeqQueueFlush ==
    /\ producers = "joined"
    /\ where' = [b \in Blocks |-> IF where[b] = "table" THEN "dropped" ELSE where[b]]
    /\ fragment_count' = 0
    /\ block_count' = 0
    /\ UNCHANGED <<number, fragment, seq, sequence, main, producers>>

SeqNext ==
    \/ \E b \in Blocks :
          \/ ReaderTake(b)
          \/ SeqQueuePut(b)
          \/ \E f \in BOOLEAN : ReaderSend(b, f) \/ ReaderReturn(b, f)
    \/ SeqQueueGet
    \/ SpuriousMainWakeup
    \/ JoinProducers
    \/ SeqQueueFlush

SeqSpec == SeqInit /\ [][SeqNext]_seqVars

\* The reader goes on with the file it reads, every thread that was handed a
\* block inserts it in the end, and the main thread runs when it can.
Fairness ==
    /\ \A b \in Blocks : WF_seqVars(\E f \in BOOLEAN : ReaderSend(b, f))
    /\ \A b \in Blocks : WF_seqVars(SeqQueuePut(b))
    /\ WF_seqVars(SeqQueueGet)

FairSpec == SeqSpec /\ Fairness

-----------------------------------------------------------------------------
(* The variables hold values of their C types. *)
SeqTypeOK ==
    /\ where \in [Blocks -> {"free", "reading", "sent", "table", "dropped"}]
    /\ number \in [Blocks -> 0..SeqMod-1]
    /\ fragment \in [Blocks -> BOOLEAN]
    /\ seq \in 0..SeqMod-1
    /\ sequence \in 0..SeqMod-1
    /\ fragment_count \in Nat
    /\ block_count \in Nat
    /\ main \in {"running", "waiting", "woken"}
    /\ producers \in {"running", "joined"}

(* seq_queue_put signals for one number only, and reads the counter of      *)
(* seq_queue_get to decide: the main thread never sleeps while the block it *)
(* waits for is in the table.                                               *)
NoLostMainWakeup ==
    main = "waiting" => \A b \in In("table") : number[b] # sequence

(* The two counters that dump_seq_queue prints are the numbers of fragments *)
(* and of blocks in the table, whatever order they came in.                 *)
CountsExact ==
    /\ fragment_count = Cardinality({b \in In("table") : fragment[b]})
    /\ block_count = Cardinality({b \in In("table") : ~fragment[b]})

InFlight == In("reading") \cup In("sent") \cup In("table")

(* The numbers in flight are exactly the ones between the counter of the    *)
(* main thread and the counter of the reader, each of them once: also after *)
(* the reader took a number back and after the counters wrapped around.  So *)
(* no block is skipped, delivered twice or delivered out of order, and the  *)
(* main thread never waits for a number that nobody has.                    *)
NumbersInFlight ==
    producers = "running" =>
        LET n == Cardinality(InFlight)
        IN  /\ seq = (sequence + n) % SeqMod
            /\ {number[b] : b \in InFlight} = {(sequence + i) % SeqMod : i \in 0..n-1}

(* Every block that the reader hands on reaches the main thread, unless      *)
(* restore_thrd stops the pipeline.                                         *)
EveryBlockDelivered ==
    \A b \in Blocks : where[b] = "sent" ~> (where[b] = "free" \/ producers = "joined")
=============================================================================
