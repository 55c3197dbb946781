------------------------------ MODULE Pipeline ------------------------------
(***************************************************************************)
(* The way of a file's data from the reader thread to the main thread of   *)
(* Mksquashfs: reader, deflators, fragment threads, main, writer, and the  *)
(* two caches whose buffers they pass on, reader_buffer and                *)
(* bwriter_buffer.                                                         *)
(*                                                                         *)
(* The reader numbers buffers and fans them out to threads that finish in  *)
(* any order; the main thread puts them together again in write_file,      *)
(* trusting the numbers alone.  The reader may find in the middle of a     *)
(* file that its size changed and start it again.  A thread that needs a   *)
(* buffer waits for one to be released further down the line.              *)
(*                                                                         *)
(* Queues are FIFO channels (Queue), to_main is a set of numbered buffers  *)
(* (SeqQueue), caches count their buffers in use (Cache).  What the main   *)
(* thread does with a block's position is in DataLayout.                   *)
(***************************************************************************)
EXTENDS Integers, Sequences, FiniteSets

CONSTANTS
    Files,           \* the number of files to read
    Kinds,           \* "file", and "process" for a dynamic pseudo file
    MaxBlocks,       \* the most buffers one file is read into
    MaxChanges,      \* how often a file changes its size while it is read
    Deflators, FragThreads,
    reader_size, bwriter_size,
    OldZeroTails,    \* the image appended to has fragments that are all zero
    None

ASSUME PipelineAssumption ==
    /\ {Files, MaxBlocks, MaxChanges} \subseteq Nat
    /\ Kinds \subseteq {"file", "process"}
    /\ IsFiniteSet(Deflators) /\ IsFiniteSet(FragThreads)
    /\ {reader_size, bwriter_size} \subseteq Nat \ {0}
    /\ OldZeroTails \in BOOLEAN

Unknown == -1        \* file_size of a pseudo file before its last block

\* What fstat tells of a file: how many buffers it takes.  0 is an empty file.
Sizes == 0..MaxBlocks

\* struct file_buffer: of which reading of which file it is, its number, and
\* the cache it was taken from ("heap": from malloc).
Buffers == [file : Nat, try : Nat, block : Nat, seq : Nat, size : Nat \cup {Unknown},
            error : 0..2, fragment : BOOLEAN, sparse : BOOLEAN,
            cache : {"reader", "bwriter", "heap"}]
ASSUME NoneAssumption == None \notin Buffers

VARIABLES
    reader,          \* the file being read, the try, the next block, the size
    prev_buffer,     \* reader_read_process's buffer not yet passed on
    seq,             \* the reader's sequence number
    to_deflate, to_process_frag,
    to_main, sequence,
    deflator,        \* per deflator: where it is, the block it compresses
    fragment,        \* per fragment thread: the buffer it has
    main,            \* the file being written, the try, the next block
    buffer_list,     \* write_file_blocks_dup: the number of blocks kept back
    fragment_buffer, \* the number of tails the main thread holds
    to_writer,       \* the number of blocks the writer has to write
    reader_used, bwriter_used,    \* buffers in use of the two caches
    changes

queues == <<to_deflate, to_process_frag>>
readerVars == <<reader, prev_buffer, seq, changes>>
mainVars == <<main, buffer_list, fragment_buffer, sequence>>
vars == <<readerVars, queues, to_main, deflator, fragment, mainVars, to_writer,
          reader_used, bwriter_used>>

\* The reader's state at the beginning of a file.  A pseudo file has no size.
File(f, kind, size) ==
    [file |-> f, kind |-> kind, try |-> 1, block |-> 0,
     size |-> IF kind = "process" THEN Unknown ELSE size]

\* The main thread's state between two files.
Waiting(f) == [file |-> f, at |-> "first", try |-> 0, block |-> 0, blocks |-> 0, dup |-> FALSE]

Init ==
    /\ \E s \in Sizes, k \in Kinds : reader = File(1, k, s)
    /\ prev_buffer = None /\ seq = 0 /\ changes = 0
    /\ to_deflate = <<>> /\ to_process_frag = <<>>
    /\ to_main = {} /\ sequence = 0
    /\ deflator = [d \in Deflators |-> [at |-> "start", block |-> None]]
    /\ fragment = [t \in FragThreads |-> None]
    /\ main = Waiting(1)
    /\ buffer_list = 0 /\ fragment_buffer = 0 /\ to_writer = 0
    /\ reader_used = 0 /\ bwriter_used = 0

-----------------------------------------------------------------------------
(* The reader thread *)

\* The buffer with the next number.  error, fragment and the rest are set
\* before it is passed on; c_byte = 0 marks a sparse block.
Buffer(size) ==
    [file |-> reader.file, try |-> reader.try, block |-> reader.block, seq |-> seq,
     size |-> size, error |-> 0, fragment |-> FALSE, sparse |-> FALSE, cache |-> "reader"]

\* cache_get_nohash(reader_buffer) need not wait.
ReadBufferFree == reader_used < reader_size

\* put_file_buffer
PutFileBuffer(b) ==
    \/ /\ b.error # 0 \/ b.size = 0
       /\ to_main' = to_main \cup {b}
       /\ UNCHANGED queues
    \/ /\ b.error = 0 /\ b.size # 0
       /\ IF b.fragment
          THEN /\ to_process_frag' = Append(to_process_frag, b)
               /\ UNCHANGED to_deflate
          ELSE /\ to_deflate' = Append(to_deflate, b)
               /\ UNCHANGED to_process_frag
       /\ UNCHANGED to_main

\* The next file, of whatever size it has by then.
NextFile == \E s \in Sizes, k \in Kinds : reader' = File(reader.file + 1, k, s)

\* One buffer of reader_read_file: it is taken from the cache and numbered,
\* and read.  The file turns out to have its size, or another one (error 2,
\* and it is read again from the start), or cannot be read or opened.
ReadFile ==
    /\ reader.file <= Files /\ reader.kind = "file"
    /\ ReadBufferFree
    /\ reader_used' = reader_used + 1
    /\ seq' = seq + 1
    /\ LET last == reader.block + 1 >= reader.size
       IN \/ \E sparse, frag \in BOOLEAN :
                /\ frag => last /\ reader.size # 0
                /\ PutFileBuffer([Buffer(reader.size) EXCEPT
                                     !.fragment = frag, !.sparse = sparse])
                /\ IF last THEN NextFile
                           ELSE reader' = [reader EXCEPT !.block = @ + 1]
                /\ UNCHANGED changes
          \/ /\ changes < MaxChanges
             /\ changes' = changes + 1
             /\ PutFileBuffer([Buffer(reader.size) EXCEPT !.error = 2])
             /\ \E s \in Sizes \ {reader.size} :
                   reader' = [reader EXCEPT !.try = @ + 1, !.block = 0, !.size = s]
          \/ /\ PutFileBuffer([Buffer(reader.size) EXCEPT !.error = 1])
             /\ NextFile
             /\ UNCHANGED changes
    /\ UNCHANGED <<prev_buffer, deflator, fragment, mainVars, to_writer, bwriter_used>>

\* One buffer of reader_read_process, which passes a block on only when it has
\* read the next one: data; or the end of the input (of an empty file, or
\* with the last block waiting in prev_buffer); or an error of the command,
\* reported in place of the last block.
ReadProcess ==
    /\ reader.file <= Files /\ reader.kind = "process"
    /\ ReadBufferFree
    /\ \/ /\ reader.block < MaxBlocks
          /\ seq' = seq + 1
          /\ reader_used' = reader_used + 1
          /\ \E sparse \in BOOLEAN :
                prev_buffer' = [Buffer(Unknown) EXCEPT !.sparse = sparse]
          /\ reader' = [reader EXCEPT !.block = @ + 1]
          /\ IF prev_buffer = None THEN UNCHANGED <<queues, to_main>>
                                   ELSE PutFileBuffer(prev_buffer)
       \/ /\ prev_buffer = None
          /\ seq' = seq + 1
          /\ reader_used' = reader_used + 1
          /\ \E error \in 0..1 : PutFileBuffer([Buffer(0) EXCEPT !.error = error])
          /\ NextFile /\ UNCHANGED prev_buffer
       \/ /\ prev_buffer # None
          /\ UNCHANGED <<seq, reader_used>>
          /\ \E error \in 0..1, frag \in BOOLEAN :
                PutFileBuffer([prev_buffer EXCEPT !.size = reader.block,
                                   !.error = error, !.fragment = frag])
          /\ prev_buffer' = None /\ NextFile
    /\ UNCHANGED <<changes, deflator, fragment, mainVars, to_writer, bwriter_used>>

-----------------------------------------------------------------------------
(* The deflator and fragment threads *)

\* cache_get_nohash(bwriter_buffer), before the next block is taken.
DeflatorGetBuffer(d) ==
    /\ deflator[d].at = "start"
    /\ bwriter_used < bwriter_size
    /\ bwriter_used' = bwriter_used + 1
    /\ deflator' = [deflator EXCEPT ![d].at = "idle"]
    /\ UNCHANGED <<readerVars, queues, to_main, fragment, mainVars, to_writer, reader_used>>

DeflatorTake(d) ==
    /\ deflator[d].at = "idle" /\ to_deflate # <<>>
    /\ deflator' = [deflator EXCEPT ![d] = [at |-> "compress", block |-> Head(to_deflate)]]
    /\ to_deflate' = Tail(to_deflate)
    /\ UNCHANGED <<readerVars, to_process_frag, to_main, fragment, mainVars, to_writer,
                   reader_used, bwriter_used>>

\* A sparse block is passed on as it is and the deflator keeps its write
\* buffer; otherwise the compressed block goes on and the read buffer back.
DeflatorPut(d) ==
    LET b == deflator[d].block
    IN  /\ deflator[d].at = "compress"
        /\ \/ /\ b.sparse
              /\ to_main' = to_main \cup {b}
              /\ deflator' = [deflator EXCEPT ![d] = [at |-> "idle", block |-> None]]
              /\ UNCHANGED reader_used
           \/ /\ ~b.sparse
              /\ to_main' = to_main \cup {[b EXCEPT !.cache = "bwriter"]}
              /\ reader_used' = reader_used - 1
              /\ deflator' = [deflator EXCEPT ![d] = [at |-> "start", block |-> None]]
        /\ UNCHANGED <<readerVars, queues, fragment, mainVars, to_writer, bwriter_used>>

FragTake(t) ==
    /\ fragment[t] = None /\ to_process_frag # <<>>
    /\ fragment' = [fragment EXCEPT ![t] = Head(to_process_frag)]
    /\ to_process_frag' = Tail(to_process_frag)
    /\ UNCHANGED <<readerVars, to_deflate, to_main, deflator, mainVars, to_writer,
                   reader_used, bwriter_used>>

\* The rest of a pass of frag_thrd: a sparse tail becomes an ordinary sparse
\* block; of a file that is all tail and was recognised as a duplicate, a copy
\* from the heap is passed on and the read buffer released.
FragPut(t) ==
    LET b == fragment[t]
    IN  /\ b # None
        /\ fragment' = [fragment EXCEPT ![t] = None]
        /\ \/ /\ to_main' = to_main \cup {[b EXCEPT !.fragment = ~b.sparse]}
              /\ UNCHANGED reader_used
           \/ /\ b.size = 1 /\ (b.sparse => OldZeroTails)
              /\ to_main' = to_main \cup {[b EXCEPT !.fragment = ~b.sparse, !.cache = "heap"]}
              /\ reader_used' = reader_used - 1
        /\ UNCHANGED <<readerVars, queues, deflator, mainVars, to_writer, bwriter_used>>

-----------------------------------------------------------------------------
(* The main thread: write_file *)

\* seq_queue_get(to_main) returns the buffer whose turn it is.
Arrived == {b \in to_main : b.seq = sequence}

\* cache_block_put of a read buffer, or of what passes for one.
PutReadBuffer == reader_used' = reader_used - 1

\* write_file when the first buffer decides what becomes of the file at once:
\* it cannot be read (1), is read again (2), is empty or is a single tail.
WriteFile ==
    \E b \in Arrived :
        /\ main.at = "first"
        /\ \/ b.error # 0 /\ PutReadBuffer
           \/ b.error = 0 /\ b.size = 0 /\ PutReadBuffer
           \/ /\ b.error = 0 /\ b.size # Unknown /\ b.fragment
              /\ IF b.cache = "heap" THEN UNCHANGED reader_used ELSE PutReadBuffer
        /\ to_main' = to_main \ {b} /\ sequence' = sequence + 1
        /\ main' = Waiting(IF b.error = 2 THEN main.file ELSE main.file + 1)
        /\ UNCHANGED <<readerVars, queues, deflator, fragment, buffer_list, fragment_buffer,
                       to_writer, bwriter_used>>

\* Mutant of Thresh: the blocks that are kept back are not limited.
ThreshZero(blocks) == 0

Thresh(blocks) == IF blocks > bwriter_size THEN blocks - bwriter_size ELSE 0

\* One block b of write_file_process, write_file_blocks or
\* write_file_blocks_dup, with the file in state m.  The last one completes the
\* file: blocks kept back are written, or released if it is a duplicate.
Block(b, m) ==
    LET last == IF m.blocks = Unknown THEN b.size # Unknown ELSE m.block + 1 >= m.blocks
        keep == m.dup /\ m.block >= Thresh(m.blocks) /\ ~b.fragment /\ ~b.sparse
        write == ~keep /\ ~b.fragment /\ ~b.sparse
        kept == buffer_list + (IF keep THEN 1 ELSE 0)
        tails == fragment_buffer + (IF b.fragment THEN 1 ELSE 0)
    IN  /\ \/ /\ ~last
              /\ main' = [m EXCEPT !.at = "next", !.block = @ + 1]
              /\ buffer_list' = kept /\ fragment_buffer' = tails
              /\ to_writer' = to_writer + (IF write THEN 1 ELSE 0)
              /\ reader_used' = reader_used - (IF b.sparse THEN 1 ELSE 0)
              /\ UNCHANGED bwriter_used
           \/ /\ last
              /\ main' = Waiting(m.file + 1)
              /\ buffer_list' = 0 /\ fragment_buffer' = 0
              /\ reader_used' = reader_used - (IF b.sparse THEN 1 ELSE 0) - tails
              /\ \E duplicate \in {FALSE, m.dup} :
                    /\ to_writer' = to_writer + (IF write THEN 1 ELSE 0)
                                        + (IF duplicate THEN 0 ELSE kept)
                    /\ bwriter_used' = bwriter_used - (IF duplicate THEN kept ELSE 0)
        /\ to_main' = to_main \ {b} /\ sequence' = sequence + 1
        /\ UNCHANGED <<readerVars, queues, deflator, fragment>>

\* The first block; pre_duplicate finds a file of this size or not.
FirstBlock ==
    \E b \in Arrived, dup \in BOOLEAN :
        /\ main.at = "first" /\ b.error = 0 /\ b.size # 0
        /\ b.size # Unknown => ~b.fragment
        /\ b.size = Unknown => ~dup
        /\ Block(b, [file |-> main.file, at |-> "next", try |-> b.try, block |-> 0,
                     blocks |-> b.size, dup |-> dup])

NextBlock ==
    \E b \in Arrived :
        /\ main.at = "next" /\ b.error = 0
        /\ Block(b, main)

\* Mutant of NextError: the blocks kept back are forgotten.
NextErrorLeak ==
    \E b \in Arrived :
        /\ main.at = "next" /\ b.error # 0
        /\ PutReadBuffer
        /\ buffer_list' = 0
        /\ to_main' = to_main \ {b} /\ sequence' = sequence + 1
        /\ main' = Waiting(IF b.error = 2 THEN main.file ELSE main.file + 1)
        /\ UNCHANGED <<readerVars, queues, deflator, fragment, fragment_buffer, to_writer,
                       bwriter_used>>

\* Mutant of NextError: a file that changed is not started again.
NextErrorNoRetry ==
    \E b \in Arrived :
        /\ main.at = "next" /\ b.error # 0
        /\ PutReadBuffer
        /\ bwriter_used' = bwriter_used - buffer_list
        /\ buffer_list' = 0
        /\ to_main' = to_main \ {b} /\ sequence' = sequence + 1
        /\ main' = Waiting(main.file + 1)
        /\ UNCHANGED <<readerVars, queues, deflator, fragment, fragment_buffer, to_writer>>

\* read_err: what was kept back of the file is released; an error 2 makes
\* write_file start the file again.
NextError ==
    \E b \in Arrived :
        /\ main.at = "next" /\ b.error # 0
        /\ PutReadBuffer
        /\ bwriter_used' = bwriter_used - buffer_list
        /\ buffer_list' = 0
        /\ to_main' = to_main \ {b} /\ sequence' = sequence + 1
        /\ main' = Waiting(IF b.error = 2 THEN main.file ELSE main.file + 1)
        /\ UNCHANGED <<readerVars, queues, deflator, fragment, fragment_buffer, to_writer>>

-----------------------------------------------------------------------------
\* The writer writes a block and releases its buffer.
Writer ==
    /\ to_writer > 0
    /\ to_writer' = to_writer - 1
    /\ bwriter_used' = bwriter_used - 1
    /\ UNCHANGED <<readerVars, queues, to_main, deflator, fragment, mainVars, reader_used>>

\* The main thread has written every file.
Finished == main.file > Files /\ UNCHANGED vars

Reader == ReadFile \/ ReadProcess
Deflator(d) == DeflatorGetBuffer(d) \/ DeflatorTake(d) \/ DeflatorPut(d)
FragThread(t) == FragTake(t) \/ FragPut(t)
Main == WriteFile \/ FirstBlock \/ NextBlock \/ NextError

Next ==
    \/ Reader \/ Main \/ Writer
    \/ \E d \in Deflators : Deflator(d)
    \/ \E t \in FragThreads : FragThread(t)
    \/ Finished

Spec == Init /\ [][Next]_vars

\* Every thread keeps running.  WF suffices: only the reader allocates read
\* buffers, so its wait for one cannot be overtaken; among the deflators one
\* that waits for a write buffer may be overtaken, but then another runs.
Fairness == /\ WF_vars(Reader) /\ WF_vars(Main) /\ WF_vars(Writer)
            /\ \A d \in Deflators : WF_vars(Deflator(d))
            /\ \A t \in FragThreads : WF_vars(FragThread(t))
FairSpec == Spec /\ Fairness

-----------------------------------------------------------------------------
Compressing == {d \in Deflators : deflator[d].at = "compress"}
Count(cache) == Cardinality({b \in to_main : b.cache = cache})

\* The buffers that exist of each cache, wherever they are.
ReadBuffers ==
    (IF prev_buffer = None THEN 0 ELSE 1) + Len(to_deflate) + Len(to_process_frag)
      + Cardinality(Compressing) + Cardinality({t \in FragThreads : fragment[t] # None})
      + Count("reader") + fragment_buffer
WriteBuffers ==
    Cardinality({d \in Deflators : deflator[d].at # "start"}) + Count("bwriter")
      + buffer_list + to_writer

(* The counters have their ranges, and the two queues the reader fills,      *)
(* which are as long as its cache, never make it wait.                       *)
TypeOK ==
    /\ reader_used \in 0..reader_size /\ bwriter_used \in 0..bwriter_size
    /\ Len(to_deflate) <= reader_size /\ Len(to_process_frag) <= reader_size
    /\ sequence <= seq
    /\ main.at \in {"first", "next"}

(* Main trusts the numbers: between files it expects the first block of the  *)
(* next one, within a file the next block of the same reading of the same    *)
(* file.  That is what arrives, although files are read again from the start *)
(* when they change, threads overtake each other, and the reader takes       *)
(* numbers back.                                                             *)
RightBuffer ==
    \A b \in Arrived :
        /\ b.file = main.file
        /\ b.block = main.block
        /\ main.at = "next" => b.try = main.try

(* No path loses a buffer or releases one twice: the caches count exactly    *)
(* the buffers that some thread or queue has, through re-reads, read errors  *)
(* and duplicates.  "The cache will grow up to max_buffers in size"          *)
(* (cache_init), and there are never more buffers than that.                 *)
BuffersAccounted == TypeOK /\ reader_used = ReadBuffers /\ bwriter_used = WriteBuffers

(* Every file is written: no two threads wait for each other's buffers, even *)
(* with a file longer than the write cache of which all blocks but the first *)
(* are kept back.                                                            *)
Terminates == <>(main.file > Files)
=============================================================================
