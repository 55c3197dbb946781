------------------------------ MODULE Unsquash ------------------------------
(***************************************************************************)
(* The threads of Unsquashfs that extract files: the main thread           *)
(* (dir_scan, create_inode, write_file) walks the tree and asks the two    *)
(* caches for the blocks of each file; the reader and the inflators fill   *)
(* the cache entries; the writer waits for each entry in turn, writes it   *)
(* out and releases it.                                                    *)
(*                                                                         *)
(* A cache entry is shared by all files that have the block in common, is  *)
(* filled after it was handed to the writer, and is used again for another *)
(* block once nobody refers to it.                                         *)
(*                                                                         *)
(* The queues are the bounded FIFO channels of Queue: queue_put and        *)
(* queue_get are the same code as Mksquashfs'.  A stretch of code under    *)
(* the mutex of a cache is one step.                                       *)
(***************************************************************************)
EXTENDS Integers, Sequences, FiniteSets, LinkedLists

CONSTANTS
    List,             \* what the scan meets, in order: see ListAssumption
    Blocks, FragBlocks,      \* data blocks and fragment blocks of the image
    Hole,             \* a sparse block
    None,
    Inflators,
    data_buffer_size, fragment_buffer_size, max_files,
    Faults            \* what may go wrong in an execution: see FaultAssumption

\* mkdir and enddir frame a directory; file creates a regular file with the
\* given blocks, link another name of the file created at position `of'.
\* dir_scan goes depth first, so nothing is created in a directory after its end.
ASSUME ListAssumption ==
    /\ Len(List) \in Nat /\ DOMAIN List = 1..Len(List)
    /\ \A i \in DOMAIN List :
          /\ List[i].op \in {"mkdir", "file", "link", "enddir"}
          /\ List[i].op = "file" => List[i].blocks \in Seq(Blocks \cup FragBlocks \cup {Hole})
          /\ List[i].op = "link" => List[i].of \in 1..(i - 1)
          /\ List[i].op = "enddir" =>
                \A j \in DOMAIN List : i < j /\ List[j].op # "enddir" => List[j].dir # List[i].dir
    /\ Blocks \cap FragBlocks = {} /\ Hole \notin Blocks \cup FragBlocks
    /\ None \notin Blocks \cup FragBlocks \cup {Hole}

ASSUME BufferAssumption ==
    {data_buffer_size, fragment_buffer_size, max_files} \subseteq Nat \ {0}

\* The blocks that cannot be read or decompressed, whether writing to the
\* destination may fail, and whether creating a file there may.
ASSUME FaultAssumption ==
    Faults \subseteq [bad : SUBSET (Blocks \cup FragBlocks), write : BOOLEAN, open : BOOLEAN]

Caches == {"data", "frag"}
CacheOf(b) == IF b \in Blocks THEN "data" ELSE "frag"
max_buffers == [c \in Caches |-> IF c = "data" THEN data_buffer_size ELSE fragment_buffer_size]

\* The entries a cache can allocate.
Entries == UNION {{<<c, n>> : n \in 1..max_buffers[c]} : c \in Caches}
ASSUME EntryAssumption == None \notin Entries

\* initialise_threads
to_reader_size == max_files + data_buffer_size
to_inflate_size == max_files + data_buffer_size
to_writer_size == 2 * max_files + data_buffer_size

VARIABLES
    faults,                 \* an element of Faults, the same all the time
    scan,                   \* the position of the main thread in List
    main,                   \* where it is, the block it is at, its entry
    entry,                  \* block, data, used, pending, error of the entries
    count, free_list,       \* of each cache
    wait_free, wait_pending,
    to_reader, to_inflate, to_writer, from_writer,
    reader, inflator,       \* the entries these threads work on
    writer,                 \* where it is, its file, block and entry
    open_count,
    output,                 \* the blocks written of each file
    present,                \* the names that exist: positions in List
    closed                  \* the directories whose attributes are set

cacheVars == <<entry, count, free_list, wait_free>>
queueVars == <<to_reader, to_inflate, to_writer, from_writer>>
fsVars == <<output, present, closed>>
vars == <<faults, scan, main, cacheVars, wait_pending, queueVars, reader, inflator, writer,
          open_count, fsVars>>

Init ==
    /\ faults \in Faults
    /\ scan = 1 /\ main = [at |-> "scan", block |-> 1, entry |-> None]
    /\ entry = [e \in Entries |-> [block |-> None, data |-> None, used |-> 0,
                                   pending |-> FALSE, error |-> FALSE]]
    /\ count = [c \in Caches |-> 0] /\ free_list = [c \in Caches |-> <<>>]
    /\ wait_free = [c \in Caches |-> FALSE] /\ wait_pending = [c \in Caches |-> FALSE]
    /\ to_reader = <<>> /\ to_inflate = <<>> /\ to_writer = <<>> /\ from_writer = 0
    /\ reader = None /\ inflator = [i \in Inflators |-> None]
    /\ writer = [at |-> "idle", file |-> 0, block |-> 1, entry |-> None, failed |-> FALSE]
    /\ open_count = max_files
    /\ output = [i \in DOMAIN List |-> <<>>] /\ present = {} /\ closed = {}

-----------------------------------------------------------------------------
(* The main thread *)

Step(op) == scan <= Len(List) /\ List[scan].op = op
F == List[scan]
B == F.blocks[main.block]

\* On to the next block of the file, or to what the scan meets next.
NextBlock ==
    IF main.block < Len(F.blocks)
    THEN /\ main' = [at |-> "block", block |-> main.block + 1, entry |-> None]
         /\ UNCHANGED scan
    ELSE /\ main' = [at |-> "scan", block |-> 1, entry |-> None]
         /\ scan' = scan + 1

\* mkdir of a directory (which never fails here), or link().
MakeName ==
    /\ main.at = "scan" /\ (Step("mkdir") \/ Step("link"))
    /\ present' = IF Step("link") /\ F.of \notin present THEN present ELSE present \cup {scan}
    /\ scan' = scan + 1
    /\ UNCHANGED <<main, cacheVars, wait_pending, queueVars, reader, inflator, writer,
                   open_count, output, closed>>

\* Mutant of OpenWait: the file is not counted.
OpenWaitNoCount ==
    /\ main.at = "scan" /\ Step("file")
    /\ open_count > 0
    /\ present' = present \cup {scan}
    /\ main' = [main EXCEPT !.at = "queue"]
    /\ UNCHANGED <<scan, open_count, cacheVars, wait_pending, queueVars, reader, inflator,
                   writer, output, closed>>

\* open_wait: open() is called when the count allows it; if it fails, the file
\* is skipped.
OpenWait ==
    /\ main.at = "scan" /\ Step("file")
    /\ open_count > 0
    /\ open_count' = open_count - 1
    /\ \/ /\ faults.open
          /\ scan' = scan + 1
          /\ UNCHANGED <<main, present>>
       \/ /\ present' = present \cup {scan}
          /\ main' = [main EXCEPT !.at = "queue"]
          /\ UNCHANGED scan
    /\ UNCHANGED <<cacheVars, wait_pending, queueVars, reader, inflator, writer, output, closed>>

\* queue_file
QueueFile ==
    /\ main.at = "queue" /\ Len(to_writer) < to_writer_size
    /\ to_writer' = Append(to_writer, [item |-> "file", of |-> scan])
    /\ IF F.blocks = <<>>
       THEN scan' = scan + 1 /\ main' = [main EXCEPT !.at = "scan"]
       ELSE main' = [main EXCEPT !.at = "block"] /\ UNCHANGED scan
    /\ UNCHANGED <<cacheVars, wait_pending, to_reader, to_inflate, from_writer, reader, inflator,
                   writer, open_count, fsVars>>

\* remove_free_list, of an entry that is in the list once.
Without(s, e) == RemoveNth(s, CHOOSE k \in 1..Len(s) : s[k] = e)

\* Mutant of CacheHit: a block found on the free list stays there.
CacheHitKeepsFree(e) ==
    /\ entry' = [entry EXCEPT ![e].used = @ + 1]
    /\ main' = [main EXCEPT !.at = "put", !.entry = e]
    /\ UNCHANGED <<count, free_list, wait_free>>

\* cache_get of a block that is in the cache, ready or not.
CacheHit(e) ==
    /\ entry' = [entry EXCEPT ![e].used = @ + 1]
    /\ free_list' = IF entry[e].used = 0 THEN [free_list EXCEPT ![e[1]] = Without(@, e)]
                                         ELSE free_list
    /\ main' = [main EXCEPT !.at = "put", !.entry = e]
    /\ UNCHANGED <<count, wait_free>>

\* cache_get of a block that is not: entry e is set up for it, pending.
Reserve(e, b) ==
    /\ entry' = [entry EXCEPT ![e] = [block |-> b, data |-> None, used |-> 1,
                                      pending |-> TRUE, error |-> FALSE]]
    /\ main' = [main EXCEPT !.at = "read", !.entry = e]

\* The free list gives its oldest entry; main waits while it is empty.
TakeFree(b) ==
    LET c == CacheOf(b)
    IN  \/ /\ free_list[c] # <<>>
           /\ Reserve(Head(free_list[c]), b)
           /\ free_list' = [free_list EXCEPT ![c] = Tail(@)]
           /\ UNCHANGED <<count, wait_free>>
        \/ /\ free_list[c] = <<>>
           /\ wait_free' = [wait_free EXCEPT ![c] = TRUE]
           /\ main' = [main EXCEPT !.at = "sleep"]
           /\ UNCHANGED <<entry, count, free_list>>

\* write_file's loop up to cache_get; the wait for a free entry resumes in it.
CacheGet ==
    /\ \/ /\ main.at = "block"
          /\ LET hit == {e \in Entries : entry[e].block = B}
                 c == CacheOf(B)
             IN \/ /\ B = Hole
                   /\ main' = [main EXCEPT !.at = "put", !.entry = None]
                   /\ UNCHANGED cacheVars
                \/ B # Hole /\ \E e \in hit : CacheHit(e)
                \/ /\ B # Hole /\ hit = {} /\ count[c] < max_buffers[c]
                   /\ count' = [count EXCEPT ![c] = @ + 1]
                   /\ Reserve(<<c, count[c] + 1>>, B)
                   /\ UNCHANGED <<free_list, wait_free>>
                \/ B # Hole /\ hit = {} /\ count[c] = max_buffers[c] /\ TakeFree(B)
       \/ main.at = "woken" /\ TakeFree(B)
    /\ UNCHANGED <<scan, wait_pending, queueVars, reader, inflator, writer, open_count, fsVars>>

QueueRead ==
    /\ main.at = "read" /\ Len(to_reader) < to_reader_size
    /\ to_reader' = Append(to_reader, main.entry)
    /\ main' = [main EXCEPT !.at = "put"]
    /\ UNCHANGED <<scan, cacheVars, wait_pending, to_inflate, to_writer, from_writer, reader,
                   inflator, writer, open_count, fsVars>>

\* of and nth, the file and the number of the block, are ghosts: the file_entry
\* that is queued has only the cache entry, an offset and a size.
QueueBlock ==
    /\ main.at = "put" /\ Len(to_writer) < to_writer_size
    /\ to_writer' = Append(to_writer, [item |-> "block", of |-> scan, nth |-> main.block,
                                       entry |-> main.entry])
    /\ NextBlock
    /\ UNCHANGED <<cacheVars, wait_pending, to_reader, to_inflate, from_writer, reader, inflator,
                   writer, open_count, fsVars>>

\* Mutant of QueueDir: the attributes are set at once by the main thread.
QueueDirDirect ==
    /\ main.at = "scan" /\ Step("enddir")
    /\ closed' = closed \cup {F.dir}
    /\ scan' = scan + 1
    /\ UNCHANGED <<main, cacheVars, wait_pending, queueVars, reader, inflator, writer, open_count,
                   output, present>>

\* queue_dir at the end of a directory.
QueueDir ==
    /\ main.at = "scan" /\ Step("enddir") /\ Len(to_writer) < to_writer_size
    /\ to_writer' = Append(to_writer, [item |-> "dir", of |-> F.dir])
    /\ scan' = scan + 1
    /\ UNCHANGED <<main, cacheVars, wait_pending, to_reader, to_inflate, from_writer, reader,
                   inflator, writer, open_count, fsVars>>

\* main(): queue_put(to_writer, NULL) and queue_get(from_writer).
EndScan ==
    /\ main.at = "scan" /\ scan > Len(List) /\ Len(to_writer) < to_writer_size
    /\ to_writer' = Append(to_writer, [item |-> "null"])
    /\ main' = [main EXCEPT !.at = "end"]
    /\ UNCHANGED <<scan, cacheVars, wait_pending, to_reader, to_inflate, from_writer, reader,
                   inflator, writer, open_count, fsVars>>

Synced ==
    /\ main.at = "end" /\ from_writer = 1
    /\ from_writer' = 0
    /\ main' = [main EXCEPT !.at = "done"]
    /\ UNCHANGED <<scan, cacheVars, wait_pending, to_reader, to_inflate, to_writer, reader,
                   inflator, writer, open_count, fsVars>>

-----------------------------------------------------------------------------
(* The reader and inflator threads *)

\* Mutant of CacheBlockReady: the waiter is not woken.
CacheBlockReadySilent(e, error) ==
    /\ entry' = [entry EXCEPT ![e].pending = FALSE, ![e].error = error,
                              ![e].data = IF error THEN None ELSE entry[e].block]
    /\ UNCHANGED <<wait_pending, writer>>

\* cache_block_ready: the entry holds its block, or an error, and the writer
\* is woken if it waits for some entry of this cache.
CacheBlockReady(e, error) ==
    /\ entry' = [entry EXCEPT ![e].pending = FALSE, ![e].error = error,
                              ![e].data = IF error THEN None ELSE entry[e].block]
    /\ wait_pending' = [wait_pending EXCEPT ![e[1]] = FALSE]
    /\ writer' = IF wait_pending[e[1]] /\ writer.at = "sleep"
                 THEN [writer EXCEPT !.at = "check"] ELSE writer

ReaderTake ==
    /\ reader = None /\ to_reader # <<>>
    /\ reader' = Head(to_reader) /\ to_reader' = Tail(to_reader)
    /\ UNCHANGED <<scan, main, cacheVars, wait_pending, to_inflate, to_writer, from_writer,
                   inflator, writer, open_count, fsVars>>

\* A block that was read and is compressed goes to the inflators; one that is
\* not compressed, or cannot be read, is ready.
ReaderPass ==
    /\ reader # None
    /\ reader' = None
    /\ \/ /\ Len(to_inflate) < to_inflate_size
          /\ to_inflate' = Append(to_inflate, reader)
          /\ UNCHANGED <<entry, wait_pending, writer>>
       \/ /\ CacheBlockReady(reader, entry[reader].block \in faults.bad)
          /\ UNCHANGED to_inflate
    /\ UNCHANGED <<scan, main, count, free_list, wait_free, to_reader, to_writer, from_writer,
                   inflator, open_count, fsVars>>

InflatorTake(i) ==
    /\ inflator[i] = None /\ to_inflate # <<>>
    /\ inflator' = [inflator EXCEPT ![i] = Head(to_inflate)]
    /\ to_inflate' = Tail(to_inflate)
    /\ UNCHANGED <<scan, main, cacheVars, wait_pending, to_reader, to_writer, from_writer, reader,
                   writer, open_count, fsVars>>

InflatorReady(i) ==
    /\ inflator[i] # None
    /\ CacheBlockReady(inflator[i], entry[inflator[i]].block \in faults.bad)
    /\ inflator' = [inflator EXCEPT ![i] = None]
    /\ UNCHANGED <<scan, main, count, free_list, wait_free, queueVars, reader, open_count, fsVars>>

-----------------------------------------------------------------------------
(* The writer thread *)

\* Between files: the end marker, the attributes of a directory, or a file.
WriterTake ==
    /\ writer.at = "idle" /\ to_writer # <<>>
    /\ to_writer' = Tail(to_writer)
    /\ LET head == Head(to_writer)
       IN \/ /\ head.item = "null" /\ from_writer = 0
             /\ from_writer' = 1
             /\ UNCHANGED <<writer, closed>>
          \/ /\ head.item = "dir"
             /\ closed' = closed \cup {head.of}
             /\ UNCHANGED <<writer, from_writer>>
          \/ /\ head.item = "file"
             /\ writer' = [writer EXCEPT !.at = "blocks", !.file = head.of]
             /\ UNCHANGED <<from_writer, closed>>
    /\ UNCHANGED <<scan, main, cacheVars, wait_pending, to_reader, to_inflate, reader, inflator,
                   open_count, output, present>>

WFile == List[writer.file].blocks
WriterNext(failed) ==
    writer' = [writer EXCEPT !.at = "blocks", !.block = @ + 1, !.entry = None, !.failed = failed]

\* The next block of the file: a hole only grows the file.
WriterBlock ==
    /\ writer.at = "blocks" /\ writer.block <= Len(WFile) /\ to_writer # <<>>
    /\ to_writer' = Tail(to_writer)
    /\ LET e == Head(to_writer).entry
       IN IF e = None
          THEN WriterNext(writer.failed)
               /\ output' = [output EXCEPT ![writer.file] =
                                IF writer.failed THEN @ ELSE Append(@, Hole)]
          ELSE writer' = [writer EXCEPT !.at = "check", !.entry = e] /\ UNCHANGED output
    /\ UNCHANGED <<scan, main, cacheVars, wait_pending, to_reader, to_inflate, from_writer, reader,
                   inflator, open_count, present, closed>>

\* Mutant of Ready: the entry is used whether it is filled or not.
ReadyIgnored(e) == TRUE

\* cache_block_wait: the test of its loop, and the wait.
Ready(e) == ~entry[e].pending

WriterSleep ==
    /\ writer.at = "check" /\ ~Ready(writer.entry)
    /\ wait_pending' = [wait_pending EXCEPT ![writer.entry[1]] = TRUE]
    /\ writer' = [writer EXCEPT !.at = "sleep"]
    /\ UNCHANGED <<scan, main, cacheVars, queueVars, reader, inflator, open_count, fsVars>>

\* cache_block_put, which wakes the main thread if it waits for an entry.
CacheBlockPut(e) ==
    LET free == entry[e].used = 1
    IN  /\ entry' = [entry EXCEPT ![e].used = @ - 1]
        /\ free_list' = IF free THEN [free_list EXCEPT ![e[1]] = Append(@, e)] ELSE free_list
        /\ wait_free' = IF free THEN [wait_free EXCEPT ![e[1]] = FALSE] ELSE wait_free
        /\ main' = IF free /\ wait_free[e[1]] /\ main.at = "sleep"
                   THEN [main EXCEPT !.at = "woken"] ELSE main

\* The block is ready.  After an error of this block or an earlier one the
\* loop goes on to the next block; otherwise the block is written, which may
\* fail, and released.
WriterWrite ==
    /\ writer.at = "check" /\ Ready(writer.entry)
    /\ \/ /\ entry[writer.entry].error \/ writer.failed
          /\ WriterNext(TRUE)
          /\ UNCHANGED <<main, entry, free_list, wait_free, output>>
       \/ /\ ~entry[writer.entry].error /\ ~writer.failed
          /\ \/ /\ output' = [output EXCEPT ![writer.file] = Append(@, entry[writer.entry].data)]
                /\ WriterNext(FALSE)
             \/ faults.write /\ WriterNext(TRUE) /\ UNCHANGED output
          /\ CacheBlockPut(writer.entry)
    /\ UNCHANGED <<scan, count, wait_pending, queueVars, reader, inflator, open_count, present,
                   closed>>

\* A hole at the end of the file is still to be written, which may fail; then
\* close_wake, and set_attributes or unlink.
WriterClose ==
    /\ writer.at = "blocks" /\ writer.block > Len(WFile)
    /\ open_count' = open_count + 1
    /\ \/ present' = IF writer.failed THEN present \ {writer.file} ELSE present
       \/ /\ faults.write /\ WFile # <<>> /\ WFile[Len(WFile)] = Hole
          /\ present' = present \ {writer.file}
    /\ writer' = [at |-> "idle", file |-> 0, block |-> 1, entry |-> None, failed |-> FALSE]
    /\ UNCHANGED <<scan, main, cacheVars, wait_pending, queueVars, reader, inflator, output, closed>>

\* A wait on a condition may end for no reason.
SpuriousWakeup ==
    /\ \/ /\ main.at = "sleep"
          /\ main' = [main EXCEPT !.at = "woken"]
          /\ UNCHANGED writer
       \/ /\ writer.at = "sleep"
          /\ writer' = [writer EXCEPT !.at = "check"]
          /\ UNCHANGED main
    /\ UNCHANGED <<faults, scan, cacheVars, wait_pending, queueVars, reader, inflator, open_count, fsVars>>

Finished == main.at = "done" /\ UNCHANGED vars

Main == /\ \/ MakeName \/ OpenWait \/ QueueFile \/ CacheGet \/ QueueRead \/ QueueBlock
           \/ QueueDir \/ EndScan \/ Synced
        /\ UNCHANGED faults
Reader == (ReaderTake \/ ReaderPass) /\ UNCHANGED faults
Inflator(i) == (InflatorTake(i) \/ InflatorReady(i)) /\ UNCHANGED faults
Writer == /\ WriterTake \/ WriterBlock \/ WriterSleep \/ WriterWrite \/ WriterClose
          /\ UNCHANGED faults

Next ==
    \/ Main \/ Reader \/ Writer
    \/ \E i \in Inflators : Inflator(i)
    \/ SpuriousWakeup
    \/ Finished

Spec == Init /\ [][Next]_vars

\* Every thread keeps running; nothing relies on spurious wakeups.
Fairness == /\ WF_vars(Main) /\ WF_vars(Reader) /\ WF_vars(Writer)
            /\ \A i \in Inflators : WF_vars(Inflator(i))
FairSpec == Spec /\ Fairness

-----------------------------------------------------------------------------
\* The references to a cache entry: of the blocks queued for the writer, of the
\* block the main thread is about to queue and of the one the writer is at.
Queued(e) == {j \in DOMAIN to_writer : to_writer[j].item = "block" /\ to_writer[j].entry = e}
MainHas(e) == main.at \in {"read", "put"} /\ main.entry = e
WriterHas(e) == writer.at \in {"check", "sleep"} /\ writer.entry = e
References(e) ==
    Cardinality(Queued(e)) + (IF MainHas(e) THEN 1 ELSE 0) + (IF WriterHas(e) THEN 1 ELSE 0)

OpenFiles ==
    Cardinality({i \in DOMAIN to_writer : to_writer[i].item = "file"})
      + (IF main.at = "queue" THEN 1 ELSE 0) + (IF writer.file # 0 THEN 1 ELSE 0)

Contents(d) == {i \in present : List[i].dir = d}

(* The counters stay in range and no queue is overfull. *)
TypeOK ==
    /\ open_count \in 0..max_files
    /\ Len(to_reader) <= to_reader_size /\ Len(to_inflate) <= to_inflate_size
    /\ Len(to_writer) <= to_writer_size
    /\ \A c \in Caches : count[c] \in 0..max_buffers[c]
    /\ \A e \in Entries : entry[e].used \in Nat

(* The main thread hands cache entries to the writer before they are filled  *)
(* and without holding on to them.  An entry holds the block that whoever    *)
(* refers to it wants, and is not used for another meanwhile; no block is in *)
(* the cache twice.  Every reference is counted, no other is unless there    *)
(* was an error (the writer skips the rest of the file then), and the free   *)
(* list has just the entries that were used and that nobody refers to.       *)
ReferencesHold ==
    /\ TypeOK
    /\ \A e \in Entries :
          /\ \A j \in Queued(e) :
                entry[e].block = List[to_writer[j].of].blocks[to_writer[j].nth]
          /\ MainHas(e) => entry[e].block = B
          /\ WriterHas(e) => entry[e].block = WFile[writer.block]
          /\ References(e) <= entry[e].used
          /\ faults.bad = {} /\ ~faults.write => References(e) = entry[e].used
          /\ (\E i \in DOMAIN free_list[e[1]] : free_list[e[1]][i] = e)
                <=> e[2] <= count[e[1]] /\ entry[e].used = 0
    /\ \A e1, e2 \in Entries : entry[e1].block = entry[e2].block /\ entry[e1].block # None
                                    => e1 = e2

(* wait_free and wait_pending are flags and not counts, and cleared by the   *)
(* thread that wakes.  A thread sleeps only while what it waits for is       *)
(* missing and its flag is up.                                               *)
NoLostWakeup ==
    /\ main.at = "sleep" => wait_free[CacheOf(B)] /\ free_list[CacheOf(B)] = <<>>
    /\ writer.at = "sleep" => wait_pending[writer.entry[1]] /\ entry[writer.entry].pending

(* What is extracted is what the image holds: a file that the writer is done *)
(* with and that exists has all its blocks in order, whatever order they     *)
(* were read and decompressed in; a file with a bad block does not exist.    *)
FilesComplete ==
    \A i \in DOMAIN List :
        List[i].op = "file" /\ i \in present /\ main.at = "done" =>
            output[i] = List[i].blocks

(* The attributes of a directory, its time among them, are set when nothing  *)
(* in it will be created or removed any more.                                *)
DirStable == [][\A d \in closed : Contents(d)' = Contents(d)]_vars

(* open_count is the "amount of available files for use by open_wait and     *)
(* close_wake", the limit less the files that are open, while no open()      *)
(* fails: files whose blocks cannot be read, or that cannot be written, are  *)
(* counted back like the others.                                             *)
OpenCountKept == ~faults.open => open_count + OpenFiles = max_files

(* A file that cannot be written is skipped ("Failed to write %s, skipping") *)
(* and the extraction goes on and ends.                                      *)
Terminates == <>(main.at = "done")

(* It does when all blocks can be read and all files created and written:    *)
(* the threads never all wait for each other, although the writer waits for  *)
(* entries that the reader gets behind others, main for entries that the     *)
(* writer has, and one file may have more blocks than the cache has entries. *)
TerminatesWithoutErrors ==
    faults.bad = {} /\ ~faults.write /\ ~faults.open => Terminates
=============================================================================
