----------------------------- MODULE DataLayout -----------------------------
(***************************************************************************)
(* Where Mksquashfs puts data blocks and fragments in the image, and the   *)
(* threads that move `bytes', the end of the image: the main thread        *)
(* (write_file and what it calls), the fragment deflators and the writer.  *)
(*                                                                         *)
(* A file's blocks are contiguous, so the main thread holds fragments back *)
(* (fragments_locked) while it places them, and may take the whole file    *)
(* back again: when the file turns out to be a duplicate, or the reader    *)
(* fails in the middle of it, bytes returns to where the file started,     *)
(* although blocks of it may be in the writer's queue, on disk and in the  *)
(* bwriter cache.  duplicate() then compares later files with what the     *)
(* cache, or else the disk, holds at a position.                           *)
(*                                                                         *)
(* The queues are FIFO channels (Queue, QueueProofs), to_main delivers in  *)
(* order (SeqQueue), and a stretch of code under fragment_mutex is a step. *)
(***************************************************************************)
EXTENDS Integers, Sequences, FiniteSets, LinkedLists

CONSTANTS
    Inputs,           \* what may be asked of mksquashfs: see InputAssumption
    Size,             \* the compressed size of every data value
    Hole,             \* a block of zeroes: sparse, it takes no room
    None,             \* no buffer, no fragment, not written yet
    Actions,          \* def_fragment and the fragment() actions
    FragDeflators,    \* the threads that run frag_deflator
    bwriter_size, fwriter_size, fragment_size,   \* the sizes of the caches
    duplicate_checking,
    MaxErrors,        \* how often a file may fail to read or change its size
    MaxBytes          \* the length of the modelled disk

Data == DOMAIN Size

\* A list of files in the order main writes them, whether it goes to a new
\* filesystem (then bwriter_buffer->first_freelist), and whether that is on a
\* block device.  A file has a size, full blocks, perhaps a tail that goes into
\* a fragment of some action, and is perhaps piped in, its size unknown at
\* first.
ASSUME InputAssumption ==
    \A in \in Inputs :
        /\ {in.first_freelist, in.block_device} \subseteq BOOLEAN
        /\ in.files \in Seq(Elems(in.files))
        /\ \A f \in Elems(in.files) :
              /\ f.blocks \in Seq(Data \cup {Hole})
              /\ f.tail \in Data \cup {None}
              /\ f.action \in Actions
              /\ f.piped \in BOOLEAN
              /\ f.blocks # <<>> \/ f.tail # None

\* A cache smaller than the number of fragments being filled would starve.
ASSUME SizeAssumption ==
    /\ Size \in [Data -> Nat \ {0}]
    /\ {bwriter_size, fwriter_size, fragment_size} \subseteq Nat \ {0}
    /\ IsFiniteSet(Actions) /\ Cardinality(Actions) <= fragment_size
    /\ IsFiniteSet(FragDeflators)
    /\ MaxErrors \in Nat /\ MaxBytes \in Nat
    /\ duplicate_checking \in BOOLEAN

ASSUME NoneAssumption == None \notin Nat

Buffers == 1..bwriter_size     \* the buffers of bwriter_buffer
FragLength == 1                \* the compressed size of a fragment
BlockItem(b) == <<"block", b>>
FragItem(n) == <<"frag", n>>
Null == <<"null", 0>>          \* the synchronisation marker in to_writer

VARIABLES
    input,                  \* an element of Inputs, the same all the time
    bytes,                  \* the end of the image
    disk,                   \* what lies at every position of the output
    to_writer, from_writer, \* the writer's queues
    writing,                \* what the writer has taken and not yet written
    free_list, alloc,       \* bwriter_buffer: free buffers, buffers allocated
    chain,                  \* its hash table: newest first
    buffer,                 \* index and data of every buffer of it
    ready,                  \* compressed blocks on their way to main
    fragments_locked, fragments_outstanding, locked_fragment, to_frag,
    fragments,              \* the number of fragments allocated
    fragment_table,         \* start_block of every fragment
    current,                \* the fragment every action is filling
    deflator,               \* the fragment every deflator has, and where it is
    main,                   \* the steps write_file has left for this file
    file, block, start,     \* write_file's variables
    held,                   \* buffer_list: blocks kept back from the writer
    dupl,                   \* the dupl table, newest first
    inode,                  \* the start block given to every file's inode
    errors

writerVars == <<disk, from_writer, writing>>
cacheVars == <<free_list, alloc, chain, buffer, ready>>
fragVars == <<locked_fragment, to_frag, fragments, fragment_table, current,
              deflator, fragments_outstanding>>
fileVars == <<input, file, block, start, held, dupl, inode, errors>>
vars == <<bytes, to_writer, fragments_locked, main,
          writerVars, cacheVars, fragVars, fileVars>>

Files == 1..Len(input.files)

\* main's last steps, after the last file.
Finish == <<"lastfrags", "unlock", "outstanding", "sync", "wait">>

Init ==
    /\ input \in Inputs
    /\ bytes = 0
    /\ disk = [p \in 0..MaxBytes-1 |-> None]
    /\ to_writer = <<>> /\ from_writer = 0 /\ writing = None
    /\ free_list = <<>> /\ alloc = 0 /\ chain = <<>> /\ ready = <<>>
    /\ buffer = [b \in Buffers |-> [index |-> None, data |-> None]]
    /\ fragments_locked = FALSE /\ fragments_outstanding = 0
    /\ locked_fragment = <<>> /\ to_frag = <<>>
    /\ fragments = 0 /\ fragment_table = <<>>
    /\ current = [a \in Actions |-> None]
    /\ deflator = [d \in FragDeflators |-> [at |-> "idle", frag |-> None]]
    /\ main = IF input.files = <<>> THEN Finish ELSE <<"file">>
    /\ file = 1 /\ block = 0 /\ start = 0 /\ held = <<>>
    /\ dupl = <<>> /\ inode = [f \in Files |-> None] /\ errors = 0

-----------------------------------------------------------------------------
(* The bwriter cache and the disk *)

Without(s, b) == SelectSeq(s, LAMBDA c : c # b)

\* The units that data d, or fragment n, occupies.
Units(d) == [k \in 1..Size[d] |-> <<"data", d, k>>]
FragUnits(n) == [k \in 1..FragLength |-> <<"frag", n, k>>]

\* cache_lookup(bwriter_buffer, p): the newest buffer with that index.
Hits(p) == SelectSeq(chain, LAMBDA b : buffer[b].index = p)

\* What duplicate() compares: the cached block if there is one, otherwise
\* what read_from_disk finds.
ReadBlock(p, size) ==
    IF Hits(p) # <<>> THEN Units(buffer[Head(Hits(p))].data)
                      ELSE [k \in 1..size |-> disk[p + k - 1]]

\* pwrite of the units u at position p.
DiskWrite(p, u) ==
    [q \in DOMAIN disk |-> IF q \in p..(p + Len(u) - 1) THEN u[q - p + 1] ELSE disk[q]]

\* cache_get_nohash by a deflator: the next free buffer, which leaves the hash
\* table, or a new one.
TakesFree == free_list # <<>> /\ (input.first_freelist \/ alloc = bwriter_size)
Deflate ==
    /\ file \in Files
    /\ \/ /\ TakesFree
          /\ ready' = Append(ready, Head(free_list))
          /\ free_list' = Tail(free_list)
          /\ chain' = Without(chain, Head(free_list))
          /\ UNCHANGED alloc
       \/ /\ ~TakesFree /\ alloc < bwriter_size
          /\ alloc' = alloc + 1
          /\ ready' = Append(ready, alloc + 1)
          /\ UNCHANGED <<free_list, chain>>
    /\ UNCHANGED <<bytes, to_writer, fragments_locked, main, buffer,
                   writerVars, fragVars, fileVars>>

-----------------------------------------------------------------------------
(* The writer thread *)

\* One pass up to the lseek: a NULL is answered through from_writer.
WriterTake ==
    /\ writing = None /\ to_writer # <<>>
    /\ to_writer' = Tail(to_writer)
    /\ IF Head(to_writer) = Null
       THEN from_writer = 0 /\ from_writer' = 1 /\ UNCHANGED writing
       ELSE writing' = Head(to_writer) /\ UNCHANGED from_writer
    /\ UNCHANGED <<bytes, fragments_locked, main, disk, cacheVars, fragVars, fileVars>>

\* Mutant of WriterWrite: the buffer goes to the front of the free list.
WriterWriteLIFO ==
    /\ writing # None
    /\ LET n == writing[2]
       IN  IF writing[1] = "block"
           THEN /\ disk' = DiskWrite(buffer[n].index, Units(buffer[n].data))
                /\ free_list' = <<n>> \o free_list
           ELSE /\ disk' = DiskWrite(fragment_table[n], FragUnits(n))
                /\ UNCHANGED free_list
    /\ writing' = None
    /\ UNCHANGED <<bytes, to_writer, fragments_locked, main, from_writer, alloc,
                   chain, buffer, ready, fragVars, fileVars>>

\* The write and cache_block_put.
WriterWrite ==
    /\ writing # None
    /\ LET n == writing[2]
       IN  IF writing[1] = "block"
           THEN /\ disk' = DiskWrite(buffer[n].index, Units(buffer[n].data))
                /\ free_list' = Append(free_list, n)
           ELSE /\ disk' = DiskWrite(fragment_table[n], FragUnits(n))
                /\ UNCHANGED free_list
    /\ writing' = None
    /\ UNCHANGED <<bytes, to_writer, fragments_locked, main, from_writer, alloc,
                   chain, buffer, ready, fragVars, fileVars>>

-----------------------------------------------------------------------------
(* The fragment deflators *)

Deflating(where) == {d \in FragDeflators : deflator[d].at = where}
InWriter == SelectSeq(to_writer, LAMBDA i : i[1] = "frag")
                \o (IF writing # None /\ writing[1] = "frag" THEN <<writing>> ELSE <<>>)

\* The buffers of fwriter_buffer, and of fragment_buffer, that are in use.
FwriterUsed == Cardinality(Deflating("compressed")) + Len(locked_fragment) + Len(InWriter)
\* Mutant of FragmentUsed: a deflator gives its fragment back before placing it.
FragmentUsedPutEarly == Cardinality({a \in Actions : current[a] # None}) + Len(to_frag)

FragmentUsed == Cardinality({a \in Actions : current[a] # None}) + Len(to_frag)
                    + Cardinality(Deflating("waiting")) + Cardinality(Deflating("compressed"))

FragTake(d) ==
    /\ deflator[d].at = "idle" /\ to_frag # <<>>
    /\ deflator' = [deflator EXCEPT ![d] = [at |-> "waiting", frag |-> Head(to_frag)]]
    /\ to_frag' = Tail(to_frag)
    /\ UNCHANGED <<bytes, to_writer, fragments_locked, main, locked_fragment, fragments,
                   fragment_table, current, fragments_outstanding,
                   writerVars, cacheVars, fileVars>>

\* cache_get(fwriter_buffer) and mangle2.
FragCompress(d) ==
    /\ deflator[d].at = "waiting"
    /\ FwriterUsed < fwriter_size
    /\ deflator' = [deflator EXCEPT ![d].at = "compressed"]
    /\ UNCHANGED <<bytes, to_writer, fragments_locked, main, locked_fragment, to_frag,
                   fragments, fragment_table, current, fragments_outstanding,
                   writerVars, cacheVars, fileVars>>

\* Mutant of FragPlace: fragments_locked is not consulted.
FragPlaceAlways(d) ==
    LET n == deflator[d].frag
    IN  /\ deflator[d].at = "compressed"
        /\ deflator' = [deflator EXCEPT ![d] = [at |-> "idle", frag |-> None]]
        /\ fragment_table' = [fragment_table EXCEPT ![n] = bytes]
        /\ bytes' = bytes + FragLength
        /\ fragments_outstanding' = fragments_outstanding - 1
        /\ to_writer' = Append(to_writer, FragItem(n))
        /\ UNCHANGED <<fragments_locked, main, locked_fragment, to_frag, fragments, current,
                       writerVars, cacheVars, fileVars>>

\* The rest of the loop of frag_deflator: with fragment_mutex held, the
\* fragment is placed at the end of the image or put on locked_fragment; then
\* the fragment's buffer is released.
FragPlace(d) ==
    LET n == deflator[d].frag
    IN  /\ deflator[d].at = "compressed"
        /\ deflator' = [deflator EXCEPT ![d] = [at |-> "idle", frag |-> None]]
        /\ \/ /\ ~fragments_locked
              /\ fragment_table' = [fragment_table EXCEPT ![n] = bytes]
              /\ bytes' = bytes + FragLength
              /\ fragments_outstanding' = fragments_outstanding - 1
              /\ to_writer' = Append(to_writer, FragItem(n))
              /\ UNCHANGED locked_fragment
           \/ /\ fragments_locked
              /\ Len(locked_fragment) < fragment_size
              /\ locked_fragment' = Append(locked_fragment, n)
              /\ UNCHANGED <<bytes, fragment_table, fragments_outstanding, to_writer>>
        /\ UNCHANGED <<fragments_locked, main, to_frag, fragments, current,
                       writerVars, cacheVars, fileVars>>

-----------------------------------------------------------------------------
(* The main thread: write_file and the functions it calls.  main is the     *)
(* list of steps that are left; each step removes itself from it.           *)

At(step) == main # <<>> /\ main[1] = step
F == input.files[file]
Length(d) == IF d = Hole THEN 0 ELSE Size[d]

\* The entry duplicate checking keeps of a file that starts at s.
FileInfo(s) == [size |-> F.size, start |-> s, blocks |-> F.blocks, tail |-> F.tail]

\* Where block k of a file that starts at s is.
Position(s, blocks, k) ==
    LET sum[i \in 0..Len(blocks)] == IF i = 0 THEN s ELSE sum[i-1] + Length(blocks[i])
    IN  sum[k - 1]

\* pre_duplicate: only a file whose size is known up front is compared.
DupMode == ~F.piped /\ \E i \in DOMAIN dupl : dupl[i].size = F.size

\* Mutant of Thresh: as many blocks as the file has are kept back.
ThreshZero == 0

\* thresh: the first blocks go to the writer, so that no more than
\* bwriter_size of them are kept back.
Thresh ==
    LET blocks == Len(F.blocks) + (IF F.tail = None THEN 0 ELSE 1)
    IN  IF blocks > bwriter_size THEN blocks - bwriter_size ELSE 0

\* write_file's choice between write_file_frag and the others, which lock the
\* fragments first.
WriteFile ==
    /\ At("file")
    /\ IF F.blocks = <<>>
       THEN /\ LET same == {i \in DOMAIN dupl : dupl[i].blocks = <<>>
                                /\ dupl[i].size = F.size /\ dupl[i].tail = F.tail}
               IN main' = IF same # {} THEN <<"next">> ELSE <<"fill", "record", "next">>
            /\ inode' = [inode EXCEPT ![file] = 0]
            /\ UNCHANGED <<fragments_locked, start>>
       ELSE /\ fragments_locked' = TRUE
            /\ start' = bytes
            /\ main' = <<"blocks">>
            /\ UNCHANGED inode
    /\ block' = 0
    /\ UNCHANGED <<input, bytes, to_writer, file, held, dupl, errors, writerVars, cacheVars, fragVars>>

\* One block: a sparse block takes no room; any other is placed at the end of
\* the image, hashed, and handed to the writer or kept in buffer_list.
WriteBlock ==
    /\ At("blocks") /\ block < Len(F.blocks)
    /\ block' = block + 1
    /\ LET d == F.blocks[block + 1]
           b == Head(ready)
       IN \/ /\ d = Hole
             /\ UNCHANGED <<bytes, to_writer, held, buffer, chain, ready>>
          \/ /\ d # Hole /\ ready # <<>>
             /\ ready' = Tail(ready)
             /\ buffer' = [buffer EXCEPT ![b] = [index |-> bytes, data |-> d]]
             /\ chain' = <<b>> \o chain
             /\ bytes' = bytes + Size[d]
             /\ IF DupMode /\ block >= Thresh
                THEN held' = Append(held, b) /\ UNCHANGED to_writer
                ELSE to_writer' = Append(to_writer, BlockItem(b)) /\ UNCHANGED held
    /\ UNCHANGED <<input, fragments_locked, main, free_list, alloc, file, start, dupl, inode,
                   errors, writerVars, fragVars>>

\* queue_put(to_writer, NULL), queue_get(from_writer), ftruncate: done when
\* blocks may have been written and the output is not a block device.
Truncation(written) ==
    IF written /\ ~input.block_device THEN <<"sync", "wait", "truncate">> ELSE <<>>

\* read_err: the file is taken back, and read again or stored empty.
ReadError ==
    /\ At("blocks") /\ block > 0
    /\ block < Len(F.blocks) \/ F.tail # None
    /\ errors < MaxErrors
    /\ errors' = errors + 1
    /\ bytes' = start
    /\ \E again \in {"file", "next"} :
          main' = Truncation(~DupMode \/ Thresh > 0) \o <<"unlock", "release", again>>
    /\ UNCHANGED <<input, to_writer, fragments_locked, file, block, start, held, dupl, inode,
                   writerVars, cacheVars, fragVars>>

\* All blocks are placed: without a file of this size the file is new.
EndBlocks ==
    /\ At("blocks") /\ block = Len(F.blocks)
    /\ IF DupMode THEN main' = <<"check">> /\ UNCHANGED inode
                  ELSE /\ main' = <<"unlock", "fill", "record", "next">>
                       /\ inode' = [inode EXCEPT ![file] = start]
    /\ UNCHANGED <<input, bytes, to_writer, fragments_locked, file, block, start, held, dupl,
                   errors, writerVars, cacheVars, fragVars>>

\* duplicate() compares with the entries of the same size, compressed size,
\* block list and tail size ...
Lengths(blocks) == [k \in DOMAIN blocks |-> Length(blocks[k])]
Candidate(e) == /\ e.size = F.size
                /\ Lengths(e.blocks) = Lengths(F.blocks)
                /\ (e.tail = None) = (F.tail = None)

\* ... block by block, with what is cached or on disk at both places.
SameData(e) ==
    /\ \A k \in DOMAIN F.blocks :
          LET size == Length(F.blocks[k])
          IN  size # 0 => ReadBlock(Position(start, F.blocks, k), size)
                            = ReadBlock(Position(e.start, F.blocks, k), size)
    /\ e.tail = F.tail

\* A lookup of duplicate() at one of the positions it compares.  The cached
\* block, if it was free, goes to the end of the free list again.
Compare ==
    /\ At("check")
    /\ \E s \in {start} \cup {dupl[i].start : i \in {j \in DOMAIN dupl : Candidate(dupl[j])}},
          k \in DOMAIN F.blocks :
          LET hits == Hits(Position(s, F.blocks, k))
          IN  /\ hits # <<>> /\ Head(hits) \in Elems(free_list)
              /\ free_list' = Append(Without(free_list, Head(hits)), Head(hits))
    /\ UNCHANGED <<bytes, to_writer, fragments_locked, main, alloc, chain, buffer, ready,
                   writerVars, fragVars, fileVars>>

\* The outcome.  A duplicate gives its buffers and its room back; otherwise
\* the blocks kept back go to the writer.
CheckDuplicate ==
    /\ At("check")
    /\ LET same == {i \in DOMAIN dupl : Candidate(dupl[i]) /\ SameData(dupl[i])}
       IN \/ /\ same # {}
             /\ LET first == CHOOSE i \in same : \A j \in same : i <= j
                IN  inode' = [inode EXCEPT ![file] = dupl[first].start]
             /\ free_list' = free_list \o held
             /\ bytes' = start
             /\ main' = Truncation(Thresh > 0) \o <<"unlock", "next">>
             /\ UNCHANGED <<to_writer, dupl>>
          \/ /\ same = {}
             /\ inode' = [inode EXCEPT ![file] = start]
             /\ to_writer' = to_writer \o [i \in DOMAIN held |-> BlockItem(held[i])]
             /\ dupl' = <<FileInfo(start)>> \o dupl
             /\ main' = <<"fill", "unlock", "next">>
             /\ UNCHANGED <<free_list, bytes>>
    /\ held' = <<>>
    /\ UNCHANGED <<input, fragments_locked, alloc, chain, buffer, ready, file, block, start, errors,
                   writerVars, fragVars>>

\* Mutant of ReleaseHeld: the error path forgets the buffers kept back.
ReleaseHeldLeak ==
    /\ At("release")
    /\ held' = <<>>
    /\ main' = Tail(main)
    /\ UNCHANGED <<input, bytes, to_writer, fragments_locked, free_list, alloc, chain, buffer,
                   ready, file, block, start, dupl, inode, errors, writerVars, fragVars>>

\* Every buffer that is still in buffer_list is released after an error.
ReleaseHeld ==
    /\ At("release")
    /\ free_list' = free_list \o held
    /\ held' = <<>>
    /\ main' = Tail(main)
    /\ UNCHANGED <<input, bytes, to_writer, fragments_locked, alloc, chain, buffer, ready, file,
                   block, start, dupl, inode, errors, writerVars, fragVars>>

SyncWriter ==
    /\ At("sync") /\ Len(to_writer) < bwriter_size + fwriter_size
    /\ to_writer' = Append(to_writer, Null)
    /\ main' = Tail(main)
    /\ UNCHANGED <<bytes, fragments_locked, writerVars, cacheVars, fragVars, fileVars>>

WriterSynced ==
    /\ At("wait") /\ from_writer = 1
    /\ from_writer' = 0
    /\ main' = Tail(main)
    /\ UNCHANGED <<bytes, to_writer, fragments_locked, disk, writing, cacheVars, fragVars,
                   fileVars>>

Truncate ==
    /\ At("truncate")
    /\ disk' = [p \in DOMAIN disk |-> IF p < bytes THEN disk[p] ELSE None]
    /\ main' = Tail(main)
    /\ UNCHANGED <<bytes, to_writer, fragments_locked, from_writer, writing, cacheVars,
                   fragVars, fileVars>>

\* unlock_fragments: what was held back is placed now, in order.
UnlockFragments ==
    /\ At("unlock")
    /\ fragment_table' = [n \in DOMAIN fragment_table |->
           IF \E i \in DOMAIN locked_fragment : locked_fragment[i] = n
           THEN bytes + FragLength * ((CHOOSE i \in DOMAIN locked_fragment :
                                          locked_fragment[i] = n) - 1)
           ELSE fragment_table[n]]
    /\ bytes' = bytes + FragLength * Len(locked_fragment)
    /\ fragments_outstanding' = fragments_outstanding - Len(locked_fragment)
    /\ to_writer' = to_writer
                      \o [i \in DOMAIN locked_fragment |-> FragItem(locked_fragment[i])]
    /\ locked_fragment' = <<>>
    /\ fragments_locked' = FALSE
    /\ main' = Tail(main)
    /\ UNCHANGED <<to_frag, fragments, current, deflator, writerVars, cacheVars, fileVars>>

\* write_fragment: a full fragment is handed to the fragment deflators.
WriteFragment(a) ==
    /\ current[a] # None
    /\ to_frag' = Append(to_frag, current[a])
    /\ fragments_outstanding' = fragments_outstanding + 1
    /\ current' = [current EXCEPT ![a] = None]
    /\ UNCHANGED <<bytes, to_writer, fragments_locked, main, locked_fragment, fragments,
                   fragment_table, deflator, writerVars, cacheVars, fileVars>>

\* get_and_fill_fragment: the tail may fit into the current fragment or not;
\* allocate_fragment waits for a buffer of fragment_buffer.
FillFragment ==
    /\ At("fill")
    /\ \/ WriteFragment(F.action) /\ F.tail # None
       \/ /\ F.tail = None \/ current[F.action] # None
          /\ main' = Tail(main)
          /\ UNCHANGED <<bytes, to_writer, fragments_locked, writerVars, cacheVars, fragVars,
                         fileVars>>
       \/ /\ F.tail # None /\ current[F.action] = None
          /\ FragmentUsed < fragment_size
          /\ fragments' = fragments + 1
          /\ fragment_table' = Append(fragment_table, None)
          /\ current' = [current EXCEPT ![F.action] = fragments + 1]
          /\ main' = Tail(main)
          /\ UNCHANGED <<bytes, to_writer, fragments_locked, locked_fragment, to_frag,
                         deflator, fragments_outstanding, writerVars, cacheVars, fileVars>>

\* add_non_dup of a file that had nothing to be compared with.
RecordFile ==
    /\ At("record")
    /\ dupl' = IF duplicate_checking THEN <<FileInfo(inode[file])>> \o dupl ELSE dupl
    /\ main' = Tail(main)
    /\ UNCHANGED <<input, bytes, to_writer, fragments_locked, file, block, start, held, inode, errors,
                   writerVars, cacheVars, fragVars>>

\* The caller's loop over the files (dir_scan2 and its kin).
NextFile ==
    /\ At("next")
    /\ file' = file + 1
    /\ main' = IF file = Len(input.files) THEN Finish ELSE <<"file">>
    /\ UNCHANGED <<input, bytes, to_writer, fragments_locked, block, start, held, dupl, inode, errors,
                   writerVars, cacheVars, fragVars>>

\* write_fragment of every fragment that is still being filled.
LastFragments ==
    /\ At("lastfrags")
    /\ \/ \E a \in Actions : WriteFragment(a)
       \/ /\ \A a \in Actions : current[a] = None
          /\ main' = Tail(main)
          /\ UNCHANGED <<bytes, to_writer, fragments_locked, writerVars, cacheVars, fragVars,
                         fileVars>>

\* Mutant of Outstanding: main does not wait for the fragment deflators.
OutstandingIgnored ==
    /\ At("outstanding")
    /\ main' = Tail(main)
    /\ UNCHANGED <<bytes, to_writer, fragments_locked, writerVars, cacheVars, fragVars, fileVars>>

\* The loop that waits for fragments_outstanding to become zero.
Outstanding ==
    /\ At("outstanding") /\ fragments_outstanding = 0
    /\ main' = Tail(main)
    /\ UNCHANGED <<bytes, to_writer, fragments_locked, writerVars, cacheVars, fragVars, fileVars>>

\* All data is placed and written: write_filesystem_tables follows.
Finished == main = <<>> /\ UNCHANGED vars

Writer == WriterTake \/ WriterWrite
FragDeflator(d) == FragTake(d) \/ FragCompress(d) \/ FragPlace(d)
Main ==
    \/ WriteFile \/ WriteBlock \/ EndBlocks \/ CheckDuplicate \/ ReleaseHeld
    \/ SyncWriter \/ WriterSynced \/ Truncate \/ UnlockFragments
    \/ FillFragment \/ RecordFile \/ NextFile \/ LastFragments \/ Outstanding

Next ==
    \/ Main \/ ReadError \/ Compare
    \/ Writer \/ Deflate
    \/ \E d \in FragDeflators : FragDeflator(d)
    \/ Finished

Spec == Init /\ [][Next]_vars

\* Every thread keeps running; a wait on a queue or a cache ends once what it
\* waits for is there (NoLostWakeup of Queue and of Cache).
Fairness == /\ WF_vars(Main) /\ WF_vars(Writer) /\ WF_vars(Deflate)
            /\ \A d \in FragDeflators : WF_vars(FragDeflator(d))
FairSpec == Spec /\ Fairness

-----------------------------------------------------------------------------
(* What the image is made of: pairs of a position and the units there. *)
Placed(s, blocks, n) ==
    {<<Position(s, blocks, k), Units(blocks[k])>> : k \in {j \in 1..n : blocks[j] # Hole}}

DataExtents ==
    UNION {Placed(inode[f], input.files[f].blocks, Len(input.files[f].blocks)) :
               f \in {g \in Files : inode[g] # None}}
      \cup (IF At("blocks") \/ At("check") THEN Placed(start, F.blocks, block) ELSE {})

FragExtents == {<<fragment_table[n], FragUnits(n)>> :
                    n \in {m \in DOMAIN fragment_table : fragment_table[m] # None}}

End(e) == e[1] + Len(e[2])
OnDisk(e) == \A k \in DOMAIN e[2] : disk[e[1] + k - 1] = e[2][k]

(* The variables have their types, no queue is overfull and no buffer of the *)
(* bwriter cache is lost or in two places: each one is not yet allocated,    *)
(* free, compressed and on its way, kept back, queued or being written.      *)
TypeOK ==
    /\ bytes \in 0..MaxBytes /\ from_writer \in 0..1
    /\ Len(to_writer) <= bwriter_size + fwriter_size
    /\ fragments_locked \in BOOLEAN /\ fragments_outstanding \in 0..fragments
    /\ LET places == free_list \o ready \o held
                        \o [i \in DOMAIN to_writer |-> IF to_writer[i][1] = "block"
                                                       THEN to_writer[i][2] ELSE 0]
                        \o (IF writing # None /\ writing[1] = "block" THEN <<writing[2]>> ELSE <<>>)
       IN  \A b \in Buffers :
              Cardinality({i \in DOMAIN places : places[i] = b}) = IF b <= alloc THEN 1 ELSE 0

(* Fragments are placed by other threads while the main thread places a      *)
(* file, and files are taken back.  Still no two things in the image overlap *)
(* and all lie below bytes, where the next one goes: taking a file back      *)
(* never cuts off a fragment, and a file found to be a duplicate shares the  *)
(* blocks of a file with the same contents.                                  *)
NoOverlap ==
    LET extents == DataExtents \cup FragExtents
    IN  /\ \A e \in extents : End(e) <= bytes
        /\ \A e1, e2 \in extents : e1 = e2 \/ End(e1) <= e2[1] \/ End(e2) <= e1[1]

(* The bwriter cache is not told that a file was taken back: its blocks stay *)
(* hashed under positions that are used again.  What duplicate() reads at    *)
(* the position of a block of the image is that block all the same, whether  *)
(* it finds it in the cache or, because its buffer was reused, on disk.      *)
ReadsTrue == \A e \in DataExtents : ReadBlock(e[1], Len(e[2])) = e[2]

(* frag_deflator and unlock_fragments put into to_writer and locked_fragment *)
(* with fragment_mutex held.  If locked_fragment, which is as long as the    *)
(* fragment cache, were ever full then, the main thread could not get the    *)
(* mutex to empty it.                                                        *)
LockedQueueHasRoom ==
    fragments_locked /\ Deflating("compressed") # {} => Len(locked_fragment) < fragment_size

(* When main goes on to write the tables, everything the inodes and the      *)
(* fragment table point at is on disk, and every fragment has its place.     *)
ImageComplete ==
    main = <<>> => /\ \A e \in DataExtents \cup FragExtents : OnDisk(e)
                   /\ \A n \in DOMAIN fragment_table : fragment_table[n] # None

(* However the threads interleave and however small the caches are, every    *)
(* file is written and the image is finished.                                *)
Terminates == <>(main = <<>>)
=============================================================================
