# A TLA+ verification of squashfs-tools

This directory holds a formal model of squashfs-tools (`src/squashfs-tools`)
and of the block cache and the metadata reader of the kernel file system
(`src/kernel/fs/squashfs`): TLA+ modules translated from the C source, TLC
configurations that model-check them, and theorems proved with TLAPS.
`PROJECT.json` maps every definition to the lines it models, lists the runs and
the mutants, the hazards of the code and the theorems.

Run a check with `tlc -config <Name>.cfg MC<Module>`, a proof with
`tlapm <Module>Proofs.tla`.

## 1. The system and its parts

**Mksquashfs** builds an image with a pipeline of threads:

    reader --to_deflate--> deflators ------.
       |                                    v
       +--to_process_frag--> frag_thrd --> to_main (seq_queue) --> main --to_writer--> writer
       `-------- (empty, error) ------------^                       |        ^
                                                                    | to_frag|
                                                                    `--> frag_deflators
                                                         (locked_fragment while fragments_locked)

**Unsquashfs** extracts one with another:

    main (dir_scan) --to_reader--> reader --to_inflate--> inflators
       `--to_writer--> writer (waits for each cache entry in turn)

In front of the pipeline Mksquashfs builds the directory tree in memory
(options, seven passes, sorting); behind it, it packs inodes, directories and
tables into metadata blocks. It can append to an image, restore it when it is
interrupted and recover it after a crash. Unsquashfs and the kernel read what
it wrote.

| Part | What makes it hard | Module |
|---|---|---|
| struct queue | one signal per operation, threads that overtake the one signalled, wrap-around, cancellation | Queue |
| struct seq_queue | arrival in any order, numbers taken back, wrap-around | SeqQueue |
| struct cache | buffers reused while they can be found, waiting without the mutex, one flag for many waiters | Cache |
| reader to main | re-reads in the middle of a file, error paths, blocks kept back, every thread waiting for another's buffers | Pipeline |
| placement of data | rollback of what may be cached, queued or on disk; fragments placed by other threads | DataLayout |
| options, scan, sort, actions, pseudo files, excludes | order of passes, renames and moves that interact, two threads that walk the same tree | ActionParser, PathLists, InCore, ActionEval, SourceTree |
| metadata tables | packing into blocks, positions fixed before they are written, several readers | Metadata, ReadFs, KernelFs |
| appending, restoring, recovery | an interrupt or a crash between any two writes | Image |
| unsquashfs extraction | entries handed on before they are filled, faults in the middle of a file, directories closed by another thread | Unsquash |
| kernel block cache | spinlock dropped to read, waiters counted | KernelCache |

Section 6 says what is left out.

## 2. The modules

Every stretch of code that runs with a mutex held is one step. A
`pthread_cond_wait` ends the step; the resumption is another one and re-tests
the loop condition, and a wait may end without a signal. Data are abstracted:
a block is a model value with a size, a file a list of such values.

**BoundedFIFO** is the abstract channel: a sequence no longer than `Capacity`,
`Put` at the end, `Get` at the front, `Flush`.

**Queue** is the circular buffer of `queue_init`, `queue_put`, `queue_get` and
`queue_flush`. `thread` says whether each caller runs, sleeps on the condition
of its side, was woken, or was cancelled. `Content` is the refinement mapping
to `BoundedFIFO`. Since `Queue` refines it, the models of the pipelines use
sequences for queues.

**SeqQueue** is `seq_queue_*` with the numbers the reader gives out
(`reader_read_file`, `reader_read_process`) and takes back. `SeqMod` stands
for 2^32. Its specification is `SeqSpec`, so that `QueueProofs` can extend it
together with `Queue`.

**Cache** is the `struct cache` with all its operations, for the three kinds of
cache Mksquashfs creates (`cache_init`'s `noshrink_lookup` and
`first_freelist` are chosen in `Init`). The threads are arbitrary callers that
keep to the rules stated at the head of the module. Two callers do not
always keep them, so nothing is said here of what they do then: after a
rollback the main thread hashes a block under an index that a block of the
dropped file may still have (DataLayout has this case, with its own lookup),
and `duplicate()` may give the main thread a second reference to a block it
already holds.

**Pipeline** is the way of a file's data from the reader to the main thread,
with all buffers of `reader_buffer` and `bwriter_buffer`: one action per
pass of the reader, the deflators, the fragment threads and the writer, and
`write_file` with its variants as `WriteFile`, `FirstBlock`, `NextBlock`,
`NextError`. The duplicate search inside `frag_thrd` is a choice of outcomes.

**DataLayout** is what the main thread, the fragment deflators and the writer
do to the image: `bytes`, `disk`, the fragment table, the bwriter hash table
and the dupl list. `main` is the list of the steps `write_file` has left; the
steps are its calls (`lock_fragments`, `write_file_blocks_dup`'s loop,
`duplicate`, the synchronisation with the writer and `ftruncate`,
`unlock_fragments`, `get_and_fill_fragment`, `add_non_dup`) and, at the end,
those of `main()` up to `write_filesystem_tables`. With no file at all `main()`
goes to these at once.

**Unsquash** is Unsquashfs' extraction: the scan of the tree, the two caches
and their flags, the four queues, reader, inflators and writer, with blocks
that cannot be read, writes that fail and files that cannot be created.

A name that is `link`ed, a file whose creation fails and a directory whose
attributes are set are positions in the list that the scan meets. `of` and
`nth` of a queued block are ghosts for the properties: the code's queue has
only the cache entry.

**LinkedLists** has the operations on lists that `Cache`, `DataLayout` and
`Unsquash` share (`REMOVE_LIST` and its like) and what the proofs need to say
of lists.

**KernelCache** is the kernel's `squashfs_cache`: `squashfs_cache_init`,
`squashfs_cache_get` and `squashfs_cache_put`. `at` says where each process is
in its call. The spinlock is held within a step; reading the block, the test of
`wait_event` and the wakeups happen without it and are steps of their own.
`wait_event` puts a process on the queue before it tests the condition, so the
test and falling asleep are one step; `wake_up` wakes all waiters, which are
not exclusive. `ReadMetadataFails` is the early return of
`squashfs_read_metadata`, which does not release the entry; `lost` counts such
references, and `MaxLost` bounds them for each entry. Callers other than
`squashfs_read_metadata` always release, so the caches of fragments and data
blocks are the case without `ReadMetadataFails`.

**ActionParser** is the parser of `-action` lines from tokens to parse trees,
**PathLists** the tries of exclude lists and pseudo file definitions,
**InCore** the in-core tree (`struct dir_info`, `dir_ent`, `inode_info`: three
sequences, a pointer is an index, a freed structure is marked), **ActionEval**
the evaluation of tests and actions on it. They are operators, and
**SourceTree** is the state machine that uses them: one action per option
parsed, `dir_scan1` to `dir_scan6` and the moves between them, then the reader
thread and `dir_scan7`, which walk the finished tree side by side, while a file
may change on disk (`ReaderRestat`). If the source directory itself cannot be
opened `dir_scan` returns at once (phase "no tree").

Two of its properties compare the result with a reference that is written from
the meaning and not from the code. `MatchesAt` says which paths an exclude
stands for by splitting the path into components, without the tries.
`PruneExact` reads the line of a `prune` action without parsing it: `IsExpr`
says which lines are expressions, and `Holds` what one means for a file, by
splitting it at the last operator outside brackets (so operators of the same
precedence group to the left) or at a leading "!". The files that are in the
tree at the end have to be those for which it does not hold.

**Metadata** packs inodes, listings and tables into metadata blocks, in cells
instead of bytes: a C structure is a cell with its fields and padding cells up
to its size, so whoever looks one cell away finds something else. **ReadFs**
has the readers of `read_fs.c` and of Unsquashfs, **KernelFs** the kernel's
(mount, readdir, lookup, NFS handles). **Image** is the life of an image:
create, append (`append` and `-root-becomes`), interrupt and `restorefs`, crash
and `-recover`; every write to the destination is a step. The ghost `want` is
the tree the image should show, and `flaws` records that an execution has met
one of the two defects of section 3 ("late", "aligned"); the properties of the
passing run are about all other executions, and the two violation runs are
about these.

The `MC*` modules give the constants small values. A definition whose comment
says "Mutant of X" is X with a plausible mistake; it belongs to no
specification and shows that a property notices the mistake.

## 3. The runs

| Run | Configuration | States | Checks |
|---|---|---|---|
| queues | Queues.cfg | 298,014 | `NoLostWakeup`, `ImplementsFIFO` of Queue; `NoLostMainWakeup`, `CountsExact`, `NumbersInFlight`, `EveryBlockDelivered` of SeqQueue |
| cache | Cache.cfg | 49,498 (symmetry) | `Accounting`, `HolderKeepsBlock`, `NoLostWakeup`, `NoUseBeforeFilled` |
| pipeline | Pipeline.cfg | 541,633 | `RightBuffer`, `BuffersAccounted`, `Terminates` |
| data_layout | DataLayout.cfg | 391,399 | `TypeOK`, `NoOverlap`, `ReadsTrue`, `LockedQueueHasRoom`, `ImageComplete`, `Terminates` |
| source_tree | MCSourceTree.cfg | 185,677 | `TreeSound`, `ExcludeExact`, `ListingExact`, `ReaderInStep`, `PruneExact` |
| image | MCImage.cfg | 119,364 | `ExitsValid`, `AppendReadsAll`, `RestoreExact`, `ValidMeansWhole`, `KernelTrue`, `ExportTrue` |
| unsquash | Unsquash.cfg | 39,527 | `ReferencesHold`, `NoLostWakeup`, `FilesComplete`, `OpenCountKept`, `DirStable`, `TerminatesWithoutErrors` |
| kernel_cache | KernelCache.cfg | 659,048 | `CountsExact`, `HolderSeesBlock`, `NoLostWakeup`, `CallsReturn` |
| unsquash_bad_block | UnsquashBadBlock.cfg | violation | `Terminates` |
| sticky_exclude | StickyExclude.cfg | violation | `ExcludeDocumented` |
| restore_late | ImageRestore.cfg | violation | `RestoredIsOriginal` |
| append_boundary | ImageBecomes.cfg | violation | `BecomesKeepsRoot` |

What a property says is in the comment above it, at the end of its module.

### Bounds, and why they are enough

* The run queues explores both kinds of queue, one of them in each behaviour
  (`inUse` in MCQueues).
* Queue: two producers, two consumers, capacity two (three slots). Both
  indices wrap, both sides block, and a woken thread can be overtaken by the
  other of its side. The theorems remove the bound.
* SeqQueue: three blocks in flight, numbers modulo 4. Every arrival order and
  every position of the wrap-around occurs. The theorems remove the bound.
* Cache: three threads, three buffers, three indices: one thread can hold all
  buffers while two wait, or all three can meet at one locked buffer. The
  theorems remove the bound.
* Pipeline: two files of up to three blocks (`MaxBlocks`), caches of two
  buffers, one change of size (`MaxChanges`). Three blocks exceed the write
  cache, which is what `thresh` is for; two files are enough for a buffer of
  one to be taken for the other's. `OldZeroTails` is off: see below. For
  safety the theorems remove the bound.
* DataLayout: lists of four or five files chosen so that files are equal,
  equal in size only, longer than the cache, sparse, piped, or all tail;
  `bwriter_size` 2, `fwriter_size` 3, `fragment_size` 2, one read error
  (`MaxErrors`), a disk of `MaxBytes` units. Fragments fill up at any time.
  For what concerns the fragments alone the theorems remove the bound.
* Unsquash: four files in two directories and a hard link. One has three data
  blocks and a fragment, more than the two data entries, so that the main
  thread has to wait for the writer in the middle of it; they share blocks and
  fragments, two have holes, one of them at its end; one fragment entry for
  two fragments, two open files. The theorems remove the bound.
* SourceTree: one source tree, `s/{a/{c/{y}, l, x}, b/{x}, f, g, z/}` with
  hard links, symbolic links, an unreadable directory and a file of an odd
  type, under families of two or three options that interfere: moves and
  renames, prunes, empties, excludes old and new, pseudo files, attribute
  actions, malformed lines, sort lists, two sources, a source that cannot be
  opened, an old root to append to; two files change while they are read.
  Prune expressions: every line of at most four symbols, and three operands
  with two operators, with or without brackets around the first or the last
  two and a negation in front of an operand or of the brackets.
* Image: metadata blocks of 8 cells (`Meta`), two entries under a directory
  header (`MaxCount`), inode numbers that differ by at most 3 in one
  (`MaxDelta`), data blocks of 2. Trees of 0, 1, 4 and 7 entries of all kinds:
  listings that end inside a block, at its end and beyond it. Two appends
  (`MaxAppends`), two crashes (`MaxCrashes`), depth 5 (`Depth`).
* KernelCache: three processes, three blocks, two of which cannot be read, two
  entries, one lost reference for each. All entries can be in use while a
  process waits, all processes can meet at one block, entries are reused, and
  all can be lost. The theorems remove the bound.

### Fairness

All liveness properties are under weak fairness of each thread's next step: a
thread that can go on does. POSIX scheduling gives this to a thread that is
runnable, and `NoLostWakeup` (Queue, Cache, Unsquash; `NoLostMainWakeup` in
SeqQueue) shows that a thread whose condition holds has been woken. No fairness is assumed of spurious wakeups, errors,
interruptions, or of the reader starting another file in `SeqQueue`. In
`KernelCache` a process that waits may be overtaken by new calls for ever, so
`CallsReturn` is about what happens once no more calls are made (`quiet`). It
makes an exception for a cache all of whose entries `squashfs_read_metadata`
has failed to release; such a cache does make later calls wait for ever.

Deadlock is checked except where the system may really stop: all threads
cancelled (Queue, SeqQueue), arbitrary callers of the cache that wait for each
other (Cache), Unsquashfs after faults (Unsquash), no more calls (KernelCache),
nothing more to do to an image (Image).

### What the violations show

1. `unsquash_bad_block`: after an error in a file Unsquashfs' writer skips the
   file's other blocks without releasing their entries; once all are lost
   `cache_get` waits for ever, although the message says "Failed to write %s,
   skipping". The error may be a block that cannot be read or a write that
   fails. `TerminatesWithoutErrors` shows that Unsquashfs ends when every block
   can be read and every file created and written.
2. `sticky_exclude`: `excluded` matches sticky excludes ("... a/b") with no
   list of sub-paths to go on with, and `excluded_match` then takes a match of
   the first component for a match of all: everything called `a` is left out.
   RELEASE-README says of '... [Tt]est/*.gz' "Exclude files matching "*.gz"
   inside directories called "Test" or "test" that occur anywhere in the source
   directories". `ExcludeExact` shows that excludes do as documented when the
   sticky ones have one component.
3. `restore_late`: `restorefs` writes the old tables under the superblock in
   memory, whose root inode and inode count are the new ones from the end of
   `dir_scan` on. CHANGES says "the original filesystem is restored".
4. `append_boundary`: `-root-becomes` on an image whose root listing ends
   exactly at the end of a metadata block overwrites the last block of that
   listing.

### Observations without a run

Met while modelling; the passing runs stay clear of them or are not touched by
them.

* `reader_read_process` keeps one buffer while it asks for the next, so with a
  read cache of one buffer (`-read-queue 1` and 1 Mbyte blocks) it waits for
  itself. The pipeline run has two.
* A file that is a single all-zero tail and equals one of the image appended
  to: `frag_thrd` releases its read buffer and passes on a heap copy, which
  the main thread releases as if it were the buffer (`OldZeroTails`).
* `open_wait` lowers `open_count` before `open()`; nothing raises it again if
  `open()` fails. Hence the premise of `OpenCountKept`.
* With `-sort` the reader calls `reader_read_file` for dynamic pseudo files
  too and never runs their command.
* Re-reading a file that changed copies the new stat buffer over uid, gid and
  mode that actions or pseudo `m` definitions have set.
* `eval_move_actions` keeps a rename when the move that came with it conflicts; the
  depth of a directory is not updated when it is moved; `follow_path` has no
  bound for loops of symbolic links; `stat(dircount(...))` on a symbolic link
  to a directory has no directory to count; the stat buffers of old root
  entries are not initialised; a prefixed octal number in `perm` never parses.
* After the recovery file is removed a late restore has nothing to fall back
  on. `read_recovery_data` writes the superblock, magic included, before the
  metadata; a crash in between is repaired by running the recovery again.
  Nothing is fsynced: the model's writes reach the disk in order.
* The kernel of this repository takes extended character devices for block
  devices and extended fifos for sockets; it says of such images "Xattrs in
  filesystem, these will be ignored". `KernelSees` has it as it is.

## 4. What is proved

Proofs are for any number of threads, any capacity, any number of blocks, any
tree and any modulus, from the named ASSUMEs of the modules and nothing else.
The properties were first checked by TLC on the instances of their runs.

**QueueProofs** on Queue (from `ThreadAssumption`, `CapacityAssumption`,
`DataAssumption`)

* `QueueTypeCorrect`: `Spec => []TypeOK`. `TypeOK` is inductive by itself.
* `QueueNoLostWakeup`: `Spec => []NoLostWakeup`. `NoLostWakeup` is inductive
  relative to `TypeOK`: it counts woken threads against pointers, so that a
  signal that wakes one thread pays for one pointer (`SignalOthers`) and a
  woken thread that leaves takes one (`SignalOwn`). The weaker statement one
  would write first ("no consumer sleeps while the queue is not empty unless
  one is awake") is not inductive: two pointers and one woken consumer.
* `QueueImplementsFIFO`: `Spec => ImplementsFIFO`. Each step maps to `Put`,
  `Get`, `Flush` or a stutter; the work is in what `Content` is after the
  indices moved, with and without wrap-around.

**QueueProofs** on SeqQueue (from `SeqAssumption`: fewer blocks than numbers)

* `SeqQueueTypeCorrect`, `SeqQueueCountsExact`: proved together, because a
  count is non-negative only since it is exact.
* `SeqQueueNoLostWakeup`: the main thread sleeps only if its block is absent.
* `SeqQueueNumbersInFlight`: `SeqSpec => []NumbersInFlight`. The inductive
  invariant `WindowInv` says that the numbers in flight fill the window from
  `sequence` to `seq` without gap or repetition, and that the blocks still in
  the reader's hands are the newest of them; the latter is what makes it safe
  to take a number back.

**KernelCacheProofs** (from `EntriesAssumption`, `ProcessAssumption`)

* `KernelCacheTypeCorrect`, `KernelCacheCountsExact`,
  `KernelCacheHolderSeesBlock`, `KernelCacheNoLostWakeup`. None is inductive
  alone. `IInv` adds that an entry is pending just while exactly one process
  reads it (`PendingFilled`, `FillPending`, `OneFiller`), that whoever waits
  for it then is counted (`WaitersCounted`), and that an entry that is not
  pending holds its block even while nobody refers to it (`DataThere`), which
  is what a later hit relies on. `CountsExact` is needed for the others:
  `VictimUnused` derives from it that the search for an entry, which does not
  look whether it succeeded, did (then `NoHolders`: nobody sees it reused).

**ListProofs** has the lemmas on lists and queues as sequences: what is in a
list after an element was removed, appended or taken from its front, that a
list of distinct elements stays one, and how the number of places with a given
kind of element changes. What the proofs use of the theory of finite sets is
one formula, `FiniteSetFacts`. The lemmas that count take it as an assumption;
each module derives it from FiniteSetTheorems once (`FiniteSetsHave`) before
its theorems, none of which assumes it.

**CacheProofs** (from `CacheAssumption`)

* `CacheAccounting`, `CacheHolderKeepsBlock`, `CacheNoLostWakeup`,
  `CacheNoUseBeforeFilled`, all from `CacheInvariant`: `Spec => []IInv`.
  The parts of `IInv` need each other. `Lists` (the free list has each
  allocated and unused buffer once, and each is hashed) needs the counts
  (`Counters`) to know that a buffer whose count drops to zero is not on the
  list already; `Held` (a holder's index is the buffer's) needs `Lists`,
  because a buffer is given a new index only off the free list or newly
  allocated; the counts need `Waits`, which says what a sleeping thread holds
  and asks for. `Fillers` ties locks to the thread that fills. `FreeWakeup`
  counts woken threads against buffers to be had, as in Queue; the statement
  "someone is awake" would not be inductive. `UnlockWakeup` is inductive with
  `Fillers`.

**UnsquashSteps** and **UnsquashProofs** (from `ListAssumption`,
`BufferAssumption`, `FaultAssumption`, `EntryAssumption`). UnsquashSteps has the
invariant and the lemmas that a step keeps its parts up to `Counted`,
UnsquashProofs those for the other parts and the theorems.

* `UnsquashReferencesHold`, `UnsquashNoLostWakeup`, `UnsquashFilesComplete`,
  `UnsquashOpenCountKept`, and the action property `UnsquashDirStable`, from
  `UnsquashInvariant`: `Spec => []IInv`, whatever blocks, writes and creations
  fail. The central part is `Stream`: the writer knows which block of which
  file an entry is only by its place in the queue, so the queue has to be the
  sequence of files and blocks that main went through, from where the writer
  is (`WriterCursor`) to where main is (`MainFits`). `Refs` adds that each
  entry in it holds the block meant, `Counted` that used is at least the
  number of such references (equal if nothing failed: the writer leaks the
  entries of a failed file), `Free` that the free list has what is not used;
  together they show that an entry is reused only when nobody refers to it,
  which gives `Refs` again. `Held` says what an entry that is not pending has
  in it. `Ordered` and `Outputs` carry what is written: nothing of a file that
  is still in the queue, a prefix of the one being written, all of one that is
  over. `Ending` says that the end marker is last, so that "done" means that
  the queue is empty. `DirsDone` says that nothing will come for a directory
  that is closed or whose end is queued.

**PipelineProofs** (from `PipelineAssumption` and `NoneAssumption`)

* `PipelineRightBuffer`, from `PipelineInvariant`: `Spec => []IInv`. Its
  central part is `InOrder`: the buffers on their way, wherever they are
  (`OnTheWay`), carry the numbers from main's `sequence` to the reader's `seq`,
  each once; each is what comes after the one before it, the first is what
  main expects and the reader is about to read what comes after the last. It
  says of all neighbours what `RightBuffer` says of one, which is what it
  takes: a buffer overtaken by others arrives when its predecessors are long
  gone. `After` says what comes after a buffer, re-reads and errors included;
  `Places` says what is known of a buffer at each place, so that a tail is
  known to complete its file.
* `PipelineBuffersAccounted`: unless the image appended to has fragments that
  are all zero (`~OldZeroTails`, see the observations), `Spec =>
  []BuffersAccounted`. `Acct` is inductive relative to `IInv`, which is needed
  to know that a buffer is in one place only, and from which cache it is.

**DataLayoutProofs** (from the assumptions of `DataLayout`) is about fragments,
for every input and every number of fragment deflators.

* `LayoutLockedQueueHasRoom`: `Spec => []LockedQueueHasRoom`, from
  `LayoutInvariant`: `Spec => []IInv`. `Room` counts the fragments that are
  filled, in flight and in `locked_fragment` against the buffers of the
  fragment cache, with an exception between the filling of a fragment and
  `unlock_fragments`, when a new one may have been begun. `Steps` lists what
  main may have left to do, with the fragments locked and without.
* `LayoutFragmentsApart`: fragments lie below the end of the image and no two
  overlap, the fragments' part of `NoOverlap`. `LayoutFragmentsPlaced`: when
  main goes on to write the tables every fragment has its place, the
  fragments' part of `ImageComplete`: `Pending` says that the fragments without
  a place are those on their way, `Counted` that `fragments_outstanding` counts
  them. `LayoutFragmentStays`: no step moves a fragment that has its place;
  `Below` says that a rollback goes back to a position above all of them,
  since none is placed while they are locked.

## 5. What is only model-checked

`SourceTree` and `Image` with all they use, and all liveness properties. Weak
fairness and ENABLED are out of the prover's reach. The operators of
`SourceTree` and `Image` recurse over trees and tables: RECURSIVE operators
cannot be reasoned about here, and the library's induction theorems cannot be
instantiated by the provers that are installed. `DataLayout!Position`, the sum
of the lengths of a file's blocks, would need such an induction too; so what
`NoOverlap` and `ImageComplete` say of the blocks of files, and `ReadsTrue`,
are left to the run.

## 6. What is not modelled, and abstractions

* The contents of fragments and the checksums: `Pipeline` lets `frag_thrd`
  find a duplicate or not, `DataLayout` compares tails by value. The search
  for duplicates among fragments (`get_fragment`, `get_fragment_cksum`) reads
  some fields without the mutex and is not modelled.
* 4K alignment, padding, progress bar, statistics and messages.
* The order in which `restore_thrd` cancels and joins the threads, except
  where it matters to a queue (`Queue`).
* The tables of extended attributes; that a file has some is modelled.
* The characters of tokens and names, regular expressions, and programs that
  are run for pseudo files and `eval`.
* Errors of `lstat` other than that the file is missing, in sort lists, where
  they end the search, and in excludes, where they only give a message.
* Device nodes, symlinks and attribute values in `Unsquash`, where a mkdir
  never fails and a name is made once.
* The kernel's pages, buffer heads and VFS objects, its metadata index, and
  the checks of `fill_super`.
* Compressor wrappers, byte swapping, option parsing, formats 1 to 3, the
  2.4 kernel, the Android glue: sequential conversions or I/O without shared
  state.
