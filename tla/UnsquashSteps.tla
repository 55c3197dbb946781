--------------------------- MODULE UnsquashSteps ----------------------------
(* The inductive invariant of the extraction threads of Unsquashfs, and the  *)
(* lemmas that every step keeps its first half: the types, where the threads *)
(* are, the wakeups, the order of what is queued, the cache and its counts.  *)
EXTENDS Unsquash, ListProofs

-----------------------------------------------------------------------------
(* The inductive invariant, in parts.                                       *)
AllBlocks == Blocks \cup FragBlocks \cup {Hole}
FileNos == {i \in DOMAIN List : List[i].op = "file"}
Dirs == {List[i].dir : i \in DOMAIN List}
MaybeEntry == Entries \cup {None}
BlockItems == [item : {"block"}, of : FileNos, nth : Nat, entry : MaybeEntry]
FileItems == [item : {"file"}, of : FileNos]
Items == BlockItems \cup FileItems \cup [item : {"dir"}, of : Dirs] \cup [item : {"null"}]

(* The main thread is in write_file's loop. *)
LoopPlaces == {"block", "read", "put", "sleep", "woken"}
InLoop == main.at \in LoopPlaces

MainType == [at : LoopPlaces \cup {"scan", "queue", "end", "done"}, block : Nat, entry : MaybeEntry]
WriterType == [at : {"idle", "blocks", "check", "sleep"}, file : FileNos \cup {0}, block : Nat,
               entry : MaybeEntry, failed : BOOLEAN]
EntryType == [block : AllBlocks \cup {None}, data : AllBlocks \cup {None}, used : Nat,
              pending : BOOLEAN, error : BOOLEAN]

Types ==
    /\ faults \in Faults /\ scan \in Nat /\ main \in MainType
    /\ entry \in [Entries -> EntryType]
    /\ count \in [Caches -> Nat] /\ free_list \in [Caches -> Seq(Entries)]
    /\ wait_free \in [Caches -> BOOLEAN] /\ wait_pending \in [Caches -> BOOLEAN]
    /\ to_reader \in Seq(Entries) /\ to_inflate \in Seq(Entries) /\ to_writer \in Seq(Items)
    /\ from_writer \in 0..1
    /\ reader \in MaybeEntry /\ inflator \in [Inflators -> MaybeEntry]
    /\ writer \in WriterType
    /\ open_count \in Nat /\ output \in [DOMAIN List -> Seq(AllBlocks \cup {None})]
    /\ present \subseteq DOMAIN List

(* No queue is longer than it was made. *)
Room ==
    /\ Len(to_reader) <= to_reader_size /\ Len(to_inflate) <= to_inflate_size
    /\ Len(to_writer) <= to_writer_size
    /\ \A c \in Caches : count[c] <= max_buffers[c]

(* Where the main thread is.  A thread that waited for a free entry does not *)
(* look for its block again: nobody else puts one into the cache.            *)
MainInv ==
    /\ scan \in 1..(Len(List) + 1)
    /\ main.at \in {"scan", "queue"} => main.block = 1
    /\ main.at = "queue" => scan \in FileNos
    /\ InLoop => scan \in FileNos /\ main.block \in 1..Len(F.blocks)
    /\ main.at = "read" => main.entry # None
    /\ main.at = "put" => (main.entry = None <=> B = Hole)
    /\ main.at \in {"sleep", "woken"} =>
          B # Hole /\ \A e \in Entries : entry[e].block # B
    /\ main.at \in {"end", "done"} => scan = Len(List) + 1

(* Where the writer is. *)
WriterInv ==
    /\ writer.at = "idle" => writer.file = 0 /\ writer.block = 1 /\ ~writer.failed
    /\ writer.at # "idle" => writer.file \in FileNos /\ writer.block \in 1..(Len(WFile) + 1)
    /\ writer.at \in {"check", "sleep"} => writer.entry # None /\ writer.block <= Len(WFile)
    /\ writer.failed => faults.bad # {} \/ faults.write

(* The writer knows the blocks of a file only by their order in the queue.   *)
(* A cursor is the file and the block that is due: at the writer, behind     *)
(* every item of the queue, and at the main thread.                          *)
WriterCursor ==
    CASE writer.at = "idle" -> <<0, 1>>
      [] writer.at = "blocks" -> <<writer.file, writer.block>>
      [] OTHER -> <<writer.file, writer.block + 1>>
Behind(x) ==
    CASE x.item = "file" -> <<x.of, 1>>
      [] x.item = "block" -> <<x.of, x.nth + 1>>
      [] OTHER -> <<0, 1>>
Cursor(i) == IF i = 0 THEN WriterCursor ELSE Behind(to_writer[i])
Complete(c) == c[1] = 0 \/ c[2] > Len(List[c[1]].blocks)
Fits(c, x) ==
    IF x.item = "block" THEN c = <<x.of, x.nth>> /\ x.nth \in 1..Len(List[x.of].blocks)
                        ELSE Complete(c)
MainFits(c) == IF InLoop THEN c = <<scan, main.block>> ELSE Complete(c)
Stream ==
    /\ \A i \in 1..Len(to_writer) : Fits(Cursor(i - 1), to_writer[i])
    /\ MainFits(Cursor(Len(to_writer)))

(* Who refers to an entry refers to its block, and is counted. *)
Refs ==
    /\ \A j \in 1..Len(to_writer) : to_writer[j].item = "block" =>
          IF to_writer[j].entry = None
          THEN List[to_writer[j].of].blocks[to_writer[j].nth] = Hole
          ELSE entry[to_writer[j].entry].block = List[to_writer[j].of].blocks[to_writer[j].nth]
    /\ main.at \in {"read", "put"} /\ main.entry # None => entry[main.entry].block = B
    /\ writer.at \in {"check", "sleep"} => entry[writer.entry].block = WFile[writer.block]

(* How many items of the queue refer to an entry is a number, and not zero   *)
(* when there is one.                                                        *)
QueueCounts ==
    \A e \in Entries : /\ Cardinality(Queued(e)) \in Nat
                       /\ Queued(e) # {} => Cardinality(Queued(e)) > 0

Counted ==
    \A e \in Entries :
        /\ References(e) <= entry[e].used
        /\ faults.bad = {} /\ ~faults.write => References(e) = entry[e].used

(* The free lists are exactly what was allocated and is not in use. *)
Free ==
    /\ \A c \in Caches : Distinct(free_list[c])
    /\ \A c \in Caches : \A e \in Elems(free_list[c]) : e[1] = c
    /\ \A e \in Entries : e \in Elems(free_list[e[1]]) <=> e[2] <= count[e[1]] /\ entry[e].used = 0

(* What the entries hold. *)
Held ==
    /\ \A e \in Entries : e[2] > count[e[1]] => entry[e].block = None /\ entry[e].used = 0
    /\ \A e \in Entries : entry[e].block # Hole
    /\ \A e1, e2 \in Entries : entry[e1].block = entry[e2].block /\ entry[e1].block # None
                                  => e1 = e2
    /\ \A e \in Entries : ~entry[e].pending /\ ~entry[e].error => entry[e].data = entry[e].block
    /\ \A e \in Entries : entry[e].error => faults.bad # {}

Opened ==
    /\ open_count + OpenFiles <= max_files
    /\ ~faults.open => open_count + OpenFiles = max_files

(* The end marker is the last thing in the queue. *)
Ending ==
    /\ \A j \in 1..Len(to_writer) : to_writer[j].item = "null" =>
          j = Len(to_writer) /\ main.at = "end" /\ from_writer = 0
    /\ main.at = "end" /\ from_writer = 0 =>
          to_writer # <<>> /\ to_writer[Len(to_writer)].item = "null"
    /\ from_writer = 1 \/ main.at = "done" =>
          to_writer = <<>> /\ writer.at = "idle" /\ main.at \in {"end", "done"}

(* The files that have been queued are numbered up to Frontier; those that   *)
(* the writer has not come to are in the queue, in the order of the scan.    *)
Frontier == IF InLoop THEN scan ELSE scan - 1
QueuedFiles == {i \in FileNos : \E j \in 1..Len(to_writer) :
                                    to_writer[j].item = "file" /\ to_writer[j].of = i}
Ordered ==
    /\ writer.file <= Frontier
    /\ \A j \in 1..Len(to_writer) : to_writer[j].item = "file" =>
          writer.file < to_writer[j].of /\ to_writer[j].of <= Frontier
    /\ \A j, k \in 1..Len(to_writer) :
          j < k /\ to_writer[j].item = "file" /\ to_writer[k].item = "file" =>
             to_writer[j].of < to_writer[k].of
    /\ \A i \in present : i < scan \/ (i = scan /\ (InLoop \/ main.at = "queue"))

Outputs ==
    \A i \in FileNos :
        /\ i \in QueuedFiles \/ i > Frontier => output[i] = <<>>
        /\ i = writer.file /\ ~writer.failed =>
              /\ Len(output[i]) = writer.block - 1
              /\ \A k \in 1..(writer.block - 1) : output[i][k] = List[i].blocks[k]
        /\ i \in present /\ i <= Frontier /\ i # writer.file /\ i \notin QueuedFiles =>
              output[i] = List[i].blocks

(* Nothing is to come for a directory that is closed, or behind its end in   *)
(* the queue.                                                                *)
NotScanned(d) == \A i \in scan..Len(List) : List[i].op # "enddir" => List[i].dir # d
DirsDone ==
    /\ \A d \in closed :
          /\ NotScanned(d)
          /\ writer.file # 0 => List[writer.file].dir # d
          /\ \A j \in 1..Len(to_writer) : to_writer[j].item = "file" =>
                List[to_writer[j].of].dir # d
    /\ \A j \in 1..Len(to_writer) : to_writer[j].item = "dir" =>
          /\ NotScanned(to_writer[j].of)
          /\ \A k \in (j + 1)..Len(to_writer) : to_writer[k].item = "file" =>
                List[to_writer[k].of].dir # to_writer[j].of

IInv ==
    /\ Types /\ Room /\ MainInv /\ WriterInv /\ Stream /\ Refs /\ QueueCounts /\ Counted
    /\ Free /\ Held /\ NoLostWakeup /\ Opened /\ Ending /\ Ordered /\ Outputs /\ DirsDone

-----------------------------------------------------------------------------
(* The constants. *)
LEMMA Constants ==
    /\ Caches = {"data", "frag"}
    /\ \A b : CacheOf(b) \in Caches
    /\ \A c \in Caches : max_buffers[c] \in Nat \ {0}
    /\ {to_reader_size, to_inflate_size, to_writer_size, max_files} \subseteq Nat \ {0}
    /\ \A e \in Entries : e[1] \in Caches /\ e[2] \in 1..max_buffers[e[1]] /\ e = <<e[1], e[2]>>
    /\ \A c \in Caches : \A n \in 1..max_buffers[c] : <<c, n>> \in Entries
<1>1. data_buffer_size \in Nat \ {0} /\ fragment_buffer_size \in Nat \ {0}
      /\ max_files \in Nat \ {0}
  BY BufferAssumption, Zenon
<1>2. Caches = {"data", "frag"} /\ \A b : CacheOf(b) \in Caches
  BY Zenon DEF Caches, CacheOf
<1>3. \A c \in Caches : max_buffers[c] \in Nat \ {0}
  BY <1>1, Zenon DEF max_buffers
<1>4. {to_reader_size, to_inflate_size, to_writer_size} \subseteq Nat \ {0}
  BY <1>1 DEF to_reader_size, to_inflate_size, to_writer_size
<1>5. \A e \in Entries : e[1] \in Caches /\ e[2] \in 1..max_buffers[e[1]] /\ e = <<e[1], e[2]>>
  BY DEF Entries
<1>6. \A c \in Caches : \A n \in 1..max_buffers[c] : <<c, n>> \in Entries
  BY DEF Entries
<1> QED
  BY <1>1, <1>2, <1>3, <1>4, <1>5, <1>6, Zenon

(* Every step is one of these, and what may go wrong stays the same. *)
LEMMA NextCases ==
    ASSUME [Next]_vars
    PROVE  /\ faults' = faults
           /\ \/ MakeName \/ OpenWait \/ QueueFile \/ CacheGet \/ QueueRead \/ QueueBlock
              \/ QueueDir \/ EndScan \/ Synced \/ ReaderTake \/ ReaderPass
              \/ \E i \in Inflators : InflatorTake(i) \/ InflatorReady(i)
              \/ WriterTake \/ WriterBlock \/ WriterSleep \/ WriterWrite \/ WriterClose
              \/ SpuriousWakeup
              \/ UNCHANGED vars
<1>1. CASE Next
  BY <1>1, Zenon DEF Next, Main, Reader, Inflator, Writer, SpuriousWakeup, Finished, vars
<1>2. CASE UNCHANGED vars
  BY <1>2, Zenon DEF vars
<1> QED
  BY <1>1, <1>2, Zenon

(* What follows from the types and from where the threads are. *)
LEMMA Shapes ==
    ASSUME Types, MainInv, WriterInv
    PROVE  /\ Len(List) \in Nat /\ FileNos \subseteq 1..Len(List)
           /\ \A i \in FileNos : List[i].blocks \in Seq(AllBlocks) /\ Len(List[i].blocks) \in Nat
           /\ None \notin AllBlocks /\ None \notin Entries
           /\ InLoop => F.blocks \in Seq(AllBlocks) /\ B \in AllBlocks
           /\ writer.at # "idle" => WFile \in Seq(AllBlocks)
           /\ writer.at \in {"check", "sleep"} => writer.entry \in Entries
                                                   /\ WFile[writer.block] \in AllBlocks
           /\ main.at = "read" => main.entry \in Entries
           /\ Len(to_writer) \in Nat
<1>1. Len(List) \in Nat /\ FileNos \subseteq 1..Len(List)
  BY ListAssumption, Zenon DEF FileNos
<1>2. \A i \in FileNos : List[i].blocks \in Seq(AllBlocks) /\ Len(List[i].blocks) \in Nat
  BY ListAssumption DEF FileNos, AllBlocks
<1>3. None \notin AllBlocks /\ None \notin Entries
  BY ListAssumption, EntryAssumption, Zenon DEF AllBlocks
<1>4. ASSUME InLoop PROVE F.blocks \in Seq(AllBlocks) /\ B \in AllBlocks
  <2>1. scan \in FileNos /\ main.block \in 1..Len(F.blocks)
    BY <1>4, Zenon DEF MainInv
  <2>2. F.blocks \in Seq(AllBlocks)
    BY <2>1, <1>2, Zenon DEF F
  <2> QED
    BY <2>1, <2>2 DEF B
<1>5. ASSUME writer.at # "idle" PROVE WFile \in Seq(AllBlocks)
  BY <1>2, <1>5, Zenon DEF WriterInv, WFile
<1>6. ASSUME writer.at \in {"check", "sleep"}
      PROVE  writer.entry \in Entries /\ WFile[writer.block] \in AllBlocks
  <2>1. writer.entry # None /\ writer.block <= Len(WFile) /\ writer.block \in 1..(Len(WFile) + 1)
    BY <1>6, Zenon DEF WriterInv
  <2>2. writer.entry \in MaybeEntry
    BY Zenon DEF Types, WriterType
  <2>3. WFile \in Seq(AllBlocks)
    BY <1>5, <1>6, Zenon
  <2>4. writer.block \in 1..Len(WFile)
    BY <2>1, <2>3
  <2> QED
    BY <2>1, <2>2, <2>3, <2>4 DEF MaybeEntry
<1>7. ASSUME main.at = "read" PROVE main.entry \in Entries
  BY <1>7, Zenon DEF MainInv, Types, MainType, MaybeEntry
<1>8. Len(to_writer) \in Nat
  BY DEF Types
<1> QED
  BY <1>1, <1>2, <1>3, <1>4, <1>5, <1>6, <1>7, <1>8, Zenon

(* The items of the writer's queue. *)
LEMMA FilesNumbered == FileNos \subseteq Nat /\ DOMAIN List \subseteq Nat /\ 0 \notin FileNos
<1>1. FileNos \subseteq DOMAIN List
  BY Zenon DEF FileNos
<1>2. DOMAIN List \subseteq Nat /\ 0 \notin DOMAIN List
  BY ListAssumption
<1> QED
  BY <1>1, <1>2, Zenon

(* The fields of each kind of item in the queue to the writer. *)
LEMMA ItemShapes ==
    /\ \A x \in Items : x.item \in {"block", "file", "dir", "null"}
    /\ \A x \in Items : x.item = "block" => x \in BlockItems /\ x.of \in FileNos /\ x.nth \in Nat
                                              /\ x.entry \in MaybeEntry
    /\ \A x \in Items : x.item = "file" => x \in FileItems /\ x.of \in FileNos
    /\ \A x \in Items : x.item = "dir" => x.of \in Dirs
    /\ \A x \in FileItems : x.item = "file"
    /\ \A x \in BlockItems : x.item = "block"
BY Zenon DEF Items, BlockItems, FileItems

(* The ways through cache_get.  An entry is new to its block when it is      *)
(* allocated or comes off the free list.                                     *)
GetHole ==
    /\ main.at = "block" /\ B = Hole
    /\ main' = [main EXCEPT !.at = "put", !.entry = None]
    /\ UNCHANGED cacheVars
GetHit(e) == main.at = "block" /\ B # Hole /\ entry[e].block = B /\ CacheHit(e)
GetNew(e) ==
    /\ main.at \in {"block", "woken"} /\ B # Hole /\ \A x \in Entries : entry[x].block # B
    /\ e[1] = CacheOf(B)
    /\ Reserve(e, B)
    /\ UNCHANGED wait_free
Allocated(e) ==
    /\ count[e[1]] < max_buffers[e[1]] /\ e = <<e[1], count[e[1]] + 1>>
    /\ count' = [count EXCEPT ![e[1]] = @ + 1]
    /\ UNCHANGED free_list
Reused(e) ==
    /\ free_list[e[1]] # <<>> /\ e = Head(free_list[e[1]])
    /\ free_list' = [free_list EXCEPT ![e[1]] = Tail(@)]
    /\ UNCHANGED count
GetSleep ==
    /\ main.at \in {"block", "woken"} /\ B # Hole /\ \A x \in Entries : entry[x].block # B
    /\ free_list[CacheOf(B)] = <<>>
    /\ wait_free' = [wait_free EXCEPT ![CacheOf(B)] = TRUE]
    /\ main' = [main EXCEPT !.at = "sleep"]
    /\ UNCHANGED <<entry, count, free_list>>

(* The ways cache_get can end: a hole, a hit, or a new or reused entry. *)
LEMMA CacheGetCases ==
    ASSUME IInv, CacheGet
    PROVE  /\ InLoop
           /\ UNCHANGED <<scan, wait_pending, queueVars, reader, inflator, writer, open_count, fsVars>>
           /\ \/ GetHole
              \/ \E e \in Entries : GetHit(e)
              \/ \E e \in Entries : GetNew(e) /\ (Allocated(e) \/ Reused(e))
              \/ GetSleep
<1>1. main.at \in {"block", "woken"} /\ InLoop
      /\ UNCHANGED <<scan, wait_pending, queueVars, reader, inflator, writer, open_count, fsVars>>
  BY Zenon DEF CacheGet, InLoop, LoopPlaces
<1> DEFINE c == CacheOf(B)
<1>2. c \in Caches /\ count[c] \in Nat /\ max_buffers[c] \in Nat /\ free_list[c] \in Seq(Entries)
  BY Constants, Zenon DEF IInv, Types
<1>3. ASSUME TakeFree(B), main.at \in {"block", "woken"}, B # Hole,
             \A x \in Entries : entry[x].block # B
      PROVE  (\E e \in Entries : GetNew(e) /\ Reused(e)) \/ GetSleep
  <2>1. CASE /\ free_list[c] # <<>>
             /\ Reserve(Head(free_list[c]), B)
             /\ free_list' = [free_list EXCEPT ![c] = Tail(@)]
             /\ UNCHANGED <<count, wait_free>>
    <3> DEFINE e == Head(free_list[c])
    <3>1. e \in Entries /\ e \in Elems(free_list[c])
      BY <1>2, <2>1 DEF Elems
    <3>2. e[1] = c
      BY <1>2, <3>1, Zenon DEF IInv, Free
    <3>3. GetNew(e)
      BY <1>3, <2>1, <3>2, Zenon DEF GetNew
    <3>4. Reused(e)
      BY <2>1, <3>2, Zenon DEF Reused
    <3> QED
      BY <3>1, <3>3, <3>4, Zenon
  <2>2. CASE /\ free_list[c] = <<>>
             /\ wait_free' = [wait_free EXCEPT ![c] = TRUE]
             /\ main' = [main EXCEPT !.at = "sleep"]
             /\ UNCHANGED <<entry, count, free_list>>
    BY <1>3, <2>2, Zenon DEF GetSleep
  <2> QED
    BY <1>3, <2>1, <2>2, Zenon DEF TakeFree
<1>4. CASE main.at = "woken" /\ TakeFree(B)
  <2>1. B # Hole /\ \A x \in Entries : entry[x].block # B
    BY <1>4, Zenon DEF IInv, MainInv
  <2> QED
    BY <1>1, <1>3, <1>4, <2>1, Zenon
<1>5. CASE main.at = "block" /\ B = Hole /\ main' = [main EXCEPT !.at = "put", !.entry = None]
           /\ UNCHANGED cacheVars
  BY <1>1, <1>5, Zenon DEF GetHole
<1>6. CASE main.at = "block" /\ B # Hole
           /\ \E e \in {e \in Entries : entry[e].block = B} : CacheHit(e)
  BY <1>1, <1>6, Zenon DEF GetHit
<1>7. CASE /\ main.at = "block" /\ B # Hole /\ {e \in Entries : entry[e].block = B} = {}
           /\ count[c] < max_buffers[c]
           /\ count' = [count EXCEPT ![c] = @ + 1]
           /\ Reserve(<<c, count[c] + 1>>, B)
           /\ UNCHANGED <<free_list, wait_free>>
  <2> DEFINE e == <<c, count[c] + 1>>
  <2>1. e \in Entries /\ e[1] = c
    <3>1. /\ c \in Caches /\ count[c] \in Nat /\ max_buffers[c] \in Nat
          /\ count[c] < max_buffers[c]
      BY <1>2, <1>7, Constants, Zenon
    <3>2. count[c] + 1 \in 1..max_buffers[c]
      BY <3>1
    <3> QED
      BY <3>1, <3>2, Constants, Zenon
  <2>2. GetNew(e)
    BY <1>7, <2>1, Zenon DEF GetNew
  <2>3. Allocated(e)
    BY <1>7, <2>1, Zenon DEF Allocated
  <2> QED
    BY <1>1, <2>1, <2>2, <2>3, Zenon
<1>8. CASE /\ main.at = "block" /\ B # Hole /\ {e \in Entries : entry[e].block = B} = {}
           /\ TakeFree(B)
  BY <1>1, <1>3, <1>8, Zenon
<1> QED
  BY <1>4, <1>5, <1>6, <1>7, <1>8, Zenon DEF CacheGet

(* The other ways a step can go.  Quiet steps are those of the reader and    *)
(* the inflators that take an entry or pass it on.                           *)
mainVars == <<scan, main, open_count, fsVars>>
Quiet == UNCHANGED <<mainVars, cacheVars, wait_pending, to_writer, from_writer, writer>>
OpenFails ==
    /\ main.at = "scan" /\ Step("file") /\ open_count > 0 /\ faults.open
    /\ open_count' = open_count - 1 /\ scan' = scan + 1
    /\ UNCHANGED <<main, cacheVars, wait_pending, to_writer, from_writer, writer, fsVars>>
Opens ==
    /\ main.at = "scan" /\ Step("file") /\ open_count > 0
    /\ open_count' = open_count - 1
    /\ present' = present \cup {scan}
    /\ main' = [main EXCEPT !.at = "queue"]
    /\ UNCHANGED <<scan, cacheVars, wait_pending, to_writer, from_writer, writer, output, closed>>
Fill(e) ==
    /\ CacheBlockReady(e, entry[e].block \in faults.bad)
    /\ UNCHANGED <<mainVars, count, free_list, wait_free, to_writer, from_writer>>
Skip ==
    /\ writer.at = "check" /\ Ready(writer.entry) /\ (entry[writer.entry].error \/ writer.failed)
    /\ WriterNext(TRUE)
    /\ UNCHANGED <<mainVars, cacheVars, wait_pending, to_writer, from_writer>>
Put ==
    /\ writer.at = "check" /\ Ready(writer.entry) /\ ~entry[writer.entry].error /\ ~writer.failed
    /\ \/ /\ output' = [output EXCEPT ![writer.file] = Append(@, entry[writer.entry].data)]
          /\ WriterNext(FALSE)
       \/ faults.write /\ WriterNext(TRUE) /\ UNCHANGED output
    /\ CacheBlockPut(writer.entry)
    /\ UNCHANGED <<scan, count, wait_pending, to_writer, from_writer, open_count, present, closed>>
WakeMain ==
    /\ main.at = "sleep" /\ main' = [main EXCEPT !.at = "woken"]
    /\ UNCHANGED <<scan, cacheVars, wait_pending, to_writer, from_writer, writer, open_count, fsVars>>
WakeWriter ==
    /\ writer.at = "sleep" /\ writer' = [writer EXCEPT !.at = "check"]
    /\ UNCHANGED <<mainVars, cacheVars, wait_pending, to_writer, from_writer>>

(* Every step is one of these, and what may go wrong stays the same. *)
LEMMA Cases ==
    ASSUME IInv, [Next]_vars
    PROVE  /\ faults' = faults
           /\ \/ MakeName \/ OpenFails \/ Opens \/ QueueFile \/ CacheGet \/ QueueRead \/ QueueBlock
              \/ QueueDir \/ EndScan \/ Synced
              \/ Quiet
              \/ \E e \in Entries : Fill(e)
              \/ WriterTake \/ WriterBlock \/ WriterSleep \/ Skip \/ Put \/ WriterClose
              \/ WakeMain \/ WakeWriter
<1>1. CASE OpenWait
  BY <1>1, NextCases, Zenon DEF OpenWait, OpenFails, Opens, queueVars, fsVars
<1>2. CASE ReaderTake
  BY <1>2, NextCases, Zenon DEF ReaderTake, Quiet, mainVars
<1>3. CASE ReaderPass
  <2>1. reader \in Entries
    BY <1>3, Zenon DEF ReaderPass, IInv, Types, MaybeEntry
  <2>2. Quiet \/ Fill(reader)
    BY <1>3, Zenon DEF ReaderPass, Quiet, Fill, mainVars, cacheVars
  <2> QED
    BY <2>1, <2>2, NextCases, Zenon
<1>4. ASSUME NEW i \in Inflators, InflatorTake(i) PROVE Quiet
  BY <1>4, Zenon DEF InflatorTake, Quiet, mainVars
<1>5. ASSUME NEW i \in Inflators, InflatorReady(i) PROVE \E e \in Entries : Fill(e)
  <2>1. inflator[i] \in Entries
    BY <1>5, Zenon DEF InflatorReady, IInv, Types, MaybeEntry
  <2>2. Fill(inflator[i])
    BY <1>5, Zenon DEF InflatorReady, Fill, mainVars, queueVars
  <2> QED
    BY <2>1, <2>2, Zenon
<1>6. CASE WriterWrite
  BY <1>6, NextCases, Zenon DEF WriterWrite, Skip, Put, mainVars, cacheVars, queueVars, fsVars
<1>7. CASE SpuriousWakeup
  BY <1>7, NextCases, Zenon DEF SpuriousWakeup, WakeMain, WakeWriter, mainVars, queueVars
<1>8. CASE UNCHANGED vars
  BY <1>8, NextCases, Zenon DEF vars, Quiet, mainVars, queueVars
<1> QED
  BY <1>1, <1>2, <1>3, <1>4, <1>5, <1>6, <1>7, <1>8, NextCases, Zenon

-----------------------------------------------------------------------------

(* The types and the sizes. *)
LEMMA MainTyped == ASSUME IInv, [Next]_vars PROVE main' \in MainType /\ scan' \in Nat
<1>0. main \in MainType /\ scan \in Nat /\ main.block \in Nat
  BY Zenon DEF IInv, Types, MainType
<1>1. CASE MakeName \/ OpenFails \/ Opens \/ QueueFile
  BY <1>0, <1>1 DEF MakeName, OpenFails, Opens, QueueFile, MainType, LoopPlaces
<1>2. CASE CacheGet
  <2>1. CASE GetHole
    BY <1>0, <2>1, <1>2, CacheGetCases, Zenon DEF GetHole, MainType, LoopPlaces, MaybeEntry
  <2>2. ASSUME NEW e \in Entries, GetHit(e) \/ GetNew(e) PROVE main' \in MainType
    BY <1>0, <2>2, Zenon DEF GetHit, GetNew, CacheHit, Reserve, MainType, LoopPlaces, MaybeEntry
  <2>3. CASE GetSleep
    BY <1>0, <2>3, <1>2, CacheGetCases, Zenon DEF GetSleep, MainType, LoopPlaces
  <2> QED
    BY <1>0, <1>2, <2>1, <2>2, <2>3, CacheGetCases, Zenon
<1>3. CASE QueueRead \/ QueueDir \/ EndScan \/ Synced
  BY <1>0, <1>3 DEF QueueRead, QueueDir, EndScan, Synced, MainType, LoopPlaces
<1>4. CASE QueueBlock
  BY <1>0, <1>4 DEF QueueBlock, NextBlock, MainType, LoopPlaces, MaybeEntry
<1>5. CASE Quiet \/ WriterTake \/ WriterBlock \/ WriterSleep \/ Skip \/ WriterClose
           \/ WakeMain \/ WakeWriter
  BY <1>0, <1>5, Zenon DEF Quiet, mainVars, WriterTake, WriterBlock, WriterSleep, Skip, WriterClose,
                    WakeMain, WakeWriter, MainType, LoopPlaces
<1>6. ASSUME NEW e \in Entries, Fill(e) PROVE main' = main /\ scan' = scan
  BY <1>6, Zenon DEF Fill, mainVars
<1>7. CASE Put
  BY <1>0, <1>7, Zenon DEF Put, CacheBlockPut, MainType, LoopPlaces
<1> QED
  BY <1>0, <1>1, <1>2, <1>3, <1>4, <1>5, <1>6, <1>7, Cases, Zenon

(* The writer goes on to the next block. *)
LEMMA NextTyped ==
    ASSUME writer \in WriterType, NEW failed \in BOOLEAN, WriterNext(failed)
    PROVE  /\ writer' \in WriterType
           /\ writer'.at = "blocks" /\ writer'.file = writer.file
           /\ writer'.block = writer.block + 1 /\ writer'.entry = None
           /\ writer'.failed = failed
<1>1. writer.block \in Nat /\ writer.file \in FileNos \cup {0}
  BY Zenon DEF WriterType
<1>2. writer' = [at |-> "blocks", file |-> writer.file, block |-> writer.block + 1,
                 entry |-> None, failed |-> failed]
  BY Zenon DEF WriterNext, WriterType
<1>3. None \in MaybeEntry
  BY Zenon DEF MaybeEntry
<1> QED
  BY <1>1, <1>2, <1>3 DEF WriterType

(* Every step keeps the type of the writer. *)
LEMMA WriterTyped == ASSUME IInv, [Next]_vars PROVE writer' \in WriterType
<1>0. writer \in WriterType /\ to_writer \in Seq(Items) /\ writer.block \in Nat
  BY Zenon DEF IInv, Types, WriterType
<1>1. CASE MakeName \/ OpenFails \/ Opens \/ QueueFile \/ CacheGet \/ QueueRead
  BY <1>0, <1>1, Zenon DEF MakeName, OpenFails, Opens, QueueFile, CacheGet, QueueRead
<1>2. CASE QueueBlock \/ QueueDir \/ EndScan \/ Synced \/ Quiet \/ WakeMain
  BY <1>0, <1>2, Zenon DEF QueueBlock, QueueDir, EndScan, Synced, Quiet, WakeMain
<1>3. ASSUME NEW e \in Entries, Fill(e) PROVE writer' \in WriterType
  BY <1>0, <1>3, Zenon DEF Fill, CacheBlockReady, WriterType
<1>4. CASE WriterTake
  <2>1. Head(to_writer) \in Items
    BY <1>0, <1>4 DEF WriterTake
  <2> QED
    BY <1>0, <1>4, <2>1, ItemShapes, Zenon DEF WriterTake, WriterType
<1>5. CASE WriterBlock
  <2>1. Head(to_writer) \in Items /\ Head(to_writer) = to_writer[1] /\ Len(to_writer) > 0
    BY <1>0, <1>5 DEF WriterBlock
  <2>2. Head(to_writer).item = "block"
    <3>1. Fits(Cursor(0), to_writer[1]) /\ writer.at = "blocks" /\ writer.file \in FileNos
          /\ writer.block <= Len(WFile)
      BY <1>0, <1>5, <2>1, SMTT(30) DEF WriterBlock, IInv, Stream, WriterInv
    <3>2. Cursor(0) = <<writer.file, writer.block>>
      BY <3>1, Zenon DEF Cursor, WriterCursor
    <3>3. Len(WFile) \in Nat /\ writer.file # 0
      BY <3>1, Shapes DEF IInv, WFile
    <3>4. ~Complete(Cursor(0))
      BY <1>0, <3>1, <3>2, <3>3 DEF Complete, WFile
    <3> QED
      BY <2>1, <3>1, <3>4, Zenon DEF Fits
  <2>3. CASE Head(to_writer).entry = None
    <3>1. WriterNext(writer.failed) /\ writer.failed \in BOOLEAN
      BY <1>0, <1>5, <2>3, Zenon DEF WriterBlock, WriterType
    <3> QED
      BY <1>0, <3>1, NextTyped, Zenon
  <2>4. CASE Head(to_writer).entry # None
    BY <1>0, <1>5, <2>1, <2>2, <2>4, ItemShapes, Zenon DEF WriterBlock, WriterType, MaybeEntry
  <2> QED
    BY <2>3, <2>4, Zenon
<1>6. CASE WriterSleep \/ WakeWriter
  BY <1>0, <1>6, Zenon DEF WriterSleep, WakeWriter, WriterType
<1>8. CASE WriterClose
  <2>1. None \in MaybeEntry
    BY Zenon DEF MaybeEntry
  <2> QED
    BY <1>8, <2>1, Zenon DEF WriterClose, WriterType
<1>7. CASE Skip \/ Put
  BY <1>0, <1>7, NextTyped, Zenon DEF Skip, Put
<1> QED
  BY <1>1, <1>2, <1>3, <1>4, <1>5, <1>6, <1>7, <1>8, Cases, Zenon

(* Whoever refers to an entry is counted in its use count. *)
LEMMA ReferenceCounts ==
    ASSUME IInv, NEW e \in Entries
    PROVE  /\ References(e) \in Nat /\ entry[e].used \in Nat /\ References(e) <= entry[e].used
           /\ MainHas(e) => entry[e].used > 0
           /\ WriterHas(e) => entry[e].used > 0
           /\ \A j \in 1..Len(to_writer) : to_writer[j].item = "block" /\ to_writer[j].entry = e
                                              => entry[e].used > 0
<1>0. to_writer \in Seq(Items)
  BY Zenon DEF IInv, Types
<1>1. Cardinality(Queued(e)) \in Nat /\ (Queued(e) # {} => Cardinality(Queued(e)) > 0)
  BY Zenon DEF IInv, QueueCounts
<1>2. entry[e].used \in Nat /\ References(e) <= entry[e].used
  BY Zenon DEF IInv, Types, EntryType, Counted
<1>3. References(e) \in Nat /\ (MainHas(e) \/ WriterHas(e) => References(e) > 0)
      /\ References(e) >= Cardinality(Queued(e))
  BY <1>1 DEF References
<1>4. ASSUME NEW j \in 1..Len(to_writer), to_writer[j].item = "block", to_writer[j].entry = e
      PROVE  entry[e].used > 0
  <2>1. j \in Queued(e)
    BY <1>0, <1>4 DEF Queued
  <2>2. Cardinality(Queued(e)) # 0
    BY <1>1, <2>1
  <2> QED
    BY <1>1, <1>2, <1>3, <2>2
<1> QED
  BY <1>2, <1>3, <1>4

(* What the operations of the caches do to the entries. *)
LEMMA HitEffect ==
    ASSUME IInv, NEW e \in Entries, CacheHit(e)
    PROVE  /\ entry' \in [Entries -> EntryType]
           /\ \A x \in Entries : x # e => entry'[x] = entry[x]
           /\ entry'[e].used = entry[e].used + 1 /\ entry'[e].block = entry[e].block
           /\ entry'[e].data = entry[e].data /\ entry'[e].pending = entry[e].pending
           /\ entry'[e].error = entry[e].error
<1>1. entry \in [Entries -> EntryType] /\ entry' = [entry EXCEPT ![e].used = @ + 1]
  BY Zenon DEF IInv, Types, CacheHit
<1> QED
  BY <1>1 DEF EntryType

(* What reserving an entry for a block does to the cache. *)
LEMMA ReserveEffect ==
    ASSUME IInv, InLoop, NEW e \in Entries, Reserve(e, B)
    PROVE  /\ entry' \in [Entries -> EntryType]
           /\ \A x \in Entries : x # e => entry'[x] = entry[x]
           /\ entry'[e] = [block |-> B, data |-> None, used |-> 1, pending |-> TRUE, error |-> FALSE]
<1>1. entry \in [Entries -> EntryType] /\ B \in AllBlocks
  BY Shapes, Zenon DEF IInv, Types
<1>2. /\ \A x \in Entries : x # e => entry'[x] = entry[x]
      /\ entry'[e] = [block |-> B, data |-> None, used |-> 1, pending |-> TRUE, error |-> FALSE]
      /\ DOMAIN entry' = Entries /\ entry' = [x \in Entries |-> entry'[x]]
  BY <1>1, Zenon DEF Reserve
<1>3. entry'[e] \in EntryType
  BY <1>1, <1>2 DEF EntryType
<1> QED
  BY <1>1, <1>2, <1>3, Zenon

(* What filling an entry, with data or an error, does to the cache. *)
LEMMA FillEffect ==
    ASSUME IInv, NEW e \in Entries, Fill(e)
    PROVE  /\ entry' \in [Entries -> EntryType]
           /\ \A x \in Entries : x # e => entry'[x] = entry[x]
           /\ entry'[e].used = entry[e].used /\ entry'[e].block = entry[e].block
           /\ entry'[e].pending = FALSE /\ entry'[e].error = (entry[e].block \in faults.bad)
           /\ entry[e].block \notin faults.bad => entry'[e].data = entry[e].block
<1> DEFINE error == entry[e].block \in faults.bad
           d == IF error THEN None ELSE entry[e].block
<1>1. /\ entry \in [Entries -> EntryType]
      /\ entry' = [entry EXCEPT ![e].pending = FALSE, ![e].error = error, ![e].data = d]
  BY Zenon DEF IInv, Types, Fill, CacheBlockReady
<1>2. d \in AllBlocks \cup {None} /\ error \in BOOLEAN
  BY <1>1 DEF EntryType
<1> HIDE DEF error, d
<1>3. /\ entry' \in [Entries -> EntryType]
      /\ \A x \in Entries : x # e => entry'[x] = entry[x]
      /\ entry'[e].used = entry[e].used /\ entry'[e].block = entry[e].block
      /\ entry'[e].pending = FALSE /\ entry'[e].error = error
      /\ entry'[e].data = d
  BY <1>1, <1>2, Zenon DEF EntryType
<1> QED
  BY <1>3, Zenon DEF error, d

(* What cache_block_put does to the cache. *)
LEMMA PutEffect ==
    ASSUME IInv, Put
    PROVE  /\ writer.entry \in Entries /\ entry[writer.entry].used > 0
           /\ entry' \in [Entries -> EntryType]
           /\ \A x \in Entries : x # writer.entry => entry'[x] = entry[x]
           /\ entry'[writer.entry].used = entry[writer.entry].used - 1
           /\ entry'[writer.entry].block = entry[writer.entry].block
           /\ entry'[writer.entry].data = entry[writer.entry].data
           /\ entry'[writer.entry].pending = entry[writer.entry].pending
           /\ entry'[writer.entry].error = entry[writer.entry].error
<1> DEFINE e == writer.entry
<1>1. e \in Entries
  BY Shapes, Zenon DEF Put, IInv
<1>2. entry[e].used > 0 /\ entry[e].used \in Nat
  BY <1>1, ReferenceCounts, Zenon DEF Put, WriterHas
<1>3. entry \in [Entries -> EntryType] /\ entry' = [entry EXCEPT ![e].used = @ - 1]
  BY Zenon DEF IInv, Types, Put, CacheBlockPut
<1> HIDE DEF e
<1>4. /\ entry' \in [Entries -> EntryType]
      /\ \A x \in Entries : x # e => entry'[x] = entry[x]
      /\ entry'[e].used = entry[e].used - 1 /\ entry'[e].block = entry[e].block
      /\ entry'[e].data = entry[e].data /\ entry'[e].pending = entry[e].pending
      /\ entry'[e].error = entry[e].error
  BY <1>1, <1>2, <1>3 DEF EntryType
<1> QED
  BY <1>1, <1>2, <1>4, Zenon DEF e

(* A step leaves the entries alone, or is one of these. *)
LEMMA EntryCases ==
    ASSUME IInv, [Next]_vars
    PROVE  \/ UNCHANGED <<entry, count, free_list>>
           \/ InLoop /\ \E e \in Entries : CacheGet /\ GetHit(e)
           \/ InLoop /\ \E e \in Entries : CacheGet /\ GetNew(e) /\ (Allocated(e) \/ Reused(e))
           \/ \E e \in Entries : Fill(e)
           \/ Put
<1>1. CASE MakeName \/ OpenFails \/ Opens \/ QueueFile \/ QueueRead
  BY <1>1, ZenonT(60) DEF MakeName, OpenFails, Opens, QueueFile, QueueRead, cacheVars
<1>2. CASE QueueBlock \/ QueueDir \/ EndScan \/ Synced \/ Quiet \/ WakeMain
  BY <1>2, ZenonT(60) DEF QueueBlock, QueueDir, EndScan, Synced, Quiet, WakeMain, cacheVars
<1>3. CASE WriterTake \/ WriterBlock \/ WriterSleep \/ Skip \/ WriterClose \/ WakeWriter
  BY <1>3, ZenonT(60) DEF WriterTake, WriterBlock, WriterSleep, Skip, WriterClose, WakeWriter,
                         cacheVars
<1>4. CASE CacheGet
  <2>1. CASE GetHole \/ GetSleep
    BY <2>1, Zenon DEF GetHole, GetSleep, cacheVars
  <2> QED
    BY <1>4, <2>1, CacheGetCases, Zenon
<1> QED
  BY <1>1, <1>2, <1>3, <1>4, Cases, Zenon

(* Every step keeps the types of the entries. *)
LEMMA EntryTyped == ASSUME IInv, [Next]_vars PROVE entry' \in [Entries -> EntryType]
<1>1. CASE UNCHANGED <<entry, count, free_list>>
  BY <1>1, Zenon DEF IInv, Types
<1>2. ASSUME InLoop, NEW e \in Entries, GetHit(e) PROVE entry' \in [Entries -> EntryType]
  BY <1>2, HitEffect, Zenon DEF GetHit
<1>3. ASSUME InLoop, NEW e \in Entries, GetNew(e) PROVE entry' \in [Entries -> EntryType]
  BY <1>3, ReserveEffect, Zenon DEF GetNew
<1> QED
  BY <1>1, <1>2, <1>3, EntryCases, FillEffect, PutEffect, Zenon

(* remove_free_list *)
LEMMA WithoutElems ==
    ASSUME NEW S, NEW s \in Seq(S), Distinct(s), NEW e \in Elems(s)
    PROVE  /\ Without(s, e) \in Seq(S)
           /\ Distinct(Without(s, e)) /\ Elems(Without(s, e)) = Elems(s) \ {e}
<1> DEFINE k == CHOOSE i \in 1..Len(s) : s[i] = e
<1>1. k \in 1..Len(s) /\ s[k] = e
  BY Zenon DEF Elems
<1>2. Without(s, e) = RemoveNth(s, k)
  BY Zenon DEF Without
<1> HIDE DEF k
<1> QED
  BY <1>1, <1>2, RemoveElems, SMTT(30)

(* The free lists and the counts. *)
FreeTyped == /\ free_list \in [Caches -> Seq(Entries)] /\ count \in [Caches -> Nat]
             /\ \A c \in Caches : count[c] <= max_buffers[c]

(* Every step keeps the free list the unused entries. *)
LEMMA FreeStep == ASSUME IInv, [Next]_vars PROVE FreeTyped' /\ Free'
<1>0. /\ FreeTyped /\ Free
      /\ free_list \in [Caches -> Seq(Entries)] /\ count \in [Caches -> Nat]
      /\ \A e \in Entries : entry[e].used \in Nat
  BY Zenon DEF IInv, Types, Room, FreeTyped, EntryType
<1>c. \A e \in Entries : e[1] \in Caches
  BY Constants, Zenon
<1>1. CASE UNCHANGED <<entry, count, free_list>>
  BY <1>0, <1>1, Zenon DEF FreeTyped, Free
<1>2. ASSUME InLoop, NEW e \in Entries, GetHit(e) PROVE FreeTyped' /\ Free'
  <2>1. /\ \A x \in Entries : x # e => entry'[x] = entry[x]
        /\ entry'[e].used = entry[e].used + 1
    BY <1>2, HitEffect, Zenon DEF GetHit
  <2>2. count' = count /\ e[2] <= count[e[1]]
    <3>1. B # None /\ entry[e].block = B
      BY <1>2, Shapes, Zenon DEF IInv, GetHit
    <3>2. ~(e[2] > count[e[1]])
      BY <3>1, Zenon DEF IInv, Held
    <3> QED
      BY <1>0, <1>2, <1>c, <3>2, Constants, SMTT(30) DEF GetHit, CacheHit
  <2>3. CASE entry[e].used = 0
    <3> DEFINE c == e[1]
    <3>1. c \in Caches /\ free_list[c] \in Seq(Entries) /\ Distinct(free_list[c])
          /\ e \in Elems(free_list[c])
      BY <1>0, <1>c, <2>2, <2>3, Zenon DEF Free
    <3>2. free_list' = [free_list EXCEPT ![c] = Without(@, e)]
      BY <1>2, <2>3, Zenon DEF GetHit, CacheHit
    <3>3. /\ free_list'[c] \in Seq(Entries) /\ Distinct(free_list'[c])
          /\ Elems(free_list'[c]) = Elems(free_list[c]) \ {e}
      BY <1>0, <3>1, <3>2, WithoutElems, Zenon
    <3>4. \A x \in Caches : x # c => free_list'[x] = free_list[x]
      BY <1>0, <3>2, Zenon
    <3>5. FreeTyped'
      <4>1. free_list' \in [Caches -> Seq(Entries)]
        BY <1>0, <3>2, <3>3, <3>4, Zenon
      <4> QED
        BY <1>0, <2>2, <4>1, Zenon DEF FreeTyped
    <3>6. \A x \in Caches : Distinct(free_list'[x]) /\ \A y \in Elems(free_list'[x]) : y[1] = x
      BY <1>0, <3>3, <3>4, Zenon DEF Free
    <3>7. ASSUME NEW x \in Entries
          PROVE  x \in Elems(free_list'[x[1]]) <=> x[2] <= count[x[1]] /\ entry'[x].used = 0
      <4>1. x \in Elems(free_list[x[1]]) <=> x[2] <= count[x[1]] /\ entry[x].used = 0
        BY <1>0, Zenon DEF Free
      <4>2. CASE x = e
        BY <1>0, <2>1, <2>3, <3>3, <4>2
      <4>3. CASE x # e
        BY <1>c, <2>1, <3>3, <3>4, <4>1, <4>3, Zenon
      <4> QED
        BY <4>2, <4>3, Zenon
    <3> QED
      BY <2>2, <3>5, <3>6, <3>7, Zenon DEF Free
  <2>4. CASE entry[e].used # 0
    <3>1. free_list' = free_list
      BY <1>2, <2>4, Zenon DEF GetHit, CacheHit
    <3>2. entry'[e].used # 0
      BY <1>0, <2>1
    <3>3. FreeTyped'
      BY <1>0, <2>2, <3>1, Zenon DEF FreeTyped
    <3>4. Free'
      BY <1>0, <2>1, <2>2, <2>4, <3>1, <3>2, Zenon DEF Free
    <3> QED
      BY <3>3, <3>4, Zenon
  <2> QED
    BY <2>3, <2>4, Zenon
<1>3. ASSUME InLoop, NEW e \in Entries, GetNew(e), Allocated(e) \/ Reused(e)
      PROVE FreeTyped' /\ Free'
  <2> DEFINE c == e[1]
  <2>1. /\ \A x \in Entries : x # e => entry'[x] = entry[x]
        /\ entry'[e].used = 1
    BY <1>3, ReserveEffect DEF GetNew
  <2>2. c \in Caches /\ free_list[c] \in Seq(Entries) /\ Distinct(free_list[c]) /\ count[c] \in Nat
    BY <1>0, <1>c, Zenon DEF Free
  <2>3. CASE Allocated(e)
    <3>1. /\ count[c] < max_buffers[c] /\ e = <<c, count[c] + 1>> /\ free_list' = free_list
          /\ count' = [count EXCEPT ![c] = @ + 1]
      BY <2>3, Zenon DEF Allocated
    <3>2. e[2] = count[c] + 1 /\ max_buffers[c] \in Nat
      BY <2>2, <3>1, Constants, Zenon
    <3> HIDE DEF c
    <3>3. /\ count' \in [Caches -> Nat] /\ count'[c] = count[c] + 1
          /\ \A x \in Caches : x # c => count'[x] = count[x]
      BY <1>0, <2>2, <3>1
    <3>4. FreeTyped'
      <4>1. \A x \in Caches : count'[x] <= max_buffers[x]
        BY <1>0, <2>2, <3>1, <3>2, <3>3 DEF FreeTyped
      <4> QED
        BY <1>0, <3>1, <3>3, <4>1, Zenon DEF FreeTyped
    <3>5. ASSUME NEW x \in Entries
          PROVE  x \in Elems(free_list[x[1]]) <=> x[2] <= count'[x[1]] /\ entry'[x].used = 0
      <4>0. x \in Elems(free_list[x[1]]) <=> x[2] <= count[x[1]] /\ entry[x].used = 0
        BY <1>0, Zenon DEF Free
      <4>1. CASE x = e
        BY <2>1, <2>2, <3>2, <4>0, <4>1 DEF c
      <4>2. CASE x # e /\ x[1] = c
        <5>1. x[2] # e[2] /\ x[2] \in Nat
          BY <4>2, Constants DEF c
        <5> QED
          BY <2>1, <2>2, <3>2, <3>3, <4>0, <4>2, <5>1
      <4>3. CASE x[1] # c
        BY <1>c, <2>1, <3>3, <4>0, <4>3, Zenon DEF c
      <4> QED
        BY <4>1, <4>2, <4>3, Zenon
    <3> QED
      BY <1>0, <3>1, <3>4, <3>5, Zenon DEF Free
  <2>4. CASE Reused(e)
    <3>1. /\ free_list[c] # <<>> /\ e = Head(free_list[c]) /\ count' = count
          /\ free_list' = [free_list EXCEPT ![c] = Tail(@)]
      BY <2>4, Zenon DEF Reused
    <3> HIDE DEF c
    <3>2. /\ free_list'[c] \in Seq(Entries) /\ Distinct(free_list'[c])
          /\ Elems(free_list'[c]) = Elems(free_list[c]) \ {e}
      BY <1>0, <2>2, <3>1, TailElems, Zenon
    <3>3. \A x \in Caches : x # c => free_list'[x] = free_list[x]
      BY <1>0, <3>1, Zenon
    <3>4. FreeTyped'
      <4>1. free_list' \in [Caches -> Seq(Entries)]
        BY <1>0, <3>1, <3>2, <3>3, Zenon
      <4> QED
        BY <1>0, <3>1, <4>1, Zenon DEF FreeTyped
    <3>5. \A x \in Caches : Distinct(free_list'[x]) /\ \A y \in Elems(free_list'[x]) : y[1] = x
      BY <1>0, <3>2, <3>3, Zenon DEF Free
    <3>6. ASSUME NEW x \in Entries
          PROVE  x \in Elems(free_list'[x[1]]) <=> x[2] <= count[x[1]] /\ entry'[x].used = 0
      <4>1. x \in Elems(free_list[x[1]]) <=> x[2] <= count[x[1]] /\ entry[x].used = 0
        BY <1>0, Zenon DEF Free
      <4>2. CASE x = e
        BY <2>1, <3>2, <4>2 DEF c
      <4>3. CASE x # e
        BY <1>c, <2>1, <3>2, <3>3, <4>1, <4>3, Zenon
      <4> QED
        BY <4>2, <4>3, Zenon
    <3> QED
      BY <3>1, <3>4, <3>5, <3>6, Zenon DEF Free
  <2> QED
    BY <1>3, <2>3, <2>4, Zenon
<1>4. ASSUME NEW e \in Entries, Fill(e) PROVE FreeTyped' /\ Free'
  <2>1. \A x \in Entries : entry'[x].used = entry[x].used
    BY <1>4, FillEffect, Zenon
  <2>2. count' = count /\ free_list' = free_list
    BY <1>4, Zenon DEF Fill
  <2> QED
    BY <1>0, <2>1, <2>2, Zenon DEF FreeTyped, Free
<1>5. CASE Put
  <2> DEFINE e == writer.entry
             c == e[1]
  <2>1. /\ e \in Entries /\ entry[e].used > 0
        /\ \A x \in Entries : x # e => entry'[x] = entry[x]
        /\ entry'[e].used = entry[e].used - 1
    BY <1>5, PutEffect, Zenon
  <2>2. count' = count /\ c \in Caches /\ e[2] <= count[c]
    <3>1. ~(e[2] > count[c])
      BY <1>0, <2>1 DEF IInv, Held
    <3> QED
      BY <1>0, <1>5, <1>c, <2>1, <3>1, Constants, SMTT(30) DEF Put
  <2>3. free_list[c] \in Seq(Entries) /\ Distinct(free_list[c]) /\ e \notin Elems(free_list[c])
    BY <1>0, <2>1, <2>2 DEF Free
  <2>4. CASE entry[e].used = 1
    <3>1. free_list' = [free_list EXCEPT ![c] = Append(@, e)]
      BY <1>5, <2>4, Zenon DEF Put, CacheBlockPut
    <3> HIDE DEF c, e
    <3>2. /\ free_list'[c] \in Seq(Entries) /\ Distinct(free_list'[c])
          /\ Elems(free_list'[c]) = Elems(free_list[c]) \cup {e}
      BY <1>0, <2>1, <2>2, <2>3, <3>1, AppendElems
    <3>3. \A x \in Caches : x # c => free_list'[x] = free_list[x]
      BY <1>0, <3>1, Zenon
    <3>4. FreeTyped'
      <4>1. free_list' \in [Caches -> Seq(Entries)]
        BY <1>0, <3>1, <3>2, <3>3, Zenon
      <4> QED
        BY <1>0, <2>2, <4>1, Zenon DEF FreeTyped
    <3>5. \A x \in Caches : Distinct(free_list'[x]) /\ \A y \in Elems(free_list'[x]) : y[1] = x
      BY <1>0, <3>2, <3>3, Zenon DEF Free, c
    <3>6. ASSUME NEW x \in Entries
          PROVE  x \in Elems(free_list'[x[1]]) <=> x[2] <= count[x[1]] /\ entry'[x].used = 0
      <4>1. x \in Elems(free_list[x[1]]) <=> x[2] <= count[x[1]] /\ entry[x].used = 0
        BY <1>0, Zenon DEF Free
      <4>2. CASE x = e
        BY <2>1, <2>2, <2>4, <3>2, <4>2 DEF c
      <4>3. CASE x # e
        BY <1>c, <2>1, <3>2, <3>3, <4>1, <4>3, Zenon
      <4> QED
        BY <4>2, <4>3, Zenon
    <3> QED
      BY <2>2, <3>4, <3>5, <3>6, Zenon DEF Free
  <2>5. CASE entry[e].used # 1
    <3>1. free_list' = free_list
      BY <1>5, <2>5, Zenon DEF Put, CacheBlockPut
    <3>2. \A x \in Entries : entry'[x].used = 0 <=> entry[x].used = 0
      BY <1>0, <2>1, <2>5
    <3> QED
      BY <1>0, <2>2, <3>1, <3>2, Zenon DEF Free, FreeTyped
  <2> QED
    BY <2>4, <2>5, Zenon
<1> QED
  BY <1>1, <1>2, <1>3, <1>4, <1>5, EntryCases, Zenon

(* What the entries hold.  A block is not in two entries: one that is set up *)
(* for a block is set up when no entry has it.                               *)
LEMMA HeldStep == ASSUME IInv, [Next]_vars PROVE Held'
<1>0. /\ Held /\ faults' = faults /\ count \in [Caches -> Nat]
      /\ entry \in [Entries -> EntryType] /\ FreeTyped' /\ \A e \in Entries : e[1] \in Caches
  BY Cases, FreeStep, Constants, Zenon DEF IInv, Types
<1>1. CASE UNCHANGED <<entry, count, free_list>>
  BY <1>0, <1>1, Zenon DEF Held
<1>2. ASSUME InLoop, NEW e \in Entries, GetHit(e) PROVE Held'
  <2>1. /\ \A x \in Entries : x # e => entry'[x] = entry[x]
        /\ entry'[e].block = entry[e].block
        /\ entry'[e].data = entry[e].data /\ entry'[e].pending = entry[e].pending
        /\ entry'[e].error = entry[e].error
    BY <1>2, HitEffect, Zenon DEF GetHit
  <2>2. B # None /\ entry[e].block = B /\ count' = count
    BY <1>2, Shapes, Zenon DEF IInv, GetHit, CacheHit
  <2>3. \A x \in Entries : x[2] > count[x[1]] => x # e
    BY <1>0, <2>2, Zenon DEF Held
  <2> QED
    BY <1>0, <2>1, <2>2, <2>3 DEF Held
<1>3. ASSUME InLoop, NEW e \in Entries, GetNew(e), Allocated(e) \/ Reused(e) PROVE Held'
  <2>1. /\ \A x \in Entries : x # e => entry'[x] = entry[x]
        /\ entry'[e] = [block |-> B, data |-> None, used |-> 1, pending |-> TRUE, error |-> FALSE]
        /\ B # Hole /\ \A x \in Entries : entry[x].block # B
    BY <1>3, ReserveEffect, Zenon DEF GetNew
  <2>2. \A x \in Entries : x[2] > count'[x[1]] => x[2] > count[x[1]] /\ x # e
    <3>0. \A x \in Entries : x[2] \in Nat /\ x[1] \in Caches
      BY Constants
    <3>1. CASE Allocated(e)
      <4>1. e[1] \in Caches /\ e[2] = count[e[1]] + 1 /\ count' = [count EXCEPT ![e[1]] = @ + 1]
        BY <1>0, <3>1 DEF Allocated
      <4>2. count'[e[1]] = count[e[1]] + 1 /\ \A c \in Caches : count'[c] >= count[c]
        BY <1>0, <4>1
      <4> QED
        BY <1>0, <3>0, <4>1, <4>2 DEF FreeTyped
    <3>2. CASE Reused(e)
      <4>1. count' = count /\ e \in Elems(free_list[e[1]])
        BY <1>0, <3>2 DEF Reused, Elems, IInv, Types
      <4>2. e[2] <= count[e[1]]
        BY <4>1, Zenon DEF IInv, Free
      <4> QED
        BY <1>0, <3>0, <4>1, <4>2
    <3> QED
      BY <1>3, <3>1, <3>2, Zenon
  <2> QED
    BY <1>0, <2>1, <2>2 DEF Held
<1>4. ASSUME NEW e \in Entries, Fill(e) PROVE Held'
  <2>1. /\ \A x \in Entries : x # e => entry'[x] = entry[x]
        /\ entry'[e].used = entry[e].used /\ entry'[e].block = entry[e].block
        /\ entry'[e].pending = FALSE /\ entry'[e].error = (entry[e].block \in faults.bad)
        /\ entry[e].block \notin faults.bad => entry'[e].data = entry[e].block
        /\ count' = count
    BY <1>4, FillEffect, Zenon DEF Fill
  <2>2. \A x \in Entries : ~entry'[x].pending /\ ~entry'[x].error => entry'[x].data = entry'[x].block
    BY <1>0, <2>1, Zenon DEF Held
  <2>3. \A x \in Entries : entry'[x].error => faults.bad # {}
    BY <1>0, <2>1, Zenon DEF Held
  <2> QED
    BY <1>0, <2>1, <2>2, <2>3 DEF Held
<1>5. CASE Put
  <2> DEFINE e == writer.entry
  <2>1. /\ e \in Entries /\ entry[e].used > 0 /\ entry[e].used \in Nat
        /\ \A x \in Entries : x # e => entry'[x] = entry[x]
        /\ entry'[e].block = entry[e].block
        /\ entry'[e].data = entry[e].data /\ entry'[e].pending = entry[e].pending
        /\ entry'[e].error = entry[e].error /\ count' = count
    BY <1>5, <1>0, PutEffect, Zenon DEF Put, EntryType
  <2>2. \A x \in Entries : x[2] > count[x[1]] => x # e
    BY <1>0, <2>1 DEF Held
  <2> QED
    BY <1>0, <2>1, <2>2 DEF Held
<1> QED
  BY <1>1, <1>2, <1>3, <1>4, <1>5, EntryCases, Zenon

(* A step leaves the writer's queue alone, adds an item or takes one. *)
LEMMA QueueCases ==
    ASSUME IInv, [Next]_vars
    PROVE  \/ to_writer' = to_writer
           \/ /\ Len(to_writer) < to_writer_size
              /\ \E x \in Items : to_writer' = Append(to_writer, x)
              /\ QueueFile \/ QueueBlock \/ QueueDir \/ EndScan
           \/ to_writer # <<>> /\ to_writer' = Tail(to_writer) /\ (WriterTake \/ WriterBlock)
<1>0. main \in MainType /\ scan \in 1..(Len(List) + 1) /\ Len(List) \in Nat
  BY Shapes, Zenon DEF IInv, Types, MainInv
<1>1. CASE MakeName \/ OpenFails \/ Opens \/ CacheGet \/ QueueRead \/ Synced \/ Quiet
  BY <1>1, Zenon DEF MakeName, OpenFails, Opens, CacheGet, QueueRead, Synced, Quiet, queueVars
<1>2. CASE WriterSleep \/ Skip \/ Put \/ WriterClose \/ WakeMain \/ WakeWriter
  BY <1>2, Zenon DEF WriterSleep, Skip, Put, WriterClose, WakeMain, WakeWriter, queueVars
<1>3. CASE \E e \in Entries : Fill(e)
  BY <1>3, Zenon DEF Fill
<1>4. CASE WriterTake \/ WriterBlock
  BY <1>4, Zenon DEF WriterTake, WriterBlock
<1>5. CASE QueueFile
  <2>1. [item |-> "file", of |-> scan] \in Items
    BY <1>5, Zenon DEF QueueFile, IInv, MainInv, Items, FileItems
  <2> QED
    BY <1>5, <2>1, Zenon DEF QueueFile
<1>6. CASE QueueBlock
  <2>1. scan \in FileNos /\ main.block \in Nat /\ main.entry \in MaybeEntry
    BY <1>6, <1>0, Zenon DEF QueueBlock, IInv, MainInv, InLoop, LoopPlaces, MainType
  <2>2. [item |-> "block", of |-> scan, nth |-> main.block, entry |-> main.entry] \in Items
    BY <2>1, Zenon DEF Items, BlockItems
  <2> QED
    BY <1>6, <2>2, Zenon DEF QueueBlock
<1>7. CASE QueueDir
  <2>1. scan \in DOMAIN List
    BY <1>0, <1>7, ListAssumption DEF QueueDir, Step
  <2>2. [item |-> "dir", of |-> F.dir] \in Items
    BY <2>1, Zenon DEF Items, Dirs, F
  <2> QED
    BY <1>7, <2>2, Zenon DEF QueueDir
<1>8. CASE EndScan
  <2>1. [item |-> "null"] \in Items
    BY Zenon DEF Items
  <2> QED
    BY <1>8, <2>1, Zenon DEF EndScan
<1> QED
  BY <1>1, <1>2, <1>3, <1>4, <1>5, <1>6, <1>7, <1>8, Cases, Zenon

(* Every step keeps the queue to the writer typed and within its size. *)
LEMMA QueueTyped ==
    ASSUME IInv, [Next]_vars
    PROVE  to_writer' \in Seq(Items) /\ Len(to_writer') <= to_writer_size
<1>0. to_writer \in Seq(Items) /\ Len(to_writer) <= to_writer_size /\ to_writer_size \in Nat
  BY Constants, Zenon DEF IInv, Types, Room
<1> QED
  BY <1>0, QueueCases, SMTT(30)

(* The reader's and the inflators' queues. *)
PassTyped ==
    /\ to_reader \in Seq(Entries) /\ to_inflate \in Seq(Entries)
    /\ reader \in MaybeEntry /\ inflator \in [Inflators -> MaybeEntry]
    /\ Len(to_reader) <= to_reader_size /\ Len(to_inflate) <= to_inflate_size

(* Every step keeps the type of the pass over the list. *)
LEMMA PassStep == ASSUME IInv, [Next]_vars PROVE PassTyped'
<1>0. PassTyped
  BY Zenon DEF IInv, Types, Room, PassTyped
<1>s. to_reader_size \in Nat /\ to_inflate_size \in Nat
  BY Constants, Zenon
<1>1. CASE MakeName \/ OpenWait \/ QueueFile \/ CacheGet \/ QueueBlock \/ QueueDir
  BY <1>0, <1>1, Zenon DEF MakeName, OpenWait, QueueFile, CacheGet, QueueBlock, QueueDir, queueVars, PassTyped
<1>2. CASE EndScan \/ Synced \/ WriterTake \/ WriterBlock \/ WriterSleep \/ WriterWrite
  BY <1>0, <1>2, Zenon DEF EndScan, Synced, WriterTake, WriterBlock, WriterSleep, WriterWrite, queueVars, PassTyped
<1>3. CASE WriterClose \/ SpuriousWakeup \/ UNCHANGED vars
  BY <1>0, <1>3, Zenon DEF WriterClose, SpuriousWakeup, vars, queueVars, PassTyped
<1>4. CASE QueueRead
  <2>1. main.entry \in Entries
    BY <1>4, Shapes, Zenon DEF IInv, QueueRead
  <2> QED
    BY <1>0, <1>4, <1>s, <2>1 DEF QueueRead, PassTyped
<1>5. CASE ReaderTake
  BY <1>0, <1>5, <1>s DEF ReaderTake, PassTyped, MaybeEntry
<1>6. CASE ReaderPass
  <2>1. reader \in Entries
    BY <1>0, <1>6, Zenon DEF ReaderPass, PassTyped, MaybeEntry
  <2>2. None \in MaybeEntry /\ UNCHANGED <<to_reader, inflator>> /\ reader' = None
    BY <1>6, Zenon DEF ReaderPass, MaybeEntry
  <2>3. to_inflate' \in Seq(Entries) /\ Len(to_inflate') <= to_inflate_size
    <3>1. CASE Len(to_inflate) < to_inflate_size /\ to_inflate' = Append(to_inflate, reader)
      BY <1>0, <1>s, <2>1, <3>1 DEF PassTyped
    <3>2. CASE to_inflate' = to_inflate
      BY <1>0, <3>2, Zenon DEF PassTyped
    <3> QED
      BY <1>6, <3>1, <3>2, Zenon DEF ReaderPass
  <2> QED
    BY <1>0, <2>2, <2>3, Zenon DEF PassTyped
<1>7. ASSUME NEW i \in Inflators, InflatorTake(i) PROVE PassTyped'
  BY <1>0, <1>7, <1>s DEF InflatorTake, PassTyped, MaybeEntry
<1>8. ASSUME NEW i \in Inflators, InflatorReady(i) PROVE PassTyped'
  BY <1>0, <1>8, Zenon DEF InflatorReady, queueVars, PassTyped, MaybeEntry
<1> QED
  BY <1>1, <1>2, <1>3, <1>4, <1>5, <1>6, <1>7, <1>8, NextCases, Zenon

(* The flags, the counter of open files and the files. *)
LEMMA FlagsTyped ==
    ASSUME IInv, [Next]_vars
    PROVE  /\ wait_free' \in [Caches -> BOOLEAN] /\ wait_pending' \in [Caches -> BOOLEAN]
           /\ from_writer' \in 0..1 /\ open_count' \in Nat
<1>0. /\ wait_free \in [Caches -> BOOLEAN] /\ wait_pending \in [Caches -> BOOLEAN]
      /\ from_writer \in 0..1 /\ open_count \in Nat
  BY Zenon DEF IInv, Types
<1>1. CASE MakeName \/ OpenFails \/ Opens \/ QueueFile \/ QueueRead
  BY <1>0, <1>1 DEF MakeName, OpenFails, Opens, QueueFile, QueueRead, cacheVars, queueVars
<1>2. CASE QueueBlock \/ QueueDir \/ EndScan \/ Synced \/ Quiet \/ WakeMain
  BY <1>0, <1>2 DEF QueueBlock, QueueDir, EndScan, Synced, Quiet, WakeMain, cacheVars, mainVars
<1>3. CASE WriterTake
  BY <1>0, <1>3 DEF WriterTake, cacheVars
<1>8. CASE WriterBlock \/ WriterClose
  BY <1>0, <1>8 DEF WriterBlock, WriterClose, cacheVars, queueVars
<1>9. CASE Skip \/ WakeWriter
  BY <1>0, <1>9, Zenon DEF Skip, WakeWriter, cacheVars, mainVars
<1>7. CASE WriterSleep
  BY <1>0, <1>7, Zenon DEF WriterSleep, cacheVars, queueVars
<1>4. CASE CacheGet
  <2>1. UNCHANGED <<wait_pending, from_writer, open_count>>
    BY <1>4, Zenon DEF CacheGet, queueVars
  <2>2. CASE GetSleep
    BY <1>0, <2>1, <2>2, Zenon DEF GetSleep
  <2>3. CASE GetHole
    BY <1>0, <2>1, <2>3, Zenon DEF GetHole, cacheVars
  <2>4. ASSUME NEW e \in Entries, GetHit(e) \/ GetNew(e) PROVE wait_free' = wait_free
    BY <2>4, Zenon DEF GetHit, GetNew, CacheHit
  <2> QED
    BY <1>0, <1>4, <2>1, <2>2, <2>3, <2>4, CacheGetCases, Zenon
<1>5. ASSUME NEW e \in Entries, Fill(e)
      PROVE  UNCHANGED <<wait_free, from_writer, open_count>> /\ wait_pending' \in [Caches -> BOOLEAN]
  BY <1>0, <1>5, Zenon DEF Fill, CacheBlockReady, mainVars
<1>6. CASE Put
  BY <1>0, <1>6, Zenon DEF Put, CacheBlockPut
<1> QED
  BY <1>0, <1>1, <1>2, <1>3, <1>4, <1>5, <1>6, <1>7, <1>8, <1>9, Cases, Zenon

(* Appending to one of several sequences keeps them typed. *)
LEMMA AppendTyped ==
    ASSUME NEW I, NEW S, NEW f \in [I -> Seq(S)], NEW i, NEW x \in S
    PROVE  [f EXCEPT ![i] = Append(@, x)] \in [I -> Seq(S)]
<1>1. CASE i \in I
  <2>1. Append(f[i], x) \in Seq(S)
    BY <1>1
  <2> QED
    BY <1>1, <2>1, Zenon
<1>2. CASE i \notin I
  BY <1>2, Zenon
<1> QED
  BY <1>1, <1>2, Zenon

(* Every step keeps the types of the output files. *)
LEMMA FilesTyped ==
    ASSUME IInv, [Next]_vars
    PROVE  /\ output' \in [DOMAIN List -> Seq(AllBlocks \cup {None})]
           /\ present' \subseteq DOMAIN List
<1>0. /\ output \in [DOMAIN List -> Seq(AllBlocks \cup {None})] /\ present \subseteq DOMAIN List
      /\ scan \in 1..(Len(List) + 1) /\ DOMAIN List = 1..Len(List) /\ Len(List) \in Nat
  BY ListAssumption, Zenon DEF IInv, Types, MainInv
<1>a. ASSUME NEW x \in AllBlocks \cup {None}
      PROVE  [output EXCEPT ![writer.file] = Append(@, x)]
                \in [DOMAIN List -> Seq(AllBlocks \cup {None})]
  BY <1>0, AppendTyped, Zenon
<1>1. CASE MakeName \/ Opens
  <2>1. scan \in DOMAIN List
    BY <1>0, <1>1 DEF MakeName, Opens, Step
  <2>2. output' = output /\ present' \subseteq present \cup {scan}
    BY <1>1, Zenon DEF MakeName, Opens
  <2> QED
    BY <1>0, <2>1, <2>2, Zenon
<1>2. CASE OpenFails \/ QueueFile \/ CacheGet \/ QueueRead \/ QueueBlock \/ QueueDir \/ EndScan
  BY <1>0, <1>2, Zenon DEF OpenFails, QueueFile, CacheGet, QueueRead, QueueBlock, QueueDir, EndScan, fsVars
<1>3. CASE Synced \/ Quiet \/ WriterTake \/ WriterSleep \/ Skip \/ WakeMain \/ WakeWriter
  BY <1>0, <1>3, Zenon DEF Synced, Quiet, WriterTake, WriterSleep, Skip, WakeMain, WakeWriter, mainVars,
                    fsVars
<1>4. ASSUME NEW e \in Entries, Fill(e) PROVE output' = output /\ present' = present
  BY <1>4, Zenon DEF Fill, mainVars, fsVars
<1>5. CASE WriterBlock
  <2>1. Hole \in AllBlocks \cup {None} /\ present' = present
    BY <1>5, Zenon DEF AllBlocks, WriterBlock
  <2>2. \/ output' = output
        \/ output' = [output EXCEPT ![writer.file] = Append(@, Hole)]
    BY <1>0, <1>5, Zenon DEF WriterBlock
  <2> QED
    BY <1>0, <1>a, <2>1, <2>2, Zenon
<1>6. CASE Put
  <2>1. entry[writer.entry].data \in AllBlocks \cup {None} /\ present' = present
    BY <1>6, PutEffect, Zenon DEF IInv, Types, EntryType, Put
  <2>2. \/ output' = output
        \/ output' = [output EXCEPT ![writer.file] = Append(@, entry[writer.entry].data)]
    BY <1>0, <1>6, Zenon DEF Put
  <2> QED
    BY <1>0, <1>a, <2>1, <2>2, Zenon
<1>7. CASE WriterClose
  BY <1>0, <1>7, Zenon DEF WriterClose
<1> QED
  BY <1>0, <1>1, <1>2, <1>3, <1>4, <1>5, <1>6, <1>7, Cases, Zenon

(* Every step keeps the types, and room in the queues. *)
LEMMA TypesStep == ASSUME IInv, [Next]_vars PROVE Types' /\ Room'
<1>1. faults' \in Faults
  BY Cases, Zenon DEF IInv, Types
<1>2. FreeTyped' /\ PassTyped'
  BY FreeStep, PassStep, Zenon
<1> QED
  BY <1>1, <1>2, MainTyped, WriterTyped, EntryTyped, QueueTyped, FlagsTyped, FilesTyped, Zenon
     DEF Types, Room, FreeTyped, PassTyped

(* Where the main thread is. *)
LEMMA MainStep == ASSUME IInv, [Next]_vars PROVE MainInv'
<1>0. /\ MainInv /\ main \in MainType /\ Len(List) \in Nat /\ scan \in 1..(Len(List) + 1)
      /\ DOMAIN List = 1..Len(List) /\ main.block \in Nat
  BY ListAssumption, Zenon DEF IInv, Types, MainType, MainInv
<1>1. CASE MakeName \/ OpenFails \/ QueueDir
  <2>1. main' = main /\ main.at = "scan" /\ scan' = scan + 1 /\ scan <= Len(List)
    BY <1>1, Zenon DEF MakeName, OpenFails, QueueDir, Step
  <2> QED
    BY <1>0, <2>1 DEF MainInv, InLoop, LoopPlaces
<1>2. CASE Opens
  <2>1. main' = [main EXCEPT !.at = "queue"] /\ main.at = "scan" /\ scan' = scan /\ scan \in FileNos
    BY <1>0, <1>2 DEF Opens, Step, FileNos
  <2> QED
    BY <1>0, <2>1, Zenon DEF MainInv, MainType, InLoop, LoopPlaces
<1>3. CASE QueueFile
  <2>0. main.at = "queue" /\ main.block = 1 /\ scan \in FileNos
    BY <1>0, <1>3, Zenon DEF QueueFile, MainInv
  <2>b. F.blocks \in Seq(AllBlocks) /\ scan <= Len(List)
    BY <2>0, Shapes DEF IInv, F
  <2>1. CASE F.blocks = <<>>
    <3>1. main' = [main EXCEPT !.at = "scan"] /\ scan' = scan + 1
      BY <1>3, <2>1, Zenon DEF QueueFile
    <3> QED
      BY <1>0, <2>0, <2>b, <3>1 DEF MainInv, MainType, InLoop, LoopPlaces
  <2>2. CASE F.blocks # <<>>
    <3>1. main' = [main EXCEPT !.at = "block"] /\ scan' = scan
      BY <1>3, <2>2, Zenon DEF QueueFile
    <3>2. F' = F /\ 1 \in 1..Len(F.blocks)
      BY <2>b, <2>2, <3>1 DEF F
    <3>3. main'.at = "block" /\ main'.block = 1
      BY <1>0, <2>0, <3>1, Zenon DEF MainType
    <3> QED
      BY <1>0, <2>0, <3>1, <3>2, <3>3, Zenon DEF MainInv, InLoop, LoopPlaces
  <2> QED
    BY <2>1, <2>2, Zenon
<1>4. CASE CacheGet
  <2>0. InLoop /\ scan' = scan /\ scan \in FileNos /\ main.block \in 1..Len(F.blocks)
    BY <1>0, <1>4, CacheGetCases, Zenon DEF MainInv
  <2>1. CASE GetHole
    <3>1. main'.at = "put" /\ main'.entry = None /\ main'.block = main.block /\ B = Hole
      BY <1>0, <2>1, Zenon DEF GetHole, MainType
    <3>2. F' = F /\ B' = B
      BY <2>0, <3>1, Zenon DEF F, B
    <3> QED
      BY <1>0, <2>0, <3>1, <3>2, Zenon DEF MainInv, InLoop
  <2>2. ASSUME NEW e \in Entries, GetHit(e) PROVE MainInv'
    <3>1. main'.at = "put" /\ main'.entry = e /\ main'.block = main.block /\ B # Hole /\ e # None
      BY <1>0, <2>2, EntryAssumption, Zenon DEF GetHit, CacheHit, MainType
    <3>2. F' = F /\ B' = B
      BY <2>0, <3>1, Zenon DEF F, B
    <3> QED
      BY <1>0, <2>0, <3>1, <3>2, Zenon DEF MainInv, InLoop
  <2>3. ASSUME NEW e \in Entries, GetNew(e) PROVE MainInv'
    <3>1. main'.at = "read" /\ main'.entry = e /\ main'.block = main.block /\ e # None
      BY <1>0, <2>3, EntryAssumption, Zenon DEF GetNew, Reserve, MainType
    <3>2. F' = F /\ B' = B
      BY <2>0, <3>1, Zenon DEF F, B
    <3> QED
      BY <1>0, <2>0, <3>1, <3>2, Zenon DEF MainInv, InLoop
  <2>4. CASE GetSleep
    <3>1. /\ main'.at = "sleep" /\ main'.block = main.block /\ B # Hole /\ entry' = entry
          /\ \A x \in Entries : entry[x].block # B
      BY <1>0, <2>4, Zenon DEF GetSleep, MainType
    <3>2. F' = F /\ B' = B
      BY <2>0, <3>1, Zenon DEF F, B
    <3> QED
      BY <1>0, <2>0, <3>1, <3>2, Zenon DEF MainInv, InLoop
  <2> QED
    BY <1>4, <2>1, <2>2, <2>3, <2>4, CacheGetCases, Zenon
<1>5. CASE QueueRead
  <2>1. main.at = "read" /\ main' = [main EXCEPT !.at = "put"] /\ scan' = scan
    BY <1>5, Zenon DEF QueueRead
  <2>2. main'.at = "put" /\ main'.entry = main.entry /\ main'.block = main.block
    BY <1>0, <2>1, Zenon DEF MainType
  <2>3. F' = F /\ B' = B /\ InLoop
    BY <2>1, <2>2, Zenon DEF F, B, InLoop, LoopPlaces
  <2>4. main.entry \in Entries /\ main.entry # None /\ entry[main.entry].block = B
    BY <2>1, Shapes, EntryAssumption, Zenon DEF IInv, Refs
  <2>5. B # Hole
    BY <2>4, Zenon DEF IInv, Held
  <2> QED
    BY <1>0, <2>1, <2>2, <2>3, <2>4, <2>5, Zenon DEF MainInv, InLoop
<1>6. CASE QueueBlock
  <2>0. main.at = "put" /\ InLoop /\ scan \in FileNos /\ main.block \in 1..Len(F.blocks) /\ NextBlock
    BY <1>0, <1>6, Zenon DEF QueueBlock, MainInv, InLoop, LoopPlaces
  <2>b. F.blocks \in Seq(AllBlocks) /\ scan <= Len(List)
    BY <2>0, Shapes DEF IInv, F
  <2>1. CASE main.block < Len(F.blocks)
    <3>1. main'.at = "block" /\ main'.block = main.block + 1 /\ scan' = scan
      BY <2>0, <2>1 DEF NextBlock
    <3>2. F' = F /\ main'.block \in 1..Len(F.blocks)
      BY <1>0, <2>1, <2>b, <3>1 DEF F
    <3> QED
      BY <1>0, <2>0, <3>1, <3>2, Zenon DEF MainInv, InLoop
  <2>2. CASE ~(main.block < Len(F.blocks))
    <3>1. main'.at = "scan" /\ main'.block = 1 /\ scan' = scan + 1
      BY <2>0, <2>2 DEF NextBlock
    <3> QED
      BY <1>0, <2>b, <3>1 DEF MainInv, InLoop, LoopPlaces
  <2> QED
    BY <2>1, <2>2, Zenon
<1>7. CASE EndScan \/ Synced
  <2>1. /\ main'.at \in {"end", "done"} /\ scan' = scan
        /\ scan > Len(List) \/ main.at = "end"
    BY <1>0, <1>7, Zenon DEF EndScan, Synced, MainType
  <2>2. scan = Len(List) + 1
    BY <1>0, <2>1 DEF MainInv
  <2> QED
    BY <1>0, <2>1, <2>2, Zenon DEF MainInv, InLoop, LoopPlaces
<1>8. ASSUME scan' = scan, \A e \in Entries : entry'[e].block = entry[e].block,
             main' = main \/ (main.at = "sleep" /\ main' = [main EXCEPT !.at = "woken"])
      PROVE  MainInv'
  <2>1. CASE main' = main
    <3>1. F' = F /\ B' = B /\ InLoop' = InLoop
      BY <1>8, <2>1, Zenon DEF F, B, InLoop
    <3> QED
      BY <1>0, <1>8, <2>1, <3>1, Zenon DEF MainInv
  <2>2. CASE main.at = "sleep" /\ main' = [main EXCEPT !.at = "woken"]
    <3>1. main'.at = "woken" /\ main'.block = main.block
      BY <1>0, <2>2, Zenon DEF MainType
    <3>2. F' = F /\ B' = B /\ InLoop
      BY <1>8, <2>2, <3>1, Zenon DEF F, B, InLoop, LoopPlaces
    <3> QED
      BY <1>0, <1>8, <2>2, <3>1, <3>2, Zenon DEF MainInv, InLoop
  <2> QED
    BY <1>8, <2>1, <2>2, Zenon
<1>9. CASE Quiet \/ WriterTake \/ WriterBlock \/ WriterSleep \/ Skip \/ WriterClose \/ WakeWriter
  BY <1>8, <1>9, Zenon DEF Quiet, WriterTake, WriterBlock, WriterSleep, Skip, WriterClose, WakeWriter,
                    mainVars, cacheVars
<1>10. CASE WakeMain
  BY <1>8, <1>10, Zenon DEF WakeMain, cacheVars
<1>11. ASSUME NEW e \in Entries, Fill(e) PROVE MainInv'
  <2>1. scan' = scan /\ main' = main /\ \A x \in Entries : entry'[x].block = entry[x].block
    BY <1>11, FillEffect, Zenon DEF Fill, mainVars
  <2> QED
    BY <1>8, <2>1, Zenon
<1>12. CASE Put
  <2>1. scan' = scan /\ \A x \in Entries : entry'[x].block = entry[x].block
    BY <1>12, PutEffect, Zenon DEF Put
  <2>2. main' = main \/ (main.at = "sleep" /\ main' = [main EXCEPT !.at = "woken"])
    BY <1>12, Zenon DEF Put, CacheBlockPut
  <2> QED
    BY <1>8, <2>1, <2>2, Zenon
<1> QED
  BY <1>1, <1>2, <1>3, <1>4, <1>5, <1>6, <1>7, <1>9, <1>10, <1>11, <1>12, Cases, Zenon

(* The block the writer takes is the one that is due. *)
LEMMA DueBlock ==
    ASSUME IInv, WriterBlock
    PROVE  /\ Len(to_writer) > 0 /\ to_writer \in Seq(Items)
           /\ Head(to_writer) = to_writer[1] /\ to_writer[1] \in Items
           /\ to_writer[1].item = "block" /\ to_writer[1].of = writer.file
           /\ to_writer[1].nth = writer.block /\ to_writer[1].entry \in MaybeEntry
           /\ writer.at = "blocks" /\ writer.file \in FileNos /\ writer.block \in 1..Len(WFile)
           /\ WFile \in Seq(AllBlocks)
<1>1. /\ Len(to_writer) > 0 /\ to_writer \in Seq(Items) /\ Head(to_writer) = to_writer[1]
      /\ to_writer[1] \in Items
  BY DEF IInv, Types, WriterBlock
<1>2. Fits(Cursor(0), to_writer[1]) /\ writer.at = "blocks" /\ writer.file \in FileNos
      /\ writer.block <= Len(WFile) /\ writer.block \in 1..(Len(WFile) + 1)
  BY <1>1, SMTT(30) DEF WriterBlock, IInv, Stream, WriterInv
<1>3. Cursor(0) = <<writer.file, writer.block>>
  BY <1>2, Zenon DEF Cursor, WriterCursor
<1>4. Len(WFile) \in Nat /\ writer.file # 0 /\ WFile \in Seq(AllBlocks)
  BY <1>2, Shapes DEF IInv, WFile
<1>5. ~Complete(Cursor(0))
  BY <1>2, <1>3, <1>4 DEF Complete, WFile
<1>6. to_writer[1].item = "block" /\ Cursor(0) = <<to_writer[1].of, to_writer[1].nth>>
  BY <1>2, <1>5, Zenon DEF Fits
<1> QED
  BY <1>1, <1>2, <1>3, <1>4, <1>6, ItemShapes

(* Where the writer is. *)
LEMMA WriterStep == ASSUME IInv, [Next]_vars PROVE WriterInv'
<1>0. /\ WriterInv /\ writer \in WriterType /\ faults' = faults
      /\ writer.failed \in BOOLEAN /\ writer.block \in Nat
  BY Cases, Zenon DEF IInv, Types, WriterType
<1>1. CASE writer' = writer
  BY <1>0, <1>1, Zenon DEF WriterInv, WFile
<1>2. CASE MakeName \/ OpenFails \/ Opens \/ QueueFile \/ CacheGet \/ QueueRead
  BY <1>1, <1>2, Zenon DEF MakeName, OpenFails, Opens, QueueFile, CacheGet, QueueRead
<1>3. CASE QueueBlock \/ QueueDir \/ EndScan \/ Synced \/ Quiet \/ WakeMain
  BY <1>1, <1>3, Zenon DEF QueueBlock, QueueDir, EndScan, Synced, Quiet, WakeMain
<1>4. ASSUME writer.at \in {"check", "sleep"},
             \/ writer' = [writer EXCEPT !.at = "check"] \/ writer' = [writer EXCEPT !.at = "sleep"]
      PROVE  WriterInv'
  <2>1. /\ writer'.at \in {"check", "sleep"} /\ writer'.file = writer.file
        /\ writer'.block = writer.block /\ writer'.entry = writer.entry
        /\ writer'.failed = writer.failed
    BY <1>0, <1>4, Zenon DEF WriterType
  <2>2. WFile' = WFile
    BY <2>1, Zenon DEF WFile
  <2> QED
    BY <1>0, <1>4, <2>1, <2>2, Zenon DEF WriterInv
<1>5. ASSUME NEW e \in Entries, Fill(e) PROVE WriterInv'
  BY <1>1, <1>4, <1>5, Zenon DEF Fill, CacheBlockReady
<1>6. CASE WriterSleep \/ WakeWriter
  BY <1>4, <1>6, Zenon DEF WriterSleep, WakeWriter
<1>7. CASE WriterTake
  <2>1. CASE writer' = [writer EXCEPT !.at = "blocks", !.file = Head(to_writer).of]
             /\ Head(to_writer).item = "file"
    <3>1. Head(to_writer).of \in FileNos
      BY <1>7, <2>1, ItemShapes DEF WriterTake, IInv, Types
    <3>2. /\ writer'.at = "blocks" /\ writer'.file \in FileNos /\ writer'.block = 1
          /\ ~writer'.failed
      BY <1>0, <1>7, <2>1, <3>1, Zenon DEF WriterTake, WriterType, WriterInv
    <3>3. 1 \in 1..(Len(WFile') + 1)
      BY <3>2, Shapes DEF WFile, IInv
    <3> QED
      BY <3>2, <3>3, Zenon DEF WriterInv
  <2> QED
    BY <1>1, <1>7, <2>1, Zenon DEF WriterTake
<1>8. ASSUME NEW failed \in BOOLEAN, WriterNext(failed), writer.at # "idle", writer.block <= Len(WFile),
             failed => faults.bad # {} \/ faults.write
      PROVE  WriterInv'
  <2>1. /\ writer'.at = "blocks" /\ writer'.file = writer.file
        /\ writer'.block = writer.block + 1 /\ writer'.failed = failed
    BY <1>0, <1>8, NextTyped, Zenon
  <2>2. WFile' = WFile /\ writer.file \in FileNos /\ Len(WFile) \in Nat /\ writer.block \in Nat
    BY <1>0, <1>8, <2>1, Shapes, Zenon DEF WFile, WriterInv, IInv
  <2>3. writer'.block \in 1..(Len(WFile') + 1)
    BY <1>8, <2>1, <2>2
  <2> QED
    BY <1>0, <1>8, <2>1, <2>2, <2>3, Zenon DEF WriterInv
<1>9. CASE WriterBlock
  <2>1. /\ writer.at = "blocks" /\ writer.file \in FileNos /\ writer.block \in 1..Len(WFile)
        /\ WFile \in Seq(AllBlocks)
    BY <1>9, DueBlock, Zenon
  <2>2. CASE Head(to_writer).entry = None
    <3>1. WriterNext(writer.failed)
      BY <1>9, <2>2, Zenon DEF WriterBlock
    <3>2. writer.failed => faults.bad # {} \/ faults.write
      BY <1>0, Zenon DEF WriterInv
    <3> QED
      BY <1>0, <1>8, <2>1, <3>1, <3>2
  <2>3. CASE Head(to_writer).entry # None
    <3>1. writer' = [writer EXCEPT !.at = "check", !.entry = Head(to_writer).entry]
      BY <1>9, <2>3, Zenon DEF WriterBlock
    <3>2. /\ writer'.at = "check" /\ writer'.file = writer.file
          /\ writer'.block = writer.block /\ writer'.entry = Head(to_writer).entry
          /\ writer'.failed = writer.failed
      BY <1>0, <3>1, Zenon DEF WriterType
    <3>3. WFile' = WFile /\ writer.block <= Len(WFile) /\ writer.block \in 1..(Len(WFile) + 1)
      BY <2>1, <3>2 DEF WFile
    <3> QED
      BY <1>0, <2>1, <2>3, <3>2, <3>3, Zenon DEF WriterInv
  <2> QED
    BY <2>2, <2>3, Zenon
<1>10. CASE Skip
  <2>1. writer.at = "check" /\ WriterNext(TRUE) /\ (entry[writer.entry].error \/ writer.failed)
    BY <1>10, Zenon DEF Skip
  <2>2. writer.entry \in Entries /\ writer.block <= Len(WFile)
    BY <1>0, <2>1, Shapes, Zenon DEF WriterInv, IInv
  <2>3. faults.bad # {} \/ faults.write
    BY <1>0, <2>1, <2>2, Zenon DEF WriterInv, IInv, Held
  <2> QED
    BY <1>8, <2>1, <2>2, <2>3, Zenon
<1>11. CASE Put
  <2>1. writer.at = "check" /\ (WriterNext(FALSE) \/ (faults.write /\ WriterNext(TRUE)))
    BY <1>11, Zenon DEF Put
  <2>2. writer.block <= Len(WFile)
    BY <1>0, <2>1, Zenon DEF WriterInv
  <2> QED
    BY <1>8, <2>1, <2>2, Zenon
<1>12. CASE WriterClose
  BY <1>12, Zenon DEF WriterClose, WriterInv
<1> QED
  BY <1>2, <1>3, <1>5, <1>6, <1>7, <1>9, <1>10, <1>11, <1>12, Cases, Zenon

(* No wakeup is lost. *)
LEMMA WakeupStep == ASSUME IInv, [Next]_vars PROVE NoLostWakeup'
<1> DEFINE MainPart == main.at = "sleep" => wait_free[CacheOf(B)] /\ free_list[CacheOf(B)] = <<>>
           WriterPart == writer.at = "sleep" =>
                            wait_pending[writer.entry[1]] /\ entry[writer.entry].pending
<1>0. /\ MainPart /\ WriterPart /\ main \in MainType /\ writer \in WriterType
      /\ free_list \in [Caches -> Seq(Entries)]
      /\ wait_free \in [Caches -> BOOLEAN] /\ wait_pending \in [Caches -> BOOLEAN]
      /\ entry \in [Entries -> EntryType]
  BY Zenon DEF IInv, Types, NoLostWakeup
<1>c. CacheOf(B) \in Caches /\ \A e \in Entries : e[1] \in Caches
  BY Constants, Zenon
<1>1. MainPart'
  <2>1. ASSUME UNCHANGED <<scan, main, free_list, wait_free>> PROVE MainPart'
    <3>1. B' = B
      BY <2>1, Zenon DEF B, F
    <3> QED
      BY <1>0, <2>1, <3>1, Zenon
  <2>2. ASSUME main'.at # "sleep" PROVE MainPart'
    BY <2>2, Zenon
  <2>3. CASE MakeName \/ OpenFails \/ QueueDir
    BY <2>2, <2>3, Zenon DEF MakeName, OpenFails, QueueDir
  <2>4. CASE Opens \/ QueueFile \/ QueueRead \/ QueueBlock \/ EndScan \/ Synced \/ WakeMain
    BY <1>0, <2>2, <2>4 DEF Opens, QueueFile, QueueRead, QueueBlock, NextBlock, EndScan, Synced,
                            WakeMain, MainType
  <2>5. CASE CacheGet
    <3>1. CASE GetHole
      BY <1>0, <2>2, <3>1, Zenon DEF GetHole, MainType
    <3>2. ASSUME NEW e \in Entries, GetHit(e) \/ GetNew(e) PROVE MainPart'
      BY <1>0, <2>2, <3>2, Zenon DEF GetHit, GetNew, CacheHit, Reserve, MainType
    <3>3. CASE GetSleep
      <4>1. /\ main'.block = main.block /\ scan' = scan
            /\ wait_free' = [wait_free EXCEPT ![CacheOf(B)] = TRUE] /\ free_list' = free_list
            /\ free_list[CacheOf(B)] = <<>>
        BY <1>0, <2>5, <3>3, CacheGetCases, Zenon DEF GetSleep, MainType
      <4>2. B' = B
        BY <4>1, Zenon DEF B, F
      <4>3. wait_free'[CacheOf(B)]
        BY <1>0, <1>c, <4>1, Zenon
      <4> QED
        BY <4>1, <4>2, <4>3, Zenon
    <3> QED
      BY <2>5, <3>1, <3>2, <3>3, CacheGetCases, Zenon
  <2>6. CASE Quiet \/ WriterTake \/ WriterBlock \/ WriterSleep \/ Skip \/ WriterClose \/ WakeWriter
    BY <2>1, <2>6, Zenon DEF Quiet, WriterTake, WriterBlock, WriterSleep, Skip, WriterClose, WakeWriter,
                      mainVars, cacheVars
  <2>7. ASSUME NEW e \in Entries, Fill(e) PROVE MainPart'
    BY <2>1, <2>7, Zenon DEF Fill, mainVars
  <2>8. CASE Put
    <3> DEFINE e == writer.entry
    <3>0. e \in Entries /\ e[1] \in Caches /\ scan' = scan
      BY <1>c, <2>8, PutEffect, Zenon DEF Put
    <3>1. CASE main.at # "sleep"
      BY <2>2, <2>8, <3>1, Zenon DEF Put, CacheBlockPut
    <3>2. CASE main.at = "sleep" /\ entry[e].used # 1
      BY <2>1, <2>8, <3>2, Zenon DEF Put, CacheBlockPut
    <3>3. CASE main.at = "sleep" /\ entry[e].used = 1 /\ wait_free[e[1]]
      <4>1. main' = [main EXCEPT !.at = "woken"]
        BY <2>8, <3>3, Zenon DEF Put, CacheBlockPut
      <4> QED
        BY <1>0, <2>2, <4>1, Zenon DEF MainType
    <3>4. CASE main.at = "sleep" /\ entry[e].used = 1 /\ ~wait_free[e[1]]
      <4>1. /\ main' = main /\ free_list' = [free_list EXCEPT ![e[1]] = Append(@, e)]
            /\ wait_free' = [wait_free EXCEPT ![e[1]] = FALSE]
        BY <2>8, <3>4, Zenon DEF Put, CacheBlockPut
      <4>2. CacheOf(B) # e[1] /\ B' = B
        BY <1>0, <3>0, <3>4, <4>1, Zenon DEF B, F
      <4> HIDE DEF e
      <4>3. wait_free'[CacheOf(B)] = wait_free[CacheOf(B)]
            /\ free_list'[CacheOf(B)] = free_list[CacheOf(B)]
        BY <1>0, <1>c, <3>0, <4>1, <4>2, Zenon
      <4> QED
        BY <1>0, <4>1, <4>2, <4>3, Zenon
    <3> QED
      BY <3>1, <3>2, <3>3, <3>4, Zenon
  <2> QED
    BY <2>3, <2>4, <2>5, <2>6, <2>7, <2>8, Cases, Zenon
<1>2. WriterPart'
  <2>1. ASSUME writer'.at # "sleep" PROVE WriterPart'
    BY <2>1, Zenon
  <2>2. ASSUME UNCHANGED <<writer, wait_pending>>, UNCHANGED entry PROVE WriterPart'
    BY <1>0, <2>2, Zenon
  <2>3. CASE MakeName \/ OpenFails \/ Opens \/ QueueFile \/ QueueRead
    BY <2>2, <2>3, Zenon DEF MakeName, OpenFails, Opens, QueueFile, QueueRead, cacheVars
  <2>4. CASE QueueBlock \/ QueueDir \/ EndScan \/ Synced \/ Quiet \/ WakeMain
    BY <2>2, <2>4, Zenon DEF QueueBlock, QueueDir, EndScan, Synced, Quiet, WakeMain, cacheVars
  <2>5. CASE CacheGet
    <3>0. UNCHANGED <<writer, wait_pending>>
      BY <2>5, Zenon DEF CacheGet
    <3>1. CASE GetHole \/ GetSleep
      BY <2>2, <3>0, <3>1, Zenon DEF GetHole, GetSleep, cacheVars
    <3>w. writer.at = "sleep" => writer.entry \in Entries
      BY Shapes, Zenon DEF IInv
    <3>2. ASSUME NEW e \in Entries, GetHit(e) PROVE WriterPart'
      <4>1. \A x \in Entries : entry'[x].pending = entry[x].pending
        BY <3>2, HitEffect, Zenon DEF GetHit
      <4> QED
        BY <1>0, <3>0, <3>w, <4>1, Zenon
    <3>3. ASSUME NEW e \in Entries, GetNew(e) PROVE WriterPart'
      <4>1. \A x \in Entries : entry[x].pending => entry'[x].pending
        BY <2>5, <3>3, ReserveEffect, CacheGetCases DEF GetNew
      <4> QED
        BY <1>0, <3>0, <3>w, <4>1, Zenon
    <3> QED
      BY <2>5, <3>1, <3>2, <3>3, CacheGetCases, Zenon
  <2>6. ASSUME NEW e \in Entries, Fill(e) PROVE WriterPart'
    <3>0. /\ wait_pending' = [wait_pending EXCEPT ![e[1]] = FALSE]
          /\ writer' = IF wait_pending[e[1]] /\ writer.at = "sleep"
                       THEN [writer EXCEPT !.at = "check"] ELSE writer
          /\ \A x \in Entries : x # e => entry'[x] = entry[x]
      BY <2>6, FillEffect, Zenon DEF Fill, CacheBlockReady
    <3>1. CASE writer.at = "sleep" /\ ~wait_pending[e[1]]
      <4>1. writer' = writer /\ writer.entry \in Entries /\ writer.entry[1] # e[1]
        BY <1>0, <3>0, <3>1, Shapes, Zenon DEF IInv
      <4>2. /\ wait_pending'[writer.entry[1]] = wait_pending[writer.entry[1]]
            /\ entry'[writer.entry] = entry[writer.entry]
        BY <1>0, <1>c, <3>0, <4>1, Zenon
      <4> QED
        BY <1>0, <4>1, <4>2, Zenon
    <3>2. CASE writer.at # "sleep" \/ wait_pending[e[1]]
      <4>1. writer'.at # "sleep"
        BY <1>0, <3>0, <3>2, Zenon DEF WriterType
      <4> QED
        BY <2>1, <4>1, Zenon
    <3> QED
      BY <3>1, <3>2, Zenon
  <2>7. CASE WriterTake \/ WriterBlock
    BY <1>0, <2>1, <2>7, Zenon DEF WriterTake, WriterBlock, WriterNext, WriterType
  <2>8. CASE WriterClose \/ WakeWriter
    BY <1>0, <2>1, <2>8 DEF WriterClose, WakeWriter, WriterType
  <2>10. CASE Skip \/ Put
    BY <1>0, <2>1, <2>10, NextTyped, Zenon DEF Skip, Put
  <2>9. CASE WriterSleep
    <3>1. writer.entry \in Entries /\ writer.entry[1] \in Caches /\ entry' = entry
      BY <1>c, <2>9, Shapes, Zenon DEF IInv, WriterSleep, cacheVars
    <3>2. entry[writer.entry].pending /\ writer'.entry = writer.entry
          /\ wait_pending' = [wait_pending EXCEPT ![writer.entry[1]] = TRUE]
      BY <1>0, <2>9, Zenon DEF WriterSleep, Ready, WriterType
    <3>3. wait_pending'[writer.entry[1]]
      BY <1>0, <3>1, <3>2, Zenon
    <3> QED
      BY <3>1, <3>2, <3>3, Zenon
  <2> QED
    BY <2>3, <2>4, <2>5, <2>6, <2>7, <2>8, <2>9, <2>10, Cases, Zenon
<1> QED
  BY <1>1, <1>2, Zenon DEF NoLostWakeup

(* The items fit one behind the other; the writer's queue grows, ... *)
QStream == \A i \in 1..Len(to_writer) : Fits(Cursor(i - 1), to_writer[i])

(* Appending the item that comes next keeps the queue in stream order. *)
LEMMA StreamAppend ==
    ASSUME to_writer \in Seq(Items), QStream, NEW x \in Items, to_writer' = Append(to_writer, x),
           WriterCursor' = WriterCursor, Fits(Cursor(Len(to_writer)), x)
    PROVE  QStream' /\ Cursor(Len(to_writer))' = Behind(x)
<1>0. /\ Len(to_writer) \in Nat /\ Len(to_writer') = Len(to_writer) + 1
      /\ \A i \in 1..Len(to_writer) : to_writer'[i] = to_writer[i]
      /\ to_writer'[Len(to_writer) + 1] = x
  OBVIOUS
<1>1. ASSUME NEW i \in 0..Len(to_writer) PROVE Cursor(i)' = Cursor(i)
  BY <1>0 DEF Cursor
<1>2. ASSUME NEW i \in 1..Len(to_writer') PROVE Fits(Cursor(i - 1), to_writer[i])'
  <2>1. Cursor(i - 1)' = Cursor(i - 1)
    BY <1>0, <1>1
  <2>2. Fits(Cursor(i - 1), to_writer'[i])
    <3>1. CASE i \in 1..Len(to_writer)
      BY <1>0, <3>1, Zenon DEF QStream
    <3>2. CASE i = Len(to_writer) + 1
      BY <1>0, <3>2
    <3> QED
      BY <1>0, <3>1, <3>2
  <2> QED
    BY <2>1, <2>2, Zenon
<1>3. Cursor(Len(to_writer))' = Behind(x)
  BY <1>0 DEF Cursor
<1> QED
  BY <1>2, <1>3, Zenon DEF QStream

(* ... shrinks, ... *)
LEMMA StreamTail ==
    ASSUME to_writer \in Seq(Items), QStream, to_writer # <<>>, to_writer' = Tail(to_writer),
           WriterCursor' = Behind(to_writer[1])
    PROVE  QStream' /\ Cursor(Len(to_writer))' = Cursor(Len(to_writer))
<1>0. /\ Len(to_writer) \in Nat /\ Len(to_writer) > 0 /\ Len(to_writer') = Len(to_writer) - 1
      /\ \A i \in 1..Len(to_writer') : to_writer'[i] = to_writer[i + 1]
  OBVIOUS
<1>1. ASSUME NEW i \in 0..Len(to_writer') PROVE Cursor(i)' = Cursor(i + 1)
  BY <1>0 DEF Cursor
<1>2. ASSUME NEW i \in 1..Len(to_writer') PROVE Fits(Cursor(i - 1), to_writer[i])'
  <2>1. Cursor(i - 1)' = Cursor(i)
    BY <1>0, <1>1
  <2>2. Fits(Cursor(i), to_writer[i + 1])
    <3>1. i + 1 \in 1..Len(to_writer) /\ (i + 1) - 1 = i
      BY <1>0
    <3> QED
      BY <3>1, Zenon DEF QStream
  <2> QED
    BY <1>0, <2>1, <2>2, Zenon
<1>3. Cursor(Len(to_writer))' = Cursor(Len(to_writer))
  BY <1>0, <1>1
<1> QED
  BY <1>2, <1>3, Zenon DEF QStream

(* ... or stays. *)
LEMMA StreamSame ==
    ASSUME to_writer' = to_writer, WriterCursor' = WriterCursor
    PROVE  QStream' = QStream /\ Cursor(Len(to_writer))' = Cursor(Len(to_writer))
BY Zenon DEF QStream, Cursor, Fits

(* Steps of the writer that leave its queue alone leave its cursor alone. *)
LEMMA CursorSame ==
    ASSUME IInv, [Next]_vars, to_writer' = to_writer, ~WriterClose
    PROVE  WriterCursor' = WriterCursor
<1>0. writer \in WriterType
  BY Zenon DEF IInv, Types
<1>1. CASE writer' = writer
  BY <1>1, Zenon DEF WriterCursor
<1>2. CASE MakeName \/ OpenFails \/ Opens \/ QueueFile \/ CacheGet \/ QueueRead
  BY <1>1, <1>2, Zenon DEF MakeName, OpenFails, Opens, QueueFile, CacheGet, QueueRead
<1>3. CASE QueueBlock \/ QueueDir \/ EndScan \/ Synced \/ Quiet \/ WakeMain
  BY <1>1, <1>3, Zenon DEF QueueBlock, QueueDir, EndScan, Synced, Quiet, WakeMain
<1>4. ASSUME writer.at \in {"check", "sleep"},
             \/ writer' = [writer EXCEPT !.at = "check"] \/ writer' = [writer EXCEPT !.at = "sleep"]
      PROVE  WriterCursor' = WriterCursor
  <2>1. /\ writer'.at \in {"check", "sleep"} /\ writer'.file = writer.file
        /\ writer'.block = writer.block
    BY <1>0, <1>4, Zenon DEF WriterType
  <2> QED
    BY <1>4, <2>1, Zenon DEF WriterCursor
<1>5. ASSUME NEW e \in Entries, Fill(e) PROVE WriterCursor' = WriterCursor
  BY <1>1, <1>4, <1>5, Zenon DEF Fill, CacheBlockReady
<1>6. CASE WriterSleep \/ WakeWriter
  BY <1>4, <1>6, Zenon DEF WriterSleep, WakeWriter
<1>7. CASE Skip \/ Put
  <2>1. /\ writer.at = "check" /\ writer'.at = "blocks" /\ writer'.file = writer.file
        /\ writer'.block = writer.block + 1
    BY <1>0, <1>7, NextTyped, Zenon DEF Skip, Put
  <2> QED
    BY <2>1, Zenon DEF WriterCursor
<1>8. CASE WriterTake \/ WriterBlock
  <2>1. to_writer # <<>> /\ to_writer' = Tail(to_writer) /\ to_writer \in Seq(Items)
    BY <1>8, Zenon DEF WriterTake, WriterBlock, IInv, Types
  <2>2. Len(Tail(to_writer)) # Len(to_writer)
    BY <2>1
  <2> QED
    BY <2>1, <2>2, Zenon
<1> QED
  BY <1>2, <1>3, <1>5, <1>6, <1>7, <1>8, Cases, Zenon

(* Every step keeps the items to the writer in stream order. *)
LEMMA StreamStep == ASSUME IInv, [Next]_vars PROVE Stream'
<1> DEFINE c == Cursor(Len(to_writer))
<1>0. /\ QStream /\ MainFits(c) /\ to_writer \in Seq(Items) /\ main \in MainType
      /\ writer \in WriterType /\ Len(to_writer) \in Nat
  BY DEF IInv, Types, Stream, QStream
<1>g. ASSUME QStream', MainFits(Cursor(Len(to_writer)))' PROVE Stream'
  BY <1>g, Zenon DEF Stream, QStream
<1>1. ASSUME to_writer' = to_writer, ~WriterClose,
             \/ InLoop /\ InLoop' /\ scan' = scan /\ main'.block = main.block
             \/ ~InLoop /\ ~InLoop'
      PROVE  Stream'
  <2>1. QStream' /\ Cursor(Len(to_writer))' = c
    BY <1>0, <1>1, CursorSame, StreamSame, Zenon
  <2>2. MainFits(Cursor(Len(to_writer)))'
    BY <1>0, <1>1, <2>1, Zenon DEF MainFits, Complete
  <2> QED
    BY <1>g, <2>1, <2>2, Zenon
<1>2. CASE WriterClose
  <2>1. /\ writer.at = "blocks" /\ writer.block > Len(WFile) /\ to_writer' = to_writer
        /\ scan' = scan /\ main' = main /\ writer'.at = "idle"
    BY <1>2, Zenon DEF WriterClose, queueVars
  <2>2. /\ WriterCursor = <<writer.file, writer.block>> /\ WriterCursor' = <<0, 1>>
        /\ Cursor(0) = WriterCursor
    BY <2>1, Zenon DEF WriterCursor, Cursor
  <2>3. \A i \in 1..Len(to_writer) : Cursor(i)' = Cursor(i)
    BY <1>0, <2>1 DEF Cursor
  <2>w. writer.file \in FileNos /\ Len(WFile) \in Nat /\ writer.block \in Nat
    BY <1>0, <2>1, Shapes, Zenon DEF IInv, WriterInv, WriterType, WFile
  <2>4. CASE Len(to_writer) = 0
    <3>1. QStream'
      BY <2>1, <2>4 DEF QStream
    <3>2. ~InLoop
      <4>1. SUFFICES ASSUME InLoop PROVE FALSE
        BY Zenon
      <4>2. <<writer.file, writer.block>> = <<scan, main.block>>
        BY <1>0, <2>2, <2>4, <4>1, Zenon DEF MainFits
      <4>3. writer.file = scan /\ writer.block = main.block /\ main.block \in 1..Len(F.blocks)
        BY <4>1, <4>2, Zenon DEF IInv, MainInv
      <4> QED
        BY <2>1, <2>w, <4>3 DEF F, WFile
    <3>3. ~InLoop' /\ Cursor(Len(to_writer))' = <<0, 1>>
      BY <2>1, <2>2, <2>4, <3>2, Zenon DEF InLoop, Cursor
    <3> QED
      BY <1>g, <3>1, <3>3 DEF MainFits, Complete
  <2>5. CASE Len(to_writer) > 0
    <3>1. Fits(Cursor(0), to_writer[1])
      BY <1>0, <2>5 DEF QStream
    <3>2. to_writer[1].item # "block"
      <4>1. SUFFICES ASSUME to_writer[1].item = "block" PROVE FALSE
        BY Zenon
      <4>2. <<writer.file, writer.block>> = <<to_writer[1].of, to_writer[1].nth>>
            /\ to_writer[1].nth \in 1..Len(List[to_writer[1].of].blocks)
        BY <2>2, <3>1, <4>1, Zenon DEF Fits
      <4>3. writer.file = to_writer[1].of /\ writer.block = to_writer[1].nth
        BY <4>2, Zenon
      <4> QED
        BY <2>1, <2>w, <4>2, <4>3 DEF WFile
    <3>3. ASSUME NEW i \in 1..Len(to_writer) PROVE Fits(Cursor(i - 1), to_writer[i])'
      <4>1. CASE i = 1
        <5>1. Cursor(i - 1)' = <<0, 1>>
          BY <2>2, <4>1 DEF Cursor
        <5> QED
          BY <2>1, <3>2, <4>1, <5>1 DEF Fits, Complete
      <4>2. CASE i # 1
        <5>1. Cursor(i - 1)' = Cursor(i - 1)
          BY <1>0, <2>3, <4>2
        <5>2. Fits(Cursor(i - 1), to_writer[i])
          BY <1>0, Zenon DEF QStream
        <5> QED
          BY <2>1, <5>1, <5>2, Zenon
      <4> QED
        BY <4>1, <4>2, Zenon
    <3>4. QStream'
      BY <2>1, <3>3, Zenon DEF QStream
    <3>5. Cursor(Len(to_writer))' = c
      BY <1>0, <2>1, <2>3, <2>5
    <3>6. MainFits(Cursor(Len(to_writer)))'
      BY <1>0, <2>1, <3>5, Zenon DEF MainFits, InLoop, Complete
    <3> QED
      BY <1>g, <3>4, <3>6, Zenon
  <2> QED
    BY <1>0, <2>4, <2>5
<1>3. CASE MakeName \/ OpenFails \/ Opens \/ Synced
  <2>1. to_writer' = to_writer /\ ~InLoop /\ ~InLoop'
    BY <1>0, <1>3, Zenon DEF MakeName, OpenFails, Opens, Synced, queueVars, InLoop, LoopPlaces, MainType
  <2> QED
    BY <1>1, <1>2, <2>1, Zenon
<1>4. CASE CacheGet \/ QueueRead \/ WakeMain
  <2>1. to_writer' = to_writer /\ scan' = scan
    BY <1>4, Zenon DEF CacheGet, QueueRead, WakeMain, queueVars
  <2>2. InLoop /\ InLoop' /\ main'.block = main.block
    <3>1. CASE QueueRead \/ WakeMain
      BY <1>0, <3>1, Zenon DEF QueueRead, WakeMain, InLoop, LoopPlaces, MainType
    <3>2. CASE CacheGet
      <4>1. CASE GetHole \/ GetSleep
        BY <1>0, <4>1, <3>2, CacheGetCases, Zenon DEF GetHole, GetSleep, InLoop, LoopPlaces, MainType
      <4>2. ASSUME NEW e \in Entries, GetHit(e) \/ GetNew(e)
            PROVE  InLoop' /\ main'.block = main.block
        BY <1>0, <4>2, Zenon DEF GetHit, GetNew, CacheHit, Reserve, InLoop, LoopPlaces, MainType
      <4> QED
        BY <3>2, <4>1, <4>2, CacheGetCases, Zenon
    <3> QED
      BY <1>4, <3>1, <3>2, Zenon
  <2> QED
    BY <1>1, <1>2, <2>1, <2>2, Zenon
<1>5. ASSUME UNCHANGED <<scan, to_writer>>, main' = main PROVE Stream'
  BY <1>1, <1>2, <1>5, Zenon DEF InLoop
<1>6. CASE Quiet \/ WriterSleep \/ Skip \/ WakeWriter
  BY <1>5, <1>6, Zenon DEF Quiet, WriterSleep, Skip, WakeWriter, mainVars, queueVars
<1>7. ASSUME NEW e \in Entries, Fill(e) PROVE Stream'
  BY <1>5, <1>7, Zenon DEF Fill, mainVars
<1>8. CASE Put
  <2>1. to_writer' = to_writer /\ scan' = scan
    BY <1>8, Zenon DEF Put
  <2>2. CASE main' = main
    BY <1>5, <2>1, <2>2, Zenon
  <2>3. CASE main.at = "sleep" /\ main' = [main EXCEPT !.at = "woken"]
    <3>1. InLoop /\ InLoop' /\ main'.block = main.block
      BY <1>0, <2>3, Zenon DEF InLoop, LoopPlaces, MainType
    <3> QED
      BY <1>1, <1>2, <2>1, <3>1, Zenon
  <2> QED
    BY <1>8, <2>2, <2>3, Zenon DEF Put, CacheBlockPut
<1>9. ASSUME NEW x \in Items, to_writer' = Append(to_writer, x), Fits(c, x), writer' = writer,
             MainFits(Behind(x))'
      PROVE  Stream'
  <2>1. WriterCursor' = WriterCursor
    BY <1>9, Zenon DEF WriterCursor
  <2>2. QStream' /\ Cursor(Len(to_writer))' = Behind(x)
    BY <1>0, <1>9, <2>1, StreamAppend, Zenon
  <2>3. MainFits(Cursor(Len(to_writer)))'
    BY <1>9, <2>2, Zenon DEF MainFits, Complete
  <2> QED
    BY <1>g, <2>2, <2>3, Zenon
<1>10. CASE QueueFile
  <2>0. main.at = "queue" /\ main.block = 1 /\ scan \in FileNos /\ ~InLoop
    BY <1>10, Zenon DEF QueueFile, IInv, MainInv, InLoop, LoopPlaces
  <2>x. PICK x \in Items : x = [item |-> "file", of |-> scan]
    BY <2>0, Zenon DEF Items, FileItems
  <2>1. /\ to_writer' = Append(to_writer, x) /\ writer' = writer
        /\ F.blocks \in Seq(AllBlocks)
    BY <1>10, <2>0, <2>x, Shapes, Zenon DEF QueueFile, IInv, F
  <2>2. Fits(c, x) /\ Behind(x) = <<scan, 1>>
    BY <1>0, <2>0, <2>x, Zenon DEF MainFits, Fits, Behind
  <2>3. CASE F.blocks = <<>>
    <3>1. ~InLoop'
      BY <1>0, <1>10, <2>3, Zenon DEF QueueFile, InLoop, LoopPlaces, MainType
    <3>2. Complete(<<scan, 1>>)
      BY <2>3 DEF Complete, F
    <3>3. MainFits(Behind(x))'
      BY <2>2, <3>1, <3>2, Zenon DEF MainFits, Behind, Complete
    <3> QED
      BY <1>9, <2>1, <2>2, <3>3, Zenon
  <2>4. CASE F.blocks # <<>>
    <3>1. InLoop' /\ scan' = scan /\ main'.block = 1
      BY <1>0, <1>10, <2>0, <2>4, Zenon DEF QueueFile, InLoop, LoopPlaces, MainType
    <3>3. MainFits(Behind(x))'
      BY <2>2, <3>1, Zenon DEF MainFits, Behind
    <3> QED
      BY <1>9, <2>1, <2>2, <3>3, Zenon
  <2> QED
    BY <2>3, <2>4, Zenon
<1>11. CASE QueueBlock
  <2>0. main.at = "put" /\ InLoop /\ scan \in FileNos /\ main.block \in 1..Len(F.blocks) /\ NextBlock
    BY <1>11, Zenon DEF QueueBlock, IInv, MainInv, InLoop, LoopPlaces
  <2>x. PICK x \in Items :
           x = [item |-> "block", of |-> scan, nth |-> main.block, entry |-> main.entry]
    BY <1>0, <2>0, Zenon DEF Items, BlockItems, MainType
  <2>1. /\ to_writer' = Append(to_writer, x) /\ writer' = writer
        /\ F.blocks \in Seq(AllBlocks)
    BY <1>11, <2>0, <2>x, Shapes, Zenon DEF QueueBlock, IInv, F
  <2>2. Fits(c, x) /\ Behind(x) = <<scan, main.block + 1>>
    BY <1>0, <2>0, <2>x, Zenon DEF MainFits, Fits, Behind, F
  <2>3. CASE main.block < Len(F.blocks)
    <3>1. InLoop' /\ scan' = scan /\ main'.block = main.block + 1
      BY <2>0, <2>3 DEF NextBlock, InLoop, LoopPlaces
    <3>3. MainFits(Behind(x))'
      BY <2>2, <3>1, Zenon DEF MainFits, Behind
    <3> QED
      BY <1>9, <2>1, <2>2, <3>3, Zenon
  <2>4. CASE ~(main.block < Len(F.blocks))
    <3>1. ~InLoop'
      BY <2>0, <2>4 DEF NextBlock, InLoop, LoopPlaces
    <3>2. Complete(<<scan, main.block + 1>>)
      BY <2>0, <2>1, <2>4 DEF Complete, F
    <3>3. MainFits(Behind(x))'
      BY <2>2, <3>1, <3>2, Zenon DEF MainFits, Behind, Complete
    <3> QED
      BY <1>9, <2>1, <2>2, <3>3, Zenon
  <2> QED
    BY <2>3, <2>4, Zenon
<1>12. CASE QueueDir \/ EndScan
  <2>0. ~InLoop /\ ~InLoop' /\ writer' = writer
    BY <1>0, <1>12, Zenon DEF QueueDir, EndScan, InLoop, LoopPlaces, MainType
  <2>1. PICK x \in Items : to_writer' = Append(to_writer, x) /\ x.item \in {"dir", "null"}
    <3>1. CASE QueueDir
      <4>1. scan \in DOMAIN List
        BY <3>1, ListAssumption DEF QueueDir, Step, IInv, MainInv
      <4>2. [item |-> "dir", of |-> F.dir] \in Items
        BY <4>1, Zenon DEF Items, Dirs, F
      <4> QED
        BY <3>1, <4>2, Zenon DEF QueueDir
    <3>2. CASE EndScan
      <4>1. [item |-> "null"] \in Items
        BY Zenon DEF Items
      <4> QED
        BY <3>2, <4>1, Zenon DEF EndScan
    <3> QED
      BY <1>12, <3>1, <3>2, Zenon
  <2>2. Fits(c, x) /\ Behind(x) = <<0, 1>>
    BY <1>0, <2>0, <2>1, Zenon DEF MainFits, Fits, Behind
  <2>3. MainFits(Behind(x))'
    BY <2>0, <2>2, Zenon DEF MainFits, Behind, Complete
  <2> QED
    BY <1>9, <2>0, <2>1, <2>2, <2>3, Zenon
<1>13. ASSUME to_writer # <<>>, to_writer' = Tail(to_writer), WriterCursor' = Behind(to_writer[1]),
              UNCHANGED <<scan, main>>
       PROVE  Stream'
  <2>1. QStream' /\ Cursor(Len(to_writer))' = c
    BY <1>0, <1>13, StreamTail, Zenon
  <2>2. MainFits(Cursor(Len(to_writer)))'
    BY <1>0, <1>13, <2>1, Zenon DEF MainFits, InLoop, Complete
  <2> QED
    BY <1>g, <2>1, <2>2, Zenon
<1>14. CASE WriterTake
  <2>1. /\ to_writer # <<>> /\ to_writer' = Tail(to_writer) /\ UNCHANGED <<scan, main>>
        /\ writer.at = "idle" /\ writer.block = 1 /\ Head(to_writer) = to_writer[1]
    BY <1>0, <1>14 DEF WriterTake, IInv, WriterInv
  <2>2. CASE writer' = writer /\ to_writer[1].item \in {"null", "dir"}
    BY <1>13, <2>1, <2>2, Zenon DEF WriterCursor, Behind
  <2>3. CASE /\ writer' = [writer EXCEPT !.at = "blocks", !.file = Head(to_writer).of]
             /\ to_writer[1].item = "file"
    <3>1. writer'.at = "blocks" /\ writer'.file = to_writer[1].of /\ writer'.block = 1
      BY <1>0, <2>1, <2>3, Zenon DEF WriterType
    <3> QED
      BY <1>13, <2>1, <2>3, <3>1 DEF WriterCursor, Behind
  <2> QED
    BY <1>14, <2>1, <2>2, <2>3, Zenon DEF WriterTake
<1>15. CASE WriterBlock
  <2>1. /\ to_writer # <<>> /\ to_writer' = Tail(to_writer) /\ UNCHANGED <<scan, main>>
        /\ to_writer[1].item = "block" /\ to_writer[1].of = writer.file
        /\ to_writer[1].nth = writer.block
    BY <1>15, DueBlock, Zenon DEF WriterBlock
  <2>2. WriterCursor' = <<writer.file, writer.block + 1>>
    <3>1. CASE Head(to_writer).entry = None
      <4>1. WriterNext(writer.failed) /\ writer.failed \in BOOLEAN
        BY <1>0, <1>15, <3>1, Zenon DEF WriterBlock, WriterType
      <4>2. writer'.at = "blocks" /\ writer'.file = writer.file /\ writer'.block = writer.block + 1
        BY <1>0, <4>1, NextTyped, Zenon
      <4> QED
        BY <4>2, Zenon DEF WriterCursor
    <3>2. CASE Head(to_writer).entry # None
      <4>1. writer' = [writer EXCEPT !.at = "check", !.entry = Head(to_writer).entry]
        BY <1>15, <3>2, Zenon DEF WriterBlock
      <4>2. writer'.at = "check" /\ writer'.file = writer.file /\ writer'.block = writer.block
        BY <1>0, <4>1, Zenon DEF WriterType
      <4> QED
        BY <4>2, Zenon DEF WriterCursor
    <3> QED
      BY <3>1, <3>2, Zenon
  <2> QED
    BY <1>13, <2>1, <2>2, Zenon DEF Behind
<1> QED
  BY <1>2, <1>3, <1>4, <1>6, <1>7, <1>8, <1>10, <1>11, <1>12, <1>14, <1>15, Cases, Zenon

(* An entry that is set up for another block was not in use. *)
LEMMA NewUnused ==
    ASSUME IInv, NEW e \in Entries, GetNew(e), Allocated(e) \/ Reused(e)
    PROVE  entry[e].used = 0
<1>0. e[1] \in Caches /\ count[e[1]] \in Nat /\ free_list[e[1]] \in Seq(Entries)
  BY Constants, Zenon DEF IInv, Types
<1>1. CASE Allocated(e)
  <2>1. e[2] = count[e[1]] + 1
    BY <1>1 DEF Allocated
  <2>2. e[2] > count[e[1]]
    BY <1>0, <2>1
  <2> QED
    BY <2>2, Zenon DEF IInv, Held
<1>2. CASE Reused(e)
  <2>1. e \in Elems(free_list[e[1]])
    BY <1>0, <1>2 DEF Reused, Elems
  <2> QED
    BY <2>1, Zenon DEF IInv, Free
<1> QED
  BY <1>1, <1>2, Zenon

(* ... so that an entry somebody refers to keeps its block. *)
LEMMA BlocksKept ==
    ASSUME IInv, [Next]_vars, NEW x \in Entries, entry[x].used > 0
    PROVE  entry'[x].block = entry[x].block
<1>1. CASE UNCHANGED <<entry, count, free_list>>
  BY <1>1, Zenon
<1>2. ASSUME InLoop, NEW e \in Entries, GetHit(e) PROVE entry'[x].block = entry[x].block
  BY <1>2, HitEffect, Zenon DEF GetHit
<1>3. ASSUME InLoop, NEW e \in Entries, GetNew(e), Allocated(e) \/ Reused(e)
      PROVE  entry'[x].block = entry[x].block
  <2>1. x # e
    BY <1>3, NewUnused
  <2> QED
    BY <1>3, <2>1, ReserveEffect, Zenon DEF GetNew
<1>4. ASSUME NEW e \in Entries, Fill(e) PROVE entry'[x].block = entry[x].block
  BY <1>4, FillEffect, Zenon
<1>5. CASE Put
  BY <1>5, PutEffect, Zenon
<1> QED
  BY <1>1, <1>2, <1>3, <1>4, <1>5, EntryCases, Zenon

(* Who refers to an entry refers to its block. *)
ItemHolds(x) ==
    x.item = "block" =>
       IF x.entry = None THEN List[x.of].blocks[x.nth] = Hole
                         ELSE entry[x.entry].block = List[x.of].blocks[x.nth]

(* Every step keeps whoever refers to an entry referring to its block. *)
LEMMA RefsStep == ASSUME IInv, [Next]_vars PROVE Refs'
<1> DEFINE Q == \A j \in 1..Len(to_writer) : ItemHolds(to_writer[j])
           M == main.at \in {"read", "put"} /\ main.entry # None => entry[main.entry].block = B
           W == writer.at \in {"check", "sleep"} => entry[writer.entry].block = WFile[writer.block]
<1>0. /\ Q /\ M /\ W /\ to_writer \in Seq(Items) /\ main \in MainType /\ writer \in WriterType
      /\ \A j \in 1..Len(to_writer) : to_writer[j] \in Items
  <2>1. Refs /\ Types
    BY Zenon DEF IInv
  <2>2. Q /\ M /\ W
    BY <2>1, Zenon DEF Refs, ItemHolds
  <2>3. to_writer \in Seq(Items) /\ main \in MainType /\ writer \in WriterType
    BY <2>1, Zenon DEF Types
  <2> QED
    BY <2>2, <2>3, SeqShape, Zenon
<1>1. ASSUME NEW j \in 1..Len(to_writer) PROVE ItemHolds(to_writer[j])'
                                                \/ to_writer'[j] # to_writer[j]
  <2>0. SUFFICES ASSUME to_writer'[j] = to_writer[j], to_writer[j].item = "block"
                 PROVE  IF to_writer[j].entry = None
                        THEN List[to_writer[j].of].blocks[to_writer[j].nth] = Hole
                        ELSE entry'[to_writer[j].entry].block
                                = List[to_writer[j].of].blocks[to_writer[j].nth]
    BY Zenon DEF ItemHolds
  <2>1. ItemHolds(to_writer[j]) /\ to_writer[j].entry \in MaybeEntry
    BY <1>0, <2>0, ItemShapes, Zenon
  <2>2. CASE to_writer[j].entry = None
    BY <2>0, <2>1, <2>2, Zenon DEF ItemHolds
  <2>3. CASE to_writer[j].entry # None
    <3>1. to_writer[j].entry \in Entries
      BY <2>1, <2>3, Zenon DEF MaybeEntry
    <3>2. entry[to_writer[j].entry].used > 0
      BY <2>0, <3>1, ReferenceCounts, Zenon
    <3>3. entry'[to_writer[j].entry].block = entry[to_writer[j].entry].block
      BY <3>1, <3>2, BlocksKept, Zenon
    <3> QED
      BY <2>0, <2>1, <2>3, <3>3, Zenon DEF ItemHolds
  <2> QED
    BY <2>2, <2>3, Zenon
<1>2. Q'
  <2>1. CASE to_writer' = to_writer
    BY <1>1, <2>1, Zenon
  <2>2. CASE QueueFile \/ QueueDir \/ EndScan
    <3>1. PICK x : to_writer' = Append(to_writer, x) /\ x.item # "block"
      BY <2>2 DEF QueueFile, QueueDir, EndScan
    <3>2. /\ Len(to_writer') = Len(to_writer) + 1 /\ to_writer'[Len(to_writer) + 1] = x
          /\ \A j \in 1..Len(to_writer) : to_writer'[j] = to_writer[j]
      BY <1>0, <3>1
    <3> QED
      <4>1. ASSUME NEW j \in 1..Len(to_writer') PROVE ItemHolds(to_writer[j])'
        <5>1. CASE j \in 1..Len(to_writer)
          BY <1>1, <3>2, <5>1, Zenon
        <5>2. CASE j = Len(to_writer) + 1
          BY <3>1, <3>2, <5>2, Zenon DEF ItemHolds
        <5> QED
          BY <1>0, <3>2, <5>1, <5>2
      <4> QED
        BY <4>1, Zenon
  <2>3. CASE QueueBlock
    <3>0. main.at = "put" /\ InLoop /\ scan \in FileNos /\ (main.entry = None <=> B = Hole)
      BY <2>3, Zenon DEF QueueBlock, IInv, MainInv, InLoop, LoopPlaces
    <3>1. PICK x : /\ to_writer' = Append(to_writer, x)
                   /\ x = [item |-> "block", of |-> scan, nth |-> main.block, entry |-> main.entry]
      BY <2>3, Zenon DEF QueueBlock
    <3>2. /\ Len(to_writer') = Len(to_writer) + 1 /\ to_writer'[Len(to_writer) + 1] = x
          /\ \A j \in 1..Len(to_writer) : to_writer'[j] = to_writer[j]
      BY <1>0, <3>1
    <3>3. x.entry = main.entry /\ List[x.of].blocks[x.nth] = B /\ entry' = entry
      BY <2>3, <3>1, Zenon DEF QueueBlock, cacheVars, B, F
    <3>4. ASSUME NEW j \in 1..Len(to_writer') PROVE ItemHolds(to_writer[j])'
      <4>1. CASE j \in 1..Len(to_writer)
        BY <1>1, <3>2, <4>1, Zenon
      <4>2. CASE j = Len(to_writer) + 1
        <5>1. to_writer'[j] = x
          BY <3>2, <4>2, Zenon
        <5>2. CASE main.entry = None
          BY <3>0, <3>3, <5>1, <5>2, Zenon DEF ItemHolds
        <5>3. CASE main.entry # None
          BY <1>0, <3>0, <3>3, <5>1, <5>3, Zenon DEF ItemHolds
        <5> QED
          BY <5>2, <5>3, Zenon
      <4>3. j \in 1..Len(to_writer) \/ j = Len(to_writer) + 1
        BY <1>0, <3>2
      <4> QED
        BY <4>1, <4>2, <4>3, Zenon
    <3> QED
      BY <3>4, Zenon
  <2>4. CASE WriterTake \/ WriterBlock
    <3>1. to_writer # <<>> /\ to_writer' = Tail(to_writer) /\ entry' = entry
      BY <2>4, Zenon DEF WriterTake, WriterBlock, cacheVars
    <3>2. /\ Len(to_writer') = Len(to_writer) - 1 /\ Len(to_writer) \in Nat
          /\ \A j \in 1..Len(to_writer') : to_writer'[j] = to_writer[j + 1]
      BY <1>0, <3>1
    <3>3. ASSUME NEW j \in 1..Len(to_writer') PROVE ItemHolds(to_writer[j])'
      <4>1. to_writer'[j] = to_writer[j + 1] /\ j + 1 \in 1..Len(to_writer)
        BY <3>2
      <4>2. ItemHolds(to_writer[j + 1])
        BY <1>0, <4>1, Zenon
      <4> QED
        BY <3>1, <4>1, <4>2, Zenon DEF ItemHolds
    <3> QED
      BY <3>3, Zenon
  <2> QED
    BY <2>1, <2>2, <2>3, <2>4, QueueCases, Zenon
<1>3. M'
  <2>1. ASSUME main'.at \notin {"read", "put"} PROVE M'
    BY <2>1, Zenon
  <2>2. ASSUME UNCHANGED <<scan, main>> PROVE M'
    <3>1. B' = B
      BY <2>2, Zenon DEF B, F
    <3>2. SUFFICES ASSUME main.at \in {"read", "put"}, main.entry # None
                   PROVE  entry'[main.entry].block = B
      BY <2>2, <3>1, Zenon
    <3>3. main.entry \in Entries
      BY <1>0, <3>2, Zenon DEF MainType, MaybeEntry
    <3>4. entry[main.entry].used > 0
      BY <3>2, <3>3, ReferenceCounts, Zenon DEF MainHas
    <3> QED
      BY <1>0, <3>2, <3>3, <3>4, BlocksKept, Zenon
  <2>3. CASE MakeName \/ OpenFails \/ QueueDir
    BY <2>1, <2>3, Zenon DEF MakeName, OpenFails, QueueDir
  <2>4. CASE Opens \/ QueueFile \/ QueueBlock \/ EndScan \/ Synced \/ WakeMain
    BY <1>0, <2>1, <2>4 DEF Opens, QueueFile, QueueBlock, NextBlock, EndScan, Synced, WakeMain, MainType
  <2>5. CASE CacheGet
    <3>0. scan' = scan /\ InLoop
      BY <2>5, CacheGetCases, Zenon
    <3>1. CASE GetHole
      BY <1>0, <3>1, Zenon DEF GetHole, MainType
    <3>2. CASE GetSleep
      BY <1>0, <2>1, <3>2, Zenon DEF GetSleep, MainType
    <3>3. ASSUME NEW e \in Entries, GetHit(e) PROVE M'
      <4>1. main'.entry = e /\ main'.block = main.block /\ entry'[e].block = B
        BY <1>0, <3>3, HitEffect, Zenon DEF GetHit, CacheHit, MainType
      <4>2. B' = B
        BY <3>0, <4>1, Zenon DEF B, F
      <4> QED
        BY <4>1, <4>2, Zenon
    <3>4. ASSUME NEW e \in Entries, GetNew(e) PROVE M'
      <4>1. main'.entry = e /\ main'.block = main.block /\ entry'[e].block = B
        BY <1>0, <3>0, <3>4, ReserveEffect, Zenon DEF GetNew, Reserve, MainType
      <4>2. B' = B
        BY <3>0, <4>1, Zenon DEF B, F
      <4> QED
        BY <4>1, <4>2, Zenon
    <3> QED
      BY <2>5, <3>1, <3>2, <3>3, <3>4, CacheGetCases, Zenon
  <2>6. CASE QueueRead
    <3>1. /\ main.at = "read" /\ main'.block = main.block /\ main'.entry = main.entry
          /\ scan' = scan /\ entry' = entry
      BY <1>0, <2>6, Zenon DEF QueueRead, MainType, cacheVars
    <3>2. B' = B
      BY <3>1, Zenon DEF B, F
    <3> QED
      BY <1>0, <3>1, <3>2, Zenon
  <2>7. CASE Quiet \/ WriterTake \/ WriterBlock \/ WriterSleep \/ Skip \/ WriterClose \/ WakeWriter
    BY <2>2, <2>7, Zenon DEF Quiet, WriterTake, WriterBlock, WriterSleep, Skip, WriterClose, WakeWriter,
                      mainVars
  <2>8. ASSUME NEW e \in Entries, Fill(e) PROVE M'
    BY <2>2, <2>8, Zenon DEF Fill, mainVars
  <2>9. CASE Put
    <3>1. CASE main' = main
      BY <2>2, <2>9, <3>1, Zenon DEF Put
    <3>2. CASE main' = [main EXCEPT !.at = "woken"]
      BY <1>0, <2>1, <3>2, Zenon DEF MainType
    <3> QED
      BY <2>9, <3>1, <3>2, Zenon DEF Put, CacheBlockPut
  <2> QED
    BY <2>3, <2>4, <2>5, <2>6, <2>7, <2>8, <2>9, Cases, Zenon
<1>4. W'
  <2>1. ASSUME writer'.at \notin {"check", "sleep"} PROVE W'
    BY <2>1, Zenon
  <2>2. ASSUME writer.at \in {"check", "sleep"}, writer'.file = writer.file,
               writer'.block = writer.block, writer'.entry = writer.entry
        PROVE  W'
    <3>1. writer.entry \in Entries /\ WFile' = WFile
      BY <2>2, Shapes, Zenon DEF IInv, WFile
    <3>2. entry[writer.entry].used > 0
      BY <2>2, <3>1, ReferenceCounts, Zenon DEF WriterHas
    <3> QED
      BY <1>0, <2>2, <3>1, <3>2, BlocksKept, Zenon
  <2>3. ASSUME writer' = writer PROVE W'
    BY <2>1, <2>2, <2>3, Zenon
  <2>4. CASE MakeName \/ OpenFails \/ Opens \/ QueueFile \/ CacheGet \/ QueueRead
    BY <2>3, <2>4, Zenon DEF MakeName, OpenFails, Opens, QueueFile, CacheGet, QueueRead
  <2>5. CASE QueueBlock \/ QueueDir \/ EndScan \/ Synced \/ Quiet \/ WakeMain
    BY <2>3, <2>5, Zenon DEF QueueBlock, QueueDir, EndScan, Synced, Quiet, WakeMain
  <2>6. ASSUME NEW e \in Entries, Fill(e) PROVE W'
    <3>1. CASE writer' = writer
      BY <2>3, <3>1, Zenon
    <3>2. CASE writer.at = "sleep" /\ writer' = [writer EXCEPT !.at = "check"]
      BY <1>0, <2>2, <3>2, Zenon DEF WriterType
    <3> QED
      BY <2>6, <3>1, <3>2, Zenon DEF Fill, CacheBlockReady
  <2>7. CASE WriterSleep \/ WakeWriter
    BY <1>0, <2>2, <2>7, Zenon DEF WriterSleep, WakeWriter, WriterType
  <2>8. CASE WriterTake
    BY <1>0, <2>1, <2>8, Zenon DEF WriterTake, WriterType
  <2>9. CASE Skip \/ Put
    BY <1>0, <2>1, <2>9, NextTyped, Zenon DEF Skip, Put
  <2>10. CASE WriterClose
    BY <2>1, <2>10, Zenon DEF WriterClose
  <2>11. CASE WriterBlock
    <3>0. /\ to_writer[1].item = "block" /\ to_writer[1].of = writer.file
          /\ to_writer[1].nth = writer.block /\ Head(to_writer) = to_writer[1]
          /\ 1 \in 1..Len(to_writer) /\ entry' = entry
      BY <1>0, <2>11, DueBlock DEF WriterBlock, cacheVars
    <3>1. CASE Head(to_writer).entry = None
      <4>1. WriterNext(writer.failed) /\ writer.failed \in BOOLEAN
        BY <1>0, <2>11, <3>1, Zenon DEF WriterBlock, WriterType
      <4> QED
        BY <1>0, <2>1, <4>1, NextTyped, Zenon
    <3>2. CASE Head(to_writer).entry # None
      <4>1. writer' = [writer EXCEPT !.at = "check", !.entry = Head(to_writer).entry]
        BY <2>11, <3>2, Zenon DEF WriterBlock
      <4>2. /\ writer'.file = writer.file /\ writer'.block = writer.block
            /\ writer'.entry = to_writer[1].entry
        BY <1>0, <3>0, <4>1, Zenon DEF WriterType
      <4>3. entry[to_writer[1].entry].block = List[writer.file].blocks[writer.block]
        BY <1>0, <3>0, <3>2, Zenon DEF ItemHolds
      <4> QED
        BY <3>0, <4>2, <4>3, Zenon DEF WFile
    <3> QED
      BY <3>1, <3>2, Zenon
  <2> QED
    BY <2>4, <2>5, <2>6, <2>7, <2>8, <2>9, <2>10, <2>11, Cases, Zenon
<1> QED
  BY <1>2, <1>3, <1>4, Zenon DEF Refs, ItemHolds

(* What a step does to the number of queued references to an entry.          *)
QueuedChanges(e) ==
    /\ to_writer' = to_writer => Cardinality(Queued(e))' = Cardinality(Queued(e))
    /\ \A x \in Items : to_writer' = Append(to_writer, x) =>
          Cardinality(Queued(e))' = Cardinality(Queued(e))
                                       + (IF x.item = "block" /\ x.entry = e THEN 1 ELSE 0)
    /\ to_writer # <<>> /\ to_writer' = Tail(to_writer) =>
          Cardinality(Queued(e))' = Cardinality(Queued(e))
             - (IF Head(to_writer).item = "block" /\ Head(to_writer).entry = e THEN 1 ELSE 0)

(* Every reference is counted. *)
LEMMA CountedStep ==
    ASSUME IInv, [Next]_vars, \A e \in Entries : QueuedChanges(e)
    PROVE  Counted'
<1> SUFFICES ASSUME NEW e \in Entries
             PROVE  /\ References(e)' <= entry'[e].used
                    /\ faults'.bad = {} /\ ~faults'.write => References(e)' = entry'[e].used
  BY Zenon DEF Counted
<1> DEFINE q == Cardinality(Queued(e))
           n(x) == IF x THEN 1 ELSE 0
           OK == faults.bad = {} /\ ~faults.write
<1>0. /\ to_writer \in Seq(Items) /\ main \in MainType /\ writer \in WriterType
      /\ faults' = faults /\ entry[e].used \in Nat /\ q \in Nat /\ e # None
      /\ References(e) <= entry[e].used /\ (OK => References(e) = entry[e].used)
      /\ References(e) = q + n(MainHas(e)) + n(WriterHas(e))
  BY Cases, EntryAssumption, Zenon DEF IInv, Types, EntryType, Counted, QueueCounts, References
<1>g. SUFFICES /\ References(e)' <= entry'[e].used
               /\ OK => References(e)' = entry'[e].used
  BY <1>0, Zenon
<1>c. /\ to_writer' = to_writer => q' = q
      /\ \A x \in Items : to_writer' = Append(to_writer, x) =>
            q' = q + n(x.item = "block" /\ x.entry = e)
      /\ to_writer # <<>> /\ to_writer' = Tail(to_writer) =>
            q' = q - n(Head(to_writer).item = "block" /\ Head(to_writer).entry = e)
  BY Zenon DEF QueuedChanges
<1>r. References(e)' = q' + n(MainHas(e)') + n(WriterHas(e)')
  BY Zenon DEF References
<1>n. \A x \in BOOLEAN : n(x) \in 0..1
  OBVIOUS
<1>1. ASSUME References(e)' = References(e), entry'[e].used = entry[e].used
      PROVE  /\ References(e)' <= entry'[e].used
             /\ OK => References(e)' = entry'[e].used
  BY <1>0, <1>1, Zenon
<1>2. ASSUME q' = q, MainHas(e)' <=> MainHas(e), WriterHas(e)' <=> WriterHas(e),
             entry'[e].used = entry[e].used
      PROVE  /\ References(e)' <= entry'[e].used
             /\ OK => References(e)' = entry'[e].used
  BY <1>0, <1>2, <1>r, Zenon
<1>q. to_writer' = to_writer => q' = q
  BY <1>0, <1>c, Zenon
<1>3. CASE MakeName \/ OpenFails \/ Opens \/ Synced \/ QueueRead \/ WakeMain
  <2>1. to_writer' = to_writer /\ entry' = entry /\ writer' = writer
    BY <1>3, Zenon DEF MakeName, OpenFails, Opens, Synced, QueueRead, WakeMain, queueVars, cacheVars
  <2>2. (MainHas(e)' <=> MainHas(e)) /\ (WriterHas(e)' <=> WriterHas(e))
    BY <1>0, <1>3, <2>1, Zenon DEF MakeName, OpenFails, Opens, Synced, QueueRead, WakeMain, MainHas,
                            WriterHas, MainType
  <2> QED
    BY <1>0, <1>2, <1>q, <2>1, <2>2, Zenon
<1>4. CASE Quiet \/ WriterClose \/ WakeWriter \/ WriterSleep
  <2>1. to_writer' = to_writer /\ entry' = entry /\ main' = main
    BY <1>4, Zenon DEF Quiet, WriterClose, WakeWriter, WriterSleep, queueVars, cacheVars, mainVars
  <2>2. (MainHas(e)' <=> MainHas(e)) /\ (WriterHas(e)' <=> WriterHas(e))
    BY <1>0, <1>4, <2>1 DEF Quiet, WriterClose, WakeWriter, WriterSleep, MainHas, WriterHas, WriterType
  <2> QED
    BY <1>0, <1>2, <1>q, <2>1, <2>2, Zenon
<1>5. ASSUME NEW x \in Entries, Fill(x)
      PROVE  /\ References(e)' <= entry'[e].used
             /\ OK => References(e)' = entry'[e].used
  <2>1. to_writer' = to_writer /\ main' = main /\ entry'[e].used = entry[e].used
    BY <1>5, FillEffect, Zenon DEF Fill, mainVars
  <2>2. (MainHas(e)' <=> MainHas(e)) /\ (WriterHas(e)' <=> WriterHas(e))
    BY <1>0, <1>5, <2>1, Zenon DEF Fill, CacheBlockReady, MainHas, WriterHas, WriterType
  <2> QED
    BY <1>2, <1>q, <2>1, <2>2, Zenon
<1>6. CASE QueueFile \/ QueueDir \/ EndScan
  <2>1. PICK x \in Items : to_writer' = Append(to_writer, x)
    BY <1>0, <1>6, QueueCases DEF QueueFile, QueueDir, EndScan
  <2>2. x.item # "block" /\ entry' = entry /\ writer' = writer
    <3>1. Len(to_writer) \in Nat /\ to_writer'[Len(to_writer) + 1] = x
      BY <1>0, <2>1
    <3>2. /\ QueueFile => to_writer'[Len(to_writer) + 1] = [item |-> "file", of |-> scan]
          /\ QueueDir => to_writer'[Len(to_writer) + 1] = [item |-> "dir", of |-> F.dir]
          /\ EndScan => to_writer'[Len(to_writer) + 1] = [item |-> "null"]
      BY <1>0 DEF QueueFile, QueueDir, EndScan
    <3> QED
      BY <1>6, <3>1, <3>2 DEF QueueFile, QueueDir, EndScan, cacheVars
  <2>3. (MainHas(e)' <=> MainHas(e)) /\ (WriterHas(e)' <=> WriterHas(e))
    BY <1>0, <1>6, <2>2, Zenon DEF QueueFile, QueueDir, EndScan, MainHas, WriterHas, MainType
  <2>4. q' = q
    BY <1>0, <2>1, <2>2, <1>c
  <2> QED
    BY <1>2, <2>2, <2>3, <2>4, Zenon
<1>7. CASE QueueBlock
  <2>1. PICK x \in Items :
           /\ to_writer' = Append(to_writer, x)
           /\ x = [item |-> "block", of |-> scan, nth |-> main.block, entry |-> main.entry]
    <3>1. scan \in FileNos /\ main.block \in Nat /\ main.entry \in MaybeEntry
      BY <1>0, <1>7, Zenon DEF QueueBlock, IInv, MainInv, InLoop, LoopPlaces, MainType
    <3> QED
      BY <1>7, <3>1, Zenon DEF QueueBlock, Items, BlockItems
  <2>2. x.item = "block" /\ x.entry = main.entry /\ entry' = entry /\ writer' = writer
        /\ main.at = "put" /\ main'.at \notin {"read", "put"}
    BY <1>7, <2>1 DEF QueueBlock, NextBlock, cacheVars
  <2>3. (MainHas(e) <=> main.entry = e) /\ ~MainHas(e)' /\ WriterHas(e)' = WriterHas(e)
    BY <2>2, Zenon DEF MainHas, WriterHas
  <2>4. q' = q + n(main.entry = e)
    BY <1>0, <2>1, <2>2, <1>c, Zenon
  <2>5. References(e)' = References(e)
    BY <1>0, <1>r, <2>3, <2>4, SMTT(20)
  <2> QED
    BY <1>1, <2>2, <2>5, Zenon
<1>8. CASE CacheGet
  <2>0. to_writer' = to_writer /\ writer' = writer /\ InLoop
    BY <1>8, CacheGetCases, Zenon DEF queueVars
  <2>w. q' = q /\ WriterHas(e)' = WriterHas(e)
    BY <1>q, <2>0, Zenon DEF WriterHas
  <2>1. CASE GetHole
    <3>1. entry' = entry /\ ~MainHas(e) /\ ~MainHas(e)'
      BY <1>0, <2>1, Zenon DEF GetHole, MainHas, MainType, cacheVars
    <3> QED
      BY <1>0, <1>2, <2>w, <3>1, Zenon
  <2>2. CASE GetSleep
    <3>1. entry' = entry /\ ~MainHas(e) /\ ~MainHas(e)'
      BY <1>0, <2>2, Zenon DEF GetSleep, MainHas, MainType
    <3> QED
      BY <1>0, <1>2, <2>w, <3>1, Zenon
  <2>3. ASSUME NEW x \in Entries, GetHit(x)
        PROVE  /\ References(e)' <= entry'[e].used
               /\ OK => References(e)' = entry'[e].used
    <3>1. ~MainHas(e) /\ (MainHas(e)' <=> x = e)
      BY <1>0, <2>3, Zenon DEF GetHit, CacheHit, MainHas, MainType
    <3>2. entry'[e].used = entry[e].used + n(x = e)
      BY <1>0, <2>3, HitEffect, SMTT(20) DEF GetHit
    <3>3. References(e)' = References(e) + n(x = e)
      BY <1>0, <1>r, <2>w, <3>1
    <3>4. References(e) \in Nat
      BY ReferenceCounts, Zenon
    <3> QED
      BY <1>0, <3>2, <3>3, <3>4
  <2>4. ASSUME NEW x \in Entries, GetNew(x), Allocated(x) \/ Reused(x)
        PROVE  /\ References(e)' <= entry'[e].used
               /\ OK => References(e)' = entry'[e].used
    <3>1. ~MainHas(e) /\ (MainHas(e)' <=> x = e)
      BY <1>0, <2>4, Zenon DEF GetNew, Reserve, MainHas, MainType
    <3>2. References(e)' = References(e) + n(x = e)
      BY <1>0, <1>r, <2>w, <3>1
    <3>3. References(e) \in Nat
      BY ReferenceCounts, Zenon
    <3>4. CASE x # e
      <4>1. entry'[e] = entry[e]
        BY <2>0, <2>4, <3>4, ReserveEffect, Zenon DEF GetNew
      <4> QED
        BY <1>0, <3>2, <3>3, <3>4, <4>1
    <3>5. CASE x = e
      <4>1. entry'[e].used = 1 /\ entry[e].used = 0
        BY <2>0, <2>4, <3>5, ReserveEffect, NewUnused DEF GetNew
      <4> QED
        BY <1>0, <3>2, <3>3, <3>5, <4>1
    <3> QED
      BY <3>4, <3>5, Zenon
  <2> QED
    BY <1>0, <1>8, <2>1, <2>2, <2>3, <2>4, CacheGetCases, Zenon
<1>9. CASE WriterTake
  <2>1. /\ to_writer # <<>> /\ to_writer' = Tail(to_writer) /\ entry' = entry /\ main' = main
        /\ Head(to_writer).item # "block" /\ writer.at = "idle"
    BY <1>9, Zenon DEF WriterTake, cacheVars
  <2>2. MainHas(e)' = MainHas(e) /\ ~WriterHas(e) /\ ~WriterHas(e)'
    BY <1>0, <1>9, <2>1, Zenon DEF WriterTake, MainHas, WriterHas, WriterType
  <2>3. q' = q
    BY <1>0, <2>1, <1>c
  <2> QED
    BY <1>0, <1>2, <2>1, <2>2, <2>3, Zenon
<1>10. CASE WriterBlock
  <2>1. /\ to_writer # <<>> /\ to_writer' = Tail(to_writer) /\ entry' = entry /\ main' = main
        /\ Head(to_writer).item = "block" /\ writer.at = "blocks"
    BY <1>10, DueBlock, Zenon DEF WriterBlock, cacheVars
  <2>2. MainHas(e)' = MainHas(e) /\ ~WriterHas(e)
    BY <2>1, Zenon DEF MainHas, WriterHas
  <2>3. q' = q - n(Head(to_writer).entry = e)
    BY <1>0, <2>1, <1>c, Zenon
  <2>4. WriterHas(e)' <=> Head(to_writer).entry = e
    <3>1. CASE Head(to_writer).entry = None
      <4>1. WriterNext(writer.failed) /\ writer.failed \in BOOLEAN
        BY <1>0, <1>10, <3>1, Zenon DEF WriterBlock, WriterType
      <4>2. writer'.at = "blocks"
        BY <1>0, <4>1, NextTyped, Zenon
      <4> QED
        BY <1>0, <3>1, <4>2, Zenon DEF WriterHas
    <3>2. CASE Head(to_writer).entry # None
      <4>1. writer' = [writer EXCEPT !.at = "check", !.entry = Head(to_writer).entry]
        BY <1>10, <3>2, Zenon DEF WriterBlock
      <4> QED
        BY <1>0, <4>1, Zenon DEF WriterHas, WriterType
    <3> QED
      BY <3>1, <3>2, Zenon
  <2>5. References(e)' = References(e)
    BY <1>0, <1>r, <2>2, <2>3, <2>4
  <2> QED
    BY <1>1, <2>1, <2>5, Zenon
<1>11. CASE Skip
  <2>1. /\ to_writer' = to_writer /\ entry' = entry /\ main' = main /\ writer.at = "check"
        /\ writer'.at = "blocks" /\ (entry[writer.entry].error \/ writer.failed)
    BY <1>0, <1>11, NextTyped, Zenon DEF Skip, mainVars, cacheVars
  <2>2. writer.entry \in Entries
    BY <2>1, Shapes, Zenon DEF IInv
  <2>3. ~OK
    BY <2>1, <2>2, Zenon DEF IInv, Held, WriterInv
  <2>4. q' = q /\ MainHas(e)' = MainHas(e) /\ ~WriterHas(e)'
    BY <1>q, <2>1, Zenon DEF MainHas, WriterHas
  <2>5. References(e)' <= References(e) /\ References(e)' \in Nat /\ References(e) \in Nat
    BY <1>0, <1>r, <2>4
  <2> QED
    BY <1>0, <2>1, <2>3, <2>5
<1>12. CASE Put
  <2>1. /\ to_writer' = to_writer /\ writer.at = "check" /\ writer'.at = "blocks"
    BY <1>0, <1>12, NextTyped, Zenon DEF Put
  <2>2. (WriterHas(e) <=> writer.entry = e) /\ ~WriterHas(e)' /\ q' = q
    BY <1>q, <2>1, Zenon DEF WriterHas
  <2>3. MainHas(e)' = MainHas(e)
    BY <1>0, <1>12, Zenon DEF Put, CacheBlockPut, MainHas, MainType
  <2>4. entry'[e].used = entry[e].used - n(writer.entry = e)
    BY <1>0, <1>12, PutEffect, SMTT(20)
  <2>5. References(e)' = References(e) - n(writer.entry = e) /\ References(e) \in Nat
    BY <1>0, <1>r, <2>2, <2>3, SMTT(20)
  <2> QED
    BY <1>0, <2>4, <2>5
<1> QED
  BY <1>3, <1>4, <1>5, <1>6, <1>7, <1>8, <1>9, <1>10, <1>11, <1>12, Cases, Zenon
=============================================================================
