-------------------------------- MODULE Image --------------------------------
(***************************************************************************)
(* The life of a filesystem image: Mksquashfs creates it (dir_scan7 and    *)
(* write_filesystem_tables), appends to it, is interrupted and restores it *)
(* (restorefs), or dies and is asked to recover it from the recovery file  *)
(* (write_recovery_data, read_recovery_data).  The files are what dir_scan6 *)
(* hands over: a tree whose directories are sorted.  Every write to the    *)
(* destination is a step, so that a crash or a signal falls between any    *)
(* two of them.                                                            *)
(***************************************************************************)
EXTENDS KernelFs

CONSTANTS Creates,    \* what is created: [tree, exportable], tree a root directory
          Jobs,       \* appends: [mode, tree, name], mode "append" or "becomes"
          MaxAppends, \* bound on the number of appends
          MaxCrashes, \* bound on the number of crashes
          AllNames,   \* the names that are looked up
          Depth       \* bound on the depth of a tree

VARIABLES img,      \* the destination file
          recovery, \* the recovery file
          sBlk,     \* the superblock in memory
          mem,      \* main's other variables
          stack,    \* dir_scan7's activations
          saved,    \* the s* variables restorefs goes back to
          phase, job, runs, crashes,
          want,     \* ghost: the tree the image must show
          target,   \* ghost: the tree being written
          old,      \* ghost: the tree before the append
          flaws     \* ghost: what went wrong for restorefs or the append ("late", "aligned")
vars == <<img, recovery, sBlk, mem, stack, saved, phase, job, runs, crashes, want, target, old, flaws>>

NoFile == [sb |-> Pad, meta |-> <<>>]
InvalidBlk == -1
NoMem == [bytes |-> 0]
NoPlan == [next |-> 0]
NotSaved == [count |-> 0]
EmptySuper == [k |-> "super", root_inode |-> [blk |-> 0, off |-> 0], inodes |-> 0, exportable |-> TRUE,
               fragments |-> 0, no_ids |-> 0, inode_table_start |-> 0, directory_table_start |-> 0,
               fragment_table_start |-> 0, lookup_table_start |-> 0, id_table_start |-> 0, bytes_used |-> 0]

(***************************************************************************)
(* Inode numbers (dir_scan6) and link counts of a tree.                    *)
(***************************************************************************)
RECURSIVE Order(_)
Order(list) ==
  FlattenSeq([i \in 1..Len(list) |-> IF list[i].node.type = "old" THEN <<>>
                                     ELSE <<list[i].node.id>> \o Order(list[i].node.list)])

\* Numbers follow the first entry met for an inode; the root directory comes
\* last and takes the number it had when it is appended to.
Plan(root, inode_no, root_number) ==
  LET order  == Order(root.list)
      New(i) == \A j \in 1..(i - 1) : order[j] # order[i]
      first  == SelectSeq([i \in 1..Len(order) |-> [id |-> order[i], new |-> New(i)]], LAMBDA x : x.new)
      next   == inode_no + Len(first)
      Num(id) == IF id = root.id THEN IF root_number # 0 THEN root_number ELSE next
                 ELSE inode_no + (CHOOSE i \in 1..Len(first) : first[i].id = id) - 1 IN
  [number |-> [id \in Range(order) \cup {root.id} |-> Num(id)],
   nlink |-> [id \in Range(order) |-> Cardinality({i \in 1..Len(order) : order[i] = id})],
   next |-> IF root_number # 0 THEN next ELSE next + 1]

\* dir_scan6's dir_is_ldir.
IsLdir(list) ==
  ~ /\ Len(list) < LdirCount
    /\ FoldLeft(LAMBDA n, e : n + EntrySize + NameLen(e.name), 0, list) < Meta

\* directory_count, with the directories that were in the root already.
Subdirs(list) == Cardinality({i \in 1..Len(list) :
                   list[i].node.type = "dir" \/ (list[i].node.type = "old" /\ list[i].node.dtype = "dir")})

MergeEntries(a, b) == SortSeq(a \o b, LAMBDA x, y : x.name < y.name)

(***************************************************************************)
(* What a reader must show of a node (a ghost).                            *)
(***************************************************************************)
DataBlocks(n) == [i \in 1..(IF n.frag THEN n.size \div BlockSize ELSE CeilDiv(n.size, BlockSize)) |->
                    [k |-> "data", id |-> n.id, b |-> i]]
FragBlock(n) == IF n.frag THEN <<[k |-> "data", id |-> n.id, b |-> 0]>> ELSE <<>>
IdCell(id) == [k |-> "id", id |-> id]

RECURSIVE Shown(_, _, _)
Shown(n, plan, parent) ==
  [type |-> n.type, number |-> plan.number[n.id], uid |-> IdCell(n.uid), gid |-> IdCell(n.gid),
   xattr |-> n.xattr, nlink |-> IF n.type = "dir" THEN Subdirs(n.list) + 2 ELSE plan.nlink[n.id],
   parent |-> IF n.type = "dir" THEN parent ELSE 0,
   data |-> CASE n.type = "reg" -> DataBlocks(n) \o FragBlock(n)
              [] n.type = "sym" -> n.text [] n.type \in {"blk", "chr"} -> <<n.rdev>> [] OTHER -> <<>>,
   list |-> [i \in 1..Len(n.list) |->
               [name |-> n.list[i].name,
                node |-> IF n.list[i].node.type = "old" THEN n.list[i].node.view
                         ELSE Shown(n.list[i].node, plan, plan.number[n.id])]]]

(***************************************************************************)
(* dir_scan7.                                                              *)
(***************************************************************************)
Frame(node) == [node |-> node, rest |-> node.list, dir |-> InitDir]
Top == stack[Len(stack)]

\* The top activation goes on to its next entry after adding this one.
Added(f, inode, number, type) ==
  [f EXCEPT !.rest = Tail(@), !.dir = AddDir(@, inode, number, Head(f.rest).name, type)]

\* scan7_readdir, entries of the root directory that is appended to, and
\* further links of an inode that is written already.
Scan7Old ==
  /\ phase = "scan7" /\ Top.rest # <<>>
  /\ LET n == Head(Top.rest).node
         known == n.type # "old" IN
     /\ known => n.id \in DOMAIN mem.made
     /\ stack' = [stack EXCEPT ![Len(stack)] =
                    IF known THEN Added(Top, mem.made[n.id].inode, job.plan.number[n.id], n.type)
                    ELSE Added(Top, n.inode, n.number, n.dtype)]
  /\ UNCHANGED <<img, recovery, sBlk, mem, saved, phase, job, runs, crashes, want, target, old, flaws>>

\* A file: write_file puts its blocks and its fragment into the destination
\* (the order in which the writer does is DataLayout's), then create_inode.
Scan7File ==
  /\ phase = "scan7" /\ Top.rest # <<>>
  /\ Head(Top.rest).node.type \notin {"old", "dir"}
  /\ Head(Top.rest).node.id \notin DOMAIN mem.made
  /\ LET n      == Head(Top.rest).node
         blocks == IF n.type = "reg" THEN DataBlocks(n) ELSE <<>>
         frag   == IF n.type = "reg" THEN FragBlock(n) ELSE <<>>
         full   == n @@ [number |-> job.plan.number[n.id], nlink |-> job.plan.nlink[n.id],
                         start |-> mem.bytes, blocks |-> [i \in 1..Len(blocks) |-> [k |-> "bl"]],
                         fragment |-> IF frag = <<>> THEN NoFragment ELSE Len(mem.frags) \div FragmentSize] IN
     \E r \in {CreateInode(mem.itab, mem.ids, full)} :
     /\ img' = WriteDestination(img, mem.bytes, blocks \o frag)
     /\ mem' = [mem EXCEPT !.bytes = @ + Len(blocks) + Len(frag), !.itab = r.table, !.ids = r.ids,
                  !.frags = @ \o (IF frag = <<>> THEN <<>>
                                  ELSE Struct([k |-> "frag", start_block |-> mem.bytes + Len(blocks)], FragmentSize)),
                  !.made = @ @@ (n.id :> [inode |-> r.inode, number |-> full.number]), !.count = @ + 1]
     /\ stack' = [stack EXCEPT ![Len(stack)] = Added(Top, r.inode, full.number, n.type)]
  /\ UNCHANGED <<recovery, sBlk, saved, phase, job, runs, crashes, want, target, old, flaws>>

Scan7Descend ==
  /\ phase = "scan7" /\ Top.rest # <<>>
  /\ Head(Top.rest).node.type = "dir" /\ Head(Top.rest).node.id \notin DOMAIN mem.made
  /\ stack' = Append(stack, Frame(Head(Top.rest).node))
  /\ UNCHANGED <<img, recovery, sBlk, mem, saved, phase, job, runs, crashes, want, target, old, flaws>>

DirInode(n, number, parent, d) ==
  [n EXCEPT !.size = d.size]
    @@ [number |-> number, nlink |-> Subdirs(n.list) + 2, ldir |-> IsLdir(n.list), parent |-> parent,
        start_block |-> d.start_block, offset |-> d.offset, index |-> d.index]

\* The end of dir_scan7: write_dir, and the entry in the directory above.
\* get_parent_no: the root directory's parent is the next inode number.
\* After the root directory main fills in the superblock.
Scan7Up ==
  /\ phase = "scan7" /\ Top.rest = <<>>
  /\ LET n      == Top.node
         number == job.plan.number[n.id]
         isroot == Len(stack) = 1
         parent == IF isroot THEN job.plan.next ELSE job.plan.number[stack[Len(stack) - 1].node.id] IN
     \E d \in {WriteDir(mem.dtab, Top.dir)} :
     \E r \in {CreateInode(mem.itab, mem.ids, DirInode(n, number, parent, d))} :
     /\ mem' = [mem EXCEPT !.itab = r.table, !.dtab = d.table, !.ids = r.ids, !.count = @ + 1,
                           !.made = @ @@ (n.id :> [inode |-> r.inode, number |-> number])]
     /\ stack' = IF isroot THEN <<>>
                 ELSE [SubSeq(stack, 1, Len(stack) - 1) EXCEPT ![Len(stack) - 1] =
                         Added(@, r.inode, number, "dir")]
     /\ IF isroot
        THEN /\ phase' = "inodes"
             /\ sBlk' = [sBlk EXCEPT !.root_inode = r.inode, !.inodes = mem.count + 1]
        ELSE UNCHANGED <<phase, sBlk>>
  /\ UNCHANGED <<img, recovery, saved, job, runs, crashes, want, target, old, flaws>>

(***************************************************************************)
(* write_filesystem_tables, a step for every table.                        *)
(***************************************************************************)
WriteInodes ==
  /\ phase = "inodes" /\ phase' = "dirs"
  /\ LET t == FlushAll(mem.itab) IN
     /\ img' = WriteDestination(img, mem.bytes, t.out)
     /\ mem' = [mem EXCEPT !.itab = t, !.bytes = @ + Len(t.out)]
     /\ sBlk' = [sBlk EXCEPT !.fragments = Len(mem.frags) \div FragmentSize, !.no_ids = Len(mem.ids),
                             !.inode_table_start = mem.bytes]
  /\ UNCHANGED <<recovery, stack, saved, job, runs, crashes, want, target, old, flaws>>

WriteDirectories ==
  /\ phase = "dirs" /\ phase' = "frags"
  /\ LET t == FlushAll(mem.dtab) IN
     /\ img' = WriteDestination(img, mem.bytes, t.out)
     /\ mem' = [mem EXCEPT !.dtab = t, !.bytes = @ + Len(t.out)]
     /\ sBlk' = [sBlk EXCEPT !.directory_table_start = mem.bytes]
  /\ UNCHANGED <<recovery, stack, saved, job, runs, crashes, want, target, old, flaws>>

WriteFragmentTable ==
  /\ phase = "frags" /\ phase' = "lookup"
  /\ LET r == GenericWriteTable(img, mem.bytes, mem.frags) IN
     /\ img' = r.img /\ mem' = [mem EXCEPT !.bytes = r.bytes]
     /\ sBlk' = [sBlk EXCEPT !.fragment_table_start = r.start]
  /\ UNCHANGED <<recovery, stack, saved, job, runs, crashes, want, target, old, flaws>>

\* Mutant of LookupTable: the inodes of the runs before are not kept.
LookupTableNew ==
  IF mem.count = saved.count THEN mem.lookup
  ELSE [i \in 1..mem.count |->
          IF \E id \in DOMAIN mem.made : mem.made[id].number = i
          THEN [k |-> "ino"] @@ mem.made[CHOOSE id \in DOMAIN mem.made : mem.made[id].number = i].inode
          ELSE Pad]

\* The table in memory gets the inodes of this run, unless there is none; as
\* many entries are written as there are inodes.
LookupTable ==
  IF mem.count = saved.count THEN SubSeq(mem.lookup, 1, mem.count)
  ELSE [i \in 1..mem.count |->
          IF \E id \in DOMAIN mem.made : mem.made[id].number = i
          THEN [k |-> "ino"] @@ mem.made[CHOOSE id \in DOMAIN mem.made : mem.made[id].number = i].inode
          ELSE IF i <= Len(mem.lookup) THEN mem.lookup[i] ELSE Pad]

WriteInodeLookupTable ==
  /\ phase = "lookup" /\ phase' = "ids"
  /\ IF sBlk.exportable
     THEN \E table \in {LookupTable} : \E r \in {GenericWriteTable(img, mem.bytes, table)} :
          /\ img' = r.img
          /\ mem' = [mem EXCEPT !.bytes = r.bytes, !.lookup = table]
          /\ sBlk' = [sBlk EXCEPT !.lookup_table_start = r.start]
     ELSE sBlk' = [sBlk EXCEPT !.lookup_table_start = InvalidBlk] /\ UNCHANGED <<img, mem>>
  /\ UNCHANGED <<recovery, stack, saved, job, runs, crashes, want, target, old, flaws>>

WriteIdTable ==
  /\ phase = "ids" /\ phase' = "super"
  /\ LET r == GenericWriteTable(img, mem.bytes, [i \in 1..Len(mem.ids) |-> IdCell(mem.ids[i])]) IN
     /\ img' = r.img /\ mem' = [mem EXCEPT !.bytes = r.bytes]
     /\ sBlk' = [sBlk EXCEPT !.id_table_start = r.start, !.bytes_used = r.bytes]
  /\ UNCHANGED <<recovery, stack, saved, job, runs, crashes, want, target, old, flaws>>

\* From here on the image is the new one: until then the magic is not there.
WriteSuper ==
  /\ phase = "super" /\ phase' = "close"
  /\ img' = WriteDestination(img, 0, <<[k |-> "magic"], sBlk>>)
  /\ want' = target
  /\ UNCHANGED <<recovery, sBlk, mem, stack, saved, job, runs, crashes, target, old, flaws>>

\* The end of write_filesystem_tables: the padding, close, and unlink.
DeviceBlock == 4

\* The process is gone, and its memory with it.
Forget ==
  /\ sBlk' = EmptySuper /\ mem' = NoMem /\ stack' = <<>> /\ saved' = NotSaved
  /\ job' = [job EXCEPT !.plan = NoPlan] /\ target' = Bad

Close ==
  /\ phase = "close" /\ phase' = "exit"
  /\ LET padding == (DeviceBlock - (mem.bytes % DeviceBlock)) % DeviceBlock IN
     img' = WriteDestination(img, mem.bytes, [i \in 1..padding |-> Pad])
  /\ recovery' = NoFile /\ Forget
  /\ UNCHANGED <<runs, crashes, want, old, flaws>>

(***************************************************************************)
(* main, when the destination is a filesystem already.                     *)
(***************************************************************************)
Aligned(r) == LET end == r.root.offset + r.root.file_size - 3 IN end > 0 /\ end % Meta = 0

\* The entries the root directory starts with: those it has, or the old root
\* directory under the name given to -root-becomes.
OldEntries(j, r, sb) ==
  IF j.mode = "becomes"
  THEN <<[name |-> j.name, node |-> [type |-> "old", inode |-> sb.root_inode, number |-> r.root.number,
                                     dtype |-> "dir", view |-> want]]>>
  ELSE [i \in 1..Len(r.list) |->
          [name |-> r.list[i].name,
           node |-> [type |-> "old", inode |-> r.list[i].inode, number |-> r.list[i].number,
                     dtype |-> r.list[i].type, view |-> want.list[i].node]]]

\* What restorefs returns to: the root inode is the last one of the inode
\* table, its listing the last one of the directory table.
SavedState(r, sb) ==
  LET size == r.root.offset + r.root.file_size - 3
      compressed == (size \div Meta) * Meta IN
  [aligned |-> Aligned(r), bytes |-> sb.inode_table_start, count |-> sb.inodes,
   fragments |-> Len(r.frags), no_ids |-> Len(r.ids),
   itab |-> [out |-> r.inode_table, cache |-> r.data_cache],
   dtab |-> [out |-> r.directory_table, cache |-> SubSeq(r.directory_data_cache, compressed + 1, size)]]

\* The tables without the root directory, or with it when it stays.
AppendState(j, r, sb) ==
  LET s == SavedState(r, sb) IN
  [bytes |-> s.bytes, ids |-> [i \in 1..Len(r.ids) |-> r.ids[i].id], frags |-> r.frags, lookup |-> r.lookup,
   made |-> <<>>, count |-> r.count + (IF j.mode = "becomes" THEN 1 ELSE 0),
   itab |-> IF j.mode = "becomes" THEN s.itab
            ELSE [s.itab EXCEPT !.cache = SubSeq(@, 1, sb.root_inode.off)],
   dtab |-> IF j.mode = "becomes" THEN s.dtab
            ELSE [out |-> SubSeq(r.directory_table, 1, r.root.start_block),
                  cache |-> SubSeq(r.directory_data_cache, 1, r.root.offset)]]

\* Up to write_recovery_data and the passes before dir_scan7.  The names of
\* the sources are not in the root directory yet (SourceTree models how
\* clashing names are made different).
AppendTo(j) ==
  /\ phase = "exit" /\ runs < MaxAppends /\ flaws = {}
  /\ \E sb \in {Super(img)}, r \in {ReadFilesystem(img, j.mode = "append")} :
     /\ r # Bad
     /\ \E oldl \in {OldEntries(j, r, sb)} :
        /\ \A a \in Range(oldl), b \in Range(j.tree.list) : a.name # b.name
        /\ \E root \in {[j.tree EXCEPT !.list = MergeEntries(oldl, @)]} :
           \E plan \in {Plan(root, sb.inodes + (IF j.mode = "becomes" THEN 2 ELSE 1),
                             IF j.mode = "becomes" THEN r.root.parent ELSE r.root.number)} :
           /\ job' = [mode |-> j.mode, plan |-> plan]
           /\ stack' = <<Frame(root)>>
           /\ target' = Shown(root, plan, plan.next)
     /\ sBlk' = sb /\ saved' = SavedState(r, sb) /\ mem' = AppendState(j, r, sb)
     /\ recovery' = [sb |-> sb, meta |-> SubSeq(img, sb.inode_table_start + 1, sb.bytes_used)]
     /\ flaws' = IF Aligned(r) /\ j.mode = "becomes" THEN {"aligned"} ELSE {}
  /\ old' = want /\ runs' = runs + 1 /\ phase' = "ready"
  /\ UNCHANGED <<img, crashes, want>>

\* Mutant of StartWriting: the old magic stays while the image is overwritten.
StartWritingKeepMagic ==
  /\ phase = "ready" /\ phase' = "scan7"
  /\ UNCHANGED <<img, recovery, sBlk, mem, stack, saved, job, runs, crashes, want, target, old, flaws>>

\* dir_scan starts the restore thread and then takes the magic away.
StartWriting ==
  /\ phase = "ready" /\ phase' = "scan7"
  /\ img' = WriteDestination(img, 0, <<Pad>>)
  /\ UNCHANGED <<recovery, sBlk, mem, stack, saved, job, runs, crashes, want, target, old, flaws>>

(***************************************************************************)
(* prep_exit: a fatal error, or a signal.                                  *)
(***************************************************************************)
Writing == {"inodes", "dirs", "frags", "lookup", "ids", "super", "close"}

\* Without a restore thread: the destination goes when it was being created,
\* the recovery file when nothing was written yet.
ExitEarly ==
  /\ \/ /\ phase \in {"scan7"} \cup Writing /\ job.mode = "create"
        /\ phase' = "gone" /\ img' = <<>> /\ UNCHANGED recovery
     \/ /\ phase = "ready"
        /\ phase' = "exit" /\ recovery' = NoFile /\ UNCHANGED img
  /\ flaws' = {} /\ Forget
  /\ UNCHANGED <<runs, crashes, want, old>>

\* Mutant of Restorefs: id_count is not restored.
RestorefsKeepIds ==
  /\ phase \in {"scan7"} \cup Writing /\ job.mode \in {"append", "becomes"}
  /\ phase' = "inodes" /\ job' = [job EXCEPT !.mode = "restore"]
  /\ mem' = [mem EXCEPT !.bytes = saved.bytes, !.itab = saved.itab, !.dtab = saved.dtab,
                        !.count = saved.count,
                        !.frags = SubSeq(@, 1, saved.fragments)]
  /\ stack' = <<>>
  /\ target' = old
  /\ flaws' = (IF phase \in Writing THEN {"late"} ELSE {}) \cup IF saved.aligned THEN {"aligned"} ELSE {}
  /\ UNCHANGED <<img, recovery, sBlk, saved, runs, crashes, want, old>>

\* restore_thrd (the second SIGINT or SIGTERM, or the SIGUSR1 of prep_exit)
\* cancels the other threads and calls restorefs.
Restorefs ==
  /\ phase \in {"scan7"} \cup Writing /\ job.mode \in {"append", "becomes"}
  /\ phase' = "inodes" /\ job' = [job EXCEPT !.mode = "restore"]
  /\ mem' = [mem EXCEPT !.bytes = saved.bytes, !.itab = saved.itab, !.dtab = saved.dtab,
                        !.count = saved.count,
                        !.frags = SubSeq(@, 1, saved.fragments), !.ids = SubSeq(@, 1, saved.no_ids)]
  /\ stack' = <<>>
  /\ target' = old
  /\ flaws' = (IF phase \in Writing THEN {"late"} ELSE {}) \cup IF saved.aligned THEN {"aligned"} ELSE {}
  /\ UNCHANGED <<img, recovery, sBlk, saved, runs, crashes, want, old>>

(***************************************************************************)
(* The program or the machine dies; "mksquashfs dummy image -recover file" *)
(* is run then, and may die itself between its two writes.                 *)
(***************************************************************************)
Crash ==
  /\ crashes < MaxCrashes /\ phase \notin {"exit", "gone", "dead", "torn", "refused"}
  /\ crashes' = crashes + 1 /\ phase' = IF phase = "recovering" THEN "torn" ELSE "dead"
  /\ Forget
  /\ UNCHANGED <<img, recovery, runs, want, old, flaws>>

\* Mutant of Recover: the magic is compared too.
RecoverSameMagic ==
  /\ phase \in {"dead", "torn"} /\ recovery # NoFile
  /\ IF MagicOk(img) /\ Super(img) = recovery.sb
     THEN /\ phase' = "recovering"
          /\ img' = WriteDestination(img, 0, <<[k |-> "magic"], recovery.sb>>)
          /\ want' = old /\ flaws' = {}
     ELSE phase' = "refused" /\ UNCHANGED <<img, want, flaws>>
  /\ UNCHANGED <<recovery, sBlk, mem, stack, saved, job, runs, crashes, target, old>>

\* read_recovery_data up to the first write: the superblock, but for the
\* magic, must be the one that was saved.
Recover ==
  /\ phase \in {"dead", "torn"} /\ recovery # NoFile
  /\ IF Super(img) = recovery.sb
     THEN /\ phase' = "recovering"
          /\ img' = WriteDestination(img, 0, <<[k |-> "magic"], recovery.sb>>)
          /\ want' = old /\ flaws' = {}
     ELSE phase' = "refused" /\ UNCHANGED <<img, want, flaws>>
  /\ UNCHANGED <<recovery, sBlk, mem, stack, saved, job, runs, crashes, target, old>>

RecoverMetadata ==
  /\ phase = "recovering" /\ phase' = "exit"
  /\ img' = WriteDestination(img, recovery.sb.inode_table_start, recovery.meta)
  /\ UNCHANGED <<recovery, sBlk, mem, stack, saved, job, runs, crashes, want, target, old, flaws>>

Init ==
  /\ \E c \in Creates :
       LET root == c.tree
           plan == Plan(root, 1, 0) IN
       /\ job = [mode |-> "create", plan |-> plan]
       /\ stack = <<Frame(root)>>
       /\ target = Shown(root, plan, plan.next)
       /\ sBlk = [EmptySuper EXCEPT !.exportable = c.exportable]
  /\ img = <<>> /\ recovery = NoFile
  /\ mem = [bytes |-> SuperSize, itab |-> EmptyTable, dtab |-> EmptyTable, ids |-> <<>>, frags |-> <<>>,
            lookup |-> <<>>, made |-> <<>>, count |-> 0]
  /\ saved = NotSaved
  /\ phase = "scan7" /\ runs = 0 /\ crashes = 0
  /\ want = Bad /\ old = Bad /\ flaws = {}

Next ==
  \/ Scan7Old \/ Scan7File \/ Scan7Descend \/ Scan7Up
  \/ WriteInodes \/ WriteDirectories \/ WriteFragmentTable \/ WriteInodeLookupTable
  \/ WriteIdTable \/ WriteSuper \/ Close
  \/ \E j \in Jobs : AppendTo(j)
  \/ StartWriting \/ ExitEarly \/ Restorefs \/ Crash \/ Recover \/ RecoverMetadata

Spec == Init /\ [][Next]_vars

(***************************************************************************)
(* Properties.                                                             *)
(***************************************************************************)
RECURSIVE UnsquashSees(_)
UnsquashSees(v) ==
  [type |-> v.type, number |-> v.number, uid |-> v.uid, gid |-> v.gid, xattr |-> v.xattr, data |-> v.data,
   list |-> [i \in 1..Len(v.list) |-> [name |-> v.list[i].name, node |-> UnsquashSees(v.list[i].node)]]]

\* The kernel has no character device and no fifo with extended attributes:
\* it shows a block device and a socket.
RECURSIVE KernelSees(_)
KernelSees(v) ==
  [type |-> CASE v.xattr /\ v.type = "chr" -> "blk" [] v.xattr /\ v.type = "fifo" -> "sock"
              [] OTHER -> v.type,
   number |-> v.number, uid |-> v.uid, gid |-> v.gid, nlink |-> v.nlink, data |-> v.data, parent |-> v.parent,
   list |-> [i \in 1..Len(v.list) |-> [name |-> v.list[i].name, node |-> KernelSees(v.list[i].node)]]]

RECURSIVE Nodes(_)
Nodes(v) == {v} \cup UNION {Nodes(v.list[i].node) : i \in 1..Len(v.list)}

\* What a step that leaves the image in a state someone may read has to leave
\* behind is stated of the state after the step.

\* An image that has the magic is whole, whatever has happened to it: what
\* Unsquashfs extracts from it is exactly the tree of the last run that
\* wrote a superblock, or of the run that was undone.  (While the recovery
\* file is being written back the magic is there before the tables are.)
ValidMeansWhole ==
  [][MagicOk(img') /\ phase' \notin {"recovering", "torn"} /\ flaws' = {}
       => Unsquash(img', Depth) = UnsquashSees(want')]_vars

\* When Mksquashfs has exited, restored, recovered, or refused to recover,
\* there is a valid image: read_recovery_data refuses only a destination
\* that does not need it.
ExitsValid == phase \in {"exit", "refused"} => MagicOk(img)

\* When a run has written an image, the kernel lists every directory of it
\* completely and in order, whatever the number of entries it returns in one
\* call, finds every listed name through the directory index, shows the same
\* files as Unsquashfs, and finds no name that is not there.
KernelShows(im, view) ==
  /\ \A room \in {1, 100} : Kernel(im, room, Depth) = KernelSees(view)
  /\ LET root == ReadInode(im, Super(im), Super(im).root_inode) IN
     \A name \in AllNames \ {view.list[i].name : i \in 1..Len(view.list)} :
        KernelLookup(im, Super(im), root, name) = Bad
KernelTrue == [][phase = "close" /\ phase' = "exit" /\ flaws' = {} => KernelShows(img', want')]_vars

\* NFS: the lookup table gives for every inode number the inode that has it,
\* for the files of earlier runs too (write_inode_lookup_table).
Exports(im, sb, view) ==
  LET Found(number) == LET at == InodeLookup(im, sb, number) IN
                       IF at = Bad THEN Bad ELSE KernelView(im, sb, at, 100, Depth) IN
  /\ sb.inodes = Cardinality({v.number : v \in Nodes(view)})
  /\ \A v \in Nodes(view) : Found(v.number) = KernelSees(v)
ExportTrue ==
  [][phase = "close" /\ phase' = "exit" /\ flaws' = {} /\ Super(img').exportable
       => Exports(img', Super(img'), want')]_vars

\* An append finds the inodes and the entries that are there: the scan of the
\* inode table walks over every inode without losing step, and the listing
\* of the root directory is complete.
ReadsAll(r, sb) ==
  /\ r # Bad
  /\ r.count + 1 = sb.inodes
  /\ [i \in 1..Len(r.list) |-> <<r.list[i].name, r.list[i].number, r.list[i].type>>] =
     [i \in 1..Len(want.list) |-> <<want.list[i].name, want.list[i].node.number, want.list[i].node.type>>]
AppendReadsAll == phase = "exit" /\ flaws = {} => ReadsAll(ReadFilesystem(img, TRUE), Super(img))

\* restorefs puts back the very superblock and the very metadata, cell by
\* cell, that the run found.
RestoreExact ==
  phase = "close" /\ job.mode = "restore" /\ flaws = {} =>
    /\ Super(img) = recovery.sb
    /\ SubSeq(img, recovery.sb.inode_table_start + 1, recovery.sb.bytes_used) = recovery.meta

\* What "Exiting - restoring original filesystem!" promises, at any time.
RestoredIsOriginal ==
  phase = "exit" /\ job.mode = "restore" /\ "aligned" \notin flaws =>
    Unsquash(img, Depth) = UnsquashSees(old)

\* What -root-becomes promises: the old root is a subdirectory of the new one.
BecomesKeepsRoot ==
  phase = "exit" /\ job.mode = "becomes" => Unsquash(img, Depth) = UnsquashSees(want)
=============================================================================
