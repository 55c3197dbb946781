------------------------------ MODULE KernelFs ------------------------------
(***************************************************************************)
(* How the kernel reads the metadata of an image (kernel/fs/squashfs):     *)
(* everything goes through squashfs_read_metadata, a cursor over the       *)
(* blocks of a table, and through the lists of block positions read when   *)
(* the filesystem is mounted.  The block cache is KernelCache's: here a    *)
(* block that is asked for is read from the image.                         *)
(***************************************************************************)
EXTENDS ReadFs

\* squashfs_read_metadata: length cells from <<block, offset>>, and the
\* cursor behind them.
RECURSIVE ReadMetadata(_, _, _)
ReadMetadata(img, cur, length) ==
  LET entry == ReadBlock(img, cur.block, 0)
      bytes == IF length < entry.res - cur.offset THEN length ELSE entry.res - cur.offset
      next  == IF cur.offset + bytes = entry.res THEN [block |-> entry.next, offset |-> 0]
               ELSE [cur EXCEPT !.offset = @ + bytes]
      rest  == ReadMetadata(img, next, length - bytes) IN
  IF length = 0 THEN [ok |-> TRUE, cells |-> <<>>, cur |-> cur]
  ELSE IF entry.res = 0 \/ cur.offset >= entry.res THEN [ok |-> FALSE, cells |-> <<Pad>>, cur |-> cur]
  ELSE [rest EXCEPT !.cells = SubSeq(entry.cells, cur.offset + 1, cur.offset + bytes) \o @]

\* The first cell of a structure of that kind, Bad when there is none.
Field(r, kind) == IF r.ok /\ Cell(r.cells, 0).k = kind THEN r.cells[1] ELSE Bad

\* An element of a table with a list of positions: squashfs_get_id,
\* squashfs_frag_lookup and squashfs_inode_lookup all go this way.
TableEntry(img, start, index, size, kind) ==
  LET p == Cell(img, start + (index * size) \div Meta) IN
  IF p.k # "ptr" THEN Bad
  ELSE Field(ReadMetadata(img, [block |-> p.pos, offset |-> (index * size) % Meta], size), kind)

GetIdKernel(img, sb, index) == TableEntry(img, sb.id_table_start, index, 1, "id")
FragLookup(img, sb, fragment) == TableEntry(img, sb.fragment_table_start, fragment, FragmentSize, "frag")
InodeLookup(img, sb, number) == TableEntry(img, sb.lookup_table_start, number - 1, 1, "ino")

\* The structure the kernel reads for a type: it has no extended device or
\* ipc inode.
KernelSize(type) ==
  CASE type \in {"lblk", "lchr"} -> InodeSize("blk")
    [] type \in {"lfifo", "lsock"} -> InodeSize("fifo")
    [] type = "lsym" -> InodeSize("sym")
    [] OTHER -> InodeSize(type)

\* The file type squashfs_read_inode sets in i_mode.
KernelType(type) ==
  CASE type \in {"reg", "lreg"} -> "reg" [] type \in {"dir", "ldir"} -> "dir"
    [] type \in {"sym", "lsym"} -> "sym"
    [] type \in {"blk", "chr", "lblk", "lchr"} -> IF type = "chr" THEN "chr" ELSE "blk"
    [] OTHER -> IF type = "fifo" THEN "fifo" ELSE "sock"

\* squashfs_read_inode and squashfs_new_inode, with the data read through it:
\* the block list (file.c), the text of a link (squashfs_symlink_readpage).
ReadInode(img, sb, inode) ==
  LET start == [block |-> sb.inode_table_start + inode.blk, offset |-> inode.off]
      base  == Field(ReadMetadata(img, start, 1), "inode")
      whole == ReadMetadata(img, start, KernelSize(base.type))
      Next(n) == ReadMetadata(img, whole.cur, n)
      frag  == IF base.fragment = NoFragment THEN Pad ELSE FragLookup(img, sb, base.fragment) IN
  IF base = Bad THEN Bad
  ELSE IF ~whole.ok THEN Bad
  ELSE [type |-> KernelType(base.type), number |-> base.number,
        uid |-> GetIdKernel(img, sb, base.uid), gid |-> GetIdKernel(img, sb, base.gid),
        nlink |-> IF base.type = "reg" THEN 1 ELSE base.nlink,
        data |-> CASE base.type \in {"reg", "lreg"} ->
                        FileData(img, base.start_block, Next(BlockCount(base)).cells, frag)
                   [] base.type \in {"sym", "lsym"} -> Next(base.symlink_size).cells
                   [] base.type \in {"blk", "chr", "lblk", "lchr"} -> <<base.rdev>>
                   [] OTHER -> <<>>,
        dir |-> IF base.type \notin {"dir", "ldir"} THEN <<>>
                ELSE [block |-> sb.directory_table_start + base.start_block, offset |-> base.offset,
                      i_size |-> base.file_size, parent |-> base.parent,
                      idx |-> whole.cur, idx_cnt |-> IF base.type = "dir" THEN 0 ELSE base.i_count]]

(***************************************************************************)
(* The directory index: get_dir_index_using_offset and                     *)
(* get_dir_index_using_name.  They stop at the first entry of the index    *)
(* that lies behind what is looked for.                                    *)
(***************************************************************************)
Behind(index, first, key) ==
  IF key.by = "offset" THEN index > key.f_pos ELSE first > key.name

RECURSIVE DirIndex(_, _, _, _, _, _)
DirIndex(img, sb, cur, count, key, found) ==
  LET r == ReadMetadata(img, cur, IndexSize)
      x == Field(r, "index")
      s == ReadMetadata(img, r.cur, x.size + 1)
      n == Field(s, "name") IN
  IF count = 0 THEN found
  ELSE IF x = Bad THEN found
  ELSE IF n = Bad THEN found
  ELSE IF Behind(x.index, n.name, key) THEN found
  ELSE DirIndex(img, sb, s.cur, count - 1, key,
                [length |-> x.index, block |-> sb.directory_table_start + x.start_block])

\* Where to start reading the listing, length as the external f_pos: 3 more
\* than the offset in the listing, for the entries "." and "..".
IndexStart(img, sb, d, key) ==
  LET f == DirIndex(img, sb, d.idx, d.idx_cnt, key, [length |-> 0, block |-> d.block]) IN
  [cur |-> [block |-> f.block, offset |-> (f.length + d.offset) % Meta], length |-> f.length + 3]

GetDirIndexUsingOffset(img, sb, d, f_pos) == IndexStart(img, sb, d, [by |-> "offset", f_pos |-> f_pos - 3])
GetDirIndexUsingName(img, sb, d, name) == IndexStart(img, sb, d, [by |-> "name", name |-> name])

\* One directory entry at the cursor, h being its header.
NextEntry(img, s, h) ==
  LET r == ReadMetadata(img, s.cur, EntrySize)
      e == Field(r, "dire")
      t == ReadMetadata(img, r.cur, e.size + 1)
      n == Field(t, "name") IN
  IF e = Bad THEN [ok |-> FALSE]
  ELSE IF n = Bad THEN [ok |-> FALSE]
  ELSE [ok |-> TRUE, cur |-> t.cur, length |-> s.length + EntrySize + e.size + 1, name |-> n.name,
        number |-> h.inode_number + e.delta, type |-> e.type,
        inode |-> [blk |-> h.start_block, off |-> e.offset]]

(***************************************************************************)
(* squashfs_readdir.  room is how many entries filldir takes before it     *)
(* refuses one; s is [cur, length, f_pos, list, room].                     *)
(***************************************************************************)
RECURSIVE ReaddirEntries(_, _, _, _)
ReaddirEntries(img, s, h, n) ==
  LET e  == NextEntry(img, s, h)
      s1 == [s EXCEPT !.cur = e.cur, !.length = e.length] IN
  IF n = 0 THEN [s |-> s, go |-> TRUE]
  ELSE IF ~e.ok THEN [s |-> s, go |-> FALSE]
  ELSE IF s.f_pos >= e.length THEN ReaddirEntries(img, s1, h, n - 1)
  ELSE IF s.room = 0 THEN [s |-> s, go |-> FALSE]
  ELSE ReaddirEntries(img, [s1 EXCEPT !.f_pos = e.length, !.room = @ - 1,
                                      !.list = Append(@, [name |-> e.name, number |-> e.number])], h, n - 1)

RECURSIVE ReaddirHeaders(_, _, _)
ReaddirHeaders(img, d, s) ==
  LET r == ReadMetadata(img, s.cur, HeaderSize)
      h == Field(r, "dirh")
      e == ReaddirEntries(img, [s EXCEPT !.cur = r.cur, !.length = @ + HeaderSize], h, h.count + 1) IN
  IF s.length >= d.i_size THEN s
  ELSE IF h = Bad THEN s
  ELSE IF e.go THEN ReaddirHeaders(img, d, e.s) ELSE e.s

\* "." and ".." are made up, at f_pos 0 and 1; their names are -2 and -1.
Dots(i, f_pos, room) ==
  LET dots == SubSeq(<<[name |-> -2, number |-> i.number], [name |-> -1, number |-> i.dir.parent]>>,
                     f_pos + 1, IF f_pos + room < 2 THEN f_pos + room ELSE 2) IN
  IF f_pos >= 3 THEN [list |-> <<>>, f_pos |-> f_pos]
  ELSE [list |-> dots, f_pos |-> IF f_pos + Len(dots) = 2 THEN 3 ELSE f_pos + Len(dots)]

Readdir(img, sb, i, f_pos, room) ==
  LET dots == Dots(i, f_pos, room)
      ix   == GetDirIndexUsingOffset(img, sb, i.dir, dots.f_pos) IN
  IF dots.f_pos < 3 THEN dots
  ELSE ReaddirHeaders(img, i.dir, [cur |-> ix.cur, length |-> ix.length, f_pos |-> dots.f_pos,
                                   list |-> dots.list, room |-> room - Len(dots.list)])

\* A whole listing, in calls that return at most room entries each.
RECURSIVE ReaddirAll(_, _, _, _, _)
ReaddirAll(img, sb, i, f_pos, room) ==
  LET r == Readdir(img, sb, i, f_pos, room) IN
  IF r.list = <<>> THEN <<>> ELSE r.list \o ReaddirAll(img, sb, i, r.f_pos, room)

(***************************************************************************)
(* squashfs_lookup: the entry with that name, Bad when there is none.      *)
(***************************************************************************)
RECURSIVE LookupEntries(_, _, _, _, _)
LookupEntries(img, s, h, n, name) ==
  LET e == NextEntry(img, s, h) IN
  IF n = 0 THEN [s |-> s, go |-> TRUE, found |-> Bad]
  ELSE IF ~e.ok \/ FirstChar(name) < FirstChar(e.name) THEN [s |-> s, go |-> FALSE, found |-> Bad]
  ELSE IF e.name = name THEN [s |-> s, go |-> FALSE, found |-> e]
  ELSE LookupEntries(img, [cur |-> e.cur, length |-> e.length], h, n - 1, name)

RECURSIVE LookupHeaders(_, _, _, _)
LookupHeaders(img, d, s, name) ==
  LET r == ReadMetadata(img, s.cur, HeaderSize)
      h == Field(r, "dirh")
      e == LookupEntries(img, [cur |-> r.cur, length |-> s.length + HeaderSize], h, h.count + 1, name) IN
  IF s.length >= d.i_size THEN Bad
  ELSE IF h = Bad THEN Bad
  ELSE IF e.go THEN LookupHeaders(img, d, e.s, name) ELSE e.found

KernelLookup(img, sb, i, name) ==
  LookupHeaders(img, i.dir, GetDirIndexUsingName(img, sb, i.dir, name), name)

(***************************************************************************)
(* The mounted filesystem: every directory listed, every name looked up.   *)
(***************************************************************************)
RECURSIVE KernelView(_, _, _, _, _)
KernelView(img, sb, inode, room, depth) ==
  LET i    == ReadInode(img, sb, inode)
      all  == ReaddirAll(img, sb, i, 0, room)
      list == SubSeq(all, 3, Len(all))
      Node(e) == LET l == KernelLookup(img, sb, i, e.name) IN
                 IF l = Bad THEN Bad
                 ELSE IF l.number # e.number THEN Bad
                 ELSE KernelView(img, sb, l.inode, room, depth - 1) IN
  IF i = Bad \/ depth = 0 THEN Bad
  ELSE [type |-> i.type, number |-> i.number, uid |-> i.uid, gid |-> i.gid,
        nlink |-> i.nlink, data |-> i.data,
        parent |-> IF i.type = "dir" THEN i.dir.parent ELSE 0,
        list |-> IF i.type # "dir" THEN <<>>
                 ELSE [n \in 1..Len(list) |-> [name |-> list[n].name, node |-> Node(list[n])]]]

\* squashfs_fill_super, up to the root.
Kernel(img, room, depth) ==
  IF ~MagicOk(img) \/ Super(img).k # "super" THEN Bad
  ELSE KernelView(img, Super(img), Super(img).root_inode, room, depth)
=============================================================================
