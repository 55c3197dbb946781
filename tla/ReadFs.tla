------------------------------- MODULE ReadFs -------------------------------
(***************************************************************************)
(* The three readers of a filesystem image: Mksquashfs when it appends     *)
(* (read_fs.c), Unsquashfs (unsquash-4.c, unsquashfs.c) and the kernel     *)
(* (kernel/fs/squashfs).  Each is an operator of the image; what Unsquashfs *)
(* and the kernel make of it is a view: the tree of files as they show it. *)
(* sb is the superblock.  Positions count from 0.                          *)
(***************************************************************************)
EXTENDS Metadata

Cell(cells, pos) == IF pos >= 0 /\ pos < Len(cells) THEN cells[pos + 1] ELSE [k |-> "eof"]
Bad == [type |-> "bad"]
Super(img) == Cell(img, 1)
MagicOk(img) == Cell(img, 0) = [k |-> "magic"]

\* Whether a whole metadata block is still there; when it is not, the
\* decompressor fails or returns something that is not what was stored.
Intact(img, start) ==
  LET h == Cell(img, start)
      b == Cell(img, start + 1) IN
  /\ h.k = "len" /\ b.k = "blk" /\ Mangle(b.cells).size = h.size
  /\ \A i \in 2..h.size : Cell(img, start + i) = Pad

\* read_block, the same function in read_fs.c and unsquashfs.c.
ReadBlock(img, start, expected) ==
  LET h == Cell(img, start)
      b == Cell(img, start + 1) IN
  IF \/ ~Intact(img, start) \/ h.size > (IF expected = 0 THEN Meta ELSE expected)
     \/ (expected # 0 /\ Len(b.cells) # expected)
  THEN [res |-> 0, cells |-> <<>>, next |-> start]
  ELSE [res |-> Len(b.cells), cells |-> b.cells, next |-> start + 1 + h.size]

\* A table with a list of block positions at start and length cells in all:
\* the common part of the readers of the id, fragment and lookup tables.  The
\* last block is checked against what is left, unless that is a full block.
ReadIndexed(img, start, length) ==
  LET n    == CeilDiv(length, Meta)
      Blk(i) == ReadBlock(img, Cell(img, start + i - 1).pos, IF i # n THEN Meta ELSE length % Meta)
      ok   == \A i \in 1..n : Cell(img, start + i - 1).k = "ptr" /\ Blk(i).res # 0 IN
  [ok |-> ok, cells |-> IF ok THEN FlattenSeq([i \in 1..n |-> Blk(i).cells]) ELSE <<>>]

\* read_id_table, read_uids_guids_4
ReadIdTable(img, sb) == ReadIndexed(img, sb.id_table_start, sb.no_ids)
\* read_fragment_table, read_fragment_table_4
ReadFragmentTable(img, sb) == ReadIndexed(img, sb.fragment_table_start, sb.fragments * FragmentSize)
\* read_inode_lookup_table
ReadInodeLookupTable(img, sb) ==
  IF ~sb.exportable THEN [ok |-> TRUE, cells |-> <<>>]
  ELSE ReadIndexed(img, sb.lookup_table_start, sb.inodes)

\* read_inode_table, read_directory_table and the first loop of
\* scan_inode_table: the blocks from start to end, one after the other; hash
\* holds where each block's cells are.
RECURSIVE LoadTable(_, _, _, _)
LoadTable(img, start, end, acc) ==
  IF start >= end THEN acc
  ELSE LET b == ReadBlock(img, start, 0) IN
       IF b.res = 0 \/ (b.next # end /\ b.res # Meta) THEN [acc EXCEPT !.ok = FALSE]
       ELSE LoadTable(img, b.next, end,
              [acc EXCEPT !.cells = @ \o b.cells, !.hash = @ \cup {<<start, Len(acc.cells)>>}])

NoTable == [ok |-> TRUE, cells |-> <<>>, hash |-> {}]

\* lookup_entry: -1 when no block starts there.
LookupEntry(hash, start) ==
  IF \E h \in hash : h[1] = start THEN (CHOOSE h \in hash : h[1] = start)[2] ELSE -1

(***************************************************************************)
(* A listing in memory: the loops of squashfs_readdir (read_fs.c) and      *)
(* squashfs_opendir_4.                                                     *)
(***************************************************************************)
RECURSIVE ListEntries(_, _, _, _)
ListEntries(cells, p, h, n) ==
  LET e    == Cell(cells, p)
      name == Cell(cells, p + EntrySize)
      rest == ListEntries(cells, p + EntrySize + e.size + 1, h, n - 1) IN
  IF n = 0 THEN [ok |-> TRUE, p |-> p, list |-> <<>>]
  ELSE IF e.k # "dire" \/ name.k # "name" THEN [ok |-> FALSE, p |-> p, list |-> <<>>]
  ELSE [rest EXCEPT !.list = <<[name |-> name.name, type |-> e.type,
                                inode |-> [blk |-> h.start_block, off |-> e.offset],
                                number |-> h.inode_number + e.delta]>> \o @]

RECURSIVE ParseListing(_, _, _)
ParseListing(cells, p, size) ==
  LET h    == Cell(cells, p)
      some == ListEntries(cells, p + HeaderSize, h, h.count + 1)
      rest == ParseListing(cells, some.p, size) IN
  IF p >= size THEN [ok |-> TRUE, list |-> <<>>]
  ELSE IF h.k # "dirh" \/ h.count >= MaxCount \/ ~some.ok THEN [ok |-> FALSE, list |-> <<>>]
  ELSE [ok |-> rest.ok, list |-> some.list \o rest.list]

(***************************************************************************)
(* Regular files: how many blocks the list has, and what they hold.        *)
(***************************************************************************)
NoFragment == -1
BlockCount(h) == IF h.fragment = NoFragment THEN CeilDiv(h.file_size, BlockSize)
                 ELSE h.file_size \div BlockSize

\* The data blocks from start on, a cell each, and the fragment's block.
FileData(img, start, list, frag) ==
  [i \in 1..Len(list) |-> IF list[i].k = "bl" THEN Cell(img, start + i - 1) ELSE Pad]
  \o IF frag.k = "frag" THEN <<Cell(img, frag.start_block)>> ELSE <<>>

BaseType(type) ==
  CASE type = "lreg" -> "reg" [] type = "ldir" -> "dir" [] type = "lsym" -> "sym"
    [] type = "lblk" -> "blk" [] type = "lchr" -> "chr" [] type = "lfifo" -> "fifo"
    [] type = "lsock" -> "sock" [] OTHER -> type

(***************************************************************************)
(* Unsquashfs.  u holds the tables that main has read.                     *)
(***************************************************************************)
UnsquashTables(img, sb) ==
  LET frags == ReadFragmentTable(img, sb)
      end   == IF sb.fragments = 0 THEN sb.fragment_table_start
               ELSE Cell(img, sb.fragment_table_start).pos IN
  [ids |-> ReadIdTable(img, sb), frags |-> frags,
   inodes |-> LoadTable(img, sb.inode_table_start, sb.directory_table_start, NoTable),
   dirs |-> IF frags.ok THEN LoadTable(img, sb.directory_table_start, end, NoTable)
            ELSE [NoTable EXCEPT !.ok = FALSE]]

\* read_inode_4: the header, and what the extraction reads behind it.
UnsquashInode(img, sb, u, inode) ==
  LET at   == LookupEntry(u.inodes.hash, sb.inode_table_start + inode.blk)
      p    == at + inode.off
      h    == Cell(u.inodes.cells, p)
      Behind(n) == [i \in 1..n |-> Cell(u.inodes.cells, p + InodeSize(h.type) + i - 1)]
      type == BaseType(h.type)
      frag == IF h.fragment = NoFragment THEN Pad ELSE Cell(u.frags.cells, h.fragment * FragmentSize) IN
  IF at = -1 \/ h.k # "inode" THEN Bad
  ELSE [type |-> type, number |-> h.number, uid |-> Cell(u.ids.cells, h.uid),
        gid |-> Cell(u.ids.cells, h.gid),
        xattr |-> IF h.type = "lsym" THEN Behind(h.symlink_size + 1)[h.symlink_size + 1].k = "xattr"
                  ELSE h.xattr,
        data |-> CASE type = "reg" -> FileData(img, h.start_block, Behind(BlockCount(h)), frag)
                   [] type = "sym" -> Behind(h.symlink_size)
                   [] type \in {"blk", "chr"} -> <<h.rdev>>
                   [] OTHER -> <<>>,
        dir |-> IF type = "dir" THEN [start |-> h.start_block, offset |-> h.offset, size |-> h.file_size]
                ELSE <<>>]

\* squashfs_opendir_4: an empty directory has no block to look up.
UnsquashDir(sb, u, i) ==
  LET at == LookupEntry(u.dirs.hash, sb.directory_table_start + i.dir.start) IN
  IF i.dir.size = 3 THEN [ok |-> TRUE, list |-> <<>>]
  ELSE IF at = -1 THEN [ok |-> FALSE, list |-> <<>>]
  ELSE ParseListing(u.dirs.cells, at + i.dir.offset, at + i.dir.offset + i.dir.size - 3)

\* dir_scan: the tree below an inode; depth bounds the recursion.
RECURSIVE UnsquashView(_, _, _, _, _)
UnsquashView(img, sb, u, inode, depth) ==
  LET i == UnsquashInode(img, sb, u, inode)
      l == UnsquashDir(sb, u, i) IN
  IF i = Bad \/ depth = 0 THEN Bad
  ELSE IF i.type = "dir" /\ ~l.ok THEN Bad
  ELSE [type |-> i.type, number |-> i.number, uid |-> i.uid, gid |-> i.gid,
        xattr |-> i.xattr, data |-> i.data,
        list |-> IF i.type # "dir" THEN <<>>
                 ELSE [n \in 1..Len(l.list) |->
                         [name |-> l.list[n].name,
                          node |-> UnsquashView(img, sb, u, l.list[n].inode, depth - 1)]]]

Unsquash(img, depth) ==
  LET sb == Super(img)
      u  == UnsquashTables(img, sb) IN
  IF ~MagicOk(img) \/ sb.k # "super" THEN Bad
  ELSE IF ~(u.ids.ok /\ u.frags.ok /\ u.inodes.ok /\ u.dirs.ok) THEN Bad
  ELSE UnsquashView(img, sb, u, sb.root_inode, depth)
(***************************************************************************)
(* Mksquashfs, appending (read_fs.c).                                      *)
(***************************************************************************)

\* The end of an extended directory's index of n entries that starts at p.
RECURSIVE IndexEnd(_, _, _)
IndexEnd(cells, p, n) ==
  IF n = 0 THEN p
  ELSE IF Cell(cells, p).k # "index" THEN -1
  ELSE IndexEnd(cells, p + IndexSize + Cell(cells, p).size + 1, n - 1)

\* Mutant of InodeEnd: the attribute index behind the text of an extended
\* link is not skipped.
InodeEndShortLink(cells, p) ==
  LET h == Cell(cells, p)
      q == p + InodeSize(h.type) IN
  CASE h.type \in {"reg", "lreg"} -> q + BlockCount(h)
    [] h.type \in {"sym", "lsym"} -> q + h.symlink_size
    [] h.type = "ldir" -> IndexEnd(cells, q, h.i_count)
    [] OTHER -> q

\* The cases of scan_inode_table: where the inode at p ends.
InodeEnd(cells, p) ==
  LET h == Cell(cells, p)
      q == p + InodeSize(h.type) IN
  CASE h.type \in {"reg", "lreg"} -> q + BlockCount(h)
    [] h.type = "sym" -> q + h.symlink_size
    [] h.type = "lsym" -> q + h.symlink_size + 1
    [] h.type = "ldir" -> IndexEnd(cells, q, h.i_count)
    [] OTHER -> q

\* NO_BYTES: the header and what is behind it must fit, each by itself.
NoBytes(cells, p, bytes) ==
  LET h    == Cell(cells, p)
      size == InodeSize(h.type)
      end  == InodeEnd(cells, p) IN
  \/ bytes - p < size
  \/ IF h.type = "ldir" THEN end = -1 \/ end > bytes ELSE bytes - p < end - p - size

\* The inodes in front of the root inode, which is the last one: how many
\* there are, -1 when the table is found to be corrupted.
RECURSIVE CountInodes(_, _, _, _)
CountInodes(cells, p, bytes, sb) ==
  LET h    == Cell(cells, p)
      rest == CountInodes(cells, InodeEnd(cells, p), bytes, sb) IN
  IF p >= bytes THEN 0
  ELSE IF h.k # "inode" THEN -1
  ELSE IF \/ NoBytes(cells, p, bytes)
          \/ (BaseType(h.type) = "reg" /\ h.fragment # NoFragment /\ h.fragment >= sb.fragments) THEN -1
  ELSE IF rest = -1 THEN -1 ELSE 1 + rest

\* scan_inode_table
ScanInodeTable(img, sb) ==
  LET t     == LoadTable(img, sb.inode_table_start, sb.directory_table_start, NoTable)
      block == LookupEntry(t.hash, sb.inode_table_start + sb.root_inode.blk)
      root  == block + sb.root_inode.off
      h     == Cell(t.cells, root)
      n     == CountInodes(t.cells, 0, root, sb) IN
  IF ~t.ok \/ block = -1 \/ Len(t.cells) - block < sb.root_inode.off + InodeSize("dir") THEN Bad
  ELSE IF h.k # "inode" \/ h.type \notin {"dir", "ldir"} \/ n = -1 THEN Bad
  ELSE [type |-> "ok", root |-> h, count |-> n,
        data_cache |-> SubSeq(t.cells, block + 1, Len(t.cells))]

\* squashfs_readdir: the blocks the root directory's listing is in.
RECURSIVE ListingBlocks(_, _, _, _)
ListingBlocks(img, start, size, acc) ==
  LET left == size - Len(acc.cells)
      b    == ReadBlock(img, start, IF left >= Meta THEN Meta ELSE 0) IN
  IF left <= 0 THEN acc
  ELSE IF b.res = 0 THEN [acc EXCEPT !.ok = FALSE]
  ELSE ListingBlocks(img, b.next, size, [acc EXCEPT !.cells = @ \o b.cells, !.last = start])

\* read_filesystem: what main needs to go on from.  root_entries is FALSE
\* with -root-becomes; size is the end of the root directory's listing in
\* the blocks that are read for it.
FromRoot(img, sb, scan, size, dir, root_entries) ==
  IF ~dir.ok THEN Bad
  ELSE [root |-> scan.root, count |-> scan.count, data_cache |-> scan.data_cache,
        inode_table |-> SubSeq(img, sb.inode_table_start + 1, sb.inode_table_start + sb.root_inode.blk),
        directory_table |-> SubSeq(img, sb.directory_table_start + 1, dir.last),
        directory_data_cache |-> SubSeq(dir.cells, 1, size),
        list |-> IF root_entries THEN ParseListing(dir.cells, scan.root.offset, size).list ELSE <<>>]

ReadRoot(img, sb, scan, root_entries) ==
  LET size  == scan.root.offset + scan.root.file_size - 3
      start == sb.directory_table_start + scan.root.start_block IN
  IF scan = Bad THEN Bad
  ELSE FromRoot(img, sb, scan, size,
                ListingBlocks(img, start, size, [ok |-> TRUE, cells |-> <<>>, last |-> start]), root_entries)

WithTables(r, frags, look, ids) ==
  IF ~(frags.ok /\ look.ok /\ ids.ok) \/ r = Bad THEN Bad
  ELSE r @@ [type |-> "ok", ids |-> ids.cells, frags |-> frags.cells, lookup |-> look.cells]

ReadFilesystem(img, root_entries) ==
  LET sb == Super(img) IN
  IF ~MagicOk(img) THEN Bad
  ELSE WithTables(ReadRoot(img, sb, ScanInodeTable(img, sb), root_entries),
                  ReadFragmentTable(img, sb), ReadInodeLookupTable(img, sb), ReadIdTable(img, sb))
=============================================================================
