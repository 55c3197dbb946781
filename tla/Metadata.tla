------------------------------ MODULE Metadata ------------------------------
(***************************************************************************)
(* How Mksquashfs packs inodes, directory listings and lookup tables into  *)
(* metadata blocks (mksquashfs.c).  A byte is a cell.  A C structure is a  *)
(* cell that holds its fields, followed by padding cells up to its size,   *)
(* so that a reader that looks one cell away from it finds something else. *)
(* The destination is a sequence of cells, written and overwritten in      *)
(* place.  Sizes are scaled down with the metadata block: they keep the    *)
(* order of the C sizes, and every structure is smaller than a block.      *)
(***************************************************************************)
EXTENDS Integers, Sequences, FiniteSets, SequencesExt, TLC

CONSTANTS Meta,      \* SQUASHFS_METADATA_SIZE
          MaxCount,  \* entries under one directory header (256)
          MaxDelta,  \* largest inode number difference in an entry (32767)
          LdirCount, \* entries from which a directory is an extended one (257)
          BlockSize  \* size of a data block

ASSUME SizesAssumption ==
  /\ Meta \in Nat /\ Meta >= 4 /\ MaxCount \in Nat \ {0} /\ MaxDelta \in Nat
  /\ LdirCount = MaxCount + 1 /\ BlockSize \in Nat \ {0}

Pad == [k |-> "pad"]
Struct(rec, size) == <<rec>> \o [i \in 1..(size - 1) |-> Pad]
Chunk(cells, i) == SubSeq(cells, (i - 1) * Meta + 1, IF i * Meta < Len(cells) THEN i * Meta ELSE Len(cells))
CeilDiv(a, b) == (a + b - 1) \div b

\* Sizes of the on-disk structures.  A name is a number: half of it orders
\* the first characters, its parity makes it one or two characters long.
HeaderSize == 2
EntrySize == 1
IndexSize == 2
NameLen(name) == 1 + (name % 2)
FirstChar(name) == name \div 2
NameCells(name) == Struct([k |-> "name", name |-> name], NameLen(name))
SuperSize == 2
FragmentSize == 2

\* struct squashfs_*_inode_header
InodeSize(type) ==
  CASE type \in {"reg", "dir"} -> 3
    [] type \in {"lreg", "ldir"} -> 4
    [] type \in {"sym", "lsym", "blk", "chr", "lfifo", "lsock"} -> 2
    [] type \in {"lblk", "lchr"} -> 3
    [] type \in {"fifo", "sock"} -> 1

(***************************************************************************)
(* The destination.                                                        *)
(***************************************************************************)

\* write_destination
WriteDestination(img, byte, cells) ==
  [i \in 1..(IF byte + Len(cells) > Len(img) THEN byte + Len(cells) ELSE Len(img)) |->
     IF i > byte /\ i <= byte + Len(cells) THEN cells[i - byte]
     ELSE IF i <= Len(img) THEN img[i] ELSE Pad]

\* The compressor squeezes the padding out.  External to the code.
Compress(cells) == Len(SelectSeq(cells, LAMBDA c : c # Pad))

\* mangle2: a block that does not get smaller is stored as it is.
Mangle(cells) ==
  LET c == Compress(cells) IN
  IF c = 0 \/ c >= Len(cells) THEN [size |-> Len(cells), compressed |-> FALSE]
  ELSE [size |-> c, compressed |-> TRUE]

\* A metadata block on disk: its length (BLOCK_OFFSET is one cell), then the
\* compressed cells, of which the first one stands for the contents.
MetaBlock(cells) ==
  LET c == Mangle(cells) IN
  <<[k |-> "len", size |-> c.size]>> \o Struct([k |-> "blk", cells |-> cells], c.size)

(***************************************************************************)
(* A table under construction: out is what is compressed (inode_table up   *)
(* to inode_bytes, directory_table up to directory_bytes), cache is what   *)
(* is not yet (data_cache up to cache_bytes, directory_data_cache).        *)
(***************************************************************************)
EmptyTable == [out |-> <<>>, cache |-> <<>>]

FlushOne(t) == [out |-> t.out \o MetaBlock(SubSeq(t.cache, 1, Meta)),
                cache |-> SubSeq(t.cache, Meta + 1, Len(t.cache))]

RECURSIVE FlushFull(_)
FlushFull(t) == IF Len(t.cache) >= Meta THEN FlushFull(FlushOne(t)) ELSE t

\* get_inode and MKINODE: full blocks leave the cache before the new inode is
\* placed in it, so that its offset is one inside a block.
GetInode(t, cells) ==
  LET f == FlushFull(t) IN
  [table |-> [f EXCEPT !.cache = @ \o cells],
   inode |-> [blk |-> Len(f.out), off |-> Len(f.cache)]]

\* write_inodes, write_directories: whatever is left in the cache.
RECURSIVE FlushAll(_)
FlushAll(t) ==
  IF t.cache = <<>> THEN t
  ELSE LET n == IF Len(t.cache) > Meta THEN Meta ELSE Len(t.cache) IN
       FlushAll([out |-> t.out \o MetaBlock(SubSeq(t.cache, 1, n)),
                 cache |-> SubSeq(t.cache, n + 1, Len(t.cache))])

\* generic_write_table: the blocks, then the list of their positions, where
\* the table is said to start.
GenericWriteTable(img, bytes, cells) ==
  LET n      == CeilDiv(Len(cells), Meta)
      blocks == [i \in 1..n |-> MetaBlock(Chunk(cells, i))]
      start  == [i \in 1..(n + 1) |-> bytes + Len(FlattenSeq(SubSeq(blocks, 1, i - 1)))]
      list   == [i \in 1..n |-> [k |-> "ptr", pos |-> start[i]]] IN
  [img |-> WriteDestination(img, bytes, FlattenSeq(blocks) \o list),
   start |-> start[n + 1], bytes |-> start[n + 1] + n]

(***************************************************************************)
(* Ids: create_id appends, get_id finds.                                   *)
(***************************************************************************)
GetId(ids, id) == IF \E i \in 1..Len(ids) : ids[i] = id THEN ids ELSE Append(ids, id)
IdIndex(ids, id) == (CHOOSE i \in 1..Len(ids) : ids[i] = id) - 1

(***************************************************************************)
(* Directory listings (add_dir, write_dir).                                *)
(***************************************************************************)

\* scan7_init_dir: entry_count_p = 0 is NULL, and a full header makes the
\* first entry open a new one.
InitDir == [buff |-> <<>>, entry_count |-> MaxCount, entry_count_p |-> 0,
            start_block |-> 0, inode_number |-> 0, index_count_p |-> 0, index |-> <<>>]

\* The header the entries since entry_count_p belong to is filled in.
CloseHeader(dir) ==
  IF dir.entry_count_p = 0 THEN dir
  ELSE [dir EXCEPT !.buff[dir.entry_count_p] =
          [k |-> "dirh", count |-> dir.entry_count - 1, start_block |-> dir.start_block,
           inode_number |-> dir.inode_number]]

\* An entry needs a header of its own when the open one cannot describe it.
NewHeader(dir, inode, number, over) ==
  \/ dir.entry_count = MaxCount \/ inode.blk # dir.start_block \/ over
  \/ number - dir.inode_number > MaxDelta \/ number - dir.inode_number < -MaxDelta - 1

AddDir(dir, inode, number, name, type) ==
  LET p     == Len(dir.buff)
      over  == /\ dir.entry_count_p # 0
               /\ p + EntrySize + NameLen(name) - dir.index_count_p > Meta
      d1    == CloseHeader(IF ~over THEN dir
                 ELSE [dir EXCEPT !.index = Append(@, [index |-> p, name |-> name, start_block |-> 0]),
                                  !.index_count_p = p])
      d2    == IF ~NewHeader(dir, inode, number, over) THEN dir
               ELSE [d1 EXCEPT !.entry_count_p = p + 1, !.start_block = inode.blk,
                               !.entry_count = 0, !.inode_number = number,
                               !.buff = @ \o Struct([k |-> "dirh"], HeaderSize)] IN
  [d2 EXCEPT !.buff = @ \o Struct([k |-> "dire", offset |-> inode.off, type |-> type,
                                   size |-> NameLen(name) - 1,
                                   delta |-> number - d2.inode_number], EntrySize)
                        \o NameCells(name),
             !.entry_count = @ + 1]

\* Mutant of IndexBlocks: every index entry gets the block the listing starts in.
IndexBlocksFirst(t, index, limit, n) ==
  [table |-> FlushFull(t), index |-> [i \in 1..Len(index) |-> [index[i] EXCEPT !.start_block = Len(t.out)]]]

\* The loop of write_dir: each index entry gets the position of the block
\* its header is in, as the blocks of the listing are compressed.
RECURSIVE IndexBlocks(_, _, _, _)
IndexBlocks(t, index, limit, n) ==
  LET here == {i \in 1..Len(index) : i > n /\ index[i].index < limit}
      set  == [i \in 1..Len(index) |->
                 IF i \in here THEN [index[i] EXCEPT !.start_block = Len(t.out)] ELSE index[i]] IN
  IF Len(t.cache) < Meta THEN [table |-> t, index |-> set]
  ELSE IndexBlocks(FlushOne(t), set, limit + Meta, n + Cardinality(here))

\* write_dir, up to the call of create_inode.
WriteDir(t, dir) ==
  LET d == CloseHeader(dir)
      r == IndexBlocks([t EXCEPT !.cache = @ \o d.buff], d.index, Meta - Len(t.cache), 0) IN
  [table |-> r.table, index |-> r.index, start_block |-> Len(t.out),
   offset |-> Len(t.cache), size |-> Len(dir.buff) + 3]

(***************************************************************************)
(* Inodes (create_inode).  n describes the file: its type, number, link    *)
(* count, ids and whether it has extended attributes; for a regular file   *)
(* also start, size, blocks, fragment, and big, which stands for a size or *)
(* a position of 2^32 and more and for sparse blocks.                      *)
(***************************************************************************)

\* The extended type is used when the basic one has no room for a field.
InodeType(n) ==
  CASE n.type = "reg" -> IF n.nlink > 1 \/ n.big \/ n.xattr THEN "lreg" ELSE "reg"
    [] n.type = "dir" -> IF n.ldir \/ n.xattr THEN "ldir" ELSE "dir"
    [] n.type \in {"sym", "blk", "chr", "fifo", "sock"} /\ ~n.xattr -> n.type
    [] n.type = "sym" /\ n.xattr -> "lsym"
    [] n.type = "blk" /\ n.xattr -> "lblk"
    [] n.type = "chr" /\ n.xattr -> "lchr"
    [] n.type = "fifo" /\ n.xattr -> "lfifo"
    [] OTHER -> "lsock"

\* The common header and the fields the type has: a basic regular file has
\* no link count, and only extended inodes have an attribute index.
InodeHeader(n, type, ids) ==
  LET base == [k |-> "inode", type |-> type, uid |-> IdIndex(ids, n.uid),
               gid |-> IdIndex(ids, n.gid), number |-> n.number]
      ext  == IF type \in {"lreg", "ldir", "lblk", "lchr", "lfifo", "lsock"}
              THEN [xattr |-> n.xattr] ELSE [xattr |-> FALSE]
      link == IF type = "reg" THEN [nlink |-> 1] ELSE [nlink |-> n.nlink]
      own  == CASE n.type = "reg" -> [file_size |-> n.size, start_block |-> n.start,
                                      fragment |-> n.fragment]
                [] n.type = "dir" -> [file_size |-> n.size, start_block |-> n.start_block,
                                      offset |-> n.offset, parent |-> n.parent,
                                      i_count |-> IF type = "ldir" THEN Len(n.index) ELSE 0]
                [] n.type = "sym" -> [symlink_size |-> Len(n.text)]
                [] n.type \in {"blk", "chr"} -> [rdev |-> n.rdev]
                [] OTHER -> [data |-> 0] IN
  base @@ ext @@ link @@ own

\* What follows the header: the block list, the directory index, the text of
\* the link and, after the text, the attribute index of an extended link.
InodeTail(n, type) ==
  CASE n.type = "reg" -> n.blocks
    [] type = "ldir" ->
         FlattenSeq([i \in 1..Len(n.index) |->
           Struct([k |-> "index", index |-> n.index[i].index,
                   start_block |-> n.index[i].start_block,
                   size |-> NameLen(n.index[i].name) - 1], IndexSize)
           \o NameCells(n.index[i].name)])
    [] n.type = "sym" -> n.text \o IF type = "lsym" THEN <<[k |-> "xattr", xattr |-> TRUE]>> ELSE <<>>
    [] OTHER -> <<>>

\* t and ids are the inode table and the ids before the call.
CreateInode(t, ids, n) ==
  LET ids1 == GetId(GetId(ids, n.uid), n.gid)
      type == InodeType(n)
      r    == GetInode(t, Struct(InodeHeader(n, type, ids1), InodeSize(type)) \o InodeTail(n, type)) IN
  [table |-> r.table, inode |-> r.inode, ids |-> ids1]
=============================================================================
