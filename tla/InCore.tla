------------------------------- MODULE InCore -------------------------------
(***************************************************************************)
(* The in-core directory tree of Mksquashfs (struct dir_info, dir_ent and  *)
(* inode_info) and the operations every pass over it is built from.  A     *)
(* tree is a record of three sequences; a pointer is an index into one of  *)
(* them and 0 is NULL.  Freed structures stay in the sequences, marked, so *)
(* that a property can see a pointer to one.  A path is the sequence of    *)
(* its components, <<>> the root of the filesystem being built.            *)
(***************************************************************************)
EXTENDS Integers, Sequences, FiniteSets, SequencesExt, TLC

\* A loop over a list that carries acc along.  As FoldLeft, but each step is
\* bound to a variable, which keeps the evaluation of a whole scan shallow.
ForEach(step(_, _), acc, list) ==
  LET after[i \in 0..Len(list)] ==
        IF i = 0 THEN acc
        ELSE CHOOSE r \in {step(x, list[i]) : x \in {after[i - 1]}} : TRUE IN
  after[Len(list)]

NoPath == <<"NULL">>
NoName == "NULL"
NoLink == [abs |-> FALSE, comps |-> NoPath]
\* no is the counter inode_no, pseudo_ino the one of dir_scan2.
EmptyTree(no) == [dirs |-> <<>>, ents |-> <<>>, inodes |-> <<>>,
                  no |-> no, pseudo_ino |-> 1]

IsDir(t, e) == t.inodes[t.ents[e].inode].buf.type = "d"
RootEntry(t, e) == t.inodes[t.ents[e].inode].root_entry
Names(t, d) == {t.ents[e].name : e \in Range(t.dirs[d].list)}

\* pathname: where the reader finds the file in the source file system.
Pathname(t, e) ==
  LET ent == t.ents[e] IN
  IF ent.nonstandard # NoPath THEN ent.nonstandard
  ELSE t.dirs[ent.our_dir].pathname \o
       <<IF ent.source_name # NoName THEN ent.source_name ELSE ent.name>>

\* subpathname: where the file is in the filesystem being built.
Subpathname(t, e) == t.dirs[t.ents[e].our_dir].subpath \o <<t.ents[e].name>>

\* scan1_opendir: the new directory is the last one of t.dirs.
OpenDir(t, pathname, subpath, depth) ==
  [t EXCEPT !.dirs = Append(@, [pathname |-> pathname, subpath |-> subpath,
     depth |-> depth, list |-> <<>>, count |-> 0, directory_count |-> 0,
     excluded |-> 0, dir_ent |-> 0, ldir |-> TRUE, freed |-> FALSE])]

\* create_dir_entry: the new entry is the last one of t.ents.  origin is a
\* ghost: the source path the entry was made for.
CreateDirEntry(t, name, source_name, nonstandard, d, origin) ==
  [t EXCEPT !.ents = Append(@, [name |-> name, source_name |-> source_name,
     nonstandard |-> nonstandard, our_dir |-> d, inode |-> 0, dir |-> 0,
     freed |-> FALSE, origin |-> origin])]

NewInode(buf, link, pseudo) ==
  [buf |-> buf, link |-> link, pseudo |-> pseudo, nlink |-> 1, number |-> 0,
   root_entry |-> FALSE, type |-> "", written |-> FALSE, read |-> FALSE,
   no_fragments |-> FALSE, always_use_fragments |-> FALSE, noD |-> FALSE, noF |-> FALSE]

\* lookup_inode3: the inode of a hard link that was seen before, found by
\* comparing the whole stat buffer, or a new one.
LookupInode(t, buf, link, pseudo) ==
  LET same == {i \in DOMAIN t.inodes : ~t.inodes[i].root_entry /\ t.inodes[i].buf = buf} IN
  IF buf.type # "d" /\ same # {}
  THEN LET i == CHOOSE i \in same : TRUE IN
       [tree |-> [t EXCEPT !.inodes[i].nlink = @ + 1], inode |-> i]
  ELSE [tree |-> [t EXCEPT !.inodes = Append(@, NewInode(buf, link, pseudo))],
        inode |-> Len(t.inodes) + 1]

\* add_dir_entry: at the head of the list of its directory.
AddDirEntry(t, e, sub, i) ==
  LET d  == t.ents[e].our_dir
      t1 == [t EXCEPT !.ents[e].inode = i, !.ents[e].dir = sub,
                      !.dirs[d].list = <<e>> \o @, !.dirs[d].count = @ + 1] IN
  IF sub = 0 THEN t1 ELSE [t1 EXCEPT !.dirs[sub].dir_ent = e]

\* An entry that gets its inode as it is added.
AddWithInode(t, e, sub, buf, link, pseudo) ==
  LET look == LookupInode(t, buf, link, pseudo) IN AddDirEntry(look.tree, e, sub, look.inode)

\* free_dir_entry: one link less to the inode, which itself is never freed.
FreeDirEntry(t, e) ==
  LET i  == t.ents[e].inode
      t1 == [t EXCEPT !.ents[e].freed = TRUE] IN
  IF i = 0 \/ (i # 0 /\ t.inodes[i].root_entry) THEN t1
  ELSE [t1 EXCEPT !.inodes[i].nlink = @ - 1]

\* free_dir: a directory with everything below it.
RECURSIVE FreeDir(_, _)
FreeDir(t, d) ==
  LET One(s, e) == FreeDirEntry(IF IsDir(s, e) THEN FreeDir(s, s.ents[e].dir) ELSE s, e) IN
  [ForEach(One, t, t.dirs[d].list) EXCEPT !.dirs[d].freed = TRUE]

\* Unlinking e from the list of its directory in dir_scan4, dir_scan5 and
\* move_file, with the counts.
Unlink(t, e) ==
  LET d == t.ents[e].our_dir IN
  [t EXCEPT !.dirs[d].list = SelectSeq(@, LAMBDA x : x # e),
            !.dirs[d].count = @ - 1,
            !.dirs[d].directory_count = IF IsDir(t, e) THEN @ - 1 ELSE @]

\* alloc_inode_no: the first entry of an inode that is met gives it its
\* number; use_this, when it is not 0, is used instead of the counter.
AllocInodeNo(t, i, use_this) ==
  IF t.inodes[i].number # 0 THEN t
  ELSE IF use_this # 0 THEN [t EXCEPT !.inodes[i].number = use_this]
  ELSE [t EXCEPT !.inodes[i].number = t.no, !.no = @ + 1]

(***************************************************************************)
(* scan2_lookup and lookup_comp: the entry of directory d with that name,  *)
(* 0 when there is none.                                                   *)
(***************************************************************************)
Lookup(t, d, name) ==
  LET found == {i \in 1..Len(t.dirs[d].list) : t.ents[t.dirs[d].list[i]].name = name} IN
  IF found = {} THEN 0
  ELSE t.dirs[d].list[CHOOSE i \in found : \A j \in found : i <= j]

\* scan2_readdir: the entries that do not come from the filesystem that is
\* being appended to.
OwnEntries(t, d) == SelectSeq(t.dirs[d].list, LAMBDA e : ~RootEntry(t, e))

(***************************************************************************)
(* sort_directory: bottom up merge sort of a linked list.  strcmp orders   *)
(* names as the sequence NameOrder lists them.                             *)
(***************************************************************************)
CONSTANT NameOrder
Rank(name) == CHOOSE i \in 1..Len(NameOrder) : NameOrder[i] = name

\* Two sorted sublists merged onto the output list, the first one's entry
\* going first when the names are equal.
RECURSIVE MergeLists(_, _, _)
MergeLists(t, l1, l2) ==
  CASE l1 = <<>> -> l2
    [] l2 = <<>> -> l1
    [] OTHER ->
         IF Rank(t.ents[Head(l1)].name) <= Rank(t.ents[Head(l2)].name)
         THEN <<Head(l1)>> \o MergeLists(t, Tail(l1), l2)
         ELSE <<Head(l2)>> \o MergeLists(t, l1, Tail(l2))

\* Mutant of MergePass: only the first two sublists are merged.
MergePassPairs(t, l, stride) ==
  LET Take(s) == SubSeq(s, 1, IF Len(s) < stride THEN Len(s) ELSE stride)
      Drop(s) == SubSeq(s, stride + 1, Len(s)) IN
  MergeLists(t, Take(l), Take(Drop(l))) \o Drop(Drop(l))

\* One iteration of the outer loop: adjacent sublists of stride entries.
RECURSIVE MergePass(_, _, _)
MergePass(t, l, stride) ==
  LET Take(s) == SubSeq(s, 1, IF Len(s) < stride THEN Len(s) ELSE stride)
      Drop(s) == SubSeq(s, stride + 1, Len(s)) IN
  IF l = <<>> THEN <<>>
  ELSE MergeLists(t, Take(l), Take(Drop(l))) \o MergePass(t, Drop(Drop(l)), stride)

RECURSIVE SortPasses(_, _, _, _)
SortPasses(t, l, stride, count) ==
  LET merged == MergePass(t, l, stride) IN
  IF 2 * stride < count THEN SortPasses(t, merged, 2 * stride, count) ELSE merged

SortDirectory(t, d) ==
  LET dir == t.dirs[d] IN
  IF dir.list = <<>> \/ dir.count < 2 THEN t
  ELSE [t EXCEPT !.dirs[d].list = SortPasses(t, dir.list, 1, dir.count)]
=============================================================================
