----------------------------- MODULE SourceTree -----------------------------
(***************************************************************************)
(* Mksquashfs from its options to the order in which it writes files: the  *)
(* option parsers, the seven passes dir_scan1 .. dir_scan7 over the source *)
(* tree (mksquashfs.c), the sort list (sort.c), and the reader thread that *)
(* walks the same tree beside the main thread.                             *)
(*                                                                         *)
(* The input `in' holds the source file system src (a function from paths  *)
(* to [buf, kids, link, points, opens], kids in readdir order), the source *)
(* arguments, the root entries and numbers of the filesystem that is       *)
(* appended to, and the flags.  It never changes.                          *)
(***************************************************************************)
EXTENDS ActionEval

CONSTANTS Inputs,          \* the inputs (records `in') to start from
          PrioMin, PrioMax, \* bounds on sort priorities (-32768, 32767)
          LdirCount         \* entries that make a directory extended (257)

VARIABLES in, opts, phase, specs, excl, pseudo, ids, sorts, t, moves,
          rtodo, to_main, mtodo, written, changes

vars == <<in, opts, phase, specs, excl, pseudo, ids, sorts, t, moves,
          rtodo, to_main, mtodo, written, changes>>

OptionVars == <<specs, excl, pseudo, ids, sorts>>
ThreadVars == <<rtodo, to_main, mtodo, written, changes>>

Init ==
  /\ in \in Inputs
  /\ opts = in.opts
  /\ phase = "options"
  /\ specs = [l \in SpecLists |-> <<>>]
  /\ excl = [path |-> <<>>, sticky |-> <<>>, inodes |-> {}]
  /\ pseudo = <<>> /\ ids = <<>>
  /\ sorts = [list |-> <<>>, mkisofs |-> -1]
  /\ t = EmptyTree(in.first_no)
  /\ moves = <<>> /\ rtodo = <<>> /\ to_main = <<>> /\ mtodo = <<>>
  /\ written = <<>> /\ changes = in.changes

(***************************************************************************)
(* Options.                                                                *)
(***************************************************************************)

\* lstat of a path below every source directory.
InSources(path) ==
  {in.sources[i].path \o path : i \in DOMAIN in.sources} \cap DOMAIN in.src

\* parse_action; a line that does not parse ends the program.
ParseActionOption ==
  /\ phase = "options" /\ opts # <<>> /\ Head(opts).opt = "action"
  /\ \E a \in {ParseAction(Head(opts).line)} :
     IF a = Null THEN phase' = "exit" /\ UNCHANGED <<opts, specs>>
     ELSE /\ specs' = [specs EXCEPT ![SpecList(a.name)] = Append(@, a)]
          /\ opts' = Tail(opts) /\ UNCHANGED phase
  /\ UNCHANGED <<in, excl, pseudo, ids, sorts, t, moves, ThreadVars>>

\* old_add_exclude keeps what a path leads to by inode: an absolute path, or
\* one in the source directories.  "..." is part of a name to it, which no
\* file has.
OldExcluded(o) ==
  CASE o.abs  -> {o.path} \cap DOMAIN in.src
    [] ~o.abs /\ o.sticky -> {}
    [] OTHER  -> InSources(o.path)

\* The option -e: old_add_exclude, or add_exclude (-wildcards, -regex), which
\* ends the program at an absolute path.
AddExcludeOption ==
  /\ phase = "options" /\ opts # <<>> /\ Head(opts).opt = "exclude"
  /\ LET o == Head(opts) IN
     IF ~in.old_exclude /\ o.abs THEN phase' = "exit" /\ UNCHANGED <<opts, excl>>
     ELSE /\ excl' = CASE in.old_exclude ->
                             [excl EXCEPT !.inodes = @ \cup {in.src[p].buf.ino : p \in OldExcluded(o)}]
                       [] ~in.old_exclude /\ o.sticky -> [excl EXCEPT !.sticky = AddPath(@, o.path)]
                       [] OTHER -> [excl EXCEPT !.path = AddPath(@, o.path)]
          /\ opts' = Tail(opts) /\ UNCHANGED phase
  /\ UNCHANGED <<in, specs, pseudo, ids, sorts, t, moves, ThreadVars>>

\* read_pseudo_def
PseudoOption ==
  /\ phase = "options" /\ opts # <<>> /\ Head(opts).opt = "pseudo"
  /\ LET def == Head(opts).def
         dev == PseudoDev(def, Len(ids) + 1) IN
     IF ~PseudoDefOk(def) THEN phase' = "exit" /\ UNCHANGED <<opts, pseudo, ids>>
     ELSE /\ ids' = IF def.type = "f" THEN Append(ids, def.path) ELSE ids
          /\ pseudo' = AddPseudo(pseudo, dev, def.path, def.path)
          /\ opts' = Tail(opts) /\ UNCHANGED phase
  /\ UNCHANGED <<in, specs, excl, sorts, t, moves, ThreadVars>>

\* add_sort_list: the sort list with the entry, and whether it turned out to
\* be in the style of mkisofs (-1 while nobody knows).  An entry is relative
\* to the source directories unless it is absolute or the style is that of
\* mkisofs; one that names nothing is ignored, for one that names several
\* files there is no result.  lstat fails only for want of the file.
AddSortList(o) ==
  LET found == InSources(o.path)
      here  == o.path \in DOMAIN in.src
      Entry(p) == <<[ino |-> in.src[p].buf.ino, priority |-> o.priority]>>
      Direct(m) == [list |-> IF here THEN Entry(o.path) \o sorts.list ELSE sorts.list,
                    mkisofs |-> m] IN
  CASE o.abs \/ sorts.mkisofs = 1 -> {Direct(sorts.mkisofs)}
    [] ~(o.abs \/ sorts.mkisofs = 1) /\ found = {} ->
         {IF sorts.mkisofs = -1 /\ here THEN Direct(1) ELSE [sorts EXCEPT !.mkisofs = 0]}
    [] OTHER -> {[list |-> Entry(p) \o sorts.list, mkisofs |-> 0] :
                   p \in {q \in found : found = {q}}}

\* read_sort_file: an entry that is refused, or a priority out of range, ends
\* the program.
SortOption ==
  /\ phase = "options" /\ opts # <<>> /\ Head(opts).opt = "sort"
  /\ LET new == IF Head(opts).priority \notin PrioMin..PrioMax THEN {}
                ELSE AddSortList(Head(opts)) IN
     IF new = {} THEN phase' = "exit" /\ UNCHANGED <<opts, sorts>>
     ELSE sorts' \in new /\ opts' = Tail(opts) /\ UNCHANGED phase
  /\ UNCHANGED <<in, specs, excl, pseudo, ids, t, moves, ThreadVars>>

OptionsDone ==
  /\ phase = "options" /\ opts = <<>>
  /\ phase' = "scan1"
  /\ UNCHANGED <<in, opts, OptionVars, t, moves, ThreadVars>>

(***************************************************************************)
(* dir_scan1: the source directories are read into memory.                 *)
(***************************************************************************)

\* The name a root entry gets: name, name_1, name_2 ... until it is unused.
RECURSIVE UnusedName(_, _, _, _)
UnusedName(s, d, name, pass) ==
  LET try == IF pass = 0 THEN name ELSE name \o "_" \o ToString(pass) IN
  IF try \in Names(s, d) THEN UnusedName(s, d, name, pass + 1) ELSE try

\* The root entries of the filesystem that is appended to: their inodes are
\* finished, their stat buffers were never filled in.
AddOldRootEntries(s, d) ==
  LET One(x, o) ==
        LET x1 == CreateDirEntry(x, o.name, NoName, NoPath, d, NoPath)
            x2 == [x1 EXCEPT !.inodes = Append(@, [NewInode([type |-> "?"], NoLink, "no")
                     EXCEPT !.root_entry = TRUE, !.type = o.type, !.number = o.number,
                            !.written = TRUE]),
                   !.dirs[d].directory_count = IF o.type = "d" THEN @ + 1 ELSE @] IN
        AddDirEntry(x2, Len(x2.ents), 0, Len(x2.inodes)) IN
  ForEach(One, s, in.old)

\* scan1_readdir, scan1_single_readdir and scan1_encomp_readdir: the entry of
\* the next name of the directory; a source without a base name has none.
ReadEntry(s, d, name, level) ==
  LET dir  == s.dirs[d]
      base == IF level = "encomp" THEN name.base ELSE name
      path == IF level = "encomp" THEN name.path ELSE dir.pathname \o <<name>>
      used == IF level = "plain" THEN base ELSE UnusedName(s, d, base, 0) IN
  CreateDirEntry(s, used, IF used = base THEN NoName ELSE base,
                 IF level = "encomp" THEN path ELSE NoPath, d, path)

RECURSIVE DirScan1(_, _, _, _, _, _), ScanFound(_, _, _, _), ScanEntry(_, _, _)

\* dir_scan1: dir is 0 when the directory cannot be opened.
DirScan1(s, pathname, subpath, paths, level, depth) ==
  LET d    == Len(s.dirs) + 1
      kids == IF level = "encomp" THEN SelectSeq(in.sources, LAMBDA x : x.base # NoName)
              ELSE in.src[pathname].kids
      Opened(x) == IF level = "plain" THEN x ELSE AddOldRootEntries(x, d)
      One(x, name) == ScanEntry(ReadEntry(x, d, name, level), Len(x.ents) + 1, paths) IN
  IF level # "encomp" /\ ~in.src[pathname].opens THEN [tree |-> s, dir |-> 0]
  ELSE [tree |-> ForEach(One, Opened(OpenDir(s, pathname, subpath, depth)), kids), dir |-> d]

\* A directory is added once everything below it is; sub is its scan.
AddScanned(s, e, sub, buf) ==
  IF sub.dir = 0 THEN FreeDirEntry(s, e)
  ELSE AddWithInode([sub.tree EXCEPT !.dirs[s.ents[e].our_dir].directory_count = @ + 1],
                    e, sub.dir, buf, NoLink, "no")

\* The body of the loop of dir_scan1: one entry is dropped, or added with
\* everything below it.  look is what excluded() says of it.
ScanFound(s, e, file, look) ==
  LET d   == s.ents[e].our_dir
      buf == in.src[file].buf
      out == IF in.old_exclude THEN buf.ino \in excl.inodes ELSE look.match IN
  CASE buf.type \notin FileTypes -> FreeDirEntry(s, e)
    [] /\ buf.type \in FileTypes
       /\ out \/ EvalExcludeActions(s, in.src, specs["exclude"], e, buf) ->
         [FreeDirEntry(s, e) EXCEPT !.dirs[d].excluded = @ + 1]
    [] OTHER ->
         IF buf.type = "l" /\ in.src[file].link = NoLink THEN s
         ELSE IF buf.type # "d" THEN AddWithInode(s, e, 0, buf, in.src[file].link, "no")
         ELSE AddScanned(s, e, DirScan1(s, file, Subpathname(s, e), look.new, "plain",
                                        s.dirs[d].depth + 1), buf)

ScanEntry(s, e, paths) ==
  IF Pathname(s, e) \notin DOMAIN in.src THEN FreeDirEntry(s, e)
  ELSE ScanFound(s, e, Pathname(s, e), Excluded(s.ents[e].name, paths, excl.sticky))

\* dir_scan up to the root directory's own entry, which lives in a directory
\* of depth 0.
WithRoot(s, path) ==
  CreateDirEntry(OpenDir(s, <<>>, <<>>, 0), "", NoName, path, Len(s.dirs) + 1, path)
RootDir(look, e) ==
  [look.tree EXCEPT !.ents[e].inode = look.inode, !.ents[e].dir = 1, !.dirs[1].dir_ent = e]

\* When the source directory itself cannot be opened dir_scan returns at once,
\* and main goes on to write the tables of a filesystem without a tree.
Scan1 ==
  /\ phase = "scan1"
  /\ LET one  == Len(in.sources) = 1
         path == IF one THEN in.sources[1].path ELSE <<>>
         buf  == IF one THEN in.src[path].buf ELSE in.dummy IN
     \E scan \in {DirScan1(t, path, <<>>, IF excl.path = <<>> THEN <<>> ELSE <<excl.path>>,
                           IF one THEN "single" ELSE "encomp", 1)} :
       IF scan.dir = 0 THEN phase' = "no tree" /\ UNCHANGED t
       ELSE /\ t' = RootDir(LookupInode(WithRoot(scan.tree, path), buf, NoLink,
                                        IF one THEN "no" ELSE "other"),
                            Len(scan.tree.ents) + 1)
            /\ phase' = "scan2"
  /\ UNCHANGED <<in, opts, OptionVars, moves, ThreadVars>>

(***************************************************************************)
(* dir_scan2: attribute actions and pseudo files.                          *)
(***************************************************************************)

\* The stat buffer of a pseudo file, with an inode number of its own.
PseudoBuf(dev, ino) ==
  [type |-> dev.type, ino |-> -ino, uid |-> dev.uid,
   gid |-> dev.uid, perm |-> dev.perm, size |-> 0]

RECURSIVE DirScan2(_, _, _)

\* A directory of its own, with the pseudo files below it.
PseudoDir(s, d, p, buf) ==
  LET n == Len(s.ents) IN
  AddWithInode([DirScan2(OpenDir(s, <<>>, Subpathname(s, n), s.dirs[d].depth + 1),
                         Len(s.dirs) + 1, p.sub)
                  EXCEPT !.dirs[d].directory_count = @ + 1],
               n, Len(s.dirs) + 1, buf, NoLink, "other")

\* One pseudo entry of directory d: an "m" changes a file that exists, the
\* others make one that does not.
PseudoEntry(s, d, p) ==
  LET e   == Lookup(s, d, p.name)
      i   == s.ents[e].inode
      dev == p.dev
      s1  == CreateDirEntry([s EXCEPT !.pseudo_ino = @ + 1], p.name, NoName, p.pathname, d,
                            p.pathname)
      buf == PseudoBuf(dev, s.pseudo_ino) IN
  CASE dev.type = "m" ->
         IF e = 0 THEN s
         ELSE IF RootEntry(s, e) THEN s
         ELSE [s EXCEPT !.inodes[i].buf.perm = dev.perm, !.inodes[i].buf.uid = dev.uid,
                        !.inodes[i].buf.gid = dev.uid]
    [] dev.type # "m" /\ e # 0 -> s
    [] dev.type = "d" /\ e = 0 -> PseudoDir(s1, d, p, buf)
    [] OTHER -> AddWithInode(s1, Len(s1.ents), 0, buf, NoLink,
                             IF dev.type = "f" THEN "process" ELSE "other")

DirScan2(s, d, pse) ==
  LET Own(x, e) ==
        IF IsDir(x, e)
        THEN DirScan2(EvalActions(x, in.src, specs["other"], e), x.ents[e].dir,
                      PseudoSubdir(x.ents[e].name, pse))
        ELSE EvalActions(x, in.src, specs["other"], e)
      Pse(x, p) == PseudoEntry(x, d, p) IN
  ForEach(Pse, ForEach(Own, s, OwnEntries(s, d)), PseudoReaddir(pse))

Scan2 ==
  /\ phase = "scan2" /\ phase' = "scan3"
  /\ t' = IF specs["other"] # <<>> \/ pseudo # <<>> THEN DirScan2(t, 1, pseudo) ELSE t
  /\ UNCHANGED <<in, opts, OptionVars, moves, ThreadVars>>

(***************************************************************************)
(* dir_scan3 and do_move_actions: every move is worked out on the same     *)
(* tree, then they are made one after the other.                           *)
(***************************************************************************)
RECURSIVE DirScan3(_, _)
DirScan3(d, list) ==
  LET Below(new, e) == IF IsDir(t, e) THEN DirScan3(t.ents[e].dir, new) ELSE new
      One(ms, e) == Below(EvalMoveActions(t, in.src, specs["move"], e) \o ms, e) IN
  ForEach(One, list, OwnEntries(t, d))

Scan3 ==
  /\ phase = "scan3" /\ phase' = "moves"
  /\ moves' = IF specs["move"] # <<>> THEN DirScan3(1, <<>>) ELSE <<>>
  /\ UNCHANGED <<in, opts, OptionVars, t, ThreadVars>>

DoMoveAction ==
  /\ phase = "moves" /\ moves # <<>>
  /\ t' = DoMove(t, Head(moves)) /\ moves' = Tail(moves)
  /\ UNCHANGED <<in, opts, phase, OptionVars, ThreadVars>>

MovesDone ==
  /\ phase = "moves" /\ moves = <<>> /\ phase' = "scan4"
  /\ UNCHANGED <<in, opts, OptionVars, t, moves, ThreadVars>>

(***************************************************************************)
(* dir_scan4 and dir_scan5: prune and empty actions, from the leaves up.   *)
(***************************************************************************)

\* Taking an entry out of the tree and freeing it.
RemoveEntry(s, e) ==
  LET d == s.ents[e].our_dir IN
  [FreeDirEntry(Unlink(s, e), e) EXCEPT !.dirs[d].excluded = @ + 1]

RECURSIVE DirScan4(_, _)
DirScan4(s, d) ==
  LET Pruned(y, e) == EvalPruneActions(y, in.src, specs["prune"], e)
      Prune(y, e) == CASE IsDir(y, e) /\ Pruned(y, e) -> RemoveEntry(FreeDir(y, y.ents[e].dir), e)
                       [] ~IsDir(y, e) /\ Pruned(y, e) -> RemoveEntry(y, e)
                       [] OTHER -> y
      One(x, e) == IF IsDir(x, e) THEN Prune(DirScan4(x, x.ents[e].dir), e) ELSE Prune(x, e) IN
  ForEach(One, s, OwnEntries(s, d))

Scan4 ==
  /\ phase = "scan4" /\ phase' = "scan5"
  /\ t' = IF specs["prune"] # <<>> THEN DirScan4(t, 1) ELSE t
  /\ UNCHANGED <<in, opts, OptionVars, moves, ThreadVars>>

RECURSIVE DirScan5(_, _)
DirScan5(s, d) ==
  LET One(x, e) ==
        LET y == DirScan5(x, x.ents[e].dir) IN
        IF ~IsDir(x, e) THEN x
        ELSE IF EvalEmptyActions(y, in.src, specs["empty"], e)
        THEN RemoveEntry([y EXCEPT !.dirs[y.ents[e].dir].freed = TRUE], e) ELSE y IN
  ForEach(One, s, OwnEntries(s, d))

Scan5 ==
  /\ phase = "scan5" /\ phase' = "scan6"
  /\ t' = IF specs["empty"] # <<>> THEN DirScan5(t, 1) ELSE t
  /\ UNCHANGED <<in, opts, OptionVars, moves, ThreadVars>>

(***************************************************************************)
(* dir_scan6: directories are sorted and inodes numbered.  A directory is  *)
(* extended by its number of entries, or by their size (Image).            *)
(***************************************************************************)
RECURSIVE DirScan6(_, _)
DirScan6(s, d) ==
  LET One(x, e) ==
        IF IsDir(x, e) THEN DirScan6(AllocInodeNo(x, x.ents[e].inode, 0), x.ents[e].dir)
        ELSE AllocInodeNo(x, x.ents[e].inode, 0)
      Number(x) == ForEach(One, x, OwnEntries(x, d)) IN
  [Number(SortDirectory(s, d)) EXCEPT !.dirs[d].ldir = s.dirs[d].count >= LdirCount]

\* ... then dir_scan numbers the root directory and runs the actions on it.
Scan6 ==
  /\ phase = "scan6" /\ phase' = "start"
  /\ LET root == t.dirs[1].dir_ent IN
     t' = EvalActions(AllocInodeNo(DirScan6(t, 1), t.ents[root].inode, in.root_no), in.src,
                      specs["other"], root)
  /\ UNCHANGED <<in, opts, OptionVars, moves, ThreadVars>>

(***************************************************************************)
(* The sort list (sort.c).                                                 *)
(***************************************************************************)

\* get_priority: by inode, the last definition first; else the directory's.
GetPriority(buf, inherited) ==
  LET hits == {i \in 1..Len(sorts.list) : sorts.list[i].ino = buf.ino} IN
  IF hits = {} THEN inherited
  ELSE sorts.list[CHOOSE i \in hits : \A j \in hits : i <= j].priority

\* generate_file_priorities and add_priority_list: the files with their
\* priorities, the last one met at the head.
RECURSIVE FilePriorities(_, _, _)
FilePriorities(d, priority, acc) ==
  LET One(list, e) ==
        LET buf == t.inodes[t.ents[e].inode].buf IN
        CASE buf.type = "f" -> <<[ent |-> e, priority |-> GetPriority(buf, priority)]>> \o list
          [] buf.type = "d" ->
               FilePriorities(t.ents[e].dir, GetPriority(buf, priority), list)
          [] OTHER -> list IN
  ForEach(One, acc, OwnEntries(t, d))

\* The entries in the order of sort_files_and_write: highest priority first.
PriorityOrder ==
  LET root == t.inodes[t.ents[t.dirs[1].dir_ent].inode].buf
      list == FilePriorities(1, GetPriority(root, 0), <<>>)
      Of(p) == [i \in DOMAIN SelectSeq(list, LAMBDA x : x.priority = p) |->
                  SelectSeq(list, LAMBDA x : x.priority = p)[i].ent] IN
  FlattenSeq([k \in 1..(PrioMax - PrioMin + 1) |-> Of(PrioMax + 1 - k)])

(***************************************************************************)
(* The reader and the main thread.                                         *)
(***************************************************************************)

\* reader_scan: regular files and dynamic pseudo files, depth first.
RECURSIVE ReaderScan(_)
ReaderScan(d) ==
  LET One(list, e) ==
        LET inode == t.inodes[t.ents[e].inode] IN
        CASE inode.pseudo = "process" \/ inode.buf.type = "f" -> Append(list, e)
          [] inode.buf.type = "d" -> list \o ReaderScan(t.ents[e].dir)
          [] OTHER -> list IN
  ForEach(One, <<>>, OwnEntries(t, d))

\* dir_scan7: an inode for every entry, then the entry; the directory itself
\* when all its entries are in it.
RECURSIVE DirScan7(_)
DirScan7(d) ==
  LET One(list, e) ==
        (IF RootEntry(t, e) THEN list
         ELSE IF IsDir(t, e) THEN list \o DirScan7(t.ents[e].dir)
         ELSE Append(list, [op |-> "inode", ent |-> e]))
        \o <<[op |-> "add", ent |-> e]>> IN
  Append(ForEach(One, <<>>, t.dirs[d].list), [op |-> "write_dir", ent |-> t.dirs[d].dir_ent])

\* dir_scan hands the tree to the reader and starts to write.
Start ==
  /\ phase = "start" /\ phase' = "write"
  /\ rtodo' = IF in.sorted THEN PriorityOrder ELSE ReaderScan(1)
  /\ mtodo' = (IF in.sorted
                THEN [i \in 1..Len(PriorityOrder) |-> [op |-> "inode", ent |-> PriorityOrder[i]]]
                ELSE <<>>) \o DirScan7(1)
  /\ UNCHANGED <<in, opts, OptionVars, t, moves, to_main, written, changes>>

\* What the reader finds when it opens an entry: the contents of a source
\* file, identified by its inode, or an error.
Contents(e) ==
  LET path == Pathname(t, e) IN
  IF path \in DOMAIN in.src /\ in.src[path].buf.type = "f" /\ in.src[path].opens
  THEN in.src[path].buf.ino ELSE 0

Send(e, error, data) == to_main' = Append(to_main, [ent |-> e, error |-> error, data |-> data])

\* Mutant of ReaderRead: every link of an inode is read.
ReaderReadLinks ==
  /\ phase = "write" /\ rtodo # <<>>
  /\ LET e == Head(rtodo) IN
     Send(e, IF Contents(e) = 0 THEN 1 ELSE 0, Contents(e))
  /\ rtodo' = Tail(rtodo)
  /\ UNCHANGED <<in, opts, phase, t, OptionVars, moves, mtodo, written, changes>>

\* reader: the next file.  Only the unsorted scan knows dynamic pseudo files
\* (reader_read_process); reader_read_file reads an inode once.
ReaderRead ==
  /\ phase = "write" /\ rtodo # <<>>
  /\ LET e == Head(rtodo)
         i == t.ents[e].inode IN
     IF ~in.sorted /\ t.inodes[i].pseudo = "process"
     THEN Send(e, 0, t.inodes[i].buf.ino) /\ UNCHANGED t
     ELSE IF t.inodes[i].read THEN UNCHANGED <<t, to_main>>
     ELSE /\ t' = [t EXCEPT !.inodes[i].read = TRUE]
          /\ Send(e, IF Contents(e) = 0 THEN 1 ELSE 0, Contents(e))
  /\ rtodo' = Tail(rtodo)
  /\ UNCHANGED <<in, opts, phase, OptionVars, moves, mtodo, written, changes>>

\* reader_read_file when the file turns out to have another size: what was
\* read is sent as an error of 2, the stat buffer is overwritten with the
\* one of the file now, and the file is read again.
ReaderRestat ==
  /\ phase = "write" /\ rtodo # <<>> /\ changes > 0
  /\ LET e == Head(rtodo)
         i == t.ents[e].inode IN
     /\ Contents(e) # 0 /\ ~t.inodes[i].read
     /\ t' = [t EXCEPT !.inodes[i].buf = in.src[Pathname(t, e)].buf]
     /\ Send(e, 2, 0)
  /\ changes' = changes - 1
  /\ UNCHANGED <<in, opts, phase, OptionVars, moves, rtodo, mtodo, written>>

\* The main thread, in sort_files_and_write or dir_scan7.  A regular file
\* without an inode is written from what the reader sent (write_file), again
\* while that is an error of 2; every other step needs no reader.  frag is
\* the list get_and_fill picks for the tail end of the file.
MainStep ==
  /\ phase = "write" /\ mtodo # <<>>
  /\ LET m == Head(mtodo)
         i == t.ents[m.ent].inode
         file == m.op = "inode" /\ t.inodes[i].buf.type = "f" /\ ~t.inodes[i].written
         made == m.op \in {"inode", "write_dir"} /\ ~t.inodes[i].written IN
     /\ file => to_main # <<>>
     /\ to_main' = IF file THEN Tail(to_main) ELSE to_main
     /\ IF file /\ Head(to_main).error = 2 THEN UNCHANGED <<t, mtodo, written>>
        ELSE /\ t' = IF made THEN [t EXCEPT !.inodes[i].written = TRUE] ELSE t
             /\ mtodo' = Tail(mtodo)
             /\ written' = Append(written,
                  [op |-> IF made THEN "made" ELSE m.op, ent |-> m.ent,
                   from |-> IF file THEN Head(to_main).ent ELSE 0,
                   data |-> IF file THEN Head(to_main).data ELSE 0,
                   frag |-> IF file THEN EvalFragActions(t, in.src, specs["fragment"], m.ent)
                            ELSE 0])
  /\ UNCHANGED <<in, opts, phase, OptionVars, moves, rtodo, changes>>

Finish ==
  /\ phase = "write" /\ mtodo = <<>> /\ phase' = "done"
  /\ UNCHANGED <<in, opts, OptionVars, t, moves, ThreadVars>>

Next ==
  \/ ParseActionOption \/ AddExcludeOption \/ PseudoOption \/ SortOption \/ OptionsDone
  \/ Scan1 \/ Scan2 \/ Scan3 \/ DoMoveAction \/ MovesDone \/ Scan4 \/ Scan5 \/ Scan6
  \/ Start \/ ReaderRead \/ ReaderRestat \/ MainStep \/ Finish

\* The program has exited.
Terminated == phase \in {"exit", "no tree", "done"} /\ UNCHANGED vars

Spec == Init /\ [][Next \/ Terminated]_vars

(***************************************************************************)
(* Properties.                                                             *)
(***************************************************************************)
Scanned == phase \notin {"options", "scan1", "exit", "no tree"}

RECURSIVE Below(_)
Below(d) ==
  {d} \cup UNION {Below(t.ents[e].dir) : e \in {x \in Range(t.dirs[d].list) : t.ents[x].dir # 0}}

Live == UNION {Range(t.dirs[d].list) : d \in Below(1)}
OldEntry(e) == t.inodes[t.ents[e].inode].root_entry

(* The in-core tree stays a tree whatever the pseudo files, moves, prunes  *)
(* and empties did: no freed structure can be reached, every entry is in   *)
(* one list, that of our_dir, names are unique in a directory, the counts  *)
(* of a directory and the link counts of inodes are exact, the subpath of  *)
(* a directory is the one its entry says, and the path name of an entry    *)
(* still leads to the source file it was made for.                         *)
TreeSound ==
  Scanned =>
    LET dirs == Below(1)
        all  == Live \cup {t.dirs[1].dir_ent}
        IsD(e) == IsDir(t, e) \/ (OldEntry(e) /\ t.inodes[t.ents[e].inode].type = "d") IN
    /\ \A d \in dirs :
         LET dir == t.dirs[d] IN
         /\ ~dir.freed
         /\ dir.count = Len(dir.list)
         /\ Cardinality(Names(t, d)) = Len(dir.list)
         /\ dir.directory_count = Cardinality({e \in Range(dir.list) : IsD(e)})
         /\ \A e \in Range(dir.list) : t.ents[e].our_dir = d
         /\ t.ents[dir.dir_ent].dir = d
         /\ d # 1 => dir.subpath = Subpathname(t, dir.dir_ent)
    /\ \A e \in Live : /\ ~t.ents[e].freed
                       /\ IsDir(t, e) <=> t.ents[e].dir # 0
                       /\ ~OldEntry(e) => Pathname(t, e) = t.ents[e].origin
    /\ \A i \in DOMAIN t.inodes :
         ~t.inodes[i].root_entry =>
           t.inodes[i].nlink = Cardinality({e \in all : t.ents[e].inode = i})

\* The files of the source directory that can be stored.
Storable ==
  LET root == in.sources[1].path
      Readable(p) == \A n \in Len(root)..(Len(p) - 1) : in.src[SubSeq(p, 1, n)].opens IN
  {p \in DOMAIN in.src : /\ Len(p) > Len(root) /\ Readable(p)
                         /\ in.src[p].buf.type \in FileTypes
                         /\ (in.src[p].buf.type = "d" => in.src[p].opens)
                         /\ (in.src[p].buf.type = "l" => in.src[p].link # NoLink)}

\* The components of path from the k-th on begin as the exclude does.
MatchesAt(exclude, path, k) ==
  /\ k + Len(exclude) - 1 <= Len(path)
  /\ \A i \in 1..Len(exclude) : NameMatches(exclude[i], path[k + i - 1])

\* What the exclude options say of a path below the source directory: an
\* anchored one matches from the top, a non-anchored one ("...") anywhere.
ExcludedBy(path) ==
  \E o \in Range(in.opts) :
    o.opt = "exclude" /\ \E k \in IF o.sticky THEN 1..Len(path) ELSE {1} : MatchesAt(o.path, path, k)

(* The options -e with -wildcards leave out exactly what they say they do:  *)
(* "An anchored exclude is one which matches from the root of the           *)
(* directory and nowhere else, a non-anchored exclude matches anywhere".    *)
ExcludeDocumented ==
  (phase = "scan2" /\ Len(in.sources) = 1 /\ ~in.old_exclude /\ in.old = <<>>
     /\ specs["exclude"] = <<>>) =>
  {t.ents[e].origin : e \in Live} =
    {p \in Storable : ~ExcludedBy(SubSeq(p, Len(in.sources[1].path) + 1, Len(p)))}

(* They do when no non-anchored exclude has more than one component: the   *)
(* tries of excludes, built with subsumption and walked beside the         *)
(* directories (add_path, excluded, excluded_match), leave out exactly the *)
(* files that one of the options matches, or that are below a directory it *)
(* matches, whatever the order of the options.                             *)
ExcludeExact ==
  (\A o \in Range(in.opts) : o.opt = "exclude" => ~o.sticky \/ Len(o.path) = 1) => ExcludeDocumented

(* What dir_scan6 leaves to be written: every directory in the order of    *)
(* strcmp, each inode with a number of its own, the numbers without a gap  *)
(* and none wasted on an inode that was pruned, and no empty directory     *)
(* when an empty action asked for all of them to go.                       *)
ListingExact ==
  phase \in {"start", "write", "done"} =>
    LET own == {t.ents[e].inode : e \in {x \in Live : ~OldEntry(x)}}
        root == t.ents[t.dirs[1].dir_ent].inode
        sweep == \E i \in 1..Len(specs["empty"]) :
                   /\ specs["empty"][i].data.val = "all"
                   /\ specs["empty"][i].expr.type = "atom"
                   /\ specs["empty"][i].expr.test = "true" IN
    /\ \A d \in Below(1) : \A k \in 1..(t.dirs[d].count - 1) :
         Rank(t.ents[t.dirs[d].list[k]].name) < Rank(t.ents[t.dirs[d].list[k + 1]].name)
    /\ {t.inodes[i].number : i \in own \cup {root}} =
         (in.first_no..(t.no - 1)) \cup (IF in.root_no = 0 THEN {} ELSE {in.root_no})
    /\ Cardinality({t.inodes[i].number : i \in own \cup {root}}) = Cardinality(own) + 1
    /\ \A i \in DOMAIN t.inodes \ (own \cup {root}) :
         ~t.inodes[i].root_entry => t.inodes[i].number = 0
    /\ sweep => \A d \in Below(1) \ {1} : t.dirs[d].list # <<>>

(* The reader and the main thread walk the tree on their own, in the order *)
(* of the directories or of the sort list, both skipping inodes they have  *)
(* done: what main takes from the queue for a file is always that file, it *)
(* is never short of a buffer, and an inode is in the image before the     *)
(* entry that refers to it is added to a directory.                        *)
ReaderInStep ==
  /\ \A k \in 1..Len(written) :
       written[k].from # 0 =>
         /\ t.ents[written[k].from].inode = t.ents[written[k].ent].inode
         /\ LET inode == t.inodes[t.ents[written[k].ent].inode] IN
            inode.pseudo = "no" =>
              written[k].data = IF in.src[t.ents[written[k].ent].origin].opens
                                THEN inode.buf.ino ELSE 0
  /\ \A k \in 1..Len(written) :
       written[k].op = "add" =>
         \/ OldEntry(written[k].ent)
         \/ \E j \in 1..(k - 1) : /\ written[j].op = "made"
                                  /\ t.ents[written[j].ent].inode = t.ents[written[k].ent].inode
  /\ phase = "done" => \A e \in Live : t.inodes[t.ents[e].inode].written
  /\ phase = "write" /\ rtodo = <<>> /\ to_main = <<>> /\ mtodo # <<>> =>
       LET m == Head(mtodo)
           inode == t.inodes[t.ents[m.ent].inode] IN
       m.op = "inode" /\ inode.buf.type = "f" => inode.written

\* A test expression as its tokens read, without a parse tree.  An operator is
\* outside when no bracket is open before it; the last such operator is the
\* one that applies last, for && and || are taken from left to right.
Depth(s, i) == Cardinality({j \in 1..i : s[j].kind = "("}) - Cardinality({j \in 1..i : s[j].kind = ")"})
Outside(s) == {i \in 1..Len(s) : s[i].kind \in {"&&", "||"} /\ Depth(s, i) = 0}
LastOutside(s) == CHOOSE i \in Outside(s) : \A j \in Outside(s) : j <= i
Within(s) == SubSeq(s, 2, Len(s) - 1)

\* The tests that this reading knows: of the name and the type of a file, and
\* of the type of what it points to.
IsTest(s) ==
  \/ /\ Len(s) = 1 \/ (Len(s) = 3 /\ s[2].kind = "(" /\ s[3].kind = ")")
     /\ s[1].kind = "str" /\ s[1].val \in {"true", "false"}
  \/ /\ Len(s) = 4 /\ \A i \in {1, 3} : s[i].kind = "str"
     /\ s[2].kind = "(" /\ s[4].kind = ")" /\ s[1].val \in {"name", "type", "stat"}
     /\ s[1].val = "type" => s[3].val \in FileTypes

RECURSIVE IsExpr(_)
IsExpr(s) ==
  IF Outside(s) # {}
  THEN IsExpr(SubSeq(s, 1, LastOutside(s) - 1)) /\ IsExpr(SubSeq(s, LastOutside(s) + 1, Len(s)))
  ELSE \/ IsTest(s) /\ (s[1].val = "stat" => IsExpr(s[3].val))
       \/ s # <<>> /\ Head(s).kind = "!" /\ IsExpr(Tail(s))
       \/ Len(s) > 1 /\ Head(s).kind = "(" /\ Last(s).kind = ")" /\ IsExpr(Within(s))

RECURSIVE Holds(_, _)
Holds(s, file) ==
  IF Outside(s) # {}
  THEN LET k   == LastOutside(s)
           lhs == Holds(SubSeq(s, 1, k - 1), file)
           rhs == Holds(SubSeq(s, k + 1, Len(s)), file) IN
       IF s[k].kind = "&&" THEN lhs /\ rhs ELSE lhs \/ rhs
  ELSE CASE Head(s).kind = "!" -> ~Holds(Tail(s), file)
         [] Head(s).kind = "(" -> Holds(Within(s), file)
         [] OTHER -> CASE Head(s).val = "true"  -> TRUE
                       [] Head(s).val = "false" -> FALSE
                       [] Head(s).val = "name"  -> NameMatches(s[3].val, file.name)
                       [] Head(s).val = "type"  -> s[3].val = file.type
                       [] Head(s).val = "stat"  ->
                            file.target # "none" /\ Holds(s[3].val, [file EXCEPT !.type = file.target])

FileAt(p) ==
  LET to == StatSource(in.src, p) IN
  [name |-> Last(p), type |-> in.src[p].buf.type,
   target |-> IF to = NoPath THEN "none" ELSE in.src[to].buf.type]

\* No other test is used.
RECURSIVE OnlyThese(_)
OnlyThese(s) ==
  LET IsArg(i) == i > 2 /\ s[i - 1].kind = "(" /\ s[i - 2].kind = "str" IN
  \A i \in 1..Len(s) :
    s[i].kind = "str" =>
      IF IsArg(i) THEN s[i - 2].val = "stat" => OnlyThese(s[i].val)
      ELSE s[i].val \in {"true", "false", "name", "type", "stat"}

\* The expression of the option "prune@expression".
Line == in.opts[1].line
PruneExpr == SubSeq(Line, 3, Len(Line))
LonePrune ==
  /\ Len(in.opts) = 1 /\ in.opts[1].opt = "action" /\ Len(in.sources) = 1 /\ in.old = <<>>
  /\ Len(Line) >= 2 /\ Line[1] = [kind |-> "str", val |-> "prune"] /\ Line[2].kind = "@"
  /\ OnlyThese(PruneExpr)

(* A prune action with a test expression, parsed into a tree (parse_expr,  *)
(* get_atom, parse_test) that is evaluated on every entry from the leaves  *)
(* up (eval_expr, dir_scan4), removes exactly the files for which the      *)
(* expression holds as it reads, && and || from left to right with equal   *)
(* precedence and ! before both, and what is below them; what is not an    *)
(* expression ends the program.                                            *)
PruneExact ==
  LonePrune =>
    /\ phase = "exit" => ~IsExpr(PruneExpr)
    /\ phase = "scan5" =>
         /\ IsExpr(PruneExpr)
         /\ {t.ents[e].origin : e \in Live} =
              {p \in Storable : \A n \in (Len(in.sources[1].path) + 1)..Len(p) :
                                  ~Holds(PruneExpr, FileAt(SubSeq(p, 1, n)))}
=============================================================================
