----------------------------- MODULE ActionEval -----------------------------
(***************************************************************************)
(* Evaluation of parsed actions on the in-core tree (action.c): the tests, *)
(* the attribute actions, and the move, prune and empty actions.  The      *)
(* context a test sees (struct action_data) is the record a.               *)
(***************************************************************************)
EXTENDS ActionParser, InCore, PathLists

\* eval_actions, eval_move_actions ...: the context of an entry.
ActionData(t, src, e) ==
  [name |-> t.ents[e].name, pathname |-> Pathname(t, e), subpath |-> Subpathname(t, e),
   buf |-> t.inodes[t.ents[e].inode].buf, depth |-> t.dirs[t.ents[e].our_dir].depth,
   ent |-> e, src |-> src]

\* file_type_match
FileTypeMatch(type, types) ==
  CASE types = "dir" -> type = "d"
    [] types = "reg" -> type = "f"
    [] types = "all" -> type # "l"
    [] types = "lnk" -> type = "l"
    [] OTHER -> TRUE

\* follow_path: the entry a relative path leads to from directory d, every
\* symbolic link on the way followed; 0 when it leaves the filesystem or
\* does not exist.  ent is the entry of d, 0 when ".." was the last step.
RECURSIVE FollowPath(_, _, _), WalkPath(_, _, _, _)
FollowPath(t, d, path) == IF path.abs THEN 0 ELSE WalkPath(t, d, 0, path.comps)

WalkPath(t, d, ent, comps) ==
  IF comps = <<>> THEN IF ent = 0 THEN t.dirs[d].dir_ent ELSE ent
  ELSE LET c == Head(comps)
           found == Lookup(t, d, c) IN
       CASE c = "." -> WalkPath(t, d, ent, Tail(comps))
         [] c = ".." ->
              IF t.dirs[d].depth > 1
              THEN WalkPath(t, t.ents[t.dirs[d].dir_ent].our_dir, 0, Tail(comps)) ELSE 0
         [] c \notin {".", ".."} /\ found = 0 -> 0
         [] OTHER ->
              LET inode == t.inodes[t.ents[found].inode]
                  real  == IF inode.buf.type = "l" THEN FollowPath(t, d, inode.link)
                           ELSE found IN
              IF real = 0 THEN 0
              ELSE IF IsDir(t, real) THEN WalkPath(t, t.ents[real].dir, real, Tail(comps))
              ELSE IF Tail(comps) = <<>> THEN real ELSE 0

\* TEST_VAR_FN and TEST_VAR_RANGE_FN
Compare(number, v) ==
  CASE number.range = "eq"      -> v = number.size
    [] number.range = "less"    -> v < number.size
    [] number.range = "greater" -> v > number.size

PathMatches(pattern, path) ==
  Len(pattern) = Len(path) /\ \A i \in 1..Len(path) : NameMatches(pattern[i], path[i])

\* subpathname_fn: as many leading components as the pattern has.
SubpathMatches(pattern, path) ==
  PathMatches(pattern, SubSeq(path, 1, IF Len(pattern) < Len(path) THEN Len(pattern)
                                       ELSE Len(path)))

\* perm_fn
PermMatches(data, perm) ==
  CASE data.op = "exact" -> perm = data.mode
    [] data.op = "all"   -> data.mode \subseteq perm
    [] OTHER             -> data.mode = {} \/ perm \cap data.mode # {}

\* The number a numeric test reads.
TestVar(t, test, a) ==
  CASE test \in {"size", "filesize", "size_range"} -> a.buf.size
    [] test = "inode" -> a.buf.ino
    [] test \in {"uid", "uid_range"} -> a.buf.uid
    [] test = "gid" -> a.buf.gid
    [] test \in {"depth", "depth_range"} -> a.depth
    [] OTHER -> t.dirs[t.ents[a.ent].dir].count

\* The types of file that a numeric test looks at.
TestTypes(test) ==
  CASE test = "filesize" -> "reg"
    [] test \in {"dircount", "dircount_range"} -> "dir"
    [] OTHER -> "all_lnk"

\* eval_fn: the entry the path of eval leads to.
EvalTarget(t, path, a) ==
  LET our == t.ents[a.ent].our_dir IN
  IF path.abs
  THEN IF path.comps = <<>> THEN t.dirs[1].dir_ent
       ELSE FollowPath(t, 1, [path EXCEPT !.abs = FALSE])
  ELSE IF path.comps # <<>> /\ Head(path.comps) = ".."
  THEN IF Len(path.comps) = 1 THEN t.dirs[our].dir_ent
       ELSE FollowPath(t, our, [path EXCEPT !.comps = Tail(@)])
  ELSE IF a.buf.type # "d" THEN 0 ELSE FollowPath(t, t.ents[a.ent].dir, path)

\* stat(2) of a source path: symbolic links are followed.  External.
StatSource(src, path) ==
  CASE path \notin DOMAIN src -> NoPath
    [] src[path].buf.type = "l" -> src[path].points
    [] OTHER -> path

\* file_fn and exec_fn: the program they run is external, and accepts the
\* files with the name it is given.
FileFn(arg, a) == arg = a.name
ExecFn(arg, a) == arg = a.name

\* Where the symbolic link the test looks at leads to, 0 for nowhere.
LinkTarget(t, a) ==
  FollowPath(t, t.ents[a.ent].our_dir, t.inodes[t.ents[a.ent].inode].link)

ExistsFn(t, a) == a.buf.type # "l" \/ LinkTarget(t, a) # 0
AbsoluteFn(t, a) == a.buf.type = "l" /\ t.inodes[t.ents[a.ent].inode].link.abs

\* eval_expr and the test functions.  The evaluation of && and || stops at
\* the operand that decides.
RECURSIVE EvalExpr(_, _, _), StatFn(_, _, _), ReadlinkFn(_, _, _), TestFn(_, _, _)
EvalExpr(t, e, a) ==
  CASE e.type = "atom" -> TestFn(t, e, a)
    [] e.type = "not"  -> ~EvalExpr(t, e.expr, a)
    [] OTHER -> LET match == EvalExpr(t, e.lhs, a) IN
                IF (e.op = "&&" /\ match) \/ (e.op = "||" /\ ~match)
                THEN EvalExpr(t, e.rhs, a) ELSE match

\* The expression on the file the entry leads to, in the source ...
StatFn(t, expr, a) ==
  LET to == StatSource(a.src, a.pathname) IN
  to # NoPath /\ EvalExpr(t, expr, [a EXCEPT !.buf = a.src[to].buf])

\* ... and inside the filesystem being built.
Inside(t, expr, a, f) == f # 0 /\ EvalExpr(t, expr, ActionData(t, a.src, f))
ReadlinkFn(t, expr, a) == a.buf.type = "l" /\ Inside(t, expr, a, LinkTarget(t, a))

TestFn(t, e, a) ==
  LET test == e.test
      d    == e.data IN
  CASE test = "true"  -> TRUE
    [] test = "false" -> FALSE
    [] test = "name"  -> NameMatches(e.argv[1].val, a.name)
    [] test = "type"  -> a.buf.type = e.argv[1].val
    [] test = "pathname"    -> PathMatches(e.argv[1].val.comps, a.subpath)
    [] test = "subpathname" -> SubpathMatches(e.argv[1].val.comps, a.subpath)
    [] test \in NumberTests ->
         FileTypeMatch(a.buf.type, TestTypes(test)) /\ Compare(d, TestVar(t, test, a))
    [] test \in RangeTests ->
         /\ FileTypeMatch(a.buf.type, TestTypes(test))
         /\ d.start <= TestVar(t, test, a) /\ TestVar(t, test, a) <= d.end
    [] test = "perm" -> PermMatches(d, a.buf.perm)
    [] test = "file"     -> FileFn(e.argv[1].val, a)
    [] test = "exec"     -> ExecFn(e.argv[1].val, a)
    [] test = "exists"   -> ExistsFn(t, a)
    [] test = "absolute" -> AbsoluteFn(t, a)
    [] test = "stat"     -> StatFn(t, d.expr, a)
    [] test = "readlink" -> ReadlinkFn(t, d.expr, a)
    [] test = "eval"     -> Inside(t, d.expr, a, EvalTarget(t, e.argv[1].val, a))

\* eval_expr_top on the entry e.
Matches(t, src, spec, e) == EvalExpr(t, spec.expr, ActionData(t, src, e))

(***************************************************************************)
(* Attribute actions, exclude, prune and empty.                            *)
(***************************************************************************)

\* frag_action ... mode_action: the run_action functions.
RunAction(t, spec, e) ==
  LET i == t.ents[e].inode
      inode == t.inodes[i]
      new == CASE spec.name = "fragments"            -> [inode EXCEPT !.no_fragments = FALSE]
               [] spec.name = "no_fragments"         -> [inode EXCEPT !.no_fragments = TRUE]
               [] spec.name = "always_use_fragments" ->
                    [inode EXCEPT !.always_use_fragments = TRUE]
               [] spec.name = "dont_always_use_fragments" ->
                    [inode EXCEPT !.always_use_fragments = FALSE]
               [] spec.name = "compressed"   -> [inode EXCEPT !.noD = FALSE, !.noF = FALSE]
               [] spec.name = "uncompressed" -> [inode EXCEPT !.noD = TRUE, !.noF = TRUE]
               [] spec.name = "uid"  -> [inode EXCEPT !.buf.uid = spec.data.id]
               [] spec.name = "gid"  -> [inode EXCEPT !.buf.gid = spec.data.id]
               [] spec.name = "guid" -> [inode EXCEPT !.buf.uid = spec.data.id,
                                                      !.buf.gid = spec.data.gid]
               [] spec.name = "mode" ->
                    [inode EXCEPT !.buf.perm = ModeExecute(spec.data.ops, inode.buf.type = "d", @)]
               [] OTHER -> inode IN
  [t EXCEPT !.inodes[i] = new]

\* eval_actions: each action in turn, a later one seeing what an earlier
\* one changed.
EvalActions(t, src, specs, e) ==
  LET type == t.inodes[t.ents[e].inode].buf.type
      One(s, spec) ==
        IF FileTypeMatch(type, ActionTable[spec.name].types) /\ Matches(s, src, spec, e)
        THEN RunAction(s, spec, e) ELSE s IN
  ForEach(One, t, specs)

\* eval_frag_actions: the fragment list a file's tail end goes to, 0 being
\* the default one.
EvalFragActions(t, src, specs, e) ==
  LET hits == {i \in 1..Len(specs) : Matches(t, src, specs[i], e)} IN
  IF hits = {} THEN 0 ELSE CHOOSE i \in hits : \A j \in hits : i <= j

\* eval_exclude_actions: the entry has a stat buffer but no inode yet.
EvalExcludeActions(t, src, specs, e, buf) ==
  LET a == [name |-> t.ents[e].name, pathname |-> Pathname(t, e),
            subpath |-> Subpathname(t, e), buf |-> buf,
            depth |-> t.dirs[t.ents[e].our_dir].depth, ent |-> e, src |-> src] IN
  \E i \in 1..Len(specs) : EvalExpr(t, specs[i].expr, a)

\* eval_prune_actions
EvalPruneActions(t, src, specs, e) == \E i \in 1..Len(specs) : Matches(t, src, specs[i], e)

\* eval_empty_actions: the directory is empty, and for the reason asked for.
EvalEmptyActions(t, src, specs, e) ==
  LET dir == t.dirs[t.ents[e].dir] IN
  /\ dir.count = 0
  /\ \E i \in 1..Len(specs) :
       /\ specs[i].data.val = "excluded" => dir.excluded > 0
       /\ specs[i].data.val = "source" => dir.excluded = 0
       /\ Matches(t, src, specs[i], e)

(***************************************************************************)
(* Move actions.  A move is [ent, ops, dest, name] with ops a subset of    *)
(* {"rename", "move"}.                                                     *)
(***************************************************************************)

\* The walk of eval_move: down the pathname as far as there are directories.
\* comp is the component it stopped at, NoName when it reached the end.
RECURSIVE WalkMove(_, _, _)
WalkMove(t, d, comps) ==
  IF comps = <<>> THEN [dest |-> d, comp |-> NoName, rest |-> <<>>]
  ELSE LET c == Head(comps)
           found == Lookup(t, d, c) IN
       CASE c = "." -> WalkMove(t, d, Tail(comps))
         [] c = ".." -> WalkMove(t, IF t.dirs[d].depth > 1
                                    THEN t.ents[t.dirs[d].dir_ent].our_dir ELSE d, Tail(comps))
         [] OTHER -> IF found # 0 /\ IsDir(t, found)
                     THEN WalkMove(t, t.ents[found].dir, Tail(comps))
                     ELSE [dest |-> d, comp |-> c, rest |-> Tail(comps)]

\* eval_move: one matching move action merged into the move of the entry.
\* A rename that is taken stays taken when the move beside it conflicts.
EvalMove(t, move, path) ==
  LET our == t.ents[move.ent].our_dir
      w   == WalkMove(t, IF path.abs THEN 1 ELSE our, path.comps)
      renamed == IF w.comp = NoName THEN move
                 ELSE [move EXCEPT !.name = w.comp, !.ops = @ \cup {"rename"}] IN
  IF w.comp # NoName /\ (w.rest # <<>> \/ ("rename" \in move.ops /\ w.comp # move.name))
  THEN move
  ELSE IF w.dest = our \/ "move" \in move.ops THEN renamed
  ELSE [renamed EXCEPT !.dest = w.dest, !.ops = @ \cup {"move"}]

MoveDest(t, m) == IF "move" \in m.ops THEN m.dest ELSE t.ents[m.ent].our_dir
MoveName(t, m) == IF "rename" \in m.ops THEN m.name ELSE t.ents[m.ent].name

\* subdirectory: dest is source or below it, judged by their subpaths.
Subdirectory(t, source, dest) ==
  source # 0 /\ IsPrefix(t.dirs[source].subpath, t.dirs[dest].subpath)

\* eval_move_actions: the moves (none or one) the entry is to make.
MoveList(t, m) ==
  IF \/ m.ops = {}
     \/ Lookup(t, MoveDest(t, m), MoveName(t, m)) # 0
     \/ Subdirectory(t, t.ents[m.ent].dir, MoveDest(t, m))
  THEN <<>> ELSE <<m>>

EvalMoveActions(t, src, specs, e) ==
  LET One(m, spec) == IF Matches(t, src, spec, e) THEN EvalMove(t, m, spec.argv[1].val) ELSE m IN
  MoveList(t, ForEach(One, [ent |-> e, ops |-> {}, dest |-> 0, name |-> NoName], specs))

\* move_dir: the subpaths of a directory and of those below it.
RECURSIVE MoveDir(_, _)
MoveDir(t, e) ==
  LET d  == t.ents[e].dir
      t1 == [t EXCEPT !.dirs[d].subpath = Subpathname(t, e)]
      One(s, x) == IF s.ents[x].dir # 0 THEN MoveDir(s, x) ELSE s IN
  ForEach(One, t1, t1.dirs[d].list)

\* The MOVE half of move_file: from one list to the other, the counts, and
\* the source path kept in nonstandard_pathname.
MoveToDest(t, m) ==
  LET e  == m.ent
      t1 == Unlink(t, e)
      keep == t.ents[e].nonstandard = NoPath IN
  [t1 EXCEPT !.dirs[m.dest].list = <<e>> \o @, !.dirs[m.dest].count = @ + 1,
             !.dirs[m.dest].directory_count = IF IsDir(t, e) THEN @ + 1 ELSE @,
             !.ents[e].our_dir = m.dest,
             !.ents[e].nonstandard = IF keep THEN Pathname(t, e) ELSE @,
             !.ents[e].source_name = IF keep THEN NoName ELSE @]

\* The RENAME half: the old name is kept while it still leads to the source.
RenameEntry(t, m) ==
  LET ent == t.ents[m.ent] IN
  [t EXCEPT !.ents[m.ent].source_name =
                IF ent.nonstandard = NoPath /\ @ = NoName THEN ent.name ELSE @,
            !.ents[m.ent].name = m.name]

\* move_file
MoveFile(t, m) ==
  LET moved   == IF "move" \in m.ops THEN MoveToDest(t, m) ELSE t
      renamed == IF "rename" \in m.ops THEN RenameEntry(moved, m) ELSE moved IN
  IF "move" \in m.ops /\ Subdirectory(t, t.ents[m.ent].dir, m.dest) THEN t
  ELSE IF t.ents[m.ent].dir # 0 THEN MoveDir(renamed, m.ent) ELSE renamed

\* Mutant of DoMove: the check made by eval_move_actions is trusted.
DoMoveUnchecked(t, m) == MoveFile(t, m)

\* One iteration of do_move_actions: the destination is looked up again.
DoMove(t, m) ==
  IF Lookup(t, MoveDest(t, m), MoveName(t, m)) # 0 THEN t ELSE MoveFile(t, m)
=============================================================================
