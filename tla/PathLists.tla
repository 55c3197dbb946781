----------------------------- MODULE PathLists ------------------------------
(***************************************************************************)
(* The two tries of path names Mksquashfs builds from its options: the     *)
(* exclude lists (struct pathname, mksquashfs.c) and the pseudo file       *)
(* definitions (struct pseudo, pseudo.c), with the functions that walk     *)
(* them beside the source tree.  A trie is a sequence of entries in the    *)
(* order they were added; sub = <<>> is the NULL pointer, since a trie     *)
(* that exists has at least one name.                                      *)
(***************************************************************************)
EXTENDS Integers, Sequences, SequencesExt

\* fnmatch or regexec: a literal name or "*".  External to the code.
NameMatches(pattern, name) == pattern = "*" \/ pattern = name

IndexOf(trie, name) ==
  LET at == {i \in 1..Len(trie) : trie[i].name = name} IN
  IF at = {} THEN 0 ELSE CHOOSE i \in at : \A j \in at : i <= j

(***************************************************************************)
(* Excludes.                                                               *)
(***************************************************************************)

\* add_path: an exclude that is already there subsumes the longer ones.
RECURSIVE AddPath(_, _)
AddPath(paths, target) ==
  LET i    == IndexOf(paths, Head(target))
      leaf == Len(target) = 1 IN
  CASE i = 0 ->
         Append(paths, [name |-> Head(target),
                        sub |-> IF leaf THEN <<>> ELSE AddPath(<<>>, Tail(target))])
    [] i # 0 /\ paths[i].sub = <<>> -> paths
    [] i # 0 /\ paths[i].sub # <<>> /\ leaf -> [paths EXCEPT ![i].sub = <<>>]
    [] OTHER -> [paths EXCEPT ![i].sub = AddPath(@, Tail(target))]

\* excluded_match: match is TRUE when a leaf matches; new collects the
\* sub-tries to go on with.  sticky stands for new == NULL.
ExcludedMatch(name, path, sticky) ==
  LET hits == SelectSeq(path, LAMBDA p : NameMatches(p.name, name)) IN
  [match |-> \E i \in 1..Len(hits) : sticky \/ hits[i].sub = <<>>,
   new |-> [i \in 1..Len(hits) |-> hits[i].sub]]

\* Mutant of Excluded: only the first trie of the search set is followed.
ExcludedFirst(name, paths, sticky) ==
  LET each == [n \in 1..Len(paths) |-> ExcludedMatch(name, paths[n], FALSE)]
      out  == ExcludedMatch(name, sticky, TRUE).match \/ \E n \in 1..Len(paths) : each[n].match IN
  [match |-> out, new |-> IF out \/ paths = <<>> THEN <<>> ELSE each[1].new]

\* excluded: first the sticky excludes, then every trie of the search set.
Excluded(name, paths, sticky) ==
  LET each == [n \in 1..Len(paths) |-> ExcludedMatch(name, paths[n], FALSE)]
      out  == \/ ExcludedMatch(name, sticky, TRUE).match
              \/ \E n \in 1..Len(paths) : each[n].match IN
  [match |-> out,
   new |-> IF out THEN <<>> ELSE FlattenSeq([n \in 1..Len(paths) |-> each[n].new])]

(***************************************************************************)
(* Pseudo files.  An entry has a definition dev (NoDev for none) and a     *)
(* sub-trie.                                                               *)
(***************************************************************************)
NoDev == [type |-> "none"]

\* add_pseudo: definitions that contradict an earlier one are ignored.
RECURSIVE AddPseudo(_, _, _, _)
AddPseudo(pseudo, dev, target, alltarget) ==
  LET i    == IndexOf(pseudo, Head(target))
      leaf == Len(target) = 1
      more == Tail(target) IN
  IF i = 0
  THEN Append(pseudo, [name |-> Head(target), pathname |-> alltarget,
                       dev |-> IF leaf THEN dev ELSE NoDev,
                       sub |-> IF leaf THEN <<>> ELSE AddPseudo(<<>>, dev, more, alltarget)])
  ELSE IF pseudo[i].sub = <<>>
  THEN IF ~leaf /\ pseudo[i].dev.type \in {"d", "m"}
       THEN [pseudo EXCEPT ![i].sub = AddPseudo(<<>>, dev, more, alltarget)]
       ELSE pseudo
  ELSE IF leaf
  THEN IF pseudo[i].dev.type = "none" /\ dev.type \in {"d", "m"}
       THEN [pseudo EXCEPT ![i].dev = dev, ![i].pathname = alltarget]
       ELSE pseudo
  ELSE [pseudo EXCEPT ![i].sub = AddPseudo(@, dev, more, alltarget)]

\* pseudo_subdir
PseudoSubdir(name, pseudo) ==
  LET i == IndexOf(pseudo, name) IN IF i = 0 THEN <<>> ELSE pseudo[i].sub

\* pseudo_readdir: the entries with a definition, in order.  Every directory
\* is scanned once, so its cursor is not kept.
PseudoReaddir(pseudo) == SelectSeq(pseudo, LAMBDA p : p.dev.type # "none")

\* read_pseudo_def: what the definition of a line must satisfy.  A line is
\* [path, type, mode, uid, args, inrange]: args is the number of arguments that
\* follow, inrange that mode, uid, gid, major and minor are in range.
PseudoDefOk(def) ==
  /\ def.path # <<>> /\ def.inrange
  /\ def.type \in {"b", "c", "d", "m", "f"}
  /\ def.type \in {"b", "c"} => def.args = 2
  /\ def.type \in {"d", "m"} => def.args = 0
  /\ def.type = "f" => def.args > 0

\* read_pseudo_def: the definition that is added, id numbering the dynamic
\* files (add_pseudo_file).
PseudoDev(def, id) ==
  [type |-> def.type, perm |-> def.mode, uid |-> def.uid,
   id |-> IF def.type = "f" THEN id ELSE 0]
=============================================================================
