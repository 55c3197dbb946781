---------------------------- MODULE MCSourceTree ----------------------------
(***************************************************************************)
(* Inputs for SourceTree: one small source tree with a directory in a      *)
(* directory, an empty directory, hard links, symbolic links and a file    *)
(* that cannot be opened, under families of options chosen so that they    *)
(* interfere.                                                              *)
(***************************************************************************)
EXTENDS SourceTree

MCNameOrder == <<"", "a", "a_1", "b", "c", "f", "f_1", "g", "l", "m", "n", "p", "q", "s", "s_1",
                 "u", "x", "x_1", "y", "z">>
MCPrioMin == -1
MCPrioMax == 1
MCLdirCount == 3

(* The source file systems. *)
Buf(type, ino) == [type |-> type, ino |-> ino, uid |-> 5, gid |-> 5,
                   perm |-> {"ur", "uw", "gr"}, size |-> ino]
Node(type, ino) == [buf |-> Buf(type, ino), kids |-> <<>>, link |-> NoLink,
                    points |-> NoPath, opens |-> TRUE]
Dir(ino, kids)  == [Node("d", ino) EXCEPT !.kids = kids]
Link(ino, abs, comps, points) ==
  [Node("l", ino) EXCEPT !.link = [abs |-> abs, comps |-> comps], !.points = points]

\* s/{a/{c/{y}, l, x}, b/{x}, f, g, z/}: g is a hard link of f, b/x of a/x.
Src(kids) ==
  (<<"s">> :> Dir(1, kids)) @@ (<<"s", "a">> :> Dir(2, <<"x", "c", "l">>))
  @@ (<<"s", "a", "c">> :> Dir(3, <<"y">>)) @@ (<<"s", "a", "c", "y">> :> Node("f", 13))
  @@ (<<"s", "a", "x">> :> Node("f", 12)) @@ (<<"s", "b">> :> Dir(4, <<"x">>))
  @@ (<<"s", "a", "l">> :> Link(21, FALSE, <<"..", "b", "x">>, <<"s", "b", "x">>))
  @@ (<<"s", "b", "x">> :> Node("f", 12)) @@ (<<"s", "f">> :> Node("f", 11))
  @@ (<<"s", "g">> :> Node("f", 11)) @@ (<<"s", "z">> :> Dir(5, <<>>))

Kids == <<"f", "a", "z", "b", "g">>
Plain == Src(Kids)
Orders == {k \in [1..5 -> Range(Kids)] : \A i, j \in 1..5 : i # j => k[i] # k[j]}
\* One file vanishes before it is read, one cannot be opened, one directory
\* neither; an absolute and an unreadable symbolic link; a device node of an
\* unknown type.
Odd == [Plain EXCEPT ![<<"s">>].kids = <<"f", "a", "z", "b", "g", "u", "m", "l", "n", "q">>,
                     ![<<"s", "f">>].opens = FALSE, ![<<"s", "g">>].opens = FALSE,
                     ![<<"s", "b">>].opens = FALSE]
       @@ (<<"s", "u">> :> Node("?", 31)) @@ (<<"s", "m">> :> Link(22, TRUE, <<"a">>, NoPath))
       @@ (<<"s", "l">> :> Node("l", 23)) @@ (<<"s", "q">> :> Node("c", 24))

\* The source file system of an input, named by the order of its root
\* directory, or by what is special about it.
Named(input) ==
  [input EXCEPT !.src = CASE @ = <<"odd">>    -> Odd
                          [] @ = <<"closed">> -> [Plain EXCEPT ![<<"s">>].opens = FALSE]
                          [] OTHER            -> Src(@)]

Base == [src |-> Kids, sources |-> <<[path |-> <<"s">>, base |-> "s"]>>, old |-> <<>>,
         first_no |-> 1, root_no |-> 0, old_exclude |-> FALSE, sorted |-> FALSE,
         changes |-> 0, opts |-> <<>>, dummy |-> Buf("d", 0)]

(* Tokens and lines. *)
S(v) == <<[kind |-> "str", val |-> v]>>
O(k) == <<[kind |-> k]>>
Arg(v) == O("(") \o S(v) \o O(")")
Args2(v, w) == O("(") \o S(v) \o O(",") \o S(w) \o O(")")
P(comps) == [abs |-> FALSE, comps |-> comps]
R(comps) == [abs |-> TRUE, comps |-> comps]
Num(pre, n, post) == [pre |-> pre, num |-> n, post |-> post, user |-> ""]
Name(n) == S("name") \o Arg(n)
Type(c) == S("type") \o Arg(c)
Action(line) == [opt |-> "action", line |-> line]
Move(path, test) == Action(S("move") \o Arg(path) \o O("@") \o test)

\* Every pair of moves is tried, in both orders.
Moves == {
  Move(R(<<"b">>), Name("a")), Move(R(<<"a">>), Name("b")),
  Move(R(<<"a", "c">>), Name("a")), Move(R(<<"z", "q">>), Name("c")),
  Move(P(<<"..", "x">>), Name("y")), Move(P(<<"n">>), Name("f")),
  Move(R(<<"z">>), Type("f")), Move(P(<<"..", ".", "..">>), Name("x")),
  Move(R(<<"b", "x">>), Name("y")), Move(R(<<"f", "p">>), Name("z")),
  Move(P(<<"p">>), Name("a")), Move(R(<<>>), S("depth") \o Arg(Num(">", 1, "")))}

Prune(test) == Action(S("prune") \o O("@") \o test)
Empty(args) == Action(S("empty") \o args \o O("@") \o S("true"))
Prunes == {
  Prune(Name("x")), Prune(Name("c") \o O("||") \o Name("f") \o O("&&") \o Type("d")),
  Prune(S("readlink") \o Arg(Name("x"))), Prune(S("exists") \o O("&&") \o Type("l")),
  Prune(O("!") \o S("exists")), Prune(S("eval") \o Args2(P(<<"..">>), Name("a"))),
  Prune(S("eval") \o Args2(R(<<"b", "x">>), S("true")) \o O("&&") \o Name("z")),
  Prune(Type("f") \o O("&&") \o O("(") \o Name("y") \o O("||") \o O("!") \o Name("x") \o O(")")),
  Prune(S("dircount") \o Arg(Num("<", 2, ""))), Prune(S("stat") \o Arg(Type("f")))}

\* Expressions: every line of at most four symbols, and what can be made of
\* three operands with two operators, a pair of brackets and a negation.
Terms == {Name("x"), Type("d"), S("stat") \o Arg(Type("f"))}
Symbols == Terms \cup {S("true"), O("!"), O("("), O(")"), O("&&"), O("||")}
ShortLines == UNION {{FlattenSeq(f) : f \in [1..n -> Symbols]} : n \in 0..4}
Nots == {<<>>, O("!")}
LongLines ==
  UNION {{not \o x \o op \o y \o or \o z, not \o O("(") \o x \o op \o y \o O(")") \o or \o z,
          x \o op \o not \o y \o or \o z, x \o op \o not \o O("(") \o y \o or \o z \o O(")"),
          S("stat") \o Arg(x \o op \o not \o y) \o or \o z} :
         x \in Terms, y \in Terms, z \in Terms, op \in {O("&&"), O("||")}, or \in {O("&&"), O("||")},
         not \in Nots}
Empties == {Empty(<<>>), Empty(Arg("source")), Empty(Arg("excluded"))}

(* Attribute actions and the tests they do not share with the others. *)
Other(name, args, test) == Action(S(name) \o args \o O("@") \o test)
Octal(ok, pre) == [octal |-> TRUE, bits |-> {"ur", "ow"}, ok |-> ok, pre |-> pre]
Sym(chars, pre) == [octal |-> FALSE, chars |-> chars, pre |-> pre]
Perm(pre) == S("perm") \o Arg(Sym(<<"u", "=", "r">>, pre))
Others == {
  Other("uid", Arg(Num("", 7, "")), Name("x") \o O("||") \o Name("a")),
  Other("gid", Arg([Num("", NoNumber, "") EXCEPT !.user = "root"]), S("uid") \o Arg(Num("", 7, ""))),
  Other("guid", Args2(Num("", 8, ""), Num("", 9, "")), S("uid_range") \o Args2(Num("", 1, ""), Num("", 7, ""))),
  Other("mode", Arg(Octal(TRUE, "")), O("!") \o Perm("/")),
  Other("mode", Args2(Sym(<<"u", "+", "x", "-", "w">>, ""), Sym(<<"=", "u">>, "")), Perm("-")),
  Other("mode", Arg(Sym(<<"a", "-", "r", "X", "+", "t">>, "")), Perm("")),
  Other("no_fragments", <<>>, S("subpathname") \o Arg(P(<<"a", "*">>))),
  Other("uncompressed", <<>>, S("pathname") \o Arg(R(<<"*", "x">>)) \o O("&&") \o S("file") \o Arg("x")),
  Other("always_use_fragments", <<>>, O("(") \o S("inode") \o Arg(Num("<", 13, "")) \o O("||") \o S("false") \o O(")")
           \o O("&&") \o S("size_range") \o Args2(Num("", 11, ""), Num("", 1, "k"))),
  Other("fragment", Arg("g1"), Name("f")), Other("fragment", Arg("g2"), Type("f")),
  Other("noop", <<>>, S("gid") \o Arg(Num("+", 8, "")))}

\* Lines that do not parse.
Bad == {
  <<>>, O("@"), S("mv") \o O("@") \o S("true"), S("prune") \o S("true"), S("prune") \o O("@"),
  S("prune") \o Arg("x") \o O("@") \o S("true"), S("move") \o O("(") \o S("x") \o O("@"),
  S("empty") \o Arg("none") \o O("@") \o S("true"), S("prune") \o O("@") \o S("nosuch"),
  S("prune") \o O("@") \o S("true") \o O("&&"), S("prune") \o O("@") \o S("true") \o S("true"),
  S("prune") \o O("@") \o O("(") \o S("true"), S("prune") \o O("@") \o S("true") \o O(")"),
  S("prune") \o O("@") \o S("size") \o Arg(Num("", 1, "q")),
  S("prune") \o O("@") \o S("size_range") \o Args2(Num("<", 1, ""), Num("", 2, "")),
  S("prune") \o O("@") \o S("type") \o Arg("x"), S("prune") \o O("@") \o S("perm") \o O("(") \o O(")"),
  S("prune") \o O("@") \o S("perm") \o Arg(Octal(TRUE, "-")),
  S("prune") \o O("@") \o S("stat") \o Arg(O("!")), S("exclude") \o O("@") \o S("exists"),
  S("exclude") \o O("@") \o S("stat") \o Arg(S("exists")),
  S("uid") \o Arg(Num("", UidLimit, "")) \o O("@") \o S("true"),
  S("mode") \o Arg(Octal(FALSE, "")) \o O("@") \o S("true"),
  S("mode") \o Arg(Sym(<<"u">>, "")) \o O("@") \o S("true"),
  S("mode") \o Arg(Sym(<<"u", "+", "q">>, "")) \o O("@") \o S("true")}

(* Excludes, pseudo files and sort lists. *)
Exclude(path, sticky) == [opt |-> "exclude", path |-> path, sticky |-> sticky, abs |-> FALSE]
Excludes == {
  Exclude(<<"a">>, FALSE), Exclude(<<"a", "x">>, FALSE), Exclude(<<"*", "x">>, FALSE),
  Exclude(<<"a", "c", "y">>, FALSE), Exclude(<<"a", "*", "*">>, FALSE), Exclude(<<"x">>, TRUE),
  Exclude(<<"c", "q">>, TRUE), Exclude(<<"*", "c">>, FALSE)}
Absolute == [Exclude(<<"s", "a">>, FALSE) EXCEPT !.abs = TRUE]
ExcludeAction(test) == Action(S("exclude") \o O("@") \o test)

Pseudo(path, type, args) ==
  [opt |-> "pseudo", def |-> [path |-> path, type |-> type, mode |-> {"ur"}, uid |-> 6,
                              args |-> args, inrange |-> TRUE]]
Pseudos == {
  Pseudo(<<"n">>, "d", 0), Pseudo(<<"n">>, "f", 1), Pseudo(<<"n", "p">>, "d", 0),
  Pseudo(<<"n", "p", "q">>, "f", 2), Pseudo(<<"n", "p">>, "b", 2), Pseudo(<<"a">>, "m", 0),
  Pseudo(<<"a", "q">>, "c", 2), Pseudo(<<"a", "x">>, "m", 0), Pseudo(<<"f">>, "d", 0),
  Pseudo(<<"f", "p">>, "f", 1)}
BadPseudos == {
  Pseudo(<<>>, "d", 0), Pseudo(<<"n">>, "z", 0), Pseudo(<<"n">>, "b", 1),
  Pseudo(<<"n">>, "f", 0), Pseudo(<<"n">>, "m", 3)}

Sort(path, abs, priority) == [opt |-> "sort", path |-> path, abs |-> abs, priority |-> priority]
Sorts == {
  Sort(<<"a">>, FALSE, 1), Sort(<<"a", "x">>, FALSE, -1), Sort(<<"b", "x">>, FALSE, 1),
  Sort(<<"s", "f">>, TRUE, 1), Sort(<<"s", "z">>, FALSE, 0), Sort(<<"s", "a", "c">>, FALSE, -1),
  Sort(<<"q">>, FALSE, 1)}

(* The families. *)
With(o) == [Base EXCEPT !.opts = o]
Pairs(A) == {<<x, y>> : x \in A, y \in A}
Old == <<[name |-> "f", type |-> "f", number |-> 3], [name |-> "s", type |-> "d", number |-> 2],
         [name |-> "u", type |-> "l", number |-> 1]>>
Appended == [Base EXCEPT !.old = Old, !.first_no = 5, !.root_no = 4]
Two == [Base EXCEPT !.sources = <<[path |-> <<"s">>, base |-> "s"],
                                  [path |-> <<"s", "a">>, base |-> "a"],
                                  [path |-> <<"s", "b", "x">>, base |-> "x"],
                                  [path |-> <<"s", "a", "x">>, base |-> "x"],
                                  [path |-> <<"s", "b">>, base |-> NoName]>>]

Cases ==
  {[Base EXCEPT !.src = s] : s \in Orders \cup {<<"odd">>, <<"closed">>}}
  \cup {With(p) : p \in Pairs(Moves)}
  \cup {With(<<m, p, e>>) : m \in Moves, p \in Prunes, e \in Empties}
  \cup {With(<<x, y, z>>) : x \in Excludes, y \in Excludes, z \in Excludes}
  \cup {With(<<e, x>>) : e \in Empties, x \in Excludes}
  \cup {[With(p) EXCEPT !.old_exclude = TRUE] : p \in Pairs(Excludes \cup {Absolute})}
  \cup {With(<<x, Absolute>>) : x \in Excludes}
  \cup {With(<<Prune(l)>>) : l \in ShortLines \cup LongLines}
  \cup {With(<<ExcludeAction(Name("x") \o O("&&") \o S("depth_range") \o Args2(Num("", 1, ""), Num("", 2, "")))>>)}
  \cup {With(<<x, y, z>>) : x \in Pseudos, y \in Pseudos, 
                           z \in {Pseudo(<<"n", "p">>, "m", 0), Move(P(<<"n">>), Name("f"))}}
  \cup {With(p) : p \in Pairs(Others)}
  \cup {With(<<Action(l)>>) : l \in Bad} \cup {With(<<p>>) : p \in BadPseudos}
  \cup {[With(p) EXCEPT !.sorted = TRUE] : p \in Pairs(Sorts)}
  \cup {[With(<<Sort(<<"x">>, FALSE, 1)>>) EXCEPT !.sorted = TRUE, !.sources = Two.sources],
        [With(<<Sort(<<"x">>, FALSE, 2)>>) EXCEPT !.sorted = TRUE]}
  \cup {[b EXCEPT !.opts = <<o>>] : b \in {Appended, Two, [Appended EXCEPT !.sources = Two.sources]},
                                  o \in {Move(R(<<>>), Name("x")), Prune(Name("c")), Pseudo(<<"f">>, "m", 0),
                                         Pseudo(<<"u">>, "d", 0), Exclude(<<"a">>, FALSE)}}
  \cup {[b EXCEPT !.changes = 2] : b \in {Base, [With(<<Sort(<<"b">>, FALSE, 1)>>) EXCEPT !.sorted = TRUE]}}
MCInputs == {Named(c) : c \in Cases}

\* Non-anchored excludes, alone.
MCStickyInputs ==
  {Named(With(<<Exclude(<<"x">>, TRUE)>>)), Named(With(<<Exclude(<<"b", "q">>, TRUE)>>))}
=============================================================================
