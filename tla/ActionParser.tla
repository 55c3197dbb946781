---------------------------- MODULE ActionParser ----------------------------
(***************************************************************************)
(* The parser of Mksquashfs actions (action.c), "action(args)@expression", *)
(* as pure operators.  A line is a sequence of tokens: the characters of a *)
(* token, white space and quoting are left out.  An operator token is      *)
(* [kind |-> "&&"], a string token [kind |-> "str", val |-> v] where v is  *)
(* what the string spells: a name or pattern, a pathname [abs, comps], a   *)
(* number [pre, num, post], an octal mode [octal, bits, ok], a symbolic    *)
(* mode [octal, chars], or (for stat, readlink and eval) the tokens of a   *)
(* nested expression.  Parse functions take the remaining tokens (cur_ptr) *)
(* and return what they built with the tokens that remain.                 *)
(***************************************************************************)
EXTENDS Integers, Sequences, FiniteSets, SequencesExt

\* The NULL parse tree that every failed parse returns.
Null == [type |-> "null"]

\* get_token: the next token; the end of the line is a token of its own.
GetToken(s) == IF s = <<>> THEN [kind |-> "EOF"] ELSE Head(s)

\* peek_token looks at the next token and get_token then moves past it.
Past(s) == IF s = <<>> THEN s ELSE Tail(s)

\* free_parse_tree and create_expr: no right hand side, no expression.
CreateExpr(lhs, op, rhs) ==
  IF rhs = Null THEN Null
  ELSE [type |-> "op", op |-> op, lhs |-> lhs, rhs |-> rhs]

CreateUnaryOp(e) == IF e = Null THEN Null ELSE [type |-> "not", expr |-> e]

(***************************************************************************)
(* Arguments.  "(" has been read: strings separated by commas up to ")".   *)
(***************************************************************************)
RECURSIVE ReadArgs(_, _)
ReadArgs(s, argv) ==
  IF argv = <<>> /\ GetToken(s).kind = ")"
  THEN [ok |-> TRUE, argv |-> <<>>, rest |-> Past(s)]
  ELSE LET next == GetToken(Past(s))
           more == IF s = <<>> THEN argv ELSE Append(argv, Head(s)) IN
       CASE GetToken(s).kind # "str" -> [ok |-> FALSE, argv |-> argv, rest |-> s]
         [] OTHER ->
              CASE next.kind = ")" -> [ok |-> TRUE, argv |-> more,
                                       rest |-> Past(Past(s))]
                [] next.kind = "," -> ReadArgs(Past(Past(s)), more)
                [] OTHER -> [ok |-> FALSE, argv |-> more, rest |-> s]

(***************************************************************************)
(* Numbers: [range]number[size].                                           *)
(***************************************************************************)
NoNumber == -1

\* parse_number of action.c.  The multiplications are those of long long
\* values that do not overflow.
ParseNumber(arg) ==
  LET unit == [k |-> 1024, m |-> 1024 * 1024, g |-> 1024 * 1024 * 1024]
      range == CASE arg.pre \in {">", "+"} -> "greater"
                 [] arg.pre \in {"<", "-"} -> "less"
                 [] OTHER -> "eq" IN
  IF arg.num = NoNumber \/ arg.post \notin {"", "k", "m", "g"}
  THEN [ok |-> FALSE]
  ELSE [ok |-> TRUE, range |-> range,
        size |-> arg.num * (IF arg.post = "" THEN 1 ELSE unit[arg.post])]

\* parse_range_args: two numbers without a range specifier.
ParseRange(a, b) ==
  LET lo == ParseNumber(a)
      hi == ParseNumber(b) IN
  IF lo.ok /\ hi.ok /\ a.pre = "" /\ b.pre = ""
  THEN [ok |-> TRUE, start |-> lo.size, end |-> hi.size]
  ELSE [ok |-> FALSE]

\* parse_uid and parse_gid: a number in range, or the name of a user.  The
\* limit stands for 2^32.
UidLimit == 1000
ParseUid(v) ==
  CASE v.num # NoNumber /\ v.pre = "" /\ v.post = "" ->
         IF v.num >= 0 /\ v.num < UidLimit THEN v.num ELSE -1
    [] v.user = "root"  -> 0
    [] OTHER            -> -1

\* parse_uid_arg and parse_gid_arg, of the tests: a range is allowed, and
\* what is no number is the name of a user.
ParseUidArg(v) ==
  LET number == ParseNumber(v) IN
  IF number.ok THEN [number EXCEPT !.ok = number.size < UidLimit]
  ELSE [ok |-> v.user = "root", range |-> "eq", size |-> 0]

(***************************************************************************)
(* Modes.  The twelve permission bits are a set.                           *)
(***************************************************************************)
UBits == {"su", "ur", "uw", "ux"}
GBits == {"sg", "gr", "gw", "gx"}
OBits == {"t", "or", "ow", "ox"}
AllBits == UBits \cup GBits \cup OBits
XBits == {"ux", "gx", "ox"}
RwxOf == [u |-> <<"ur", "uw", "ux">>, g |-> <<"gr", "gw", "gx">>,
          o |-> <<"or", "ow", "ox">>]
PermBits == [r |-> {"ur", "gr", "or"}, w |-> {"uw", "gw", "ow"}, x |-> XBits,
             s |-> {"su", "sg"}, t |-> {"t"}]

\* The ownership specifiers of parse_sym_mode_arg; none means 0777.
MaskOf(who) ==
  IF who = <<>> THEN AllBits \ {"su", "sg", "t"}
  ELSE FoldLeft(LAMBDA m, c : CASE c = "u" -> m \cup UBits
                                [] c = "g" -> m \cup GBits
                                [] c = "o" -> m \cup OBits
                                [] OTHER   -> AllBits, {}, who)

\* The longest prefix of s whose members are in S.
Span(s, S) ==
  LET stop == {i \in 1..Len(s) : s[i] \notin S} IN
  IF stop = {} THEN s ELSE SubSeq(s, 1, (CHOOSE i \in stop : \A j \in stop : i <= j) - 1)

After(s, n) == SubSeq(s, n + 1, Len(s))

\* The operations of parse_sym_mode_arg: +, - or =, and what it applies to.
RECURSIVE ParseModeOps(_, _)
ParseModeOps(mask, cs) ==
  IF cs = <<>> THEN [ok |-> TRUE, ops |-> <<>>]
  ELSE
  LET body  == Tail(cs)
      copy  == body # <<>> /\ Head(body) \in {"u", "g", "o"}
      perms == IF copy THEN <<Head(body)>>
               ELSE Span(body, {"r", "w", "x", "s", "t", "X"})
      rest  == After(body, Len(perms))
      bits  == UNION {PermBits[perms[i]] : i \in {j \in 1..Len(perms) :
                                                  perms[j] \in DOMAIN PermBits}}
      more  == ParseModeOps(mask, rest) IN
  IF \/ Head(cs) \notin {"+", "-", "="}
     \/ ~copy /\ rest # <<>> /\ Head(rest) \notin {"+", "-", "="}
     \/ ~more.ok
  THEN [ok |-> FALSE]
  ELSE [ok |-> TRUE,
        ops |-> <<[op |-> Head(cs), copy |-> IF copy THEN Head(body) ELSE "",
                   bits |-> IF copy THEN {} ELSE bits \cap mask, mask |-> mask,
                   X |-> "X" \in Range(perms)]>> \o more.ops]

\* parse_sym_mode_arg
ParseSymModeArg(cs) ==
  LET who == Span(cs, {"u", "g", "o", "a"})
      ops == After(cs, Len(who)) IN
  IF ops = <<>> THEN [ok |-> FALSE] ELSE ParseModeOps(MaskOf(who), ops)

\* parse_octal_mode_args: one argument, in the range of twelve bits.
ParseOctalModeArgs(argv) ==
  IF Len(argv) = 1 /\ argv[1].val.ok
  THEN [ok |-> TRUE, ops |-> <<[op |-> "oct", copy |-> "", bits |-> argv[1].val.bits,
                                mask |-> {}, X |-> FALSE]>>]
  ELSE [ok |-> FALSE]

\* parse_sym_mode_args and parse_mode_args
ParseModeArgs(argv) ==
  IF argv = <<>> THEN [ok |-> FALSE]
  ELSE IF argv[1].val.octal THEN ParseOctalModeArgs(argv)
  ELSE LET parsed == [i \in 1..Len(argv) |-> ParseSymModeArg(argv[i].val.chars)] IN
       IF \A i \in DOMAIN parsed : parsed[i].ok
       THEN [ok |-> TRUE, ops |-> FlattenSeq([i \in DOMAIN parsed |-> parsed[i].ops])]
       ELSE [ok |-> FALSE]

\* mode_execute: the operations in turn on the permissions of a file.
ModeExecute(ops, isdir, perm) ==
  LET Copied(who, p) ==
        UNION {{RwxOf[c][i] : c \in {"u", "g", "o"}} :
               i \in {j \in 1..3 : RwxOf[who][j] \in p}}
      Step(p, o) ==
        LET mode == CASE o.copy # "" -> Copied(o.copy, p) \cap o.mask
                      [] o.X /\ (isdir \/ p \cap XBits # {}) ->
                           o.bits \cup (XBits \cap o.mask)
                      [] OTHER -> o.bits IN
        CASE o.op = "oct" -> mode
          [] o.op = "="   -> (p \ o.mask) \cup mode
          [] o.op = "+"   -> p \cup mode
          [] o.op = "-"   -> p \ mode IN
  FoldLeft(Step, perm, ops)

\* parse_perm_args: the octal attempt sees the whole first argument, prefix
\* included, so a prefixed octal number is not an octal number to it.
PermData(first, modes) ==
  IF ~modes.ok \/ (first.octal /\ first.pre # "") THEN [ok |-> FALSE]
  ELSE [ok |-> TRUE, mode |-> ModeExecute(modes.ops, FALSE, {}),
        op |-> CASE first.pre = "-" -> "all" [] first.pre = "/" -> "any" [] OTHER -> "exact"]

ParsePermArgs(argv) ==
  IF argv = <<>> THEN [ok |-> FALSE] ELSE PermData(argv[1].val, ParseModeArgs(argv))

(***************************************************************************)
(* Tests.                                                                  *)
(***************************************************************************)

\* test_table, the tests grouped by what parses their arguments.  The tests
\* on the other numeric attributes of an inode (dirsize, blocks, nlink ...)
\* differ from the ones kept only in the field they read.
NumberTests == {"size", "filesize", "inode", "depth", "dircount", "uid", "gid"}
RangeTests  == {"size_range", "depth_range", "dircount_range", "uid_range"}
PathTests   == {"pathname", "subpathname"}
NoArgTests  == {"true", "false", "exists", "absolute"}
OneArgTests == {"name", "type", "file", "exec"}
ExprTests   == {"stat", "readlink", "eval"}
Tests == NumberTests \cup RangeTests \cup PathTests \cup NoArgTests
           \cup OneArgTests \cup ExprTests \cup {"perm"}

TestArgs(name) ==
  CASE name \in NoArgTests -> 0
    [] name \in RangeTests \cup {"eval"} -> 2
    [] name = "perm" -> -2
    [] OTHER -> 1

\* Tests that need the in-core directory tree cannot be used by exclude.
ExcludeOk(name) ==
  name \notin {"dircount", "dircount_range", "exists", "absolute", "readlink", "eval"}

FileTypes == {"f", "d", "c", "b", "l", "s", "p"}
ParseTypeArg(v) == [ok |-> v \in FileTypes]

\* The parse_args function of a test with strings for arguments (the
\* regular expression of file is compiled outside this code).
ParseTestArgs(name, argv) ==
  LET v(i) == argv[i].val IN
  CASE name \in {"uid", "gid"} -> ParseUidArg(v(1))
    [] name \in NumberTests -> ParseNumber(v(1))
    [] name \in RangeTests  -> ParseRange(v(1), v(2))
    [] name = "perm"        -> ParsePermArgs(argv)
    [] name = "type"        -> ParseTypeArg(v(1))
    [] OTHER                -> [ok |-> TRUE]

\* check_pathname: a pathname argument without its leading "/" gets one.
CheckPathname(argv) == [argv EXCEPT ![1].val.abs = TRUE]

RECURSIVE TestData(_, _, _), GetAtom(_, _), ParseExpr(_, _, _), ParseOps(_, _, _)

\* The arguments of a test or an action, when there is a "(".
Arguments(s, bare) ==
  IF GetToken(s).kind = "(" THEN ReadArgs(Past(s), <<>>)
  ELSE [ok |-> bare, argv |-> <<>>, rest |-> s]

\* The expression that stat, readlink and eval take is parsed with the parser
\* state saved (parse_expr_argX); exclude is TRUE while an exclude action is
\* parsed.
ExprData(e) == [ok |-> e.expr # Null, expr |-> e.expr]
TestData(name, argv, exclude) ==
  IF name \in ExprTests THEN ExprData(ParseExpr(Last(argv).val, FALSE, exclude))
  ELSE ParseTestArgs(name, argv)

TestAtom(name, args, data) ==
  IF ~data.ok THEN [expr |-> Null, rest |-> args.rest]
  ELSE [expr |-> [type |-> "atom", test |-> name, data |-> data,
                  argv |-> IF name \in PathTests THEN CheckPathname(args.argv) ELSE args.argv],
        rest |-> args.rest]

\* parse_test: the name of the test and its arguments have been read.
ParseTest(name, args, exclude) ==
  IF \/ name \notin Tests
     \/ exclude /\ ~ExcludeOk(name)
     \/ ~args.ok
     \/ TestArgs(name) # -2 /\ Len(args.argv) # TestArgs(name)
  THEN [expr |-> Null, rest |-> args.rest]
  ELSE TestAtom(name, args, TestData(name, args.argv, exclude))

\* get_atom: "!" applies to the next atom.
Not(a) == [expr |-> CreateUnaryOp(a.expr), rest |-> a.rest]
GetAtom(s, exclude) ==
  CASE GetToken(s).kind = "!"   -> Not(GetAtom(Past(s), exclude))
    [] GetToken(s).kind = "("   -> ParseExpr(Past(s), TRUE, exclude)
    [] GetToken(s).kind = "str" -> ParseTest(Head(s).val, Arguments(Past(s), TRUE), exclude)
    [] OTHER                    -> [expr |-> Null, rest |-> s]

\* parse_expr: atoms joined from the left by && and ||, which have the same
\* precedence; a bracketed expression ends at ")", the whole one at EOF.
ParseExpr(s, subexp, exclude) == ParseOps(GetAtom(s, exclude), subexp, exclude)

Joined(lhs, op, rhs) == [expr |-> CreateExpr(lhs.expr, op, rhs.expr), rest |-> rhs.rest]

\* Mutant of ParseOps: what is behind an operator is an expression of its own.
ParseOpsRight(e, subexp, exclude) ==
  LET op == GetToken(e.rest).kind IN
  CASE e.expr = Null -> e
    [] op = (IF subexp THEN ")" ELSE "EOF") -> [e EXCEPT !.rest = Past(@)]
    [] op \in {"&&", "||"} -> Joined(e, op, ParseExpr(Past(e.rest), subexp, exclude))
    [] OTHER -> [e EXCEPT !.expr = Null]

ParseOps(e, subexp, exclude) ==
  LET op == GetToken(e.rest).kind IN
  CASE e.expr = Null -> e
    [] op = (IF subexp THEN ")" ELSE "EOF") -> [e EXCEPT !.rest = Past(@)]
    [] op \in {"&&", "||"} ->
         ParseOps(Joined(e, op, GetAtom(Past(e.rest), exclude)), subexp, exclude)
    [] OTHER -> [e EXCEPT !.expr = Null]

(***************************************************************************)
(* Actions.                                                                *)
(***************************************************************************)

\* action_table: the number of arguments and the types a file must have.
ActionTable ==
  [fragment |-> [args |-> 1, types |-> "reg"], exclude |-> [args |-> 0, types |-> "all_lnk"],
   fragments |-> [args |-> 0, types |-> "reg"], no_fragments |-> [args |-> 0, types |-> "reg"],
   always_use_fragments |-> [args |-> 0, types |-> "reg"],
   dont_always_use_fragments |-> [args |-> 0, types |-> "reg"],
   compressed |-> [args |-> 0, types |-> "reg"],
   uncompressed |-> [args |-> 0, types |-> "reg"], uid |-> [args |-> 1, types |-> "all_lnk"],
   gid |-> [args |-> 1, types |-> "all_lnk"], guid |-> [args |-> 2, types |-> "all_lnk"],
   mode |-> [args |-> -2, types |-> "all"], empty |-> [args |-> -2, types |-> "dir"],
   move |-> [args |-> 1, types |-> "all_lnk"], prune |-> [args |-> 0, types |-> "all_lnk"],
   noop |-> [args |-> 0, types |-> "all"]]

\* The list an action is appended to.
SpecList(name) == IF name \in {"fragment", "exclude", "empty", "move", "prune"}
                  THEN name ELSE "other"
SpecLists == {"fragment", "exclude", "empty", "move", "prune", "other"}

ParseEmptyArgs(argv) ==
  [ok |-> Len(argv) < 2 /\ (argv = <<>> \/ argv[1].val \in {"all", "source", "excluded"}),
   val |-> IF argv = <<>> THEN "all" ELSE argv[1].val]

\* parse_uid_args, parse_gid_args, parse_guid_args
ParseActionArgs(name, argv) ==
  CASE name = "empty" -> ParseEmptyArgs(argv)
    [] name \in {"uid", "gid"} -> [ok |-> ParseUid(argv[1].val) # -1, id |-> ParseUid(argv[1].val)]
    [] name = "guid" -> [ok |-> ParseUid(argv[1].val) # -1 /\ ParseUid(argv[2].val) # -1,
                         id |-> ParseUid(argv[1].val), gid |-> ParseUid(argv[2].val)]
    [] name = "mode" -> ParseModeArgs(argv)
    [] OTHER -> [ok |-> TRUE]

\* parse_action: NULL, or the entry that is appended to SpecList(name).
ActionEntry(name, args, data, e) ==
  IF ~data.ok \/ GetToken(args.rest).kind # "@" \/ e.expr = Null THEN Null
  ELSE [type |-> "action", name |-> name, argv |-> args.argv, data |-> data, expr |-> e.expr]

ParseActionRest(name, args) ==
  IF ~args.ok \/ (ActionTable[name].args # -2 /\ Len(args.argv) # ActionTable[name].args)
  THEN Null
  ELSE ActionEntry(name, args, ParseActionArgs(name, args.argv),
                   ParseExpr(Past(args.rest), FALSE, name = "exclude"))

ParseAction(line) ==
  IF GetToken(line).kind # "str" THEN Null
  ELSE IF Head(line).val \notin DOMAIN ActionTable THEN Null
  ELSE ParseActionRest(Head(line).val, Arguments(Past(line), GetToken(Past(line)).kind = "@"))
=============================================================================
