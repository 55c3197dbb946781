------------------------------ MODULE MCImage ------------------------------
(***************************************************************************)
(* Instances of Image for TLC: metadata blocks of 8 cells, 2 entries under *)
(* a directory header.                                                     *)
(***************************************************************************)
EXTENDS Image

Node(id, type, x) ==
  [id |-> id, type |-> type, uid |-> id % 2, gid |-> 2 + (id % 2), xattr |-> x, big |-> FALSE, size |-> 0,
   frag |-> FALSE, text |-> <<>>, rdev |-> id, list |-> <<>>]
Reg(id, size, frag, big) == [Node(id, "reg", FALSE) EXCEPT !.size = size, !.frag = frag, !.big = big]
Sym(id, len, x) == [Node(id, "sym", x) EXCEPT !.text = [i \in 1..len |-> [k |-> "text"]]]
Dir(id, x, list) == [Node(id, "dir", x) EXCEPT !.list = list]
E(name, node) == [name |-> name, node |-> node]

\* One node of every kind, extended and not; inode 30 is linked several times.
Kind(id, k) ==
  CASE k = 0 -> Reg(id, 3, TRUE, FALSE)  [] k = 1 -> Sym(id, 2, TRUE)
    [] k = 2 -> Dir(id, FALSE, <<E(2, Reg(30, 4, FALSE, FALSE)), E(4, Sym(id + 10, 1, FALSE))>>)
    [] k = 3 -> Node(id, "chr", TRUE)    [] k = 4 -> Reg(30, 4, FALSE, FALSE)
    [] k = 5 -> Node(id, "fifo", FALSE)  [] k = 6 -> Reg(id, 4, FALSE, TRUE)
    [] k = 7 -> Sym(id, 3, FALSE)        [] k = 8 -> Dir(id, TRUE, <<>>)
    [] k = 9 -> Node(id, "blk", FALSE)   [] OTHER -> Node(id, "sock", TRUE)

Tree(n, parity, a, b) ==
  Dir(0, b = 2, [i \in 1..n |-> E(2 * i + ((parity * i) % 2), Kind(i, (a * i + b) % 11))])

MCCreates ==
  {[tree |-> Tree(n, p, a, b), exportable |-> b # 1] :
     n \in {0, 1, 4, 7}, p \in 0..1, a \in 1..2, b \in 0..1}
MCJobs == {[mode |-> "append", tree |-> Tree(2, 1, 4, 0), name |-> 0],
           [mode |-> "append", name |-> 0,
            tree |-> Dir(0, FALSE, <<E(0, Kind(1, 0)), E(9, Kind(2, 2)), E(21, Kind(3, 1))>>)],
           [mode |-> "becomes", tree |-> Dir(0, FALSE, <<E(2, Kind(1, 7))>>), name |-> 9]}
MCAllNames == 0..17
=============================================================================
