----------------------------- MODULE MCUnsquash -----------------------------
(* Instances of Unsquash for TLC. *)
EXTENDS Unsquash, TLC

CONSTANTS da, db, dc, fx, fy, hole, none, i1, i2, root, sub

MCBlocks == {da, db, dc}
MCFrags == {fx, fy}
MCInflators == {i1, i2}

Mkdir(d, p) == [op |-> "mkdir", dir |-> p]
File(d, s) == [op |-> "file", dir |-> d, blocks |-> s]
Link(d, n) == [op |-> "link", dir |-> d, of |-> n]
End(d) == [op |-> "enddir", dir |-> d]

\* A file of more blocks than there are entries, files that share blocks,
\* fragments that compete for one entry, a hole inside a file and one at its
\* end, a hard link.
MCList == << Mkdir(root, none), File(root, <<da, db, dc, fx>>), Mkdir(sub, root),
             File(sub, <<dc, hole, fy>>), Link(sub, 2), End(sub), File(root, <<da, hole>>),
             File(root, <<fy>>), End(root) >>

\* A bad file, then one with another block.
MCBadList == << Mkdir(root, none), File(root, <<da, db>>), File(root, <<dc>>), End(root) >>

\* Nothing goes wrong; or only writing may; or anything may.
MCFaults == {[bad |-> {}, write |-> FALSE, open |-> FALSE],
             [bad |-> {}, write |-> TRUE, open |-> FALSE],
             [bad |-> {db}, write |-> FALSE, open |-> FALSE],
             [bad |-> {db}, write |-> TRUE, open |-> TRUE]}
MCBadFaults == {[bad |-> {da}, write |-> FALSE, open |-> FALSE]}
=============================================================================
