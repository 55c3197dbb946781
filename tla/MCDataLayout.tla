--------------------------- MODULE MCDataLayout ---------------------------
(* Instances of DataLayout for TLC. *)
EXTENDS DataLayout, TLC

CONSTANTS da, db, dc, dx, d1, d2, def, act, hole, none

MCSize == (da :> 1) @@ (db :> 1) @@ (dc :> 2) @@ (dx :> 1)
MCActions == {def, act}
MCDeflators == {d1, d2}

File(n, s, t, ac) == [size |-> n, blocks |-> s, tail |-> t, action |-> ac, piped |-> FALSE]

\* Two equal files with room between them for a fragment, files of the same
\* size that differ, a file longer than the cache, a sparse one, tails.
MCDup == << File(1, <<>>, dx, def), File(3, <<da, db>>, none, def),
            File(3, <<da, db>>, none, def), File(3, <<db, da>>, none, def),
            File(1, <<>>, da, act) >>
MCLong == << File(1, <<>>, dx, def), File(6, <<da, db, dc>>, none, def), File(5, <<>>, dc, def),
             File(6, <<da, db, dc>>, none, def), File(6, <<da, hole, dc>>, none, act) >>
MCTails == << File(4, <<da, db>>, dx, def), File(1, <<>>, dx, act), File(4, <<da, db>>, dx, def),
              File(4, <<da, db>>, da, act) >>
MCPiped == << [File(3, <<da, db>>, none, def) EXCEPT !.piped = TRUE], File(1, <<>>, dx, def),
              [File(3, <<da, db>>, dx, def) EXCEPT !.piped = TRUE],
              File(3, <<da, db>>, none, act) >>
\* Full fragments one after the other while files are compared.
MCPending == << File(1, <<>>, dx, def), File(4, <<da, db>>, dx, def), File(2, <<>>, dc, def),
                File(4, <<db, da>>, dx, def) >>

New(list) == [files |-> list, first_freelist |-> TRUE, block_device |-> FALSE]
AppendTo(list) == [files |-> list, first_freelist |-> FALSE, block_device |-> FALSE]
Device(list) == [files |-> list, first_freelist |-> FALSE, block_device |-> TRUE]

MCInputs == {New(MCDup), New(MCTails), New(MCPiped), New(MCLong), New(MCPending),
             Device(MCDup), Device(MCLong), AppendTo(MCLong), AppendTo(MCTails)}
=============================================================================
