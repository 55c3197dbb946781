-------------------------------- MODULE LinkedLists --------------------------------
(* Linked lists and queues as sequences. *)
EXTENDS Naturals, Sequences

\* remove_free_list and its like: the k-th element is unlinked.
RemoveNth(s, k) == [i \in 1..(Len(s) - 1) |-> IF i < k THEN s[i] ELSE s[i + 1]]

Elems(s) == {s[k] : k \in 1..Len(s)}
Distinct(s) == \A j, k \in 1..Len(s) : s[j] = s[k] => j = k

\* The places of a list at which there is an element of S.
Spots(s, S) == {j \in 1..Len(s) : s[j] \in S}
=============================================================================
