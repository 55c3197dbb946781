---------------------------- MODULE BoundedFIFO ----------------------------
(***************************************************************************)
(* What a struct queue promises to the threads of mksquashfs: a first-in   *)
(* first-out channel that never holds more than Capacity pointers.  A      *)
(* value is appended by some producer, handed to exactly one consumer, in  *)
(* order, and the whole content can be dropped at once (queue_flush).      *)
(***************************************************************************)
EXTENDS Integers, Sequences

CONSTANTS Consumers, Data, Capacity, None

VARIABLES
    content,   \* the values in the channel, oldest first
    got        \* the last value each consumer received

vars == <<content, got>>

Init ==
    /\ content = <<>>
    /\ got = [c \in Consumers |-> None]

Put(d) ==
    /\ Len(content) < Capacity
    /\ content' = Append(content, d)
    /\ UNCHANGED got

Get(c) ==
    /\ content # <<>>
    /\ content' = Tail(content)
    /\ got' = [got EXCEPT ![c] = Head(content)]

Flush ==
    /\ content' = <<>>
    /\ UNCHANGED got

Next ==
    \/ \E d \in Data : Put(d)
    \/ \E c \in Consumers : Get(c)
    \/ Flush

Spec == Init /\ [][Next]_vars
=============================================================================
