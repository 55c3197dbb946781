------------------------------ MODULE MCQueues ------------------------------
(* Instances of Queue and SeqQueue for TLC.  The two queues share no state and *)
(* no thread calls one while it holds the mutex of the other, so a behaviour  *)
(* of both is a behaviour of each with stuttering steps: the run takes the    *)
(* queues one at a time instead of their product.                             *)
EXTENDS Queue, SeqQueue, TLC

CONSTANTS p1, p2, c1, c2, d1, d2, none, b1, b2, b3

MCProducers == {p1, p2}
MCConsumers == {c1, c2}
MCData == {d1, d2}
MCThreads == MCProducers \cup MCConsumers
MCBlocks == {b1, b2, b3}

VARIABLE inUse     \* the queue that this behaviour is about

QueuesInit == Init /\ SeqInit /\ inUse \in {"queue", "seq_queue"}

QueuesNext ==
    /\ \/ inUse = "queue" /\ Next /\ UNCHANGED seqVars
       \/ inUse = "seq_queue" /\ SeqNext /\ UNCHANGED vars
    /\ UNCHANGED inUse

\* Fairness of SeqQueue, for the behaviours that are about it.  Queue needs none.
QueuesFairness ==
    /\ \A b \in Blocks :
          /\ WF_seqVars(inUse = "seq_queue" /\ \E f \in BOOLEAN : ReaderSend(b, f))
          /\ WF_seqVars(inUse = "seq_queue" /\ SeqQueuePut(b))
    /\ WF_seqVars(inUse = "seq_queue" /\ SeqQueueGet)

QueuesSpec ==
    QueuesInit /\ [][QueuesNext]_<<vars, seqVars, inUse>> /\ QueuesFairness
=============================================================================
