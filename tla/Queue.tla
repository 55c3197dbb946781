------------------------------- MODULE Queue -------------------------------
(***************************************************************************)
(* The struct queue of caches-queues-lists.c: a circular buffer under one  *)
(* mutex with two condition variables, shared by several producers and     *)
(* several consumers.                                                      *)
(*                                                                         *)
(* Every stretch of code that runs with the mutex held is one step.        *)
(* pthread_cond_wait releases the mutex, so a call of queue_put or         *)
(* queue_get is one step when it need not wait and otherwise a step into   *)
(* the wait followed by a resumption for every wakeup.  The while loops    *)
(* re-test their condition at every resumption; a waiter may also wake up  *)
(* with no signal at all, as POSIX allows.                                 *)
(***************************************************************************)
EXTENDS Integers, FiniteSets, Sequences

CONSTANTS
    Producers,     \* threads that call queue_put
    Consumers,     \* threads that call queue_get
    Data,          \* the pointers passed through the queue
    Capacity,      \* the argument of queue_init
    None,          \* no pointer
    Cancellable    \* threads that restore_thrd may cancel

ASSUME ThreadAssumption ==
    /\ Producers \cap Consumers = {}
    /\ IsFiniteSet(Producers) /\ IsFiniteSet(Consumers)
    /\ Cancellable \subseteq Producers \cup Consumers

\* mksquashfs sizes no queue below one entry (main, initialise_threads).
ASSUME CapacityAssumption == Capacity \in Nat \ {0}

ASSUME DataAssumption == None \notin Data

Threads == Producers \cup Consumers

\* queue_init allocates one slot more than it was asked for: a queue is full
\* when one slot is left, so that full and empty differ.
size == Capacity + 1

VARIABLES
    data,      \* queue->data
    readp,     \* queue->readp
    writep,    \* queue->writep
    thread,    \* where each thread is with respect to this queue
    arg,       \* the pointer a blocked producer is going to store
    got        \* the pointer each consumer got last

vars == <<data, readp, writep, thread, arg, got>>

\* queue_init
Init ==
    /\ data = [i \in 0..size-1 |-> None]
    /\ readp = 0
    /\ writep = 0
    /\ thread = [t \in Threads |-> "running"]
    /\ arg = [p \in Producers |-> None]
    /\ got = [c \in Consumers |-> None]

-----------------------------------------------------------------------------
\* The tests of the two while loops, also printed by dump_queue.
Full == (writep + 1) % size = readp
Empty == readp = writep

\* The number of pointers in the queue, as dump_queue computes it.
Count == IF readp <= writep THEN writep - readp ELSE size - readp + writep

Waiting(S) == {t \in S : thread[t] = "waiting"}
Woken(S) == {t \in S : thread[t] = "woken"}

\* Thread t leaves the queue and pthread_cond_signal wakes one of the threads
\* of S that wait on the condition, if there is one.
LeaveAndSignal(t, S) ==
    IF Waiting(S) = {}
    THEN thread' = [thread EXCEPT ![t] = "running"]
    ELSE \E w \in Waiting(S) :
            thread' = [thread EXCEPT ![t] = "running", ![w] = "woken"]

\* pthread_cond_wait: t gives up the mutex and sleeps.
Wait(t) == thread' = [thread EXCEPT ![t] = "waiting"]

\* One pass of the loop of queue_put by thread p, with the mutex held.
PutStep(p, d) ==
    \/ /\ Full
       /\ Wait(p)
       /\ arg' = [arg EXCEPT ![p] = d]
       /\ UNCHANGED <<data, readp, writep, got>>
    \/ /\ ~Full
       /\ data' = [data EXCEPT ![writep] = d]
       /\ writep' = (writep + 1) % size
       /\ LeaveAndSignal(p, Consumers)
       /\ arg' = [arg EXCEPT ![p] = None]
       /\ UNCHANGED <<readp, got>>

\* Mutant of GetStep: the pointer is fetched after the index has moved on.
GetStepAfterAdvance(c) ==
    \/ Empty /\ Wait(c) /\ UNCHANGED <<data, readp, writep, arg, got>>
    \/ /\ ~Empty
       /\ readp' = (readp + 1) % size
       /\ got' = [got EXCEPT ![c] = data[readp']]
       /\ LeaveAndSignal(c, Producers)
       /\ UNCHANGED <<data, writep, arg>>

\* One pass of the loop of queue_get by thread c, with the mutex held.
GetStep(c) ==
    \/ /\ Empty
       /\ Wait(c)
       /\ UNCHANGED <<data, readp, writep, arg, got>>
    \/ /\ ~Empty
       /\ got' = [got EXCEPT ![c] = data[readp]]
       /\ readp' = (readp + 1) % size
       /\ LeaveAndSignal(c, Producers)
       /\ UNCHANGED <<data, writep, arg>>

QueuePut(p) ==
    /\ thread[p] = "running"
    /\ \E d \in Data : PutStep(p, d)

QueuePutResume(p) ==
    /\ thread[p] = "woken"
    /\ PutStep(p, arg[p])

QueueGet(c) ==
    /\ thread[c] = "running"
    /\ GetStep(c)

QueueGetResume(c) ==
    /\ thread[c] = "woken"
    /\ GetStep(c)

\* A wakeup nobody signalled.
SpuriousWakeup(t) ==
    /\ thread[t] = "waiting"
    /\ thread' = [thread EXCEPT ![t] = "woken"]
    /\ UNCHANGED <<data, readp, writep, arg, got>>

\* restore_thrd cancels and joins t.  Cancellation is deferred: it takes
\* effect in pthread_cond_wait (whose cleanup handler releases the mutex) or
\* somewhere outside the queue.
Cancel(t) ==
    /\ t \in Cancellable
    /\ thread[t] \in {"running", "waiting"}
    /\ thread' = [thread EXCEPT ![t] = "cancelled"]
    /\ UNCHANGED <<data, readp, writep, arg, got>>

\* Mutant of QueueFlush: the producers need not be stopped first.
QueueFlushAnyTime ==
    /\ readp' = writep
    /\ UNCHANGED <<data, writep, thread, arg, got>>

\* restore_thrd flushes a queue only after it has joined every thread that
\* puts into it.  No condition is signalled.
QueueFlush ==
    /\ \A p \in Producers : thread[p] = "cancelled"
    /\ readp' = writep
    /\ UNCHANGED <<data, writep, thread, arg, got>>

Next ==
    \/ \E p \in Producers : QueuePut(p) \/ QueuePutResume(p)
    \/ \E c \in Consumers : QueueGet(c) \/ QueueGetResume(c)
    \/ \E t \in Threads : SpuriousWakeup(t) \/ Cancel(t)
    \/ QueueFlush

Spec == Init /\ [][Next]_vars

-----------------------------------------------------------------------------
(* The variables hold values of their C types: both indices stay inside the *)
(* array that queue_init allocated, a blocked producer keeps its argument. *)
TypeOK ==
    /\ data \in [0..size-1 -> Data \cup {None}]
    /\ readp \in 0..size-1
    /\ writep \in 0..size-1
    /\ thread \in [Threads -> {"running", "waiting", "woken", "cancelled"}]
    /\ arg \in [Producers -> Data \cup {None}]
    /\ got \in [Consumers -> Data \cup {None}]
    /\ \A p \in Producers : thread[p] \in {"waiting", "woken"} => arg[p] \in Data

(* queue_put and queue_get signal one waiter and only one, and any thread   *)
(* may overtake the thread that was signalled.  No wakeup is lost all the  *)
(* same: while a consumer sleeps, every pointer in the queue has a         *)
(* consumer that is already awake and about to look for it; while a        *)
(* producer sleeps, every free slot has a producer that is awake.          *)
NoLostWakeup ==
    /\ Waiting(Consumers) # {} => Count <= Cardinality(Woken(Consumers))
    /\ Waiting(Producers) # {} => Capacity - Count <= Cardinality(Woken(Producers))

(* The pointers between readp and writep, oldest first. *)
Content == [i \in 1..Count |->
                data[IF readp + i - 1 < size THEN readp + i - 1
                                             ELSE readp + i - 1 - size]]

(* Every step of the circular buffer is a step of the bounded FIFO channel, *)
(* wrap-around, waiting, overtaking and flushing included: what queue_get  *)
(* returns is what queue_put stored first, and nothing is stored twice,    *)
(* overwritten or returned from an empty slot.                             *)
FIFO == INSTANCE BoundedFIFO WITH content <- Content

ImplementsFIFO == FIFO!Spec
=============================================================================
