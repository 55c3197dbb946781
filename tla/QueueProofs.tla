---------------------------- MODULE QueueProofs ----------------------------
(***************************************************************************)
(* Proofs about the two queues of caches-queues-lists.c: Queue, for any    *)
(* number of producers, consumers and pointers and any capacity, and       *)
(* SeqQueue, for any number of blocks in flight.                           *)
(***************************************************************************)
EXTENDS Queue, SeqQueue, FiniteSetTheorems, SequenceTheorems, TLAPS

-----------------------------------------------------------------------------
(* struct queue *)

(* The index that follows i in the array: it wraps to 0 after the last slot. *)
LEMMA NextIndex ==
    ASSUME NEW i \in 0..size-1
    PROVE  /\ (i + 1) % size = IF i + 1 = size THEN 0 ELSE i + 1
           /\ (i + 1) % size \in 0..size-1
<1>1. size \in Nat /\ size >= 2
  BY CapacityAssumption DEF size
<1>2. CASE i + 1 = size
  BY <1>1, <1>2
<1>3. CASE i + 1 # size
  BY <1>1, <1>3
<1> QED
  BY <1>2, <1>3, Zenon

(* dump_queue's count agrees with the tests of queue_put and queue_get. *)
LEMMA CountFacts ==
    ASSUME TypeOK
    PROVE  /\ Count \in 0..Capacity
           /\ Full <=> Count = Capacity
           /\ Empty <=> Count = 0
BY NextIndex, CapacityAssumption, SMTT(60) DEF TypeOK, Count, Full, Empty, size

-----------------------------------------------------------------------------
(* queue_put keeps the types. *)
LEMMA PutType ==
    ASSUME TypeOK, NEW p \in Producers, NEW d \in Data, PutStep(p, d)
    PROVE  TypeOK'
<1> USE DEF TypeOK
<1>1. CASE Full
  BY <1>1, ThreadAssumption DEF PutStep, Wait, Threads
<1>2. CASE ~Full
  <2>1. writep' \in 0..size-1
    BY <1>2, NextIndex, Zenon DEF PutStep
  <2>2. thread' \in [Threads -> {"running", "waiting", "woken", "cancelled"}]
    BY <1>2, Zenon DEF PutStep, LeaveAndSignal, Threads
  <2>3. \A q \in Producers : thread'[q] \in {"waiting", "woken"} => arg'[q] \in Data
    BY <1>2, ThreadAssumption DEF PutStep, LeaveAndSignal, Threads, Waiting
  <2> QED
    BY <1>2, <2>1, <2>2, <2>3, Zenon DEF PutStep
<1> QED
  BY <1>1, <1>2, Zenon

(* queue_get keeps the types. *)
LEMMA GetType ==
    ASSUME TypeOK, NEW c \in Consumers, GetStep(c)
    PROVE  TypeOK'
<1> USE DEF TypeOK
<1>1. CASE Empty
  BY <1>1, ThreadAssumption, Zenon DEF GetStep, Wait, Threads
<1>2. CASE ~Empty
  <2>1. readp' \in 0..size-1
    BY <1>2, NextIndex, Zenon DEF GetStep
  <2>2. thread' \in [Threads -> {"running", "waiting", "woken", "cancelled"}]
    BY <1>2, Zenon DEF GetStep, LeaveAndSignal, Threads
  <2>3. \A q \in Producers : thread'[q] \in {"waiting", "woken"} => arg'[q] \in Data
    BY <1>2, ThreadAssumption, Zenon DEF GetStep, LeaveAndSignal, Threads, Waiting
  <2> QED
    BY <1>2, <2>1, <2>2, <2>3, Zenon DEF GetStep
<1> QED
  BY <1>1, <1>2, Zenon

(* queue_init establishes the type invariant and every operation keeps it:  *)
(* readp and writep never leave the allocated array, and a producer blocked *)
(* in queue_put keeps the pointer it was given.                             *)
THEOREM QueueTypeCorrect == Spec => []TypeOK
<1>1. Init => TypeOK
  BY CapacityAssumption DEF Init, TypeOK, size, Threads
<1>2. TypeOK /\ [Next]_vars => TypeOK'
  <2> SUFFICES ASSUME TypeOK, [Next]_vars PROVE TypeOK'
    BY Zenon
  <2>1. ASSUME NEW p \in Producers, QueuePut(p) PROVE TypeOK'
    BY <2>1, PutType, Zenon DEF QueuePut
  <2>2. ASSUME NEW p \in Producers, QueuePutResume(p) PROVE TypeOK'
    BY <2>2, PutType, Zenon DEF QueuePutResume, TypeOK
  <2>3. ASSUME NEW c \in Consumers, QueueGet(c) \/ QueueGetResume(c) PROVE TypeOK'
    BY <2>3, GetType, Zenon DEF QueueGet, QueueGetResume
  <2>4. ASSUME NEW t \in Threads, SpuriousWakeup(t) PROVE TypeOK'
    BY <2>4, ThreadAssumption, Zenon DEF SpuriousWakeup, TypeOK, Threads
  <2>5. ASSUME NEW t \in Threads, Cancel(t) PROVE TypeOK'
    BY <2>5, ThreadAssumption, Zenon DEF Cancel, TypeOK, Threads
  <2>6. CASE QueueFlush
    BY <2>6, Zenon DEF QueueFlush, TypeOK
  <2>7. CASE UNCHANGED vars
    BY <2>7, Zenon DEF vars, TypeOK
  <2> QED
    BY <2>1, <2>2, <2>3, <2>4, <2>5, <2>6, <2>7, Zenon DEF Next
<1> QED
  BY <1>1, <1>2, PTL DEF Spec

-----------------------------------------------------------------------------
(* Storing a pointer adds one to the count, taking one subtracts one. *)
LEMMA CountPut ==
    ASSUME TypeOK, ~Full, writep' = (writep + 1) % size, readp' = readp
    PROVE  Count' = Count + 1
<1>1. writep' = IF writep + 1 = size THEN 0 ELSE writep + 1
  BY NextIndex, Zenon DEF TypeOK
<1>2. writep' # readp
  BY Zenon DEF Full
<1>3. size \in Nat /\ readp \in 0..size-1 /\ writep \in 0..size-1
  BY CapacityAssumption DEF TypeOK, size
<1> QED
  BY <1>1, <1>2, <1>3 DEF Count

(* Advancing readp takes one item off the count. *)
LEMMA CountGet ==
    ASSUME TypeOK, ~Empty, readp' = (readp + 1) % size, writep' = writep
    PROVE  Count' = Count - 1
<1>1. readp' = IF readp + 1 = size THEN 0 ELSE readp + 1
  BY NextIndex, Zenon DEF TypeOK
<1>2. size \in Nat /\ readp \in 0..size-1 /\ writep \in 0..size-1
  BY CapacityAssumption DEF TypeOK, size
<1> QED
  BY <1>1, <1>2 DEF Count, Empty

(* The sets of sleeping and of woken threads are finite. *)
LEMMA ThreadSetsFinite ==
    /\ IsFiniteSet(Woken(Producers))
    /\ IsFiniteSet(Woken(Consumers))
    /\ Cardinality(Woken(Producers)) \in Nat
    /\ Cardinality(Woken(Consumers)) \in Nat
<1>1. Woken(Producers) \subseteq Producers /\ Woken(Consumers) \subseteq Consumers
  BY Zenon DEF Woken
<1> QED
  BY <1>1, ThreadAssumption, FS_Subset, FS_CardinalityType, Zenon

(* Taking one thread out of a set of woken threads costs at most one. *)
LEMMA WokenLoss ==
    ASSUME NEW S, NEW T, IsFiniteSet(S), NEW t, S \ {t} \subseteq T, T \subseteq S
    PROVE  /\ IsFiniteSet(T)
           /\ Cardinality(T) \in Nat /\ Cardinality(S) \in Nat
           /\ Cardinality(S) - 1 <= Cardinality(T)
<1>1. IsFiniteSet(T) /\ IsFiniteSet(S \ {t})
  BY FS_Subset, Zenon
<1>2. Cardinality(S \ {t}) <= Cardinality(T)
  BY <1>1, FS_Subset, Zenon
<1>3. Cardinality(S \ {t}) = IF t \in S THEN Cardinality(S) - 1 ELSE Cardinality(S)
  BY FS_RemoveElement, Zenon
<1> QED
  BY <1>1, <1>2, <1>3, FS_CardinalityType

(* The half of NoLostWakeup that concerns the consumers: every pointer in   *)
(* the queue has a consumer that is awake.                                 *)
ConsumersAwake == Waiting(Consumers) # {} => Count <= Cardinality(Woken(Consumers))

(* The half that concerns the producers: every free slot has one. *)
ProducersAwake ==
    Waiting(Producers) # {} => Capacity - Count <= Cardinality(Woken(Producers))

(* When a thread outside S leaves the queue, the signal moves one thread of *)
(* S, if any sleeps, from the sleeping to the woken ones.                  *)
LEMMA SignalOthers ==
    ASSUME TypeOK, NEW t \in Threads, NEW S, S \subseteq Threads, IsFiniteSet(S),
           t \notin S, LeaveAndSignal(t, S), Waiting(S)' # {}
    PROVE  /\ Waiting(S) # {}
           /\ Cardinality(Woken(S))' = Cardinality(Woken(S)) + 1
           /\ Cardinality(Woken(S)) \in Nat
<1>1. Waiting(S) # {}
  BY Zenon DEF LeaveAndSignal, Waiting, TypeOK
<1>2. PICK w \in Waiting(S) :
         thread' = [thread EXCEPT ![t] = "running", ![w] = "woken"]
  BY <1>1, Zenon DEF LeaveAndSignal
<1>3. Woken(S)' = Woken(S) \cup {w}
  BY <1>2, Zenon DEF Woken, Waiting, TypeOK
<1>4. w \notin Woken(S)
  BY Zenon DEF Woken, Waiting
<1>5. IsFiniteSet(Woken(S))
  BY FS_Subset, Zenon DEF Woken
<1> QED
  BY <1>1, <1>3, <1>4, <1>5, FS_AddElement, FS_CardinalityType, Zenon

(* On its own side the same step takes out of the woken threads at most the *)
(* thread that leaves, and puts nobody to sleep.                           *)
LEMMA SignalOwn ==
    ASSUME TypeOK, NEW t \in Threads, NEW S, S \subseteq Threads, IsFiniteSet(S),
           NEW R, R \cap S = {}, LeaveAndSignal(t, R)
    PROVE  /\ Waiting(S)' \subseteq Waiting(S)
           /\ Cardinality(Woken(S)) \in Nat
           /\ Cardinality(Woken(S))' \in Nat
           /\ Cardinality(Woken(S)) - 1 <= Cardinality(Woken(S))'
<1>1. Waiting(S)' \subseteq Waiting(S)
  BY Zenon DEF LeaveAndSignal, Waiting, TypeOK
<1>2. Woken(S) \ {t} \subseteq Woken(S)' /\ Woken(S)' \subseteq Woken(S)
  BY Zenon DEF LeaveAndSignal, Waiting, Woken, TypeOK
<1>3. IsFiniteSet(Woken(S))
  BY FS_Subset, Zenon DEF Woken
<1> QED
  BY <1>1, <1>2, <1>3, WokenLoss, Zenon

(* A thread that goes to sleep, or is woken or cancelled in its sleep, or   *)
(* is cancelled outside, leaves the threads of the other side alone.       *)
LEMMA OthersUntouched ==
    ASSUME TypeOK, NEW t, NEW v, NEW S, S \subseteq Threads, t \notin S,
           thread' = [thread EXCEPT ![t] = v]
    PROVE  Waiting(S)' = Waiting(S) /\ Woken(S)' = Woken(S)
BY Zenon DEF Waiting, Woken, TypeOK

(* queue_put loses no wakeup. *)
LEMMA PutKeepsWakeups ==
    ASSUME TypeOK, NoLostWakeup, NEW p \in Producers, NEW d, PutStep(p, d)
    PROVE  NoLostWakeup'
<1> USE ThreadAssumption
<1>0. p \in Threads /\ Producers \subseteq Threads /\ Consumers \subseteq Threads
  BY Zenon DEF Threads
<1>1. CASE Full
  <2>1. Count' = Count /\ Count = Capacity
    BY <1>1, CountFacts, Zenon DEF PutStep, Count
  <2>2. Waiting(Consumers)' = Waiting(Consumers) /\ Woken(Consumers)' = Woken(Consumers)
    BY <1>0, <1>1, OthersUntouched, Zenon DEF PutStep, Wait
  <2>3. Cardinality(Woken(Producers))' \in Nat
    BY <1>0, FS_Subset, FS_CardinalityType, Zenon DEF Woken
  <2> QED
    BY <2>1, <2>2, <2>3, CapacityAssumption DEF NoLostWakeup
<1>2. CASE ~Full
  <2>1. Count' = Count + 1 /\ Count \in 0..Capacity
    BY <1>2, CountPut, CountFacts, Zenon DEF PutStep
  <2>2. LeaveAndSignal(p, Consumers)
    BY <1>2, Zenon DEF PutStep
  <2>3. ConsumersAwake'
    BY <1>0, <2>1, <2>2, SignalOthers DEF NoLostWakeup, ConsumersAwake
  <2>4. ProducersAwake'
    <3>1. /\ Waiting(Producers)' \subseteq Waiting(Producers)
          /\ Cardinality(Woken(Producers)) \in Nat
          /\ Cardinality(Woken(Producers))' \in Nat
          /\ Cardinality(Woken(Producers)) - 1 <= Cardinality(Woken(Producers))'
      BY <1>0, <2>2, SignalOwn, Zenon
    <3> QED
      BY <2>1, <3>1, CapacityAssumption DEF NoLostWakeup, ProducersAwake
  <2> QED
    BY <2>3, <2>4, Zenon DEF NoLostWakeup, ConsumersAwake, ProducersAwake
<1> QED
  BY <1>1, <1>2, Zenon

(* queue_get loses no wakeup. *)
LEMMA GetKeepsWakeups ==
    ASSUME TypeOK, NoLostWakeup, NEW c \in Consumers, GetStep(c)
    PROVE  NoLostWakeup'
<1> USE ThreadAssumption
<1>0. c \in Threads /\ Producers \subseteq Threads /\ Consumers \subseteq Threads
  BY Zenon DEF Threads
<1>1. CASE Empty
  <2>1. Count' = Count /\ Count = 0
    BY <1>1, CountFacts, Zenon DEF GetStep, Count
  <2>2. Waiting(Producers)' = Waiting(Producers) /\ Woken(Producers)' = Woken(Producers)
    BY <1>0, <1>1, OthersUntouched, Zenon DEF GetStep, Wait
  <2>3. Cardinality(Woken(Consumers))' \in Nat
    BY <1>0, FS_Subset, FS_CardinalityType, Zenon DEF Woken
  <2> QED
    BY <2>1, <2>2, <2>3 DEF NoLostWakeup
<1>2. CASE ~Empty
  <2>1. Count' = Count - 1 /\ Count \in 0..Capacity
    BY <1>2, CountGet, CountFacts, Zenon DEF GetStep
  <2>2. LeaveAndSignal(c, Producers)
    BY <1>2, Zenon DEF GetStep
  <2>3. ProducersAwake'
    BY <1>0, <2>1, <2>2, SignalOthers, CapacityAssumption DEF NoLostWakeup, ProducersAwake
  <2>4. ConsumersAwake'
    <3>1. /\ Waiting(Consumers)' \subseteq Waiting(Consumers)
          /\ Cardinality(Woken(Consumers)) \in Nat
          /\ Cardinality(Woken(Consumers))' \in Nat
          /\ Cardinality(Woken(Consumers)) - 1 <= Cardinality(Woken(Consumers))'
      BY <1>0, <2>2, SignalOwn, Zenon
    <3> QED
      BY <2>1, <3>1 DEF NoLostWakeup, ConsumersAwake
  <2> QED
    BY <2>3, <2>4, Zenon DEF NoLostWakeup, ConsumersAwake, ProducersAwake
<1> QED
  BY <1>1, <1>2, Zenon

(* A wakeup without a signal, or the cancellation of a thread, can only add *)
(* to the woken threads of a set and only remove from the sleeping ones.   *)
LEMMA WakeOrCancel ==
    ASSUME TypeOK, NEW t \in Threads, SpuriousWakeup(t) \/ Cancel(t),
           NEW S, S \subseteq Threads, IsFiniteSet(S)
    PROVE  /\ Waiting(S)' \subseteq Waiting(S)
           /\ Cardinality(Woken(S)) \in Nat
           /\ Cardinality(Woken(S))' \in Nat
           /\ Cardinality(Woken(S)) <= Cardinality(Woken(S))'
<1>1. Waiting(S)' \subseteq Waiting(S) /\ Woken(S) \subseteq Woken(S)'
  BY Zenon DEF SpuriousWakeup, Cancel, Waiting, Woken, TypeOK
<1>2. IsFiniteSet(Woken(S)) /\ IsFiniteSet(Woken(S)')
  BY FS_Subset, Zenon DEF Woken
<1> QED
  BY <1>1, <1>2, FS_Subset, FS_CardinalityType, Zenon

(* No wakeup is lost, whatever the number of threads: the single signal of  *)
(* queue_put and of queue_get suffices although any thread may overtake    *)
(* the thread it woke.  NoLostWakeup is inductive relative to TypeOK.      *)
THEOREM QueueNoLostWakeup == Spec => []NoLostWakeup
<1>1. Init => NoLostWakeup
  BY Zenon DEF Init, NoLostWakeup, Waiting, Threads
<1>2. TypeOK /\ NoLostWakeup /\ [Next]_vars => NoLostWakeup'
  <2> SUFFICES ASSUME TypeOK, NoLostWakeup, [Next]_vars PROVE NoLostWakeup'
    BY Zenon
  <2>1. ASSUME NEW p \in Producers, QueuePut(p) \/ QueuePutResume(p)
        PROVE  NoLostWakeup'
    BY <2>1, PutKeepsWakeups, Zenon DEF QueuePut, QueuePutResume
  <2>2. ASSUME NEW c \in Consumers, QueueGet(c) \/ QueueGetResume(c)
        PROVE  NoLostWakeup'
    BY <2>2, GetKeepsWakeups, Zenon DEF QueueGet, QueueGetResume
  <2>3. ASSUME NEW t \in Threads, SpuriousWakeup(t) \/ Cancel(t)
        PROVE  NoLostWakeup'
    <3>1. Count' = Count /\ Count \in 0..Capacity
      BY <2>3, CountFacts, Zenon DEF SpuriousWakeup, Cancel, Count
    <3>2. ConsumersAwake'
      BY <2>3, <3>1, WakeOrCancel, ThreadAssumption
         DEF NoLostWakeup, ConsumersAwake, Threads
    <3>3. ProducersAwake'
      BY <2>3, <3>1, WakeOrCancel, ThreadAssumption, CapacityAssumption
         DEF NoLostWakeup, ProducersAwake, Threads
    <3> QED
      BY <3>2, <3>3, Zenon DEF NoLostWakeup, ConsumersAwake, ProducersAwake
  <2>4. CASE QueueFlush
    <3>1. Count' = 0
      BY <2>4 DEF QueueFlush, Count, TypeOK, size
    <3>2. Waiting(Producers)' = {}
      BY <2>4, Zenon DEF QueueFlush, Waiting
    <3>3. Cardinality(Woken(Consumers))' \in Nat
      BY ThreadAssumption, FS_Subset, FS_CardinalityType, Zenon DEF Woken
    <3> QED
      BY <3>1, <3>2, <3>3 DEF NoLostWakeup
  <2>5. CASE UNCHANGED vars
    BY <2>5, Zenon DEF vars, NoLostWakeup, Waiting, Woken, Count
  <2> QED
    BY <2>1, <2>2, <2>3, <2>4, <2>5, Zenon DEF Next
<1> QED
  BY <1>1, <1>2, QueueTypeCorrect, PTL DEF Spec

-----------------------------------------------------------------------------
(* The index of the i-th pointer of the queue. *)
Slot(i) == IF readp + i - 1 < size THEN readp + i - 1 ELSE readp + i - 1 - size

(* The content of the queue is a sequence of Count pointers. *)
ContentShape ==
    /\ Content \in Seq(Data \cup {None})
    /\ Len(Content) = Count
    /\ \A i \in 1..Count : Content[i] = data[Slot(i)]

(* The queue read from readp to writep is a sequence of data. *)
LEMMA ContentType == TypeOK => ContentShape
<1> SUFFICES ASSUME TypeOK PROVE ContentShape
  BY Zenon
<1>1. Count \in Nat /\ size \in Nat /\ size >= 2
  BY CountFacts, CapacityAssumption DEF size
<1>2. \A i \in 1..Count : Slot(i) \in 0..size-1
  BY <1>1 DEF Count, Slot, TypeOK
<1>3. Content = [i \in 1..Count |-> data[Slot(i)]]
  BY Zenon DEF Content, Slot
<1>4. Content \in [1..Count -> Data \cup {None}]
  BY <1>2, <1>3, Zenon DEF TypeOK
<1> QED
  BY <1>1, <1>3, <1>4 DEF ContentShape

(* The same, after a step. *)
LEMMA ContentTypeNext == TypeOK' => ContentShape'
BY ContentType, PTL

(* queue_put appends: the slot it fills lies behind all the occupied ones. *)
LEMMA PutAppends ==
    ASSUME TypeOK, TypeOK', NEW d \in Data, ~Full,
           data' = [data EXCEPT ![writep] = d],
           writep' = (writep + 1) % size, readp' = readp
    PROVE  Content' = Append(Content, d)
<1>1. Count' = Count + 1 /\ Count \in 0..Capacity - 1
  BY CountPut, CountFacts, CapacityAssumption
<1>2. size \in Nat /\ readp \in 0..size-1 /\ writep \in 0..size-1 /\ size = Capacity + 1
  BY CapacityAssumption DEF TypeOK, size
<1>3. /\ Slot(Count + 1) = writep
      /\ \A i \in 1..Count : Slot(i) # writep /\ Slot(i) \in 0..size-1
  BY <1>1, <1>2 DEF Slot, Count
<1>4. \A i \in 1..Count + 1 : Content'[i] = data'[Slot(i)]
  BY <1>1, ContentTypeNext, Zenon DEF ContentShape, Slot, size
<1>5. /\ Content'[Count + 1] = d
      /\ \A i \in 1..Count : Content'[i] = Content[i]
  <2>1. Content'[Count + 1] = data'[writep]
    BY <1>1, <1>3, <1>4
  <2>3. data'[writep] = d
    BY <1>2, Zenon DEF TypeOK
  <2>2. ASSUME NEW i \in 1..Count PROVE Content'[i] = Content[i]
    <3>1. Content'[i] = data'[Slot(i)] /\ Content[i] = data[Slot(i)]
      BY <1>1, <1>4, ContentType DEF ContentShape
    <3>2. Slot(i) # writep /\ Slot(i) \in 0..size-1
      BY <1>3, Zenon
    <3>3. data'[Slot(i)] = data[Slot(i)]
      BY <3>2, Zenon DEF TypeOK
    <3> QED
      BY <3>1, <3>3, Zenon
  <2> QED
    BY <2>1, <2>2, <2>3, Zenon
<1>6. /\ Append(Content, d) \in Seq(Data \cup {None})
      /\ Len(Append(Content, d)) = Count + 1
      /\ \A i \in 1..Count : Append(Content, d)[i] = Content[i]
      /\ Append(Content, d)[Count + 1] = d
  BY ContentType, AppendProperties DEF ContentShape
<1>7. \A i \in 1..Count + 1 : Content'[i] = Append(Content, d)[i]
  BY <1>1, <1>5, <1>6
<1> QED
  BY <1>1, ContentTypeNext, <1>6, <1>7, SeqEqual, Zenon DEF ContentShape

(* queue_get removes the oldest pointer, and that is the one it returns. *)
LEMMA GetRemoves ==
    ASSUME TypeOK, TypeOK', ~Empty,
           data' = data, readp' = (readp + 1) % size, writep' = writep
    PROVE  /\ Content # <<>>
           /\ Content' = Tail(Content)
           /\ data[readp] = Head(Content)
<1>1. Count' = Count - 1 /\ Count \in 1..Capacity
  BY CountGet, CountFacts, CapacityAssumption
<1>2. size \in Nat /\ readp \in 0..size-1 /\ writep \in 0..size-1 /\ size = Capacity + 1
  BY CapacityAssumption DEF TypeOK, size
<1>3. readp' = IF readp + 1 = size THEN 0 ELSE readp + 1
  BY NextIndex, CapacityAssumption, Zenon DEF TypeOK, size
<1>4. /\ Slot(1) = readp
      /\ \A i \in 1..Count - 1 : Slot(i)' = Slot(i + 1)
  BY <1>1, <1>2, <1>3, size' = size DEF Slot, Count, size
<1>5. /\ Content \in Seq(Data \cup {None}) /\ Len(Content) = Count
      /\ \A i \in 1..Count : Content[i] = data[Slot(i)]
  BY ContentType, Zenon DEF ContentShape
<1>6. /\ Content' \in Seq(Data \cup {None}) /\ Len(Content') = Count - 1
      /\ \A i \in 1..Count - 1 : Content'[i] = Content[i + 1]
  <2>1. /\ Content' \in Seq(Data \cup {None}) /\ Len(Content') = Count'
        /\ \A i \in 1..Count' : Content'[i] = data'[Slot(i)']
    BY ContentTypeNext, Zenon DEF ContentShape
  <2>2. ASSUME NEW i \in 1..Count - 1 PROVE Content'[i] = Content[i + 1]
    <3>1. i + 1 \in 1..Count
      BY <1>1
    <3>2. Content'[i] = data[Slot(i)']
      BY <1>1, <2>1, Zenon
    <3> QED
      BY <1>4, <1>5, <3>1, <3>2, Zenon
  <2> QED
    BY <1>1, <2>1, <2>2, Zenon
<1>7. Content # <<>>
  BY <1>1, <1>5
<1>8. /\ Head(Content) = Content[1]
      /\ Tail(Content) \in Seq(Data \cup {None}) /\ Len(Tail(Content)) = Count - 1
      /\ \A i \in 1..Count - 1 : Tail(Content)[i] = Content[i + 1]
  BY <1>1, <1>5, <1>7, HeadTailProperties
<1>9. data[readp] = Head(Content)
  BY <1>1, <1>4, <1>5, <1>8
<1>10. Content' = Tail(Content)
  BY <1>6, <1>8, SeqEqual, Zenon
<1> QED
  BY <1>7, <1>9, <1>10, Zenon

(* An empty range of slots is the empty sequence. *)
LEMMA ContentEmpty == TypeOK /\ Empty => Content = <<>>
BY ContentType, CountFacts, EmptySeq, Zenon DEF ContentShape

(* An empty ring has empty content, after a step. *)
LEMMA ContentEmptyNext == TypeOK' /\ Empty' => (Content = <<>>)'
BY ContentEmpty, PTL

(* queue_put is a step of the abstract FIFO, or none at all. *)
LEMMA PutImplementsPut ==
    ASSUME TypeOK, TypeOK', NEW p \in Producers, NEW d \in Data, PutStep(p, d)
    PROVE  FIFO!Next \/ UNCHANGED FIFO!vars
<1>1. CASE Full
  <2>1. UNCHANGED <<data, readp, writep, got>>
    BY <1>1, Zenon DEF PutStep
  <2> QED
    BY <2>1, Zenon DEF FIFO!vars, Content, Count, size
<1>2. CASE ~Full
  <2>1. /\ data' = [data EXCEPT ![writep] = d] /\ writep' = (writep + 1) % size
        /\ readp' = readp /\ got' = got
    BY <1>2, Zenon DEF PutStep
  <2>2. Content' = Append(Content, d)
    BY <1>2, <2>1, PutAppends, Zenon
  <2>3. Len(Content) < Capacity
    BY <1>2, ContentType, CountFacts, CapacityAssumption DEF ContentShape
  <2> QED
    BY <2>1, <2>2, <2>3, Zenon DEF FIFO!Next, FIFO!Put
<1> QED
  BY <1>1, <1>2, Zenon

(* queue_get is a step of the abstract FIFO, or none at all. *)
LEMMA GetImplementsGet ==
    ASSUME TypeOK, TypeOK', NEW c \in Consumers, GetStep(c)
    PROVE  FIFO!Next \/ UNCHANGED FIFO!vars
<1>1. CASE Empty
  <2>1. UNCHANGED <<data, readp, writep, got>>
    BY <1>1, Zenon DEF GetStep
  <2> QED
    BY <2>1, Zenon DEF FIFO!vars, Content, Count, size
<1>2. CASE ~Empty
  <2>1. /\ data' = data /\ readp' = (readp + 1) % size /\ writep' = writep
        /\ got' = [got EXCEPT ![c] = data[readp]]
    BY <1>2, Zenon DEF GetStep
  <2>2. Content # <<>> /\ Content' = Tail(Content) /\ data[readp] = Head(Content)
    BY <1>2, <2>1, GetRemoves, Zenon
  <2> QED
    BY <2>1, <2>2, Zenon DEF FIFO!Next, FIFO!Get
<1> QED
  BY <1>1, <1>2, Zenon

(* The circular buffer of queue_put, queue_get and queue_flush implements    *)
(* the bounded first-in first-out channel, for any number of threads and any *)
(* capacity.                                                                 *)
THEOREM QueueImplementsFIFO == Spec => ImplementsFIFO
<1>1. Init => FIFO!Init
  <2> SUFFICES ASSUME Init PROVE FIFO!Init
    BY Zenon
  <2>1. TypeOK /\ Empty
    BY CapacityAssumption DEF Init, TypeOK, Empty, Threads, size
  <2> QED
    BY <2>1, ContentEmpty, Zenon DEF Init, FIFO!Init
<1>2. TypeOK /\ TypeOK' /\ [Next]_vars => [FIFO!Next]_(FIFO!vars)
  <2> SUFFICES ASSUME TypeOK, TypeOK', [Next]_vars
               PROVE  FIFO!Next \/ UNCHANGED FIFO!vars
    BY Zenon
  <2>1. ASSUME NEW p \in Producers, QueuePut(p) \/ QueuePutResume(p)
        PROVE  FIFO!Next \/ UNCHANGED FIFO!vars
    BY <2>1, PutImplementsPut, Zenon DEF QueuePut, QueuePutResume, TypeOK
  <2>2. ASSUME NEW c \in Consumers, QueueGet(c) \/ QueueGetResume(c)
        PROVE  FIFO!Next \/ UNCHANGED FIFO!vars
    BY <2>2, GetImplementsGet, Zenon DEF QueueGet, QueueGetResume
  <2>3. ASSUME UNCHANGED <<data, readp, writep, got>>
        PROVE  UNCHANGED FIFO!vars
    BY <2>3, Zenon DEF FIFO!vars, Content, Count, size
  <2>4. ASSUME NEW t \in Threads, SpuriousWakeup(t) \/ Cancel(t)
        PROVE  UNCHANGED FIFO!vars
    BY <2>3, <2>4, Zenon DEF SpuriousWakeup, Cancel
  <2>5. CASE QueueFlush
    <3>1. Empty' /\ got' = got
      BY <2>5, Zenon DEF QueueFlush, Empty
    <3> QED
      BY <3>1, ContentEmptyNext, Zenon DEF FIFO!Next, FIFO!Flush
  <2>6. CASE UNCHANGED vars
    BY <2>3, <2>6, Zenon DEF vars
  <2> QED
    BY <2>1, <2>2, <2>4, <2>5, <2>6, Zenon DEF Next
<1> QED
  BY <1>1, <1>2, QueueTypeCorrect, PTL DEF Spec, ImplementsFIFO, FIFO!Spec

-----------------------------------------------------------------------------
(* struct seq_queue *)

(* A sequence number modulo SeqMod is in range. *)
LEMMA ModRange ==
    ASSUME NEW n \in Int
    PROVE  n % SeqMod \in 0..SeqMod-1
BY SeqAssumption

-----------------------------------------------------------------------------
(* The blocks of the table with the fragment flag set, or cleared. *)
Flagged(v) == {b \in In("table") : fragment[b] = v}

(* The blocks with the fragment flag set, or cleared, are finitely many. *)
LEMMA FlaggedFinite ==
    ASSUME NEW v
    PROVE  IsFiniteSet(Flagged(v)) /\ Cardinality(Flagged(v)) \in Nat
BY SeqAssumption, FS_Subset, FS_CardinalityType, Zenon DEF Flagged, In

(* The same, after a step. *)
LEMMA FlaggedFiniteNext ==
    ASSUME NEW v
    PROVE  Cardinality(Flagged(v)') \in Nat
BY SeqAssumption, FS_Subset, FS_CardinalityType, Zenon DEF Flagged, In

(* A block that is inserted counts once, under its own flag ... *)
LEMMA InsertCounts ==
    ASSUME SeqTypeOK, NEW b \in Blocks, where[b] = "sent",
           where' = [where EXCEPT ![b] = "table"], fragment' = fragment,
           NEW v \in BOOLEAN
    PROVE  Cardinality(Flagged(v)') =
             Cardinality(Flagged(v)) + (IF fragment[b] = v THEN 1 ELSE 0)
<1>1. Flagged(v)' = IF fragment[b] = v THEN Flagged(v) \cup {b} ELSE Flagged(v)
  BY Zenon DEF Flagged, In, SeqTypeOK
<1>2. b \notin Flagged(v)
  BY Zenon DEF Flagged, In
<1>3. Cardinality(Flagged(v) \cup {b}) = Cardinality(Flagged(v)) + 1
  BY <1>2, FlaggedFinite, FS_AddElement, Zenon
<1> QED
  BY <1>1, <1>3, FlaggedFinite

(* ... and so does a block that is taken out. *)
LEMMA RemoveCounts ==
    ASSUME SeqTypeOK, NEW b \in Blocks, where[b] = "table",
           where' = [where EXCEPT ![b] = "free"], fragment' = fragment,
           NEW v \in BOOLEAN
    PROVE  Cardinality(Flagged(v)') =
             Cardinality(Flagged(v)) - (IF fragment[b] = v THEN 1 ELSE 0)
<1>1. Flagged(v)' = IF fragment[b] = v THEN Flagged(v) \ {b} ELSE Flagged(v)
  BY Zenon DEF Flagged, In, SeqTypeOK
<1>2. fragment[b] = v => b \in Flagged(v)
  BY Zenon DEF Flagged, In
<1>3. fragment[b] = v => Cardinality(Flagged(v) \ {b}) = Cardinality(Flagged(v)) - 1
  BY <1>2, FlaggedFinite, FS_RemoveElement, Zenon
<1> QED
  BY <1>1, <1>3, FlaggedFinite

CountsFlagged ==
    /\ fragment_count = Cardinality(Flagged(TRUE))
    /\ block_count = Cardinality(Flagged(FALSE))

(* The counters are exact when they count the flagged blocks. *)
LEMMA CountsAreFlagged == SeqTypeOK => (CountsExact <=> CountsFlagged)
<1> SUFFICES ASSUME SeqTypeOK PROVE CountsExact <=> CountsFlagged
  BY Zenon
<1>1. {b \in In("table") : fragment[b]} = Flagged(TRUE)
  BY Zenon DEF Flagged, In, SeqTypeOK
<1>2. {b \in In("table") : ~fragment[b]} = Flagged(FALSE)
  BY Zenon DEF Flagged, In, SeqTypeOK
<1> QED
  BY <1>1, <1>2, Zenon DEF CountsExact, CountsFlagged

(* Every step keeps the counters exact. *)
LEMMA NextCounts == SeqTypeOK /\ CountsFlagged /\ [SeqNext]_seqVars => CountsFlagged'
<1> SUFFICES ASSUME SeqTypeOK, CountsFlagged, [SeqNext]_seqVars PROVE CountsFlagged'
  BY Zenon
<1>1. ASSUME UNCHANGED <<fragment_count, block_count>>,
             \A v \in BOOLEAN : Flagged(v)' = Flagged(v)
      PROVE  CountsFlagged'
  BY <1>1, Zenon DEF CountsFlagged
<1>2. ASSUME NEW b \in Blocks, ReaderTake(b) PROVE CountsFlagged'
  BY <1>1, <1>2, Zenon DEF ReaderTake, Flagged, In, SeqTypeOK
<1>3. ASSUME NEW b \in Blocks, NEW f \in BOOLEAN, ReaderSend(b, f) PROVE CountsFlagged'
  BY <1>1, <1>3, Zenon DEF ReaderSend, Flagged, In, SeqTypeOK
<1>4. ASSUME NEW b \in Blocks, NEW f \in BOOLEAN, ReaderReturn(b, f) PROVE CountsFlagged'
  BY <1>1, <1>4 DEF ReaderReturn, Flagged, In, SeqTypeOK
<1>5. ASSUME NEW b \in Blocks, SeqQueuePut(b) PROVE CountsFlagged'
  <2>1. \A v \in BOOLEAN : Cardinality(Flagged(v)') =
             Cardinality(Flagged(v)) + (IF fragment[b] = v THEN 1 ELSE 0)
    BY <1>5, InsertCounts, Zenon DEF SeqQueuePut
  <2>2. fragment[b] \in BOOLEAN
    BY Zenon DEF SeqTypeOK
  <2> QED
    BY <1>5, <2>1, <2>2, Zenon DEF SeqQueuePut, CountsFlagged
<1>6. CASE SeqQueueGet
  <2>1. CASE UNCHANGED <<where, fragment_count, block_count>>
    BY <1>1, <1>6, <2>1, Zenon DEF SeqQueueGet, Flagged, In
  <2>2. ASSUME NEW b \in In("table"),
               where' = [where EXCEPT ![b] = "free"],
               fragment_count' = fragment_count - (IF fragment[b] THEN 1 ELSE 0),
               block_count' = block_count - (IF fragment[b] THEN 0 ELSE 1)
        PROVE  CountsFlagged'
    <3>1. \A v \in BOOLEAN : Cardinality(Flagged(v)') =
               Cardinality(Flagged(v)) - (IF fragment[b] = v THEN 1 ELSE 0)
      BY <1>6, <2>2, RemoveCounts, Zenon DEF SeqQueueGet, In
    <3>2. fragment[b] \in BOOLEAN
      BY Zenon DEF SeqTypeOK, In
    <3> QED
      BY <2>2, <3>1, <3>2, Zenon DEF CountsFlagged
  <2> QED
    BY <1>6, <2>1, <2>2, Zenon DEF SeqQueueGet
<1>7. CASE SpuriousMainWakeup \/ JoinProducers \/ UNCHANGED seqVars
  BY <1>1, <1>7, Zenon DEF SpuriousMainWakeup, JoinProducers, seqVars, Flagged, In
<1>8. CASE SeqQueueFlush
  <2>1. \A v \in BOOLEAN : Flagged(v)' = {}
    BY <1>8, Zenon DEF SeqQueueFlush, Flagged, In, SeqTypeOK
  <2> QED
    BY <1>8, <2>1, FS_EmptySet, Zenon DEF SeqQueueFlush, CountsFlagged
<1> QED
  BY <1>2, <1>3, <1>4, <1>5, <1>6, <1>7, <1>8, Zenon DEF SeqNext

-----------------------------------------------------------------------------
(* Every step keeps the types of the sequence queue. *)
LEMMA NextType == SeqTypeOK /\ CountsFlagged /\ [SeqNext]_seqVars => SeqTypeOK'
<1> SUFFICES ASSUME SeqTypeOK, CountsFlagged, [SeqNext]_seqVars PROVE SeqTypeOK'
  BY Zenon
<1> USE DEF SeqTypeOK
<1>1. ASSUME NEW b \in Blocks, ReaderTake(b) PROVE SeqTypeOK'
  BY <1>1, ModRange DEF ReaderTake
<1>2. ASSUME NEW b \in Blocks, NEW f \in BOOLEAN, ReaderSend(b, f) PROVE SeqTypeOK'
  BY <1>2, Zenon DEF ReaderSend
<1>3. ASSUME NEW b \in Blocks, NEW f \in BOOLEAN, ReaderReturn(b, f) PROVE SeqTypeOK'
  <2>1. seq' \in 0..SeqMod-1
    BY <1>3, ModRange, seq - 1 \in Int, Zenon DEF ReaderReturn
  <2> QED
    BY <1>3, <2>1 DEF ReaderReturn, In
<1>4. ASSUME NEW b \in Blocks, SeqQueuePut(b) PROVE SeqTypeOK'
  BY <1>4 DEF SeqQueuePut
<1>5. CASE SeqQueueGet
  <2>1. fragment_count' \in Nat /\ block_count' \in Nat
    BY NextCounts, FlaggedFinite, FlaggedFiniteNext, Zenon DEF CountsFlagged
  <2>2. where' \in [Blocks -> {"free", "reading", "sent", "table", "dropped"}]
    BY <1>5, Zenon DEF SeqQueueGet, In
  <2>3. sequence' \in 0..SeqMod-1
    BY <1>5, ModRange DEF SeqQueueGet
  <2> QED
    BY <1>5, <2>1, <2>2, <2>3, Zenon DEF SeqQueueGet
<1>6. CASE SpuriousMainWakeup
  BY <1>6, Zenon DEF SpuriousMainWakeup
<1>7. CASE JoinProducers
  BY <1>7, Zenon DEF JoinProducers
<1>8. CASE SeqQueueFlush
  BY <1>8, Zenon DEF SeqQueueFlush
<1>9. CASE UNCHANGED seqVars
  BY <1>9, Zenon DEF seqVars
<1> QED
  BY <1>1, <1>2, <1>3, <1>4, <1>5, <1>6, <1>7, <1>8, <1>9, Zenon DEF SeqNext

-----------------------------------------------------------------------------
(* No step loses main's wakeup. *)
LEMMA NextWakeup == SeqTypeOK /\ NoLostMainWakeup /\ [SeqNext]_seqVars => NoLostMainWakeup'
<1> SUFFICES ASSUME SeqTypeOK, NoLostMainWakeup, [SeqNext]_seqVars PROVE NoLostMainWakeup'
  BY Zenon
<1> USE DEF SeqTypeOK, NoLostMainWakeup, In
<1>1. ASSUME NEW b \in Blocks, ReaderTake(b) PROVE NoLostMainWakeup'
  BY <1>1, Zenon DEF ReaderTake
<1>2. ASSUME NEW b \in Blocks, NEW f \in BOOLEAN, ReaderSend(b, f) PROVE NoLostMainWakeup'
  BY <1>2, Zenon DEF ReaderSend
<1>3. ASSUME NEW b \in Blocks, NEW f \in BOOLEAN, ReaderReturn(b, f) PROVE NoLostMainWakeup'
  BY <1>3, Zenon DEF ReaderReturn
<1>4. ASSUME NEW b \in Blocks, SeqQueuePut(b) PROVE NoLostMainWakeup'
  BY <1>4, Zenon DEF SeqQueuePut
<1>5. CASE SeqQueueGet
  BY <1>5, Zenon DEF SeqQueueGet
<1>6. CASE SpuriousMainWakeup \/ JoinProducers \/ UNCHANGED seqVars
  BY <1>6, Zenon DEF SpuriousMainWakeup, JoinProducers, seqVars
<1>7. CASE SeqQueueFlush
  BY <1>7, Zenon DEF SeqQueueFlush
<1> QED
  BY <1>1, <1>2, <1>3, <1>4, <1>5, <1>6, <1>7, Zenon DEF SeqNext

(* Types, counters and wakeup hold initially. *)
LEMMA InitAll == SeqInit => SeqTypeOK /\ CountsFlagged /\ NoLostMainWakeup
<1> SUFFICES ASSUME SeqInit PROVE SeqTypeOK /\ CountsFlagged /\ NoLostMainWakeup
  BY Zenon
<1>1. SeqTypeOK /\ NoLostMainWakeup
  BY SeqAssumption DEF SeqInit, SeqTypeOK, NoLostMainWakeup
<1>2. \A v \in BOOLEAN : Flagged(v) = {}
  BY Zenon DEF SeqInit, Flagged, In
<1> QED
  BY <1>1, <1>2, FS_EmptySet, Zenon DEF SeqInit, CountsFlagged

(* The variables of the sequence queue keep their types: no counter of       *)
(* seq_queue_get runs below zero.                                            *)
THEOREM SeqQueueTypeCorrect == SeqSpec => []SeqTypeOK
BY InitAll, NextType, NextCounts, PTL DEF SeqSpec

(* The counters that seq_queue_put and seq_queue_get keep are exact.         *)
THEOREM SeqQueueCountsExact == SeqSpec => []CountsExact
BY InitAll, NextType, NextCounts, CountsAreFlagged, PTL DEF SeqSpec

(* seq_queue_put signals often enough: the main thread never sleeps on a     *)
(* block that is there.                                                      *)
THEOREM SeqQueueNoLostWakeup == SeqSpec => []NoLostMainWakeup
BY InitAll, SeqQueueTypeCorrect, NextWakeup, PTL DEF SeqSpec

-----------------------------------------------------------------------------
(* The numbers in flight.  Plus is addition of a small number modulo SeqMod, *)
(* written without the modulus.                                              *)
Plus(a, i) == IF a + i < SeqMod THEN a + i ELSE a + i - SeqMod

(* Addition modulo SeqMod without the remainder operator. *)
LEMMA PlusIsMod ==
    ASSUME NEW a \in 0..SeqMod-1, NEW i \in 0..SeqMod-1
    PROVE  (a + i) % SeqMod = Plus(a, i)
BY SeqAssumption DEF Plus

(* The predecessor modulo SeqMod, which wraps at zero. *)
LEMMA MinusOne ==
    ASSUME NEW a \in 0..SeqMod-1
    PROVE  (a - 1) % SeqMod = IF a = 0 THEN SeqMod - 1 ELSE a - 1
BY SeqAssumption

(* The strengthening of NumbersInFlight that is inductive: the numbers fill  *)
(* the window without a gap, no two blocks share one, and the reader holds   *)
(* the newest ones.                                                          *)
WindowOf(n) ==
    /\ n \in Nat /\ n < SeqMod
    /\ seq = Plus(sequence, n)
    /\ \A b \in InFlight : \E i \in 0..n-1 : number[b] = Plus(sequence, i)
    /\ \A i \in 0..n-1 : \E b \in InFlight : number[b] = Plus(sequence, i)
    /\ \A b, c \in InFlight : number[b] = number[c] => b = c

Window == WindowOf(Cardinality(InFlight))

Newest ==
    \A b \in In("reading") :
       \/ Plus(number[b], 1) = seq
       \/ \E c \in In("reading") : /\ Plus(number[b], 1) = number[c]
                                   /\ Plus(number[c], 1) = seq

WindowInv == producers = "running" => Window /\ Newest

(* Fewer buffers are in flight than there are sequence numbers. *)
LEMMA InFlightFinite ==
    /\ IsFiniteSet(InFlight) /\ Cardinality(InFlight) \in Nat
    /\ Cardinality(InFlight) < SeqMod
<1>1. InFlight \subseteq Blocks
  BY Zenon DEF InFlight, In
<1> QED
  BY <1>1, SeqAssumption, FS_Subset, FS_CardinalityType

(* The same, after a step. *)
LEMMA InFlightFiniteNext == Cardinality(InFlight') \in Nat /\ Cardinality(InFlight') < SeqMod
<1>1. InFlight' \subseteq Blocks
  BY Zenon DEF InFlight, In
<1> QED
  BY <1>1, SeqAssumption, FS_Subset, FS_CardinalityType

(* ReaderTake opens the window by one number at its upper end. *)
LEMMA WindowGrows ==
    ASSUME SeqTypeOK, NEW n, WindowOf(n), n + 1 < SeqMod,
           NEW b \in Blocks, b \notin InFlight,
           InFlight' = InFlight \cup {b},
           number' = [number EXCEPT ![b] = seq],
           seq' = Plus(seq, 1), sequence' = sequence
    PROVE  /\ n + 1 \in Nat
           /\ seq' = Plus(sequence', n + 1)
           /\ \A c \in InFlight' : \E i \in 0..n : number'[c] = Plus(sequence', i)
           /\ \A i \in 0..n : \E c \in InFlight' : number'[c] = Plus(sequence', i)
           /\ \A c, d \in InFlight' : number'[c] = number'[d] => c = d
<1>1. n \in Nat
  BY Zenon DEF WindowOf
<1>2. /\ SeqMod \in Nat /\ SeqMod > 0 /\ seq \in 0..SeqMod-1 /\ sequence \in 0..SeqMod-1
      /\ number'[b] = seq /\ \A c \in InFlight : number'[c] = number[c]
  BY SeqAssumption DEF SeqTypeOK, InFlight, In
<1>3. seq = Plus(sequence, n)
  BY Zenon DEF WindowOf
<1>4. seq' = Plus(sequence, n + 1)
  BY <1>1, <1>2, <1>3 DEF Plus
<1>5. \A c \in InFlight' : \E i \in 0..n : number'[c] = Plus(sequence, i)
  BY <1>1, <1>2, <1>3 DEF WindowOf
<1>6. \A i \in 0..n : \E c \in InFlight' : number'[c] = Plus(sequence, i)
  <2> SUFFICES ASSUME NEW i \in 0..n
               PROVE  \E c \in InFlight' : number'[c] = Plus(sequence, i)
    BY Zenon
  <2>1. CASE i = n
    BY <2>1, <1>2, <1>3, Zenon
  <2>2. CASE i # n
    <3>1. i \in 0..n-1
      BY <1>1, <2>2
    <3>2. PICK c \in InFlight : number[c] = Plus(sequence, i)
      BY <3>1, Zenon DEF WindowOf
    <3> QED
      BY <1>2, <3>2, Zenon
  <2> QED
    BY <2>1, <2>2, Zenon
<1>7. \A c \in InFlight : number[c] # seq
  <2> SUFFICES ASSUME NEW c \in InFlight PROVE number[c] # seq
    BY Zenon
  <2>1. PICK i \in 0..n-1 : number[c] = Plus(sequence, i)
    BY Zenon DEF WindowOf
  <2> QED
    BY <1>1, <1>2, <1>3, <2>1 DEF Plus
<1>8. \A c, d \in InFlight' : number'[c] = number'[d] => c = d
  BY <1>2, <1>7 DEF WindowOf
<1> QED
  BY <1>1, <1>4, <1>5, <1>6, <1>8

(* seq_queue_get closes it by one number at its lower end. *)
LEMMA WindowAdvances ==
    ASSUME SeqTypeOK, NEW n, WindowOf(n),
           NEW b \in InFlight, number[b] = sequence,
           InFlight' = InFlight \ {b},
           number' = number, seq' = seq, sequence' = Plus(sequence, 1)
    PROVE  /\ n - 1 \in Nat
           /\ seq' = Plus(sequence', n - 1)
           /\ \A c \in InFlight' : \E i \in 0..n-2 : number'[c] = Plus(sequence', i)
           /\ \A i \in 0..n-2 : \E c \in InFlight' : number'[c] = Plus(sequence', i)
           /\ \A c, d \in InFlight' : number'[c] = number'[d] => c = d
<1>1. n \in Nat /\ n < SeqMod /\ n # 0
  BY DEF WindowOf
<1>2. /\ SeqMod \in Nat /\ SeqMod > 0 /\ seq \in 0..SeqMod-1 /\ sequence \in 0..SeqMod-1
  BY SeqAssumption DEF SeqTypeOK
<1>3. \A i \in 1..n : Plus(Plus(sequence, 1), i - 1) = Plus(sequence, i)
  BY <1>1, <1>2 DEF Plus
<1>4. seq' = Plus(sequence', n - 1)
  BY <1>1, <1>3 DEF WindowOf
<1>5. ASSUME NEW c \in InFlight'
      PROVE  \E i \in 0..n-2 : number'[c] = Plus(sequence', i)
  <2>1. PICK i \in 0..n-1 : number[c] = Plus(sequence, i)
    BY Zenon DEF WindowOf
  <2>2. number[c] # sequence
    BY Zenon DEF WindowOf
  <2>3. i # 0
    BY <1>2, <2>1, <2>2 DEF Plus
  <2>4. i - 1 \in 0..n-2 /\ i \in 1..n
    BY <1>1, <2>3
  <2> QED
    BY <1>3, <2>1, <2>4, Zenon
<1>6. ASSUME NEW i \in 0..n-2
      PROVE  \E c \in InFlight' : number'[c] = Plus(sequence', i)
  <2>1. i + 1 \in 1..n /\ i + 1 \in 0..n-1 /\ i = (i + 1) - 1
    BY <1>1
  <2>2. PICK c \in InFlight : number[c] = Plus(sequence, i + 1)
    BY <2>1, Zenon DEF WindowOf
  <2>3. c # b
    BY <1>1, <1>2, <2>1, <2>2 DEF Plus
  <2>4. number[c] = Plus(sequence', i)
    BY <1>3, <2>1, <2>2, Zenon
  <2> QED
    BY <2>2, <2>3, <2>4, Zenon
<1> QED
  BY <1>1, <1>4, <1>5, <1>6 DEF WindowOf

(* ReaderReturn takes the upper end back. *)
LEMMA WindowShrinks ==
    ASSUME SeqTypeOK, NEW n, WindowOf(n),
           NEW b \in InFlight, Plus(number[b], 1) = seq,
           InFlight' = InFlight \ {b},
           number' = number, seq' = number[b], sequence' = sequence
    PROVE  /\ n - 1 \in Nat
           /\ seq' = Plus(sequence', n - 1)
           /\ \A c \in InFlight' : \E i \in 0..n-2 : number'[c] = Plus(sequence', i)
           /\ \A i \in 0..n-2 : \E c \in InFlight' : number'[c] = Plus(sequence', i)
           /\ \A c, d \in InFlight' : number'[c] = number'[d] => c = d
<1>1. n \in Nat /\ n < SeqMod /\ n # 0 /\ seq = Plus(sequence, n)
  BY DEF WindowOf
<1>2. /\ SeqMod \in Nat /\ SeqMod > 0 /\ seq \in 0..SeqMod-1 /\ sequence \in 0..SeqMod-1
      /\ number[b] \in 0..SeqMod-1
  BY SeqAssumption DEF SeqTypeOK, InFlight, In
<1>3. number[b] = Plus(sequence, n - 1)
  BY <1>1, <1>2 DEF Plus
<1>5. ASSUME NEW c \in InFlight'
      PROVE  \E i \in 0..n-2 : number'[c] = Plus(sequence', i)
  <2>1. PICK i \in 0..n-1 : number[c] = Plus(sequence, i)
    BY Zenon DEF WindowOf
  <2>2. number[c] # number[b]
    BY Zenon DEF WindowOf
  <2>3. i # n - 1
    BY <1>3, <2>1, <2>2, Zenon
  <2>4. i \in 0..n-2
    BY <1>1, <2>3
  <2> QED
    BY <2>1, <2>4, Zenon
<1>6. ASSUME NEW i \in 0..n-2
      PROVE  \E c \in InFlight' : number'[c] = Plus(sequence', i)
  <2>1. i \in 0..n-1 /\ i # n - 1
    BY <1>1
  <2>2. PICK c \in InFlight : number[c] = Plus(sequence, i)
    BY <2>1, Zenon DEF WindowOf
  <2>3. c # b
    BY <1>1, <1>2, <1>3, <2>1, <2>2 DEF Plus
  <2> QED
    BY <2>2, <2>3, Zenon
<1> QED
  BY <1>1, <1>3, <1>5, <1>6 DEF WindowOf

(* Two buffers being read need at least three sequence numbers. *)
LEMMA ReadingTwo ==
    ASSUME NEW b \in In("reading"), NEW c \in In("reading"), b # c
    PROVE  /\ ~(Cardinality(In("reading")) < 2)
           /\ SeqMod >= 3
<1>1. IsFiniteSet(In("reading")) /\ IsFiniteSet(Blocks)
  BY SeqAssumption, FS_Subset, Zenon DEF In
<1>2. Cardinality({b, c}) = 2
  <2>1. Cardinality({b}) = 1 /\ IsFiniteSet({b})
    BY FS_Singleton, Zenon
  <2>2. {b, c} = {b} \cup {c} /\ c \notin {b}
    BY Zenon
  <2> QED
    BY <2>1, <2>2, FS_AddElement
<1>3. {b, c} \subseteq In("reading") /\ {b, c} \subseteq Blocks
  BY Zenon DEF In
<1>4. 2 <= Cardinality(In("reading")) /\ 2 <= Cardinality(Blocks)
  BY <1>1, <1>2, <1>3, FS_Subset
<1> QED
  BY <1>1, <1>4, SeqAssumption, FS_CardinalityType

Distinct == \A b, c \in InFlight : number[b] = number[c] => b = c

(* Two numbers with one successor are equal, the wrapped one included. *)
LEMMA PlusOneInjective ==
    ASSUME NEW x \in 0..SeqMod-1, NEW y \in 0..SeqMod-1, Plus(x, 1) = Plus(y, 1)
    PROVE  x = y
BY SeqAssumption DEF Plus

(* Of two blocks in the hands of the reader the newer one has the last number. *)
LEMMA SecondIsLast ==
    ASSUME SeqTypeOK, Newest, NEW b \in In("reading"), NEW c \in In("reading"),
           b # c, number[c] = Plus(number[b], 1)
    PROVE  Plus(number[c], 1) = seq
<1>1. SeqMod >= 3 /\ SeqMod \in Nat /\ seq \in 0..SeqMod-1
  BY ReadingTwo, SeqAssumption, Zenon DEF SeqTypeOK
<1>2. CASE Plus(number[b], 1) = seq
  <2>1. Plus(seq, 1) # seq
    BY <1>1 DEF Plus
  <2>2. PICK d \in In("reading") : /\ Plus(number[c], 1) = number[d]
                                   /\ Plus(number[d], 1) = seq
    BY <1>2, <2>1, Zenon DEF Newest
  <2>3. Plus(Plus(seq, 1), 1) # seq
    BY <1>1 DEF Plus
  <2> QED
    BY <1>2, <2>2, <2>3, Zenon
<1>3. CASE Plus(number[b], 1) # seq
  BY <1>3, Zenon DEF Newest
<1> QED
  BY <1>2, <1>3, Zenon

(* There is no third one. *)
LEMMA ReadingPair ==
    ASSUME SeqTypeOK, Newest, Distinct, NEW b \in In("reading"), NEW c \in In("reading"),
           b # c, number[c] = Plus(number[b], 1)
    PROVE  In("reading") = {b, c}
<1> SUFFICES ASSUME NEW d \in In("reading") PROVE d \in {b, c}
  BY Zenon
<1>1. Plus(number[c], 1) = seq
  BY SecondIsLast, Zenon
<1>2. /\ In("reading") \subseteq InFlight
      /\ \A e \in In("reading") : number[e] \in 0..SeqMod-1
  BY Zenon DEF InFlight, In, SeqTypeOK
<1>3. CASE Plus(number[d], 1) = seq
  <2>1. number[d] = number[c]
    BY <1>1, <1>2, <1>3, PlusOneInjective, Zenon
  <2> QED
    BY <1>2, <2>1, Zenon DEF Distinct
<1>4. CASE Plus(number[d], 1) # seq
  <2>1. PICK e \in In("reading") : /\ Plus(number[d], 1) = number[e]
                                   /\ Plus(number[e], 1) = seq
    BY <1>4, Zenon DEF Newest
  <2>2. number[e] = number[c]
    BY <1>1, <1>2, <2>1, PlusOneInjective, Zenon
  <2>3. number[d] = number[b]
    BY <1>2, <2>1, <2>2, PlusOneInjective, Zenon
  <2> QED
    BY <1>2, <2>3, Zenon DEF Distinct
<1> QED
  BY <1>3, <1>4, Zenon

(* While the producers run, a step keeps the newest number in place. *)
LEMMA NextNewest ==
    SeqTypeOK /\ Newest /\ Distinct /\ [SeqNext]_seqVars /\ producers = "running" => Newest'
<1> SUFFICES ASSUME SeqTypeOK, Newest, Distinct, [SeqNext]_seqVars, producers = "running"
             PROVE  Newest'
  BY Zenon
<1>0. /\ SeqMod \in Nat /\ SeqMod > 0 /\ seq \in 0..SeqMod-1
      /\ \A b \in Blocks : number[b] \in 0..SeqMod-1
  BY SeqAssumption DEF SeqTypeOK
<1>1. ASSUME NEW b \in Blocks, ReaderTake(b) PROVE Newest'
  <2>1. In("reading")' = In("reading") \cup {b} /\ b \notin In("reading")
    BY <1>1, Zenon DEF ReaderTake, In, SeqTypeOK
  <2>2. \A c, d \in In("reading") : c = d
    BY <1>1, ReadingTwo, Zenon DEF ReaderTake
  <2>3. seq' = Plus(seq, 1)
    BY <1>1, <1>0 DEF ReaderTake, Plus
  <2>4. number'[b] = seq /\ \A c \in In("reading") : number'[c] = number[c]
    BY <1>1, <2>1, Zenon DEF ReaderTake, SeqTypeOK, In
  <2>5. Plus(number'[b], 1) = seq'
    BY <2>3, <2>4, Zenon
  <2>6. ASSUME NEW c \in In("reading")
        PROVE  Plus(number'[c], 1) = number'[b]
    <3>1. Plus(number[c], 1) = seq \/ Plus(number[c], 1) = number[c]
      BY <2>2, Zenon DEF Newest
    <3> QED
      BY <1>0, <2>2, <2>4, <3>1, Zenon DEF Newest, In
  <2> QED
    BY <2>1, <2>5, <2>6, Zenon DEF Newest, Plus
<1>2. ASSUME NEW b \in Blocks, NEW f \in BOOLEAN, ReaderSend(b, f) PROVE Newest'
  <2>1. In("reading")' = In("reading") \ {b} /\ b \in In("reading")
    BY <1>2, Zenon DEF ReaderSend, In, SeqTypeOK
  <2>2. number' = number /\ seq' = seq
    BY <1>2, Zenon DEF ReaderSend
  <2>3. ASSUME NEW c \in In("reading"), c # b PROVE Plus(number[c], 1) = seq
    <3>1. number[c] = Plus(number[b], 1)
      BY <1>0, <1>2, <2>3, ReadingTwo, <2>1 DEF ReaderSend, Plus, In
    <3> QED
      BY <2>1, <2>3, <3>1, SecondIsLast, Zenon
  <2> QED
    BY <2>1, <2>2, <2>3, Zenon DEF Newest, Plus
<1>3. ASSUME NEW b \in Blocks, NEW f \in BOOLEAN, ReaderReturn(b, f) PROVE Newest'
  <2>1. PICK prev \in In("reading") \ {b} :
          /\ number[b] = (number[prev] + 1) % SeqMod
          /\ where' = [where EXCEPT ![b] = "free", ![prev] = "sent"]
    BY <1>3, Zenon DEF ReaderReturn
  <2>2. b \in In("reading")
    BY <1>3, Zenon DEF ReaderReturn, In
  <2>3. number[b] = Plus(number[prev], 1)
    BY <1>0, <2>1, <2>2, ReadingTwo DEF Plus, In
  <2>4. In("reading") = {prev, b}
    BY <2>1, <2>2, <2>3, ReadingPair, Zenon
  <2>5. In("reading")' = {}
    BY <2>1, <2>4, Zenon DEF In, SeqTypeOK
  <2> QED
    BY <2>5, Zenon DEF Newest
<1>4. ASSUME In("reading")' = In("reading"), number' = number, seq' = seq PROVE Newest'
  BY <1>4, Zenon DEF Newest, Plus
<1>5. ASSUME NEW b \in Blocks, SeqQueuePut(b) PROVE Newest'
  BY <1>4, <1>5, Zenon DEF SeqQueuePut, In, SeqTypeOK
<1>6. CASE SeqQueueGet
  BY <1>4, <1>6, Zenon DEF SeqQueueGet, In, SeqTypeOK
<1>7. CASE SpuriousMainWakeup \/ JoinProducers \/ UNCHANGED seqVars
  BY <1>4, <1>7, Zenon DEF SpuriousMainWakeup, JoinProducers, In, seqVars
<1>8. CASE SeqQueueFlush
  BY <1>8, Zenon DEF SeqQueueFlush
<1> QED
  BY <1>1, <1>2, <1>3, <1>5, <1>6, <1>7, <1>8, Zenon DEF SeqNext

(* What the three window lemmas conclude is the window of the next state. *)
LEMMA WindowNext ==
    ASSUME NEW n, n \in Nat, n < SeqMod, Cardinality(InFlight') = n,
           seq' = Plus(sequence', n),
           \A c \in InFlight' : \E i \in 0..n-1 : number'[c] = Plus(sequence', i),
           \A i \in 0..n-1 : \E c \in InFlight' : number'[c] = Plus(sequence', i),
           \A c, d \in InFlight' : number'[c] = number'[d] => c = d
    PROVE  Window'
BY Zenon DEF Window, WindowOf, Plus

(* While the producers run, a step keeps the numbers in the window. *)
LEMMA NextWindow ==
    SeqTypeOK /\ Window /\ Newest /\ [SeqNext]_seqVars /\ producers = "running" => Window'
<1> SUFFICES ASSUME SeqTypeOK, Window, Newest, [SeqNext]_seqVars, producers = "running"
             PROVE  Window'
  BY Zenon
<1>0. /\ SeqMod \in Nat /\ SeqMod > 0
      /\ seq \in 0..SeqMod-1 /\ sequence \in 0..SeqMod-1
      /\ \A b \in Blocks : number[b] \in 0..SeqMod-1
  BY SeqAssumption DEF SeqTypeOK
<1>1. PICK n : n = Cardinality(InFlight)
  BY Zenon
<1>2. WindowOf(n) /\ n \in Nat /\ n < SeqMod /\ IsFiniteSet(InFlight)
  BY <1>1, InFlightFinite, Zenon DEF Window
<1>3. ASSUME NEW b \in Blocks, ReaderTake(b) PROVE Window'
  <2>1. InFlight' = InFlight \cup {b} /\ b \notin InFlight
    BY <1>3, Zenon DEF ReaderTake, InFlight, In, SeqTypeOK
  <2>2. Cardinality(InFlight') = n + 1
    BY <1>1, <1>2, <2>1, FS_AddElement, Zenon
  <2>3. n + 1 < SeqMod
    BY <2>2, InFlightFiniteNext, Zenon
  <2>4. number' = [number EXCEPT ![b] = seq] /\ sequence' = sequence
    BY <1>3, Zenon DEF ReaderTake
  <2>5. seq' = Plus(seq, 1)
    BY <1>0, <1>3 DEF ReaderTake, Plus
  <2>6. n + 1 \in Nat /\ (n + 1) - 1 = n
    BY <1>2
  <2>7. /\ n + 1 \in Nat
        /\ seq' = Plus(sequence', n + 1)
        /\ \A c \in InFlight' : \E i \in 0..n : number'[c] = Plus(sequence', i)
        /\ \A i \in 0..n : \E c \in InFlight' : number'[c] = Plus(sequence', i)
        /\ \A c, d \in InFlight' : number'[c] = number'[d] => c = d
    BY <1>2, <2>1, <2>3, <2>4, <2>5, WindowGrows, Zenon
  <2> QED
    BY <2>2, <2>3, <2>6, <2>7, WindowNext
<1>4. ASSUME NEW b \in Blocks, NEW f \in BOOLEAN, ReaderReturn(b, f) PROVE Window'
  <2>1. PICK prev \in In("reading") \ {b} :
          /\ number[b] = (number[prev] + 1) % SeqMod
          /\ where' = [where EXCEPT ![b] = "free", ![prev] = "sent"]
    BY <1>4, Zenon DEF ReaderReturn
  <2>2. b \in In("reading") /\ b \in InFlight
    BY <1>4, Zenon DEF ReaderReturn, In, InFlight
  <2>3. number[b] = Plus(number[prev], 1)
    BY <1>0, <2>1, <2>2, ReadingTwo DEF Plus, In
  <2>4. Plus(number[b], 1) = seq
    BY <2>1, <2>2, <2>3, SecondIsLast, Zenon
  <2>5. InFlight' = InFlight \ {b}
    BY <2>1, <2>2, Zenon DEF InFlight, In, SeqTypeOK
  <2>6. seq' = number[b]
    <3>1. seq' = IF seq = 0 THEN SeqMod - 1 ELSE seq - 1
      BY <1>0, <1>4, MinusOne, Zenon DEF ReaderReturn
    <3> QED
      BY <1>0, <2>4, <3>1 DEF Plus
  <2>7. Cardinality(InFlight') = n - 1 /\ n - 1 < SeqMod
    <3>1. Cardinality(InFlight \ {b}) = n - 1
      BY <1>1, <1>2, <2>2, FS_RemoveElement, Zenon
    <3> QED
      BY <1>0, <1>2, <2>5, <3>1
  <2>8. number' = number /\ sequence' = sequence
    BY <1>4, Zenon DEF ReaderReturn
  <2>9. (n - 1) - 1 = n - 2
    BY <1>2
  <2>10. /\ n - 1 \in Nat
         /\ seq' = Plus(sequence', n - 1)
         /\ \A c \in InFlight' : \E i \in 0..n-2 : number'[c] = Plus(sequence', i)
         /\ \A i \in 0..n-2 : \E c \in InFlight' : number'[c] = Plus(sequence', i)
         /\ \A c, d \in InFlight' : number'[c] = number'[d] => c = d
    BY <1>2, <2>2, <2>4, <2>5, <2>6, <2>8, WindowShrinks, Zenon
  <2> QED
    BY <2>7, <2>9, <2>10, WindowNext
<1>5. CASE SeqQueueGet /\ sequence' # sequence
  <2>1. PICK b \in In("table") :
          /\ number[b] = sequence
          /\ where' = [where EXCEPT ![b] = "free"]
          /\ sequence' = (sequence + 1) % SeqMod
    BY <1>5, Zenon DEF SeqQueueGet
  <2>2. InFlight' = InFlight \ {b} /\ b \in InFlight
    BY <2>1, Zenon DEF InFlight, In, SeqTypeOK
  <2>3. sequence' = Plus(sequence, 1)
    BY <1>0, <2>1 DEF Plus
  <2>4. Cardinality(InFlight') = n - 1 /\ n - 1 < SeqMod
    <3>1. Cardinality(InFlight \ {b}) = n - 1
      BY <1>1, <1>2, <2>2, FS_RemoveElement, Zenon
    <3> QED
      BY <1>0, <1>2, <2>2, <3>1
  <2>5. number' = number /\ seq' = seq
    BY <1>5, Zenon DEF SeqQueueGet
  <2>6. (n - 1) - 1 = n - 2
    BY <1>2
  <2>7. /\ n - 1 \in Nat
        /\ seq' = Plus(sequence', n - 1)
        /\ \A c \in InFlight' : \E i \in 0..n-2 : number'[c] = Plus(sequence', i)
        /\ \A i \in 0..n-2 : \E c \in InFlight' : number'[c] = Plus(sequence', i)
        /\ \A c, d \in InFlight' : number'[c] = number'[d] => c = d
    BY <1>2, <2>1, <2>2, <2>3, <2>5, WindowAdvances, Zenon
  <2> QED
    BY <2>4, <2>6, <2>7, WindowNext
<1>6. ASSUME InFlight' = InFlight, number' = number, seq' = seq, sequence' = sequence
      PROVE  Window'
  BY <1>6, Zenon DEF Window, WindowOf, Plus
<1>7. ASSUME NEW b \in Blocks, SeqQueuePut(b) PROVE Window'
  BY <1>6, <1>7, Zenon DEF SeqQueuePut, InFlight, In, SeqTypeOK
<1>8. ASSUME NEW b \in Blocks, NEW f \in BOOLEAN, ReaderSend(b, f) PROVE Window'
  BY <1>6, <1>8, Zenon DEF ReaderSend, InFlight, In, SeqTypeOK
<1>9. CASE SeqQueueGet /\ sequence' = sequence
  <2>1. CASE UNCHANGED where
    BY <1>6, <1>9, <2>1, Zenon DEF SeqQueueGet, InFlight, In
  <2>2. CASE sequence' = (sequence + 1) % SeqMod
    <3>1. SeqMod = 1
      BY <1>0, <1>9, <2>2
    <3>2. InFlight = {}
      BY <1>1, <1>2, <3>1, FS_EmptySet
    <3>3. In("table") = {}
      BY <3>2, Zenon DEF InFlight
    <3> QED
      BY <1>6, <1>9, <3>3, Zenon DEF SeqQueueGet, InFlight, In
  <2> QED
    BY <1>9, <2>1, <2>2, Zenon DEF SeqQueueGet
<1>10. CASE SpuriousMainWakeup \/ JoinProducers \/ UNCHANGED seqVars
  BY <1>6, <1>10, Zenon DEF SpuriousMainWakeup, JoinProducers, seqVars, InFlight, In
<1>11. CASE SeqQueueFlush
  BY <1>11, Zenon DEF SeqQueueFlush
<1> QED
  BY <1>3, <1>4, <1>5, <1>7, <1>8, <1>9, <1>10, <1>11, Zenon DEF SeqNext

(* The window is the property checked: numbers in flight differ. *)
LEMMA WindowIsNumbersInFlight == SeqTypeOK /\ WindowInv => NumbersInFlight
<1> SUFFICES ASSUME SeqTypeOK, Window PROVE
      LET n == Cardinality(InFlight)
      IN  /\ seq = (sequence + n) % SeqMod
          /\ {number[b] : b \in InFlight} = {(sequence + i) % SeqMod : i \in 0..n-1}
  BY Zenon DEF WindowInv, NumbersInFlight
<1>1. PICK n : n = Cardinality(InFlight)
  BY Zenon
<1>2. WindowOf(n) /\ n \in 0..SeqMod-1 /\ sequence \in 0..SeqMod-1
  BY <1>1, InFlightFinite, SeqAssumption DEF Window, SeqTypeOK
<1>3. \A i \in 0..n : (sequence + i) % SeqMod = Plus(sequence, i)
  BY <1>2, PlusIsMod, SeqAssumption
<1>4. \A i \in 0..n-1 : (sequence + i) % SeqMod = Plus(sequence, i)
  BY <1>2, <1>3
<1>5. seq = (sequence + n) % SeqMod
  BY <1>2, <1>3 DEF WindowOf
<1>6. {number[b] : b \in InFlight} = {(sequence + i) % SeqMod : i \in 0..n-1}
  <2>1. \A b \in InFlight : \E i \in 0..n-1 : number[b] = (sequence + i) % SeqMod
    BY <1>2, <1>4, Zenon DEF WindowOf
  <2>2. \A i \in 0..n-1 : \E b \in InFlight : number[b] = (sequence + i) % SeqMod
    BY <1>2, <1>4, Zenon DEF WindowOf
  <2> QED
    BY <2>1, <2>2, Zenon
<1> QED
  BY <1>1, <1>5, <1>6, Zenon

(* The window holds initially. *)
LEMMA InitWindow == SeqInit => WindowInv
<1> SUFFICES ASSUME SeqInit PROVE Window /\ Newest
  BY Zenon DEF WindowInv
<1>1. InFlight = {} /\ In("reading") = {}
  BY Zenon DEF SeqInit, InFlight, In
<1>2. Cardinality(InFlight) = 0
  BY <1>1, FS_EmptySet, Zenon
<1>3. WindowOf(0)
  BY <1>1, SeqAssumption DEF SeqInit, WindowOf, Plus
<1> QED
  BY <1>1, <1>2, <1>3, Zenon DEF Window, Newest

(* Every step keeps the window. *)
LEMMA NextWindowInv == SeqTypeOK /\ WindowInv /\ [SeqNext]_seqVars => WindowInv'
<1> SUFFICES ASSUME SeqTypeOK, WindowInv, [SeqNext]_seqVars, producers' = "running"
             PROVE  Window' /\ Newest'
  BY Zenon DEF WindowInv
<1>1. producers = "running"
  BY Zenon DEF SeqNext, seqVars, ReaderTake, ReaderSend, ReaderReturn, SeqQueuePut, SeqQueueGet,
         SpuriousMainWakeup, JoinProducers, SeqQueueFlush
<1>2. Window /\ Newest /\ Distinct
  BY <1>1, Zenon DEF WindowInv, Window, WindowOf, Distinct
<1> QED
  BY <1>1, <1>2, NextWindow, NextNewest, Zenon

(* The numbers in flight are the ones between the counter of seq_queue_get   *)
(* and the counter of the reader, each once: the main thread sees every      *)
(* block, in order, and never waits for a number that nobody has.            *)
THEOREM SeqQueueNumbersInFlight == SeqSpec => []NumbersInFlight
BY InitAll, InitWindow, SeqQueueTypeCorrect, NextWindowInv, WindowIsNumbersInFlight, PTL
   DEF SeqSpec
=============================================================================
