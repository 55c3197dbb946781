---------------------------- MODULE CacheProofs ----------------------------
(* Proofs about the struct cache of Mksquashfs, for any number of threads,  *)
(* buffers and indexes, and for every kind of cache.                        *)
EXTENDS Cache, ListProofs

-----------------------------------------------------------------------------
(* The inductive invariant. *)
FreePlaces == {"wait_free", "woken_free"}
UnlockPlaces == {"want_unlock", "wait_unlock", "woken_unlock"}
Places == {"running"} \cup FreePlaces \cup UnlockPlaces
HeldValues == Indexes \cup {Unhashed, NotHeld}
Args == Indexes \cup Buffers \cup {Unhashed, None}

Types ==
    /\ noshrink_lookup \in BOOLEAN /\ first_freelist \in BOOLEAN
    /\ count \in Nat /\ used \in Nat
    /\ free_list \in Seq(Buffers)
    /\ hashed \subseteq Buffers /\ allocated \subseteq Buffers
    /\ uses \in [Buffers -> Nat]
    /\ index \in [Buffers -> Indexes \cup {Unhashed}]
    /\ locked \in [Buffers -> BOOLEAN]
    /\ wait_on_unlock \in [Buffers -> BOOLEAN]
    /\ held \in [Threads -> [Buffers -> HeldValues]]
    /\ thread \in [Threads -> Places]
    /\ arg \in [Threads -> Args]
    /\ filler \in [Buffers -> Threads \cup {None}]

(* The lists: every allocated buffer is in use or on the free list.         *)
Lists ==
    /\ Distinct(free_list)
    /\ Elems(free_list) = allocated \ InUse
    /\ InUse \subseteq allocated
    /\ Elems(free_list) \subseteq hashed
    /\ hashed \subseteq allocated
    /\ ~noshrink_lookup => hashed = {} /\ free_list = <<>>

(* The counters. *)
Counters ==
    /\ count = Cardinality(allocated)
    /\ \A b \in Buffers : uses[b] = Cardinality(Holders(b))
    /\ IF noshrink_lookup THEN used = Cardinality(InUse) ELSE used <= max_buffers

(* Who holds a buffer, and under which index. *)
Held ==
    /\ \A t \in Threads, b \in Buffers : held[t][b] \in Indexes =>
          index[b] = held[t][b] /\ b \in hashed
    /\ \A t \in Threads, b \in Buffers : held[t][b] = Unhashed =>
          /\ b \notin hashed
          /\ \A u \in Threads : held[u][b] # NotHeld => u = t
    /\ \A b, c \in hashed : index[b] = index[c] => b = c
    /\ \A b \in hashed : index[b] \in Indexes

(* What a thread that is not running waits for.  No buffer has the index    *)
(* that a thread in cache_get is waiting to use, and no other thread wants  *)
(* it: it was free when cache_get was called, and stays so.                 *)
Waits ==
    \A t \in Threads :
        /\ thread[t] \in FreePlaces =>
              /\ arg[t] \in Indexes \cup {Unhashed}
              /\ arg[t] \in Indexes =>
                    /\ noshrink_lookup
                    /\ \A b \in hashed : index[b] # arg[t]
                    /\ \A u \in Threads : thread[u] \in FreePlaces /\ arg[u] = arg[t] => u = t
        /\ thread[t] \in UnlockPlaces =>
              arg[t] \in Buffers /\ held[t][arg[t]] \in Indexes

(* A locked buffer is held by the thread that fills it in, and by others    *)
(* only while they are in cache_wait_unlock for it.                         *)
Fillers ==
    \A b \in Buffers :
        /\ ~locked[b] => filler[b] = None
        /\ locked[b] =>
              /\ filler[b] \in Threads /\ held[filler[b]][b] \in Indexes
              /\ \A t \in Threads : held[t][b] # NotHeld /\ t # filler[b] =>
                    thread[t] \in UnlockPlaces /\ arg[t] = b

(* The two halves of NoLostWakeup. *)
Available == (IF noshrink_lookup THEN Len(free_list) ELSE 0) + (max_buffers - count)
FreeWakeup == At("wait_free") # {} => Available <= Cardinality(At("woken_free"))
UnlockWakeup ==
    \A t \in Threads : thread[t] = "wait_unlock" =>
        locked[arg[t]] /\ wait_on_unlock[arg[t]]

IInv == /\ Types /\ Lists /\ Counters /\ Held /\ Waits /\ Fillers
        /\ FreeWakeup /\ UnlockWakeup

-----------------------------------------------------------------------------
(* All sets of buffers and threads are finite. *)
LEMMA Finite ==
    ASSUME FiniteSetFacts
    PROVE  /\ max_buffers \in Nat
           /\ \A S \in SUBSET Buffers : /\ IsFiniteSet(S) /\ Cardinality(S) \in Nat
                                        /\ Cardinality(S) <= max_buffers
           /\ \A T \in SUBSET Threads : IsFiniteSet(T) /\ Cardinality(T) \in Nat
<1>1. \A S \in SUBSET Buffers : IsFiniteSet(S) /\ Cardinality(S) <= max_buffers
  BY CacheAssumption, FinitePart, Zenon DEF max_buffers
<1>2. \A T \in SUBSET Threads : IsFiniteSet(T)
  BY CacheAssumption, FinitePart, Zenon
<1> QED
  BY <1>1, <1>2, CacheAssumption, Numbered, Zenon DEF max_buffers

(* A set of one element has one element. *)
LEMMA OneElement ==
    ASSUME FiniteSetFacts, NEW x
    PROVE  Cardinality({x}) = 1
<1>1. {} \cup {x} = {x} /\ x \notin {}
  BY Zenon
<1>2. Cardinality({}) + 1 = 1
  BY Numbered
<1> QED
  BY <1>1, <1>2, Numbered, OneMore, Zenon

-----------------------------------------------------------------------------
(* What an assignment to held[t][b] does. *)
AssignHeld(t, b, i) == held' = [held EXCEPT ![t][b] = i]

(* Assigning one entry of held leaves the others alone. *)
LEMMA HeldAssigned ==
    ASSUME Types, NEW t \in Threads, NEW b \in Buffers, NEW i \in HeldValues, AssignHeld(t, b, i)
    PROVE  /\ held' \in [Threads -> [Buffers -> HeldValues]]
           /\ held'[t][b] = i
           /\ \A u \in Threads, c \in Buffers : u # t \/ c # b => held'[u][c] = held[u][c]
<1>1. held \in [Threads -> [Buffers -> HeldValues]]
  BY Zenon DEF Types
<1>2. held' = [held EXCEPT ![t] = [held[t] EXCEPT ![b] = i]]
  BY Zenon DEF AssignHeld
<1>3. [held[t] EXCEPT ![b] = i] \in [Buffers -> HeldValues]
  BY <1>1, Zenon
<1> QED
  BY <1>1, <1>2, <1>3, Zenon

(* A buffer nobody uses is held by nobody and not locked. *)
LEMMA Unused ==
    ASSUME FiniteSetFacts, IInv, NEW b \in Buffers, uses[b] = 0
    PROVE  ~locked[b] /\ \A t \in Threads : held[t][b] = NotHeld
<1>1. Holders(b) \subseteq Threads /\ Cardinality(Holders(b)) = 0
  BY Zenon DEF IInv, Counters, Holders
<1>2. Holders(b) = {}
  BY <1>1, Finite, Numbered, Zenon
<1>3. \A t \in Threads : held[t][b] = NotHeld
  BY <1>2, Zenon DEF Holders
<1>4. ~locked[b]
  BY <1>3, CacheAssumption, Zenon DEF IInv, Fillers, NotHeld
<1> QED
  BY <1>3, <1>4, Zenon

(* Whoever holds a buffer uses it. *)
LEMMA HolderUses ==
    ASSUME FiniteSetFacts, IInv, NEW t \in Threads, NEW b \in Buffers, held[t][b] # NotHeld
    PROVE  b \in InUse /\ b \in allocated
<1>1. Holders(b) \subseteq Threads /\ Holders(b) # {}
  BY Zenon DEF Holders
<1>2. Cardinality(Holders(b)) # 0 /\ Cardinality(Holders(b)) \in Nat
  BY <1>1, Finite, Numbered, Zenon
<1>3. uses[b] = Cardinality(Holders(b))
  BY Zenon DEF IInv, Counters
<1> QED
  BY <1>2, <1>3 DEF IInv, Lists, InUse

(* A buffer that is not in use, taken from the free list or allocated: the  *)
(* part of TakeBuffer that concerns the pool.                               *)
Taken(b, H) ==
    /\ uses[b] = 0
    /\ free_list' \in Seq(Buffers) /\ Distinct(free_list')
    /\ Elems(free_list') = Elems(free_list) \ {b}
    /\ ~noshrink_lookup => free_list' = <<>>
    /\ allocated' = allocated \cup {b}
    /\ hashed' = (hashed \ {b}) \cup H
    /\ count' \in Nat /\ count' = Cardinality(allocated')
    /\ used' \in Nat
    /\ noshrink_lookup => used' = used + 1
    /\ ~noshrink_lookup => used' <= max_buffers
    /\ (IF noshrink_lookup THEN Len(free_list') ELSE 0) + (max_buffers - count') = Available - 1

(* What taking a buffer does to the pool. *)
LEMMA TakePool ==
    ASSUME FiniteSetFacts, IInv, NEW b \in Buffers, NEW H, TakeFree(b, H) \/ TakeNew(b, H)
    PROVE  Taken(b, H)
<1>0. /\ free_list \in Seq(Buffers) /\ Len(free_list) \in Nat /\ count \in Nat /\ used \in Nat
      /\ max_buffers \in Nat /\ allocated \subseteq Buffers /\ noshrink_lookup \in BOOLEAN
      /\ uses[b] \in Nat
  BY Finite DEF IInv, Types
<1>1. CASE TakeFree(b, H)
  <2>1. noshrink_lookup /\ free_list # <<>> /\ b = Head(free_list) /\ free_list' = Tail(free_list)
    BY <1>1, Zenon DEF TakeFree, UseFreeList
  <2>2. /\ free_list' \in Seq(Buffers) /\ Len(free_list') = Len(free_list) - 1
        /\ Distinct(free_list') /\ b \in Elems(free_list)
        /\ Elems(free_list') = Elems(free_list) \ {b}
    BY <1>0, <2>1, TailElems, Zenon DEF IInv, Lists
  <2>3. b \in allocated /\ uses[b] = 0
    BY <1>0, <2>2 DEF IInv, Lists, InUse
  <2>4. /\ allocated' = allocated \cup {b} /\ count' = count /\ used' = used + 1
        /\ hashed' = (hashed \ {b}) \cup H
    BY <1>1, <2>3, Zenon DEF TakeFree
  <2>5. count' = Cardinality(allocated')
    BY <1>1, Zenon DEF TakeFree, IInv, Counters
  <2>6. Len(free_list') + (max_buffers - count') = Available - 1
    BY <1>0, <2>1, <2>2, <2>4 DEF Available
  <2> QED
    BY <1>0, <2>1, <2>2, <2>3, <2>4, <2>5, <2>6 DEF Taken
<1>2. CASE TakeNew(b, H)
  <2>1. b \notin allocated /\ b \notin InUse /\ uses[b] = 0 /\ b \notin hashed /\ b \notin Elems(free_list)
    BY <1>0, <1>2 DEF TakeNew, IInv, Lists, InUse
  <2>2. /\ free_list' = free_list /\ allocated' = allocated \cup {b} /\ count' = count + 1
        /\ hashed' = (hashed \ {b}) \cup H /\ count < max_buffers
    BY <1>2, <2>1, Zenon DEF TakeNew, UseAlloc
  <2>3. count' = Cardinality(allocated')
    BY <1>0, <2>1, <2>2, Finite, OneMore, Zenon DEF IInv, Counters
  <2>4. used' \in Nat /\ (noshrink_lookup => used' = used + 1)
    BY <1>0, <1>2 DEF TakeNew
  <2>5. ~noshrink_lookup => used' <= max_buffers
    BY <1>0, <1>2, <2>2 DEF TakeNew, IInv, Counters
  <2>6. (IF noshrink_lookup THEN Len(free_list') ELSE 0) + (max_buffers - count') = Available - 1
    BY <1>0, <2>2 DEF Available
  <2>7. Distinct(free_list') /\ Elems(free_list') = Elems(free_list) \ {b}
        /\ (~noshrink_lookup => free_list' = <<>>)
    BY <2>1, <2>2, Zenon DEF IInv, Lists
  <2> QED
    BY <1>0, <2>1, <2>2, <2>3, <2>4, <2>5, <2>6, <2>7 DEF Taken
<1> QED
  BY <1>1, <1>2, Zenon

(* What Held says of one thread and one buffer. *)
LEMMA HeldHashed ==
    ASSUME IInv, NEW t \in Threads, NEW b \in Buffers, held[t][b] \in Indexes
    PROVE  index[b] = held[t][b] /\ b \in hashed
BY Zenon DEF IInv, Held

(* A buffer held outside the hash table has one holder and is not hashed. *)
LEMMA HeldAlone ==
    ASSUME IInv, NEW t \in Threads, NEW b \in Buffers, held[t][b] = Unhashed
    PROVE  b \notin hashed /\ \A u \in Threads : held[u][b] # NotHeld => u = t
BY Zenon DEF IInv, Held

(* An index that a thread may give a buffer. *)
Usable(t, i) ==
    i \in Indexes =>
        /\ noshrink_lookup
        /\ \A c \in hashed : index[c] # i
        /\ \A u \in Threads : thread[u] \in FreePlaces /\ arg[u] = i => u = t

(* A thread that was not asleep gets a buffer. *)
LEMMA TakeStep ==
    ASSUME FiniteSetFacts, IInv, NEW t \in Threads, NEW b \in Buffers, NEW i \in Indexes \cup {Unhashed},
           NEW lock \in BOOLEAN, TakeBuffer(t, b, i, lock), UNCHANGED policy,
           lock => i \in Indexes, Usable(t, i),
           thread[t] \in {"running", "woken_free"},
           thread' = [thread EXCEPT ![t] = "running"],
           arg' \in [Threads -> Args], \A u \in Threads : u # t => arg'[u] = arg[u]
    PROVE  IInv'
<1> DEFINE H == IF i = Unhashed THEN {} ELSE {b}
<1>1. Taken(b, H)
  BY TakePool, Zenon DEF TakeBuffer
<1>2. /\ ~locked[b] /\ \A u \in Threads : held[u][b] = NotHeld
  BY <1>1, Unused, Zenon DEF Taken
<1>3. /\ held' \in [Threads -> [Buffers -> HeldValues]] /\ held'[t][b] = i
      /\ \A u \in Threads, c \in Buffers : u # t \/ c # b => held'[u][c] = held[u][c]
  <2>1. Types /\ i \in HeldValues /\ AssignHeld(t, b, i)
    BY Zenon DEF TakeBuffer, HeldValues, IInv, AssignHeld
  <2> QED
    BY <2>1, HeldAssigned
<1>4. /\ uses' \in [Buffers -> Nat] /\ uses'[b] = 1
      /\ index' \in [Buffers -> Indexes \cup {Unhashed}] /\ index'[b] = i
      /\ locked' \in [Buffers -> BOOLEAN] /\ locked'[b] = lock
      /\ wait_on_unlock' \in [Buffers -> BOOLEAN]
      /\ filler' \in [Buffers -> Threads \cup {None}] /\ filler'[b] = (IF lock THEN t ELSE None)
      /\ \A c \in Buffers : c # b =>
            /\ uses'[c] = uses[c] /\ index'[c] = index[c] /\ locked'[c] = locked[c]
            /\ wait_on_unlock'[c] = wait_on_unlock[c] /\ filler'[c] = filler[c]
  BY Zenon DEF TakeBuffer, IInv, Types
<1>5. /\ thread' \in [Threads -> Places] /\ thread'[t] = "running"
      /\ \A u \in Threads : u # t => thread'[u] = thread[u]
  BY Zenon DEF IInv, Types, Places
<1>6. noshrink_lookup' = noshrink_lookup /\ first_freelist' = first_freelist
      /\ Unhashed \notin Indexes /\ NotHeld \notin Indexes /\ NotHeld # Unhashed
  BY CacheAssumption, Zenon DEF policy, Unhashed, NotHeld
<1>7. InUse' = InUse \cup {b} /\ b \notin InUse
  BY <1>1, <1>4 DEF InUse, Taken
<1>8. hashed' \subseteq Buffers /\ (b \in hashed' <=> i \in Indexes) /\ hashed' \ {b} = hashed \ {b}
  BY <1>1, <1>6, Zenon DEF Taken, IInv, Types
<1> HIDE DEF H
<1>9. Types'
  BY <1>1, <1>3, <1>4, <1>5, <1>6, <1>8, Zenon DEF Types, Taken, IInv
<1>10. Lists'
  <2>1. Distinct(free_list') /\ Elems(free_list') = allocated' \ InUse' /\ InUse' \subseteq allocated'
    BY <1>1, <1>7, Zenon DEF Taken, IInv, Lists
  <2>2. Elems(free_list') \subseteq hashed' /\ hashed' \subseteq allocated'
    BY <1>1, <1>8, Zenon DEF Taken, IInv, Lists
  <2>3. ~noshrink_lookup' => hashed' = {} /\ free_list' = <<>>
    BY <1>1, <1>6, <1>8, Zenon DEF Taken, IInv, Lists, Usable
  <2> QED
    BY <2>1, <2>2, <2>3, Zenon DEF Lists
<1>11. Counters'
  <2>1. ASSUME NEW c \in Buffers PROVE uses'[c] = Cardinality(Holders(c)')
    <3>1. CASE c = b
      <4>1. Holders(c)' = {t}
        BY <1>2, <1>3, <1>6, <3>1 DEF Holders
      <4> QED
        BY <1>4, <3>1, <4>1, OneElement, Zenon
    <3>2. CASE c # b
      <4>1. Holders(c)' = Holders(c)
        BY <1>3, <3>2, Zenon DEF Holders
      <4> QED
        BY <1>4, <3>2, <4>1, Zenon DEF IInv, Counters
    <3> QED
      BY <3>1, <3>2, Zenon
  <2>2. noshrink_lookup => used' = Cardinality(InUse')
    <3>1. InUse \subseteq Buffers
      BY Zenon DEF InUse
    <3> QED
      BY <1>1, <1>7, <3>1, Finite, OneMore, SMTT(30) DEF Taken, IInv, Counters
  <2> QED
    BY <1>1, <1>6, <2>1, <2>2, Zenon DEF Counters, Taken, max_buffers
<1>12. Held'
  <2>1. ASSUME NEW u \in Threads, NEW c \in Buffers, held'[u][c] \in Indexes
        PROVE  index'[c] = held'[u][c] /\ c \in hashed'
    <3>1. CASE c = b
      <4>1. u = t
        BY <1>2, <1>3, <1>6, <2>1, <3>1, Zenon
      <4> QED
        BY <1>3, <1>4, <1>8, <2>1, <3>1, <4>1, Zenon
    <3>2. CASE c # b
      <4>1. held[u][c] \in Indexes /\ held'[u][c] = held[u][c] /\ index'[c] = index[c]
        BY <1>3, <1>4, <2>1, <3>2, Zenon
      <4>2. index[c] = held[u][c] /\ c \in hashed
        BY <4>1, HeldHashed, Zenon
      <4> QED
        BY <1>8, <3>2, <4>1, <4>2, Zenon
    <3> QED
      BY <3>1, <3>2, Zenon
  <2>2. ASSUME NEW u \in Threads, NEW c \in Buffers, held'[u][c] = Unhashed
        PROVE  c \notin hashed' /\ \A v \in Threads : held'[v][c] # NotHeld => v = u
    <3>1. CASE c = b
      <4>1. u = t /\ \A v \in Threads : v # t => held'[v][b] = NotHeld
        BY <1>2, <1>3, <1>6, <2>2, <3>1, Zenon
      <4> QED
        BY <1>3, <1>6, <1>8, <2>2, <3>1, <4>1, Zenon
    <3>2. CASE c # b
      <4>1. \A v \in Threads : held'[v][c] = held[v][c]
        BY <1>3, <3>2, Zenon
      <4>2. c \notin hashed /\ \A v \in Threads : held[v][c] # NotHeld => v = u
        BY <2>2, <4>1, HeldAlone, Zenon
      <4> QED
        BY <1>8, <3>2, <4>1, <4>2, Zenon
    <3> QED
      BY <3>1, <3>2, Zenon
  <2>3. \A c, d \in hashed' : index'[c] = index'[d] => c = d
    BY <1>4, <1>6, <1>8 DEF IInv, Held, Usable
  <2>4. \A c \in hashed' : index'[c] \in Indexes
    BY <1>4, <1>6, <1>8 DEF IInv, Held
  <2> QED
    BY <2>1, <2>2, <2>3, <2>4, Zenon DEF Held
<1>13. Waits'
  <2> SUFFICES ASSUME NEW u \in Threads, u # t
               PROVE  /\ thread[u] \in FreePlaces =>
                           /\ arg[u] \in Indexes \cup {Unhashed}
                           /\ arg[u] \in Indexes =>
                                /\ noshrink_lookup'
                                /\ \A c \in hashed' : index'[c] # arg[u]
                                /\ \A v \in Threads : thread'[v] \in FreePlaces /\ arg'[v] = arg[u] => v = u
                      /\ thread[u] \in UnlockPlaces =>
                           arg[u] \in Buffers /\ held'[u][arg[u]] \in Indexes
    BY <1>5 DEF Waits, FreePlaces, UnlockPlaces
  <2>1. ASSUME thread[u] \in FreePlaces, arg[u] \in Indexes
        PROVE  \A c \in hashed' : index'[c] # arg[u]
    BY <1>4, <1>6, <1>8, <2>1 DEF IInv, Waits, Usable
  <2>2. ASSUME thread[u] \in FreePlaces, arg[u] \in Indexes, NEW v \in Threads,
               thread'[v] \in FreePlaces, arg'[v] = arg[u]
        PROVE  v = u
    BY <1>5, <2>2 DEF IInv, Waits, FreePlaces
  <2>3. thread[u] \in UnlockPlaces => arg[u] \in Buffers /\ held'[u][arg[u]] \in Indexes
    BY <1>3, Zenon DEF IInv, Waits
  <2> QED
    BY <1>6, <2>1, <2>2, <2>3, Zenon DEF IInv, Waits
<1>14. Fillers'
  <2> SUFFICES ASSUME NEW c \in Buffers
               PROVE  /\ ~locked'[c] => filler'[c] = None
                      /\ locked'[c] =>
                            /\ filler'[c] \in Threads /\ held'[filler'[c]][c] \in Indexes
                            /\ \A u \in Threads : held'[u][c] # NotHeld /\ u # filler'[c] =>
                                  thread'[u] \in UnlockPlaces /\ arg'[u] = c
    BY Zenon DEF Fillers
  <2>1. CASE c = b
    BY <1>2, <1>3, <1>4, <2>1
  <2>2. CASE c # b
    <3>1. \A u \in Threads : held'[u][c] = held[u][c]
      BY <1>3, <2>2, Zenon
    <3>2. t \in Threads /\ thread[t] \notin UnlockPlaces
      BY Zenon DEF UnlockPlaces
    <3> QED
      BY <1>4, <1>5, <2>2, <3>1, <3>2, SMTT(30) DEF IInv, Fillers
  <2> QED
    BY <2>1, <2>2, Zenon
<1>15. FreeWakeup'
  <2>1. At("wait_free")' = At("wait_free")
    BY <1>5, Zenon DEF At
  <2>2. At("woken_free")' = At("woken_free") \ {t}
    BY <1>5, Zenon DEF At
  <2>3. At("woken_free") \subseteq Threads /\ IsFiniteSet(At("woken_free"))
        /\ Cardinality(At("woken_free")) \in Nat
    BY Finite, Zenon DEF At
  <2>4. Cardinality(At("woken_free")') >= Cardinality(At("woken_free")) - 1
    <3>1. CASE t \in At("woken_free")
      BY <2>2, <2>3, <3>1, OneLess
    <3>2. CASE t \notin At("woken_free")
      <4>1. At("woken_free")' = At("woken_free")
        BY <2>2, <3>2, Zenon
      <4> QED
        BY <2>3, <4>1
    <3> QED
      BY <3>1, <3>2, Zenon
  <2>5. Available' = Available - 1 /\ Available \in Int
    BY <1>1, <1>6, Finite, SMTT(30) DEF Available, Taken, IInv, Types, max_buffers
  <2>6. Cardinality(At("woken_free")') \in Nat
    BY <2>2, <2>3, Finite, Zenon
  <2> QED
    BY <2>1, <2>3, <2>4, <2>5, <2>6 DEF IInv, FreeWakeup
<1>16. UnlockWakeup'
  <2> SUFFICES ASSUME NEW u \in Threads, thread'[u] = "wait_unlock"
               PROVE  locked'[arg'[u]] /\ wait_on_unlock'[arg'[u]]
    BY Zenon DEF UnlockWakeup
  <2>1. u # t /\ thread[u] = "wait_unlock" /\ arg'[u] = arg[u]
    BY <1>5, Zenon
  <2>2. arg[u] \in Buffers /\ held[u][arg[u]] \in Indexes
    BY <2>1, Zenon DEF IInv, Waits, UnlockPlaces
  <2>3. arg[u] # b
    BY <1>2, <1>6, <2>2, Zenon
  <2> QED
    BY <1>4, <2>1, <2>2, <2>3, Zenon DEF IInv, UnlockWakeup
<1> QED
  BY <1>9, <1>10, <1>11, <1>12, <1>13, <1>14, <1>15, <1>16, Zenon DEF IInv

(* cache_get finds nothing, and the thread goes to sleep: then there is     *)
(* nothing that a sleeping thread could have.                               *)
LEMMA SleepStep ==
    ASSUME FiniteSetFacts, IInv, NEW t \in Threads, NEW i \in Indexes \cup {Unhashed}, Usable(t, i),
           thread[t] \in {"running", "woken_free"}, ~UseFreeList, ~UseAlloc,
           thread' = [thread EXCEPT ![t] = "wait_free"],
           arg' = [arg EXCEPT ![t] = i],
           UNCHANGED <<policy, pool, fields, held>>
    PROVE  IInv'
<1>1. /\ thread' \in [Threads -> Places] /\ thread'[t] = "wait_free"
      /\ \A u \in Threads : u # t => thread'[u] = thread[u]
  BY Zenon DEF IInv, Types, Places, FreePlaces
<1>2. /\ arg' \in [Threads -> Args] /\ arg'[t] = i
      /\ \A u \in Threads : u # t => arg'[u] = arg[u]
  BY Zenon DEF IInv, Types, Args
<1>3. /\ noshrink_lookup' = noshrink_lookup /\ first_freelist' = first_freelist
      /\ count' = count /\ used' = used /\ free_list' = free_list /\ hashed' = hashed
      /\ allocated' = allocated /\ uses' = uses /\ index' = index /\ locked' = locked
      /\ wait_on_unlock' = wait_on_unlock /\ filler' = filler /\ held' = held
  BY Zenon DEF policy, pool, fields
<1>4. Types'
  BY <1>1, <1>2, <1>3, Zenon DEF IInv, Types
<1>5. Lists' /\ Counters' /\ Held'
  <2>1. InUse' = InUse /\ \A c \in Buffers : Holders(c)' = Holders(c)
    BY <1>3, Zenon DEF InUse, Holders
  <2>2. Lists'
    BY <1>3, <2>1 DEF IInv, Lists, Elems, Distinct
  <2>3. Counters'
    BY <1>3, <2>1, Zenon DEF IInv, Counters, max_buffers
  <2>4. Held'
    BY <1>3 DEF IInv, Held
  <2> QED
    BY <2>2, <2>3, <2>4, Zenon
<1>6. Waits'
  <2>1. ASSUME NEW u \in Threads, thread'[u] \in FreePlaces
        PROVE  /\ arg'[u] \in Indexes \cup {Unhashed}
               /\ arg'[u] \in Indexes =>
                    /\ noshrink_lookup
                    /\ \A c \in hashed : index[c] # arg'[u]
                    /\ \A v \in Threads : thread'[v] \in FreePlaces /\ arg'[v] = arg'[u] => v = u
    <3>1. CASE u = t
      BY <1>1, <1>2, <3>1, Zenon DEF Usable
    <3>2. CASE u # t
      BY <1>1, <1>2, <2>1, <3>2 DEF Usable, IInv, Waits
    <3> QED
      BY <3>1, <3>2, Zenon
  <2>2. ASSUME NEW u \in Threads, thread'[u] \in UnlockPlaces
        PROVE  arg'[u] \in Buffers /\ held[u][arg'[u]] \in Indexes
    BY <1>1, <1>2, <2>2, Zenon DEF UnlockPlaces, IInv, Waits
  <2> QED
    BY <1>3, <2>1, <2>2, Zenon DEF Waits
<1>7. Fillers'
  <2>1. thread[t] \notin UnlockPlaces
    BY Zenon DEF UnlockPlaces
  <2> QED
    BY <1>1, <1>2, <1>3, <2>1 DEF IInv, Fillers
<1>8. FreeWakeup'
  <2>1. count \in Nat /\ max_buffers \in Nat /\ count <= max_buffers /\ free_list \in Seq(Buffers)
    BY Finite, Zenon DEF IInv, Types, Counters
  <2>2. count = max_buffers /\ (noshrink_lookup => free_list = <<>>)
    BY <2>1 DEF UseFreeList, UseAlloc
  <2>3. Available' = 0
    BY <1>3, <2>1, <2>2 DEF Available, max_buffers
  <2>4. Cardinality(At("woken_free")') \in Nat
    BY Finite, Zenon DEF At
  <2> QED
    BY <2>3, <2>4 DEF FreeWakeup
<1>9. UnlockWakeup'
  BY <1>1, <1>2, <1>3, Zenon DEF IInv, UnlockWakeup
<1> QED
  BY <1>4, <1>5, <1>6, <1>7, <1>8, <1>9, Zenon DEF IInv

(* An index that is not claimed can be used. *)
LEMMA FreshUsable ==
    ASSUME NEW t \in Threads, NEW i \in Indexes, ~Claimed(i), noshrink_lookup
    PROVE  Usable(t, i)
BY Zenon DEF Usable, Claimed, At, FreePlaces

(* One pass of the loop of _cache_get. *)
LEMMA GetPass ==
    ASSUME FiniteSetFacts, IInv, NEW t \in Threads, NEW i \in Indexes \cup {Unhashed}, Usable(t, i),
           thread[t] \in {"running", "woken_free"}, CacheGetPass(t, i), UNCHANGED policy
    PROVE  IInv'
<1>1. CASE /\ ~UseFreeList /\ ~UseAlloc
           /\ thread' = [thread EXCEPT ![t] = "wait_free"]
           /\ arg' = [arg EXCEPT ![t] = i]
           /\ UNCHANGED <<pool, fields, held>>
  BY <1>1, SleepStep, Zenon
<1>2. ASSUME NEW b \in Buffers, TakeBuffer(t, b, i, FALSE),
             thread' = [thread EXCEPT ![t] = "running"],
             arg' = [arg EXCEPT ![t] = None]
      PROVE  IInv'
  <2>1. arg' \in [Threads -> Args] /\ \A u \in Threads : u # t => arg'[u] = arg[u]
    BY <1>2, Zenon DEF IInv, Types, Args
  <2> QED
    BY <1>2, <2>1, TakeStep, Zenon
<1> QED
  BY <1>1, <1>2, Zenon DEF CacheGetPass

(* cache_get, when it is called and when it is woken. *)
LEMMA GetStep ==
    ASSUME FiniteSetFacts, IInv, NEW t \in Threads, CacheGet(t) \/ CacheGetResume(t), UNCHANGED policy
    PROVE  IInv'
<1>0. Unhashed \notin Indexes
  BY CacheAssumption, Zenon DEF Unhashed
<1>1. ASSUME thread[t] = "running", noshrink_lookup, NEW i \in Indexes, ~Claimed(i),
             CacheGetPass(t, i)
      PROVE  IInv'
  BY <1>1, FreshUsable, GetPass, Zenon
<1>2. CASE thread[t] = "running" /\ CacheGetPass(t, Unhashed)
  <2>1. Usable(t, Unhashed)
    BY <1>0, Zenon DEF Usable
  <2> QED
    BY <1>2, <2>1, GetPass, Zenon
<1>3. CASE CacheGetResume(t)
  <2>1. thread[t] = "woken_free" /\ CacheGetPass(t, arg[t])
    BY <1>3, Zenon DEF CacheGetResume
  <2>2. arg[t] \in Indexes \cup {Unhashed} /\ Usable(t, arg[t])
    BY <2>1, Zenon DEF IInv, Waits, Usable, FreePlaces
  <2> QED
    BY <2>1, <2>2, GetPass, Zenon
<1> QED
  BY <1>1, <1>2, <1>3, Zenon DEF CacheGet

(* cache_get_nowait *)
LEMMA GetNowaitStep ==
    ASSUME FiniteSetFacts, IInv, NEW t \in Threads, NEW i \in Indexes, CacheGetNowait(t, i), UNCHANGED policy
    PROVE  IInv'
<1>1. PICK b \in Buffers : TakeBuffer(t, b, i, TRUE)
  BY Zenon DEF CacheGetNowait
<1>2. /\ thread[t] = "running" /\ noshrink_lookup /\ ~Claimed(i)
      /\ thread' = thread /\ arg' = arg
  BY Zenon DEF CacheGetNowait
<1>3. thread' = [thread EXCEPT ![t] = "running"]
  BY <1>2, Zenon DEF IInv, Types
<1>4. arg' \in [Threads -> Args]
  BY <1>2, Zenon DEF IInv, Types
<1>5. Usable(t, i)
  BY <1>2, FreshUsable, Zenon
<1> QED
  BY <1>1, <1>2, <1>3, <1>4, <1>5, TakeStep, Zenon

(* cache_hash *)
LEMMA HashStep ==
    ASSUME FiniteSetFacts, IInv, NEW t \in Threads, NEW b \in Buffers, NEW i \in Indexes, CacheHash(t, b, i),
           UNCHANGED policy
    PROVE  IInv'
<1>1. /\ noshrink_lookup /\ thread[t] = "running" /\ ~Claimed(i) /\ held[t][b] = Unhashed
      /\ hashed' = hashed \cup {b}
      /\ noshrink_lookup' = noshrink_lookup /\ first_freelist' = first_freelist
      /\ count' = count /\ used' = used /\ free_list' = free_list /\ allocated' = allocated
      /\ uses' = uses /\ locked' = locked /\ wait_on_unlock' = wait_on_unlock
      /\ filler' = filler /\ thread' = thread /\ arg' = arg
  BY Zenon DEF CacheHash, policy
<1>2. /\ held' \in [Threads -> [Buffers -> HeldValues]] /\ held'[t][b] = i
      /\ \A u \in Threads, c \in Buffers : u # t \/ c # b => held'[u][c] = held[u][c]
  <2>1. Types /\ i \in HeldValues /\ AssignHeld(t, b, i)
    BY Zenon DEF CacheHash, HeldValues, IInv, AssignHeld
  <2> QED
    BY <2>1, HeldAssigned
<1>3. /\ index' \in [Buffers -> Indexes \cup {Unhashed}] /\ index'[b] = i
      /\ \A c \in Buffers : c # b => index'[c] = index[c]
  BY Zenon DEF CacheHash, IInv, Types
<1>4. Usable(t, i)
  BY <1>1, FreshUsable, Zenon
<1>5. Unhashed \notin Indexes /\ NotHeld \notin Indexes /\ NotHeld # Unhashed
  BY CacheAssumption, Zenon DEF Unhashed, NotHeld
<1>6. b \in InUse /\ b \in allocated /\ b \notin hashed
      /\ \A u \in Threads : u # t => held[u][b] = NotHeld
  BY <1>1, <1>5, HolderUses, Zenon DEF IInv, Held
<1>7. Types'
  BY <1>1, <1>2, <1>3, Zenon DEF IInv, Types
<1>8. Lists'
  BY <1>1, <1>6 DEF IInv, Lists, InUse, Elems, Distinct
<1>9. Counters'
  <2>1. \A c \in Buffers : Holders(c)' = Holders(c)
    BY <1>1, <1>2, <1>5, Zenon DEF Holders
  <2> QED
    BY <1>1, <2>1, Zenon DEF IInv, Counters, InUse, max_buffers
<1>10. Held'
  <2>1. ASSUME NEW u \in Threads, NEW c \in Buffers, held'[u][c] \in Indexes
        PROVE  index'[c] = held'[u][c] /\ c \in hashed'
    <3>1. CASE c = b
      <4>1. u = t
        BY <1>2, <1>5, <1>6, <2>1, <3>1
      <4> QED
        BY <1>1, <1>2, <1>3, <3>1, <4>1, Zenon
    <3>2. CASE c # b
      <4>1. held[u][c] \in Indexes /\ held'[u][c] = held[u][c] /\ index'[c] = index[c]
        BY <1>2, <1>3, <2>1, <3>2, Zenon
      <4>2. index[c] = held[u][c] /\ c \in hashed
        BY <4>1, HeldHashed, Zenon
      <4> QED
        BY <1>1, <4>1, <4>2, Zenon
    <3> QED
      BY <3>1, <3>2, Zenon
  <2>2. ASSUME NEW u \in Threads, NEW c \in Buffers, held'[u][c] = Unhashed
        PROVE  c \notin hashed' /\ \A v \in Threads : held'[v][c] # NotHeld => v = u
    <3>1. c # b
      BY <1>2, <1>5, <1>6, <2>2
    <3>2. \A v \in Threads : held'[v][c] = held[v][c]
      BY <1>2, <3>1, Zenon
    <3>3. held[u][c] = Unhashed
      BY <2>2, <3>2, Zenon
    <3>4. c \notin hashed /\ \A v \in Threads : held[v][c] # NotHeld => v = u
      BY <3>3, Zenon DEF IInv, Held
    <3> QED
      BY <1>1, <3>1, <3>2, <3>4, Zenon
  <2>3. \A c, d \in hashed' : index'[c] = index'[d] => c = d
    BY <1>1, <1>3, <1>4 DEF IInv, Held, Usable, Types
  <2>4. \A c \in hashed' : index'[c] \in Indexes
    BY <1>1, <1>3, Zenon DEF IInv, Held, Types
  <2> QED
    BY <2>1, <2>2, <2>3, <2>4, Zenon DEF Held
<1>11. Waits'
  <2>1. ASSUME NEW u \in Threads, thread[u] \in FreePlaces, arg[u] \in Indexes
        PROVE  \A c \in hashed' : index'[c] # arg[u]
    <3>1. arg[u] # i
      BY <1>1, <1>4, <2>1, Zenon DEF Usable, FreePlaces
    <3> QED
      BY <1>1, <1>3, <2>1, <3>1 DEF IInv, Waits, Types
  <2>2. ASSUME NEW u \in Threads, thread[u] \in UnlockPlaces
        PROVE  arg[u] \in Buffers /\ held'[u][arg[u]] \in Indexes
    BY <1>1, <1>2, <2>2, Zenon DEF IInv, Waits, UnlockPlaces
  <2> QED
    BY <1>1, <2>1, <2>2, Zenon DEF IInv, Waits
<1>12. Fillers'
  <2>1. \A u \in Threads, c \in Buffers : /\ held'[u][c] = NotHeld <=> held[u][c] = NotHeld
                                          /\ held[u][c] \in Indexes => held'[u][c] \in Indexes
    BY <1>1, <1>2, <1>5, Zenon
  <2> QED
    BY <1>1, <2>1 DEF IInv, Fillers
<1>13. FreeWakeup' /\ UnlockWakeup'
  BY <1>1, Zenon DEF IInv, FreeWakeup, UnlockWakeup, Available, At, max_buffers
<1> QED
  BY <1>7, <1>8, <1>9, <1>10, <1>11, <1>12, <1>13, Zenon DEF IInv

(* cache_lookup: a buffer that is found on the free list leaves it. *)
LEMMA LookupStep ==
    ASSUME FiniteSetFacts, IInv, NEW t \in Threads, NEW b \in Buffers, NEW i \in Indexes, CacheLookup(t, b, i),
           UNCHANGED policy
    PROVE  IInv'
<1>1. /\ thread[t] = "running" /\ b \in hashed /\ index[b] = i /\ held[t][b] = NotHeld
      /\ noshrink_lookup' = noshrink_lookup /\ first_freelist' = first_freelist
      /\ count' = count /\ hashed' = hashed /\ allocated' = allocated /\ index' = index
      /\ locked' = locked /\ wait_on_unlock' = wait_on_unlock /\ filler' = filler
  BY Zenon DEF CacheLookup, policy
<1>2. /\ held' \in [Threads -> [Buffers -> HeldValues]] /\ held'[t][b] = i
      /\ \A u \in Threads, c \in Buffers : u # t \/ c # b => held'[u][c] = held[u][c]
  <2>1. Types /\ i \in HeldValues /\ AssignHeld(t, b, i)
    BY Zenon DEF CacheLookup, HeldValues, IInv, AssignHeld
  <2> QED
    BY <2>1, HeldAssigned
<1>3. /\ uses' \in [Buffers -> Nat] /\ uses'[b] = uses[b] + 1 /\ uses[b] \in Nat
      /\ \A c \in Buffers : c # b => uses'[c] = uses[c]
  BY DEF CacheLookup, IInv, Types
<1>4. /\ thread' \in [Threads -> Places]
      /\ thread'[t] = (IF locked[b] THEN "want_unlock" ELSE "running")
      /\ \A u \in Threads : u # t => thread'[u] = thread[u]
  BY <1>1, Zenon DEF CacheLookup, IInv, Types, Places, UnlockPlaces
<1>5. /\ arg' \in [Threads -> Args]
      /\ locked[b] => arg'[t] = b
      /\ \A u \in Threads : u # t => arg'[u] = arg[u]
  BY Zenon DEF CacheLookup, IInv, Types, Args
<1>6. Unhashed \notin Indexes /\ NotHeld \notin Indexes /\ NotHeld # Unhashed
      /\ noshrink_lookup /\ b \in allocated
  BY <1>1, CacheAssumption, Zenon DEF Unhashed, NotHeld, IInv, Lists
<1>7. InUse' = InUse \cup {b}
  BY <1>3 DEF InUse
<1>8. /\ free_list' \in Seq(Buffers) /\ Len(free_list') <= Len(free_list)
      /\ Distinct(free_list') /\ Elems(free_list') = Elems(free_list) \ {b}
      /\ used' \in Nat /\ used' = Cardinality(InUse')
  <2>0. free_list \in Seq(Buffers) /\ Distinct(free_list) /\ used \in Nat /\ used = Cardinality(InUse)
        /\ InUse \subseteq Buffers
    BY <1>6, Zenon DEF IInv, Types, Lists, Counters, InUse
  <2>1. CASE uses[b] = 0
    <3>1. PICK k \in 1..Len(free_list) : free_list[k] = b /\ free_list' = RemoveNth(free_list, k)
      BY <2>1 DEF CacheLookup
    <3>2. used' = used + 1
      BY <2>1 DEF CacheLookup
    <3>3. /\ free_list' \in Seq(Buffers) /\ Len(free_list') = Len(free_list) - 1
          /\ Distinct(free_list') /\ Elems(free_list') = Elems(free_list) \ {b}
      BY <2>0, <3>1, RemoveElems, Zenon
    <3>4. b \notin InUse
      BY <2>1 DEF InUse
    <3>5. Cardinality(InUse') = Cardinality(InUse) + 1
      BY <1>7, <2>0, <3>4, Finite, OneMore, Zenon
    <3> QED
      BY <2>0, <3>2, <3>3, <3>5, SMTT(30)
  <2>2. CASE uses[b] # 0
    <3>1. free_list' = free_list /\ used' = used
      BY <1>3, <2>2, Zenon DEF CacheLookup
    <3>2. b \in InUse
      BY <1>3, <2>2 DEF InUse
    <3>3. b \notin Elems(free_list) /\ InUse' = InUse
      BY <1>7, <3>2, Zenon DEF IInv, Lists
    <3> QED
      BY <2>0, <3>1, <3>3
  <2> QED
    BY <2>1, <2>2, Zenon
<1>9. Types'
  BY <1>1, <1>2, <1>3, <1>4, <1>5, <1>8, Zenon DEF IInv, Types
<1>10. Lists'
  BY <1>1, <1>6, <1>7, <1>8, Zenon DEF IInv, Lists
<1>11. Counters'
  <2>1. ASSUME NEW c \in Buffers PROVE uses'[c] = Cardinality(Holders(c)')
    <3>1. CASE c = b
      <4>1. Holders(b)' = Holders(b) \cup {t} /\ t \notin Holders(b) /\ Holders(b) \subseteq Threads
        BY <1>1, <1>2, <1>6, Zenon DEF Holders
      <4>2. Cardinality(Holders(b)') = Cardinality(Holders(b)) + 1
        BY <4>1, Finite, OneMore, Zenon
      <4> QED
        BY <1>3, <3>1, <4>2, Zenon DEF IInv, Counters
    <3>2. CASE c # b
      <4>1. Holders(c)' = Holders(c)
        BY <1>2, <3>2, Zenon DEF Holders
      <4> QED
        BY <1>3, <3>2, <4>1, Zenon DEF IInv, Counters
    <3> QED
      BY <3>1, <3>2, Zenon
  <2> QED
    BY <1>1, <1>6, <1>8, <2>1, Zenon DEF IInv, Counters
<1>12. Held'
  <2>1. ASSUME NEW u \in Threads, NEW c \in Buffers, held'[u][c] = Unhashed
        PROVE  c \notin hashed /\ \A v \in Threads : held'[v][c] # NotHeld => v = u
    <3>1. c # b
      <4>1. ASSUME u # t PROVE held[u][b] # Unhashed
        BY <1>1, Zenon DEF IInv, Held
      <4>2. ASSUME c = b, u = t PROVE FALSE
        BY <1>2, <1>6, <2>1, <4>2, Zenon
      <4>3. ASSUME c = b, u # t PROVE FALSE
        BY <1>2, <2>1, <4>1, <4>3, Zenon
      <4> QED
        BY <4>2, <4>3, Zenon
    <3>2. \A v \in Threads : held'[v][c] = held[v][c]
      BY <1>2, <3>1, Zenon
    <3> QED
      BY <2>1, <3>2 DEF IInv, Held
  <2>2. ASSUME NEW u \in Threads, NEW c \in Buffers, held'[u][c] \in Indexes
        PROVE  index[c] = held'[u][c] /\ c \in hashed
    BY <1>1, <1>2, <2>2 DEF IInv, Held
  <2> QED
    BY <1>1, <2>1, <2>2 DEF IInv, Held
<1>13. Waits'
  <2>1. ASSUME NEW u \in Threads, thread'[u] \in FreePlaces
        PROVE  u # t /\ thread[u] \in FreePlaces /\ arg'[u] = arg[u]
    BY <1>4, <1>5, <2>1, Zenon DEF FreePlaces
  <2>2. ASSUME NEW u \in Threads, thread'[u] \in UnlockPlaces
        PROVE  arg'[u] \in Buffers /\ held'[u][arg'[u]] \in Indexes
    <3>1. CASE u = t
      BY <1>2, <1>4, <1>5, <2>2, <3>1, Zenon DEF UnlockPlaces
    <3>2. CASE u # t
      BY <1>2, <1>4, <1>5, <2>2, <3>2 DEF IInv, Waits
    <3> QED
      BY <3>1, <3>2, Zenon
  <2> QED
    BY <1>1, <2>1, <2>2 DEF IInv, Waits
<1>14. Fillers'
  <2> SUFFICES ASSUME NEW c \in Buffers, locked[c]
               PROVE  /\ filler[c] \in Threads /\ held'[filler[c]][c] \in Indexes
                      /\ \A u \in Threads : held'[u][c] # NotHeld /\ u # filler[c] =>
                            thread'[u] \in UnlockPlaces /\ arg'[u] = c
    BY <1>1, Zenon DEF Fillers, IInv
  <2>1. /\ filler[c] \in Threads /\ held[filler[c]][c] \in Indexes
        /\ \A u \in Threads : held[u][c] # NotHeld /\ u # filler[c] =>
              thread[u] \in UnlockPlaces /\ arg[u] = c
    BY Zenon DEF IInv, Fillers
  <2>2. held'[filler[c]][c] \in Indexes
    BY <1>2, <2>1, Zenon
  <2>3. ASSUME NEW u \in Threads, held'[u][c] # NotHeld, u # filler[c]
        PROVE  thread'[u] \in UnlockPlaces /\ arg'[u] = c
    <3>1. CASE u = t /\ c = b
      BY <1>4, <1>5, <3>1, Zenon DEF UnlockPlaces
    <3>2. CASE u = t /\ c # b
      BY <1>1, <1>2, <2>1, <2>3, <3>2, Zenon DEF UnlockPlaces
    <3>3. CASE u # t
      BY <1>2, <1>4, <1>5, <2>1, <2>3, <3>3, Zenon
    <3> QED
      BY <3>1, <3>2, <3>3, Zenon
  <2> QED
    BY <2>1, <2>2, <2>3, Zenon
<1>15. FreeWakeup'
  <2>1. At("wait_free")' = At("wait_free") /\ At("woken_free")' = At("woken_free")
    BY <1>1, <1>4, Zenon DEF At
  <2>2. Available' <= Available /\ Available' \in Int /\ Available \in Int
    BY <1>1, <1>8, Finite, SMTT(30) DEF Available, IInv, Types, max_buffers
  <2>3. Cardinality(At("woken_free")) \in Nat
    BY Finite, Zenon DEF At
  <2> QED
    BY <2>1, <2>2, <2>3 DEF IInv, FreeWakeup
<1>16. UnlockWakeup'
  <2>1. ASSUME NEW u \in Threads, thread'[u] = "wait_unlock"
        PROVE  u # t /\ thread[u] = "wait_unlock" /\ arg'[u] = arg[u]
    BY <1>4, <1>5, <2>1, Zenon
  <2> QED
    BY <1>1, <2>1, Zenon DEF IInv, UnlockWakeup
<1> QED
  BY <1>9, <1>10, <1>11, <1>12, <1>13, <1>14, <1>15, <1>16, Zenon DEF IInv

-----------------------------------------------------------------------------
(* The steps that leave the buffers and their holders alone. *)
SameBuffers ==
    /\ noshrink_lookup' = noshrink_lookup /\ first_freelist' = first_freelist
    /\ count' = count /\ used' = used /\ free_list' = free_list
    /\ hashed' = hashed /\ allocated' = allocated
    /\ uses' = uses /\ index' = index /\ held' = held

(* A step that leaves the pool alone. *)
LEMMA SameBuffersKept ==
    ASSUME IInv, SameBuffers
    PROVE  Lists' /\ Counters' /\ Held' /\ Available' = Available
<1>1. InUse' = InUse /\ \A c \in Buffers : Holders(c)' = Holders(c)
  BY Zenon DEF SameBuffers, InUse, Holders
<1>2. Lists'
  BY <1>1 DEF SameBuffers, IInv, Lists, Elems, Distinct
<1>3. Counters'
  BY <1>1, Zenon DEF SameBuffers, IInv, Counters, max_buffers
<1>4. Held'
  BY Zenon DEF SameBuffers, IInv, Held
<1>5. Available' = Available
  BY Zenon DEF SameBuffers, Available, max_buffers
<1> QED
  BY <1>2, <1>3, <1>4, <1>5, Zenon

(* One pass of the loop of cache_wait_unlock. *)
LEMMA WaitUnlockStep ==
    ASSUME IInv, NEW t \in Threads, CacheWaitUnlock(t), UNCHANGED policy
    PROVE  IInv'
<1>1. /\ SameBuffers /\ thread[t] \in {"want_unlock", "woken_unlock"}
      /\ locked' = locked /\ filler' = filler
  BY Zenon DEF CacheWaitUnlock, SameBuffers, policy, pool
<1>2. /\ arg[t] \in Buffers /\ held[t][arg[t]] \in Indexes /\ thread[t] \in UnlockPlaces
  BY <1>1, Zenon DEF IInv, Waits, UnlockPlaces
<1>3. /\ thread' \in [Threads -> Places]
      /\ thread'[t] = (IF locked[arg[t]] THEN "wait_unlock" ELSE "running")
      /\ \A u \in Threads : u # t => thread'[u] = thread[u]
  BY Zenon DEF CacheWaitUnlock, IInv, Types, Places, UnlockPlaces
<1>4. /\ arg' \in [Threads -> Args]
      /\ locked[arg[t]] => arg'[t] = arg[t]
      /\ \A u \in Threads : u # t => arg'[u] = arg[u]
  BY Zenon DEF CacheWaitUnlock, IInv, Types, Args
<1>5. /\ wait_on_unlock' \in [Buffers -> BOOLEAN]
      /\ locked[arg[t]] => wait_on_unlock'[arg[t]]
      /\ \A c \in Buffers : wait_on_unlock[c] => wait_on_unlock'[c]
  BY <1>2, Zenon DEF CacheWaitUnlock, IInv, Types
<1>6. Types'
  BY <1>1, <1>3, <1>4, <1>5, Zenon DEF IInv, Types, SameBuffers
<1>7. Lists' /\ Counters' /\ Held' /\ Available' = Available
  BY <1>1, SameBuffersKept, Zenon
<1>8. Waits'
  <2>1. ASSUME NEW u \in Threads, thread'[u] \in FreePlaces
        PROVE  u # t /\ thread[u] \in FreePlaces /\ arg'[u] = arg[u]
    BY <1>3, <1>4, <2>1, Zenon DEF FreePlaces
  <2>2. ASSUME NEW u \in Threads, thread'[u] \in UnlockPlaces
        PROVE  arg'[u] \in Buffers /\ held[u][arg'[u]] \in Indexes
    BY <1>2, <1>3, <1>4, <2>2, Zenon DEF IInv, Waits, UnlockPlaces
  <2> QED
    BY <1>1, <2>1, <2>2 DEF IInv, Waits, SameBuffers
<1>9. Fillers'
  <2>1. ASSUME NEW c \in Buffers, locked[c], NEW u \in Threads, held[u][c] # NotHeld, u # filler[c]
        PROVE  thread'[u] \in UnlockPlaces /\ arg'[u] = c
    <3>1. thread[u] \in UnlockPlaces /\ arg[u] = c
      BY <2>1, Zenon DEF IInv, Fillers
    <3> QED
      BY <1>3, <1>4, <2>1, <3>1, Zenon DEF UnlockPlaces
  <2> QED
    BY <1>1, <2>1, Zenon DEF IInv, Fillers, SameBuffers
<1>10. FreeWakeup'
  <2>1. At("wait_free")' = At("wait_free") /\ At("woken_free")' = At("woken_free")
    BY <1>1, <1>3, Zenon DEF At
  <2> QED
    BY <1>7, <2>1, Zenon DEF IInv, FreeWakeup
<1>11. UnlockWakeup'
  <2> SUFFICES ASSUME NEW u \in Threads, thread'[u] = "wait_unlock"
               PROVE  locked[arg'[u]] /\ wait_on_unlock'[arg'[u]]
    BY <1>1, Zenon DEF UnlockWakeup
  <2>1. CASE u = t
    BY <1>3, <1>4, <1>5, <2>1, Zenon
  <2>2. CASE u # t
    <3>1. thread[u] = "wait_unlock" /\ arg'[u] = arg[u]
      BY <1>3, <1>4, <2>2, Zenon
    <3>2. arg[u] \in Buffers /\ locked[arg[u]] /\ wait_on_unlock[arg[u]]
      BY <3>1, Zenon DEF IInv, Waits, UnlockWakeup, UnlockPlaces
    <3> QED
      BY <1>5, <3>1, <3>2, Zenon
  <2> QED
    BY <2>1, <2>2, Zenon
<1> QED
  BY <1>6, <1>7, <1>8, <1>9, <1>10, <1>11, Zenon DEF IInv

(* cache_unlock *)
LEMMA UnlockStep ==
    ASSUME IInv, NEW t \in Threads, NEW b \in Buffers, CacheUnlock(t, b), UNCHANGED policy
    PROVE  IInv'
<1>1. SameBuffers /\ arg' = arg
  BY Zenon DEF CacheUnlock, SameBuffers, policy, pool
<1>2. /\ locked' \in [Buffers -> BOOLEAN] /\ ~locked'[b]
      /\ filler' \in [Buffers -> Threads \cup {None}] /\ filler'[b] = None
      /\ wait_on_unlock' \in [Buffers -> BOOLEAN]
      /\ \A c \in Buffers : c # b => /\ locked'[c] = locked[c] /\ filler'[c] = filler[c]
                                     /\ wait_on_unlock'[c] = wait_on_unlock[c]
  BY Zenon DEF CacheUnlock, IInv, Types
<1>3. /\ thread' \in [Threads -> Places]
      /\ \A u \in Threads : thread[u] # "wait_unlock" => thread'[u] = thread[u]
      /\ \A u \in Threads : thread[u] = "wait_unlock" =>
            thread'[u] = (IF wait_on_unlock[b] THEN "woken_unlock" ELSE "wait_unlock")
  <2>0. thread \in [Threads -> Places]
    BY Zenon DEF IInv, Types
  <2>1. CASE wait_on_unlock[b]
    <3>1. thread' = [u \in Threads |-> IF thread[u] = "wait_unlock" THEN "woken_unlock" ELSE thread[u]]
      BY <2>1, Zenon DEF CacheUnlock, At
    <3> QED
      BY <2>0, <2>1, <3>1, Zenon DEF Places, UnlockPlaces
  <2>2. CASE ~wait_on_unlock[b]
    BY <2>0, <2>2, Zenon DEF CacheUnlock
  <2> QED
    BY <2>1, <2>2, Zenon
<1>4. Types'
  BY <1>1, <1>2, <1>3, Zenon DEF IInv, Types, SameBuffers
<1>5. Lists' /\ Counters' /\ Held' /\ Available' = Available
  BY <1>1, SameBuffersKept, Zenon
<1>6. \A u \in Threads : /\ thread'[u] \in FreePlaces <=> thread[u] \in FreePlaces
                         /\ thread'[u] \in UnlockPlaces <=> thread[u] \in UnlockPlaces
  BY <1>3, Zenon DEF FreePlaces, UnlockPlaces
<1>7. Waits'
  BY <1>1, <1>6, Zenon DEF IInv, Waits, SameBuffers
<1>8. Fillers'
  <2>0. held' = held /\ arg' = arg /\ Fillers
    BY <1>1, Zenon DEF IInv, SameBuffers
  <2>1. ASSUME NEW c \in Buffers, ~locked'[c] PROVE filler'[c] = None
    <3>1. CASE c = b
      BY <1>2, <3>1, Zenon
    <3>2. CASE c # b
      <4>1. locked'[c] = locked[c] /\ filler'[c] = filler[c]
        BY <1>2, <3>2, Zenon
      <4>2. ~locked[c]
        BY <2>1, <4>1, Zenon
      <4> QED
        BY <2>0, <4>1, <4>2, Zenon DEF Fillers
    <3> QED
      BY <3>1, <3>2, Zenon
  <2>2. ASSUME NEW c \in Buffers, locked'[c]
        PROVE  /\ filler'[c] \in Threads /\ held[filler'[c]][c] \in Indexes
               /\ \A u \in Threads : held[u][c] # NotHeld /\ u # filler'[c] =>
                                        thread'[u] \in UnlockPlaces /\ arg[u] = c
    <3>1. c # b /\ locked[c] /\ filler'[c] = filler[c]
      BY <1>2, <2>2, Zenon
    <3>2. filler[c] \in Threads /\ held[filler[c]][c] \in Indexes
      BY <2>0, <3>1, Zenon DEF Fillers
    <3>3. ASSUME NEW u \in Threads, held[u][c] # NotHeld, u # filler[c]
          PROVE  thread'[u] \in UnlockPlaces /\ arg[u] = c
      BY <1>6, <2>0, <3>1, <3>3, Zenon DEF Fillers
    <3> QED
      BY <3>1, <3>2, <3>3, Zenon
  <2> QED
    BY <2>0, <2>1, <2>2, Zenon DEF Fillers
<1>9. FreeWakeup'
  <2>1. At("wait_free")' = At("wait_free") /\ At("woken_free")' = At("woken_free")
    BY <1>3, Zenon DEF At
  <2> QED
    BY <1>5, <2>1, Zenon DEF IInv, FreeWakeup
<1>10. UnlockWakeup'
  <2> SUFFICES ASSUME NEW u \in Threads, thread'[u] = "wait_unlock"
               PROVE  locked'[arg[u]] /\ wait_on_unlock'[arg[u]]
    BY <1>1, Zenon DEF UnlockWakeup
  <2>1. thread[u] = "wait_unlock" /\ ~wait_on_unlock[b]
    BY <1>3, Zenon
  <2>2. arg[u] \in Buffers /\ locked[arg[u]] /\ wait_on_unlock[arg[u]]
    BY <2>1, Zenon DEF IInv, Waits, UnlockWakeup, UnlockPlaces
  <2> QED
    BY <1>2, <2>1, <2>2, Zenon
<1> QED
  BY <1>4, <1>5, <1>7, <1>8, <1>9, <1>10, Zenon DEF IInv

(* pthread_cond_wait returns without a signal. *)
LEMMA SpuriousStep ==
    ASSUME FiniteSetFacts, IInv, NEW t \in Threads, SpuriousWakeup(t), UNCHANGED policy
    PROVE  IInv'
<1>1. /\ SameBuffers /\ arg' = arg /\ locked' = locked /\ filler' = filler
      /\ wait_on_unlock' = wait_on_unlock
  BY Zenon DEF SpuriousWakeup, SameBuffers, policy, pool, fields
<1>2. /\ thread' \in [Threads -> Places]
      /\ \/ thread[t] = "wait_free" /\ thread'[t] = "woken_free"
         \/ thread[t] = "wait_unlock" /\ thread'[t] = "woken_unlock"
      /\ \A u \in Threads : u # t => thread'[u] = thread[u]
  BY Zenon DEF SpuriousWakeup, IInv, Types, Places, FreePlaces, UnlockPlaces
<1>3. Types'
  BY <1>1, <1>2, Zenon DEF IInv, Types, SameBuffers
<1>4. Lists' /\ Counters' /\ Held' /\ Available' = Available
  BY <1>1, SameBuffersKept, Zenon
<1>5. \A u \in Threads : /\ thread'[u] \in FreePlaces <=> thread[u] \in FreePlaces
                         /\ thread'[u] \in UnlockPlaces <=> thread[u] \in UnlockPlaces
  BY <1>2, Zenon DEF FreePlaces, UnlockPlaces
<1>6. Waits'
  BY <1>1, <1>5, Zenon DEF IInv, Waits, SameBuffers
<1>7. Fillers'
  BY <1>1, <1>5, Zenon DEF IInv, Fillers, SameBuffers
<1>8. FreeWakeup'
  <2>1. At("wait_free")' \subseteq At("wait_free") /\ At("woken_free") \subseteq At("woken_free")'
        /\ At("woken_free")' \in SUBSET Threads
    BY <1>2, Zenon DEF At
  <2>2. Cardinality(At("woken_free")) <= Cardinality(At("woken_free")')
    BY <2>1, Finite, FinitePart, Zenon
  <2>3. Cardinality(At("woken_free")) \in Nat /\ Cardinality(At("woken_free")') \in Nat
    BY <2>1, Finite, Zenon
  <2>4. Available \in Int
    BY Finite DEF Available, IInv, Types
  <2> QED
    BY <1>4, <2>1, <2>2, <2>3, <2>4 DEF IInv, FreeWakeup
<1>9. UnlockWakeup'
  BY <1>1, <1>2, Zenon DEF IInv, UnlockWakeup
<1> QED
  BY <1>3, <1>4, <1>6, <1>7, <1>8, <1>9, Zenon DEF IInv

-----------------------------------------------------------------------------
(* cache_block_put.  What it does to the pool ...                           *)
Given(b) ==
    /\ free_list' \in Seq(Buffers) /\ Distinct(free_list')
    /\ Elems(free_list') = allocated' \ InUse'
    /\ InUse' \subseteq allocated' /\ allocated' \subseteq allocated
    /\ Elems(free_list') \subseteq hashed /\ hashed \subseteq allocated'
    /\ ~noshrink_lookup => free_list' = <<>>
    /\ count' \in Nat /\ count' = Cardinality(allocated')
    /\ used' \in Nat
    /\ IF noshrink_lookup THEN used' = Cardinality(InUse') ELSE used' <= max_buffers

(* ... and whom it wakes. *)
LEMMA PutPool ==
    ASSUME FiniteSetFacts, IInv, NEW t \in Threads, NEW b \in Buffers, CacheBlockPut(t, b)
    PROVE  /\ Given(b)
           /\ \/ SignalFree /\ (IF noshrink_lookup THEN Len(free_list') ELSE 0)
                                    + (max_buffers - count') = Available + 1
              \/ thread' = thread /\ count' = count /\ free_list' = free_list
<1>0. /\ free_list \in Seq(Buffers) /\ Len(free_list) \in Nat /\ count \in Nat /\ used \in Nat
      /\ max_buffers \in Nat /\ allocated \subseteq Buffers /\ noshrink_lookup \in BOOLEAN
      /\ InUse \subseteq Buffers /\ uses[b] \in Nat /\ hashed \subseteq Buffers
      /\ Distinct(free_list) /\ Elems(free_list) = allocated \ InUse
      /\ count = Cardinality(allocated)
  BY Finite DEF IInv, Types, InUse, Lists, Counters
<1>1. b \in InUse /\ b \in allocated
  BY HolderUses, Zenon DEF CacheBlockPut
<1>2. /\ uses' \in [Buffers -> Int] /\ uses'[b] = uses[b] - 1
      /\ \A c \in Buffers : c # b => uses'[c] = uses[c]
  BY DEF CacheBlockPut, IInv, Types
<1>3. CASE uses[b] = 1 /\ Release(b)
  <2>1. InUse' = InUse \ {b}
    BY <1>2, <1>3 DEF InUse
  <2>2. CASE noshrink_lookup
    <3>1. /\ free_list' = Append(free_list, b) /\ used' = used - 1 /\ count' = count
          /\ allocated' = allocated
      BY <1>3, <2>2, Zenon DEF Release
    <3>2. b \notin Elems(free_list)
      BY <1>0, <1>1, Zenon
    <3>3. /\ free_list' \in Seq(Buffers) /\ Len(free_list') = Len(free_list) + 1
          /\ Distinct(free_list') /\ Elems(free_list') = Elems(free_list) \cup {b}
      BY <1>0, <3>1, <3>2, AppendElems
    <3>4. b \in hashed
      <4>1. held[t][b] \in HeldValues
        BY DEF IInv, Types
      <4>2. held[t][b] \in Indexes
        BY <2>2, <4>1, Zenon DEF CacheBlockPut, HeldValues
      <4> QED
        BY <4>2, Zenon DEF IInv, Held
    <3>5. used' \in Nat /\ used' = Cardinality(InUse')
      <4>1. used = Cardinality(InUse) /\ IsFiniteSet(InUse)
        BY <1>0, <2>2, Finite, Zenon DEF IInv, Counters
      <4>2. Cardinality(InUse') = Cardinality(InUse) - 1 /\ Cardinality(InUse') \in Nat
        <5>1. InUse' \subseteq Buffers
          BY <1>0, <2>1, Zenon
        <5> QED
          BY <1>1, <2>1, <4>1, <5>1, Finite, OneLess, Zenon
      <4> QED
        BY <3>1, <4>1, <4>2, Zenon
    <3>6. Len(free_list') + (max_buffers - count') = Available + 1
      BY <1>0, <2>2, <3>1, <3>3 DEF Available
    <3>7. Elems(free_list') = allocated' \ InUse' /\ InUse' \subseteq allocated'
          /\ Elems(free_list') \subseteq hashed /\ hashed \subseteq allocated'
      BY <1>0, <1>1, <2>1, <3>1, <3>3, <3>4, Zenon DEF IInv, Lists
    <3>8. SignalFree
      BY <1>3, Zenon DEF Release
    <3> QED
      BY <1>0, <2>2, <3>1, <3>3, <3>5, <3>6, <3>7, <3>8, Zenon DEF Given
  <2>3. CASE ~noshrink_lookup
    <3>1. /\ free_list' = free_list /\ used' = used /\ count' = count - 1
          /\ allocated' = allocated \ {b}
      BY <1>3, <2>3, Zenon DEF Release
    <3>2. free_list = <<>> /\ hashed = {} /\ used <= max_buffers
      BY <2>3, Zenon DEF IInv, Lists, Counters
    <3>3. count' = Cardinality(allocated') /\ count' \in Nat
      <4>1. allocated' \subseteq Buffers /\ IsFiniteSet(allocated)
        BY <1>0, <3>1, Finite, Zenon
      <4>2. Cardinality(allocated') = Cardinality(allocated) - 1
        BY <1>1, <3>1, <4>1, OneLess, Zenon
      <4>3. Cardinality(allocated') \in Nat
        BY <4>1, Finite, Zenon
      <4> QED
        BY <1>0, <3>1, <4>2, <4>3, Zenon
    <3>4. Elems(free_list') = allocated' \ InUse' /\ InUse' \subseteq allocated' /\ Elems(free_list') = {}
      <4>1. Elems(free_list) = {}
        BY <3>2 DEF Elems
      <4> QED
        BY <1>0, <2>1, <3>1, <4>1, Zenon DEF IInv, Lists
    <3>5. 0 + (max_buffers - count') = Available + 1
      BY <1>0, <2>3, <3>1 DEF Available
    <3>6. SignalFree
      BY <1>3, Zenon DEF Release
    <3> QED
      BY <1>0, <2>3, <3>1, <3>2, <3>3, <3>4, <3>5, <3>6, Zenon DEF Given
  <2> QED
    BY <1>0, <2>2, <2>3, Zenon
<1>4. CASE uses[b] # 1 /\ UNCHANGED <<free_list, used, allocated, count, thread>>
  <2>1. uses[b] > 0
    BY <1>1, Zenon DEF InUse
  <2>2. InUse' = InUse
    BY <1>0, <1>2, <1>4, <2>1, SMTT(30) DEF InUse
  <2> QED
    BY <1>0, <1>4, <2>2, Zenon DEF Given, IInv, Lists, Counters
<1> QED
  BY <1>3, <1>4, Zenon DEF CacheBlockPut

(* cache_block_put *)
LEMMA PutStep ==
    ASSUME FiniteSetFacts, IInv, NEW t \in Threads, NEW b \in Buffers, CacheBlockPut(t, b), UNCHANGED policy
    PROVE  IInv'
<1>1. /\ thread[t] = "running" /\ held[t][b] # NotHeld /\ filler[b] # t
      /\ noshrink_lookup' = noshrink_lookup /\ first_freelist' = first_freelist
      /\ hashed' = hashed /\ index' = index /\ locked' = locked /\ filler' = filler
      /\ wait_on_unlock' = wait_on_unlock /\ arg' = arg
  BY Zenon DEF CacheBlockPut, policy
<1>2. Given(b)
  BY PutPool, Zenon
<1>3. /\ held' \in [Threads -> [Buffers -> HeldValues]] /\ held'[t][b] = NotHeld
      /\ \A u \in Threads, c \in Buffers : u # t \/ c # b => held'[u][c] = held[u][c]
  <2>1. Types /\ NotHeld \in HeldValues /\ AssignHeld(t, b, NotHeld)
    BY Zenon DEF CacheBlockPut, HeldValues, IInv, AssignHeld
  <2> QED
    BY <2>1, HeldAssigned
<1>4. ~locked[b]
  BY <1>1, Zenon DEF IInv, Fillers, UnlockPlaces
<1>5. Unhashed \notin Indexes /\ NotHeld \notin Indexes /\ NotHeld # Unhashed
  BY CacheAssumption, Zenon DEF Unhashed, NotHeld
<1>6. /\ thread' \in [Threads -> Places]
      /\ \A u \in Threads : \/ thread'[u] = thread[u]
                            \/ thread[u] = "wait_free" /\ thread'[u] = "woken_free"
  <2>1. CASE thread' = thread
    BY <2>1, Zenon DEF IInv, Types
  <2>2. CASE SignalFree
    BY <2>2, Zenon DEF SignalFree, At, IInv, Types, Places, FreePlaces
  <2> QED
    BY <2>1, <2>2, PutPool, Zenon
<1>7. /\ uses' \in [Buffers -> Nat] /\ \A c \in Buffers : uses'[c] = Cardinality(Holders(c)')
  <2>1. uses \in [Buffers -> Nat] /\ uses' = [uses EXCEPT ![b] = @ - 1]
    BY Zenon DEF CacheBlockPut, IInv, Types
  <2>2. ASSUME NEW c \in Buffers PROVE uses'[c] = Cardinality(Holders(c)') /\ uses'[c] \in Nat
    <3>1. CASE c = b
      <4>1. Holders(b)' = Holders(b) \ {t} /\ t \in Holders(b) /\ Holders(b) \subseteq Threads
            /\ Holders(b)' \subseteq Threads
        BY <1>1, <1>3, Zenon DEF Holders
      <4>2. Cardinality(Holders(b)') = Cardinality(Holders(b)) - 1 /\ Cardinality(Holders(b)') \in Nat
        BY <4>1, Finite, OneLess, Zenon
      <4> QED
        BY <2>1, <3>1, <4>2, Zenon DEF IInv, Counters
    <3>2. CASE c # b
      <4>1. Holders(c)' = Holders(c)
        BY <1>3, <3>2, Zenon DEF Holders
      <4> QED
        BY <2>1, <3>2, <4>1, Zenon DEF IInv, Counters
    <3> QED
      BY <3>1, <3>2, Zenon
  <2> QED
    BY <2>1, <2>2, Zenon
<1>8. Types'
  <2>1. allocated' \subseteq Buffers
    BY <1>2, Zenon DEF Given, IInv, Types
  <2> QED
    BY <1>1, <1>2, <1>3, <1>6, <1>7, <2>1, Zenon DEF IInv, Types, Given
<1>9. Lists'
  BY <1>1, <1>2, Zenon DEF IInv, Lists, Given
<1>10. Counters'
  BY <1>1, <1>2, <1>7, Zenon DEF Counters, Given, max_buffers
<1>11. Held'
  <2>1. ASSUME NEW u \in Threads, NEW c \in Buffers, held'[u][c] # NotHeld
        PROVE  held'[u][c] = held[u][c]
    BY <1>3, <2>1, Zenon
  <2>2. ASSUME NEW u \in Threads, NEW c \in Buffers, held'[u][c] \in Indexes
        PROVE  index'[c] = held'[u][c] /\ c \in hashed'
    <3>1. held'[u][c] = held[u][c]
      BY <1>5, <2>1, <2>2, Zenon
    <3> QED
      BY <1>1, <2>2, <3>1 DEF IInv, Held
  <2>3. ASSUME NEW u \in Threads, NEW c \in Buffers, held'[u][c] = Unhashed
        PROVE  c \notin hashed' /\ \A v \in Threads : held'[v][c] # NotHeld => v = u
    <3>1. held[u][c] = Unhashed
      BY <1>5, <2>1, <2>3, Zenon
    <3>2. c \notin hashed /\ \A v \in Threads : held[v][c] # NotHeld => v = u
      BY <3>1, Zenon DEF IInv, Held
    <3> QED
      BY <1>1, <2>1, <3>2, Zenon
  <2>4. /\ \A c, d \in hashed' : index'[c] = index'[d] => c = d
        /\ \A c \in hashed' : index'[c] \in Indexes
    BY <1>1 DEF IInv, Held
  <2> QED
    BY <2>2, <2>3, <2>4, Zenon DEF Held
<1>12. \A u \in Threads : /\ thread'[u] \in FreePlaces <=> thread[u] \in FreePlaces
                          /\ thread'[u] \in UnlockPlaces <=> thread[u] \in UnlockPlaces
  BY <1>6, Zenon DEF FreePlaces, UnlockPlaces
<1>13. Waits'
  <2>1. ASSUME NEW u \in Threads, thread[u] \in UnlockPlaces
        PROVE  arg[u] \in Buffers /\ held'[u][arg[u]] \in Indexes
    BY <1>1, <1>3, <2>1, Zenon DEF IInv, Waits, UnlockPlaces
  <2> QED
    BY <1>1, <1>12, <2>1, Zenon DEF IInv, Waits
<1>14. Fillers'
  <2>1. ASSUME NEW c \in Buffers, locked[c] PROVE \A u \in Threads : held'[u][c] = held[u][c]
    BY <1>3, <1>4, <2>1, Zenon
  <2>2. ASSUME NEW c \in Buffers, locked[c]
        PROVE  /\ filler[c] \in Threads /\ held'[filler[c]][c] \in Indexes
               /\ \A u \in Threads : held'[u][c] # NotHeld /\ u # filler[c] =>
                     thread'[u] \in UnlockPlaces /\ arg[u] = c
    <3>1. /\ filler[c] \in Threads /\ held[filler[c]][c] \in Indexes
          /\ \A u \in Threads : held[u][c] # NotHeld /\ u # filler[c] =>
                thread[u] \in UnlockPlaces /\ arg[u] = c
      BY <2>2, Zenon DEF IInv, Fillers
    <3> QED
      BY <1>12, <2>1, <2>2, <3>1, Zenon
  <2>3. \A c \in Buffers : ~locked[c] => filler[c] = None
    BY Zenon DEF IInv, Fillers
  <2> QED
    BY <1>1, <2>2, <2>3, Zenon DEF Fillers
<1>15. FreeWakeup'
  <2>0. Available \in Int /\ Cardinality(At("woken_free")) \in Nat
        /\ At("woken_free") \subseteq Threads
    BY Finite DEF Available, IInv, Types, At
  <2>1. CASE thread' = thread /\ count' = count /\ free_list' = free_list
    BY <1>1, <2>1, Zenon DEF IInv, FreeWakeup, Available, At, max_buffers
  <2>2. CASE SignalFree /\ (IF noshrink_lookup THEN Len(free_list') ELSE 0)
                              + (max_buffers - count') = Available + 1
    <3>1. Available' = Available + 1
      BY <1>1, <2>2, Zenon DEF Available, max_buffers
    <3>2. CASE At("wait_free") = {}
      <4>1. At("wait_free")' = {}
        BY <2>2, <3>2, Zenon DEF SignalFree, At
      <4> QED
        BY <4>1, Zenon DEF FreeWakeup
    <3>3. CASE At("wait_free") # {}
      <4>1. PICK u \in At("wait_free") : thread' = [thread EXCEPT ![u] = "woken_free"]
        BY <2>2, <3>3, Zenon DEF SignalFree
      <4>2. At("woken_free")' = At("woken_free") \cup {u} /\ u \notin At("woken_free")
        BY <4>1, Zenon DEF At, IInv, Types
      <4>3. Cardinality(At("woken_free")') = Cardinality(At("woken_free")) + 1
        BY <2>0, <4>2, Finite, OneMore, Zenon
      <4> QED
        BY <2>0, <3>1, <3>3, <4>3 DEF IInv, FreeWakeup
    <3> QED
      BY <3>2, <3>3, Zenon
  <2> QED
    BY <2>1, <2>2, PutPool, Zenon
<1>16. UnlockWakeup'
  BY <1>1, <1>6, Zenon DEF IInv, UnlockWakeup
<1> QED
  BY <1>8, <1>9, <1>10, <1>11, <1>13, <1>14, <1>15, <1>16, Zenon DEF IInv

-----------------------------------------------------------------------------
(* cache_init *)
LEMMA InitIInv ==
    ASSUME FiniteSetFacts, Init
    PROVE  IInv
<1>0. Unhashed \notin Indexes /\ NotHeld \notin Indexes /\ NotHeld # Unhashed
  BY CacheAssumption, Zenon DEF Unhashed, NotHeld
<1>1. Types
  <2>1. noshrink_lookup \in BOOLEAN /\ first_freelist \in BOOLEAN
    BY Zenon DEF Init
  <2>2. /\ count \in Nat /\ used \in Nat /\ free_list \in Seq(Buffers)
        /\ hashed \subseteq Buffers /\ allocated \subseteq Buffers /\ uses \in [Buffers -> Nat]
    BY DEF Init
  <2>3. /\ index \in [Buffers -> Indexes \cup {Unhashed}]
        /\ locked \in [Buffers -> BOOLEAN] /\ wait_on_unlock \in [Buffers -> BOOLEAN]
        /\ held \in [Threads -> [Buffers -> HeldValues]]
        /\ thread \in [Threads -> Places] /\ arg \in [Threads -> Args]
        /\ filler \in [Buffers -> Threads \cup {None}]
    BY Zenon DEF Init, HeldValues, Places, Args
  <2> QED
    BY <2>1, <2>2, <2>3, Zenon DEF Types
<1>2. InUse = {} /\ \A b \in Buffers : Holders(b) = {}
  BY DEF Init, InUse, Holders
<1>3. Lists
  BY <1>2 DEF Init, Lists, Elems, Distinct
<1>4. Counters
  BY <1>2, Finite, Numbered, Zenon DEF Init, Counters
<1>5. Held
  BY <1>0, Zenon DEF Init, Held
<1>6. Waits /\ Fillers /\ UnlockWakeup
  BY Zenon DEF Init, Waits, Fillers, UnlockWakeup, FreePlaces, UnlockPlaces
<1>7. FreeWakeup
  BY Zenon DEF Init, FreeWakeup, At
<1> QED
  BY <1>1, <1>3, <1>4, <1>5, <1>6, <1>7, Zenon DEF IInv

(* One case for each operation of the cache. *)
LEMMA NextIInv ==
    ASSUME FiniteSetFacts, IInv, [Next]_vars
    PROVE  IInv'
<1>1. CASE UNCHANGED vars
  <2>1. /\ SameBuffers /\ locked' = locked /\ wait_on_unlock' = wait_on_unlock
        /\ filler' = filler /\ thread' = thread /\ arg' = arg
    BY <1>1, Zenon DEF vars, policy, pool, fields, SameBuffers
  <2>2. Lists' /\ Counters' /\ Held' /\ Available' = Available
    BY <2>1, SameBuffersKept, Zenon
  <2>3. Types'
    BY <2>1, Zenon DEF IInv, Types, SameBuffers
  <2>4. Waits'
    BY <2>1, Zenon DEF IInv, Waits, SameBuffers
  <2>5. Fillers'
    BY <2>1, Zenon DEF IInv, Fillers, SameBuffers
  <2>6. UnlockWakeup'
    BY <2>1, Zenon DEF IInv, UnlockWakeup
  <2>7. FreeWakeup'
    BY <2>1, <2>2, Zenon DEF IInv, FreeWakeup, At
  <2> QED
    BY <2>2, <2>3, <2>4, <2>5, <2>6, <2>7, Zenon DEF IInv
<1>2. CASE Next
  <2>1. PICK t \in Threads :
          \/ CacheGet(t) \/ CacheGetResume(t)
          \/ CacheWaitUnlock(t) \/ SpuriousWakeup(t)
          \/ \E i \in Indexes : CacheGetNowait(t, i)
          \/ \E b \in Buffers : CacheUnlock(t, b) \/ CacheBlockPut(t, b)
          \/ \E b \in Buffers, i \in Indexes : CacheHash(t, b, i) \/ CacheLookup(t, b, i)
    BY <1>2, Zenon DEF Next
  <2>2. UNCHANGED policy
    BY <1>2, Zenon DEF Next
  <2>3. CASE CacheGet(t) \/ CacheGetResume(t)
    BY <2>2, <2>3, GetStep, Zenon
  <2>4. CASE CacheWaitUnlock(t)
    BY <2>2, <2>4, WaitUnlockStep, Zenon
  <2>5. CASE SpuriousWakeup(t)
    BY <2>2, <2>5, SpuriousStep, Zenon
  <2>6. CASE \E i \in Indexes : CacheGetNowait(t, i)
    BY <2>2, <2>6, GetNowaitStep, Zenon
  <2>7. CASE \E b \in Buffers : CacheUnlock(t, b) \/ CacheBlockPut(t, b)
    BY <2>2, <2>7, UnlockStep, PutStep, Zenon
  <2>8. CASE \E b \in Buffers, i \in Indexes : CacheHash(t, b, i) \/ CacheLookup(t, b, i)
    BY <2>2, <2>8, HashStep, LookupStep, Zenon
  <2> QED
    BY <2>1, <2>3, <2>4, <2>5, <2>6, <2>7, <2>8, Zenon
<1> QED
  BY <1>1, <1>2, Zenon

(* The bounds of TypeOK follow from what the counters count. *)
LEMMA ImpliesAccounting ==
    ASSUME FiniteSetFacts, IInv
    PROVE  Accounting
<1>1. TypeOK
  <2>1. count \in 0..max_buffers
    BY Finite DEF IInv, Types, Counters
  <2>2. used \in 0..max_buffers
    <3>1. Cardinality(InUse) <= max_buffers /\ max_buffers \in Nat
      <4>1. InUse \in SUBSET Buffers
        BY Zenon DEF InUse
      <4> QED
        BY <4>1, Finite, Zenon
    <3>2. used \in Nat /\ (used = Cardinality(InUse) \/ used <= max_buffers)
      BY Zenon DEF IInv, Types, Counters
    <3> QED
      BY <3>1, <3>2
  <2>3. uses \in [Buffers -> 0..Cardinality(Threads)]
    <3>1. ASSUME NEW b \in Buffers PROVE uses[b] \in 0..Cardinality(Threads)
      <4>1. Holders(b) \in SUBSET Threads /\ uses[b] = Cardinality(Holders(b))
        BY Zenon DEF Holders, IInv, Counters
      <4>2. Cardinality(Holders(b)) <= Cardinality(Threads)
        BY <4>1, CacheAssumption, FinitePart, Zenon
      <4>3. Cardinality(Holders(b)) \in Nat /\ Cardinality(Threads) \in Nat
        BY <4>1, Finite, Zenon
      <4> QED
        BY <4>1, <4>2, <4>3
    <3> QED
      BY <3>1, Zenon DEF IInv, Types
  <2> QED
    BY <2>1, <2>2, <2>3, Zenon DEF IInv, Types, TypeOK, HeldValues, Places, FreePlaces, UnlockPlaces
<1>2. /\ count = Cardinality(allocated) /\ \A b \in Buffers : uses[b] = Cardinality(Holders(b))
      /\ noshrink_lookup => used = Cardinality(InUse)
  BY Zenon DEF IInv, Counters
<1>3. /\ InUse \subseteq allocated
      /\ \A j, k \in 1..Len(free_list) : free_list[j] = free_list[k] => j = k
      /\ {free_list[k] : k \in 1..Len(free_list)} = allocated \ InUse
      /\ \A k \in 1..Len(free_list) : free_list[k] \in hashed
  BY DEF IInv, Lists, Elems, Distinct
<1> QED
  BY <1>1, <1>2, <1>3, Zenon DEF Accounting

-----------------------------------------------------------------------------
\* The library of finite sets, not needed before this point.
INSTANCE FiniteSetTheorems

(* The facts about finite sets that the lemmas assume.                       *)
LEMMA FiniteSetsHave == FiniteSetFacts
<1>1. \A S : IsFiniteSet(S) => Cardinality(S) \in Nat
  BY FS_CardinalityType, Zenon
<1>2. \A S, x : IsFiniteSet(S) =>
         /\ IsFiniteSet(S \cup {x})
         /\ x \notin S => Cardinality(S \cup {x}) = Cardinality(S) + 1
  BY FS_AddElement, Zenon
<1>3. \A S, x : IsFiniteSet(S) =>
         /\ IsFiniteSet(S \ {x})
         /\ x \in S => Cardinality(S \ {x}) = Cardinality(S) - 1
  BY FS_RemoveElement, Zenon
<1>4. \A S, T : IsFiniteSet(S) /\ T \subseteq S =>
         IsFiniteSet(T) /\ Cardinality(T) <= Cardinality(S)
  BY FS_Subset, Zenon
<1>5. \A n \in Nat : IsFiniteSet(1..n)
  BY FS_Interval
<1>6. ASSUME NEW S, NEW T, NEW f \in [S -> T], IsFiniteSet(S),
             \A a, b \in S : f[a] = f[b] => a = b,
             \A t \in T : \E a \in S : f[a] = t
      PROVE  Cardinality(T) = Cardinality(S)
  <2>1. f \in Bijection(S, T)
    BY <1>6, Zenon DEF Bijection, Injection, Surjection, IsInjective
  <2> QED
    BY <1>6, <2>1, FS_Bijection, Zenon DEF ExistsBijection
<1> QED
  BY <1>1, <1>2, <1>3, <1>4, <1>5, <1>6, FS_EmptySet, Zenon DEF FiniteSetFacts

(* IInv holds in every state. *)
THEOREM CacheInvariant == Spec => []IInv
<1>1. Init => IInv
  BY FiniteSetsHave, InitIInv, Zenon
<1>2. IInv /\ [Next]_vars => IInv'
  BY FiniteSetsHave, NextIInv, Zenon
<1> QED
  BY <1>1, <1>2, PTL DEF Spec

(* The counters of the cache agree with its lists, and every buffer on the  *)
(* free list is hashed, as cache_freelist says, however many threads call   *)
(* cache_get, cache_lookup and cache_block_put.                             *)
THEOREM CacheAccounting == Spec => []Accounting
<1>1. IInv => Accounting
  BY FiniteSetsHave, ImpliesAccounting, Zenon
<1> QED
  BY <1>1, CacheInvariant, PTL

(* A buffer keeps its block while anybody holds it, and two buffers never   *)
(* have the same index.                                                     *)
THEOREM CacheHolderKeepsBlock == Spec => []HolderKeepsBlock
<1>1. ASSUME IInv PROVE HolderKeepsBlock
  <2>1. ASSUME NEW t \in Threads, NEW b \in Buffers, held[t][b] = Unhashed
        PROVE  Holders(b) = {t} /\ b \notin hashed
    <3>1. held[t][b] # NotHeld
      BY <2>1, Zenon DEF Unhashed, NotHeld
    <3>2. b \notin hashed /\ \A u \in Threads : held[u][b] # NotHeld => u = t
      BY <1>1, <2>1, Zenon DEF IInv, Held
    <3> QED
      BY <3>1, <3>2, Zenon DEF Holders
  <2> QED
    BY <1>1, <2>1, Zenon DEF IInv, Held, HolderKeepsBlock
<1> QED
  BY <1>1, CacheInvariant, PTL

(* No wakeup of cache_block_put or cache_unlock is lost. *)
THEOREM CacheNoLostWakeup == Spec => []NoLostWakeup
<1>1. ASSUME IInv PROVE NoLostWakeup
  BY <1>1, Zenon DEF IInv, FreeWakeup, UnlockWakeup, Available, NoLostWakeup, At
<1> QED
  BY <1>1, CacheInvariant, PTL

(* A buffer found in the cache is not used before it has been filled in.    *)
THEOREM CacheNoUseBeforeFilled == Spec => []NoUseBeforeFilled
<1>1. ASSUME IInv PROVE NoUseBeforeFilled
  <2>1. NotHeld \notin Indexes
    BY CacheAssumption, Zenon DEF NotHeld
  <2> QED
    BY <1>1, <2>1, Zenon DEF IInv, Fillers, NoUseBeforeFilled, Holders, UnlockPlaces
<1> QED
  BY <1>1, CacheInvariant, PTL
=============================================================================
