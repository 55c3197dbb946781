------------------------- MODULE KernelCacheProofs -------------------------
(* Proofs about the kernel's block cache, for any number of processes,      *)
(* blocks and entries.                                                      *)
EXTENDS KernelCache, FiniteSetTheorems, TLAPS

-----------------------------------------------------------------------------
(* The strengthening that makes the invariants inductive.  A process that   *)
(* refers to an entry has one, and it is for the block it wants; one that   *)
(* is in a call wants a block.                                              *)
Refs ==
    \A p \in Processes :
        /\ at[p] \in Referring => mine[p] \in Entries
        /\ at[p] \notin {"idle", "wake_free"} => want[p] \in Blocks
RightBlock == \A p \in Processes : at[p] \in Referring => block[mine[p]] = want[p]

(* A block is in one entry. *)
OneEntry == \A e, f \in Entries : block[e] = block[f] /\ block[e] # Invalid => e = f

(* An entry is pending just while one process reads it ... *)
PendingFilled ==
    \A e \in Entries : pending[e] => \E p \in Processes : at[p] = "fill" /\ mine[p] = e
FillPending ==
    \A p \in Processes : at[p] = "fill" => pending[mine[p]]
OneFiller ==
    \A p, q \in Processes : at[p] = "fill" /\ at[q] = "fill" /\ mine[p] = mine[q] => p = q

(* ... whoever waits for it then is counted ... *)
WaitersCounted ==
    \A p \in Processes : at[p] \in {"wait_fill", "sleep_fill"} /\ pending[mine[p]]
        => num_waiters[mine[p]] # 0

(* ... and once it is not pending it holds its block, used or not. *)
DataThere ==
    \A e \in Entries : block[e] # Invalid /\ ~pending[e] => error[e] \/ data[e] = block[e]
HeldReady ==
    \A p \in Processes : at[p] \in {"hold", "wake_fill"} => ~pending[mine[p]]

(* The two halves of NoLostWakeup. *)
FreeWakeup ==
    \A p \in Processes : at[p] = "sleep_free" /\ unused # 0
        => \E q \in Processes : at[q] = "wake_free"
FillWakeup ==
    \A p \in Processes : at[p] = "sleep_fill" =>
        \E q \in Processes : /\ mine[q] = mine[p]
                             /\ \/ at[q] = "fill" /\ num_waiters[mine[p]] # 0
                                \/ at[q] = "wake_fill"

Flow == /\ Refs /\ RightBlock /\ OneEntry
        /\ PendingFilled /\ FillPending /\ OneFiller
        /\ WaitersCounted /\ DataThere /\ HeldReady
        /\ FreeWakeup /\ FillWakeup

IInv == TypeOK /\ CountsExact /\ Flow

Places == Referring \cup {"idle", "wait_free", "sleep_free", "retry", "wake_free"}

(* What is checked follows from it. *)
LEMMA FlowImplies == TypeOK /\ Flow => HolderSeesBlock /\ NoLostWakeup
<1> SUFFICES ASSUME TypeOK, Flow PROVE HolderSeesBlock /\ NoLostWakeup
  OBVIOUS
<1>1. ASSUME NEW p \in Processes, at[p] \in {"hold", "wake_fill"}
      PROVE  ~pending[mine[p]] /\ (error[mine[p]] \/ data[mine[p]] = want[p])
  <2>1. mine[p] \in Entries /\ want[p] \in Blocks /\ block[mine[p]] = want[p]
    BY <1>1 DEF Flow, Refs, RightBlock, Referring
  <2>2. ~pending[mine[p]]
    BY <1>1 DEF Flow, HeldReady
  <2> QED
    BY <2>1, <2>2, ProcessAssumption DEF Flow, DataThere
<1>2. NoLostWakeup
  BY DEF Flow, NoLostWakeup, FreeWakeup, FillWakeup, SleepFree
<1> QED
  BY <1>1, <1>2 DEF Flow, HolderSeesBlock, OneEntry, RightBlock
-----------------------------------------------------------------------------
(* Finite sets. *)
Free == {e \in Entries : refcount[e] = 0}
Waiting == {p \in Processes : at[p] \in {"wait_free", "sleep_free", "retry"}}

(* The cache has finitely many entries. *)
LEMMA EntriesFinite == IsFiniteSet(Entries)
BY EntriesAssumption, FS_Interval DEF Entries

(* The sets the cache counts are finite, so their sizes are numbers. *)
LEMMA Finite ==
    /\ IsFiniteSet(Free) /\ Cardinality(Free) \in Nat
    /\ IsFiniteSet(Waiting) /\ Cardinality(Waiting) \in Nat
    /\ \A e : IsFiniteSet(Holders(e)) /\ Cardinality(Holders(e)) \in Nat
<1>1. Free \subseteq Entries /\ Waiting \subseteq Processes
  BY DEF Free, Waiting
<1>2. \A e : Holders(e) \subseteq Processes
  BY DEF Holders
<1> QED
  BY <1>1, <1>2, EntriesFinite, ProcessAssumption, FS_Subset, FS_CardinalityType

(* An element more, an element less. *)
LEMMA OneMore ==
    ASSUME NEW S, NEW T, NEW x, IsFiniteSet(S), x \notin S, T = S \cup {x}
    PROVE  Cardinality(T) = Cardinality(S) + 1
BY FS_AddElement

(* Removing a member makes a finite set one smaller. *)
LEMMA OneLess ==
    ASSUME NEW S, NEW T, NEW x, IsFiniteSet(S), x \in S, T = S \ {x}
    PROVE  Cardinality(T) = Cardinality(S) - 1
BY FS_RemoveElement

(* CountsExact in terms of these sets. *)
LEMMA CountsSets ==
    CountsExact <=> /\ \A e \in Entries : refcount[e] = Cardinality(Holders(e)) + lost[e]
                    /\ unused = Cardinality(Free)
                    /\ waiters = Cardinality(Waiting)
BY DEF CountsExact, Free, Waiting

(* When some entry is unused, the round-robin search ends at one.            *)
LEMMA VictimUnused ==
    ASSUME CountsExact, unused # 0, NEW e \in Entries, Victim(e)
    PROVE  refcount[e] = 0
<1>1. Free # {}
  BY CountsSets, FS_EmptySet
<1> QED
  BY <1>1 DEF Free, Victim

(* TypeOK by parts. *)
LEMMA Types ==
    ASSUME TypeOK
    PROVE  /\ block \in [Entries -> Blocks \cup {Invalid}]
           /\ refcount \in [Entries -> Nat]
           /\ pending \in [Entries -> BOOLEAN]
           /\ num_waiters \in [Entries -> Nat]
           /\ error \in [Entries -> BOOLEAN]
           /\ data \in [Entries -> Blocks \cup {Invalid}]
           /\ unused \in Int /\ unused >= 0 /\ unused <= entries /\ waiters \in Nat
           /\ at \in [Processes -> Places]
           /\ want \in [Processes -> Blocks \cup {Invalid}]
           /\ mine \in [Processes -> Entries \cup {NoEntry}]
           /\ lost \in [Entries -> Nat]
<1>1. unused \in 0..entries
  BY DEF TypeOK
<1>2. unused \in Int /\ unused >= 0 /\ unused <= entries
  BY <1>1, EntriesAssumption
<1> QED
  BY <1>2, Zenon DEF TypeOK, Places

(* An entry without references has no holders. *)
LEMMA NoHolders ==
    ASSUME TypeOK, CountsExact, NEW e \in Entries, refcount[e] = 0
    PROVE  Holders(e) = {} /\ lost[e] = 0
<1>1. 0 = Cardinality(Holders(e)) + lost[e]
  BY CountsSets
<1>2. Cardinality(Holders(e)) \in Nat /\ lost[e] \in Nat /\ IsFiniteSet(Holders(e))
  BY Finite, Types
<1>3. Cardinality(Holders(e)) = 0 /\ lost[e] = 0
  BY <1>1, <1>2
<1> QED
  BY <1>2, <1>3, FS_EmptySet

(* A counter that grew is not zero. *)
LEMMA Grown ==
    ASSUME NEW w \in [Entries -> Nat], NEW e \in Entries, NEW v,
           v = [w EXCEPT ![e] = @ + 1]
    PROVE  /\ v \in [Entries -> Nat]
           /\ v[e] = w[e] + 1 /\ v[e] # 0
           /\ \A f \in Entries : f # e => v[f] = w[f]
           /\ \A f \in Entries : w[f] # 0 => v[f] # 0
OBVIOUS

(* A step sets one value of a function of the processes, or of the entries.  *)
LEMMA SetOne ==
    ASSUME NEW S, NEW T, NEW w \in [S -> T], NEW x \in S, NEW y \in T, NEW v,
           v = [w EXCEPT ![x] = y]
    PROVE  /\ v \in [S -> T] /\ v[x] = y
           /\ \A z \in S : z # x => v[z] = w[z]
OBVIOUS

-----------------------------------------------------------------------------
(* squashfs_cache_get finds the block. *)
LEMMA HitKeepsInv ==
    ASSUME IInv, NEW p \in Processes, NEW b \in Blocks, NEW e \in Entries,
           at[p] \in {"idle", "retry"}, CacheHit(p, b, e),
           want' = [want EXCEPT ![p] = b], quiet' = quiet, lost' = lost,
           waiters' = Cardinality(Waiting \ {p})
    PROVE  IInv'
<1>1. TypeOK /\ CountsExact /\ Flow
  BY DEF IInv
<1>2. refcount[e] = 0 => unused >= 1
  <2> SUFFICES ASSUME refcount[e] = 0 PROVE unused >= 1
    OBVIOUS
  <2>1. Cardinality(Free) # 0
    BY Finite, FS_EmptySet DEF Free
  <2> QED
    BY <1>1, <2>1, CountsSets, Finite
<1>3. waiters' \in Nat
  BY Finite, FS_Subset, FS_CardinalityType
<1>4. /\ \A r \in Processes : r # p =>
           at'[r] = at[r] /\ mine'[r] = mine[r] /\ want'[r] = want[r]
      /\ (pending[e] /\ at'[p] = "wait_fill") \/ (~pending[e] /\ at'[p] = "hold")
      /\ mine'[p] = e /\ want'[p] = b
      /\ block' = block /\ pending' = pending /\ error' = error /\ data' = data
      /\ block[e] = b
  <2>1. /\ at \in [Processes -> Places] /\ mine \in [Processes -> Entries \cup {NoEntry}]
        /\ want \in [Processes -> Blocks \cup {Invalid}]
    BY <1>1, Types
  <2>2. /\ at' = [at EXCEPT ![p] = IF pending[e] THEN "wait_fill" ELSE "hold"]
        /\ mine' = [mine EXCEPT ![p] = e]
        /\ block' = block /\ pending' = pending /\ error' = error /\ data' = data
        /\ block[e] = b
    BY DEF CacheHit, Found
  <2>3. /\ \A r \in Processes : r # p => at'[r] = at[r]
        /\ at'[p] = IF pending[e] THEN "wait_fill" ELSE "hold"
    BY <2>1, <2>2
  <2>4. mine'[p] = e /\ \A r \in Processes : r # p => mine'[r] = mine[r]
    BY <2>1, <2>2
  <2>5. want'[p] = b /\ \A r \in Processes : r # p => want'[r] = want[r]
    BY <2>1
  <2>6. (pending[e] /\ at'[p] = "wait_fill") \/ (~pending[e] /\ at'[p] = "hold")
    BY <2>3
  <2> QED
    BY <2>2, <2>3, <2>4, <2>5, <2>6, Zenon
<1>5. /\ \A f \in Entries : num_waiters[f] # 0 => num_waiters'[f] # 0
      /\ pending[e] => num_waiters'[e] # 0
      /\ num_waiters' \in [Entries -> Nat]
  <2>1. num_waiters' = IF pending[e] THEN [num_waiters EXCEPT ![e] = @ + 1] ELSE num_waiters
    BY DEF CacheHit
  <2>2. CASE pending[e]
    BY <1>1, <2>1, <2>2, Types, Grown
  <2>3. CASE ~pending[e]
    BY <1>1, <2>1, <2>3, Types
  <2> QED
    BY <2>2, <2>3
<1>6. /\ \A f \in Entries : refcount'[f] = IF f = e THEN refcount[f] + 1 ELSE refcount[f]
      /\ refcount' \in [Entries -> Nat]
  <2>1. refcount' = [refcount EXCEPT ![e] = @ + 1]
    BY DEF CacheHit
  <2> QED
    BY <1>1, <2>1, Types, Grown
<1>7. unused' = IF refcount[e] = 0 THEN unused - 1 ELSE unused
  BY DEF CacheHit
<1>8. TypeOK'
  <2>1. unused' \in 0..entries
    BY <1>1, <1>2, <1>7, Types, EntriesAssumption
  <2>2. at' \in [Processes -> Referring \cup {"idle", "wait_free", "sleep_free", "retry", "wake_free"}]
    BY <1>1 DEF TypeOK, CacheHit, Referring
  <2>3. mine' \in [Processes -> Entries \cup {NoEntry}] /\ want' \in [Processes -> Blocks \cup {Invalid}]
    BY <1>1 DEF TypeOK, CacheHit
  <2> QED
    BY <1>1, <1>3, <1>4, <1>5, <1>6, <2>1, <2>2, <2>3 DEF TypeOK, CacheHit
<1>9. CountsExact'
  <2>1. ASSUME NEW f \in Entries PROVE refcount'[f] = Cardinality(Holders(f)') + lost'[f]
    <3>1. CASE f = e
      <4>1. p \notin Holders(e) /\ Holders(e)' = Holders(e) \cup {p}
        BY <1>4 DEF Holders, Referring
      <4> QED
        <5>1. Cardinality(Holders(e)') = Cardinality(Holders(e)) + 1
          BY <4>1, Finite, OneMore
        <5>2. refcount[e] = Cardinality(Holders(e)) + lost[e] /\ refcount'[e] = refcount[e] + 1
          BY <1>1, <1>6, CountsSets
        <5>3. Cardinality(Holders(e)) \in Nat /\ lost[e] \in Nat
          BY <1>1, Finite, Types
        <5> QED
          BY <3>1, <5>1, <5>2, <5>3
    <3>2. CASE f # e
      <4>1. Holders(f)' = Holders(f)
        BY <1>4, <3>2 DEF Holders, Referring
      <4> QED
        BY <1>1, <1>6, <3>2, <4>1, CountsSets
    <3> QED
      BY <3>1, <3>2
  <2>2. unused' = Cardinality(Free')
    <3>0. \A f \in Entries : refcount[f] \in Nat
      BY <1>1 DEF TypeOK
    <3>1. CASE refcount[e] = 0
      <4>1. e \in Free /\ Free' = Free \ {e}
        BY <1>6, <3>0, <3>1 DEF Free
      <4> QED
        BY <1>1, <1>7, <3>1, <4>1, Finite, OneLess, CountsSets
    <3>2. CASE refcount[e] # 0
      <4>1. Free' = Free
        BY <1>6, <3>0, <3>2 DEF Free
      <4> QED
        BY <1>1, <1>7, <3>2, <4>1, CountsSets
    <3> QED
      BY <3>1, <3>2
  <2>3. Waiting' = Waiting \ {p}
    BY <1>4 DEF Waiting
  <2> QED
    BY <2>1, <2>2, <2>3 DEF CountsExact, Free, Waiting
<1>10. Flow'
  <2> USE DEF Referring
  <2>1. Refs' /\ RightBlock'
    BY <1>1, <1>4 DEF Flow, Refs, RightBlock
  <2>2. OneEntry' /\ DataThere'
    BY <1>1, <1>4 DEF Flow, OneEntry, DataThere
  <2>3. PendingFilled'
    <3> SUFFICES ASSUME NEW f \in Entries, pending'[f]
                 PROVE  \E q \in Processes : at'[q] = "fill" /\ mine'[q] = f
      BY DEF PendingFilled
    <3>1. PICK q \in Processes : at[q] = "fill" /\ mine[q] = f
      BY <1>1, <1>4 DEF Flow, PendingFilled
    <3> QED
      BY <1>4, <3>1
  <2>4. FillPending'
    BY <1>1, <1>4 DEF Flow, FillPending
  <2>4a. OneFiller'
    <3>1. \A r \in Processes : at'[r] = "fill" => at[r] = "fill" /\ mine'[r] = mine[r]
      BY <1>4
    <3> QED
      BY <1>1, <3>1 DEF Flow, OneFiller
  <2>5. HeldReady'
    BY <1>1, <1>4 DEF Flow, HeldReady
  <2>6. WaitersCounted'
    BY <1>1, <1>4, <1>5 DEF Flow, WaitersCounted, Refs
  <2>7. FreeWakeup'
    <3>1. unused' # 0 => unused # 0
      BY <1>1, <1>2, <1>7, Types
    <3> QED
      BY <1>1, <1>4, <3>1 DEF Flow, FreeWakeup
  <2>8. FillWakeup'
    <3> SUFFICES ASSUME NEW r \in Processes, at'[r] = "sleep_fill"
                 PROVE  \E q \in Processes : /\ mine'[q] = mine'[r]
                                             /\ \/ at'[q] = "fill" /\ num_waiters'[mine'[r]] # 0
                                                \/ at'[q] = "wake_fill"
      BY DEF FillWakeup
    <3>1. r # p /\ at[r] = "sleep_fill" /\ mine[r] \in Entries /\ mine'[r] = mine[r]
      BY <1>1, <1>4 DEF Flow, Refs
    <3>2. PICK q \in Processes : /\ mine[q] = mine[r]
                                /\ \/ at[q] = "fill" /\ num_waiters[mine[r]] # 0
                                   \/ at[q] = "wake_fill"
      BY <1>1, <3>1 DEF Flow, FillWakeup
    <3> QED
      BY <1>4, <1>5, <3>1, <3>2
  <2> QED
    BY <2>1, <2>2, <2>3, <2>4, <2>4a, <2>5, <2>6, <2>7, <2>8 DEF Flow
<1> QED
  BY <1>8, <1>9, <1>10 DEF IInv

(* squashfs_cache_get takes an unused entry for the block. *)
LEMMA MissKeepsInv ==
    ASSUME IInv, NEW p \in Processes, NEW b \in Blocks, NEW e \in Entries,
           at[p] \in {"idle", "retry"}, CacheMiss(p, b, e),
           want' = [want EXCEPT ![p] = b], quiet' = quiet, lost' = lost,
           waiters' = Cardinality(Waiting \ {p})
    PROVE  IInv'
<1>1. TypeOK /\ CountsExact /\ Flow
  BY DEF IInv
<1>2. refcount[e] = 0 /\ unused # 0 /\ lost[e] = 0
  <2>1. refcount[e] = 0 /\ unused # 0
    BY <1>1, VictimUnused DEF CacheMiss
  <2> QED
    BY <1>1, <2>1, NoHolders
<1>3. \A r \in Processes : at[r] \in Referring => mine[r] \in Entries /\ mine[r] # e
  <2>1. Holders(e) = {}
    BY <1>1, <1>2, NoHolders
  <2> QED
    BY <1>1, <2>1 DEF Holders, Flow, Refs
<1>4. waiters' \in Nat
  BY Finite, FS_Subset, FS_CardinalityType
<1>5. /\ at' \in [Processes -> Places] /\ at'[p] = "fill"
      /\ \A r \in Processes : r # p => at'[r] = at[r]
  <2>1. at' = [at EXCEPT ![p] = "fill"] /\ "fill" \in Places
    BY DEF CacheMiss, Places, Referring
  <2> QED
    BY <1>1, <2>1, Types, SetOne
<1>6. /\ mine' \in [Processes -> Entries \cup {NoEntry}] /\ mine'[p] = e
      /\ \A r \in Processes : r # p => mine'[r] = mine[r]
  <2>1. mine' = [mine EXCEPT ![p] = e]
    BY DEF CacheMiss
  <2> QED
    BY <1>1, <2>1, Types
<1>7. /\ want' \in [Processes -> Blocks \cup {Invalid}] /\ want'[p] = b
      /\ \A r \in Processes : r # p => want'[r] = want[r]
  BY <1>1, Types
<1>8. /\ block' \in [Entries -> Blocks \cup {Invalid}] /\ block'[e] = b
      /\ \A f \in Entries : f # e => block'[f] = block[f] /\ block[f] # b
  <2>1. block' = [block EXCEPT ![e] = b] /\ \A f \in Entries : block[f] # b
    BY DEF CacheMiss, Missing
  <2> QED
    BY <1>1, <2>1, Types
<1>9. /\ refcount' \in [Entries -> Nat] /\ refcount'[e] = 1
      /\ \A f \in Entries : f # e => refcount'[f] = refcount[f]
  <2>1. refcount' = [refcount EXCEPT ![e] = 1]
    BY DEF CacheMiss
  <2> QED
    BY <1>1, <2>1, Types
<1>10. /\ pending' \in [Entries -> BOOLEAN] /\ pending'[e]
       /\ \A f \in Entries : f # e => pending'[f] = pending[f]
  <2>1. pending' = [pending EXCEPT ![e] = TRUE]
    BY DEF CacheMiss
  <2> QED
    BY <1>1, <2>1, Types
<1>11. /\ error' \in [Entries -> BOOLEAN]
       /\ \A f \in Entries : f # e => error'[f] = error[f]
  <2>1. error' = [error EXCEPT ![e] = FALSE]
    BY DEF CacheMiss
  <2> QED
    BY <1>1, <2>1, Types
<1>12. /\ data' \in [Entries -> Blocks \cup {Invalid}]
       /\ \A f \in Entries : f # e => data'[f] = data[f]
  <2>1. data' = [data EXCEPT ![e] = Invalid]
    BY DEF CacheMiss
  <2> QED
    BY <1>1, <2>1, Types
<1>13. /\ num_waiters' \in [Entries -> Nat]
       /\ \A f \in Entries : f # e => num_waiters'[f] = num_waiters[f]
  <2>1. num_waiters' = [num_waiters EXCEPT ![e] = 0]
    BY DEF CacheMiss
  <2> QED
    BY <1>1, <2>1, Types
<1>14. unused' = unused - 1 /\ next_blk' = (e + 1) % entries
  BY DEF CacheMiss
<1>15. TypeOK'
  <2>1. unused' \in 0..entries
    BY <1>1, <1>2, <1>14, Types, EntriesAssumption
  <2>2. next_blk' \in Entries
    BY <1>14, EntriesAssumption DEF Entries
  <2>3. quiet' \in BOOLEAN /\ lost' \in [Entries -> Nat]
    BY <1>1 DEF TypeOK
  <2> QED
    BY <1>4, <1>5, <1>6, <1>7, <1>8, <1>9, <1>10, <1>11, <1>12, <1>13, <2>1, <2>2, <2>3
    DEF TypeOK, Places
<1>16. CountsExact'
  <2>1. ASSUME NEW f \in Entries PROVE refcount'[f] = Cardinality(Holders(f)') + lost'[f]
    <3>1. CASE f = e
      <4>1. Holders(e)' = {p}
        BY <1>3, <1>5, <1>6 DEF Holders, Referring
      <4> QED
        <5>1. Cardinality(Holders(e)') = 1
          BY <4>1, FS_Singleton
        <5>2. refcount'[e] = 1 /\ lost'[e] = 0
          BY <1>2, <1>9
        <5> QED
          BY <3>1, <5>1, <5>2
    <3>2. CASE f # e
      <4>1. Holders(f)' = Holders(f)
        BY <1>5, <1>6, <3>2 DEF Holders, Referring
      <4> QED
        BY <1>1, <1>9, <3>2, <4>1, CountsSets
    <3> QED
      BY <3>1, <3>2
  <2>2. unused' = Cardinality(Free')
    <3>1. e \in Free /\ Free' = Free \ {e}
      BY <1>2, <1>9 DEF Free
    <3> QED
      BY <1>1, <1>14, <3>1, Finite, OneLess, CountsSets
  <2>3. Waiting' = Waiting \ {p}
    BY <1>5 DEF Waiting
  <2> QED
    BY <2>1, <2>2, <2>3 DEF CountsExact, Free, Waiting
<1>17. Flow'
  <2> USE DEF Referring
  <2>1. Refs'
    BY <1>1, <1>5, <1>6, <1>7 DEF Flow, Refs
  <2>0. ASSUME NEW r \in Processes, r # p, at'[r] \in Referring
        PROVE  /\ at'[r] = at[r] /\ at[r] \in Referring
               /\ mine'[r] = mine[r] /\ want'[r] = want[r]
               /\ block'[mine'[r]] = block[mine[r]] /\ pending'[mine'[r]] = pending[mine[r]]
               /\ num_waiters'[mine'[r]] = num_waiters[mine[r]]
    <3>1. at'[r] = at[r] /\ mine'[r] = mine[r] /\ want'[r] = want[r]
      BY <1>5, <1>6, <1>7, <2>0
    <3>2. mine[r] \in Entries /\ mine[r] # e
      BY <1>3, <2>0, <3>1
    <3>3. /\ block'[mine[r]] = block[mine[r]] /\ pending'[mine[r]] = pending[mine[r]]
          /\ num_waiters'[mine[r]] = num_waiters[mine[r]]
      BY <1>8, <1>10, <1>13, <3>2, Zenon
    <3> QED
      BY <2>0, <3>1, <3>3
  <2>2. RightBlock'
    <3> SUFFICES ASSUME NEW r \in Processes, at'[r] \in Referring
                 PROVE  block'[mine'[r]] = want'[r]
      BY DEF RightBlock
    <3>1. CASE r = p
      BY <1>6, <1>7, <1>8, <3>1
    <3>2. CASE r # p
      <4>1. /\ at[r] \in Referring /\ want'[r] = want[r]
            /\ block'[mine'[r]] = block[mine[r]]
        BY <2>0, <3>2
      <4> QED
        BY <1>1, <4>1 DEF Flow, RightBlock
    <3> QED
      BY <3>1, <3>2
  <2>3. OneEntry'
    BY <1>1, <1>8 DEF Flow, OneEntry
  <2>4. DataThere'
    BY <1>1, <1>8, <1>10, <1>11, <1>12 DEF Flow, DataThere
  <2>5. PendingFilled'
    <3> SUFFICES ASSUME NEW f \in Entries, pending'[f], f # e
                 PROVE  \E q \in Processes : at'[q] = "fill" /\ mine'[q] = f
      BY <1>5, <1>6 DEF PendingFilled
    <3>1. PICK q \in Processes : at[q] = "fill" /\ mine[q] = f
      BY <1>1, <1>10 DEF Flow, PendingFilled
    <3> QED
      BY <1>5, <1>6, <3>1
  <2>6. FillPending'
    <3> SUFFICES ASSUME NEW r \in Processes, at'[r] = "fill" PROVE pending'[mine'[r]]
      BY DEF FillPending
    <3>1. CASE r = p
      BY <1>6, <1>10, <3>1
    <3>2. CASE r # p
      <4>1. at[r] = "fill" /\ pending'[mine'[r]] = pending[mine[r]]
        BY <2>0, <3>2
      <4> QED
        BY <1>1, <4>1 DEF Flow, FillPending
    <3> QED
      BY <3>1, <3>2
  <2>7. OneFiller'
    <3> SUFFICES ASSUME NEW q \in Processes, NEW r \in Processes, at'[q] = "fill",
                        at'[r] = "fill", mine'[q] = mine'[r]
                 PROVE  q = r
      BY DEF OneFiller
    <3>1. \A s \in Processes : s # p /\ at'[s] = "fill" =>
             at[s] = "fill" /\ mine'[s] = mine[s] /\ mine[s] # e
      BY <1>3, <1>5, <1>6
    <3>2. q = p <=> r = p
      BY <1>6, <3>1
    <3>3. CASE q # p
      BY <1>1, <3>1, <3>2, <3>3 DEF Flow, OneFiller
    <3> QED
      BY <3>2, <3>3
  <2>8. WaitersCounted'
    <3> SUFFICES ASSUME NEW r \in Processes, at'[r] \in {"wait_fill", "sleep_fill"},
                        pending'[mine'[r]]
                 PROVE  num_waiters'[mine'[r]] # 0
      BY DEF WaitersCounted
    <3>1. r # p
      BY <1>5
    <3>2. /\ at'[r] = at[r] /\ pending'[mine'[r]] = pending[mine[r]]
          /\ num_waiters'[mine'[r]] = num_waiters[mine[r]]
      BY <2>0, <3>1, Zenon
    <3> QED
      BY <1>1, <3>2 DEF Flow, WaitersCounted
  <2>9. HeldReady'
    <3> SUFFICES ASSUME NEW r \in Processes, at'[r] \in {"hold", "wake_fill"}
                 PROVE  ~pending'[mine'[r]]
      BY DEF HeldReady
    <3>1. r # p
      BY <1>5
    <3>2. at'[r] = at[r] /\ pending'[mine'[r]] = pending[mine[r]]
      BY <2>0, <3>1
    <3> QED
      BY <1>1, <3>2 DEF Flow, HeldReady
  <2>10. FreeWakeup'
    BY <1>1, <1>2, <1>5 DEF Flow, FreeWakeup
  <2>11. FillWakeup'
    <3> SUFFICES ASSUME NEW r \in Processes, at'[r] = "sleep_fill"
                 PROVE  \E q \in Processes : /\ mine'[q] = mine'[r]
                                             /\ \/ at'[q] = "fill" /\ num_waiters'[mine'[r]] # 0
                                                \/ at'[q] = "wake_fill"
      BY DEF FillWakeup
    <3>1. r # p /\ at[r] = "sleep_fill" /\ mine[r] \in Entries /\ mine[r] # e /\ mine'[r] = mine[r]
      BY <1>3, <1>5, <1>6
    <3>2. PICK q \in Processes : /\ mine[q] = mine[r]
                                /\ \/ at[q] = "fill" /\ num_waiters[mine[r]] # 0
                                   \/ at[q] = "wake_fill"
      BY <1>1, <3>1 DEF Flow, FillWakeup
    <3> QED
      BY <1>5, <1>6, <1>13, <3>1, <3>2
  <2> QED
    BY <2>1, <2>2, <2>3, <2>4, <2>5, <2>6, <2>7, <2>8, <2>9, <2>10, <2>11 DEF Flow
<1> QED
  BY <1>15, <1>16, <1>17 DEF IInv

(* Arithmetic of one reference changing hands. *)
LEMMA MinusPlus ==
    ASSUME NEW c \in Nat, NEW l \in Nat
    PROVE  /\ (c + l) - 1 = (c - 1) + l
           /\ c + l = (c - 1) + (l + 1)
OBVIOUS

(* Arithmetic: the successor of a number is a number. *)
LEMMA SuccNat == \A n \in Nat : n + 1 \in Nat
OBVIOUS

(* A step that leaves the references and the waiters as they are. *)
LEMMA CountsKept ==
    ASSUME CountsExact, refcount' = refcount, unused' = unused, waiters' = waiters,
           lost' = lost,
           \A r \in Processes : /\ at'[r] \in Referring <=> at[r] \in Referring
                                /\ at[r] \in Referring => mine'[r] = mine[r],
           Waiting' = Waiting
    PROVE  CountsExact'
<1>1. \A e : Holders(e)' = Holders(e)
  BY DEF Holders
<1>2. Free' = Free
  BY DEF Free
<1> QED
  BY <1>1, <1>2, CountsSets DEF CountsExact, Free, Waiting

(* A step after which nobody sleeps anew for a block, and nobody who reads   *)
(* one or is about to wake up others has gone.                               *)
LEMMA SleepersKept ==
    ASSUME FillWakeup, num_waiters' = num_waiters,
           \A r \in Processes : at'[r] = "sleep_fill" => at[r] = "sleep_fill" /\ mine'[r] = mine[r],
           \A q \in Processes : at[q] \in {"fill", "wake_fill"} => at'[q] = at[q] /\ mine'[q] = mine[q]
    PROVE  FillWakeup'
<1> SUFFICES ASSUME NEW r \in Processes, at'[r] = "sleep_fill"
             PROVE  \E q \in Processes : /\ mine'[q] = mine'[r]
                                         /\ \/ at'[q] = "fill" /\ num_waiters'[mine'[r]] # 0
                                            \/ at'[q] = "wake_fill"
  BY DEF FillWakeup
<1>1. PICK q \in Processes : /\ mine[q] = mine[r]
                            /\ \/ at[q] = "fill" /\ num_waiters[mine[r]] # 0
                               \/ at[q] = "wake_fill"
  BY DEF FillWakeup
<1> QED
  BY <1>1

(* A step that moves processes and changes nothing else. *)
LEMMA MoveKeepsInv ==
    ASSUME IInv, UNCHANGED <<entryVars, cacheVars, want, mine, lost, quiet>>,
           at' \in [Processes -> Places], Waiting' = Waiting,
           \A r \in Processes : /\ at'[r] \in Referring <=> at[r] \in Referring
                                /\ at'[r] = "fill" <=> at[r] = "fill",
           \A r \in Processes : at'[r] \notin {"idle", "wake_free"} => at[r] \notin {"idle", "wake_free"},
           \A r \in Processes : at'[r] \in {"wait_fill", "sleep_fill"} => at[r] \in {"wait_fill", "sleep_fill"},
           HeldReady', FreeWakeup', FillWakeup'
    PROVE  IInv'
<1>1. TypeOK /\ CountsExact /\ Flow
  BY DEF IInv
<1>2. /\ block' = block /\ refcount' = refcount /\ pending' = pending /\ num_waiters' = num_waiters
      /\ error' = error /\ data' = data /\ unused' = unused /\ waiters' = waiters
      /\ want' = want /\ mine' = mine /\ lost' = lost
  BY DEF entryVars, cacheVars
<1>3. TypeOK'
  <2>1. next_blk' = next_blk /\ quiet' = quiet /\ lost' = lost
    BY DEF cacheVars
  <2> QED
    BY <1>1, <1>2, <2>1, Zenon DEF TypeOK, Places
<1>4. CountsExact'
  BY <1>1, <1>2, CountsKept
<1>5. Refs' /\ RightBlock'
  BY <1>1, <1>2 DEF Flow, Refs, RightBlock
<1>6. OneEntry' /\ DataThere'
  BY <1>1, <1>2 DEF Flow, OneEntry, DataThere
<1>7. PendingFilled' /\ FillPending' /\ OneFiller'
  <2>1. PendingFilled'
    <3> SUFFICES ASSUME NEW f \in Entries, pending'[f]
                 PROVE  \E q \in Processes : at'[q] = "fill" /\ mine'[q] = f
      BY DEF PendingFilled
    <3>1. PICK q \in Processes : at[q] = "fill" /\ mine[q] = f
      BY <1>1, <1>2 DEF Flow, PendingFilled
    <3> QED
      BY <1>2, <3>1
  <2>2. FillPending'
    BY <1>1, <1>2 DEF Flow, FillPending
  <2>3. OneFiller'
    BY <1>1, <1>2 DEF Flow, OneFiller
  <2> QED
    BY <2>1, <2>2, <2>3
<1>8. WaitersCounted'
  BY <1>1, <1>2 DEF Flow, WaitersCounted
<1> QED
  BY <1>3, <1>4, <1>5, <1>6, <1>7, <1>8 DEF IInv, Flow

(* squashfs_cache_get finds no entry to use and counts itself a waiter. *)
LEMMA FullKeepsInv ==
    ASSUME IInv, NEW p \in Processes, NEW b \in Blocks,
           at[p] \in {"idle", "retry"}, unused = 0,
           at' = [at EXCEPT ![p] = "wait_free"],
           want' = [want EXCEPT ![p] = b], quiet' = quiet, lost' = lost,
           waiters' = Cardinality(Waiting \ {p}) + 1,
           UNCHANGED <<entryVars, unused, next_blk, mine>>
    PROVE  IInv'
<1>1. TypeOK /\ CountsExact /\ Flow
  BY DEF IInv
<1>2. /\ block' = block /\ refcount' = refcount /\ pending' = pending /\ num_waiters' = num_waiters
      /\ error' = error /\ data' = data /\ unused' = unused /\ mine' = mine /\ next_blk' = next_blk
  BY DEF entryVars
<1>3. /\ at' \in [Processes -> Places] /\ at'[p] = "wait_free"
      /\ \A r \in Processes : r # p => at'[r] = at[r]
  <2>1. "wait_free" \in Places
    BY DEF Places
  <2> QED
    BY <1>1, <2>1, Types, SetOne
<1>4. /\ want' \in [Processes -> Blocks \cup {Invalid}] /\ want'[p] = b
      /\ \A r \in Processes : r # p => want'[r] = want[r]
  BY <1>1, Types
<1>5. IsFiniteSet(Waiting \ {p}) /\ waiters' \in Nat
  <2>1. IsFiniteSet(Waiting \ {p})
    BY Finite, FS_Subset
  <2>2. Cardinality(Waiting \ {p}) \in Nat
    BY <2>1, FS_CardinalityType
  <2> QED
    BY <2>1, <2>2, SuccNat, Zenon
<1>6. TypeOK'
  BY <1>1, <1>2, <1>3, <1>4, <1>5, ZenonT(60) DEF TypeOK, Places
<1>7. CountsExact'
  <2>1. \A e : Holders(e)' = Holders(e)
    BY <1>2, <1>3 DEF Holders, Referring
  <2>2. Free' = Free
    BY <1>2 DEF Free
  <2>3. Waiting' = (Waiting \ {p}) \cup {p}
    BY <1>3 DEF Waiting
  <2>4. waiters' = Cardinality(Waiting')
    BY <1>5, <2>3, OneMore
  <2> QED
    BY <1>1, <1>2, <2>1, <2>2, <2>4, CountsSets DEF CountsExact, Free, Waiting
<1>8. \A r \in Processes : at'[r] \in Referring =>
         r # p /\ at'[r] = at[r] /\ mine'[r] = mine[r] /\ want'[r] = want[r]
  BY <1>2, <1>3, <1>4 DEF Referring
<1>9. Flow'
  <2> USE DEF Referring
  <2>1. Refs'
    BY <1>1, <1>2, <1>3, <1>4 DEF Flow, Refs
  <2>2. RightBlock'
    BY <1>1, <1>2, <1>8 DEF Flow, RightBlock
  <2>2a. OneEntry' /\ DataThere'
    BY <1>1, <1>2, ZenonT(60) DEF Flow, OneEntry, DataThere
  <2>3. PendingFilled'
    BY <1>1, <1>2, <1>3 DEF Flow, PendingFilled
  <2>4. FillPending'
    BY <1>1, <1>2, <1>8 DEF Flow, FillPending
  <2>4a. OneFiller'
    <3>1. \A r \in Processes : at'[r] = "fill" => at[r] = "fill" /\ mine'[r] = mine[r]
      BY <1>8
    <3> QED
      BY <1>1, <3>1 DEF Flow, OneFiller
  <2>5. WaitersCounted'
    BY <1>1, <1>2, <1>8 DEF Flow, WaitersCounted
  <2>5a. HeldReady'
    BY <1>1, <1>2, <1>8 DEF Flow, HeldReady
  <2>6. FreeWakeup'
    BY <1>2 DEF FreeWakeup
  <2>7. FillWakeup'
    <3>1. \A r \in Processes : at'[r] = "sleep_fill" => at[r] = "sleep_fill" /\ mine'[r] = mine[r]
      BY <1>8
    <3>2. \A q \in Processes : at[q] \in {"fill", "wake_fill"} => at'[q] = at[q] /\ mine'[q] = mine[q]
      BY <1>2, <1>3
    <3> QED
      BY <1>1, <1>2, <3>1, <3>2, SleepersKept DEF Flow
  <2> QED
    BY <2>1, <2>2, <2>2a, <2>3, <2>4, <2>4a, <2>5, <2>5a, <2>6, <2>7 DEF Flow
<1> QED
  BY <1>6, <1>7, <1>9 DEF IInv

(* The tests of wait_event. *)
LEMMA WaitFreeKeepsInv ==
    ASSUME IInv, NEW p \in Processes, WaitFree(p)
    PROVE  IInv'
<1>1. TypeOK /\ CountsExact /\ Flow
  BY DEF IInv
<1>2. UNCHANGED <<entryVars, cacheVars, want, mine, lost, quiet>> /\ at[p] = "wait_free"
  BY DEF WaitFree
<1>3. /\ at' \in [Processes -> Places] /\ at'[p] = IF unused # 0 THEN "retry" ELSE "sleep_free"
      /\ \A r \in Processes : r # p => at'[r] = at[r]
  <2>1. (IF unused # 0 THEN "retry" ELSE "sleep_free") \in Places
    BY DEF Places
  <2>2. at' = [at EXCEPT ![p] = IF unused # 0 THEN "retry" ELSE "sleep_free"]
    BY DEF WaitFree
  <2> QED
    BY <1>1, <2>1, <2>2, Types, SetOne
<1>4. /\ pending' = pending /\ num_waiters' = num_waiters /\ unused' = unused /\ mine' = mine
  BY <1>2 DEF entryVars, cacheVars
<1>6. Waiting' = Waiting
  BY <1>2, <1>3 DEF Waiting
<1>7. \A r \in Processes : /\ at'[r] \in Referring <=> at[r] \in Referring
                           /\ at'[r] = "fill" <=> at[r] = "fill"
  BY <1>2, <1>3 DEF Referring
<1>8. \A r \in Processes :
         /\ at'[r] \notin {"idle", "wake_free"} => at[r] \notin {"idle", "wake_free"}
         /\ at'[r] \in {"wait_fill", "sleep_fill"} => at[r] \in {"wait_fill", "sleep_fill"}
  BY <1>2, <1>3
<1>9. HeldReady'
  BY <1>1, <1>3, <1>4 DEF Flow, HeldReady
<1>10. FreeWakeup'
  <2> SUFFICES ASSUME NEW r \in Processes, at'[r] = "sleep_free", unused # 0
               PROVE  \E q \in Processes : at'[q] = "wake_free"
    BY <1>4 DEF FreeWakeup
  <2>1. r # p /\ at[r] = "sleep_free"
    BY <1>3
  <2>2. PICK q \in Processes : at[q] = "wake_free"
    BY <1>1, <2>1 DEF Flow, FreeWakeup
  <2> QED
    BY <1>2, <1>3, <2>2
<1>11. FillWakeup'
  <2>1. \A r \in Processes : at'[r] = "sleep_fill" => at[r] = "sleep_fill" /\ mine'[r] = mine[r]
    BY <1>3, <1>4
  <2>2. \A q \in Processes : at[q] \in {"fill", "wake_fill"} => at'[q] = at[q] /\ mine'[q] = mine[q]
    BY <1>2, <1>3, <1>4
  <2> QED
    BY <1>1, <1>4, <2>1, <2>2, SleepersKept DEF Flow
<1> QED
  BY <1>2, <1>3, <1>6, <1>7, <1>8, <1>9, <1>10, <1>11, MoveKeepsInv

(* Waiting for an entry to be filled keeps the invariant. *)
LEMMA WaitFillKeepsInv ==
    ASSUME IInv, NEW p \in Processes, WaitFill(p)
    PROVE  IInv'
<1>1. TypeOK /\ CountsExact /\ Flow
  BY DEF IInv
<1>2. UNCHANGED <<entryVars, cacheVars, want, mine, lost, quiet>> /\ at[p] = "wait_fill"
  BY DEF WaitFill
<1>3. /\ at' \in [Processes -> Places]
      /\ \/ pending[mine[p]] /\ at'[p] = "sleep_fill"
         \/ ~pending[mine[p]] /\ at'[p] = "hold"
      /\ \A r \in Processes : r # p => at'[r] = at[r]
  <2>1. "sleep_fill" \in Places /\ "hold" \in Places
    BY DEF Places, Referring
  <2>2. at' = [at EXCEPT ![p] = IF pending[mine[p]] THEN "sleep_fill" ELSE "hold"]
    BY DEF WaitFill
  <2> QED
    BY <1>1, <2>1, <2>2, Types, SetOne
<1>4. /\ pending' = pending /\ num_waiters' = num_waiters /\ unused' = unused /\ mine' = mine
  BY <1>2 DEF entryVars, cacheVars
<1>6. Waiting' = Waiting
  BY <1>2, <1>3, Zenon DEF Waiting
<1>7. \A r \in Processes : /\ at'[r] \in Referring <=> at[r] \in Referring
                           /\ at'[r] = "fill" <=> at[r] = "fill"
  BY <1>2, <1>3 DEF Referring
<1>8. \A r \in Processes :
         /\ at'[r] \notin {"idle", "wake_free"} => at[r] \notin {"idle", "wake_free"}
         /\ at'[r] \in {"wait_fill", "sleep_fill"} => at[r] \in {"wait_fill", "sleep_fill"}
  BY <1>2, <1>3
<1>9. HeldReady'
  <2> SUFFICES ASSUME NEW r \in Processes, at'[r] \in {"hold", "wake_fill"}
               PROVE  ~pending[mine[r]]
    BY <1>4 DEF HeldReady
  <2> QED
    BY <1>1, <1>3 DEF Flow, HeldReady
<1>10. FreeWakeup'
  <2> SUFFICES ASSUME NEW r \in Processes, at'[r] = "sleep_free", unused # 0
               PROVE  \E q \in Processes : at'[q] = "wake_free"
    BY <1>4 DEF FreeWakeup
  <2>1. at[r] = "sleep_free"
    BY <1>3
  <2>2. PICK q \in Processes : at[q] = "wake_free"
    BY <1>1, <2>1 DEF Flow, FreeWakeup
  <2> QED
    BY <1>2, <1>3, <2>2
<1>11. FillWakeup'
  <2> SUFFICES ASSUME NEW r \in Processes, at'[r] = "sleep_fill"
               PROVE  \E q \in Processes : /\ mine[q] = mine[r]
                                           /\ \/ at'[q] = "fill" /\ num_waiters[mine[r]] # 0
                                              \/ at'[q] = "wake_fill"
    BY <1>4 DEF FillWakeup
  <2>1. CASE r = p
    <3>1. pending[mine[p]] /\ mine[p] \in Entries
      BY <1>1, <1>2, <1>3, <2>1 DEF Flow, Refs, Referring
    <3>2. num_waiters[mine[p]] # 0
      BY <1>1, <1>2, <3>1 DEF Flow, WaitersCounted
    <3>3. PICK q \in Processes : at[q] = "fill" /\ mine[q] = mine[p]
      BY <1>1, <3>1 DEF Flow, PendingFilled
    <3> QED
      BY <1>2, <1>3, <2>1, <3>2, <3>3
  <2>2. CASE r # p
    <3>1. PICK q \in Processes : /\ mine[q] = mine[r]
                                 /\ \/ at[q] = "fill" /\ num_waiters[mine[r]] # 0
                                    \/ at[q] = "wake_fill"
      BY <1>1, <1>3, <2>2 DEF Flow, FillWakeup
    <3> QED
      BY <1>2, <1>3, <3>1
  <2> QED
    BY <2>1, <2>2
<1> QED
  BY <1>2, <1>3, <1>6, <1>7, <1>8, <1>9, <1>10, <1>11, MoveKeepsInv

(* The wakeups, which the tests follow. *)
LEMMA WakeFillKeepsInv ==
    ASSUME IInv, NEW p \in Processes, WakeFill(p)
    PROVE  IInv'
<1>1. TypeOK /\ CountsExact /\ Flow
  BY DEF IInv
<1>2. UNCHANGED <<entryVars, cacheVars, want, mine, lost, quiet>> /\ at[p] = "wake_fill"
  BY DEF WakeFill
<1>3. /\ at' \in [Processes -> Places] /\ at'[p] = "hold"
      /\ \A r \in Processes : r # p /\ at[r] = "sleep_fill" /\ mine[r] = mine[p] => at'[r] = "wait_fill"
      /\ \A r \in Processes : r # p /\ ~(at[r] = "sleep_fill" /\ mine[r] = mine[p]) => at'[r] = at[r]
  <2>1. "wait_fill" \in Places /\ "hold" \in Places
    BY DEF Places, Referring
  <2>2. at' = [q \in Processes |-> IF q = p THEN "hold"
                                   ELSE IF q \in SleepFill(mine[p]) THEN "wait_fill" ELSE at[q]]
    BY DEF WakeFill
  <2>3. \A q \in Processes : q \in SleepFill(mine[p]) <=> at[q] = "sleep_fill" /\ mine[q] = mine[p]
    BY DEF SleepFill
  <2>4. at \in [Processes -> Places]
    BY <1>1, Types
  <2> QED
    BY <2>1, <2>2, <2>3, <2>4
<1>4. /\ pending' = pending /\ num_waiters' = num_waiters /\ unused' = unused /\ mine' = mine
  BY <1>2 DEF entryVars, cacheVars
<1>5. \A r \in Processes : \/ at'[r] = at[r] /\ r # p
                           \/ at[r] = "sleep_fill" /\ at'[r] = "wait_fill"
                           \/ r = p /\ at[r] = "wake_fill" /\ at'[r] = "hold"
  BY <1>2, <1>3
<1>6. Waiting' = Waiting
  BY <1>5 DEF Waiting
<1>7. \A r \in Processes : /\ at'[r] \in Referring <=> at[r] \in Referring
                           /\ at'[r] = "fill" <=> at[r] = "fill"
  BY <1>5 DEF Referring
<1>8. \A r \in Processes :
         /\ at'[r] \notin {"idle", "wake_free"} => at[r] \notin {"idle", "wake_free"}
         /\ at'[r] \in {"wait_fill", "sleep_fill"} => at[r] \in {"wait_fill", "sleep_fill"}
  BY <1>5
<1>9. HeldReady'
  <2> SUFFICES ASSUME NEW r \in Processes, at'[r] \in {"hold", "wake_fill"}
               PROVE  ~pending[mine[r]]
    BY <1>4 DEF HeldReady
  <2>1. at[r] \in {"hold", "wake_fill"}
    BY <1>5
  <2> QED
    BY <1>1, <2>1 DEF Flow, HeldReady
<1>10. FreeWakeup'
  <2> SUFFICES ASSUME NEW r \in Processes, at'[r] = "sleep_free", unused # 0
               PROVE  \E q \in Processes : at'[q] = "wake_free"
    BY <1>4 DEF FreeWakeup
  <2>1. at[r] = "sleep_free"
    BY <1>5
  <2>2. PICK q \in Processes : at[q] = "wake_free"
    BY <1>1, <2>1 DEF Flow, FreeWakeup
  <2> QED
    BY <1>5, <2>2
<1>11. FillWakeup'
  <2> SUFFICES ASSUME NEW r \in Processes, at'[r] = "sleep_fill"
               PROVE  \E q \in Processes : /\ mine[q] = mine[r]
                                           /\ \/ at'[q] = "fill" /\ num_waiters[mine[r]] # 0
                                              \/ at'[q] = "wake_fill"
    BY <1>4 DEF FillWakeup
  <2>1. at[r] = "sleep_fill" /\ mine[r] # mine[p]
    BY <1>3
  <2>2. PICK q \in Processes : /\ mine[q] = mine[r]
                               /\ \/ at[q] = "fill" /\ num_waiters[mine[r]] # 0
                                  \/ at[q] = "wake_fill"
    BY <1>1, <2>1 DEF Flow, FillWakeup
  <2> QED
    BY <1>5, <2>1, <2>2
<1> QED
  BY <1>2, <1>3, <1>6, <1>7, <1>8, <1>9, <1>10, <1>11, MoveKeepsInv

(* Waking up for a free entry keeps the invariant. *)
LEMMA WakeFreeKeepsInv ==
    ASSUME IInv, NEW p \in Processes, WakeFree(p)
    PROVE  IInv'
<1>1. TypeOK /\ CountsExact /\ Flow
  BY DEF IInv
<1>2. UNCHANGED <<entryVars, cacheVars, want, mine, lost, quiet>> /\ at[p] = "wake_free"
  BY DEF WakeFree
<1>3. /\ at' \in [Processes -> Places] /\ at'[p] = "idle"
      /\ \A r \in Processes : r # p /\ at[r] = "sleep_free" => at'[r] = "wait_free"
      /\ \A r \in Processes : r # p /\ at[r] # "sleep_free" => at'[r] = at[r]
  <2>1. "wait_free" \in Places /\ "idle" \in Places
    BY DEF Places
  <2>2. at' = [q \in Processes |-> IF q = p THEN "idle"
                                   ELSE IF q \in SleepFree THEN "wait_free" ELSE at[q]]
    BY DEF WakeFree
  <2>3. \A q \in Processes : q \in SleepFree <=> at[q] = "sleep_free"
    BY DEF SleepFree
  <2>4. at \in [Processes -> Places]
    BY <1>1, Types
  <2> QED
    BY <2>1, <2>2, <2>3, <2>4
<1>4. /\ pending' = pending /\ num_waiters' = num_waiters /\ unused' = unused /\ mine' = mine
  BY <1>2 DEF entryVars, cacheVars
<1>5. \A r \in Processes : \/ at'[r] = at[r] /\ r # p /\ at[r] # "sleep_free"
                           \/ at[r] = "sleep_free" /\ at'[r] = "wait_free"
                           \/ r = p /\ at[r] = "wake_free" /\ at'[r] = "idle"
  BY <1>2, <1>3
<1>6. Waiting' = Waiting
  BY <1>5 DEF Waiting
<1>7. \A r \in Processes : /\ at'[r] \in Referring <=> at[r] \in Referring
                           /\ at'[r] = "fill" <=> at[r] = "fill"
  BY <1>5 DEF Referring
<1>8. \A r \in Processes :
         /\ at'[r] \notin {"idle", "wake_free"} => at[r] \notin {"idle", "wake_free"}
         /\ at'[r] \in {"wait_fill", "sleep_fill"} => at[r] \in {"wait_fill", "sleep_fill"}
  BY <1>5
<1>9. HeldReady'
  BY <1>1, <1>4, <1>5 DEF Flow, HeldReady
<1>10. FreeWakeup'
  BY <1>5 DEF FreeWakeup
<1>11. FillWakeup'
  <2>1. \A r \in Processes : at'[r] = "sleep_fill" => at[r] = "sleep_fill" /\ mine'[r] = mine[r]
    BY <1>4, <1>5
  <2>2. \A q \in Processes : at[q] \in {"fill", "wake_fill"} => at'[q] = at[q] /\ mine'[q] = mine[q]
    BY <1>4, <1>5
  <2> QED
    BY <1>1, <1>4, <2>1, <2>2, SleepersKept DEF Flow
<1> QED
  BY <1>2, <1>3, <1>6, <1>7, <1>8, <1>9, <1>10, <1>11, MoveKeepsInv

(* squashfs_cache_get has read the block. *)
LEMMA FillDoneKeepsInv ==
    ASSUME IInv, NEW p \in Processes, FillDone(p)
    PROVE  IInv'
<1> DEFINE e == mine[p]
<1>1. TypeOK /\ CountsExact /\ Flow
  BY DEF IInv
<1>2. at[p] = "fill" /\ e \in Entries /\ want[p] \in Blocks /\ block[e] = want[p]
  <2>1. at[p] = "fill"
    BY DEF FillDone
  <2> QED
    BY <1>1, <2>1 DEF Flow, Refs, RightBlock, Referring
<1>3. /\ block' = block /\ refcount' = refcount /\ num_waiters' = num_waiters
      /\ unused' = unused /\ next_blk' = next_blk /\ waiters' = waiters
      /\ want' = want /\ mine' = mine /\ lost' = lost /\ quiet' = quiet
  BY DEF FillDone, cacheVars
<1> HIDE DEF e
<1>4. /\ at' \in [Processes -> Places]
      /\ \/ num_waiters[e] # 0 /\ at'[p] = "wake_fill"
         \/ num_waiters[e] = 0 /\ at'[p] = "hold"
      /\ \A r \in Processes : r # p => at'[r] = at[r]
  <2>1. "wake_fill" \in Places /\ "hold" \in Places
    BY DEF Places, Referring
  <2>2. at' = [at EXCEPT ![p] = IF num_waiters[e] # 0 THEN "wake_fill" ELSE "hold"]
    BY DEF FillDone, e
  <2> QED
    BY <1>1, <2>1, <2>2, Types, SetOne
<1>5. /\ pending' \in [Entries -> BOOLEAN] /\ ~pending'[e]
      /\ \A f \in Entries : f # e => pending'[f] = pending[f]
  <2>1. pending' = [pending EXCEPT ![e] = FALSE]
    BY DEF FillDone, e
  <2> QED
    BY <1>1, <1>2, <2>1, Types
<1>6. /\ error' \in [Entries -> BOOLEAN] /\ data' \in [Entries -> Blocks \cup {Invalid}]
      /\ error'[e] \/ data'[e] = want[p]
      /\ \A f \in Entries : f # e => error'[f] = error[f] /\ data'[f] = data[f]
  <2>1. \/ error' = [error EXCEPT ![e] = TRUE] /\ data' = data
        \/ data' = [data EXCEPT ![e] = want[p]] /\ error' = error
    BY DEF FillDone, e
  <2>2. CASE error' = [error EXCEPT ![e] = TRUE] /\ data' = data
    BY <1>1, <1>2, <2>2, Types
  <2>3. CASE data' = [data EXCEPT ![e] = want[p]] /\ error' = error
    BY <1>1, <1>2, <2>3, Types
  <2> QED
    BY <2>1, <2>2, <2>3
<1>7. TypeOK'
  BY <1>1, <1>3, <1>4, <1>5, <1>6, ZenonT(60) DEF TypeOK, Places
<1>8. CountsExact'
  <2>1. Waiting' = Waiting
    BY <1>2, <1>4 DEF Waiting
  <2>2. \A r \in Processes : /\ at'[r] \in Referring <=> at[r] \in Referring
                             /\ at[r] \in Referring => mine'[r] = mine[r]
    BY <1>2, <1>3, <1>4 DEF Referring
  <2> QED
    BY <1>1, <1>3, <2>1, <2>2, CountsKept
<1>9. \A r \in Processes : at'[r] = "fill" => r # p /\ at[r] = "fill" /\ mine[r] # e
  BY <1>1, <1>2, <1>4 DEF Flow, OneFiller, e
<1>10. \A f \in Entries : pending'[f] => pending[f] /\ f # e
  BY <1>5
<1>11. Flow'
  <2>1. Refs'
    BY <1>1, <1>2, <1>3, <1>4 DEF Flow, Refs, Referring, e
  <2>2. RightBlock' /\ OneEntry'
    BY <1>1, <1>2, <1>3, <1>4 DEF Flow, RightBlock, OneEntry, Referring
  <2>3. DataThere'
    BY <1>1, <1>2, <1>3, <1>5, <1>6 DEF Flow, DataThere
  <2>4. PendingFilled'
    <3> SUFFICES ASSUME NEW f \in Entries, pending[f], f # e
                 PROVE  \E q \in Processes : at'[q] = "fill" /\ mine[q] = f
      BY <1>3, <1>10 DEF PendingFilled
    <3>1. PICK q \in Processes : at[q] = "fill" /\ mine[q] = f
      BY <1>1 DEF Flow, PendingFilled
    <3>2. q # p
      BY <3>1 DEF e
    <3> QED
      BY <1>4, <3>1, <3>2
  <2>5. FillPending'
    <3> SUFFICES ASSUME NEW r \in Processes, at'[r] = "fill" PROVE pending'[mine[r]]
      BY <1>3 DEF FillPending
    <3>1. at[r] = "fill" /\ mine[r] # e
      BY <1>9
    <3>2. mine[r] \in Entries
      BY <1>1, <3>1 DEF Flow, Refs, Referring
    <3>3. pending[mine[r]]
      BY <1>1, <3>1 DEF Flow, FillPending
    <3> QED
      BY <1>5, <3>1, <3>2, <3>3
  <2>6. OneFiller'
    BY <1>1, <1>3, <1>9 DEF Flow, OneFiller
  <2>7. WaitersCounted'
    <3> SUFFICES ASSUME NEW r \in Processes, at'[r] \in {"wait_fill", "sleep_fill"}, pending'[mine[r]]
                 PROVE  num_waiters[mine[r]] # 0
      BY <1>3 DEF WaitersCounted
    <3>1. at[r] = at'[r]
      BY <1>4
    <3>2. mine[r] \in Entries
      BY <1>1, <3>1 DEF Flow, Refs, Referring
    <3> QED
      BY <1>1, <1>10, <3>1, <3>2 DEF Flow, WaitersCounted
  <2>8. HeldReady'
    <3> SUFFICES ASSUME NEW r \in Processes, at'[r] \in {"hold", "wake_fill"}
                 PROVE  ~pending'[mine[r]]
      BY <1>3 DEF HeldReady
    <3>1. CASE r = p
      BY <1>5, <3>1 DEF e
    <3>2. CASE r # p
      <4>1. at[r] \in {"hold", "wake_fill"}
        BY <1>4, <3>2
      <4>2. mine[r] \in Entries /\ ~pending[mine[r]]
        BY <1>1, <4>1 DEF Flow, Refs, HeldReady, Referring
      <4> QED
        BY <1>10, <4>2
    <3> QED
      BY <3>1, <3>2
  <2>9. FreeWakeup'
    BY <1>1, <1>2, <1>3, <1>4 DEF Flow, FreeWakeup
  <2>10. FillWakeup'
    <3> SUFFICES ASSUME NEW r \in Processes, at'[r] = "sleep_fill"
                 PROVE  \E q \in Processes : /\ mine[q] = mine[r]
                                             /\ \/ at'[q] = "fill" /\ num_waiters[mine[r]] # 0
                                                \/ at'[q] = "wake_fill"
      BY <1>3 DEF FillWakeup
    <3>1. PICK q \in Processes : /\ mine[q] = mine[r]
                                 /\ \/ at[q] = "fill" /\ num_waiters[mine[r]] # 0
                                    \/ at[q] = "wake_fill"
      BY <1>1, <1>4 DEF Flow, FillWakeup
    <3> QED
      BY <1>2, <1>4, <3>1 DEF e
  <2> QED
    BY <2>1, <2>2, <2>3, <2>4, <2>5, <2>6, <2>7, <2>8, <2>9, <2>10 DEF Flow
<1> QED
  BY <1>7, <1>8, <1>11 DEF IInv

(* squashfs_cache_put *)
LEMMA PutKeepsInv ==
    ASSUME IInv, NEW p \in Processes, CachePut(p)
    PROVE  IInv'
<1> DEFINE e == mine[p]
<1>1. TypeOK /\ CountsExact /\ Flow
  BY DEF IInv
<1>2. at[p] = "hold" /\ e \in Entries
  <2>1. at[p] = "hold"
    BY DEF CachePut
  <2> QED
    BY <1>1, <2>1 DEF Flow, Refs, Referring
<1>3. /\ block' = block /\ pending' = pending /\ num_waiters' = num_waiters
      /\ error' = error /\ data' = data /\ next_blk' = next_blk /\ waiters' = waiters
      /\ lost' = lost /\ quiet' = quiet
  BY DEF CachePut
<1> HIDE DEF e
<1>4. /\ mine' \in [Processes -> Entries \cup {NoEntry}]
      /\ \A r \in Processes : r # p => mine'[r] = mine[r]
  <2>1. mine' = [mine EXCEPT ![p] = NoEntry]
    BY DEF CachePut
  <2> QED
    BY <1>1, <2>1, Types
<1>5. /\ want' \in [Processes -> Blocks \cup {Invalid}]
      /\ \A r \in Processes : r # p => want'[r] = want[r]
  <2>1. want' = [want EXCEPT ![p] = Invalid]
    BY DEF CachePut
  <2> QED
    BY <1>1, <2>1, Types
<1>6. /\ p \in Holders(e) /\ IsFiniteSet(Holders(e))
      /\ refcount[e] = Cardinality(Holders(e)) + lost[e]
      /\ Cardinality(Holders(e)) \in Nat /\ lost[e] \in Nat
  <2>1. p \in Holders(e)
    BY <1>2 DEF Holders, Referring, e
  <2> QED
    BY <1>1, <1>2, <2>1, Finite, CountsSets, Types
<1>7. refcount[e] \in Nat /\ refcount[e] # 0
  <2>1. Cardinality(Holders(e)) # 0
    BY <1>6, FS_EmptySet
  <2> QED
    BY <1>6, <2>1
<1>8. /\ refcount' \in [Entries -> Nat] /\ refcount'[e] = refcount[e] - 1
      /\ \A f \in Entries : f # e => refcount'[f] = refcount[f]
  <2>1. refcount' = [refcount EXCEPT ![e] = @ - 1]
    BY DEF CachePut, e
  <2>2. refcount \in [Entries -> Nat]
    BY <1>1, Types
  <2> QED
    BY <1>2, <1>7, <2>1, <2>2
<1>9. /\ at' \in [Processes -> Places]
      /\ \A r \in Processes : r # p => at'[r] = at[r]
      /\ \/ refcount[e] = 1 /\ unused' = unused + 1 /\ waiters # 0 /\ at'[p] = "wake_free"
         \/ refcount[e] = 1 /\ unused' = unused + 1 /\ waiters = 0 /\ at'[p] = "idle"
         \/ refcount[e] # 1 /\ unused' = unused /\ at'[p] = "idle"
  <2>1. "wake_free" \in Places /\ "idle" \in Places
    BY DEF Places
  <2>2. \/ /\ refcount[e] = 1 /\ unused' = unused + 1
           /\ at' = [at EXCEPT ![p] = IF waiters # 0 THEN "wake_free" ELSE "idle"]
        \/ /\ refcount[e] # 1 /\ unused' = unused
           /\ at' = [at EXCEPT ![p] = "idle"]
    BY DEF CachePut, e
  <2>3. at \in [Processes -> Places]
    BY <1>1, Types
  <2> QED
    BY <2>1, <2>2, <2>3
<1>10. Waiting' = Waiting
  BY <1>2, <1>9 DEF Waiting
<1>11. unused' = Cardinality(Free')
  <2>0. \A f \in Entries : refcount[f] \in Nat
    BY <1>1, Types
  <2>1. CASE refcount[e] = 1
    <3>1. e \notin Free /\ Free' = Free \cup {e}
      BY <1>2, <1>8, <2>1 DEF Free
    <3>2. unused' = unused + 1 /\ unused = Cardinality(Free)
      BY <1>1, <1>9, <2>1, CountsSets
    <3> QED
      BY <3>1, <3>2, Finite, OneMore
  <2>2. CASE refcount[e] # 1
    <3>1. refcount'[e] # 0
      BY <1>7, <1>8, <2>2
    <3>2. Free' = Free
      BY <1>7, <1>8, <3>1 DEF Free
    <3>3. unused' = unused /\ unused = Cardinality(Free)
      BY <1>1, <1>9, <2>2, CountsSets
    <3> QED
      BY <3>2, <3>3
  <2> QED
    BY <2>1, <2>2
<1>12. CountsExact'
  <2>1. ASSUME NEW f \in Entries PROVE refcount'[f] = Cardinality(Holders(f)') + lost'[f]
    <3>1. CASE f = e
      <4>1. Holders(f)' = Holders(f) \ {p}
        BY <1>4, <1>9 DEF Holders, Referring
      <4>2. Cardinality(Holders(f)') = Cardinality(Holders(f)) - 1
        BY <1>6, <3>1, <4>1, OneLess
      <4>3. refcount[f] = Cardinality(Holders(f)) + lost[f] /\ refcount'[f] = refcount[f] - 1
        BY <1>6, <1>8, <3>1
      <4>4. Cardinality(Holders(f)) \in Nat /\ lost[f] \in Nat /\ lost'[f] = lost[f]
        BY <1>3, <1>6, <3>1
      <4> QED
        BY <4>2, <4>3, <4>4, MinusPlus
    <3>2. CASE f # e
      <4>1. p \notin Holders(f)
        BY <3>2 DEF Holders, e
      <4>2. Holders(f)' = Holders(f)
        BY <1>4, <1>9, <4>1 DEF Holders, Referring
      <4> QED
        BY <1>1, <1>3, <1>8, <3>2, <4>2, CountsSets
    <3> QED
      BY <3>1, <3>2
  <2> QED
    BY <1>1, <1>3, <1>10, <1>11, <2>1, CountsSets DEF CountsExact, Free, Waiting
<1>13. TypeOK'
  <2>1. IsFiniteSet(Free') /\ Free' \subseteq Entries
    BY EntriesFinite, FS_Subset DEF Free
  <2>2. Cardinality(Free') <= Cardinality(Entries) /\ Cardinality(Free') \in Nat
    BY <2>1, EntriesFinite, FS_Subset, FS_CardinalityType
  <2>3. Cardinality(Entries) = entries
    BY EntriesAssumption, FS_Interval DEF Entries
  <2>4. unused' \in 0..entries
    BY <1>11, <2>2, <2>3, EntriesAssumption
  <2> QED
    BY <1>1, <1>3, <1>4, <1>5, <1>8, <1>9, <2>4, Zenon DEF TypeOK, Places
<1>14. \A r \in Processes : at'[r] \notin {"idle", "wake_free"} =>
         r # p /\ at'[r] = at[r] /\ mine'[r] = mine[r] /\ want'[r] = want[r]
  BY <1>4, <1>5, <1>9
<1>15. Flow'
  <2> USE DEF Referring
  <2>1. Refs'
    BY <1>1, <1>14 DEF Flow, Refs
  <2>2. RightBlock' /\ OneEntry' /\ DataThere'
    BY <1>1, <1>3, <1>14 DEF Flow, RightBlock, OneEntry, DataThere
  <2>3. PendingFilled'
    <3> SUFFICES ASSUME NEW f \in Entries, pending[f]
                 PROVE  \E q \in Processes : at'[q] = "fill" /\ mine'[q] = f
      BY <1>3 DEF PendingFilled
    <3>1. PICK q \in Processes : at[q] = "fill" /\ mine[q] = f
      BY <1>1 DEF Flow, PendingFilled
    <3> QED
      BY <1>2, <1>4, <1>9, <3>1
  <2>4. FillPending'
    BY <1>1, <1>3, <1>14 DEF Flow, FillPending
  <2>5. OneFiller'
    <3>1. \A r \in Processes : at'[r] = "fill" => at[r] = "fill" /\ mine'[r] = mine[r]
      BY <1>14
    <3> QED
      BY <1>1, <3>1 DEF Flow, OneFiller
  <2>6. WaitersCounted'
    BY <1>1, <1>3, <1>14 DEF Flow, WaitersCounted
  <2>7. HeldReady'
    BY <1>1, <1>3, <1>14 DEF Flow, HeldReady
  <2>8. FreeWakeup'
    <3> SUFFICES ASSUME NEW r \in Processes, at'[r] = "sleep_free", unused' # 0
                 PROVE  \E q \in Processes : at'[q] = "wake_free"
      BY DEF FreeWakeup
    <3>1. r # p /\ at[r] = "sleep_free"
      BY <1>14
    <3>2. CASE refcount[e] = 1
      <4>1. r \in Waiting /\ waiters = Cardinality(Waiting)
        BY <1>1, <3>1, CountsSets DEF Waiting
      <4>2. waiters # 0
        BY <4>1, Finite, FS_EmptySet
      <4> QED
        BY <1>9, <3>2, <4>2
    <3>3. CASE refcount[e] # 1
      <4>1. unused # 0
        BY <1>9, <3>3
      <4>2. PICK q \in Processes : at[q] = "wake_free"
        BY <1>1, <3>1, <4>1 DEF Flow, FreeWakeup
      <4> QED
        BY <1>2, <1>9, <4>2
    <3> QED
      BY <3>2, <3>3
  <2>9. FillWakeup'
    <3>1. \A r \in Processes : at'[r] = "sleep_fill" => at[r] = "sleep_fill" /\ mine'[r] = mine[r]
      BY <1>14
    <3>2. \A q \in Processes : at[q] \in {"fill", "wake_fill"} => at'[q] = at[q] /\ mine'[q] = mine[q]
      BY <1>2, <1>4, <1>9
    <3> QED
      BY <1>1, <1>3, <3>1, <3>2, SleepersKept DEF Flow
  <2> QED
    BY <2>1, <2>2, <2>3, <2>4, <2>5, <2>6, <2>7, <2>8, <2>9 DEF Flow
<1> QED
  BY <1>12, <1>13, <1>15 DEF IInv

(* squashfs_read_metadata gives up and keeps its reference for ever. *)
LEMMA FailKeepsInv ==
    ASSUME IInv, NEW p \in Processes, ReadMetadataFails(p)
    PROVE  IInv'
<1> DEFINE e == mine[p]
<1>1. TypeOK /\ CountsExact /\ Flow
  BY DEF IInv
<1>2. at[p] = "hold" /\ e \in Entries
  <2>1. at[p] = "hold"
    BY DEF ReadMetadataFails
  <2> QED
    BY <1>1, <2>1 DEF Flow, Refs, Referring
<1>3. /\ block' = block /\ refcount' = refcount /\ pending' = pending
      /\ num_waiters' = num_waiters /\ error' = error /\ data' = data
      /\ unused' = unused /\ next_blk' = next_blk /\ waiters' = waiters /\ quiet' = quiet
  BY DEF ReadMetadataFails, entryVars, cacheVars
<1> HIDE DEF e
<1>4. /\ mine' \in [Processes -> Entries \cup {NoEntry}]
      /\ \A r \in Processes : r # p => mine'[r] = mine[r]
  <2>1. mine' = [mine EXCEPT ![p] = NoEntry]
    BY DEF ReadMetadataFails
  <2> QED
    BY <1>1, <2>1, Types
<1>5. /\ want' \in [Processes -> Blocks \cup {Invalid}]
      /\ \A r \in Processes : r # p => want'[r] = want[r]
  <2>1. want' = [want EXCEPT ![p] = Invalid]
    BY DEF ReadMetadataFails
  <2> QED
    BY <1>1, <2>1, Types
<1>6. /\ at' \in [Processes -> Places] /\ at'[p] = "idle"
      /\ \A r \in Processes : r # p => at'[r] = at[r]
  <2>1. at' = [at EXCEPT ![p] = "idle"] /\ "idle" \in Places
    BY DEF ReadMetadataFails, Places
  <2> QED
    BY <1>1, <2>1, Types, SetOne
<1>7. /\ lost' \in [Entries -> Nat] /\ lost'[e] = lost[e] + 1
      /\ \A f \in Entries : f # e => lost'[f] = lost[f]
  <2>1. lost' = [lost EXCEPT ![e] = @ + 1]
    BY DEF ReadMetadataFails, e
  <2>2. lost \in [Entries -> Nat]
    BY <1>1, Types
  <2> QED
    BY <1>1, <1>2, <2>1, <2>2, Grown, Zenon
<1>8. TypeOK'
  BY <1>1, <1>3, <1>4, <1>5, <1>6, <1>7, Zenon DEF TypeOK, Places
<1>9. CountsExact'
  <2>1. ASSUME NEW f \in Entries PROVE refcount'[f] = Cardinality(Holders(f)') + lost'[f]
    <3>0. refcount'[f] = Cardinality(Holders(f)) + lost[f] /\ lost[f] \in Nat
      BY <1>1, <1>3, CountsSets, Types
    <3>1. CASE f = e
      <4>1. p \in Holders(f)
        BY <1>2, <3>1, ZenonT(60) DEF Holders, Referring, e
      <4>2. Holders(f)' = Holders(f) \ {p}
        BY <1>4, <1>6 DEF Holders, Referring
      <4>3. Cardinality(Holders(f)') = Cardinality(Holders(f)) - 1 /\ Cardinality(Holders(f)) \in Nat
        BY <4>1, <4>2, Finite, OneLess
      <4>4. lost'[f] = lost[f] + 1
        BY <1>7, <3>1
      <4> QED
        BY <3>0, <4>3, <4>4, MinusPlus
    <3>2. CASE f # e
      <4>1. p \notin Holders(f)
        BY <3>2 DEF Holders, e
      <4>2. Holders(f)' = Holders(f)
        BY <1>4, <1>6, <4>1 DEF Holders, Referring
      <4> QED
        BY <1>7, <3>0, <3>2, <4>2
    <3> QED
      BY <3>1, <3>2
  <2>2. Free' = Free
    BY <1>3 DEF Free
  <2>3. Waiting' = Waiting
    BY <1>2, <1>6 DEF Waiting
  <2> QED
    BY <1>1, <1>3, <2>1, <2>2, <2>3, CountsSets DEF CountsExact, Free, Waiting
<1>10. \A r \in Processes : at'[r] # "idle" =>
         r # p /\ at'[r] = at[r] /\ mine'[r] = mine[r] /\ want'[r] = want[r]
  BY <1>4, <1>5, <1>6
<1>11. Flow'
  <2> USE DEF Referring
  <2>1. Refs'
    BY <1>1, <1>10 DEF Flow, Refs
  <2>2. RightBlock' /\ OneEntry' /\ DataThere'
    BY <1>1, <1>3, <1>10 DEF Flow, RightBlock, OneEntry, DataThere
  <2>3. PendingFilled'
    <3> SUFFICES ASSUME NEW f \in Entries, pending[f]
                 PROVE  \E q \in Processes : at'[q] = "fill" /\ mine'[q] = f
      BY <1>3 DEF PendingFilled
    <3>1. PICK q \in Processes : at[q] = "fill" /\ mine[q] = f
      BY <1>1 DEF Flow, PendingFilled
    <3> QED
      BY <1>2, <1>4, <1>6, <3>1
  <2>4. FillPending'
    BY <1>1, <1>3, <1>10 DEF Flow, FillPending
  <2>5. OneFiller'
    <3>1. \A r \in Processes : at'[r] = "fill" => at[r] = "fill" /\ mine'[r] = mine[r]
      BY <1>10
    <3> QED
      BY <1>1, <3>1 DEF Flow, OneFiller
  <2>6. WaitersCounted'
    BY <1>1, <1>3, <1>10 DEF Flow, WaitersCounted
  <2>7. HeldReady'
    BY <1>1, <1>3, <1>10 DEF Flow, HeldReady
  <2>8. FreeWakeup'
    <3> SUFFICES ASSUME NEW r \in Processes, at'[r] = "sleep_free", unused # 0
                 PROVE  \E q \in Processes : at'[q] = "wake_free"
      BY <1>3 DEF FreeWakeup
    <3>1. PICK q \in Processes : at[q] = "wake_free"
      BY <1>1, <1>10 DEF Flow, FreeWakeup
    <3> QED
      BY <1>2, <1>6, <3>1
  <2>9. FillWakeup'
    <3>1. \A r \in Processes : at'[r] = "sleep_fill" => at[r] = "sleep_fill" /\ mine'[r] = mine[r]
      BY <1>10
    <3>2. \A q \in Processes : at[q] \in {"fill", "wake_fill"} => at'[q] = at[q] /\ mine'[q] = mine[q]
      BY <1>2, <1>4, <1>6
    <3> QED
      BY <1>1, <1>3, <3>1, <3>2, SleepersKept DEF Flow
  <2> QED
    BY <2>1, <2>2, <2>3, <2>4, <2>5, <2>6, <2>7, <2>8, <2>9 DEF Flow
<1> QED
  BY <1>8, <1>9, <1>11 DEF IInv

(* One pass of the loop of squashfs_cache_get, whichever way it goes. *)
LEMMA PassKeepsInv ==
    ASSUME IInv, NEW p \in Processes, NEW b \in Blocks, NEW n,
           at[p] \in {"idle", "retry"}, GetPass(p, b, n),
           n = Cardinality(Waiting \ {p})
    PROVE  IInv'
<1>1. want' = [want EXCEPT ![p] = b] /\ quiet' = quiet /\ lost' = lost
  BY DEF GetPass
<1>2. CASE /\ \E e \in Entries : CacheHit(p, b, e) \/ CacheMiss(p, b, e)
           /\ waiters' = n
  BY <1>1, <1>2, HitKeepsInv, MissKeepsInv, ZenonT(60)
<1>3. CASE /\ Missing(b) /\ unused = 0
           /\ waiters' = n + 1
           /\ at' = [at EXCEPT ![p] = "wait_free"]
           /\ UNCHANGED <<entryVars, unused, next_blk, mine>>
  BY <1>1, <1>3, FullKeepsInv, Zenon
<1> QED
  BY <1>2, <1>3 DEF GetPass

(* The inductive invariant holds initially. *)
LEMMA InvInit == Init => IInv
<1> SUFFICES ASSUME Init PROVE IInv
  OBVIOUS
<1>1. TypeOK
  <2>1. unused \in 0..entries /\ next_blk \in Entries /\ waiters \in Nat
    BY EntriesAssumption DEF Init, Entries
  <2>2. /\ block \in [Entries -> Blocks \cup {Invalid}] /\ refcount \in [Entries -> Nat]
        /\ pending \in [Entries -> BOOLEAN] /\ num_waiters \in [Entries -> Nat]
        /\ error \in [Entries -> BOOLEAN] /\ data \in [Entries -> Blocks \cup {Invalid}]
    BY DEF Init
  <2>3. /\ at \in [Processes -> Places] /\ want \in [Processes -> Blocks \cup {Invalid}]
        /\ mine \in [Processes -> Entries \cup {NoEntry}] /\ quiet \in BOOLEAN
        /\ lost \in [Entries -> Nat]
    BY Zenon DEF Init, Places
  <2> QED
    BY <2>1, <2>2, <2>3, Zenon DEF TypeOK, Places
<1>2. CountsExact
  <2>1. /\ \A e : Holders(e) = {}
        /\ Waiting = {}
        /\ Free = Entries
    BY DEF Init, Holders, Waiting, Free, Referring
  <2>2. Cardinality(Entries) = entries
    BY EntriesAssumption, FS_Interval DEF Entries
  <2>3. /\ \A e \in Entries : refcount[e] = 0 /\ lost[e] = 0
        /\ unused = entries /\ waiters = 0
    BY DEF Init
  <2>4. Cardinality({}) = 0 /\ 0 + 0 = 0
    BY FS_EmptySet
  <2>5. \A e \in Entries : refcount[e] = Cardinality(Holders(e)) + lost[e]
    BY <2>1, <2>3, <2>4
  <2> QED
    BY <2>1, <2>2, <2>3, <2>4, <2>5, CountsSets
<1>3. Flow
  <2>1. /\ \A p \in Processes : at[p] = "idle"
        /\ \A e \in Entries : block[e] = Invalid /\ ~pending[e]
    BY DEF Init
  <2> QED
    BY <2>1 DEF Flow, Refs, RightBlock, OneEntry, PendingFilled, FillPending, OneFiller,
                WaitersCounted, DataThere, HeldReady, FreeWakeup, FillWakeup, Referring
<1> QED
  BY <1>1, <1>2, <1>3 DEF IInv

(* Every step, and every stuttering step, keeps the inductive invariant. *)
LEMMA InvNext == IInv /\ [Next]_vars => IInv'
<1> SUFFICES ASSUME IInv, [Next]_vars PROVE IInv'
  OBVIOUS
<1>1. ASSUME NEW p \in Processes, CacheGet(p) PROVE IInv'
  <2>1. PICK b \in Blocks : GetPass(p, b, waiters)
    BY <1>1 DEF CacheGet
  <2>2. at[p] = "idle"
    BY <1>1 DEF CacheGet
  <2>3. Waiting \ {p} = Waiting
    BY <2>2 DEF Waiting
  <2>4. waiters = Cardinality(Waiting \ {p})
    BY <2>3, CountsSets DEF IInv
  <2>5. at[p] \in {"idle", "retry"}
    BY <2>2
  <2> QED
    BY <2>1, <2>4, <2>5, PassKeepsInv, SMTT(60)
<1>2. ASSUME NEW p \in Processes, Retry(p) PROVE IInv'
  <2>1. at[p] = "retry" /\ GetPass(p, want[p], waiters - 1)
    BY <1>2 DEF Retry
  <2>2. want[p] \in Blocks
    BY <2>1 DEF IInv, Flow, Refs
  <2>3. p \in Waiting
    BY <2>1 DEF Waiting
  <2>4. waiters - 1 = Cardinality(Waiting \ {p})
    BY <2>3, Finite, OneLess, CountsSets DEF IInv
  <2>5. at[p] \in {"idle", "retry"}
    BY <2>1
  <2> QED
    BY <2>1, <2>2, <2>4, <2>5, PassKeepsInv, SMTT(60)
<1>3. ASSUME NEW p \in Processes, Call(p) PROVE IInv'
  BY <1>2, <1>3, WaitFreeKeepsInv, FillDoneKeepsInv, WakeFillKeepsInv, WaitFillKeepsInv,
     PutKeepsInv, FailKeepsInv, WakeFreeKeepsInv DEF Call
<1>4. ASSUME UNCHANGED <<entryVars, cacheVars, at, want, mine, lost>>, quiet' \in BOOLEAN
      PROVE  IInv'
  <2>1. /\ block' = block /\ refcount' = refcount /\ pending' = pending /\ num_waiters' = num_waiters
        /\ error' = error /\ data' = data /\ unused' = unused /\ waiters' = waiters
        /\ next_blk' = next_blk /\ at' = at /\ want' = want /\ mine' = mine /\ lost' = lost
    BY <1>4 DEF entryVars, cacheVars
  <2>2. TypeOK'
    BY <1>4, <2>1 DEF IInv, TypeOK
  <2>3. CountsExact'
    BY <2>1, ZenonT(60) DEF IInv, CountsExact, Holders
  <2>4. Flow'
    <3>1. Refs' /\ RightBlock' /\ OneEntry' /\ DataThere'
      BY <2>1, Zenon DEF IInv, Flow, Refs, RightBlock, OneEntry, DataThere
    <3>2. PendingFilled' /\ FillPending' /\ OneFiller'
      BY <2>1, ZenonT(60) DEF IInv, Flow, PendingFilled, FillPending, OneFiller
    <3>3. WaitersCounted' /\ HeldReady' /\ FreeWakeup'
      BY <2>1 DEF IInv, Flow, WaitersCounted, HeldReady, FreeWakeup
    <3>4. FillWakeup'
      BY <2>1 DEF IInv, Flow, FillWakeup
    <3> QED
      BY <3>1, <3>2, <3>3, <3>4 DEF Flow
  <2> QED
    BY <2>2, <2>3, <2>4 DEF IInv
<1>5. CASE Quieten
  BY <1>4, <1>5 DEF Quieten
<1>6. CASE UNCHANGED vars
  BY <1>4, <1>6, ZenonT(60) DEF vars, IInv, TypeOK
<1> QED
  BY <1>1, <1>3, <1>5, <1>6 DEF Next

-----------------------------------------------------------------------------
(* The inductive invariant. *)
THEOREM KernelCacheInvariant == Spec => []IInv
<1> QED
  BY InvInit, InvNext, PTL DEF Spec

(* The fields of the cache and of its entries keep the values of their C    *)
(* types: unused lies between 0 and entries, next_blk is an entry.          *)
THEOREM KernelCacheTypeCorrect == Spec => []TypeOK
<1>1. IInv => TypeOK
  BY DEF IInv
<1> QED
  BY <1>1, KernelCacheInvariant, PTL

(* squashfs_cache_get and squashfs_cache_put keep the reference counts, the *)
(* number of unused entries and the number of waiters exact.                *)
THEOREM KernelCacheCountsExact == Spec => []CountsExact
<1>1. IInv => CountsExact
  BY DEF IInv
<1> QED
  BY <1>1, KernelCacheInvariant, PTL

(* A block is in one entry only, and a process that squashfs_cache_get has  *)
(* returned an entry to sees the block it asked for until it releases it.   *)
THEOREM KernelCacheHolderSeesBlock == Spec => []HolderSeesBlock
<1>1. IInv => HolderSeesBlock
  BY FlowImplies DEF IInv
<1> QED
  BY <1>1, KernelCacheInvariant, PTL

(* Neither the wake_up of squashfs_cache_put nor the wake_up_all of         *)
(* squashfs_cache_get, both called without the lock, comes too early.       *)
THEOREM KernelCacheNoLostWakeup == Spec => []NoLostWakeup
<1>1. IInv => NoLostWakeup
  BY FlowImplies DEF IInv
<1> QED
  BY <1>1, KernelCacheInvariant, PTL
=============================================================================
