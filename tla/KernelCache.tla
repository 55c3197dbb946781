---------------------------- MODULE KernelCache ----------------------------
(***************************************************************************)
(* The block cache of the kernel file system, kernel/fs/squashfs/cache.c:  *)
(* processes look blocks up, read missing ones from disk without the lock, *)
(* and sleep while all entries are in use or while another process reads   *)
(* the block they want.                                                    *)
(*                                                                         *)
(* A stretch of code under cache->lock is one step.  Waking up the others, *)
(* and testing the condition of wait_event, happen without the lock and    *)
(* are steps of their own.  A process has at most one entry of a cache at  *)
(* a time, as all callers in this directory have.                          *)
(***************************************************************************)
EXTENDS Integers, FiniteSets

CONSTANTS
    Processes,
    Blocks,        \* the blocks of the file system
    Bad,           \* those that cannot be read
    MaxLost,       \* how often an entry may be left without being released
    entries,       \* the argument of squashfs_cache_init
    Invalid        \* SQUASHFS_INVALID_BLK

\* squashfs_fill_super asks for 8 metadata blocks, 3 fragments, 1 data block.
ASSUME EntriesAssumption == entries \in Nat \ {0}

ASSUME ProcessAssumption == IsFiniteSet(Processes) /\ Invalid \notin Blocks

Entries == 0..entries-1

VARIABLES
    block,         \* entry->block
    refcount,      \* entry->refcount
    pending,       \* entry->pending
    num_waiters,   \* entry->num_waiters
    error,         \* entry->error
    data,          \* the block whose data the entry's buffers hold
    unused,        \* cache->unused
    next_blk,      \* cache->next_blk
    waiters,       \* cache->num_waiters
    at,            \* where each process is in its call
    want,          \* the block it asked for
    mine,          \* the entry it has a reference to
    lost,          \* the references to each entry that nobody will release
    quiet          \* no process makes another call

entryVars == <<block, refcount, pending, num_waiters, error, data>>
cacheVars == <<unused, next_blk, waiters>>
vars == <<entryVars, cacheVars, at, want, mine, lost, quiet>>

NoEntry == -1

\* squashfs_cache_init
Init ==
    /\ block = [e \in Entries |-> Invalid]
    /\ refcount = [e \in Entries |-> 0]
    /\ pending = [e \in Entries |-> FALSE]
    /\ num_waiters = [e \in Entries |-> 0]
    /\ error = [e \in Entries |-> FALSE]
    /\ data = [e \in Entries |-> Invalid]
    /\ unused = entries /\ next_blk = 0 /\ waiters = 0
    /\ at = [p \in Processes |-> "idle"]
    /\ want = [p \in Processes |-> Invalid]
    /\ mine = [p \in Processes |-> NoEntry]
    /\ lost = [e \in Entries |-> 0]
    /\ quiet = FALSE

-----------------------------------------------------------------------------
\* The processes that sleep in wait_event on the cache, or on entry e.
SleepFree == {p \in Processes : at[p] = "sleep_free"}
SleepFill(e) == {p \in Processes : at[p] = "sleep_fill" /\ mine[p] = e}

\* What the first loop of squashfs_cache_get finds: the lowest entry.
Found(b, e) == /\ block[e] = b
               /\ \A f \in Entries : block[f] = b => e <= f
Missing(b) == \A e \in Entries : block[e] # b

\* How far e lies behind next_blk, going round.
Distance(e) == IF e >= next_blk THEN e - next_blk ELSE e - next_blk + entries

\* The entry that the round-robin search ends at: the first without references
\* or, were there none, the one where it began.
Victim(e) ==
    \/ /\ refcount[e] = 0
       /\ \A f \in Entries : refcount[f] = 0 => Distance(e) <= Distance(f)
    \/ /\ e = next_blk
       /\ \A f \in Entries : refcount[f] # 0

\* Mutant of CacheHit: an entry that was unused stays counted as such.
CacheHitKeepsUnused(p, b, e) ==
    /\ Found(b, e)
    /\ refcount' = [refcount EXCEPT ![e] = @ + 1]
    /\ num_waiters' = IF pending[e] THEN [num_waiters EXCEPT ![e] = @ + 1] ELSE num_waiters
    /\ at' = [at EXCEPT ![p] = IF pending[e] THEN "wait_fill" ELSE "hold"]
    /\ mine' = [mine EXCEPT ![p] = e]
    /\ UNCHANGED <<block, pending, error, data, next_blk, unused>>

\* Block in cache: take a reference and wait if it is being read.
CacheHit(p, b, e) ==
    /\ Found(b, e)
    /\ refcount' = [refcount EXCEPT ![e] = @ + 1]
    /\ unused' = IF refcount[e] = 0 THEN unused - 1 ELSE unused
    /\ num_waiters' = IF pending[e] THEN [num_waiters EXCEPT ![e] = @ + 1] ELSE num_waiters
    /\ at' = [at EXCEPT ![p] = IF pending[e] THEN "wait_fill" ELSE "hold"]
    /\ mine' = [mine EXCEPT ![p] = e]
    /\ UNCHANGED <<block, pending, error, data, next_blk>>

\* Block not in cache: choose an entry and set it up, to be read.
CacheMiss(p, b, e) ==
    /\ Missing(b) /\ unused # 0
    /\ Victim(e)
    /\ next_blk' = (e + 1) % entries
    /\ unused' = unused - 1
    /\ block' = [block EXCEPT ![e] = b]
    /\ refcount' = [refcount EXCEPT ![e] = 1]
    /\ pending' = [pending EXCEPT ![e] = TRUE]
    /\ num_waiters' = [num_waiters EXCEPT ![e] = 0]
    /\ error' = [error EXCEPT ![e] = FALSE]
    /\ data' = [data EXCEPT ![e] = Invalid]
    /\ at' = [at EXCEPT ![p] = "fill"]
    /\ mine' = [mine EXCEPT ![p] = e]

\* One pass of the while loop of squashfs_cache_get, for block b, with n the
\* number of waiters at its beginning.
GetPass(p, b, n) ==
    /\ want' = [want EXCEPT ![p] = b]
    /\ \/ /\ \E e \in Entries : CacheHit(p, b, e) \/ CacheMiss(p, b, e)
          /\ waiters' = n
       \/ /\ Missing(b) /\ unused = 0
          /\ waiters' = n + 1
          /\ at' = [at EXCEPT ![p] = "wait_free"]
          /\ UNCHANGED <<entryVars, unused, next_blk, mine>>
    /\ UNCHANGED <<lost, quiet>>

\* squashfs_cache_get is called.
CacheGet(p) ==
    /\ at[p] = "idle" /\ ~quiet
    /\ \E b \in Blocks : GetPass(p, b, waiters)

\* wait_event(cache->wait_queue, cache->unused): the condition is tested when
\* the process is already on the queue.
WaitFree(p) ==
    /\ at[p] = "wait_free"
    /\ at' = [at EXCEPT ![p] = IF unused # 0 THEN "retry" ELSE "sleep_free"]
    /\ UNCHANGED <<entryVars, cacheVars, want, mine, lost, quiet>>

\* The lock is taken again and the loop starts anew.
Retry(p) ==
    /\ at[p] = "retry"
    /\ GetPass(p, want[p], waiters - 1)

\* Mutant of FillDone: a single waiter is not woken.
FillDoneOffByOne(p) ==
    /\ at[p] = "fill"
    /\ pending' = [pending EXCEPT ![mine[p]] = FALSE]
    /\ data' = [data EXCEPT ![mine[p]] = want[p]]
    /\ at' = [at EXCEPT ![p] = IF num_waiters[mine[p]] > 1 THEN "wake_fill" ELSE "hold"]
    /\ UNCHANGED <<block, refcount, num_waiters, error, cacheVars, want, mine, lost, quiet>>

\* squashfs_read_data has returned, with an error or not.
FillDone(p) ==
    /\ at[p] = "fill"
    /\ pending' = [pending EXCEPT ![mine[p]] = FALSE]
    /\ \/ /\ want[p] \in Bad
          /\ error' = [error EXCEPT ![mine[p]] = TRUE]
          /\ UNCHANGED data
       \/ /\ want[p] \notin Bad
          /\ data' = [data EXCEPT ![mine[p]] = want[p]]
          /\ UNCHANGED error
    /\ at' = [at EXCEPT ![p] = IF num_waiters[mine[p]] # 0 THEN "wake_fill" ELSE "hold"]
    /\ UNCHANGED <<block, refcount, num_waiters, cacheVars, want, mine, lost, quiet>>

\* wake_up_all(&entry->wait_queue), after the unlock.
WakeFill(p) ==
    /\ at[p] = "wake_fill"
    /\ at' = [q \in Processes |-> IF q = p THEN "hold"
                                  ELSE IF q \in SleepFill(mine[p]) THEN "wait_fill" ELSE at[q]]
    /\ UNCHANGED <<entryVars, cacheVars, want, mine, lost, quiet>>

\* Mutant of WaitFill: the process does not wait for the block to be read.
WaitFillSkipped(p) ==
    /\ at[p] = "wait_fill"
    /\ at' = [at EXCEPT ![p] = "hold"]
    /\ UNCHANGED <<entryVars, cacheVars, want, mine, lost, quiet>>

\* wait_event(entry->wait_queue, !entry->pending)
WaitFill(p) ==
    /\ at[p] = "wait_fill"
    /\ at' = [at EXCEPT ![p] = IF pending[mine[p]] THEN "sleep_fill" ELSE "hold"]
    /\ UNCHANGED <<entryVars, cacheVars, want, mine, lost, quiet>>

\* Mutant of CachePut: a single waiter is not woken.
CachePutOffByOne(p) ==
    /\ at[p] = "hold"
    /\ refcount' = [refcount EXCEPT ![mine[p]] = @ - 1]
    /\ unused' = IF refcount[mine[p]] = 1 THEN unused + 1 ELSE unused
    /\ at' = [at EXCEPT ![p] = IF refcount[mine[p]] = 1 /\ waiters > 1 THEN "wake_free" ELSE "idle"]
    /\ mine' = [mine EXCEPT ![p] = NoEntry]
    /\ want' = [want EXCEPT ![p] = Invalid]
    /\ UNCHANGED <<block, pending, num_waiters, error, data, next_blk, waiters, lost, quiet>>

\* squashfs_cache_put
CachePut(p) ==
    /\ at[p] = "hold"
    /\ refcount' = [refcount EXCEPT ![mine[p]] = @ - 1]
    /\ \/ /\ refcount[mine[p]] = 1
          /\ unused' = unused + 1
          /\ at' = [at EXCEPT ![p] = IF waiters # 0 THEN "wake_free" ELSE "idle"]
       \/ /\ refcount[mine[p]] # 1
          /\ at' = [at EXCEPT ![p] = "idle"]
          /\ UNCHANGED unused
    /\ mine' = [mine EXCEPT ![p] = NoEntry]
    /\ want' = [want EXCEPT ![p] = Invalid]
    /\ UNCHANGED <<block, pending, num_waiters, error, data, next_blk, waiters, lost, quiet>>

\* squashfs_read_metadata returns early when the entry has an error, or is too
\* short (an error too, here), and does not release it.
ReadMetadataFails(p) ==
    /\ at[p] = "hold" /\ error[mine[p]]
    /\ lost[mine[p]] < MaxLost
    /\ lost' = [lost EXCEPT ![mine[p]] = @ + 1]
    /\ at' = [at EXCEPT ![p] = "idle"]
    /\ mine' = [mine EXCEPT ![p] = NoEntry]
    /\ want' = [want EXCEPT ![p] = Invalid]
    /\ UNCHANGED <<entryVars, cacheVars, quiet>>

\* wake_up(&cache->wait_queue), after the unlock.  The waiters are not
\* exclusive, so all of them are woken.
WakeFree(p) ==
    /\ at[p] = "wake_free"
    /\ at' = [q \in Processes |-> IF q = p THEN "idle"
                                  ELSE IF q \in SleepFree THEN "wait_free" ELSE at[q]]
    /\ UNCHANGED <<entryVars, cacheVars, want, mine, lost, quiet>>

\* Nobody calls squashfs_cache_get any more.
Quieten ==
    /\ ~quiet
    /\ quiet' = TRUE
    /\ UNCHANGED <<entryVars, cacheVars, at, want, mine, lost>>

Call(p) == \/ WaitFree(p) \/ Retry(p) \/ FillDone(p) \/ WakeFill(p) \/ WaitFill(p)
           \/ CachePut(p) \/ ReadMetadataFails(p) \/ WakeFree(p)

Next == (\E p \in Processes : CacheGet(p) \/ Call(p)) \/ Quieten

Spec == Init /\ [][Next]_vars

\* Every process that can go on does, and is done with what it got at last.
FairSpec == Spec /\ \A p \in Processes : WF_vars(Call(p))

-----------------------------------------------------------------------------
Referring == {"fill", "wake_fill", "wait_fill", "sleep_fill", "hold"}
Holders(e) == {p \in Processes : at[p] \in Referring /\ mine[p] = e}

(* The variables hold values of their C types. *)
TypeOK ==
    /\ block \in [Entries -> Blocks \cup {Invalid}]
    /\ refcount \in [Entries -> Nat]
    /\ pending \in [Entries -> BOOLEAN]
    /\ num_waiters \in [Entries -> Nat]
    /\ error \in [Entries -> BOOLEAN]
    /\ data \in [Entries -> Blocks \cup {Invalid}]
    /\ unused \in 0..entries /\ next_blk \in Entries /\ waiters \in Nat
    /\ at \in [Processes -> Referring \cup {"idle", "wait_free", "sleep_free", "retry", "wake_free"}]
    /\ want \in [Processes -> Blocks \cup {Invalid}]
    /\ mine \in [Processes -> Entries \cup {NoEntry}]
    /\ lost \in [Entries -> Nat]
    /\ quiet \in BOOLEAN

(* cache->unused and the reference counts are kept by different branches of  *)
(* squashfs_cache_get and by squashfs_cache_put.  They stay exact, those     *)
(* squashfs_read_metadata does not give back included, so that the           *)
(* round-robin search, which does not look whether it found anything,        *)
(* always ends at an entry that nobody uses; and cache->num_waiters counts   *)
(* the processes between their test of unused and their next look.           *)
CountsExact ==
    /\ \A e \in Entries : refcount[e] = Cardinality(Holders(e)) + lost[e]
    /\ unused = Cardinality({e \in Entries : refcount[e] = 0})
    /\ waiters = Cardinality({p \in Processes : at[p] \in {"wait_free", "sleep_free", "retry"}})

(* The lock is dropped to read a block and to wait for one.  A block is in   *)
(* the cache once all the same, and when squashfs_cache_get returns, the     *)
(* entry is for the block asked for, is not being read, and holds its data   *)
(* unless it says there was an error, until it is released.                  *)
HolderSeesBlock ==
    /\ \A e, f \in Entries : block[e] = block[f] /\ block[e] # Invalid => e = f
    /\ \A p \in Processes : at[p] \in Referring => block[mine[p]] = want[p]
    /\ \A p \in Processes : at[p] \in {"hold", "wake_fill"} =>
          /\ ~pending[mine[p]]
          /\ error[mine[p]] \/ data[mine[p]] = want[p]

(* squashfs_cache_put looks at num_waiters under the lock and wakes after    *)
(* it; wait_event looks at unused without it.  A process that sleeps for an  *)
(* entry while there is one is about to be woken; one that sleeps for a      *)
(* block to be read sleeps while it is read or is about to be woken.         *)
NoLostWakeup ==
    /\ SleepFree # {} /\ unused # 0 => \E q \in Processes : at[q] = "wake_free"
    /\ \A p \in Processes : at[p] = "sleep_fill" =>
          \E q \in Processes : /\ mine[q] = mine[p]
                               /\ \/ at[q] = "fill" /\ num_waiters[mine[p]] # 0
                                  \/ at[q] = "wake_fill"

(* A busy cache may let a process wait for long; but when no more calls are  *)
(* made, every call that was made returns, unless squashfs_read_metadata has *)
(* failed at each entry and not released one of them.                        *)
CallsReturn ==
    quiet ~> \/ \A p \in Processes : at[p] = "idle"
             \/ \A e \in Entries : lost[e] # 0
=============================================================================
