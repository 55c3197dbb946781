------------------------------- MODULE Cache -------------------------------
(***************************************************************************)
(* The struct cache of caches-queues-lists.c: a pool of reference-counted  *)
(* buffers, some of which can be found again by index.  mksquashfs has a   *)
(* shrinking cache without lookup (reader_buffer) and caches with lookup   *)
(* that keep released buffers on a free list (bwriter_buffer,              *)
(* fwriter_buffer, fragment_buffer, reserve_cache).                        *)
(*                                                                         *)
(* Every stretch of code under cache->mutex is one step.  The threads are  *)
(* the callers in mksquashfs.c and process_fragments.c.  They keep to      *)
(* these rules: a buffer of a lookup cache is hashed before it is          *)
(* released, a new index is asked for only when no buffer has it           *)
(* (get_fragment looks it up first, under dup_mutex; fragment numbers are  *)
(* fresh), a buffer that was found locked is used only after               *)
(* cache_wait_unlock, and no thread looks up a block it holds.  Two uses   *)
(* of bwriter_buffer do not: cache_hash after a rollback, when a block of  *)
(* the dropped file may have the index (DataLayout has this case), and     *)
(* duplicate(), where main may come upon a block that it holds.            *)
(***************************************************************************)
EXTENDS Integers, FiniteSets, Sequences, LinkedLists

CONSTANTS
    Threads,          \* the callers
    Buffers,          \* as many buffers as the cache may allocate
    Indexes,          \* block positions or fragment numbers
    None              \* no index, no buffer, no thread

ASSUME CacheAssumption ==
    /\ IsFiniteSet(Buffers) /\ Buffers # {} /\ IsFiniteSet(Threads)
    /\ None \notin Indexes \cup Buffers \cup Threads
    /\ "unhashed" \notin Indexes /\ "not_held" \notin Indexes

max_buffers == Cardinality(Buffers)

VARIABLES
    noshrink_lookup, first_freelist,    \* the arguments of cache_init
    count,       \* cache->count
    used,        \* cache->used, or cache->max_count if the cache shrinks
    free_list,   \* cache->free_list, oldest first
    hashed,      \* the buffers in the hash table
    allocated,   \* the buffers that malloc has returned and free not taken
    uses,        \* file_buffer->used
    index,       \* file_buffer->index
    locked,      \* file_buffer->locked
    wait_on_unlock,  \* file_buffer->wait_on_unlock
    held,        \* held[t][b]: the index under which t holds b
    thread,      \* where each thread is with respect to the cache
    arg,         \* the index or the buffer a blocked thread has asked for
    filler       \* the thread that fills a locked buffer in

pool == <<count, used, free_list, hashed, allocated>>
fields == <<uses, index, locked, wait_on_unlock, filler>>
policy == <<noshrink_lookup, first_freelist>>
vars == <<policy, pool, fields, held, thread, arg>>

Unhashed == "unhashed"
NotHeld == "not_held"

\* cache_init.  The callers ask for a free list that is used first only in a
\* cache that has one.
Init ==
    /\ noshrink_lookup \in BOOLEAN
    /\ first_freelist \in {FALSE, noshrink_lookup}
    /\ count = 0 /\ used = 0
    /\ free_list = <<>> /\ hashed = {} /\ allocated = {}
    /\ uses = [b \in Buffers |-> 0]
    /\ index = [b \in Buffers |-> Unhashed]
    /\ locked = [b \in Buffers |-> FALSE]
    /\ wait_on_unlock = [b \in Buffers |-> FALSE]
    /\ held = [t \in Threads |-> [b \in Buffers |-> NotHeld]]
    /\ thread = [t \in Threads |-> "running"]
    /\ arg = [t \in Threads |-> None]
    /\ filler = [b \in Buffers |-> None]

-----------------------------------------------------------------------------
At(place) == {t \in Threads : thread[t] = place}

\* Somebody has, or is waiting to get, a buffer for index i.
Claimed(i) ==
    \/ \E b \in hashed : index[b] = i
    \/ \E t \in At("wait_free") \cup At("woken_free") : arg[t] = i

\* Where _cache_get and cache_get_nowait look for a buffer.
UseFreeList ==
    /\ noshrink_lookup /\ free_list # <<>>
    /\ first_freelist \/ count >= max_buffers
UseAlloc ==
    /\ count < max_buffers
    /\ ~(noshrink_lookup /\ first_freelist /\ free_list # <<>>)

\* Mutant of TakeFree: the buffer stays in the hash table.
TakeFreeStillHashed(b, H) ==
    /\ UseFreeList
    /\ b = Head(free_list)
    /\ free_list' = Tail(free_list)
    /\ hashed' = hashed \cup H
    /\ used' = used + 1
    /\ UNCHANGED <<count, allocated>>

\* cache_freelist: the oldest free buffer, taken out of the hash table before
\* the caller inserts it again (H).
TakeFree(b, H) ==
    /\ UseFreeList
    /\ b = Head(free_list)
    /\ free_list' = Tail(free_list)
    /\ hashed' = (hashed \ {b}) \cup H
    /\ used' = used + 1
    /\ UNCHANGED <<count, allocated>>

\* cache_alloc and the counters its callers keep.
TakeNew(b, H) ==
    /\ UseAlloc
    /\ b \notin allocated
    /\ allocated' = allocated \cup {b}
    /\ count' = count + 1
    /\ used' = IF noshrink_lookup THEN used + 1
               ELSE IF count + 1 > used THEN count + 1 ELSE used
    /\ hashed' = hashed \cup H
    /\ UNCHANGED free_list

\* Thread t gets buffer b, initialised, under index i (Unhashed: no index).
TakeBuffer(t, b, i, lock) ==
    /\ LET H == IF i = Unhashed THEN {} ELSE {b}
       IN  TakeFree(b, H) \/ TakeNew(b, H)
    /\ uses' = [uses EXCEPT ![b] = 1]
    /\ index' = [index EXCEPT ![b] = i]
    /\ locked' = [locked EXCEPT ![b] = lock]
    /\ wait_on_unlock' = [wait_on_unlock EXCEPT ![b] = FALSE]
    /\ filler' = [filler EXCEPT ![b] = IF lock THEN t ELSE None]
    /\ held' = [held EXCEPT ![t][b] = i]

\* One pass of the loop of _cache_get.
CacheGetPass(t, i) ==
    \/ /\ ~UseFreeList /\ ~UseAlloc
       /\ thread' = [thread EXCEPT ![t] = "wait_free"]
       /\ arg' = [arg EXCEPT ![t] = i]
       /\ UNCHANGED <<pool, fields, held>>
    \/ /\ \E b \in Buffers : TakeBuffer(t, b, i, FALSE)
       /\ thread' = [thread EXCEPT ![t] = "running"]
       /\ arg' = [arg EXCEPT ![t] = None]

\* cache_get and cache_get_nohash.
CacheGet(t) ==
    /\ thread[t] = "running"
    /\ \/ noshrink_lookup /\ \E i \in Indexes : ~Claimed(i) /\ CacheGetPass(t, i)
       \/ CacheGetPass(t, Unhashed)

CacheGetResume(t) ==
    /\ thread[t] = "woken_free"
    /\ CacheGetPass(t, arg[t])

\* cache_get_nowait: as cache_get, but the buffer is locked until it is filled
\* in; NULL, and no effect, if there is none.
CacheGetNowait(t, i) ==
    /\ noshrink_lookup
    /\ thread[t] = "running"
    /\ ~Claimed(i)
    /\ \E b \in Buffers : TakeBuffer(t, b, i, TRUE)
    /\ UNCHANGED <<thread, arg>>

\* cache_hash: the holder of an unhashed buffer gives it an index.  (After
\* mksquashfs has dropped the end of its output it hands out positions again
\* that some buffer may still have: module DataLayout is about that.)
CacheHash(t, b, i) ==
    /\ noshrink_lookup
    /\ thread[t] = "running"
    /\ ~Claimed(i)
    /\ held[t][b] = Unhashed
    /\ index' = [index EXCEPT ![b] = i]
    /\ hashed' = hashed \cup {b}
    /\ held' = [held EXCEPT ![t][b] = i]
    /\ UNCHANGED <<count, used, free_list, allocated, uses, locked, wait_on_unlock,
                   filler, thread, arg>>

\* Mutant of CacheLookup: a buffer that is found stays on the free list.
CacheLookupKeepsFree(t, b, i) ==
    /\ thread[t] = "running"
    /\ b \in hashed /\ index[b] = i
    /\ held[t][b] = NotHeld
    /\ used' = used + (IF uses[b] = 0 THEN 1 ELSE 0)
    /\ uses' = [uses EXCEPT ![b] = @ + 1]
    /\ held' = [held EXCEPT ![t][b] = i]
    /\ thread' = [thread EXCEPT ![t] = IF locked[b] THEN "want_unlock" ELSE @]
    /\ arg' = [arg EXCEPT ![t] = IF locked[b] THEN b ELSE @]
    /\ UNCHANGED <<count, free_list, hashed, allocated, index, locked, wait_on_unlock,
                   filler>>

\* cache_lookup and cache_lookup_nowait (NULL, and no effect, if nothing is
\* found).  A buffer found locked has to be waited for.
CacheLookup(t, b, i) ==
    /\ thread[t] = "running"
    /\ b \in hashed /\ index[b] = i
    /\ held[t][b] = NotHeld
    /\ \/ /\ uses[b] = 0
          /\ \E k \in 1..Len(free_list) :
                free_list[k] = b /\ free_list' = RemoveNth(free_list, k)
          /\ used' = used + 1
       \/ uses[b] > 0 /\ UNCHANGED <<free_list, used>>
    /\ uses' = [uses EXCEPT ![b] = @ + 1]
    /\ held' = [held EXCEPT ![t][b] = i]
    /\ thread' = [thread EXCEPT ![t] = IF locked[b] THEN "want_unlock" ELSE @]
    /\ arg' = [arg EXCEPT ![t] = IF locked[b] THEN b ELSE @]
    /\ UNCHANGED <<count, hashed, allocated, index, locked, wait_on_unlock, filler>>

\* Mutant of CacheWaitUnlock: an if in place of the while.
CacheWaitUnlockOnce(t) ==
    /\ thread[t] \in {"want_unlock", "woken_unlock"}
    /\ IF locked[arg[t]] /\ thread[t] = "want_unlock"
       THEN /\ wait_on_unlock' = [wait_on_unlock EXCEPT ![arg[t]] = TRUE]
            /\ thread' = [thread EXCEPT ![t] = "wait_unlock"]
            /\ UNCHANGED arg
       ELSE /\ thread' = [thread EXCEPT ![t] = "running"]
            /\ arg' = [arg EXCEPT ![t] = None]
            /\ UNCHANGED wait_on_unlock
    /\ UNCHANGED <<pool, uses, index, locked, filler, held>>

\* One pass of the loop of cache_wait_unlock.
CacheWaitUnlock(t) ==
    /\ thread[t] \in {"want_unlock", "woken_unlock"}
    /\ IF locked[arg[t]]
       THEN /\ wait_on_unlock' = [wait_on_unlock EXCEPT ![arg[t]] = TRUE]
            /\ thread' = [thread EXCEPT ![t] = "wait_unlock"]
            /\ UNCHANGED arg
       ELSE /\ thread' = [thread EXCEPT ![t] = "running"]
            /\ arg' = [arg EXCEPT ![t] = None]
            /\ UNCHANGED wait_on_unlock
    /\ UNCHANGED <<pool, uses, index, locked, filler, held>>

\* cache_unlock: the broadcast wakes the waiters for every buffer.
CacheUnlock(t, b) ==
    /\ thread[t] = "running"
    /\ locked[b] /\ filler[b] = t
    /\ locked' = [locked EXCEPT ![b] = FALSE]
    /\ filler' = [filler EXCEPT ![b] = None]
    /\ wait_on_unlock' = [wait_on_unlock EXCEPT ![b] = FALSE]
    /\ thread' = IF wait_on_unlock[b]
                 THEN [u \in Threads |-> IF u \in At("wait_unlock")
                                         THEN "woken_unlock" ELSE thread[u]]
                 ELSE thread
    /\ UNCHANGED <<pool, uses, index, held, arg>>

\* pthread_cond_signal(&cache->wait_for_free)
SignalFree ==
    IF At("wait_free") = {}
    THEN UNCHANGED thread
    ELSE \E u \in At("wait_free") : thread' = [thread EXCEPT ![u] = "woken_free"]

\* Mutant of Release: the waiters are told only of the first free buffer.
ReleaseSignalFirst(b) ==
    /\ IF noshrink_lookup
       THEN /\ free_list' = Append(free_list, b)
            /\ used' = used - 1
            /\ UNCHANGED <<count, allocated>>
       ELSE /\ allocated' = allocated \ {b}
            /\ count' = count - 1
            /\ UNCHANGED <<free_list, used>>
    /\ IF free_list = <<>> /\ count = max_buffers THEN SignalFree ELSE UNCHANGED thread

\* The last user has released the buffer.
Release(b) ==
    /\ IF noshrink_lookup
       THEN /\ free_list' = Append(free_list, b)
            /\ used' = used - 1
            /\ UNCHANGED <<count, allocated>>
       ELSE /\ allocated' = allocated \ {b}
            /\ count' = count - 1
            /\ UNCHANGED <<free_list, used>>
    /\ SignalFree

\* cache_block_put
CacheBlockPut(t, b) ==
    /\ thread[t] = "running"
    /\ held[t][b] # NotHeld
    /\ noshrink_lookup => held[t][b] # Unhashed
    /\ filler[b] # t
    /\ held' = [held EXCEPT ![t][b] = NotHeld]
    /\ uses' = [uses EXCEPT ![b] = @ - 1]
    /\ \/ uses[b] = 1 /\ Release(b)
       \/ uses[b] # 1 /\ UNCHANGED <<free_list, used, allocated, count, thread>>
    /\ UNCHANGED <<hashed, index, locked, wait_on_unlock, filler, arg>>

\* A wakeup nobody signalled.
SpuriousWakeup(t) ==
    /\ \/ /\ thread[t] = "wait_free"
          /\ thread' = [thread EXCEPT ![t] = "woken_free"]
       \/ /\ thread[t] = "wait_unlock"
          /\ thread' = [thread EXCEPT ![t] = "woken_unlock"]
    /\ UNCHANGED <<pool, fields, held, arg>>

Next ==
  /\ \E t \in Threads :
        \/ CacheGet(t) \/ CacheGetResume(t)
        \/ CacheWaitUnlock(t) \/ SpuriousWakeup(t)
        \/ \E i \in Indexes : CacheGetNowait(t, i)
        \/ \E b \in Buffers : CacheUnlock(t, b) \/ CacheBlockPut(t, b)
        \/ \E b \in Buffers, i \in Indexes : CacheHash(t, b, i) \/ CacheLookup(t, b, i)
  /\ UNCHANGED policy

Spec == Init /\ [][Next]_vars

-----------------------------------------------------------------------------
Holders(b) == {t \in Threads : held[t][b] # NotHeld}
InUse == {b \in Buffers : uses[b] > 0}

(* The variables hold values of their C types. *)
TypeOK ==
    /\ count \in 0..max_buffers
    /\ used \in 0..max_buffers
    /\ free_list \in Seq(Buffers)
    /\ hashed \subseteq Buffers
    /\ allocated \subseteq Buffers
    /\ uses \in [Buffers -> 0..Cardinality(Threads)]
    /\ index \in [Buffers -> Indexes \cup {Unhashed}]
    /\ locked \in [Buffers -> BOOLEAN]
    /\ wait_on_unlock \in [Buffers -> BOOLEAN]
    /\ held \in [Threads -> [Buffers -> Indexes \cup {Unhashed, NotHeld}]]
    /\ thread \in [Threads -> {"running", "wait_free", "woken_free", "want_unlock",
                               "wait_unlock", "woken_unlock"}]
    /\ filler \in [Buffers -> Threads \cup {None}]

(* The counters of the cache agree with its lists: count is the number of   *)
(* allocated buffers; file_buffer->used is the number of holders; in a      *)
(* lookup cache every allocated buffer is either in use or on the free      *)
(* list, once, and cache->used counts the former; in a shrinking cache      *)
(* nothing is kept.  "a block on the free_list is hashed", says             *)
(* cache_freelist, and takes it out of the hash table without looking: that *)
(* is so, whichever way the buffer came to be released.                     *)
Accounting ==
    /\ TypeOK
    /\ count = Cardinality(allocated)
    /\ \A b \in Buffers : uses[b] = Cardinality(Holders(b))
    /\ InUse \subseteq allocated
    /\ \A j, k \in 1..Len(free_list) : free_list[j] = free_list[k] => j = k
    /\ {free_list[k] : k \in 1..Len(free_list)} = allocated \ InUse
    /\ noshrink_lookup => used = Cardinality(InUse)
    /\ \A k \in 1..Len(free_list) : free_list[k] \in hashed

(* A thread that holds a buffer holds the block it asked for: the buffer is *)
(* not given a new index, or handed to somebody else, before it is          *)
(* released.  Two buffers never have the same index.                        *)
HolderKeepsBlock ==
    /\ \A t \in Threads, b \in Buffers : held[t][b] \in Indexes =>
          /\ index[b] = held[t][b]
          /\ b \in hashed
    /\ \A t \in Threads, b \in Buffers : held[t][b] = Unhashed =>
          Holders(b) = {t} /\ b \notin hashed
    /\ \A b, c \in hashed : index[b] = index[c] => b = c

(* cache_block_put signals once for each buffer that becomes free, and a    *)
(* running thread may take the buffer before the thread that was woken: a   *)
(* thread still sleeps in cache_get only if for every buffer it could have  *)
(* there is a woken thread to take it.  cache_wait_unlock sleeps only on a  *)
(* buffer that is still locked, and that carries the flag which makes       *)
(* cache_unlock wake it, although the flag is shared by all waiters and one *)
(* broadcast serves all buffers.                                            *)
NoLostWakeup ==
    /\ At("wait_free") # {} =>
         (IF noshrink_lookup THEN Len(free_list) ELSE 0) + (max_buffers - count)
             <= Cardinality(At("woken_free"))
    /\ \A t \in At("wait_unlock") : locked[arg[t]] /\ wait_on_unlock[arg[t]]

(* A thread that found a buffer in the cache does not use it before the     *)
(* thread that fills it in is done.  "By definition a block can't be locked *)
(* and unused": the filler holds it.                                        *)
NoUseBeforeFilled ==
    \A b \in Buffers : locked[b] =>
        /\ filler[b] \in Holders(b)
        /\ \A t \in Holders(b) \ {filler[b]} : thread[t] # "running" /\ arg[t] = b
=============================================================================
