-------------------------- MODULE DataLayoutProofs --------------------------
(* Proofs about the fragments of DataLayout. *)
EXTENDS DataLayout, ListProofs

-----------------------------------------------------------------------------
(* The inductive invariant *)

Types ==
    /\ input \in Inputs
    /\ bytes \in Nat /\ start \in Nat /\ block \in Nat
    /\ fragments \in Nat /\ fragments_outstanding \in Int
    /\ fragment_table \in Seq(Nat \cup {None}) /\ Len(fragment_table) = fragments
    /\ to_frag \in Seq(Nat) /\ locked_fragment \in Seq(Nat)
    /\ current \in [Actions -> Nat \cup {None}]
    /\ deflator \in [FragDeflators -> [at : {"idle", "waiting", "compressed"},
                                       frag : Nat \cup {None}]]

\* What write_file may have left to do with the fragments locked, ...
LockedSteps ==
    \/ main = <<"blocks">> \/ main = <<"check">>
    \/ \E again \in {"file", "next"} :
          \/ main = <<"sync", "wait", "truncate", "unlock", "release", again>>
          \/ main = <<"wait", "truncate", "unlock", "release", again>>
          \/ main = <<"truncate", "unlock", "release", again>>
          \/ main = <<"unlock", "release", again>>
    \/ main = <<"sync", "wait", "truncate", "unlock", "next">>
    \/ main = <<"wait", "truncate", "unlock", "next">>
    \/ main = <<"truncate", "unlock", "next">>
    \/ main = <<"unlock", "next">>
    \/ main = <<"unlock", "fill", "record", "next">>
    \/ main = <<"fill", "unlock", "next">>

\* ... and with the fragments free to be placed; ...
OpenSteps ==
    \/ main = <<"file">> \/ main = <<"next">>
    \/ \E again \in {"file", "next"} : main = <<"release", again>>
    \/ main = <<"fill", "record", "next">> \/ main = <<"record", "next">>

\* ... and what is left to do after the last file: once all
\* fragments are placed, ...
AllPlaced == main = <<"sync", "wait">> \/ main = <<"wait">> \/ main = <<>>

\* ... after all fragments have been handed to the deflators, ...
HandedOver ==
    \/ main = <<"unlock", "outstanding", "sync", "wait">>
    \/ main = <<"outstanding", "sync", "wait">>
    \/ AllPlaced

\* ... and before.
LastSteps == main = <<"lastfrags", "unlock", "outstanding", "sync", "wait">> \/ HandedOver

Steps ==
    \/ LockedSteps /\ fragments_locked = TRUE /\ file \in Files
    \/ OpenSteps /\ fragments_locked = FALSE /\ file \in Files
    \/ LastSteps /\ fragments_locked = FALSE

\* The fragments being filled, and the ones handed to the deflators.
Filling == {a \in Actions : current[a] # None}
InFlight == Len(to_frag) + Cardinality(Deflating("waiting"))
                         + Cardinality(Deflating("compressed"))

\* locked_fragment never has more in it, or coming, than the fragment cache has
\* buffers: no fragment is allocated between lock and unlock until the last
\* moment, when no more fragments can come.
Room ==
    /\ Cardinality(Filling) + InFlight <= fragment_size
    /\ fragments_locked = FALSE => locked_fragment = <<>>
    /\ Len(locked_fragment) + InFlight <= fragment_size
    /\ main # <<"unlock", "next">> =>
          Len(locked_fragment) + Cardinality(Filling) + InFlight <= fragment_size

\* fragments_outstanding counts the fragments between write_fragment and their
\* place in the image.
Counted ==
    /\ fragments_outstanding = InFlight + Len(locked_fragment)
    /\ HandedOver => \A a \in Actions : current[a] = None
    /\ AllPlaced => fragments_outstanding = 0

\* The places a fragment without a place in the image may be.
Busy(d) == deflator[d].at # "idle"
Waits(n) ==
    \/ \E a \in Actions : current[a] = n
    \/ n \in Elems(to_frag) \/ n \in Elems(locked_fragment)
    \/ \E d \in FragDeflators : Busy(d) /\ deflator[d].frag = n

\* A fragment is in one place at most.
Apart ==
    /\ Distinct(to_frag) /\ Distinct(locked_fragment)
    /\ Elems(to_frag) \cap Elems(locked_fragment) = {}
    /\ \A a \in Filling : /\ current[a] \notin Elems(to_frag)
                          /\ current[a] \notin Elems(locked_fragment)
                          /\ \A b \in Actions : current[a] = current[b] => a = b
    /\ \A d \in FragDeflators : Busy(d) =>
          /\ deflator[d].frag \in Nat
          /\ deflator[d].frag \notin Elems(to_frag)
          /\ deflator[d].frag \notin Elems(locked_fragment)
          /\ \A a \in Actions : deflator[d].frag # current[a]
          /\ \A e \in FragDeflators : Busy(e) /\ deflator[e].frag = deflator[d].frag => e = d

\* The fragments on their way are those without a place.
Pending ==
    \A n \in Nat : Waits(n) <=> n \in DOMAIN fragment_table /\ fragment_table[n] = None

\* The end of what stays in the image when the file being written is taken
\* back, and the fragments below it.
Kept == IF fragments_locked THEN start ELSE bytes
Below ==
    /\ Kept <= bytes
    /\ \A n \in DOMAIN fragment_table : fragment_table[n] # None => fragment_table[n] < Kept
    /\ \A m, n \in DOMAIN fragment_table :
          fragment_table[m] # None /\ fragment_table[m] = fragment_table[n] => m = n

IInv == Types /\ Steps /\ Room /\ Counted /\ Apart /\ Pending /\ Below

-----------------------------------------------------------------------------
(* Counting *)

(* The deflators and the fragments being filled are finitely many.           *)
LEMMA CountsNat ==
    ASSUME FiniteSetFacts
    PROVE  /\ IsFiniteSet(Filling) /\ Cardinality(Filling) \in Nat
           /\ \A at \in {"waiting", "compressed"} :
                 IsFiniteSet(Deflating(at)) /\ Cardinality(Deflating(at)) \in Nat
<1>1. Filling \subseteq Actions /\ \A at : Deflating(at) \subseteq FragDeflators
  BY Zenon DEF Filling, Deflating
<1> QED
  BY <1>1, SizeAssumption, FinitePart, Zenon

-----------------------------------------------------------------------------
(* The steps of the main thread *)

(* Every step that main completes leaves the rest of its list.               *)
LEMMA Tails ==
    /\ \A x : /\ Tail(<<"sync", "wait", "truncate", "unlock", "release", x>>)
                   = <<"wait", "truncate", "unlock", "release", x>>
              /\ Tail(<<"wait", "truncate", "unlock", "release", x>>)
                   = <<"truncate", "unlock", "release", x>>
              /\ Tail(<<"truncate", "unlock", "release", x>>) = <<"unlock", "release", x>>
              /\ Tail(<<"unlock", "release", x>>) = <<"release", x>>
              /\ Tail(<<"release", x>>) = <<x>>
    /\ Tail(<<"sync", "wait", "truncate", "unlock", "next">>)
         = <<"wait", "truncate", "unlock", "next">>
    /\ Tail(<<"wait", "truncate", "unlock", "next">>) = <<"truncate", "unlock", "next">>
    /\ Tail(<<"truncate", "unlock", "next">>) = <<"unlock", "next">>
    /\ Tail(<<"unlock", "next">>) = <<"next">>
    /\ Tail(<<"unlock", "fill", "record", "next">>) = <<"fill", "record", "next">>
    /\ Tail(<<"fill", "unlock", "next">>) = <<"unlock", "next">>
    /\ Tail(<<"fill", "record", "next">>) = <<"record", "next">>
    /\ Tail(<<"record", "next">>) = <<"next">>
    /\ Tail(<<"lastfrags", "unlock", "outstanding", "sync", "wait">>)
         = <<"unlock", "outstanding", "sync", "wait">>
    /\ Tail(<<"unlock", "outstanding", "sync", "wait">>) = <<"outstanding", "sync", "wait">>
    /\ Tail(<<"outstanding", "sync", "wait">>) = <<"sync", "wait">>
    /\ Tail(<<"sync", "wait">>) = <<"wait">>
    /\ Tail(<<"wait">>) = <<>>
OBVIOUS

(* What may follow each of the steps that only remove themselves.            *)
LEMMA SyncSteps ==
    ASSUME Steps, At("sync")
    PROVE  \/ main = <<"sync", "wait">>
           \/ /\ fragments_locked = TRUE /\ file \in Files
              /\ \/ \E x \in {"file", "next"} :
                       main = <<"sync", "wait", "truncate", "unlock", "release", x>>
                 \/ main = <<"sync", "wait", "truncate", "unlock", "next">>
BY DEF Steps, LockedSteps, OpenSteps, LastSteps, HandedOver, AllPlaced, At
(* The step sequences main can be in when it waits for the writer. *)
LEMMA WaitSteps ==
    ASSUME Steps, At("wait")
    PROVE  \/ main = <<"wait">>
           \/ /\ fragments_locked = TRUE /\ file \in Files
              /\ \/ \E x \in {"file", "next"} :
                       main = <<"wait", "truncate", "unlock", "release", x>>
                 \/ main = <<"wait", "truncate", "unlock", "next">>
BY DEF Steps, LockedSteps, OpenSteps, LastSteps, HandedOver, AllPlaced, At
(* The step sequences main can be in when it unlocks the fragments. *)
LEMMA UnlockSteps ==
    ASSUME Steps, At("unlock")
    PROVE  \/ main = <<"unlock", "outstanding", "sync", "wait">>
           \/ /\ fragments_locked = TRUE /\ file \in Files
              /\ \/ \E x \in {"file", "next"} : main = <<"unlock", "release", x>>
                 \/ main = <<"unlock", "next">>
                 \/ main = <<"unlock", "fill", "record", "next">>
BY DEF Steps, LockedSteps, OpenSteps, LastSteps, HandedOver, AllPlaced, At
(* The remaining program points and what is locked at each. *)
LEMMA OtherSteps ==
    ASSUME Steps
    PROVE  /\ At("file") => main = <<"file">> /\ fragments_locked = FALSE /\ file \in Files
           /\ At("next") => main = <<"next">> /\ fragments_locked = FALSE /\ file \in Files
           /\ At("blocks") => main = <<"blocks">> /\ fragments_locked = TRUE /\ file \in Files
           /\ At("check") => main = <<"check">> /\ fragments_locked = TRUE /\ file \in Files
           /\ At("truncate") => 
                 /\ fragments_locked = TRUE /\ file \in Files
                 /\ \/ \E x \in {"file", "next"} : main = <<"truncate", "unlock", "release", x>>
                    \/ main = <<"truncate", "unlock", "next">>
           /\ At("release") =>
                 /\ fragments_locked = FALSE /\ file \in Files
                 /\ \E x \in {"file", "next"} : main = <<"release", x>>
           /\ At("record") => main = <<"record", "next">> /\ fragments_locked = FALSE /\ file \in Files
           /\ At("fill") =>
                 /\ file \in Files
                 /\ \/ main = <<"fill", "unlock", "next">> /\ fragments_locked = TRUE
                    \/ main = <<"fill", "record", "next">> /\ fragments_locked = FALSE
           /\ At("lastfrags") =>
                 main = <<"lastfrags", "unlock", "outstanding", "sync", "wait">> /\ fragments_locked = FALSE
           /\ At("outstanding") => main = <<"outstanding", "sync", "wait">> /\ fragments_locked = FALSE
BY DEF Steps, LockedSteps, OpenSteps, LastSteps, HandedOver, AllPlaced, At
(* Three steps before others.                                                *)
LEMMA Joined ==
    ASSUME NEW S, NEW s \in Seq(S), NEW t \in Seq(S)
    PROVE  /\ s \o t \in Seq(S) /\ Len(s \o t) = Len(s) + Len(t)
           /\ \A k \in 1..Len(s) : (s \o t)[k] = s[k]
           /\ \A k \in (Len(s) + 1)..(Len(s) + Len(t)) : (s \o t)[k] = t[k - Len(s)]
OBVIOUS
(* Two sequences of one length that agree everywhere are equal. *)
LEMMA SameList ==
    ASSUME NEW S, NEW s \in Seq(S), NEW t \in Seq(S), Len(s) = Len(t),
           \A k \in 1..Len(s) : s[k] = t[k]
    PROVE  s = t
OBVIOUS
(* What putting three elements in front of a sequence gives. *)
LEMMA ThreeBefore ==
    ASSUME NEW S, NEW s \in Seq(S), NEW t \in Seq(S), NEW r \in Seq(S),
           Len(s) = 3, Len(r) = 3 + Len(t), r[1] = s[1], r[2] = s[2], r[3] = s[3],
           \A k \in 1..Len(t) : r[k + 3] = t[k]
    PROVE  s \o t = r
<1> DEFINE u == s \o t
<1>1. /\ u \in Seq(S) /\ Len(u) = Len(s) + Len(t)
      /\ \A k \in 1..Len(s) : u[k] = s[k]
      /\ \A k \in (Len(s) + 1)..(Len(s) + Len(t)) : u[k] = t[k - Len(s)]
  BY Joined, Zenon
<1> HIDE DEF u
<1>2. Len(t) \in Nat
  OBVIOUS
<1>3. ASSUME NEW k \in 1..(3 + Len(t)) PROVE u[k] = r[k]
  <2>1. CASE k \in 1..3
    BY <1>1, <2>1
  <2>2. CASE k \notin 1..3
    <3>1. k - 3 \in 1..Len(t) /\ (k - 3) + 3 = k /\ u[k] = t[k - 3]
      BY <1>1, <1>2, <2>2
    <3>2. r[(k - 3) + 3] = t[k - 3]
      BY <3>1, Zenon
    <3> QED
      BY <3>1, <3>2, Zenon
  <2> QED
    BY <2>1, <2>2, Zenon
<1>4. u = r
  BY <1>1, <1>3, SameList
<1> QED
  BY <1>4, Zenon DEF u

(* The list after Truncation is the longer one or the shorter one.           *)
LEMMA TruncationSteps ==
    ASSUME NEW written, NEW x
    PROVE  /\ \/ Truncation(written) \o <<"unlock", "release", x>>
                   = <<"sync", "wait", "truncate", "unlock", "release", x>>
              \/ Truncation(written) \o <<"unlock", "release", x>> = <<"unlock", "release", x>>
           /\ \/ Truncation(written) \o <<"unlock", "next">>
                   = <<"sync", "wait", "truncate", "unlock", "next">>
              \/ Truncation(written) \o <<"unlock", "next">> = <<"unlock", "next">>
<1>1. Truncation(written) = <<"sync", "wait", "truncate">> \/ Truncation(written) = <<>>
  BY Zenon DEF Truncation
<1> DEFINE s == <<"sync", "wait", "truncate">>
<1>2. s \o <<"unlock", "release", x>> = <<"sync", "wait", "truncate", "unlock", "release", x>>
  <2> DEFINE S == {"sync", "wait", "truncate", "unlock", "release", x}
             t == <<"unlock", "release", x>>
             r == <<"sync", "wait", "truncate", "unlock", "release", x>>
  <2>1. s \in Seq(S) /\ t \in Seq(S) /\ r \in Seq(S) /\ Len(s) = 3 /\ Len(t) = 3 /\ Len(r) = 6
    OBVIOUS
  <2>2. /\ r[1] = s[1] /\ r[2] = s[2] /\ r[3] = s[3]
        /\ r[1 + 3] = t[1] /\ r[2 + 3] = t[2] /\ r[3 + 3] = t[3]
    OBVIOUS
  <2> HIDE DEF S, s, t, r
  <2>3. Len(r) = 3 + Len(t) /\ \A k \in 1..Len(t) : r[k + 3] = t[k]
    BY <2>1, <2>2
  <2>4. s \o t = r
    BY <2>1, <2>2, <2>3, ThreeBefore, Zenon
  <2> QED
    BY <2>4, Zenon DEF s, t, r
<1>3. s \o <<"unlock", "next">> = <<"sync", "wait", "truncate", "unlock", "next">>
  <2> DEFINE S == {"sync", "wait", "truncate", "unlock", "next"}
             t == <<"unlock", "next">>
             r == <<"sync", "wait", "truncate", "unlock", "next">>
  <2>1. s \in Seq(S) /\ t \in Seq(S) /\ r \in Seq(S) /\ Len(s) = 3 /\ Len(t) = 2 /\ Len(r) = 5
    OBVIOUS
  <2>2. r[1] = s[1] /\ r[2] = s[2] /\ r[3] = s[3] /\ r[1 + 3] = t[1] /\ r[2 + 3] = t[2]
    OBVIOUS
  <2> HIDE DEF S, s, t, r
  <2>3. Len(r) = 3 + Len(t) /\ \A k \in 1..Len(t) : r[k + 3] = t[k]
    BY <2>1, <2>2
  <2>4. s \o t = r
    BY <2>1, <2>2, <2>3, ThreeBefore, Zenon
  <2> QED
    BY <2>4, Zenon DEF s, t, r
<1>4. <<>> \o <<"unlock", "release", x>> = <<"unlock", "release", x>>
  OBVIOUS
<1>5. <<>> \o <<"unlock", "next">> = <<"unlock", "next">>
  OBVIOUS
<1>6. CASE Truncation(written) = <<>>
  BY <1>4, <1>5, <1>6, Zenon
<1>7. CASE Truncation(written) = s
  BY <1>2, <1>3, <1>7, Zenon
<1> QED
  BY <1>1, <1>6, <1>7, Zenon

-----------------------------------------------------------------------------
(* Steps that leave the fragments alone *)

(* The file being written has an action and blocks of some size.             *)
LEMMA FileTyped ==
    ASSUME Types, file \in Files
    PROVE  /\ F.action \in Actions
           /\ F.blocks \in Seq(Data \cup {Hole})
           /\ F.blocks # <<>> \/ F.tail # None
<1>1. /\ input.files \in Seq(Elems(input.files))
      /\ \A f \in Elems(input.files) : /\ f.blocks \in Seq(Data \cup {Hole})
                                       /\ f.action \in Actions
                                       /\ f.blocks # <<>> \/ f.tail # None
  BY InputAssumption, Zenon DEF Types
<1>2. F \in Elems(input.files)
  BY <1>1, Zenon DEF F, Files, Elems
<1> QED
  BY <1>1, <1>2, Zenon

(* A step that leaves the fragments and the lock alone and keeps what is     *)
(* below Kept preserves the invariant.                                       *)
LEMMA Aside ==
    ASSUME IInv, UNCHANGED <<fragVars, fragments_locked, input>>,
           bytes' \in Nat, start' \in Nat, block' \in Nat,
           Kept <= Kept', Kept' <= bytes', Steps',
           main = <<"unlock", "next">> => main' = main,
           HandedOver' => \A a \in Actions : current[a] = None,
           AllPlaced' => fragments_outstanding = 0
    PROVE  IInv'
<1>1. Types'
  BY Zenon DEF IInv, Types, fragVars
<1>2. /\ InFlight' = InFlight /\ Filling' = Filling
      /\ \A n : Waits(n)' <=> Waits(n)
  BY Zenon DEF InFlight, Filling, Deflating, Waits, Busy, fragVars
<1>3. Room'
  BY <1>2, Zenon DEF IInv, Room, fragVars
<1>4. Counted'
  BY <1>2, Zenon DEF IInv, Counted, fragVars
<1>5. Apart'
  BY <1>2, Zenon DEF IInv, Apart, Busy, fragVars
<1>6. Pending'
  BY <1>2, Zenon DEF IInv, Pending, fragVars
<1>7. Below'
  <2>1. Kept \in Nat /\ Kept' \in Nat
    BY <1>1, Zenon DEF IInv, Types, Kept
  <2>2. fragment_table \in Seq(Nat \cup {None}) /\ fragment_table' = fragment_table
    BY Zenon DEF IInv, Types, fragVars
  <2>3. ASSUME NEW n \in DOMAIN fragment_table, fragment_table[n] # None
        PROVE  fragment_table[n] < Kept'
    <3>1. fragment_table[n] \in Nat /\ fragment_table[n] < Kept
      BY <2>2, <2>3 DEF IInv, Below
    <3> QED
      BY <2>1, <3>1
  <2> QED
    BY <2>2, <2>3, Zenon DEF IInv, Below
<1> QED
  BY <1>1, <1>3, <1>4, <1>5, <1>6, <1>7, Zenon DEF IInv

(* In particular a step of another thread, or one that leaves main where it  *)
(* is.                                                                       *)
LEMMA AsideStays ==
    ASSUME IInv, UNCHANGED <<fragVars, fragments_locked, input, main, file, start>>,
           bytes' \in Nat, bytes <= bytes', block' \in Nat
    PROVE  IInv'
<1>1. bytes \in Nat /\ start \in Nat /\ Kept <= bytes /\ Kept \in Nat /\ fragments_locked \in BOOLEAN
  BY Zenon DEF IInv, Types, Below, Kept, Steps
<1>2. Kept <= Kept' /\ Kept' <= bytes'
  BY <1>1 DEF Kept
<1>3. Steps'
  BY Zenon DEF IInv, Steps, LockedSteps, OpenSteps, LastSteps, HandedOver, AllPlaced, Files
<1>4. (HandedOver' <=> HandedOver) /\ (AllPlaced' <=> AllPlaced)
  BY Zenon DEF HandedOver, AllPlaced
<1>5. /\ HandedOver => \A a \in Actions : current[a] = None
      /\ AllPlaced => fragments_outstanding = 0
  BY Zenon DEF IInv, Counted
<1> QED
  BY <1>1, <1>2, <1>3, <1>4, <1>5, Aside, Zenon

(* And a step of main that moves neither the end of the image nor the file.  *)
LEMMA AsideMoves ==
    ASSUME IInv, UNCHANGED <<fragVars, fragments_locked, input, start, block, bytes>>,
           Steps', main # <<"unlock", "next">>,
           HandedOver' => \A a \in Actions : current[a] = None,
           AllPlaced' => fragments_outstanding = 0
    PROVE  IInv'
<1>1. bytes \in Nat /\ start \in Nat /\ block \in Nat /\ Kept <= bytes /\ Kept \in Nat
  BY Zenon DEF IInv, Types, Below, Kept
<1>2. Kept' = Kept
  BY Zenon DEF Kept
<1> QED
  BY <1>1, <1>2, Aside
(* While files are being written main is not among its last steps.           *)
LEMMA Elsewhere ==
    LockedSteps \/ OpenSteps => ~HandedOver /\ ~AllPlaced
<1>1. LockedSteps => ~HandedOver /\ ~AllPlaced
  <2>1. ASSUME main = <<"unlock", "outstanding", "sync", "wait">> PROVE ~LockedSteps
    BY <2>1, Zenon DEF LockedSteps
  <2>2. ASSUME main = <<"outstanding", "sync", "wait">> PROVE ~LockedSteps
    BY <2>2, Zenon DEF LockedSteps
  <2>3. ASSUME main = <<"sync", "wait">> PROVE ~LockedSteps
    BY <2>3, Zenon DEF LockedSteps
  <2>4. ASSUME main = <<"wait">> PROVE ~LockedSteps
    BY <2>4, Zenon DEF LockedSteps
  <2>5. ASSUME main = <<>> PROVE ~LockedSteps
    BY <2>5, Zenon DEF LockedSteps
  <2> QED
    BY <2>1, <2>2, <2>3, <2>4, <2>5, Zenon DEF HandedOver, AllPlaced
<1>2. OpenSteps => ~HandedOver /\ ~AllPlaced
  BY DEF OpenSteps, HandedOver, AllPlaced
<1> QED
  BY <1>1, <1>2, Zenon

(* So a step from one such list to another preserves the invariant.          *)
LEMMA AsideWrites ==
    ASSUME IInv, UNCHANGED <<fragVars, fragments_locked, input, file, start, block, bytes>>,
           file \in Files, NEW step, At(step), step # "unlock",
           \/ fragments_locked = TRUE /\ LockedSteps'
           \/ fragments_locked = FALSE /\ OpenSteps'
    PROVE  IInv'
<1>1. LockedSteps' \/ OpenSteps' => ~HandedOver' /\ ~AllPlaced'
  BY Elsewhere, PTL
<1>2. Steps'
  BY Zenon DEF Steps, Files
<1>3. main # <<"unlock", "next">>
  BY DEF At
<1> QED
  BY <1>1, <1>2, <1>3, AsideMoves, Zenon

(* The steps in which main goes on and the fragments stay where they are.    *)
LEMMA SyncWriterStep == ASSUME IInv, SyncWriter PROVE IInv'
<1>1. Steps /\ At("sync") /\ main' = Tail(main) /\ UNCHANGED <<fragments_locked, input, file>>
  BY Zenon DEF IInv, SyncWriter, fileVars
<1>2. CASE main = <<"sync", "wait">>
  <2>1. main' = <<"wait">>
    BY <1>1, <1>2, Tails, Zenon
  <2>2. HandedOver /\ AllPlaced /\ LastSteps'
    BY <1>2, <2>1, Zenon DEF HandedOver, AllPlaced, LastSteps
  <2>3. ~LockedSteps /\ ~OpenSteps
    BY <2>2, Elsewhere, Zenon
  <2>4. Steps' /\ main # <<"unlock", "next">>
    BY <1>1, <1>2, <2>2, <2>3, Zenon DEF Steps
  <2> QED
    BY <2>2, <2>4, AsideMoves, Zenon DEF SyncWriter, fileVars, IInv, Counted
<1>3. CASE main # <<"sync", "wait">>
  <2>1. /\ fragments_locked = TRUE /\ file \in Files
        /\ \/ \E x \in {"file", "next"} : main' = <<"wait", "truncate", "unlock", "release", x>>
           \/ main' = <<"wait", "truncate", "unlock", "next">>
    BY <1>1, <1>3, SyncSteps, Tails, Zenon
  <2>2. LockedSteps'
    BY <2>1, Zenon DEF LockedSteps
  <2> QED
    BY <1>1, <2>1, <2>2, AsideWrites, Zenon DEF SyncWriter, fileVars
<1> QED
  BY <1>2, <1>3, Zenon

(* The answer of the writer to a synchronisation keeps the invariant. *)
LEMMA WriterSyncedStep == ASSUME IInv, WriterSynced PROVE IInv'
<1>1. Steps /\ At("wait") /\ main' = Tail(main) /\ UNCHANGED <<fragments_locked, input, file>>
  BY Zenon DEF IInv, WriterSynced, fileVars
<1>2. CASE main = <<"wait">>
  <2>1. main' = <<>>
    BY <1>1, <1>2, Tails, Zenon
  <2>2. HandedOver /\ AllPlaced /\ LastSteps'
    BY <1>2, <2>1, Zenon DEF HandedOver, AllPlaced, LastSteps
  <2>3. ~LockedSteps /\ ~OpenSteps
    BY <2>2, Elsewhere, Zenon
  <2>4. Steps' /\ main # <<"unlock", "next">>
    BY <1>1, <1>2, <2>2, <2>3, Zenon DEF Steps
  <2> QED
    BY <2>2, <2>4, AsideMoves, Zenon DEF WriterSynced, fileVars, IInv, Counted
<1>3. CASE main # <<"wait">>
  <2>1. /\ fragments_locked = TRUE /\ file \in Files
        /\ \/ \E x \in {"file", "next"} : main' = <<"truncate", "unlock", "release", x>>
           \/ main' = <<"truncate", "unlock", "next">>
    BY <1>1, <1>3, WaitSteps, Tails, Zenon
  <2>2. LockedSteps'
    BY <2>1, Zenon DEF LockedSteps
  <2> QED
    BY <1>1, <2>1, <2>2, AsideWrites, Zenon DEF WriterSynced, fileVars
<1> QED
  BY <1>2, <1>3, Zenon

(* Truncating the output after a failed read keeps the invariant. *)
LEMMA TruncateStep == ASSUME IInv, Truncate PROVE IInv'
<1>1. Steps /\ At("truncate") /\ main' = Tail(main) /\ UNCHANGED <<fragments_locked, input, file>>
  BY Zenon DEF IInv, Truncate, fileVars
<1>2. /\ fragments_locked = TRUE /\ file \in Files
      /\ \/ \E x \in {"file", "next"} : main' = <<"unlock", "release", x>>
         \/ main' = <<"unlock", "next">>
  BY <1>1, OtherSteps, Tails, Zenon
<1>3. LockedSteps'
  BY <1>2, Zenon DEF LockedSteps
<1> QED
  BY <1>1, <1>2, <1>3, AsideWrites, Zenon DEF Truncate, fileVars

(* Releasing the buffers of a file being checked keeps the invariant. *)
LEMMA ReleaseHeldStep == ASSUME IInv, ReleaseHeld PROVE IInv'
<1>1. Steps /\ At("release") /\ main' = Tail(main) /\ UNCHANGED <<fragments_locked, input, file>>
  BY Zenon DEF IInv, ReleaseHeld
<1>2. /\ fragments_locked = FALSE /\ file \in Files
      /\ \E x \in {"file", "next"} : main' = <<x>>
  BY <1>1, OtherSteps, Tails, Zenon
<1>3. OpenSteps'
  BY <1>2, Zenon DEF OpenSteps
<1> QED
  BY <1>1, <1>2, <1>3, AsideWrites, Zenon DEF ReleaseHeld

(* Recording where a file was written keeps the invariant. *)
LEMMA RecordFileStep == ASSUME IInv, RecordFile PROVE IInv'
<1>1. Steps /\ At("record") /\ main' = Tail(main) /\ UNCHANGED <<fragments_locked, input, file>>
  BY Zenon DEF IInv, RecordFile
<1>2. fragments_locked = FALSE /\ file \in Files /\ main' = <<"next">>
  BY <1>1, OtherSteps, Tails, Zenon
<1>3. OpenSteps'
  BY <1>2, Zenon DEF OpenSteps
<1> QED
  BY <1>1, <1>2, <1>3, AsideWrites, Zenon DEF RecordFile

(* Ending the block loop of a file keeps the invariant. *)
LEMMA EndBlocksStep == ASSUME IInv, EndBlocks PROVE IInv'
<1>1. Steps /\ At("blocks") /\ UNCHANGED <<fragments_locked, input, file>>
  BY Zenon DEF IInv, EndBlocks
<1>2. /\ fragments_locked = TRUE /\ file \in Files
      /\ main' = <<"check">> \/ main' = <<"unlock", "fill", "record", "next">>
  BY <1>1, OtherSteps, Zenon DEF EndBlocks
<1>3. LockedSteps'
  BY <1>2, Zenon DEF LockedSteps
<1> QED
  BY <1>1, <1>2, <1>3, AsideWrites, Zenon DEF EndBlocks

(* Going on to the next file keeps the invariant. *)
LEMMA NextFileStep == ASSUME IInv, NextFile PROVE IInv'
<1>1. Steps /\ UNCHANGED <<fragments_locked, input>> /\ At("next") /\ file' = file + 1
  BY Zenon DEF IInv, NextFile
<1>2. fragments_locked = FALSE /\ file \in Files /\ main # <<"unlock", "next">>
  BY <1>1, OtherSteps DEF At
<1>3. Len(input.files) \in Nat
  BY InputAssumption DEF IInv, Types
<1>4. CASE file = Len(input.files)
  <2>1. main' = <<"lastfrags", "unlock", "outstanding", "sync", "wait">>
    BY <1>4, Zenon DEF NextFile, Finish
  <2>2. Steps'
    BY <1>1, <1>2, <2>1, Zenon DEF Steps, LastSteps
  <2>3. ~HandedOver' /\ ~AllPlaced'
    BY <2>1, Zenon DEF HandedOver, AllPlaced
  <2> QED
    BY <1>2, <2>2, <2>3, AsideMoves, Zenon DEF NextFile
<1>5. CASE file # Len(input.files)
  <2>1. main' = <<"file">> /\ file' \in Files /\ Files' = Files
    BY <1>1, <1>2, <1>3, <1>5 DEF NextFile, Files
  <2>2. OpenSteps'
    BY <2>1, Zenon DEF OpenSteps
  <2>3. Steps'
    BY <1>1, <1>2, <2>1, <2>2, Zenon DEF Steps
  <2>4. ~HandedOver' /\ ~AllPlaced'
    BY <2>1, Zenon DEF HandedOver, AllPlaced
  <2> QED
    BY <1>2, <2>3, <2>4, AsideMoves, Zenon DEF NextFile
<1> QED
  BY <1>4, <1>5, Zenon

(* Waiting until no fragment is outstanding keeps the invariant. *)
LEMMA OutstandingStep == ASSUME IInv, Outstanding PROVE IInv'
<1>1. /\ Steps /\ main' = Tail(main) /\ UNCHANGED <<fragments_locked, input, file>>
      /\ At("outstanding") /\ fragments_outstanding = 0
  BY Zenon DEF IInv, Outstanding, fileVars
<1>2. /\ main = <<"outstanding", "sync", "wait">> /\ fragments_locked = FALSE
      /\ main' = <<"sync", "wait">>
  BY <1>1, OtherSteps, Tails, Zenon
<1>3. LastSteps' /\ HandedOver
  BY <1>2, Zenon DEF LastSteps, HandedOver, AllPlaced
<1>4. Steps' /\ main # <<"unlock", "next">>
  BY <1>1, <1>2, <1>3, Zenon DEF Steps
<1> QED
  BY <1>1, <1>3, <1>4, AsideMoves, Zenon DEF Outstanding, fileVars, IInv, Counted
(* A file that is taken back gives up what lies above Kept, and no more.     *)
LEMMA AsideTakenBack ==
    ASSUME IInv, UNCHANGED <<fragVars, fragments_locked, input, file, start, block>>,
           bytes' = start, fragments_locked = TRUE, file \in Files,
           NEW step, At(step), step # "unlock", LockedSteps'
    PROVE  IInv'
<1>1. LockedSteps' \/ OpenSteps' => ~HandedOver' /\ ~AllPlaced'
  BY Elsewhere, PTL
<1>2. Steps'
  BY Zenon DEF Steps, Files
<1>3. main # <<"unlock", "next">>
  BY DEF At
<1>4. /\ start' = start /\ start \in Nat /\ bytes' \in Nat /\ block' \in Nat
      /\ Kept = start /\ Kept' = start
  BY Zenon DEF IInv, Types, Kept
<1>5. Kept <= Kept' /\ Kept' <= bytes'
  BY <1>4
<1> QED
  BY <1>1, <1>2, <1>3, <1>4, <1>5, Aside, Zenon

(* A read error in the middle of a file keeps the invariant. *)
LEMMA ReadErrorStep == ASSUME IInv, ReadError PROVE IInv'
<1>1. Steps /\ At("blocks") /\ bytes' = start
  BY Zenon DEF IInv, ReadError
<1>2. fragments_locked = TRUE /\ file \in Files
  BY <1>1, OtherSteps, Zenon
<1>3. PICK again \in {"file", "next"} :
         main' = Truncation(~DupMode \/ Thresh > 0) \o <<"unlock", "release", again>>
  BY Zenon DEF ReadError
<1>4. \/ main' = <<"sync", "wait", "truncate", "unlock", "release", again>>
      \/ main' = <<"unlock", "release", again>>
  BY <1>3, TruncationSteps, Zenon
<1>5. LockedSteps'
  BY <1>4, Zenon DEF LockedSteps
<1> QED
  BY <1>1, <1>2, <1>5, AsideTakenBack, Zenon DEF ReadError

(* The duplicate check keeps the invariant. *)
LEMMA CheckDuplicateStep == ASSUME IInv, CheckDuplicate PROVE IInv'
<1>1. Steps /\ At("check") /\ UNCHANGED <<fragVars, fragments_locked, input, file, start, block>>
  BY Zenon DEF IInv, CheckDuplicate
<1>2. fragments_locked = TRUE /\ file \in Files
  BY <1>1, OtherSteps, Zenon
<1>3. CASE bytes' = start /\ main' = Truncation(Thresh > 0) \o <<"unlock", "next">>
  <2>1. \/ main' = <<"sync", "wait", "truncate", "unlock", "next">>
        \/ main' = <<"unlock", "next">>
    BY <1>3, TruncationSteps, Zenon
  <2>2. LockedSteps'
    BY <2>1, Zenon DEF LockedSteps
  <2> QED
    BY <1>1, <1>2, <1>3, <2>2, AsideTakenBack, Zenon
<1>4. CASE bytes' = bytes /\ main' = <<"fill", "unlock", "next">>
  <2>1. LockedSteps'
    BY <1>4, Zenon DEF LockedSteps
  <2> QED
    BY <1>1, <1>2, <1>4, <2>1, AsideWrites, Zenon
<1>5. \/ bytes' = start /\ main' = Truncation(Thresh > 0) \o <<"unlock", "next">>
      \/ bytes' = bytes /\ main' = <<"fill", "unlock", "next">>
  BY Zenon DEF CheckDuplicate
<1> QED
  BY <1>3, <1>4, <1>5, Zenon

(* A block moves the end of the image up.                                    *)
LEMMA WriteBlockStep == ASSUME IInv, WriteBlock PROVE IInv'
<1>1. /\ Steps /\ Types /\ At("blocks") /\ block < Len(F.blocks) /\ block' = block + 1
      /\ UNCHANGED <<fragVars, fragments_locked, input, main, file, start>>
  BY Zenon DEF IInv, WriteBlock
<1>2. bytes \in Nat /\ block \in Nat /\ block' \in Nat
  BY <1>1 DEF Types
<1>3. file \in Files
  BY <1>1, OtherSteps, Zenon
<1>4. F.blocks \in Seq(Data \cup {Hole})
  BY <1>1, <1>3, FileTyped, Zenon
<1>5. F.blocks[block + 1] \in Data \cup {Hole}
  BY <1>1, <1>2, <1>4
<1>6. \/ bytes' = bytes
      \/ F.blocks[block + 1] # Hole /\ bytes' = bytes + Size[F.blocks[block + 1]]
  BY Zenon DEF WriteBlock
<1>7. F.blocks[block + 1] # Hole => Size[F.blocks[block + 1]] \in Nat
  BY <1>5, SizeAssumption, Zenon
<1>8. bytes' \in Nat /\ bytes <= bytes'
  BY <1>2, <1>6, <1>7
<1> QED
  BY <1>1, <1>2, <1>8, AsideStays, Zenon

(* The writer, the deflators and the lookups touch none of this.             *)
LEMMA OtherThreadsStep ==
    ASSUME IInv, Compare \/ WriterTake \/ WriterWrite \/ Deflate \/ UNCHANGED vars
    PROVE  IInv'
<1>1. UNCHANGED <<fragVars, fragments_locked, input, main, file, start, block, bytes>>
  BY Zenon DEF Compare, WriterTake, WriterWrite, Deflate, vars, fileVars, fragVars
<1>2. bytes \in Nat /\ block \in Nat
  BY Zenon DEF IInv, Types
<1>3. bytes' \in Nat /\ bytes <= bytes' /\ block' \in Nat
  BY <1>1, <1>2
<1> QED
  BY <1>1, <1>3, AsideStays, Zenon
-----------------------------------------------------------------------------
(* write_file, which locks the fragments *)

(* Starting to write a file keeps the invariant. *)
LEMMA WriteFileStep == ASSUME IInv, WriteFile PROVE IInv'
<1>1. /\ Steps /\ At("file") /\ UNCHANGED <<fragVars, input, file, bytes>>
      /\ block' = 0
  BY Zenon DEF IInv, WriteFile
<1>2. /\ fragments_locked = FALSE /\ file \in Files /\ main = <<"file">>
      /\ main # <<"unlock", "next">>
  BY <1>1, OtherSteps DEF At
<1>3. bytes \in Nat /\ start \in Nat /\ Kept = bytes
  BY <1>2, Zenon DEF IInv, Types, Kept
<1>4. LockedSteps' \/ OpenSteps' => ~HandedOver' /\ ~AllPlaced'
  BY Elsewhere, PTL
<1>5. CASE F.blocks = <<>>
  <2>1. /\ main' = <<"next">> \/ main' = <<"fill", "record", "next">>
        /\ UNCHANGED <<fragments_locked, start>>
    BY <1>5, Zenon DEF WriteFile
  <2>2. OpenSteps' /\ Kept' = bytes
    BY <1>1, <1>2, <2>1, Zenon DEF OpenSteps, Kept
  <2>3. Steps'
    BY <1>1, <1>2, <2>1, <2>2, Zenon DEF Steps, Files
  <2>4. /\ bytes' \in Nat /\ start' \in Nat /\ block' \in Nat
        /\ Kept <= Kept' /\ Kept' <= bytes'
    BY <1>1, <1>3, <2>1, <2>2
  <2> QED
    BY <1>1, <1>2, <1>4, <2>1, <2>2, <2>3, <2>4, Aside, Zenon
<1>6. CASE F.blocks # <<>>
  <2>1. fragments_locked' = TRUE /\ start' = bytes /\ main' = <<"blocks">>
    BY <1>6, Zenon DEF WriteFile
  <2>2. LockedSteps' /\ Kept' = bytes
    BY <2>1, Zenon DEF LockedSteps, Kept
  <2>3. Steps'
    BY <1>1, <1>2, <2>1, <2>2, Zenon DEF Steps, Files
  <2>4. Types'
    BY <1>1, <1>3, <2>1, Zenon DEF IInv, Types, fragVars
  <2>5. /\ InFlight' = InFlight /\ Filling' = Filling
        /\ \A n : Waits(n)' <=> Waits(n)
    BY <1>1, Zenon DEF InFlight, Filling, Deflating, Waits, Busy, fragVars
  <2>6. Room'
    BY <1>1, <1>2, <2>1, <2>5, Zenon DEF IInv, Room, fragVars
  <2>7. Counted'
    BY <1>1, <1>4, <2>2, <2>5, Zenon DEF IInv, Counted, fragVars
  <2>8. Apart'
    BY <1>1, Zenon DEF IInv, Apart, Busy, Filling, fragVars
  <2>9. Pending'
    BY <1>1, <2>5, Zenon DEF IInv, Pending, fragVars
  <2>10. Below'
    BY <1>1, <1>3, <2>2, Zenon DEF IInv, Below, fragVars
  <2> QED
    BY <2>3, <2>4, <2>6, <2>7, <2>8, <2>9, <2>10, Zenon DEF IInv
<1> QED
  BY <1>5, <1>6, Zenon

-----------------------------------------------------------------------------
(* The fragment deflators *)

(* The types of a deflator's record.                                         *)
LEMMA DeflatorTyped ==
    ASSUME Types, NEW d \in FragDeflators
    PROVE  /\ deflator[d].at \in {"idle", "waiting", "compressed"}
           /\ deflator[d].frag \in Nat \cup {None}
BY Zenon DEF Types

(* While main stays where it is, its part of the invariant stays.            *)
LEMMA MainStays ==
    ASSUME Steps, UNCHANGED <<main, fragments_locked, input, file>>
    PROVE  Steps' /\ (HandedOver' <=> HandedOver) /\ (AllPlaced' <=> AllPlaced)
BY Zenon DEF Steps, LockedSteps, OpenSteps, LastSteps, HandedOver, AllPlaced, Files

(* A deflator takes the oldest fragment.                                     *)
LEMMA FragTakeStep == ASSUME FiniteSetFacts, IInv, NEW d \in FragDeflators, FragTake(d) PROVE IInv'
<1> DEFINE n == Head(to_frag)
<1>1. /\ deflator[d].at = "idle" /\ to_frag # <<>> /\ to_frag' = Tail(to_frag)
      /\ deflator' = [deflator EXCEPT ![d] = [at |-> "waiting", frag |-> n]]
      /\ UNCHANGED <<bytes, fragments_locked, main, locked_fragment, fragments, fragment_table,
                     current, fragments_outstanding, input, file, block, start>>
  BY Zenon DEF FragTake, fileVars
<1>2. Types /\ Steps /\ to_frag \in Seq(Nat) /\ Distinct(to_frag)
  BY Zenon DEF IInv, Types, Apart
<1>3. /\ Tail(to_frag) \in Seq(Nat) /\ Len(Tail(to_frag)) = Len(to_frag) - 1
      /\ Distinct(Tail(to_frag)) /\ n \in Elems(to_frag)
      /\ Elems(Tail(to_frag)) = Elems(to_frag) \ {n}
  BY <1>1, <1>2, TailElems, Zenon
<1>4. n \in Nat /\ Len(to_frag) \in Nat
  BY <1>1, <1>2
<1> HIDE DEF n
<1>5. /\ deflator'[d] = [at |-> "waiting", frag |-> n]
      /\ \A e \in FragDeflators : e # d => deflator'[e] = deflator[e]
      /\ deflator' \in [FragDeflators -> [at : {"idle", "waiting", "compressed"},
                                          frag : Nat \cup {None}]]
  BY <1>1, <1>2, <1>4, Zenon DEF Types
<1>6. deflator'[d].at = "waiting" /\ deflator'[d].frag = n
  BY <1>5
<1>7. Types'
  BY <1>1, <1>2, <1>3, <1>5, Zenon DEF Types
<1>8. Steps' /\ (HandedOver' <=> HandedOver) /\ (AllPlaced' <=> AllPlaced)
  BY <1>1, <1>2, MainStays, Zenon
<1>9. InFlight' = InFlight /\ Filling' = Filling
  <2>1. /\ Deflating("waiting")' = Deflating("waiting") \cup {d} /\ d \notin Deflating("waiting")
        /\ Deflating("compressed")' = Deflating("compressed")
    BY <1>1, <1>5, <1>6 DEF Deflating
  <2>2. Cardinality(Deflating("waiting")') = Cardinality(Deflating("waiting")) + 1
    BY <2>1, CountsNat, OneMore, Zenon
  <2>3. Cardinality(Deflating("waiting")) \in Nat /\ Cardinality(Deflating("compressed")) \in Nat
    BY CountsNat, Zenon
  <2>4. InFlight' = (Len(to_frag) - 1) + (Cardinality(Deflating("waiting")) + 1)
                        + Cardinality(Deflating("compressed"))
    BY <1>1, <1>3, <2>1, <2>2, Zenon DEF InFlight
  <2> QED
    BY <1>1, <1>4, <2>3, <2>4 DEF InFlight, Filling
<1>10. Room'
  BY <1>1, <1>9, Zenon DEF IInv, Room
<1>11. Counted'
  BY <1>1, <1>8, <1>9, Zenon DEF IInv, Counted
<1>12. /\ Elems(to_frag') = Elems(to_frag) \ {n} /\ Elems(locked_fragment') = Elems(locked_fragment)
       /\ \A e \in FragDeflators : e # d => (Busy(e)' <=> Busy(e))
       /\ ~Busy(d) /\ Busy(d)'
  BY <1>1, <1>3, <1>5, <1>6, Zenon DEF Busy
<1>13. Apart'
  <2>1. /\ Distinct(to_frag') /\ Distinct(locked_fragment')
        /\ Elems(to_frag') \cap Elems(locked_fragment') = {}
    BY <1>1, <1>3, <1>12, Zenon DEF IInv, Apart
  <2>2. \A a \in Filling' : /\ current'[a] \notin Elems(to_frag')
                            /\ current'[a] \notin Elems(locked_fragment')
                            /\ \A b \in Actions : current'[a] = current'[b] => a = b
    BY <1>1, <1>9, <1>12, Zenon DEF IInv, Apart
  <2>3. \A a \in Actions : n # current[a]
    BY <1>3, <1>4, NoneAssumption, Zenon DEF IInv, Apart, Filling
  <2>4. n \notin Elems(locked_fragment)
    BY <1>3, Zenon DEF IInv, Apart
  <2>5. \A e \in FragDeflators : Busy(e) => deflator[e].frag # n
    BY <1>3, Zenon DEF IInv, Apart
  <2>6. ASSUME NEW e \in FragDeflators, Busy(e)'
        PROVE  /\ deflator'[e].frag \in Nat
               /\ deflator'[e].frag \notin Elems(to_frag')
               /\ deflator'[e].frag \notin Elems(locked_fragment')
               /\ \A a \in Actions : deflator'[e].frag # current'[a]
               /\ \A f \in FragDeflators : Busy(f)' /\ deflator'[f].frag = deflator'[e].frag => f = e
    <3>1. CASE e = d
      BY <1>1, <1>4, <1>5, <1>6, <1>12, <2>3, <2>4, <2>5, <3>1, Zenon
    <3>2. CASE e # d
      <4>1. Busy(e) /\ deflator'[e] = deflator[e]
        BY <1>5, <1>12, <2>6, <3>2, Zenon
      <4>2. /\ deflator[e].frag \in Nat
            /\ deflator[e].frag \notin Elems(to_frag)
            /\ deflator[e].frag \notin Elems(locked_fragment)
            /\ \A a \in Actions : deflator[e].frag # current[a]
            /\ \A f \in FragDeflators : Busy(f) /\ deflator[f].frag = deflator[e].frag => f = e
        BY <4>1, Zenon DEF IInv, Apart
      <4> QED
        BY <1>1, <1>5, <1>6, <1>12, <2>5, <3>2, <4>1, <4>2, Zenon
    <3> QED
      BY <3>1, <3>2, Zenon
  <2> QED
    BY <2>1, <2>2, <2>6, Zenon DEF Apart
<1>14. Pending'
  <2>1. \A m \in Nat : Waits(m)' <=> Waits(m)
    BY <1>1, <1>3, <1>5, <1>6, <1>12, Zenon DEF Waits
  <2> QED
    BY <1>1, <2>1, Zenon DEF IInv, Pending
<1>15. Below'
  BY <1>1, Zenon DEF IInv, Below, Kept
<1> QED
  BY <1>7, <1>8, <1>10, <1>11, <1>13, <1>14, <1>15, Zenon DEF IInv
(* A fragment that has been compressed is still the deflator's.              *)
LEMMA FragCompressStep == ASSUME FiniteSetFacts, IInv, NEW d \in FragDeflators, FragCompress(d) PROVE IInv'
<1>1. /\ deflator[d].at = "waiting" /\ deflator' = [deflator EXCEPT ![d].at = "compressed"]
      /\ UNCHANGED <<bytes, fragments_locked, main, locked_fragment, to_frag, fragments,
                     fragment_table, current, fragments_outstanding, input, file, block, start>>
  BY Zenon DEF FragCompress, fileVars
<1>2. Types /\ Steps
  BY Zenon DEF IInv
<1>3. /\ deflator'[d].at = "compressed" /\ deflator'[d].frag = deflator[d].frag
      /\ \A e \in FragDeflators : e # d => deflator'[e] = deflator[e]
  BY <1>1, <1>2, Zenon DEF Types
<1>4. deflator' \in [FragDeflators -> [at : {"idle", "waiting", "compressed"},
                                       frag : Nat \cup {None}]]
  <2>1. [deflator[d] EXCEPT !.at = "compressed"]
           \in [at : {"idle", "waiting", "compressed"}, frag : Nat \cup {None}]
    BY <1>2, Zenon DEF Types
  <2>2. deflator' = [deflator EXCEPT ![d] = [deflator[d] EXCEPT !.at = "compressed"]]
    BY <1>1, Zenon
  <2> QED
    BY <1>2, <2>1, <2>2, Zenon DEF Types
<1>5. Types'
  BY <1>1, <1>2, <1>4, Zenon DEF Types
<1>6. Steps' /\ (HandedOver' <=> HandedOver) /\ (AllPlaced' <=> AllPlaced)
  BY <1>1, <1>2, MainStays, Zenon
<1>7. InFlight' = InFlight /\ Filling' = Filling
  <2>1. /\ Deflating("waiting")' = Deflating("waiting") \ {d} /\ d \in Deflating("waiting")
        /\ Deflating("compressed")' = Deflating("compressed") \cup {d}
        /\ d \notin Deflating("compressed")
    BY <1>1, <1>3, Zenon DEF Deflating
  <2>2. /\ Cardinality(Deflating("waiting")') = Cardinality(Deflating("waiting")) - 1
        /\ Cardinality(Deflating("compressed")') = Cardinality(Deflating("compressed")) + 1
    BY <2>1, CountsNat, OneMore, OneLess, Zenon
  <2>3. Cardinality(Deflating("waiting")) \in Nat /\ Cardinality(Deflating("compressed")) \in Nat
    BY CountsNat, Zenon
  <2>4. InFlight' = Len(to_frag) + (Cardinality(Deflating("waiting")) - 1)
                        + (Cardinality(Deflating("compressed")) + 1)
    BY <1>1, <2>2, Zenon DEF InFlight
  <2>5. Len(to_frag) \in Nat
    BY <1>2 DEF Types
  <2> QED
    BY <1>1, <2>3, <2>4, <2>5 DEF InFlight, Filling
<1>8. Room'
  BY <1>1, <1>7, Zenon DEF IInv, Room
<1>9. Counted'
  BY <1>1, <1>6, <1>7, Zenon DEF IInv, Counted
<1>10. \A e \in FragDeflators : (Busy(e)' <=> Busy(e)) /\ deflator'[e].frag = deflator[e].frag
  BY <1>1, <1>3, Zenon DEF Busy
<1>11. Apart'
  BY <1>1, <1>7, <1>10 DEF IInv, Apart
<1>12. Pending'
  <2>1. \A m \in Nat : Waits(m)' <=> Waits(m)
    BY <1>1, <1>10, Zenon DEF Waits
  <2> QED
    BY <1>1, <2>1, Zenon DEF IInv, Pending
<1>13. Below'
  BY <1>1, Zenon DEF IInv, Below, Kept
<1> QED
  BY <1>5, <1>6, <1>8, <1>9, <1>11, <1>12, <1>13, Zenon DEF IInv

(* A deflator that lets go of its fragment.                                  *)
LEMMA LetGo ==
    ASSUME FiniteSetFacts, IInv, NEW d \in FragDeflators, deflator[d].at = "compressed",
           deflator' = [deflator EXCEPT ![d] = [at |-> "idle", frag |-> None]],
           to_frag' = to_frag, current' = current
    PROVE  /\ deflator[d].frag \in Nat /\ Busy(d) /\ ~Busy(d)'
           /\ \A e \in FragDeflators : e # d => deflator'[e] = deflator[e]
           /\ \A e \in FragDeflators : e # d => (Busy(e)' <=> Busy(e))
           /\ deflator' \in [FragDeflators -> [at : {"idle", "waiting", "compressed"},
                                               frag : Nat \cup {None}]]
           /\ InFlight' = InFlight - 1 /\ InFlight \in Nat /\ InFlight' \in Nat
           /\ Filling' = Filling
<1>1. Types /\ Busy(d)
  BY Zenon DEF IInv, Busy
<1>2. /\ deflator'[d] = [at |-> "idle", frag |-> None]
      /\ \A e \in FragDeflators : e # d => deflator'[e] = deflator[e]
      /\ deflator' \in [FragDeflators -> [at : {"idle", "waiting", "compressed"},
                                          frag : Nat \cup {None}]]
  BY <1>1, Zenon DEF Types
<1>3. deflator'[d].at = "idle"
  BY <1>2, Zenon
<1>4. /\ Deflating("compressed")' = Deflating("compressed") \ {d}
      /\ d \in Deflating("compressed")
      /\ Deflating("waiting")' = Deflating("waiting")
  BY <1>2, <1>3, Zenon DEF Deflating
<1>5. Cardinality(Deflating("compressed")') = Cardinality(Deflating("compressed")) - 1
  BY <1>4, CountsNat, OneLess, Zenon
<1>6. /\ Cardinality(Deflating("waiting")) \in Nat /\ Cardinality(Deflating("compressed")) \in Nat
      /\ Cardinality(Deflating("compressed")') \in Nat
  <2>1. IsFiniteSet(Deflating("compressed")')
    BY <1>4, CountsNat, FinitePart, Zenon
  <2> QED
    BY <2>1, CountsNat, Numbered, Zenon
<1>7. Len(to_frag) \in Nat
  BY <1>1 DEF Types
<1>8. InFlight' = Len(to_frag) + Cardinality(Deflating("waiting"))
                        + Cardinality(Deflating("compressed")')
  BY <1>4, Zenon DEF InFlight
<1>9. InFlight' = InFlight - 1 /\ InFlight \in Nat /\ InFlight' \in Nat
  BY <1>5, <1>6, <1>7, <1>8 DEF InFlight
<1>10. deflator[d].frag \in Nat
  BY <1>1, Zenon DEF IInv, Apart
<1> QED
  BY <1>1, <1>2, <1>3, <1>9, <1>10, Zenon DEF Busy, Filling
(* A fragment is placed at the end of the image, or set aside while the      *)
(* main thread is placing a file.                                            *)
LEMMA FragPlaceStep == ASSUME FiniteSetFacts, IInv, NEW d \in FragDeflators, FragPlace(d) PROVE IInv'
<1> DEFINE n == deflator[d].frag
<1>1. /\ deflator[d].at = "compressed"
      /\ deflator' = [deflator EXCEPT ![d] = [at |-> "idle", frag |-> None]]
      /\ UNCHANGED <<fragments_locked, main, to_frag, fragments, current, input, file, block, start>>
  BY Zenon DEF FragPlace, fileVars
<1>2. Types /\ Steps /\ bytes \in Nat
  BY Zenon DEF IInv, Types
<1>3. /\ n \in Nat /\ Busy(d) /\ ~Busy(d)'
      /\ \A e \in FragDeflators : e # d => deflator'[e] = deflator[e]
      /\ \A e \in FragDeflators : e # d => (Busy(e)' <=> Busy(e))
      /\ deflator' \in [FragDeflators -> [at : {"idle", "waiting", "compressed"},
                                          frag : Nat \cup {None}]]
      /\ InFlight' = InFlight - 1 /\ InFlight \in Nat /\ InFlight' \in Nat
      /\ Filling' = Filling
  BY <1>1, LetGo, Zenon
<1>4. /\ n \notin Elems(to_frag) /\ n \notin Elems(locked_fragment)
      /\ \A a \in Actions : n # current[a]
      /\ \A e \in FragDeflators : Busy(e) /\ deflator[e].frag = n => e = d
  BY <1>3, Zenon DEF IInv, Apart
<1>5. Waits(n) /\ n \in DOMAIN fragment_table /\ fragment_table[n] = None
  BY <1>3, Zenon DEF IInv, Pending, Waits
<1>6. Steps' /\ (HandedOver' <=> HandedOver) /\ (AllPlaced' <=> AllPlaced)
  BY <1>1, <1>2, MainStays, Zenon
<1>7. Cardinality(Filling) \in Nat
  BY CountsNat, Zenon
<1>8. locked_fragment \in Seq(Nat) /\ Len(locked_fragment) \in Nat /\ Distinct(locked_fragment)
  BY <1>2 DEF Types, IInv, Apart
<1>9. \A e \in FragDeflators : Busy(e)' =>
         /\ e # d /\ Busy(e) /\ deflator'[e] = deflator[e]
         /\ deflator[e].frag \in Nat /\ deflator[e].frag # n
         /\ deflator[e].frag \notin Elems(to_frag)
         /\ deflator[e].frag \notin Elems(locked_fragment)
         /\ \A a \in Actions : deflator[e].frag # current[a]
         /\ \A f \in FragDeflators : Busy(f) /\ deflator[f].frag = deflator[e].frag => f = e
  BY <1>3, <1>4, Zenon DEF IInv, Apart
<1>10. /\ fragment_size \in Nat /\ Cardinality(Filling) + InFlight <= fragment_size
       /\ fragments_locked = FALSE => locked_fragment = <<>>
       /\ Len(locked_fragment) + InFlight <= fragment_size
       /\ main # <<"unlock", "next">> =>
             Len(locked_fragment) + Cardinality(Filling) + InFlight <= fragment_size
  BY SizeAssumption, Zenon DEF IInv, Room
<1>11. InFlight' = InFlight - 1 /\ InFlight \in Nat
  BY <1>3, Zenon
<1> HIDE DEF n
<1>12. CASE fragments_locked = FALSE
  <2>1. /\ fragment_table' = [fragment_table EXCEPT ![n] = bytes]
        /\ bytes' = bytes + 1 /\ fragments_outstanding' = fragments_outstanding - 1
        /\ locked_fragment' = locked_fragment
    BY <1>12, Zenon DEF FragPlace, FragLength, n
  <2>2. fragment_table \in Seq(Nat \cup {None}) /\ Len(fragment_table) = fragments
    BY <1>2, Zenon DEF Types
  <2>3. /\ fragment_table' \in Seq(Nat \cup {None}) /\ Len(fragment_table') = fragments
        /\ DOMAIN fragment_table' = DOMAIN fragment_table
        /\ fragment_table'[n] = bytes
        /\ \A m \in DOMAIN fragment_table : m # n => fragment_table'[m] = fragment_table[m]
    BY <1>2, <1>5, <2>1, <2>2
  <2>4. Types'
    <3>1. bytes' \in Nat /\ fragments_outstanding' \in Int
      BY <1>2, <2>1 DEF Types
    <3> QED
      BY <1>1, <1>2, <1>3, <2>1, <2>3, <3>1, Zenon DEF Types
  <2>5. Room'
    <3>1. /\ Cardinality(Filling) + InFlight' <= fragment_size
          /\ Len(locked_fragment) + InFlight' <= fragment_size
          /\ main # <<"unlock", "next">> =>
                Len(locked_fragment) + Cardinality(Filling) + InFlight' <= fragment_size
      BY <1>7, <1>8, <1>10, <1>11, SMTT(30)
    <3> QED
      BY <1>1, <1>3, <1>10, <2>1, <3>1, Zenon DEF Room
  <2>6. Counted'
    <3>1. fragments_outstanding' = InFlight' + Len(locked_fragment')
      BY <1>3, <1>8, <2>1 DEF IInv, Counted
    <3>2. AllPlaced => fragments_outstanding' = 0
      <4>1. AllPlaced => fragments_outstanding = 0
        BY Zenon DEF IInv, Counted
      <4>2. fragments_outstanding = InFlight + Len(locked_fragment)
        BY Zenon DEF IInv, Counted
      <4> QED
        BY <1>3, <1>8, <4>1, <4>2
    <3> QED
      BY <1>1, <1>6, <3>1, <3>2, Zenon DEF IInv, Counted
  <2>7. Apart'
    <3>1. /\ Distinct(to_frag') /\ Distinct(locked_fragment')
          /\ Elems(to_frag') \cap Elems(locked_fragment') = {}
          /\ \A a \in Filling' : /\ current'[a] \notin Elems(to_frag')
                                 /\ current'[a] \notin Elems(locked_fragment')
                                 /\ \A b \in Actions : current'[a] = current'[b] => a = b
      BY <1>1, <1>3, <2>1 DEF IInv, Apart
    <3> QED
      BY <1>1, <1>9, <2>1, <3>1 DEF Apart
  <2>8. Pending'
    <3>1. ASSUME NEW m \in Nat PROVE Waits(m)' <=> Waits(m) /\ m # n
      <4>1. ASSUME Waits(m)' PROVE Waits(m) /\ m # n
        BY <1>1, <1>3, <1>4, <1>9, <2>1, <4>1, Zenon DEF Waits
      <4>2. ASSUME Waits(m), m # n PROVE Waits(m)'
        <5>1. ASSUME NEW e \in FragDeflators, Busy(e), deflator[e].frag = m
              PROVE  Busy(e)' /\ deflator'[e].frag = m
          BY <1>3, <4>2, <5>1, Zenon DEF n
        <5> QED
          BY <1>1, <2>1, <4>2, <5>1, Zenon DEF Waits
      <4> QED
        BY <4>1, <4>2, Zenon
    <3>2. Pending'
      <4>1. bytes # None
        BY <1>2, NoneAssumption, Zenon
      <4>2. ASSUME NEW m \in Nat
            PROVE  Waits(m)' <=> m \in DOMAIN fragment_table' /\ fragment_table'[m] = None
        <5>1. CASE m = n
          BY <1>5, <2>3, <3>1, <4>1, <5>1, Zenon
        <5>2. CASE m # n
          BY <2>3, <3>1, <5>2, Zenon DEF IInv, Pending
        <5> QED
          BY <5>1, <5>2, Zenon
      <4> QED
        BY <4>2, Zenon DEF Pending
    <3> QED
      BY <3>2, Zenon
  <2>9. Below'
    <3>1. Kept = bytes /\ Kept' = bytes + 1 /\ Kept' <= bytes'
      BY <1>1, <1>2, <1>12, <2>1 DEF Kept
    <3>2. ASSUME NEW m \in DOMAIN fragment_table, fragment_table[m] # None
          PROVE  fragment_table[m] \in Nat /\ fragment_table[m] < bytes
      BY <2>2, <3>1, <3>2 DEF IInv, Below
    <3>3. \A m \in DOMAIN fragment_table' : fragment_table'[m] # None => fragment_table'[m] < Kept'
      BY <1>2, <2>3, <3>1, <3>2
    <3>4. ASSUME NEW m \in DOMAIN fragment_table', NEW k \in DOMAIN fragment_table',
                 fragment_table'[m] # None, fragment_table'[m] = fragment_table'[k]
          PROVE  m = k
      <4>1. CASE m # n /\ k # n
        BY <2>3, <3>4, <4>1, Zenon DEF IInv, Below
      <4>2. CASE m = n /\ k # n
        BY <1>2, <2>3, <3>2, <3>4, <4>2
      <4>3. CASE m # n /\ k = n
        BY <1>2, <2>3, <3>2, <3>4, <4>3
      <4> QED
        BY <4>1, <4>2, <4>3, Zenon
    <3> QED
      BY <3>1, <3>3, <3>4, Zenon DEF Below
  <2> QED
    BY <1>6, <2>4, <2>5, <2>6, <2>7, <2>8, <2>9, Zenon DEF IInv
<1>13. CASE fragments_locked = TRUE
  <2>1. /\ locked_fragment' = Append(locked_fragment, n)
        /\ UNCHANGED <<bytes, fragment_table, fragments_outstanding>>
    BY <1>13, Zenon DEF FragPlace, n
  <2>2. /\ locked_fragment' \in Seq(Nat) /\ Len(locked_fragment') = Len(locked_fragment) + 1
        /\ Distinct(locked_fragment') /\ Elems(locked_fragment') = Elems(locked_fragment) \cup {n}
    BY <1>3, <1>4, <1>8, <2>1, AppendElems, Zenon
  <2>3. Types'
    BY <1>1, <1>2, <1>3, <2>1, <2>2, Zenon DEF Types
  <2>4. Room'
    <3>1. /\ Cardinality(Filling) + InFlight' <= fragment_size
          /\ Len(locked_fragment') + InFlight' <= fragment_size
          /\ main # <<"unlock", "next">> =>
                Len(locked_fragment') + Cardinality(Filling) + InFlight' <= fragment_size
      <4>1. Len(locked_fragment') = Len(locked_fragment) + 1
        BY <2>2, Zenon
      <4> QED
        BY <1>7, <1>8, <1>10, <1>11, <4>1, SMTT(30)
    <3> QED
      BY <1>1, <1>3, <1>13, <3>1, Zenon DEF Room
  <2>5. Counted'
    <3>1. fragments_outstanding' = InFlight' + Len(locked_fragment')
      <4>1. /\ fragments_outstanding = InFlight + Len(locked_fragment)
            /\ fragments_outstanding' = fragments_outstanding
        BY <2>1, Zenon DEF IInv, Counted
      <4>2. Len(locked_fragment') = Len(locked_fragment) + 1
        BY <2>2, Zenon
      <4> QED
        BY <1>8, <1>11, <4>1, <4>2
    <3> QED
      BY <1>1, <1>6, <2>1, <3>1, Zenon DEF IInv, Counted
  <2>6. Apart'
    <3>1. /\ Distinct(to_frag') /\ Elems(to_frag') \cap Elems(locked_fragment') = {}
      <4>1. to_frag' = to_frag /\ Distinct(to_frag) /\ Elems(to_frag) \cap Elems(locked_fragment) = {}
        BY <1>1, Zenon DEF IInv, Apart
      <4> QED
        BY <1>4, <2>2, <4>1, Zenon
    <3>2. \A a \in Filling' : /\ current'[a] \notin Elems(to_frag')
                              /\ current'[a] \notin Elems(locked_fragment')
                              /\ \A b \in Actions : current'[a] = current'[b] => a = b
      BY <1>1, <1>3, <1>4, <2>2, Zenon DEF IInv, Apart, Filling
    <3>3. ASSUME NEW e \in FragDeflators, Busy(e)'
          PROVE  /\ deflator'[e].frag \in Nat
                 /\ deflator'[e].frag \notin Elems(to_frag')
                 /\ deflator'[e].frag \notin Elems(locked_fragment')
                 /\ \A a \in Actions : deflator'[e].frag # current'[a]
      BY <1>1, <1>9, <2>2, <3>3
    <3>4. ASSUME NEW e \in FragDeflators, Busy(e)', NEW f \in FragDeflators, Busy(f)',
                 deflator'[f].frag = deflator'[e].frag
          PROVE  f = e
      BY <1>9, <3>4, Zenon
    <3>5. Distinct(locked_fragment')
      BY <2>2, Zenon
    <3> QED
      BY <3>1, <3>2, <3>3, <3>4, <3>5, Zenon DEF Apart
  <2>7. Pending'
    <3>1. ASSUME NEW m \in Nat PROVE Waits(m)' <=> Waits(m)
      <4>1. CASE m = n
        <5>1. n \in Elems(locked_fragment')
          BY <2>2, Zenon
        <5> QED
          BY <1>5, <4>1, <5>1, Zenon DEF Waits
      <4>2. CASE m # n
        <5>1. /\ m \in Elems(locked_fragment') <=> m \in Elems(locked_fragment)
              /\ to_frag' = to_frag /\ current' = current
          BY <1>1, <2>2, <4>2, Zenon
        <5>2. ASSUME NEW e \in FragDeflators
              PROVE  (Busy(e) /\ deflator[e].frag = m) <=> (Busy(e)' /\ deflator'[e].frag = m)
          BY <1>3, <1>9, <4>2, Zenon DEF n
        <5> QED
          BY <5>1, <5>2, Zenon DEF Waits
      <4> QED
        BY <4>1, <4>2, Zenon
    <3> QED
      BY <2>1, <3>1, Zenon DEF IInv, Pending
  <2>8. Below'
    BY <1>1, <2>1, Zenon DEF IInv, Below, Kept
  <2> QED
    BY <1>6, <2>3, <2>4, <2>5, <2>6, <2>7, <2>8, Zenon DEF IInv
<1> QED
  BY <1>2, <1>12, <1>13, Zenon DEF Steps
-----------------------------------------------------------------------------
(* unlock_fragments *)

(* Unlocking, which writes the waiting fragments, keeps the invariant. *)
LEMMA UnlockFragmentsStep == ASSUME FiniteSetFacts, IInv, UnlockFragments PROVE IInv'
<1> DEFINE L == locked_fragment
<1>1. /\ At("unlock") /\ main' = Tail(main)
      /\ locked_fragment' = <<>> /\ fragments_locked' = FALSE
      /\ bytes' = bytes + FragLength * Len(L)
      /\ fragments_outstanding' = fragments_outstanding - Len(L)
      /\ UNCHANGED <<to_frag, fragments, current, deflator, input, file, block, start>>
  BY Zenon DEF UnlockFragments, fileVars
<1>0. fragment_table' = [n \in DOMAIN fragment_table |->
         IF \E i \in DOMAIN L : L[i] = n
         THEN bytes + FragLength * ((CHOOSE i \in DOMAIN L : L[i] = n) - 1)
         ELSE fragment_table[n]]
  BY Zenon DEF UnlockFragments
<1>2. /\ Types /\ Steps /\ bytes \in Nat /\ start \in Nat /\ fragments_outstanding \in Int
      /\ fragment_table \in Seq(Nat \cup {None}) /\ Len(fragment_table) = fragments
      /\ fragments \in Nat /\ L \in Seq(Nat) /\ Len(L) \in Nat
  BY DEF IInv, Types
<1>3. bytes' = bytes + Len(L) /\ bytes' \in Nat /\ bytes \in Nat /\ Len(L) \in Nat
  BY <1>1, <1>2 DEF FragLength
<1>4. ASSUME NEW n \in DOMAIN fragment_table, n \in Elems(L)
      PROVE  \E i \in 1..Len(L) : L[i] = n /\ fragment_table'[n] = bytes + (i - 1)
  <2> DEFINE j == CHOOSE i \in DOMAIN L : L[i] = n
  <2>1. j \in DOMAIN L /\ L[j] = n
    BY <1>2, <1>4 DEF Elems
  <2>2. j \in 1..Len(L)
    BY <1>2, <2>1
  <2>3. fragment_table'[n] = bytes + FragLength * (j - 1)
    BY <1>0, <2>1, Zenon
  <2> HIDE DEF j
  <2>4. fragment_table'[n] = bytes + (j - 1)
    BY <1>2, <2>2, <2>3 DEF FragLength
  <2> QED
    BY <2>1, <2>2, <2>4, Zenon
<1>5. ASSUME NEW n \in DOMAIN fragment_table, n \notin Elems(L)
      PROVE  fragment_table'[n] = fragment_table[n]
  <2>1. ~\E i \in DOMAIN L : L[i] = n
    BY <1>2, <1>5 DEF Elems
  <2> QED
    BY <1>0, <2>1, Zenon
<1>6. DOMAIN fragment_table' = DOMAIN fragment_table /\ DOMAIN fragment_table = 1..fragments
  BY <1>0, <1>2
<1>7. /\ fragment_table' \in Seq(Nat \cup {None}) /\ Len(fragment_table') = fragments
  <2>1. ASSUME NEW n \in 1..fragments PROVE fragment_table'[n] \in Nat \cup {None}
    <3>1. CASE n \in Elems(L)
      <4>1. PICK i \in 1..Len(L) : fragment_table'[n] = bytes + (i - 1)
        BY <1>4, <1>6, <3>1, Zenon
      <4> QED
        BY <1>3, <4>1
    <3>2. CASE n \notin Elems(L)
      BY <1>2, <1>5, <1>6, <3>2
    <3> QED
      BY <3>1, <3>2, Zenon
  <2>2. fragment_table' \in [1..fragments -> Nat \cup {None}]
    <3>1. fragment_table' = [m \in 1..fragments |-> fragment_table'[m]]
      BY <1>0, <1>6, Zenon
    <3> QED
      BY <2>1, <3>1, Zenon
  <2> QED
    BY <1>2, <2>2
<1>8. Types'
  <2>1. /\ locked_fragment' = <<>> /\ fragments_outstanding' = fragments_outstanding - Len(L)
        /\ fragments_outstanding \in Int /\ Len(L) \in Nat
    BY <1>1, <1>2, Zenon
  <2>2. locked_fragment' \in Seq(Nat) /\ fragments_outstanding' \in Int
    BY <2>1
  <2> QED
    BY <1>1, <1>2, <1>3, <1>7, <2>2, Zenon DEF Types
<1>9. /\ Steps' /\ ~AllPlaced' /\ (HandedOver' => HandedOver)
  <2>1. CASE main = <<"unlock", "outstanding", "sync", "wait">>
    <3>1. main' = <<"outstanding", "sync", "wait">>
      BY <1>1, <2>1, Tails, Zenon
    <3>2. LastSteps' /\ ~AllPlaced' /\ HandedOver
      BY <2>1, <3>1, Zenon DEF LastSteps, HandedOver, AllPlaced
    <3> QED
      BY <1>1, <3>2, Zenon DEF Steps
  <2>2. CASE main # <<"unlock", "outstanding", "sync", "wait">>
    <3>1. /\ file \in Files
          /\ \/ \E x \in {"file", "next"} : main' = <<"release", x>>
             \/ main' = <<"next">>
             \/ main' = <<"fill", "record", "next">>
      BY <1>1, <1>2, <2>2, UnlockSteps, Tails, Zenon
    <3>2. OpenSteps'
      BY <3>1, Zenon DEF OpenSteps
    <3>3. LockedSteps' \/ OpenSteps' => ~HandedOver' /\ ~AllPlaced'
      BY Elsewhere, PTL
    <3> QED
      BY <1>1, <3>1, <3>2, <3>3, Zenon DEF Steps, Files
  <2> QED
    BY <2>1, <2>2, Zenon
<1>10. InFlight' = InFlight /\ Filling' = Filling /\ Len(locked_fragment') = 0
  BY <1>1, Zenon DEF InFlight, Filling, Deflating
<1>11. InFlight \in Nat /\ Cardinality(Filling) \in Nat
  BY <1>2, CountsNat DEF InFlight, Types
<1>12. Room'
  <2>1. Cardinality(Filling) + InFlight <= fragment_size /\ fragment_size \in Nat
    BY SizeAssumption, Zenon DEF IInv, Room
  <2>2. /\ Len(locked_fragment') + InFlight <= fragment_size
        /\ Len(locked_fragment') + Cardinality(Filling) + InFlight <= fragment_size
    BY <1>10, <1>11, <2>1
  <2> QED
    BY <1>1, <1>10, <2>1, <2>2, Zenon DEF Room
<1>13. Counted'
  <2>1. fragments_outstanding' = InFlight' + Len(locked_fragment')
    BY <1>1, <1>2, <1>10, <1>11 DEF IInv, Counted
  <2> QED
    BY <1>1, <1>9, <2>1, Zenon DEF IInv, Counted
<1>14. Elems(locked_fragment') = {} /\ Distinct(locked_fragment')
  BY <1>1 DEF Elems, Distinct
<1>15. Apart'
  <2>1. /\ Distinct(to_frag') /\ Elems(to_frag') \cap Elems(locked_fragment') = {}
    BY <1>1, <1>14, Zenon DEF IInv, Apart
  <2>2. \A a \in Filling' : /\ current'[a] \notin Elems(to_frag')
                            /\ current'[a] \notin Elems(locked_fragment')
                            /\ \A b \in Actions : current'[a] = current'[b] => a = b
    BY <1>1, <1>10, <1>14, Zenon DEF IInv, Apart
  <2>3. \A e \in FragDeflators : Busy(e)' <=> Busy(e)
    BY <1>1, Zenon DEF Busy
  <2>4. ASSUME NEW e \in FragDeflators, Busy(e)'
        PROVE  /\ deflator'[e].frag \in Nat
               /\ deflator'[e].frag \notin Elems(to_frag')
               /\ deflator'[e].frag \notin Elems(locked_fragment')
               /\ \A a \in Actions : deflator'[e].frag # current'[a]
               /\ \A f \in FragDeflators : Busy(f)' /\ deflator'[f].frag = deflator'[e].frag => f = e
    BY <1>1, <1>14, <2>3, <2>4, Zenon DEF IInv, Apart
  <2> QED
    BY <1>14, <2>1, <2>2, <2>4, Zenon DEF Apart
<1>16. Pending'
  <2>1. ASSUME NEW m \in Elems(L)
        PROVE  /\ m \notin Elems(to_frag) /\ \A a \in Actions : current[a] # m
               /\ \A e \in FragDeflators : Busy(e) => deflator[e].frag # m
    <3>1. m \in Nat
      BY <1>2, <2>1 DEF Elems
    <3> QED
      BY <2>1, <3>1, NoneAssumption, Zenon DEF IInv, Apart, Filling
  <2>2. ASSUME NEW m \in Nat PROVE Waits(m)' <=> Waits(m) /\ m \notin Elems(L)
    BY <1>1, <1>14, <2>1, Zenon DEF Waits, Busy
  <2>3. ASSUME NEW m \in Nat
        PROVE  Waits(m)' <=> m \in DOMAIN fragment_table' /\ fragment_table'[m] = None
    <3>1. CASE m \in Elems(L)
      <4>1. ~Waits(m)' /\ Waits(m)
        BY <2>2, <3>1, Zenon DEF Waits
      <4>2. m \in DOMAIN fragment_table
        BY <4>1, Zenon DEF IInv, Pending
      <4>3. PICK i \in 1..Len(L) : fragment_table'[m] = bytes + (i - 1)
        BY <1>4, <3>1, <4>2, Zenon
      <4>4. fragment_table'[m] \in Nat
        BY <1>3, <4>3
      <4> QED
        BY <4>1, <4>4, NoneAssumption, Zenon
    <3>2. CASE m \notin Elems(L)
      BY <1>5, <1>6, <2>2, <3>2, Zenon DEF IInv, Pending
    <3> QED
      BY <3>1, <3>2, Zenon
  <2> QED
    BY <2>3, Zenon DEF Pending
<1>17. Below'
  <2>1. Kept \in Nat /\ Kept <= bytes /\ Kept' = bytes'
    BY <1>1, <1>2, Zenon DEF IInv, Below, Kept
  <2>2. ASSUME NEW n \in DOMAIN fragment_table, n \notin Elems(L), fragment_table'[n] # None
        PROVE  /\ fragment_table'[n] = fragment_table[n] /\ fragment_table[n] \in Nat
               /\ fragment_table[n] < bytes
    <3>1. fragment_table'[n] = fragment_table[n] /\ fragment_table[n] \in Nat
      BY <1>2, <1>5, <2>2
    <3>2. fragment_table[n] < Kept
      BY <2>2, <3>1, Zenon DEF IInv, Below
    <3> QED
      BY <1>2, <2>1, <3>1, <3>2
  <2>3. ASSUME NEW n \in DOMAIN fragment_table, fragment_table'[n] # None
        PROVE  fragment_table'[n] < Kept'
    <3>1. CASE n \in Elems(L)
      <4>1. PICK i \in 1..Len(L) : fragment_table'[n] = bytes + (i - 1)
        BY <1>4, <3>1, Zenon
      <4> QED
        BY <1>3, <2>1, <4>1
    <3>2. CASE n \notin Elems(L)
      BY <1>3, <2>1, <2>2, <2>3, <3>2
    <3> QED
      BY <3>1, <3>2, Zenon
  <2>4. ASSUME NEW m \in DOMAIN fragment_table, NEW n \in DOMAIN fragment_table,
               fragment_table'[m] # None, fragment_table'[m] = fragment_table'[n]
        PROVE  m = n
    <3>1. CASE m \in Elems(L) /\ n \in Elems(L)
      <4>1. PICK i \in 1..Len(L) : L[i] = m /\ fragment_table'[m] = bytes + (i - 1)
        BY <1>4, <3>1, Zenon
      <4>2. PICK j \in 1..Len(L) : L[j] = n /\ fragment_table'[n] = bytes + (j - 1)
        BY <1>4, <3>1, Zenon
      <4>3. bytes + (i - 1) = bytes + (j - 1)
        BY <2>4, <4>1, <4>2, Zenon
      <4>4. i = j
        BY <1>3, <4>3
      <4> QED
        BY <4>1, <4>2, <4>4, Zenon
    <3>2. CASE m \in Elems(L) /\ n \notin Elems(L)
      <4>1. PICK i \in 1..Len(L) : L[i] = m /\ fragment_table'[m] = bytes + (i - 1)
        BY <1>4, <3>2, Zenon
      <4>2. fragment_table'[n] \in Nat /\ fragment_table'[n] < bytes
        BY <2>2, <2>4, <3>2, Zenon
      <4> QED
        BY <1>3, <2>4, <4>1, <4>2
    <3>3. CASE m \notin Elems(L) /\ n \in Elems(L)
      <4>1. PICK i \in 1..Len(L) : L[i] = n /\ fragment_table'[n] = bytes + (i - 1)
        BY <1>4, <3>3, Zenon
      <4>2. fragment_table'[m] \in Nat /\ fragment_table'[m] < bytes
        BY <2>2, <2>4, <3>3, Zenon
      <4> QED
        BY <1>3, <2>4, <4>1, <4>2
    <3>4. CASE m \notin Elems(L) /\ n \notin Elems(L)
      BY <2>2, <2>4, <3>4, Zenon DEF IInv, Below
    <3> QED
      BY <3>1, <3>2, <3>3, <3>4, Zenon
  <2>5. Kept' <= bytes'
    BY <1>3, <2>1
  <2> QED
    BY <1>6, <2>3, <2>4, <2>5, Zenon DEF Below
<1> QED
  BY <1>8, <1>9, <1>12, <1>13, <1>15, <1>16, <1>17, Zenon DEF IInv
-----------------------------------------------------------------------------
(* Fragments are filled *)

(* write_fragment, from get_and_fill_fragment or at the end.                 *)
LEMMA WriteFragmentStep ==
    ASSUME FiniteSetFacts, IInv, NEW a \in Actions, WriteFragment(a), ~HandedOver, main # <<"unlock", "next">>
    PROVE  IInv'
<1> DEFINE n == current[a]
<1>1. /\ n # None /\ to_frag' = Append(to_frag, n) /\ current' = [current EXCEPT ![a] = None]
      /\ fragments_outstanding' = fragments_outstanding + 1
      /\ UNCHANGED <<bytes, fragments_locked, main, locked_fragment, fragments, fragment_table,
                     deflator, input, file, block, start>>
  BY Zenon DEF WriteFragment, fileVars
<1>2. /\ Types /\ Steps /\ n \in Nat /\ to_frag \in Seq(Nat) /\ Distinct(to_frag)
      /\ Len(to_frag) \in Nat /\ fragments_outstanding \in Int
  BY <1>1 DEF IInv, Types, Apart
<1>3. a \in Filling
  BY <1>1, Zenon DEF Filling
<1>4. /\ n \notin Elems(to_frag) /\ n \notin Elems(locked_fragment)
      /\ \A b \in Actions : current[b] = n => b = a
      /\ \A d \in FragDeflators : Busy(d) => deflator[d].frag # n
  BY <1>3, Zenon DEF IInv, Apart
<1>5. /\ to_frag' \in Seq(Nat) /\ Len(to_frag') = Len(to_frag) + 1
      /\ Distinct(to_frag') /\ Elems(to_frag') = Elems(to_frag) \cup {n}
  BY <1>1, <1>2, <1>4, AppendElems, SMTT(20)
<1>6. /\ current' \in [Actions -> Nat \cup {None}] /\ current'[a] = None
      /\ \A b \in Actions : b # a => current'[b] = current[b]
  BY <1>1, <1>2, Zenon DEF Types
<1> HIDE DEF n
<1>7. Types'
  BY <1>1, <1>2, <1>5, <1>6 DEF Types
<1>8. Steps' /\ (HandedOver' <=> HandedOver) /\ (AllPlaced' <=> AllPlaced)
  BY <1>1, <1>2, MainStays, Zenon
<1>9. Filling' = Filling \ {a} /\ Deflating("waiting")' = Deflating("waiting")
      /\ Deflating("compressed")' = Deflating("compressed")
  BY <1>1, <1>6, Zenon DEF Filling, Deflating
<1>10. Cardinality(Filling') = Cardinality(Filling) - 1 /\ Cardinality(Filling) \in Nat
  BY <1>3, <1>9, CountsNat, OneLess, Zenon
<1>11. InFlight' = InFlight + 1 /\ InFlight \in Nat
  <2>1. Cardinality(Deflating("waiting")) \in Nat /\ Cardinality(Deflating("compressed")) \in Nat
    BY CountsNat, Zenon
  <2>2. InFlight' = (Len(to_frag) + 1) + Cardinality(Deflating("waiting"))
                        + Cardinality(Deflating("compressed"))
    BY <1>5, <1>9, Zenon DEF InFlight
  <2> QED
    BY <1>2, <2>1, <2>2 DEF InFlight
<1>12. Len(locked_fragment) \in Nat
  BY <1>2 DEF Types
<1>13. Room'
  <2>1. /\ Cardinality(Filling) + InFlight <= fragment_size /\ fragment_size \in Nat
        /\ fragments_locked = FALSE => locked_fragment = <<>>
        /\ Len(locked_fragment) + Cardinality(Filling) + InFlight <= fragment_size
    BY SizeAssumption, Zenon DEF IInv, Room
  <2>2. Cardinality(Filling) >= 1
    <3>1. Cardinality(Filling') \in Nat
      BY <1>9, CountsNat, FinitePart, Zenon
    <3> QED
      BY <1>10, <3>1
  <2>3. /\ Cardinality(Filling') + InFlight' <= fragment_size
        /\ Len(locked_fragment) + InFlight' <= fragment_size
        /\ Len(locked_fragment) + Cardinality(Filling') + InFlight' <= fragment_size
    BY <1>10, <1>11, <1>12, <2>1, <2>2
  <2> QED
    BY <1>1, <2>1, <2>3, Zenon DEF Room
<1>14. Counted'
  <2>1. fragments_outstanding' = InFlight' + Len(locked_fragment')
    BY <1>1, <1>2, <1>11, <1>12 DEF IInv, Counted
  <2> QED
    BY <1>8, <2>1, Zenon DEF Counted, HandedOver
<1>15. Apart'
  <2>1. /\ Distinct(to_frag') /\ Distinct(locked_fragment')
        /\ Elems(to_frag') \cap Elems(locked_fragment') = {}
    <3>1. /\ Distinct(locked_fragment) /\ locked_fragment' = locked_fragment
          /\ Elems(to_frag) \cap Elems(locked_fragment) = {}
      BY <1>1, Zenon DEF IInv, Apart
    <3> QED
      BY <1>4, <1>5, <3>1, Zenon
  <2>2. ASSUME NEW b \in Filling'
        PROVE  /\ current'[b] \notin Elems(to_frag')
               /\ current'[b] \notin Elems(locked_fragment')
               /\ \A c \in Actions : current'[b] = current'[c] => b = c
    <3>1. b \in Filling /\ b # a /\ current'[b] = current[b] /\ b \in Actions
      BY <1>6, <1>9, <2>2, Zenon DEF Filling
    <3>2. /\ current[b] # n /\ current[b] # None
          /\ current[b] \notin Elems(to_frag)
          /\ current[b] \notin Elems(locked_fragment)
          /\ \A c \in Actions : current[b] = current[c] => b = c
      BY <1>4, <3>1, Zenon DEF IInv, Apart, Filling
    <3> QED
      BY <1>1, <1>5, <1>6, <3>1, <3>2, Zenon
  <2>3. \A e \in FragDeflators : Busy(e)' <=> Busy(e)
    BY <1>1, Zenon DEF Busy
  <2>4. ASSUME NEW e \in FragDeflators, Busy(e)'
        PROVE  /\ deflator'[e].frag \in Nat
               /\ deflator'[e].frag \notin Elems(to_frag')
               /\ deflator'[e].frag \notin Elems(locked_fragment')
               /\ \A b \in Actions : deflator'[e].frag # current'[b]
               /\ \A f \in FragDeflators : Busy(f)' /\ deflator'[f].frag = deflator'[e].frag => f = e
    <3>1. /\ Busy(e) /\ deflator[e].frag \in Nat /\ deflator[e].frag # n
          /\ deflator[e].frag \notin Elems(to_frag)
          /\ deflator[e].frag \notin Elems(locked_fragment)
          /\ \A b \in Actions : deflator[e].frag # current[b]
          /\ \A f \in FragDeflators : Busy(f) /\ deflator[f].frag = deflator[e].frag => f = e
      BY <1>4, <2>3, <2>4, Zenon DEF IInv, Apart
    <3>2. deflator[e].frag # None
      BY <3>1, NoneAssumption, Zenon
    <3> QED
      BY <1>1, <1>5, <1>6, <2>3, <3>1, <3>2, Zenon
  <2> QED
    BY <2>1, <2>2, <2>4, Zenon DEF Apart
<1>16. Pending'
  <2>1. ASSUME NEW m \in Nat PROVE Waits(m)' <=> Waits(m)
    <3>1. m # None
      BY NoneAssumption, Zenon
    <3>2. (\E b \in Actions : current[b] = m) \/ m \in Elems(to_frag)
            <=> (\E b \in Actions : current'[b] = m) \/ m \in Elems(to_frag')
      BY <1>5, <1>6, <3>1, Zenon DEF n
    <3>3. (\E e \in FragDeflators : Busy(e)' /\ deflator'[e].frag = m)
            <=> \E e \in FragDeflators : Busy(e) /\ deflator[e].frag = m
      BY <1>1, Zenon DEF Busy
    <3> QED
      BY <1>1, <3>2, <3>3, Zenon DEF Waits
  <2> QED
    BY <1>1, <2>1, Zenon DEF IInv, Pending
<1>17. Below'
  BY <1>1, Zenon DEF IInv, Below, Kept
<1> QED
  BY <1>7, <1>8, <1>13, <1>14, <1>15, <1>16, <1>17, Zenon DEF IInv
(* There is room for one fragment more where allocate_fragment goes on.      *)
LEMMA AllocateCounts ==
    ASSUME FiniteSetFacts, IInv, NEW a \in Actions, current[a] = None, FragmentUsed < fragment_size,
           current' = [current EXCEPT ![a] = fragments + 1], UNCHANGED <<to_frag, deflator>>
    PROVE  /\ Filling' = Filling \cup {a} /\ InFlight' = InFlight
           /\ Cardinality(Filling') + InFlight <= fragment_size
           /\ Cardinality(Filling') \in Nat /\ InFlight \in Nat /\ fragment_size \in Nat
<1>1. /\ Types /\ fragments + 1 # None
  BY NoneAssumption DEF IInv, Types
<1>2. current'[a] = fragments + 1 /\ \A b \in Actions : b # a => current'[b] = current[b]
  BY <1>1, Zenon DEF Types
<1>3. Filling' = Filling \cup {a} /\ a \notin Filling
  BY <1>1, <1>2, Zenon DEF Filling
<1>4. InFlight' = InFlight
  BY Zenon DEF InFlight, Deflating
<1>5. Cardinality(Filling') = Cardinality(Filling) + 1 /\ Cardinality(Filling) \in Nat
  BY <1>3, CountsNat, OneMore, Zenon
<1>6. /\ Len(to_frag) \in Nat /\ Cardinality(Deflating("waiting")) \in Nat
      /\ Cardinality(Deflating("compressed")) \in Nat
  BY <1>1, CountsNat DEF Types
<1>7. FragmentUsed = Cardinality(Filling) + Len(to_frag)
                       + Cardinality(Deflating("waiting")) + Cardinality(Deflating("compressed"))
  BY Zenon DEF FragmentUsed, Filling
<1>8. InFlight \in Nat /\ FragmentUsed = Cardinality(Filling) + InFlight
  BY <1>5, <1>6, <1>7 DEF InFlight
<1>9. fragment_size \in Nat
  BY SizeAssumption, Zenon
<1> QED
  BY <1>3, <1>4, <1>5, <1>8, <1>9

(* Arithmetic: an empty queue adds nothing to a sum. *)
LEMMA NoneWaiting ==
    ASSUME NEW s, s = <<>>, NEW i \in Nat, NEW j \in Nat, NEW k \in Nat, i + j <= k
    PROVE  Len(s) + i + j <= k
OBVIOUS

(* A new fragment is one nobody has, and has no place yet.                   *)
LEMMA AllocateStep ==
    ASSUME FiniteSetFacts, IInv, NEW a \in Actions, current[a] = None, file \in Files,
           FragmentUsed < fragment_size, fragments' = fragments + 1,
           fragment_table' = Append(fragment_table, None),
           current' = [current EXCEPT ![a] = fragments + 1],
           \/ fragments_locked = TRUE /\ main' = <<"unlock", "next">>
           \/ fragments_locked = FALSE /\ main' = <<"record", "next">>,
           UNCHANGED <<bytes, fragments_locked, locked_fragment, to_frag, deflator,
                       fragments_outstanding, input, file, block, start>>
    PROVE  IInv'
<1> DEFINE n == fragments + 1
<1>1. /\ Types /\ fragments \in Nat /\ n \in Nat /\ n # None /\ fragment_table \in Seq(Nat \cup {None})
      /\ Len(fragment_table) = fragments
  BY NoneAssumption DEF IInv, Types
<1>2. /\ current' \in [Actions -> Nat \cup {None}] /\ current'[a] = n
      /\ \A b \in Actions : b # a => current'[b] = current[b]
  BY <1>1, Zenon DEF Types
<1>3. /\ fragment_table' \in Seq(Nat \cup {None}) /\ Len(fragment_table') = n
      /\ DOMAIN fragment_table' = 1..n /\ DOMAIN fragment_table = 1..fragments
      /\ fragment_table'[n] = None
      /\ \A m \in DOMAIN fragment_table : fragment_table'[m] = fragment_table[m]
  BY <1>1
<1>4. ~Waits(n)
  <2>1. n \notin 1..fragments
    BY <1>1
  <2> QED
    BY <1>1, <1>3, <2>1, Zenon DEF IInv, Pending
<1>5. /\ n \notin Elems(to_frag) /\ n \notin Elems(locked_fragment)
      /\ \A b \in Actions : current[b] # n
      /\ \A d \in FragDeflators : Busy(d) => deflator[d].frag # n
  BY <1>4, Zenon DEF Waits
<1>6. fragments' = n /\ (\A m : m \in 1..n <=> m \in 1..fragments \/ m = n) /\ n \notin 1..fragments
  BY <1>1
<1> HIDE DEF n
<1>7. Types'
  BY <1>1, <1>2, <1>3, <1>6, Zenon DEF Types
<1>8. Steps' /\ ~HandedOver' /\ ~AllPlaced'
  <2>1. CASE fragments_locked = TRUE /\ main' = <<"unlock", "next">>
    <3>1. LockedSteps' /\ ~HandedOver' /\ ~AllPlaced'
      BY <2>1, Zenon DEF LockedSteps, HandedOver, AllPlaced
    <3> QED
      BY <2>1, <3>1, Zenon DEF Steps, Files
  <2>2. CASE fragments_locked = FALSE /\ main' = <<"record", "next">>
    <3>1. OpenSteps' /\ ~HandedOver' /\ ~AllPlaced'
      BY <2>2, Zenon DEF OpenSteps, HandedOver, AllPlaced
    <3> QED
      BY <2>2, <3>1, Zenon DEF Steps, Files
  <2> QED
    BY <2>1, <2>2, Zenon
<1>9. /\ Filling' = Filling \cup {a} /\ InFlight' = InFlight
      /\ Cardinality(Filling') + InFlight <= fragment_size
      /\ Cardinality(Filling') \in Nat /\ InFlight \in Nat /\ fragment_size \in Nat
  BY AllocateCounts, Zenon
<1>10. /\ fragments_locked = FALSE => locked_fragment = <<>>
       /\ Len(locked_fragment) + InFlight <= fragment_size
  BY Zenon DEF IInv, Room
<1>11. main' # <<"unlock", "next">> => locked_fragment = <<>>
  BY <1>10, Zenon
<1>12. Room'
  <2>1. main' # <<"unlock", "next">> =>
           Len(locked_fragment) + Cardinality(Filling') + InFlight <= fragment_size
    BY <1>9, <1>11, NoneWaiting, Zenon
  <2> QED
    BY <1>9, <1>10, <2>1, Zenon DEF Room
<1>13. Counted'
  BY <1>8, <1>9, Zenon DEF IInv, Counted
<1>14. Apart'
  <2>1. ASSUME NEW b \in Filling'
        PROVE  /\ current'[b] \notin Elems(to_frag)
               /\ current'[b] \notin Elems(locked_fragment)
               /\ \A c \in Actions : current'[b] = current'[c] => b = c
    <3>1. CASE b = a
      BY <1>2, <1>5, <3>1, Zenon
    <3>2. CASE b # a
      <4>1. b \in Filling /\ b \in Actions /\ current'[b] = current[b]
        BY <1>2, <1>9, <2>1, <3>2, Zenon DEF Filling
      <4>2. /\ current[b] \notin Elems(to_frag)
            /\ current[b] \notin Elems(locked_fragment)
            /\ \A c \in Actions : current[b] = current[c] => b = c
        BY <4>1, Zenon DEF IInv, Apart
      <4> QED
        BY <1>2, <1>5, <3>2, <4>1, <4>2, Zenon
    <3> QED
      BY <3>1, <3>2, Zenon
  <2>2. ASSUME NEW e \in FragDeflators, Busy(e)
        PROVE  /\ deflator[e].frag \in Nat
               /\ deflator[e].frag \notin Elems(to_frag)
               /\ deflator[e].frag \notin Elems(locked_fragment)
               /\ \A b \in Actions : deflator[e].frag # current'[b]
               /\ \A f \in FragDeflators : Busy(f) /\ deflator[f].frag = deflator[e].frag => f = e
    BY <1>2, <1>5, <2>2 DEF IInv, Apart
  <2>3. Distinct(to_frag) /\ Distinct(locked_fragment) /\ Elems(to_frag) \cap Elems(locked_fragment) = {}
    BY Zenon DEF IInv, Apart
  <2> QED
    BY <2>1, <2>2, <2>3, Zenon DEF Apart, Busy
<1>15. Pending'
  <2>1. ASSUME NEW m \in Nat PROVE Waits(m)' <=> Waits(m) \/ m = n
    <3>1. m # None
      BY NoneAssumption, Zenon
    <3>2. (\E b \in Actions : current'[b] = m) <=> (\E b \in Actions : current[b] = m) \/ m = n
      BY <1>2, <3>1, Zenon
    <3> QED
      BY <3>2, Zenon DEF Waits, Busy
  <2>2. ASSUME NEW m \in Nat
        PROVE  Waits(m)' <=> m \in DOMAIN fragment_table' /\ fragment_table'[m] = None
    <3>1. CASE m = n
      BY <1>3, <1>6, <2>1, <3>1, Zenon
    <3>2. CASE m # n
      BY <1>3, <1>6, <2>1, <3>2, Zenon DEF IInv, Pending
    <3> QED
      BY <3>1, <3>2, Zenon
  <2> QED
    BY <2>2, Zenon DEF Pending
<1>16. Below'
  <2>1. \A m \in DOMAIN fragment_table' : fragment_table'[m] # None =>
           m \in DOMAIN fragment_table /\ fragment_table'[m] = fragment_table[m]
    BY <1>3, <1>6, Zenon
  <2>2. Kept' = Kept
    BY Zenon DEF Kept
  <2> QED
    BY <2>1, <2>2, SMTT(20) DEF IInv, Below
<1> QED
  BY <1>7, <1>8, <1>12, <1>13, <1>14, <1>15, <1>16, Zenon DEF IInv

(* get_and_fill_fragment.                                                    *)
LEMMA FillFragmentStep == ASSUME FiniteSetFacts, IInv, FillFragment PROVE IInv'
<1>1. Types /\ Steps /\ At("fill")
  BY Zenon DEF IInv, FillFragment
<1>2. /\ file \in Files
      /\ \/ main = <<"fill", "unlock", "next">> /\ fragments_locked = TRUE
         \/ main = <<"fill", "record", "next">> /\ fragments_locked = FALSE
  BY <1>1, OtherSteps, Zenon
<1>3. F.action \in Actions
  BY <1>1, <1>2, FileTyped, Zenon
<1>4. \/ Tail(main) = <<"unlock", "next">> /\ fragments_locked = TRUE
      \/ Tail(main) = <<"record", "next">> /\ fragments_locked = FALSE
  BY <1>2, Tails, Zenon
<1>5. ~HandedOver /\ main # <<"unlock", "next">>
  BY <1>2 DEF HandedOver, AllPlaced
<1>6. CASE WriteFragment(F.action)
  BY <1>3, <1>5, <1>6, WriteFragmentStep, Zenon
<1>7. CASE main' = Tail(main) /\ UNCHANGED <<bytes, fragments_locked, fragVars, fileVars>>
  <2>1. \/ fragments_locked = TRUE /\ LockedSteps'
        \/ fragments_locked = FALSE /\ OpenSteps'
    BY <1>4, <1>7, Zenon DEF LockedSteps, OpenSteps
  <2> QED
    BY <1>1, <1>2, <1>7, <2>1, AsideWrites, Zenon DEF fileVars
<1>8. CASE /\ current[F.action] = None /\ FragmentUsed < fragment_size
           /\ fragments' = fragments + 1 /\ fragment_table' = Append(fragment_table, None)
           /\ current' = [current EXCEPT ![F.action] = fragments + 1] /\ main' = Tail(main)
           /\ UNCHANGED <<bytes, fragments_locked, locked_fragment, to_frag, deflator,
                          fragments_outstanding, fileVars>>
  BY <1>2, <1>3, <1>4, <1>8, AllocateStep, Zenon DEF fileVars
<1> QED
  BY <1>6, <1>7, <1>8, Zenon DEF FillFragment

(* The fragments that are left at the end.                                   *)
LEMMA LastFragmentsStep == ASSUME FiniteSetFacts, IInv, LastFragments PROVE IInv'
<1>1. Types /\ Steps /\ At("lastfrags")
  BY Zenon DEF IInv, LastFragments
<1>2. /\ main = <<"lastfrags", "unlock", "outstanding", "sync", "wait">>
      /\ fragments_locked = FALSE
  BY <1>1, OtherSteps, Zenon
<1>3. ~HandedOver /\ main # <<"unlock", "next">>
  BY <1>2, Zenon DEF HandedOver, AllPlaced
<1>4. CASE \E a \in Actions : WriteFragment(a)
  BY <1>3, <1>4, WriteFragmentStep, Zenon
<1>5. CASE /\ \A a \in Actions : current[a] = None
           /\ main' = Tail(main) /\ UNCHANGED <<bytes, fragments_locked, fragVars, fileVars>>
  <2>1. main' = <<"unlock", "outstanding", "sync", "wait">>
    BY <1>2, <1>5, Tails, Zenon
  <2>2. LastSteps' /\ ~AllPlaced'
    BY <2>1, Zenon DEF LastSteps, HandedOver, AllPlaced
  <2>3. Steps'
    BY <1>2, <1>5, <2>2, Zenon DEF Steps
  <2> QED
    BY <1>3, <1>5, <2>2, <2>3, AsideMoves, Zenon DEF fileVars
<1> QED
  BY <1>4, <1>5, Zenon DEF LastFragments
-----------------------------------------------------------------------------
(* Every step *)

(* The inductive invariant holds initially. *)
LEMMA InitIInv == FiniteSetFacts /\ Init => IInv
<1> SUFFICES ASSUME FiniteSetFacts, Init PROVE IInv
  BY Zenon
<1>1. /\ input \in Inputs /\ bytes = 0 /\ start = 0 /\ block = 0 /\ file = 1
      /\ fragments = 0 /\ fragments_outstanding = 0 /\ fragment_table = <<>>
      /\ to_frag = <<>> /\ locked_fragment = <<>> /\ fragments_locked = FALSE
      /\ current = [a \in Actions |-> None]
      /\ deflator = [d \in FragDeflators |-> [at |-> "idle", frag |-> None]]
      /\ main = IF input.files = <<>> THEN Finish ELSE <<"file">>
  BY Zenon DEF Init
<1>2. Types
  <2>1. [at |-> "idle", frag |-> None] \in [at : {"idle", "waiting", "compressed"},
                                            frag : Nat \cup {None}]
    BY Zenon
  <2>2. /\ deflator \in [FragDeflators -> [at : {"idle", "waiting", "compressed"},
                                           frag : Nat \cup {None}]]
        /\ current \in [Actions -> Nat \cup {None}]
    BY <1>1, <2>1, Zenon
  <2>3. /\ fragment_table \in Seq(Nat \cup {None}) /\ Len(fragment_table) = fragments
        /\ to_frag \in Seq(Nat) /\ locked_fragment \in Seq(Nat)
    BY <1>1
  <2> QED
    BY <1>1, <2>2, <2>3 DEF Types
<1>3. Steps /\ ~HandedOver /\ ~AllPlaced
  <2>1. CASE input.files = <<>>
    <3>1. main = <<"lastfrags", "unlock", "outstanding", "sync", "wait">>
      BY <1>1, <2>1, Zenon DEF Finish
    <3> QED
      BY <1>1, <3>1 DEF Steps, LastSteps, HandedOver, AllPlaced
  <2>2. CASE input.files # <<>>
    <3>1. input.files \in Seq(Elems(input.files))
      BY <1>1, InputAssumption, Zenon
    <3>2. file \in Files
      BY <1>1, <2>2, <3>1 DEF Files
    <3>3. main = <<"file">>
      BY <1>1, <2>2, Zenon
    <3> QED
      BY <1>1, <3>2, <3>3 DEF Steps, OpenSteps, HandedOver, AllPlaced
  <2> QED
    BY <2>1, <2>2, Zenon
<1>4. /\ \A d \in FragDeflators : deflator[d].at = "idle"
      /\ \A a \in Actions : current[a] = None
  BY <1>1, Zenon
<1>5. Filling = {} /\ Deflating("waiting") = {} /\ Deflating("compressed") = {}
  BY <1>4, Zenon DEF Filling, Deflating
<1>6. Cardinality(Filling) = 0 /\ InFlight = 0 /\ Len(locked_fragment) = 0
  <2>1. Cardinality({}) = 0
    BY Numbered, Zenon
  <2>2. Len(to_frag) = 0 /\ Len(locked_fragment) = 0
    BY <1>1, Zenon
  <2>3. /\ Cardinality(Filling) = 0 /\ Cardinality(Deflating("waiting")) = 0
        /\ Cardinality(Deflating("compressed")) = 0
    BY <1>5, <2>1, Zenon
  <2> QED
    BY <2>2, <2>3 DEF InFlight
<1>7. Room /\ Counted
  <2>1. fragment_size \in Nat
    BY SizeAssumption, Zenon
  <2> QED
    BY <1>1, <1>3, <1>6, <2>1 DEF Room, Counted
<1>8. /\ Elems(to_frag) = {} /\ Elems(locked_fragment) = {}
      /\ Distinct(to_frag) /\ Distinct(locked_fragment) /\ DOMAIN fragment_table = {}
  BY <1>1 DEF Elems, Distinct
<1>9. Apart
  BY <1>4, <1>5, <1>8, Zenon DEF Apart, Busy
<1>10. Pending
  BY <1>4, <1>8, NoneAssumption, Zenon DEF Pending, Waits, Busy
<1>11. Below
  BY <1>1, <1>8 DEF Below, Kept
<1> QED
  BY <1>2, <1>3, <1>7, <1>9, <1>10, <1>11, Zenon DEF IInv

(* Every step, and every stuttering step, keeps the inductive invariant. *)
LEMMA NextIInv == FiniteSetFacts /\ IInv /\ [Next]_vars => IInv'
<1> SUFFICES ASSUME FiniteSetFacts, IInv, [Next]_vars PROVE IInv'
  BY Zenon
<1>1. CASE Main
  BY <1>1, WriteFileStep, WriteBlockStep, EndBlocksStep, CheckDuplicateStep, ReleaseHeldStep,
     SyncWriterStep, WriterSyncedStep, TruncateStep, UnlockFragmentsStep, FillFragmentStep,
     RecordFileStep, NextFileStep, LastFragmentsStep, OutstandingStep, Zenon DEF Main
<1>2. CASE ReadError
  BY <1>2, ReadErrorStep, Zenon
<1>3. CASE Compare \/ Writer \/ Deflate \/ UNCHANGED vars
  BY <1>3, OtherThreadsStep, Zenon DEF Writer
<1>4. CASE \E d \in FragDeflators : FragDeflator(d)
  BY <1>4, FragTakeStep, FragCompressStep, FragPlaceStep, Zenon DEF FragDeflator
<1> QED
  BY <1>1, <1>2, <1>3, <1>4, Zenon DEF Next, Finished

-----------------------------------------------------------------------------
(* The theorems *)

\* The library of finite sets, not needed before this point.
INSTANCE FiniteSetTheorems

(* The facts about finite sets that the lemmas assume.                       *)
LEMMA FiniteSetsHave == FiniteSetFacts
<1>1. \A S : IsFiniteSet(S) => Cardinality(S) \in Nat
  BY FS_CardinalityType, Zenon
<1>2. \A S, x : IsFiniteSet(S) =>
         /\ IsFiniteSet(S \cup {x})
         /\ x \notin S => Cardinality(S \cup {x}) = Cardinality(S) + 1
  BY FS_AddElement, Zenon
<1>3. \A S, x : IsFiniteSet(S) =>
         /\ IsFiniteSet(S \ {x})
         /\ x \in S => Cardinality(S \ {x}) = Cardinality(S) - 1
  BY FS_RemoveElement, Zenon
<1>4. \A S, T : IsFiniteSet(S) /\ T \subseteq S =>
         IsFiniteSet(T) /\ Cardinality(T) <= Cardinality(S)
  BY FS_Subset, Zenon
<1>5. \A n \in Nat : IsFiniteSet(1..n)
  BY FS_Interval
<1>6. ASSUME NEW S, NEW T, NEW f \in [S -> T], IsFiniteSet(S),
             \A a, b \in S : f[a] = f[b] => a = b,
             \A t \in T : \E a \in S : f[a] = t
      PROVE  Cardinality(T) = Cardinality(S)
  <2>1. f \in Bijection(S, T)
    BY <1>6, Zenon DEF Bijection, Injection, Surjection, IsInjective
  <2> QED
    BY <1>6, <2>1, FS_Bijection, Zenon DEF ExistsBijection
<1> QED
  BY <1>1, <1>2, <1>3, <1>4, <1>5, <1>6, FS_EmptySet, Zenon DEF FiniteSetFacts

(* The fragments on their way through the deflators, their number and the    *)
(* lock that holds them back are always consistent with what the main thread *)
(* is doing.                                                                 *)
THEOREM LayoutInvariant == Spec => []IInv
<1>1. Init => IInv
  BY FiniteSetsHave, InitIInv, Zenon
<1>2. IInv /\ [Next]_vars => IInv'
  BY FiniteSetsHave, NextIInv, Zenon
<1> QED
  BY <1>1, <1>2, PTL DEF Spec

(* With any number of deflators, actions and fragments, and any cache sizes, *)
(* a deflator that has to put a fragment on locked_fragment always finds     *)
(* room there: it never blocks while it holds fragment_mutex.                *)
THEOREM LayoutLockedQueueHasRoom == Spec => []LockedQueueHasRoom
<1>1. IInv => LockedQueueHasRoom
  <2> SUFFICES ASSUME IInv, Deflating("compressed") # {}
               PROVE  Len(locked_fragment) < fragment_size
    BY Zenon DEF LockedQueueHasRoom
  <2>1. /\ Cardinality(Deflating("waiting")) \in Nat /\ Cardinality(Deflating("compressed")) \in Nat
        /\ Cardinality(Deflating("compressed")) # 0
    BY FiniteSetsHave, CountsNat, Numbered, Zenon
  <2>2. Len(to_frag) \in Nat /\ Len(locked_fragment) \in Nat /\ fragment_size \in Nat
    BY SizeAssumption DEF IInv, Types
  <2>3. Len(locked_fragment) + InFlight <= fragment_size
    BY Zenon DEF IInv, Room
  <2> QED
    BY <2>1, <2>2, <2>3 DEF InFlight
<1> QED
  BY <1>1, LayoutInvariant, PTL

(* The fragments' part of NoOverlap: however deflators and the main thread   *)
(* interleave and however often files are taken back, fragments lie below    *)
(* the end of the image and no two of them overlap.                          *)
FragmentsApart ==
    /\ \A e \in FragExtents : End(e) <= bytes
    /\ \A e1, e2 \in FragExtents : e1 = e2 \/ End(e1) <= e2[1] \/ End(e2) <= e1[1]

(* A fragment has its place below the end of the image and apart from every  *)
(* other fragment.                                                           *)
THEOREM LayoutFragmentsApart == Spec => []FragmentsApart
<1>1. IInv => FragmentsApart
  <2> SUFFICES ASSUME IInv PROVE FragmentsApart
    BY Zenon
  <2>1. bytes \in Nat /\ Kept \in Nat /\ Kept <= bytes /\ fragment_table \in Seq(Nat \cup {None})
    BY Zenon DEF IInv, Types, Below, Kept
  <2>2. ASSUME NEW n PROVE Len(FragUnits(n)) = 1
    BY DEF FragUnits, FragLength
  <2>3. ASSUME NEW e \in FragExtents
        PROVE  \E n \in DOMAIN fragment_table :
                  /\ fragment_table[n] # None /\ e = <<fragment_table[n], FragUnits(n)>>
                  /\ e[1] = fragment_table[n] /\ e[1] \in Nat /\ End(e) = e[1] + 1 /\ e[1] < Kept
    <3>1. PICK n \in DOMAIN fragment_table :
             fragment_table[n] # None /\ e = <<fragment_table[n], FragUnits(n)>>
      BY Zenon DEF FragExtents
    <3>2. e[1] = fragment_table[n] /\ End(e) = fragment_table[n] + 1
      BY <2>2, <3>1, Zenon DEF End
    <3>3. fragment_table[n] \in Nat /\ fragment_table[n] < Kept
      BY <2>1, <3>1 DEF IInv, Below
    <3> QED
      BY <3>1, <3>2, <3>3, Zenon
  <2>4. ASSUME NEW e \in FragExtents PROVE End(e) <= bytes
    BY <2>1, <2>3
  <2>5. ASSUME NEW e1 \in FragExtents, NEW e2 \in FragExtents
        PROVE  e1 = e2 \/ End(e1) <= e2[1] \/ End(e2) <= e1[1]
    <3>1. PICK m \in DOMAIN fragment_table :
             /\ fragment_table[m] # None /\ e1 = <<fragment_table[m], FragUnits(m)>>
             /\ e1[1] = fragment_table[m] /\ e1[1] \in Nat /\ End(e1) = e1[1] + 1
      BY <2>3, Zenon
    <3>2. PICK n \in DOMAIN fragment_table :
             /\ fragment_table[n] # None /\ e2 = <<fragment_table[n], FragUnits(n)>>
             /\ e2[1] = fragment_table[n] /\ e2[1] \in Nat /\ End(e2) = e2[1] + 1
      BY <2>3, Zenon
    <3>3. CASE fragment_table[m] = fragment_table[n]
      <4>1. m = n
        BY <3>1, <3>3, Zenon DEF IInv, Below
      <4> QED
        BY <3>1, <3>2, <4>1, Zenon
    <3>4. CASE fragment_table[m] # fragment_table[n]
      BY <3>1, <3>2, <3>4
    <3> QED
      BY <3>3, <3>4, Zenon
  <2> QED
    BY <2>4, <2>5, Zenon DEF FragmentsApart
<1> QED
  BY <1>1, LayoutInvariant, PTL

(* The fragments' part of ImageComplete.                                     *)
FragmentsPlaced == main = <<>> => \A n \in DOMAIN fragment_table : fragment_table[n] # None

(* When main goes on to write the fragment table, every fragment that was    *)
(* ever allocated has its place: waiting for fragments_outstanding to become *)
(* zero is enough, although deflators may still be running.                  *)
THEOREM LayoutFragmentsPlaced == Spec => []FragmentsPlaced
<1>1. IInv => FragmentsPlaced
  <2> SUFFICES ASSUME IInv, main = <<>>, NEW n \in DOMAIN fragment_table, fragment_table[n] = None
               PROVE  FALSE
    BY Zenon DEF FragmentsPlaced
  <2>1. HandedOver /\ AllPlaced
    BY Zenon DEF HandedOver, AllPlaced
  <2>2. fragments_outstanding = 0 /\ \A a \in Actions : current[a] = None
    BY <2>1, Zenon DEF IInv, Counted
  <2>3. fragments_outstanding = InFlight + Len(locked_fragment)
    BY Zenon DEF IInv, Counted
  <2>4. /\ Types /\ Len(to_frag) \in Nat /\ Len(locked_fragment) \in Nat
        /\ Cardinality(Deflating("waiting")) \in Nat /\ Cardinality(Deflating("compressed")) \in Nat
    BY FiniteSetsHave, CountsNat DEF IInv, Types
  <2>5. /\ Len(to_frag) = 0 /\ Len(locked_fragment) = 0
        /\ Cardinality(Deflating("waiting")) = 0 /\ Cardinality(Deflating("compressed")) = 0
    BY <2>2, <2>3, <2>4 DEF InFlight
  <2>6. Elems(to_frag) = {} /\ Elems(locked_fragment) = {}
    BY <2>5 DEF Elems
  <2>7. \A d \in FragDeflators : ~Busy(d)
    <3>1. Deflating("waiting") = {} /\ Deflating("compressed") = {}
      BY <2>5, FiniteSetsHave, CountsNat, Numbered, Zenon
    <3> QED
      BY <2>4, <3>1, DeflatorTyped, Zenon DEF Deflating, Busy
  <2>8. n \in Nat
    BY <2>4 DEF Types
  <2>9. ~Waits(n)
    BY <2>2, <2>6, <2>7, <2>8, NoneAssumption, Zenon DEF Waits
  <2> QED
    BY <2>8, <2>9, Zenon DEF IInv, Pending
<1> QED
  BY <1>1, LayoutInvariant, PTL

(* What a step may never do: move a fragment that has a place.               *)
FragmentStays ==
    \A n \in DOMAIN fragment_table : fragment_table[n] # None =>
        n \in DOMAIN fragment_table' /\ fragment_table'[n] = fragment_table[n]

(* A fragment that has a place keeps it: the writer, which may write it much *)
(* later, and the fragment table agree on where it is.                       *)
THEOREM LayoutFragmentStays == Spec => [][FragmentStays]_vars
<1>1. IInv /\ [Next]_vars => [FragmentStays]_vars
  <2> SUFFICES ASSUME IInv, Next PROVE FragmentStays
    BY Zenon
  <2>1. CASE UNCHANGED fragment_table
    BY <2>1, Zenon DEF FragmentStays
  <2>2. ASSUME NEW d \in FragDeflators, FragPlace(d),
               fragment_table' = [fragment_table EXCEPT ![deflator[d].frag] = bytes]
        PROVE  FragmentStays
    <3>1. deflator[d].frag \in Nat /\ Waits(deflator[d].frag)
      BY <2>2, Zenon DEF FragPlace, Busy, IInv, Apart, Waits
    <3>2. fragment_table[deflator[d].frag] = None
      BY <3>1, Zenon DEF IInv, Pending
    <3> QED
      BY <2>2, <3>2, Zenon DEF FragmentStays
  <2>3. CASE UnlockFragments
    <3>1. locked_fragment \in Seq(Nat) /\ DOMAIN locked_fragment = 1..Len(locked_fragment)
      BY DEF IInv, Types
    <3>2. ASSUME NEW n \in DOMAIN fragment_table, fragment_table[n] # None
          PROVE  ~\E i \in DOMAIN locked_fragment : locked_fragment[i] = n
      <4>1. ASSUME NEW i \in DOMAIN locked_fragment, locked_fragment[i] = n PROVE FALSE
        <5>1. n \in Nat /\ n \in Elems(locked_fragment)
          BY <3>1, <4>1 DEF Elems
        <5> QED
          BY <3>2, <5>1, Zenon DEF IInv, Pending, Waits
      <4> QED
        BY <4>1, Zenon
    <3> QED
      BY <2>3, <3>2, Zenon DEF UnlockFragments, FragmentStays
  <2>4. CASE fragment_table' = Append(fragment_table, None)
    <3>1. fragment_table \in Seq(Nat \cup {None})
      BY Zenon DEF IInv, Types
    <3> QED
      BY <2>4, <3>1 DEF FragmentStays
  <2>5. CASE Main
    <3>1. CASE FillFragment
      BY <2>1, <2>4, <3>1, Zenon DEF FillFragment, WriteFragment, fragVars
    <3>2. CASE LastFragments
      BY <2>1, <3>2, Zenon DEF LastFragments, WriteFragment, fragVars
    <3>3. CASE WriteFile \/ WriteBlock \/ EndBlocks \/ CheckDuplicate \/ ReleaseHeld
      BY <2>1, <3>3, Zenon DEF WriteFile, WriteBlock, EndBlocks, CheckDuplicate, ReleaseHeld, fragVars
    <3>4. CASE \/ SyncWriter \/ WriterSynced \/ Truncate \/ RecordFile \/ NextFile \/ Outstanding
      BY <2>1, <3>4, Zenon DEF SyncWriter, WriterSynced, Truncate, RecordFile, NextFile, Outstanding, fragVars
    <3> QED
      BY <2>3, <2>5, <3>1, <3>2, <3>3, <3>4, Zenon DEF Main
  <2>6. CASE ReadError \/ Compare \/ Writer \/ Deflate \/ Finished
    BY <2>1, <2>6, Zenon DEF ReadError, Compare, Writer, WriterTake, WriterWrite, Deflate, Finished,
                             vars, fragVars
  <2>7. CASE \E d \in FragDeflators : FragDeflator(d)
    <3>1. PICK d \in FragDeflators : FragDeflator(d)
      BY <2>7, Zenon
    <3>2. CASE FragTake(d) \/ FragCompress(d)
      BY <2>1, <3>2, Zenon DEF FragTake, FragCompress
    <3>3. CASE FragPlace(d)
      BY <2>1, <2>2, <3>3, Zenon DEF FragPlace
    <3> QED
      BY <3>1, <3>2, <3>3, Zenon DEF FragDeflator
  <2> QED
    BY <2>5, <2>6, <2>7, Zenon DEF Next
<1> QED
  BY <1>1, LayoutInvariant, PTL DEF Spec
=============================================================================
