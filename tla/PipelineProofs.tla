--------------------------- MODULE PipelineProofs ---------------------------
(* Proofs about the way from the reader to the main thread of Mksquashfs, for  *)
(* any number of files, blocks, threads and buffers.                           *)
EXTENDS Pipeline, ListProofs

-----------------------------------------------------------------------------
(* Where the buffers are *)

\* A buffer, the place it is at, and which deflator or fragment thread has it.
At(place, who, b) == [place |-> place, who |-> who, buf |-> b]

\* The fragment threads that have a buffer.
Busy == {t \in FragThreads : fragment[t] # None}

\* The buffers on their way from the reader to the main thread.
PrevBuffers == {At("prev", None, b) : b \in {prev_buffer} \ {None}}
DeflateBuffers == {At("deflate", None, b) : b \in Elems(to_deflate)}
TailBuffers == {At("tail", None, b) : b \in Elems(to_process_frag)}
DeflatorBuffers == {At("deflator", d, deflator[d].block) : d \in Compressing}
ThreadBuffers == {At("thread", t, fragment[t]) : t \in Busy}
MainBuffers == {At("main", None, b) : b \in to_main}
OnTheWay == PrevBuffers \cup DeflateBuffers \cup TailBuffers \cup DeflatorBuffers
                \cup ThreadBuffers \cup MainBuffers

-----------------------------------------------------------------------------
(* What follows what *)

\* b completes its file, as far as its size tells.
Last(b) == b.size # Unknown /\ b.block + 1 >= b.size

\* The main thread's state before the first block of a file, and the one after
\* it has dealt with buffer b.
First(f) == [file |-> f, at |-> "first", try |-> 0, block |-> 0, blocks |-> 0]
After(b) ==
    IF b.error = 2 THEN First(b.file)
    ELSE IF b.error # 0 \/ Last(b) THEN First(b.file + 1)
    ELSE [file |-> b.file, at |-> "next", try |-> b.try, block |-> b.block + 1, blocks |-> b.size]

\* Buffer c, or what reader r reads next, is what a main thread in state x
\* expects.
Fit(x, c) ==
    /\ c.file = x.file /\ c.block = x.block
    /\ x.at = "next" =>
          /\ c.try = x.try
          /\ x.blocks = Unknown => (c.size # Unknown => Last(c))
          /\ x.blocks # Unknown => c.size = x.blocks
ReaderFit(x, r) ==
    /\ r.file = x.file /\ r.block = x.block
    /\ x.at = "next" =>
          /\ r.try = x.try
          /\ x.blocks = Unknown => r.kind = "process"
          /\ x.blocks # Unknown => r.kind = "file" /\ r.size = x.blocks

\* T has the buffers with the numbers from lo to hi - 1, each once; each is what
\* follows the one before it, the first is what follows x, and the reader, in
\* state r, will read what follows the last.
Order(T, lo, hi, x, r) ==
    /\ lo \in Nat /\ hi \in Nat /\ lo <= hi
    /\ \A e \in T : e.buf \in Buffers /\ lo <= e.buf.seq /\ e.buf.seq < hi
    /\ \A e, f \in T : e.buf.seq = f.buf.seq => e = f
    /\ \A n \in Nat : lo <= n /\ n < hi => \E e \in T : e.buf.seq = n
    /\ \A e, f \in T : f.buf.seq = e.buf.seq + 1 => Fit(After(e.buf), f.buf)
    /\ \A e \in T : e.buf.seq = lo => Fit(x, e.buf)
    /\ \A e \in T : e.buf.seq + 1 = hi => ReaderFit(After(e.buf), r)
    /\ lo = hi => ReaderFit(x, r)

\* What the main thread expects.
Expected == [file |-> main.file, at |-> main.at, try |-> main.try,
             block |-> main.block, blocks |-> main.blocks]

-----------------------------------------------------------------------------
(* The inductive invariant *)

ReaderStates == [file : Nat, kind : {"file", "process"}, try : Nat, block : Nat,
                 size : Nat \cup {Unknown}]
DeflatorStates == [at : {"start", "idle", "compress"}, block : Buffers \cup {None}]
MainStates == [file : Nat, at : {"first", "next"}, try : Nat, block : Nat,
               blocks : Nat \cup {Unknown}, dup : BOOLEAN]

Types ==
    /\ reader \in ReaderStates
    /\ prev_buffer \in Buffers \cup {None}
    /\ seq \in Nat /\ sequence \in Nat
    /\ to_deflate \in Seq(Buffers) /\ to_process_frag \in Seq(Buffers)
    /\ to_main \subseteq Buffers
    /\ deflator \in [Deflators -> DeflatorStates]
    /\ \A d \in Compressing : deflator[d].block \in Buffers
    /\ fragment \in [FragThreads -> Buffers \cup {None}]
    /\ main \in MainStates

\* The reader is within its file; reader_read_process keeps the newest block.
ReaderInv ==
    /\ reader.kind = "file" =>
          /\ prev_buffer = None
          /\ reader.size \in Nat
          /\ reader.block < reader.size \/ (reader.block = 0 /\ reader.size = 0)
    /\ reader.kind = "process" => (prev_buffer = None <=> reader.block = 0)
    /\ prev_buffer # None =>
          /\ prev_buffer.seq + 1 = seq /\ prev_buffer.block + 1 = reader.block
          /\ prev_buffer.file = reader.file /\ prev_buffer.try = reader.try

\* Buffer b is within its file, and a tail completes it.
Within(b) ==
    /\ b.size = Unknown \/ b.block < b.size \/ (b.block = 0 /\ b.size = 0)
    /\ b.fragment => Last(b) /\ b.size # 0

\* What is known of the buffers at each place.
PrevOK(b) == b.cache = "reader" /\ b.error = 0 /\ b.size = Unknown /\ ~b.fragment
DeflateOK(b) == b.cache = "reader" /\ b.error = 0 /\ b.size # 0 /\ ~b.fragment /\ Within(b)
TailOK(b) == b.cache = "reader" /\ b.error = 0 /\ b.size # 0 /\ b.fragment /\ Within(b)
\* A buffer that holds data, when it has come to the main thread.
DataOK(b) ==
    \/ b.sparse /\ ~b.fragment /\ b.cache = "reader"
    \/ ~b.sparse /\ b.fragment /\ b.cache = "reader"
    \/ ~b.sparse /\ b.fragment /\ b.cache = "heap" /\ b.size = 1
    \/ ~b.sparse /\ ~b.fragment /\ b.cache = "bwriter"
MainOK(b) ==
    /\ Within(b)
    /\ b.error # 0 \/ b.size = 0 => b.cache = "reader"
    /\ b.error = 0 /\ b.size # 0 => OldZeroTails \/ DataOK(b)

Places ==
    /\ prev_buffer # None => PrevOK(prev_buffer)
    /\ Distinct(to_deflate) /\ Distinct(to_process_frag)
    /\ \A b \in Elems(to_deflate) : DeflateOK(b)
    /\ \A b \in Elems(to_process_frag) : TailOK(b)
    /\ \A d \in Compressing : DeflateOK(deflator[d].block)
    /\ \A t \in Busy : TailOK(fragment[t])
    /\ \A b \in to_main : MainOK(b)

\* Within a file the main thread has had a block of it, and no tail.
MainInv == /\ fragment_buffer = 0
           /\ main.at = "next" <=> main.block > 0

InOrder == Order(OnTheWay, sequence, seq, Expected, reader)

IInv == Types /\ ReaderInv /\ Places /\ MainInv /\ InOrder

-----------------------------------------------------------------------------
(* How the order is kept *)

(* A buffer that is passed on, with the same file, try, block, number, size  *)
(* and error, keeps its place in the order.                                  *)
LEMMA OrderMove ==
    ASSUME NEW T, NEW U, NEW lo, NEW hi, NEW x, NEW r, Order(T, lo, hi, x, r),
           NEW e \in T, NEW f, f.buf \in Buffers,
           f.buf.seq = e.buf.seq, f.buf.file = e.buf.file, f.buf.try = e.buf.try,
           f.buf.block = e.buf.block, f.buf.size = e.buf.size, f.buf.error = e.buf.error,
           U = (T \ {e}) \cup {f}
    PROVE  Order(U, lo, hi, x, r)
<1>1. After(f.buf) = After(e.buf)
  BY Zenon DEF After, Last
<1>2. \A y : Fit(y, f.buf) <=> Fit(y, e.buf)
  BY Zenon DEF Fit, Last
<1> DEFINE o(g) == IF g = f THEN e ELSE g
<1>3. ASSUME NEW g \in U
      PROVE  /\ o(g) \in T /\ o(g).buf.seq = g.buf.seq /\ g.buf \in Buffers
             /\ After(g.buf) = After(o(g).buf)
             /\ \A y : Fit(y, o(g).buf) => Fit(y, g.buf)
  BY <1>1, <1>2, <1>3, Zenon DEF Order
<1>4. \A g, h \in U : o(g) = o(h) => g = h
  BY Zenon
<1>5. \A g \in T : \E h \in U : o(h) = g
  <2>1. f \in T => f = e
    BY Zenon DEF Order
  <2> SUFFICES ASSUME NEW g \in T PROVE \E h \in U : o(h) = g
    BY Zenon
  <2>2. CASE g = e
    BY <2>2, Zenon
  <2>3. CASE g # e
    BY <2>1, <2>3, Zenon
  <2> QED BY <2>2, <2>3, Zenon
<1> HIDE DEF o
<1>6. /\ lo \in Nat /\ hi \in Nat /\ lo <= hi
      /\ lo = hi => ReaderFit(x, r)
  BY Zenon DEF Order
<1>7. \A g \in U : g.buf \in Buffers /\ lo <= g.buf.seq /\ g.buf.seq < hi
  BY <1>3, Zenon DEF Order
<1>8. \A g, h \in U : g.buf.seq = h.buf.seq => g = h
  BY <1>3, <1>4 DEF Order
<1>9. \A n \in Nat : lo <= n /\ n < hi => \E g \in U : g.buf.seq = n
  <2> SUFFICES ASSUME NEW n \in Nat, lo <= n, n < hi PROVE \E g \in U : g.buf.seq = n
    BY Zenon
  <2>1. PICK g \in T : g.buf.seq = n
    BY Zenon DEF Order
  <2>2. PICK h \in U : o(h) = g
    BY <1>5, Zenon
  <2> QED BY <2>1, <2>2, <1>3, Zenon
<1>10. \A g, h \in U : h.buf.seq = g.buf.seq + 1 => Fit(After(g.buf), h.buf)
  <2> SUFFICES ASSUME NEW g \in U, NEW h \in U, h.buf.seq = g.buf.seq + 1
               PROVE  Fit(After(g.buf), h.buf)
    BY Zenon
  <2>1. o(h).buf.seq = o(g).buf.seq + 1 /\ o(g) \in T /\ o(h) \in T
    BY <1>3, Zenon
  <2>2. Fit(After(o(g).buf), o(h).buf)
    BY <2>1, Zenon DEF Order
  <2> QED BY <2>2, <1>3, Zenon
<1>11. \A g \in U : g.buf.seq = lo => Fit(x, g.buf)
  BY <1>3 DEF Order
<1>12. \A g \in U : g.buf.seq + 1 = hi => ReaderFit(After(g.buf), r)
  BY <1>3 DEF Order
<1> QED BY <1>6, <1>7, <1>8, <1>9, <1>10, <1>11, <1>12, Zenon DEF Order

(* The reader gives a buffer the next number.                                *)
LEMMA OrderNew ==
    ASSUME NEW T, NEW U, NEW lo, NEW hi, NEW x, NEW r, Order(T, lo, hi, x, r),
           NEW f, f.buf \in Buffers, f.buf.seq = hi,
           \A y : ReaderFit(y, r) => Fit(y, f.buf),
           NEW s, ReaderFit(After(f.buf), s),
           U = T \cup {f}
    PROVE  Order(U, lo, hi + 1, x, s)
<1>1. lo \in Nat /\ hi \in Nat /\ lo <= hi
  BY Zenon DEF Order
<1>2. /\ \A e \in T : e.buf \in Buffers /\ lo <= e.buf.seq /\ e.buf.seq < hi
      /\ \A e \in T : e.buf.seq \in Nat
  BY Zenon DEF Order, Buffers
<1>3. \A e \in U : e.buf \in Buffers /\ lo <= e.buf.seq /\ e.buf.seq < hi + 1
  BY <1>1, <1>2
<1>4. \A e, g \in U : e.buf.seq = g.buf.seq => e = g
  BY <1>1, <1>2 DEF Order
<1>5. \A n \in Nat : lo <= n /\ n < hi + 1 => \E e \in U : e.buf.seq = n
  <2> SUFFICES ASSUME NEW n \in Nat, lo <= n, n < hi + 1 PROVE \E e \in U : e.buf.seq = n
    BY Zenon
  <2>1. CASE n = hi
    BY <2>1, Zenon
  <2>2. CASE n # hi
    <3>1. n < hi
      BY <2>2, <1>1
    <3>2. \E e \in T : e.buf.seq = n
      BY <3>1, Zenon DEF Order
    <3> QED BY <3>2, Zenon
  <2> QED BY <2>1, <2>2, Zenon
<1>6. \A e, g \in U : g.buf.seq = e.buf.seq + 1 => Fit(After(e.buf), g.buf)
  <2> SUFFICES ASSUME NEW e \in U, NEW g \in U, g.buf.seq = e.buf.seq + 1
               PROVE  Fit(After(e.buf), g.buf)
    BY Zenon
  <2>1. e \in T
    BY <1>1, <1>2
  <2>2. CASE g \in T
    BY <2>1, <2>2, Zenon DEF Order
  <2>3. CASE g = f
    <3>1. ReaderFit(After(e.buf), r)
      BY <2>1, <2>3, Zenon DEF Order
    <3> QED BY <3>1, <2>3, Zenon
  <2> QED BY <2>2, <2>3, Zenon
<1>7. \A e \in U : e.buf.seq = lo => Fit(x, e.buf)
  <2> SUFFICES ASSUME NEW e \in U, e.buf.seq = lo PROVE Fit(x, e.buf)
    BY Zenon
  <2>1. CASE e \in T
    BY <2>1, Zenon DEF Order
  <2>2. CASE e = f
    <3>1. ReaderFit(x, r)
      BY <2>2, Zenon DEF Order
    <3> QED BY <3>1, <2>2, Zenon
  <2> QED BY <2>1, <2>2, Zenon
<1>8. \A e \in U : e.buf.seq + 1 = hi + 1 => ReaderFit(After(e.buf), s)
  BY <1>1, <1>2
<1>9. lo # hi + 1 /\ lo <= hi + 1 /\ hi + 1 \in Nat
  BY <1>1
<1> QED BY <1>1, <1>3, <1>4, <1>5, <1>6, <1>7, <1>8, <1>9, Zenon DEF Order

(* The reader completes the buffer with the newest number: what fitted       *)
(* before still does, and it goes on with what follows.                      *)
LEMMA OrderFinish ==
    ASSUME NEW T, NEW U, NEW lo, NEW hi, NEW x, NEW r, Order(T, lo, hi, x, r),
           NEW e \in T, e.buf.seq + 1 = hi,
           NEW f, f.buf \in Buffers, f.buf.seq = e.buf.seq,
           \A y : Fit(y, e.buf) => Fit(y, f.buf),
           NEW s, ReaderFit(After(f.buf), s),
           U = (T \ {e}) \cup {f}
    PROVE  Order(U, lo, hi, x, s)
<1>1. lo \in Nat /\ hi \in Nat /\ lo < hi
  BY DEF Order, Buffers
<1>2. \A g \in T : g.buf \in Buffers /\ lo <= g.buf.seq /\ g.buf.seq < hi /\ g.buf.seq \in Nat
  BY Zenon DEF Order, Buffers
<1>3. \A g \in U : g.buf \in Buffers /\ lo <= g.buf.seq /\ g.buf.seq < hi
  BY <1>2, Zenon
<1>4. \A g \in T : g.buf.seq = e.buf.seq => g = e
  BY Zenon DEF Order
<1>5. \A g, h \in U : g.buf.seq = h.buf.seq => g = h
  BY <1>4, Zenon DEF Order
<1>6. \A n \in Nat : lo <= n /\ n < hi => \E g \in U : g.buf.seq = n
  <2> SUFFICES ASSUME NEW n \in Nat, lo <= n, n < hi PROVE \E g \in U : g.buf.seq = n
    BY Zenon
  <2>1. PICK g \in T : g.buf.seq = n
    BY Zenon DEF Order
  <2> QED BY <2>1, Zenon
<1>7. \A g, h \in U : h.buf.seq = g.buf.seq + 1 => Fit(After(g.buf), h.buf)
  <2> SUFFICES ASSUME NEW g \in U, NEW h \in U, h.buf.seq = g.buf.seq + 1
               PROVE  Fit(After(g.buf), h.buf)
    BY Zenon
  <2>1. g \in T
    BY <1>1, <1>2, <1>3
  <2>2. CASE h \in T
    BY <2>1, <2>2, Zenon DEF Order
  <2>3. CASE h = f
    <3>1. Fit(After(g.buf), e.buf)
      BY <2>1, <2>3, Zenon DEF Order
    <3> QED BY <3>1, <2>3, Zenon
  <2> QED BY <2>2, <2>3, Zenon
<1>8. \A g \in U : g.buf.seq = lo => Fit(x, g.buf)
  BY Zenon DEF Order
<1>9. \A g \in U : g.buf.seq + 1 = hi => ReaderFit(After(g.buf), s)
  BY <1>2, <1>4
<1> QED BY <1>1, <1>3, <1>5, <1>6, <1>7, <1>8, <1>9 DEF Order

(* The main thread takes the buffer whose turn it is.                        *)
LEMMA OrderTake ==
    ASSUME NEW T, NEW U, NEW lo, NEW hi, NEW x, NEW r, Order(T, lo, hi, x, r),
           NEW e \in T, e.buf.seq = lo, U = T \ {e}
    PROVE  Order(U, lo + 1, hi, After(e.buf), r)
<1>1. lo \in Nat /\ hi \in Nat /\ lo < hi
  BY Zenon DEF Order, Buffers
<1>2. \A g \in T : g.buf \in Buffers /\ lo <= g.buf.seq /\ g.buf.seq < hi /\ g.buf.seq \in Nat
  BY Zenon DEF Order, Buffers
<1>3. \A g \in T : g.buf.seq = lo => g = e
  BY Zenon DEF Order
<1>4. \A g \in U : g.buf \in Buffers /\ lo + 1 <= g.buf.seq /\ g.buf.seq < hi
  BY <1>1, <1>2, <1>3
<1>5. \A g, h \in U : g.buf.seq = h.buf.seq => g = h
  BY Zenon DEF Order
<1>6. \A n \in Nat : lo + 1 <= n /\ n < hi => \E g \in U : g.buf.seq = n
  <2> SUFFICES ASSUME NEW n \in Nat, lo + 1 <= n, n < hi PROVE \E g \in U : g.buf.seq = n
    BY Zenon
  <2>1. lo <= n /\ n # lo
    BY <1>1
  <2>2. PICK g \in T : g.buf.seq = n
    BY <2>1, Zenon DEF Order
  <2> QED BY <2>1, <2>2, Zenon
<1>7. \A g, h \in U : h.buf.seq = g.buf.seq + 1 => Fit(After(g.buf), h.buf)
  BY Zenon DEF Order
<1>8. \A g \in U : g.buf.seq = lo + 1 => Fit(After(e.buf), g.buf)
  BY Zenon DEF Order
<1>9. \A g \in U : g.buf.seq + 1 = hi => ReaderFit(After(g.buf), r)
  BY Zenon DEF Order
<1>10. lo + 1 = hi => ReaderFit(After(e.buf), r)
  BY Zenon DEF Order
<1> QED BY <1>1, <1>4, <1>5, <1>6, <1>7, <1>8, <1>9, <1>10 DEF Order

-----------------------------------------------------------------------------
(* How the places change *)

(* One buffer more, or one less, at a place.                                 *)
LEMMA AtAdd ==
    ASSUME NEW p, NEW w, NEW S, NEW b
    PROVE  {At(p, w, x) : x \in S \cup {b}} = {At(p, w, x) : x \in S} \cup {At(p, w, b)}
BY Zenon

(* Taking a buffer out of a place takes its position out of the positions. *)
LEMMA AtLess ==
    ASSUME NEW p, NEW w, NEW S, NEW b
    PROVE  {At(p, w, x) : x \in S \ {b}} = {At(p, w, x) : x \in S} \ {At(p, w, b)}
<1>1. \A x, y : At(p, w, x) = At(p, w, y) => x = y
  BY Zenon DEF At
<1> QED BY <1>1, Zenon

(* The fields of a position. *)
LEMMA AtFields ==
    ASSUME NEW p, NEW w, NEW b
    PROVE  At(p, w, b).place = p /\ At(p, w, b).who = w /\ At(p, w, b).buf = b
BY Zenon DEF At

(* The place of a buffer says which of the sets it is in.                    *)
LEMMA Tagged ==
    /\ \A e \in PrevBuffers : e.place = "prev"
    /\ \A e \in DeflateBuffers : e.place = "deflate"
    /\ \A e \in TailBuffers : e.place = "tail"
    /\ \A e \in DeflatorBuffers : e.place = "deflator"
    /\ \A e \in ThreadBuffers : e.place = "thread"
    /\ \A e \in MainBuffers : e.place = "main"
BY AtFields DEF PrevBuffers, DeflateBuffers, TailBuffers, DeflatorBuffers, ThreadBuffers,
                MainBuffers

(* What is not touched stays where it is.                                    *)
LEMMA Untouched ==
    /\ prev_buffer' = prev_buffer => PrevBuffers' = PrevBuffers
    /\ to_deflate' = to_deflate => DeflateBuffers' = DeflateBuffers
    /\ to_process_frag' = to_process_frag => TailBuffers' = TailBuffers
    /\ deflator' = deflator => DeflatorBuffers' = DeflatorBuffers /\ Compressing' = Compressing
    /\ fragment' = fragment => ThreadBuffers' = ThreadBuffers /\ Busy' = Busy
    /\ to_main' = to_main => MainBuffers' = MainBuffers
BY Zenon DEF PrevBuffers, DeflateBuffers, TailBuffers, DeflatorBuffers, ThreadBuffers,
                MainBuffers, Compressing, Busy

\* The queues of put_file_buffer, and what is known of them.
Queued == DeflateBuffers \cup TailBuffers \cup MainBuffers
QueuesOK ==
    /\ to_deflate \in Seq(Buffers) /\ to_process_frag \in Seq(Buffers)
    /\ to_main \subseteq Buffers
    /\ Distinct(to_deflate) /\ Distinct(to_process_frag)
    /\ \A b \in Elems(to_deflate) : DeflateOK(b)
    /\ \A b \in Elems(to_process_frag) : TailOK(b)
    /\ \A b \in to_main : MainOK(b)

(* put_file_buffer puts a buffer that is not queued yet on one of the three  *)
(* queues, and it is one that queue is for.                                  *)
LEMMA PutStep ==
    ASSUME QueuesOK, NEW b \in Buffers, Within(b), b.cache = "reader",
           \A e \in Queued : e.buf # b, PutFileBuffer(b)
    PROVE  /\ QueuesOK'
           /\ \E f : f.buf = b /\ f.place # "prev" /\ Queued' = Queued \cup {f}
<1>0. /\ \A x \in Elems(to_deflate) : x # b
      /\ \A x \in Elems(to_process_frag) : x # b
      /\ \A x \in to_main : x # b
  BY AtFields DEF Queued, DeflateBuffers, TailBuffers, MainBuffers
<1>1. CASE b.error # 0 \/ b.size = 0
  <2>1. to_main' = to_main \cup {b} /\ to_deflate' = to_deflate
          /\ to_process_frag' = to_process_frag
    BY <1>1, Zenon DEF PutFileBuffer, queues
  <2>2. MainOK(b)
    BY <1>1, Zenon DEF MainOK
  <2>3. QueuesOK'
    BY <2>1, <2>2, Zenon DEF QueuesOK
  <2>4. MainBuffers' = MainBuffers \cup {At("main", None, b)}
    BY <2>1, AtAdd, Zenon DEF MainBuffers
  <2>5. DeflateBuffers' = DeflateBuffers /\ TailBuffers' = TailBuffers
    BY <2>1, Untouched, Zenon
  <2>6. Queued' = Queued \cup {At("main", None, b)}
    BY <2>4, <2>5, Zenon DEF Queued
  <2>7. At("main", None, b).buf = b /\ At("main", None, b).place # "prev"
    BY AtFields
  <2> QED BY <2>3, <2>6, <2>7, Zenon
<1>2. CASE b.error = 0 /\ b.size # 0 /\ b.fragment
  <2>1. to_process_frag' = Append(to_process_frag, b) /\ to_main' = to_main
          /\ to_deflate' = to_deflate
    BY <1>2, Zenon DEF PutFileBuffer
  <2>2. TailOK(b)
    BY <1>2, Zenon DEF TailOK
  <2>3. /\ to_process_frag' \in Seq(Buffers) /\ Distinct(to_process_frag')
        /\ Elems(to_process_frag') = Elems(to_process_frag) \cup {b}
    BY <1>0, <2>1, AppendElems DEF QueuesOK
  <2>4. QueuesOK'
    BY <2>1, <2>2, <2>3, Zenon DEF QueuesOK
  <2>5. TailBuffers' = TailBuffers \cup {At("tail", None, b)}
    BY <2>3, AtAdd DEF TailBuffers
  <2>6. DeflateBuffers' = DeflateBuffers /\ MainBuffers' = MainBuffers
    BY <2>1, Untouched, Zenon
  <2>7. Queued' = Queued \cup {At("tail", None, b)}
    BY <2>5, <2>6, Zenon DEF Queued
  <2>8. At("tail", None, b).buf = b /\ At("tail", None, b).place # "prev"
    BY AtFields
  <2> QED BY <2>4, <2>7, <2>8, Zenon
<1>3. CASE b.error = 0 /\ b.size # 0 /\ ~b.fragment
  <2>1. to_deflate' = Append(to_deflate, b) /\ to_main' = to_main
          /\ to_process_frag' = to_process_frag
    BY <1>3, Zenon DEF PutFileBuffer
  <2>2. DeflateOK(b)
    BY <1>3, Zenon DEF DeflateOK
  <2>3. /\ to_deflate' \in Seq(Buffers) /\ Distinct(to_deflate')
        /\ Elems(to_deflate') = Elems(to_deflate) \cup {b}
    BY <1>0, <2>1, AppendElems DEF QueuesOK
  <2>4. QueuesOK'
    BY <2>1, <2>2, <2>3, Zenon DEF QueuesOK
  <2>5. DeflateBuffers' = DeflateBuffers \cup {At("deflate", None, b)}
    BY <2>3, AtAdd DEF DeflateBuffers
  <2>6. TailBuffers' = TailBuffers /\ MainBuffers' = MainBuffers
    BY <2>1, Untouched, Zenon
  <2>7. Queued' = Queued \cup {At("deflate", None, b)}
    BY <2>5, <2>6, Zenon DEF Queued
  <2>8. At("deflate", None, b).buf = b /\ At("deflate", None, b).place # "prev"
    BY AtFields
  <2> QED BY <2>4, <2>7, <2>8, Zenon
<1> QED BY <1>1, <1>2, <1>3, Zenon

(* The reader changes nothing but its own state and these queues.            *)
LEMMA ReaderKeeps ==
    ASSUME IInv, QueuesOK',
           deflator' = deflator, fragment' = fragment, main' = main,
           fragment_buffer' = fragment_buffer, sequence' = sequence,
           reader' \in ReaderStates, prev_buffer' \in Buffers \cup {None}, seq' \in Nat,
           prev_buffer' # None => PrevOK(prev_buffer')
    PROVE  /\ Types' /\ Places' /\ MainInv'
           /\ Expected' = Expected
           /\ OnTheWay' = PrevBuffers' \cup Queued' \cup DeflatorBuffers \cup ThreadBuffers
<1>1. Types'
  BY Untouched, Zenon DEF IInv, Types, QueuesOK
<1>2. Places'
  BY Untouched, Zenon DEF IInv, Places, QueuesOK
<1>3. MainInv'
  BY Zenon DEF IInv, MainInv
<1>4. Expected' = Expected
  BY Zenon DEF Expected
<1>5. DeflatorBuffers' = DeflatorBuffers /\ ThreadBuffers' = ThreadBuffers
  BY Untouched, Zenon
<1>6. OnTheWay' = PrevBuffers' \cup Queued' \cup DeflatorBuffers \cup ThreadBuffers
  BY <1>5, Zenon DEF OnTheWay, Queued
<1> QED BY <1>1, <1>2, <1>3, <1>4, <1>6, Zenon

(* The parts of the invariant that PutStep and ReaderKeeps are about. *)
LEMMA QueuesHold == IInv => QueuesOK
BY Zenon DEF IInv, Types, Places, QueuesOK

(* The buffers on the way, with the queues taken together. *)
LEMMA ReaderPlaces == OnTheWay = PrevBuffers \cup Queued \cup DeflatorBuffers \cup ThreadBuffers
BY Zenon DEF OnTheWay, Queued

(* A number not given out yet is on no buffer.                               *)
LEMMA NewNumber ==
    ASSUME IInv
    PROVE  \A e \in OnTheWay : e.buf.seq # seq
BY DEF IInv, InOrder, Order, Buffers

-----------------------------------------------------------------------------
(* The reader's steps *)

(* The reader passes on a new buffer, with none waiting in prev_buffer.      *)
LEMMA ReadNew ==
    ASSUME IInv, NEW b \in Buffers, b.seq = seq, Within(b), b.cache = "reader",
           PutFileBuffer(b), prev_buffer = None, prev_buffer' = None, seq' = seq + 1,
           deflator' = deflator, fragment' = fragment, main' = main,
           fragment_buffer' = fragment_buffer, sequence' = sequence,
           reader' \in ReaderStates,
           \A y : ReaderFit(y, reader) => Fit(y, b),
           ReaderFit(After(b), reader')
    PROVE  Types' /\ Places' /\ MainInv' /\ InOrder'
<1>1. \A e \in Queued : e.buf # b
  BY NewNumber, ReaderPlaces, Zenon
<1>2. /\ QueuesOK'
      /\ \E f : f.buf = b /\ f.place # "prev" /\ Queued' = Queued \cup {f}
  BY <1>1, QueuesHold, PutStep, Zenon
<1>3. PICK f : f.buf = b /\ f.place # "prev" /\ Queued' = Queued \cup {f}
  BY <1>2, Zenon
<1>4. seq' \in Nat
  BY DEF IInv, Types
<1>5. /\ Types' /\ Places' /\ MainInv'
      /\ Expected' = Expected
      /\ OnTheWay' = PrevBuffers' \cup Queued' \cup DeflatorBuffers \cup ThreadBuffers
  BY <1>2, <1>4, ReaderKeeps, Zenon
<1>6. PrevBuffers' = PrevBuffers
  BY Untouched, Zenon
<1>7. OnTheWay' = OnTheWay \cup {f}
  BY <1>3, <1>5, <1>6, ReaderPlaces, Zenon
<1>8. Order(OnTheWay, sequence, seq, Expected, reader)
  BY Zenon DEF IInv, InOrder
<1>9. Order(OnTheWay', sequence, seq + 1, Expected, reader')
  BY <1>3, <1>7, <1>8, OrderNew, Zenon
<1> QED BY <1>5, <1>9, Zenon DEF InOrder

(* What NextFile makes of the reader.                                        *)
LEMMA NextFileStep ==
    ASSUME Types, NextFile, prev_buffer' = None
    PROVE  /\ reader' \in ReaderStates /\ reader'.file = reader.file + 1 /\ reader'.block = 0
           /\ ReaderInv'
<1>1. PICK s \in Sizes, k \in Kinds : reader' = File(reader.file + 1, k, s)
  BY Zenon DEF NextFile
<1>2. s \in Nat /\ k \in {"file", "process"}
  BY PipelineAssumption DEF Sizes
<1>3. /\ reader' \in ReaderStates /\ reader'.file = reader.file + 1 /\ reader'.block = 0
      /\ reader'.kind = k /\ reader'.size = (IF k = "process" THEN Unknown ELSE s)
  BY <1>1, <1>2 DEF File, ReaderStates, Types
<1> QED BY <1>2, <1>3 DEF ReaderInv

(* A new buffer is one. *)
LEMMA BufferType ==
    ASSUME Types, NEW size \in Nat \cup {Unknown}
    PROVE  Buffer(size) \in Buffers
<1>1. reader.file \in Nat /\ reader.try \in Nat /\ reader.block \in Nat /\ seq \in Nat
  BY Zenon DEF Types, ReaderStates
<1> QED BY <1>1 DEF Buffer, Buffers

(* reader_read_file starts the file again. *)
LEMMA ReaderChange ==
    ASSUME NEW r \in ReaderStates, NEW t \in Nat, NEW n \in Nat, NEW s \in Nat \cup {Unknown}
    PROVE  [r EXCEPT !.try = t, !.block = n, !.size = s] \in ReaderStates
BY Zenon DEF ReaderStates

(* reader_read_file. *)
LEMMA ReadFileStep ==
    ASSUME IInv, ReadFile
    PROVE  IInv'
<1>1. /\ Types /\ ReaderInv
      /\ reader \in ReaderStates
  BY Zenon DEF IInv, Types
<1>2. /\ reader.kind = "file" /\ prev_buffer = None /\ reader.size \in Nat
      /\ reader.block < reader.size \/ (reader.block = 0 /\ reader.size = 0)
      /\ reader.block \in Nat /\ reader.file \in Nat /\ reader.try \in Nat
  BY <1>1, Zenon DEF ReadFile, ReaderInv, ReaderStates
<1>0. reader.size # Unknown
  BY <1>2 DEF Unknown
<1>3. /\ prev_buffer' = None /\ seq' = seq + 1 /\ deflator' = deflator
      /\ fragment' = fragment /\ main' = main
      /\ fragment_buffer' = fragment_buffer /\ sequence' = sequence
  BY <1>2, Zenon DEF ReadFile, mainVars
<1> DEFINE last == reader.block + 1 >= reader.size
<1>4. CASE \E sparse, frag \in BOOLEAN :
                /\ frag => last /\ reader.size # 0
                /\ PutFileBuffer([Buffer(reader.size) EXCEPT
                                     !.fragment = frag, !.sparse = sparse])
                /\ IF last THEN NextFile
                           ELSE reader' = [reader EXCEPT !.block = @ + 1]
  <2>1. PICK sparse \in BOOLEAN, frag \in BOOLEAN :
                /\ frag => last /\ reader.size # 0
                /\ PutFileBuffer([Buffer(reader.size) EXCEPT
                                     !.fragment = frag, !.sparse = sparse])
                /\ IF last THEN NextFile
                           ELSE reader' = [reader EXCEPT !.block = @ + 1]
    BY <1>4, Zenon
  <2>2. PICK b : b = [Buffer(reader.size) EXCEPT !.fragment = frag, !.sparse = sparse]
    BY Zenon
  <2>3. /\ b \in Buffers
        /\ b.file = reader.file /\ b.try = reader.try /\ b.block = reader.block
        /\ b.seq = seq /\ b.size = reader.size /\ b.error = 0 /\ b.fragment = frag
        /\ b.cache = "reader"
    <3>1. Buffer(reader.size) \in Buffers
      BY <1>1, <1>2, BufferType, Zenon
    <3>2. b \in Buffers
      BY <2>2, <3>1, Zenon DEF Buffers
    <3>3. /\ b.file = reader.file /\ b.try = reader.try /\ b.block = reader.block
          /\ b.seq = seq /\ b.size = reader.size /\ b.cache = "reader"
      BY <2>2, Zenon DEF Buffer
    <3>4. b.error = 0 /\ b.fragment = frag
      BY <2>2, Zenon DEF Buffer
    <3> QED BY <3>2, <3>3, <3>4, Zenon
  <2>4. PutFileBuffer(b)
    BY <2>2, <2>1, Zenon
  <2>5. Within(b)
    BY <1>0, <1>2, <2>1, <2>3, Zenon DEF Within, Last
  <2>6. \A y : ReaderFit(y, reader) => Fit(y, b)
    BY <1>0, <1>2, <2>3, Zenon DEF ReaderFit, Fit
  <2>7. Last(b) <=> last
    BY <1>0, <1>2, <2>3, Zenon DEF Last
  <2>8. reader' \in ReaderStates /\ ReaderInv' /\ ReaderFit(After(b), reader')
    <3>1. CASE last
      <4>1. /\ reader' \in ReaderStates /\ reader'.file = reader.file + 1 /\ reader'.block = 0
            /\ ReaderInv'
        BY <1>1, <1>3, <2>1, <3>1, NextFileStep, Zenon
      <4> QED BY <4>1, <2>3, <2>7, <3>1 DEF After, First, ReaderFit
    <3>2. CASE ~last
      <4>1. reader' = [reader EXCEPT !.block = @ + 1]
        BY <2>1, <3>2, Zenon
      <4>2. /\ reader' \in ReaderStates /\ reader'.kind = "file"
            /\ reader'.block = reader.block + 1 /\ reader'.file = reader.file
            /\ reader'.try = reader.try /\ reader'.size = reader.size
        BY <1>1, <1>2, <4>1 DEF ReaderStates
      <4>3. ReaderInv'
        BY <1>2, <1>3, <3>2, <4>2 DEF ReaderInv
      <4> QED BY <4>2, <4>3, <1>0, <1>2, <2>3, <2>7, <3>2 DEF After, ReaderFit
    <3> QED BY <3>1, <3>2, Zenon
  <2>9. Types' /\ Places' /\ MainInv' /\ InOrder'
    BY <1>2, <1>3, <2>3, <2>4, <2>5, <2>6, <2>8, ReadNew, Zenon
  <2> QED BY <2>8, <2>9, Zenon DEF IInv
<1>5. CASE /\ PutFileBuffer([Buffer(reader.size) EXCEPT !.error = 2])
           /\ \E s \in Sizes \ {reader.size} :
                 reader' = [reader EXCEPT !.try = @ + 1, !.block = 0, !.size = s]
  <2>1. PICK s \in Sizes : reader' = [reader EXCEPT !.try = @ + 1, !.block = 0, !.size = s]
    BY <1>5, Zenon
  <2>2. PICK b : b = [Buffer(reader.size) EXCEPT !.error = 2]
    BY Zenon
  <2>3. /\ b \in Buffers
        /\ b.file = reader.file /\ b.try = reader.try /\ b.block = reader.block
        /\ b.seq = seq /\ b.size = reader.size /\ b.error = 2 /\ b.fragment = FALSE
        /\ b.cache = "reader"
    <3>1. Buffer(reader.size) \in Buffers
      BY <1>1, <1>2, BufferType, Zenon
    <3>2. b \in Buffers
      BY <2>2, <3>1 DEF Buffers
    <3>3. /\ b.file = reader.file /\ b.try = reader.try /\ b.block = reader.block
          /\ b.seq = seq /\ b.size = reader.size /\ b.cache = "reader"
      BY <2>2, Zenon DEF Buffer
    <3>4. b.error = 2 /\ b.fragment = FALSE
      BY <2>2, Zenon DEF Buffer
    <3> QED BY <3>2, <3>3, <3>4, Zenon
  <2>4. PutFileBuffer(b)
    BY <2>2, <1>5, Zenon
  <2>5. Within(b)
    BY <1>2, <2>3, Zenon DEF Within
  <2>6. \A y : ReaderFit(y, reader) => Fit(y, b)
    BY <1>0, <1>2, <2>3, Zenon DEF ReaderFit, Fit
  <2>7. s \in Nat
    BY PipelineAssumption DEF Sizes
  <2>8. /\ reader' \in ReaderStates /\ reader'.kind = "file" /\ reader'.block = 0
        /\ reader'.file = reader.file /\ reader'.size = s
    <3>1. reader.try + 1 \in Nat
      BY <1>2
    <3>2. reader' \in ReaderStates
      BY <1>1, <2>1, <2>7, <3>1, ReaderChange, Zenon
    <3>3. /\ reader'.kind = "file" /\ reader'.block = 0
          /\ reader'.file = reader.file /\ reader'.size = s
      BY <1>1, <1>2, <2>1, Zenon DEF ReaderStates
    <3> QED BY <3>2, <3>3, Zenon
  <2>9. ReaderInv'
    BY <1>3, <2>7, <2>8 DEF ReaderInv
  <2>10. ReaderFit(After(b), reader')
    BY <2>3, <2>8, Zenon DEF After, First, ReaderFit
  <2>11. Types' /\ Places' /\ MainInv' /\ InOrder'
    BY <1>2, <1>3, <2>3, <2>4, <2>5, <2>6, <2>8, <2>10, ReadNew, Zenon
  <2> QED BY <2>9, <2>11, Zenon DEF IInv
<1>6. CASE /\ PutFileBuffer([Buffer(reader.size) EXCEPT !.error = 1])
           /\ NextFile
  <2>2. PICK b : b = [Buffer(reader.size) EXCEPT !.error = 1]
    BY Zenon
  <2>3. /\ b \in Buffers
        /\ b.file = reader.file /\ b.try = reader.try /\ b.block = reader.block
        /\ b.seq = seq /\ b.size = reader.size /\ b.error = 1 /\ b.fragment = FALSE
        /\ b.cache = "reader"
    <3>1. Buffer(reader.size) \in Buffers
      BY <1>1, <1>2, BufferType, Zenon
    <3>2. b \in Buffers
      BY <2>2, <3>1 DEF Buffers
    <3>3. /\ b.file = reader.file /\ b.try = reader.try /\ b.block = reader.block
          /\ b.seq = seq /\ b.size = reader.size /\ b.cache = "reader"
      BY <2>2, Zenon DEF Buffer
    <3>4. b.error = 1 /\ b.fragment = FALSE
      BY <2>2, Zenon DEF Buffer
    <3> QED BY <3>2, <3>3, <3>4, Zenon
  <2>4. PutFileBuffer(b)
    BY <2>2, <1>6, Zenon
  <2>5. Within(b)
    BY <1>2, <2>3, Zenon DEF Within
  <2>6. \A y : ReaderFit(y, reader) => Fit(y, b)
    BY <1>0, <1>2, <2>3, Zenon DEF ReaderFit, Fit
  <2>8. /\ reader' \in ReaderStates /\ reader'.file = reader.file + 1 /\ reader'.block = 0
        /\ ReaderInv'
    BY <1>1, <1>3, <1>6, NextFileStep, Zenon
  <2>10. ReaderFit(After(b), reader')
    BY <2>3, <2>8 DEF After, First, ReaderFit
  <2>11. Types' /\ Places' /\ MainInv' /\ InOrder'
    BY <1>2, <1>3, <2>3, <2>4, <2>5, <2>6, <2>8, <2>10, ReadNew, Zenon
  <2> QED BY <2>8, <2>11, Zenon DEF IInv
<1> QED BY <1>4, <1>5, <1>6, Zenon DEF ReadFile

(* The buffer in prev_buffer is on its way, and in no other place.           *)
LEMMA PrevAlone ==
    ASSUME IInv, prev_buffer # None
    PROVE  /\ PrevBuffers = {At("prev", None, prev_buffer)}
           /\ At("prev", None, prev_buffer) \in OnTheWay
           /\ \A e \in OnTheWay : e.buf.seq = prev_buffer.seq
                                     => e = At("prev", None, prev_buffer)
           /\ \A e \in Queued \cup DeflatorBuffers \cup ThreadBuffers :
                 e.buf.seq # prev_buffer.seq
<1>1. PrevBuffers = {At("prev", None, prev_buffer)}
  BY Zenon DEF PrevBuffers
<1>2. At("prev", None, prev_buffer) \in OnTheWay
  BY <1>1, Zenon DEF OnTheWay
<1>3. \A e \in OnTheWay : e.buf.seq = prev_buffer.seq => e = At("prev", None, prev_buffer)
  <2>1. At("prev", None, prev_buffer).buf = prev_buffer
    BY AtFields
  <2> QED BY <1>2, <2>1 DEF IInv, InOrder, Order
<1>4. \A e \in Queued \cup DeflatorBuffers \cup ThreadBuffers : e.place # "prev"
  BY Tagged, Zenon DEF Queued
<1>5. At("prev", None, prev_buffer).place = "prev"
  BY AtFields
<1>6. \A e \in Queued \cup DeflatorBuffers \cup ThreadBuffers : e \in OnTheWay
  BY ReaderPlaces, Zenon
<1> QED BY <1>1, <1>2, <1>3, <1>4, <1>5, <1>6, Zenon

(* prev_buffer is passed on, as it is or completed.                          *)
LEMMA PutPrev ==
    ASSUME IInv, prev_buffer # None, NEW b \in Buffers, Within(b), b.cache = "reader",
           b.seq = prev_buffer.seq, PutFileBuffer(b)
    PROVE  /\ QueuesOK'
           /\ \E f : /\ f.buf = b
                     /\ Queued' = Queued \cup {f}
                     /\ Queued' \cup DeflatorBuffers \cup ThreadBuffers
                           = (OnTheWay \ {At("prev", None, prev_buffer)}) \cup {f}
<1>1. \A e \in Queued : e.buf # b
  BY PrevAlone, Zenon
<1>2. /\ QueuesOK'
      /\ \E f : f.buf = b /\ f.place # "prev" /\ Queued' = Queued \cup {f}
  BY <1>1, QueuesHold, PutStep, Zenon
<1>3. PICK f : f.buf = b /\ f.place # "prev" /\ Queued' = Queued \cup {f}
  BY <1>2, Zenon
<1>4. At("prev", None, prev_buffer) \notin Queued \cup DeflatorBuffers \cup ThreadBuffers
  BY PrevAlone, AtFields
<1>5. Queued' \cup DeflatorBuffers \cup ThreadBuffers
          = (OnTheWay \ {At("prev", None, prev_buffer)}) \cup {f}
  BY <1>3, <1>4, ReaderPlaces, PrevAlone, Zenon
<1> QED BY <1>2, <1>3, <1>5, Zenon

(* reader_read_process reads a block and keeps it in prev_buffer.            *)
LEMMA ReadProcessBlock ==
    ASSUME IInv, reader.kind = "process", NEW sparse \in BOOLEAN,
           prev_buffer' = [Buffer(Unknown) EXCEPT !.sparse = sparse],
           seq' = seq + 1, reader' = [reader EXCEPT !.block = @ + 1],
           IF prev_buffer = None THEN UNCHANGED <<queues, to_main>>
                                 ELSE PutFileBuffer(prev_buffer),
           deflator' = deflator, fragment' = fragment, main' = main,
           fragment_buffer' = fragment_buffer, sequence' = sequence
    PROVE  IInv'
<1>1. /\ Types /\ ReaderInv /\ Places
      /\ reader \in ReaderStates
      /\ reader.block \in Nat /\ seq \in Nat
  BY Zenon DEF IInv, Types, ReaderStates
<1>2. PICK b : b = prev_buffer'
  BY Zenon
<1>3. /\ b \in Buffers /\ PrevOK(b)
      /\ b.file = reader.file /\ b.try = reader.try /\ b.block = reader.block
      /\ b.seq = seq
  <2>1. Buffer(Unknown) \in Buffers
    BY <1>1, BufferType, Zenon
  <2>2. b \in Buffers
    BY <1>2, <2>1, Zenon DEF Buffers
  <2>3. /\ b.file = reader.file /\ b.try = reader.try /\ b.block = reader.block
        /\ b.seq = seq /\ b.size = Unknown /\ b.cache = "reader"
    BY <1>2, Zenon DEF Buffer
  <2>4. b.error = 0 /\ b.fragment = FALSE
    BY <1>2, Zenon DEF Buffer
  <2> QED BY <2>2, <2>3, <2>4, Zenon DEF PrevOK
<1>4. /\ reader' \in ReaderStates /\ reader'.kind = "process"
      /\ reader'.block = reader.block + 1 /\ reader'.file = reader.file
      /\ reader'.try = reader.try
  BY <1>1 DEF ReaderStates
<1>5. prev_buffer' # None
  BY <1>2, <1>3, NoneAssumption, Zenon
<1>6. ReaderInv'
  BY <1>1, <1>2, <1>3, <1>4, <1>5 DEF ReaderInv
<1>7. \A y : ReaderFit(y, reader) => Fit(y, b)
  BY <1>3, Zenon DEF ReaderFit, Fit, PrevOK
<1>8. ReaderFit(After(b), reader')
  BY <1>3, <1>4 DEF After, ReaderFit, PrevOK, Last
<1> DEFINE f == At("prev", None, b)
<1>9. f.buf = b
  BY AtFields
<1>10. PrevBuffers' = {f}
  BY <1>2, <1>5, Zenon DEF PrevBuffers
<1> HIDE DEF f
<1>11. Order(OnTheWay, sequence, seq, Expected, reader)
  BY Zenon DEF IInv, InOrder
<1>12. CASE prev_buffer = None
  <2>1. to_deflate' = to_deflate /\ to_process_frag' = to_process_frag /\ to_main' = to_main
    BY <1>12, Zenon DEF queues
  <2>2. QueuesOK' /\ Queued' = Queued
    BY <2>1, QueuesHold, Untouched, Zenon DEF QueuesOK, Queued
  <2>3. /\ Types' /\ Places' /\ MainInv'
        /\ Expected' = Expected
        /\ OnTheWay' = PrevBuffers' \cup Queued' \cup DeflatorBuffers \cup ThreadBuffers
    BY <1>1, <1>2, <1>3, <1>4, <2>2, ReaderKeeps
  <2>4. PrevBuffers = {}
    BY <1>12, Zenon DEF PrevBuffers
  <2>5. OnTheWay' = OnTheWay \cup {f}
    BY <1>10, <2>2, <2>3, <2>4, ReaderPlaces, Zenon
  <2>6. Order(OnTheWay', sequence, seq + 1, Expected, reader')
    BY <1>3, <1>7, <1>8, <1>9, <1>11, <2>5, OrderNew, Zenon
  <2> QED BY <1>6, <2>3, <2>6, Zenon DEF IInv, InOrder
<1>13. CASE prev_buffer # None
  <2>1. prev_buffer \in Buffers /\ PrevOK(prev_buffer)
    BY <1>1, <1>13, Zenon DEF Types, Places
  <2>2. Within(prev_buffer) /\ prev_buffer.cache = "reader" /\ PutFileBuffer(prev_buffer)
    BY <1>13, <2>1, Zenon DEF PrevOK, Within
  <2>3. /\ QueuesOK'
        /\ \E g : /\ g.buf = prev_buffer
                  /\ Queued' = Queued \cup {g}
                  /\ Queued' \cup DeflatorBuffers \cup ThreadBuffers
                        = (OnTheWay \ {At("prev", None, prev_buffer)}) \cup {g}
    BY <1>13, <2>1, <2>2, PutPrev, Zenon
  <2>4. PICK g : /\ g.buf = prev_buffer
                 /\ Queued' \cup DeflatorBuffers \cup ThreadBuffers
                        = (OnTheWay \ {At("prev", None, prev_buffer)}) \cup {g}
    BY <2>3, Zenon
  <2>5. /\ Types' /\ Places' /\ MainInv'
        /\ Expected' = Expected
        /\ OnTheWay' = PrevBuffers' \cup Queued' \cup DeflatorBuffers \cup ThreadBuffers
    BY <1>1, <1>2, <1>3, <1>4, <2>3, ReaderKeeps
  <2> DEFINE U == (OnTheWay \ {At("prev", None, prev_buffer)}) \cup {g}
  <2>6. OnTheWay' = U \cup {f}
    BY <1>10, <2>4, <2>5, Zenon
  <2>7. At("prev", None, prev_buffer) \in OnTheWay
          /\ At("prev", None, prev_buffer).buf = prev_buffer
    BY <1>13, PrevAlone, AtFields
  <2>8. Order(U, sequence, seq, Expected, reader)
    BY <1>11, <2>1, <2>4, <2>7, OrderMove, Zenon
  <2> HIDE DEF U
  <2>9. Order(OnTheWay', sequence, seq + 1, Expected, reader')
    BY <1>3, <1>7, <1>8, <1>9, <2>6, <2>8, OrderNew, Zenon
  <2> QED BY <1>6, <2>5, <2>9, Zenon DEF IInv, InOrder
<1> QED BY <1>12, <1>13, Zenon

(* prev_buffer when it is completed. *)
LEMMA BufferChange ==
    ASSUME NEW b \in Buffers, NEW n \in Nat \cup {Unknown}, NEW e \in 0..2, NEW f \in BOOLEAN
    PROVE  [b EXCEPT !.size = n, !.error = e, !.fragment = f] \in Buffers
BY Zenon DEF Buffers

(* reader_read_process at the end of its input, or at an error.              *)
LEMMA ReadProcessEnd ==
    ASSUME IInv, reader.kind = "process", prev_buffer # None,
           NEW error \in 0..1, NEW frag \in BOOLEAN,
           PutFileBuffer([prev_buffer EXCEPT !.size = reader.block,
                              !.error = error, !.fragment = frag]),
           prev_buffer' = None, NextFile, seq' = seq,
           deflator' = deflator, fragment' = fragment, main' = main,
           fragment_buffer' = fragment_buffer, sequence' = sequence
    PROVE  IInv'
<1>1. /\ Types /\ ReaderInv /\ Places
      /\ prev_buffer \in Buffers /\ PrevOK(prev_buffer)
      /\ reader.block \in Nat /\ seq \in Nat
  BY Zenon DEF IInv, Types, Places, ReaderStates
<1>2. /\ prev_buffer.seq + 1 = seq /\ prev_buffer.block + 1 = reader.block
      /\ prev_buffer.file = reader.file /\ prev_buffer.try = reader.try
  BY <1>1, Zenon DEF ReaderInv
<1>3. PICK b : b = [prev_buffer EXCEPT !.size = reader.block,
                        !.error = error, !.fragment = frag]
  BY Zenon
<1>4. /\ b \in Buffers
      /\ b.file = reader.file /\ b.try = reader.try /\ b.block = prev_buffer.block
      /\ b.block + 1 = reader.block /\ b.block \in Nat
      /\ b.seq = prev_buffer.seq /\ b.size = reader.block /\ b.cache = "reader"
      /\ b.error = error /\ b.fragment = frag
  <2>1. b \in Buffers
    <3>1. error \in 0..2 /\ reader.block \in Nat \cup {Unknown}
      BY <1>1
    <3> QED BY <1>1, <1>3, <3>1, BufferChange, Zenon
  <2>2. /\ b.file = prev_buffer.file /\ b.try = prev_buffer.try
        /\ b.block = prev_buffer.block /\ b.seq = prev_buffer.seq /\ b.size = reader.block
        /\ b.error = error /\ b.cache = prev_buffer.cache
    BY <1>1, <1>3, Zenon DEF Buffers
  <2>3. b.fragment = frag
    BY <1>1, <1>3, Zenon DEF Buffers
  <2>4. b.block \in Nat
    BY <2>1, Zenon DEF Buffers
  <2> QED BY <1>1, <1>2, <2>1, <2>2, <2>3, <2>4, Zenon DEF PrevOK
<1>5. Last(b) /\ Within(b) /\ b.size # Unknown
  BY <1>4 DEF Last, Within, Unknown
<1>6. PutFileBuffer(b)
  BY <1>3, Zenon
<1>7. /\ QueuesOK'
      /\ \E g : /\ g.buf = b
                /\ Queued' = Queued \cup {g}
                /\ Queued' \cup DeflatorBuffers \cup ThreadBuffers
                      = (OnTheWay \ {At("prev", None, prev_buffer)}) \cup {g}
  BY <1>4, <1>5, <1>6, PutPrev, Zenon
<1>8. PICK g : /\ g.buf = b
               /\ Queued' \cup DeflatorBuffers \cup ThreadBuffers
                      = (OnTheWay \ {At("prev", None, prev_buffer)}) \cup {g}
  BY <1>7, Zenon
<1>9. /\ reader' \in ReaderStates /\ reader'.file = reader.file + 1 /\ reader'.block = 0
      /\ ReaderInv'
  BY <1>1, NextFileStep, Zenon
<1>10. /\ Types' /\ Places' /\ MainInv'
       /\ Expected' = Expected
       /\ OnTheWay' = PrevBuffers' \cup Queued' \cup DeflatorBuffers \cup ThreadBuffers
  BY <1>1, <1>7, <1>9, ReaderKeeps, Zenon
<1>11. PrevBuffers' = {}
  BY Zenon DEF PrevBuffers
<1>12. OnTheWay' = (OnTheWay \ {At("prev", None, prev_buffer)}) \cup {g}
  BY <1>8, <1>10, <1>11, Zenon
<1>13. ReaderFit(After(b), reader')
  BY <1>4, <1>5, <1>9 DEF After, First, ReaderFit
<1>14. \A y : Fit(y, prev_buffer) => Fit(y, b)
  BY <1>1, <1>2, <1>4, <1>5, Zenon DEF Fit, PrevOK
<1>15. At("prev", None, prev_buffer) \in OnTheWay
          /\ At("prev", None, prev_buffer).buf = prev_buffer
  BY PrevAlone, AtFields
<1>16. Order(OnTheWay, sequence, seq, Expected, reader)
  BY Zenon DEF IInv, InOrder
<1>17. Order(OnTheWay', sequence, seq, Expected, reader')
  BY <1>2, <1>4, <1>8, <1>12, <1>13, <1>14, <1>15, <1>16, OrderFinish, Zenon
<1> QED BY <1>9, <1>10, <1>17, Zenon DEF IInv, InOrder

(* reader_read_process of a pseudo file without data.                        *)
LEMMA ReadProcessEmpty ==
    ASSUME IInv, reader.kind = "process", prev_buffer = None, NEW error \in 0..1,
           PutFileBuffer([Buffer(0) EXCEPT !.error = error]),
           prev_buffer' = None, NextFile, seq' = seq + 1,
           deflator' = deflator, fragment' = fragment, main' = main,
           fragment_buffer' = fragment_buffer, sequence' = sequence
    PROVE  IInv'
<1>1. /\ Types /\ ReaderInv
      /\ reader.block = 0
  BY Zenon DEF IInv, ReaderInv
<1>2. PICK b : b = [Buffer(0) EXCEPT !.error = error]
  BY Zenon
<1>3. /\ b \in Buffers
      /\ b.file = reader.file /\ b.try = reader.try /\ b.block = 0
      /\ b.seq = seq /\ b.size = 0 /\ b.cache = "reader"
      /\ b.error = error /\ b.fragment = FALSE
  <2>1. Buffer(0) \in Buffers
    BY <1>1, BufferType
  <2>2. b \in Buffers
    BY <1>2, <2>1 DEF Buffers
  <2>3. /\ b.file = reader.file /\ b.try = reader.try /\ b.block = reader.block
        /\ b.seq = seq /\ b.size = 0 /\ b.cache = "reader"
    BY <1>2, Zenon DEF Buffer
  <2>4. b.error = error /\ b.fragment = FALSE
    BY <1>2, Zenon DEF Buffer
  <2> QED BY <1>1, <2>2, <2>3, <2>4, Zenon
<1>4. PutFileBuffer(b)
  BY <1>2, Zenon
<1>5. Within(b) /\ Last(b)
  BY <1>3 DEF Within, Last, Unknown
<1>6. \A y : ReaderFit(y, reader) => Fit(y, b)
  BY <1>1, <1>3, <1>5, Zenon DEF ReaderFit, Fit
<1>7. /\ reader' \in ReaderStates /\ reader'.file = reader.file + 1 /\ reader'.block = 0
      /\ ReaderInv'
  BY <1>1, NextFileStep, Zenon
<1>8. ReaderFit(After(b), reader')
  BY <1>3, <1>5, <1>7 DEF After, First, ReaderFit
<1>9. Types' /\ Places' /\ MainInv' /\ InOrder'
  BY <1>3, <1>4, <1>5, <1>6, <1>7, <1>8, ReadNew, Zenon
<1> QED BY <1>7, <1>9, Zenon DEF IInv

(* reader_read_process *)
LEMMA ReadProcessStep ==
    ASSUME IInv, ReadProcess
    PROVE  IInv'
<1>1. /\ reader.kind = "process" /\ deflator' = deflator /\ fragment' = fragment
      /\ main' = main /\ fragment_buffer' = fragment_buffer /\ sequence' = sequence
  BY Zenon DEF ReadProcess, mainVars
<1>2. CASE /\ seq' = seq + 1
           /\ \E sparse \in BOOLEAN :
                prev_buffer' = [Buffer(Unknown) EXCEPT !.sparse = sparse]
           /\ reader' = [reader EXCEPT !.block = @ + 1]
           /\ IF prev_buffer = None THEN UNCHANGED <<queues, to_main>>
                                    ELSE PutFileBuffer(prev_buffer)
  BY <1>1, <1>2, ReadProcessBlock, Zenon
<1>3. CASE /\ prev_buffer = None /\ seq' = seq + 1
           /\ \E error \in 0..1 : PutFileBuffer([Buffer(0) EXCEPT !.error = error])
           /\ NextFile /\ prev_buffer' = prev_buffer
  BY <1>1, <1>3, ReadProcessEmpty, Zenon
<1>4. CASE /\ prev_buffer # None /\ seq' = seq
           /\ \E error \in 0..1, frag \in BOOLEAN :
                PutFileBuffer([prev_buffer EXCEPT !.size = reader.block,
                                   !.error = error, !.fragment = frag])
           /\ prev_buffer' = None /\ NextFile
  BY <1>1, <1>4, ReadProcessEnd, Zenon
<1> QED BY <1>2, <1>3, <1>4, Zenon DEF ReadProcess

-----------------------------------------------------------------------------
(* The steps of the deflator and fragment threads *)

(* A thread passes a buffer on.                                              *)
LEMMA PassOn ==
    ASSUME IInv, NEW e \in OnTheWay, NEW f, f.buf \in Buffers,
           f.buf.seq = e.buf.seq, f.buf.file = e.buf.file, f.buf.try = e.buf.try,
           f.buf.block = e.buf.block, f.buf.size = e.buf.size, f.buf.error = e.buf.error,
           OnTheWay' = (OnTheWay \ {e}) \cup {f},
           UNCHANGED <<readerVars, mainVars>>, Types', Places'
    PROVE  IInv'
<1>1. /\ reader' = reader /\ prev_buffer' = prev_buffer /\ seq' = seq /\ main' = main
      /\ sequence' = sequence /\ fragment_buffer' = fragment_buffer
  BY Zenon DEF readerVars, mainVars
<1>2. ReaderInv' /\ MainInv' /\ Expected' = Expected
  BY <1>1, Zenon DEF IInv, ReaderInv, MainInv, Expected
<1>3. Order(OnTheWay, sequence, seq, Expected, reader)
  BY Zenon DEF IInv, InOrder
<1>4. Order(OnTheWay', sequence, seq, Expected, reader)
  BY <1>3, OrderMove, Zenon
<1>5. InOrder'
  BY <1>1, <1>2, <1>4, Zenon DEF InOrder
<1> QED BY <1>2, <1>5, Zenon DEF IInv

(* deflator: cache_get_nohash *)
LEMMA DeflatorGetBufferStep ==
    ASSUME IInv, NEW d \in Deflators, DeflatorGetBuffer(d)
    PROVE  IInv'
<1>1. /\ reader' = reader /\ prev_buffer' = prev_buffer /\ seq' = seq /\ main' = main
      /\ sequence' = sequence /\ fragment_buffer' = fragment_buffer
      /\ to_deflate' = to_deflate /\ to_process_frag' = to_process_frag
      /\ to_main' = to_main /\ fragment' = fragment
  BY Zenon DEF DeflatorGetBuffer, readerVars, mainVars, queues
<1>2. /\ deflator \in [Deflators -> DeflatorStates]
      /\ deflator[d].at = "start" /\ deflator' = [deflator EXCEPT ![d].at = "idle"]
  BY Zenon DEF DeflatorGetBuffer, IInv, Types
<1>3. deflator' \in [Deflators -> DeflatorStates]
  BY <1>2, Zenon DEF DeflatorStates
<1>4. \A c \in Deflators : /\ deflator'[c].block = deflator[c].block
                           /\ deflator'[c].at = "compress" <=> deflator[c].at = "compress"
  BY <1>2, Zenon DEF DeflatorStates
<1>5. Compressing' = Compressing
  BY <1>4, Zenon DEF Compressing
<1>6. \A c \in Compressing : deflator'[c].block = deflator[c].block
  BY <1>4, Zenon DEF Compressing
<1>7. DeflatorBuffers' = DeflatorBuffers
  BY <1>5, <1>6, Zenon DEF DeflatorBuffers
<1>8. OnTheWay' = OnTheWay /\ Busy' = Busy
  BY <1>1, <1>7, Untouched, Zenon DEF OnTheWay
<1>9. Types'
  BY <1>1, <1>3, <1>5, <1>6, Zenon DEF IInv, Types
<1>10. Places'
  BY <1>1, <1>5, <1>6, <1>8, Zenon DEF IInv, Places
<1>11. ReaderInv' /\ MainInv' /\ Expected' = Expected
  BY <1>1, Zenon DEF IInv, ReaderInv, MainInv, Expected
<1>12. InOrder'
  BY <1>1, <1>8, <1>11, Zenon DEF IInv, InOrder
<1> QED BY <1>9, <1>10, <1>11, <1>12, Zenon DEF IInv

(* A deflator becomes busy with block b, or no longer is.                    *)
LEMMA DeflatorBusy ==
    ASSUME Types, NEW d \in Deflators, d \notin Compressing, NEW b \in Buffers,
           deflator' = [deflator EXCEPT ![d] = [at |-> "compress", block |-> b]]
    PROVE  /\ Compressing' = Compressing \cup {d}
           /\ deflator' \in [Deflators -> DeflatorStates]
           /\ deflator'[d].block = b
           /\ \A c \in Compressing : deflator'[c] = deflator[c]
           /\ DeflatorBuffers' = DeflatorBuffers \cup {At("deflator", d, b)}
<1>1. deflator \in [Deflators -> DeflatorStates]
  BY Zenon DEF Types
<1>2. [at |-> "compress", block |-> b] \in DeflatorStates
  BY Zenon DEF DeflatorStates
<1>3. /\ deflator' \in [Deflators -> DeflatorStates]
      /\ deflator'[d] = [at |-> "compress", block |-> b]
      /\ \A c \in Deflators : c # d => deflator'[c] = deflator[c]
  BY <1>1, <1>2, Zenon
<1>4. deflator'[d].at = "compress" /\ deflator'[d].block = b
  BY <1>3, Zenon
<1>5. Compressing' = Compressing \cup {d}
  BY <1>3, <1>4, Zenon DEF Compressing
<1>6. \A c \in Compressing : deflator'[c] = deflator[c]
  BY <1>3, Zenon DEF Compressing
<1>7. DeflatorBuffers' = DeflatorBuffers \cup {At("deflator", d, b)}
  BY <1>4, <1>5, <1>6, Zenon DEF DeflatorBuffers
<1> QED BY <1>3, <1>4, <1>5, <1>6, <1>7, Zenon

(* A deflator that hands its block on holds none. *)
LEMMA DeflatorFree ==
    ASSUME Types, NEW d \in Compressing, NEW at \in {"start", "idle"},
           deflator' = [deflator EXCEPT ![d] = [at |-> at, block |-> None]]
    PROVE  /\ Compressing' = Compressing \ {d}
           /\ deflator' \in [Deflators -> DeflatorStates]
           /\ deflator'[d].at = at
           /\ \A c \in Deflators : c # d => deflator'[c] = deflator[c]
           /\ DeflatorBuffers' = DeflatorBuffers \ {At("deflator", d, deflator[d].block)}
<1>1. deflator \in [Deflators -> DeflatorStates] /\ d \in Deflators
  BY Zenon DEF Types, Compressing
<1>2. [at |-> at, block |-> None] \in DeflatorStates
  BY Zenon DEF DeflatorStates
<1>3. /\ deflator' \in [Deflators -> DeflatorStates]
      /\ deflator'[d] = [at |-> at, block |-> None]
      /\ \A c \in Deflators : c # d => deflator'[c] = deflator[c]
  BY <1>1, <1>2, Zenon
<1>4. deflator'[d].at = at
  BY <1>3
<1>5. Compressing' = Compressing \ {d}
  BY <1>3, <1>4, Zenon DEF Compressing
<1>6. \A c \in Compressing' : deflator'[c] = deflator[c]
  BY <1>3, <1>5, Zenon DEF Compressing
<1>7. \A c : At("deflator", c, deflator[c].block) = At("deflator", d, deflator[d].block) => c = d
  BY AtFields
<1>8. DeflatorBuffers' = DeflatorBuffers \ {At("deflator", d, deflator[d].block)}
  BY <1>5, <1>6, <1>7 DEF DeflatorBuffers
<1> QED BY <1>3, <1>4, <1>5, <1>8, Zenon

(* deflator: queue_get *)
LEMMA DeflatorTakeStep ==
    ASSUME IInv, NEW d \in Deflators, DeflatorTake(d)
    PROVE  IInv'
<1>1. /\ UNCHANGED <<readerVars, mainVars>>
      /\ reader' = reader /\ prev_buffer' = prev_buffer /\ seq' = seq /\ main' = main
      /\ sequence' = sequence /\ to_process_frag' = to_process_frag
      /\ to_main' = to_main /\ fragment' = fragment
  BY Zenon DEF DeflatorTake, readerVars, mainVars
<1>2. PICK b : b = Head(to_deflate)
  BY Zenon
<1>3. /\ Types /\ Places /\ to_deflate \in Seq(Buffers) /\ to_deflate # <<>>
      /\ to_deflate' = Tail(to_deflate) /\ Distinct(to_deflate)
      /\ deflator' = [deflator EXCEPT ![d] = [at |-> "compress", block |-> b]]
      /\ d \notin Compressing
  BY <1>2, Zenon DEF DeflatorTake, IInv, Types, Places, Compressing
<1>4. /\ to_deflate' \in Seq(Buffers) /\ Distinct(to_deflate')
      /\ b \in Elems(to_deflate)
      /\ Elems(to_deflate') = Elems(to_deflate) \ {b}
  BY <1>2, <1>3, TailElems, Zenon
<1>5. b \in Buffers
  BY <1>3, <1>4 DEF Elems
<1>6. /\ Compressing' = Compressing \cup {d}
      /\ deflator' \in [Deflators -> DeflatorStates]
      /\ deflator'[d].block = b
      /\ \A c \in Compressing : deflator'[c] = deflator[c]
      /\ DeflatorBuffers' = DeflatorBuffers \cup {At("deflator", d, b)}
  BY <1>3, <1>5, DeflatorBusy, Zenon
<1>7. DeflateBuffers' = DeflateBuffers \ {At("deflate", None, b)}
  <2>1. DeflateBuffers' = {At("deflate", None, x) : x \in Elems(to_deflate) \ {b}}
    BY <1>4, Zenon DEF DeflateBuffers
  <2> QED BY <2>1, AtLess, Zenon DEF DeflateBuffers
<1>8. At("deflate", None, b) \in DeflateBuffers
  BY <1>4, Zenon DEF DeflateBuffers
<1>9. /\ PrevBuffers' = PrevBuffers /\ TailBuffers' = TailBuffers
      /\ ThreadBuffers' = ThreadBuffers /\ MainBuffers' = MainBuffers /\ Busy' = Busy
  BY <1>1, Untouched, Zenon
<1>10. At("deflate", None, b) \notin PrevBuffers \cup TailBuffers \cup DeflatorBuffers
                                       \cup ThreadBuffers \cup MainBuffers
  BY Tagged, AtFields
<1>11. /\ OnTheWay' = (OnTheWay \ {At("deflate", None, b)}) \cup {At("deflator", d, b)}
       /\ At("deflate", None, b) \in OnTheWay
  BY <1>6, <1>7, <1>8, <1>9, <1>10 DEF OnTheWay
<1>12. Types'
  BY <1>1, <1>3, <1>4, <1>5, <1>6, Zenon DEF Types
<1>13. Places'
  BY <1>1, <1>3, <1>4, <1>6, <1>9, Zenon DEF Places
<1>14. At("deflate", None, b).buf = b /\ At("deflator", d, b).buf = b
  BY AtFields
<1> QED BY <1>1, <1>5, <1>11, <1>12, <1>13, <1>14, PassOn, Zenon

(* deflator: the rest of a pass *)
LEMMA DeflatorPutStep ==
    ASSUME IInv, NEW d \in Deflators, DeflatorPut(d)
    PROVE  IInv'
<1>1. /\ UNCHANGED <<readerVars, mainVars>>
      /\ reader' = reader /\ prev_buffer' = prev_buffer /\ seq' = seq /\ main' = main
      /\ sequence' = sequence /\ to_process_frag' = to_process_frag
      /\ to_deflate' = to_deflate /\ fragment' = fragment
  BY Zenon DEF DeflatorPut, readerVars, mainVars, queues
<1>2. PICK b : b = deflator[d].block
  BY Zenon
<1>3. Types /\ Places /\ d \in Compressing
  BY Zenon DEF DeflatorPut, IInv, Compressing
<1>4. b \in Buffers /\ DeflateOK(b)
  BY <1>2, <1>3, Zenon DEF Types, Places
<1> DEFINE Passed(c) == /\ b.sparse => c = b
                        /\ ~b.sparse => c = [b EXCEPT !.cache = "bwriter"]
<1>5. \E at \in {"start", "idle"} :
          /\ deflator' = [deflator EXCEPT ![d] = [at |-> at, block |-> None]]
          /\ \E c : to_main' = to_main \cup {c} /\ Passed(c)
  <2>1. CASE b.sparse
    <3>1. /\ to_main' = to_main \cup {b}
          /\ deflator' = [deflator EXCEPT ![d] = [at |-> "idle", block |-> None]]
      BY <1>2, <2>1, Zenon DEF DeflatorPut
    <3>2. Passed(b)
      BY <2>1, Zenon
    <3> HIDE DEF Passed
    <3> QED BY <3>1, <3>2, Zenon
  <2>2. CASE ~b.sparse
    <3>1. /\ to_main' = to_main \cup {[b EXCEPT !.cache = "bwriter"]}
          /\ deflator' = [deflator EXCEPT ![d] = [at |-> "start", block |-> None]]
      BY <1>2, <2>2, Zenon DEF DeflatorPut
    <3>2. Passed([b EXCEPT !.cache = "bwriter"])
      BY <2>2, Zenon
    <3> HIDE DEF Passed
    <3> QED BY <3>1, <3>2, Zenon
  <2> QED BY <2>1, <2>2, Zenon
<1>6. PICK at \in {"start", "idle"} :
          /\ deflator' = [deflator EXCEPT ![d] = [at |-> at, block |-> None]]
          /\ \E c : to_main' = to_main \cup {c} /\ Passed(c)
  BY <1>5, Zenon
<1>7. PICK c : to_main' = to_main \cup {c} /\ Passed(c)
  BY <1>6, Zenon
<1>8. /\ c \in Buffers /\ MainOK(c)
      /\ c.seq = b.seq /\ c.file = b.file /\ c.try = b.try /\ c.block = b.block
      /\ c.size = b.size /\ c.error = b.error
  <2>1. CASE b.sparse
    <3>1. c = b
      BY <1>7, <2>1, Zenon
    <3> QED BY <1>4, <2>1, <3>1, Zenon DEF DeflateOK, MainOK, DataOK
  <2>2. CASE ~b.sparse
    <3>0. c = [b EXCEPT !.cache = "bwriter"]
      BY <1>7, <2>2, Zenon
    <3>1. /\ c \in Buffers
          /\ c.seq = b.seq /\ c.file = b.file /\ c.try = b.try /\ c.block = b.block
          /\ c.size = b.size /\ c.error = b.error /\ c.cache = "bwriter"
      BY <1>4, <3>0, Zenon DEF Buffers
    <3>2. c.sparse = b.sparse /\ c.fragment = b.fragment
      BY <1>4, <3>0, Zenon DEF Buffers
    <3>3. Within(c)
      BY <1>4, <3>1, <3>2, Zenon DEF DeflateOK, Within, Last
    <3>4. MainOK(c)
      BY <1>4, <2>2, <3>1, <3>2, <3>3, Zenon DEF DeflateOK, MainOK, DataOK
    <3> QED BY <3>1, <3>4, Zenon
  <2> QED BY <2>1, <2>2, Zenon
<1>9. /\ Compressing' = Compressing \ {d}
      /\ deflator' \in [Deflators -> DeflatorStates]
      /\ \A x \in Deflators : x # d => deflator'[x] = deflator[x]
      /\ DeflatorBuffers' = DeflatorBuffers \ {At("deflator", d, b)}
  BY <1>2, <1>3, <1>6, DeflatorFree, Zenon
<1>10. MainBuffers' = MainBuffers \cup {At("main", None, c)}
  BY <1>7, AtAdd DEF MainBuffers
<1>11. At("deflator", d, b) \in DeflatorBuffers
  BY <1>2, <1>3, Zenon DEF DeflatorBuffers
<1>12. /\ PrevBuffers' = PrevBuffers /\ TailBuffers' = TailBuffers
       /\ ThreadBuffers' = ThreadBuffers /\ DeflateBuffers' = DeflateBuffers /\ Busy' = Busy
  BY <1>1, Untouched, Zenon
<1>13. At("deflator", d, b) \notin PrevBuffers \cup TailBuffers \cup DeflateBuffers
                                       \cup ThreadBuffers \cup MainBuffers
  BY Tagged, AtFields
<1>14. /\ OnTheWay' = (OnTheWay \ {At("deflator", d, b)}) \cup {At("main", None, c)}
       /\ At("deflator", d, b) \in OnTheWay
  BY <1>9, <1>10, <1>11, <1>12, <1>13, Zenon DEF OnTheWay
<1>15. \A x \in Compressing' : x \in Compressing /\ deflator'[x] = deflator[x]
  BY <1>9, Zenon DEF Compressing
<1>16. Types'
  BY <1>1, <1>3, <1>7, <1>8, <1>9, <1>15, Zenon DEF Types
<1>17. Places'
  BY <1>1, <1>3, <1>7, <1>8, <1>12, <1>15, Zenon DEF Places
<1>18. At("deflator", d, b).buf = b /\ At("main", None, c).buf = c
  BY AtFields
<1> QED BY <1>1, <1>8, <1>14, <1>16, <1>17, <1>18, PassOn

(* frag_thrd: queue_get *)
LEMMA FragTakeStep ==
    ASSUME IInv, NEW t \in FragThreads, FragTake(t)
    PROVE  IInv'
<1>1. /\ UNCHANGED <<readerVars, mainVars>>
      /\ reader' = reader /\ prev_buffer' = prev_buffer /\ seq' = seq /\ main' = main
      /\ sequence' = sequence /\ to_deflate' = to_deflate
      /\ to_main' = to_main /\ deflator' = deflator
  BY Zenon DEF FragTake, readerVars, mainVars
<1>2. PICK b : b = Head(to_process_frag)
  BY Zenon
<1>3. /\ Types /\ Places /\ to_process_frag \in Seq(Buffers) /\ to_process_frag # <<>>
      /\ to_process_frag' = Tail(to_process_frag) /\ Distinct(to_process_frag)
      /\ fragment' = [fragment EXCEPT ![t] = b]
      /\ t \notin Busy /\ fragment \in [FragThreads -> Buffers \cup {None}]
  BY <1>2, Zenon DEF FragTake, IInv, Types, Places, Busy
<1>4. /\ to_process_frag' \in Seq(Buffers) /\ Distinct(to_process_frag')
      /\ b \in Elems(to_process_frag)
      /\ Elems(to_process_frag') = Elems(to_process_frag) \ {b}
  BY <1>2, <1>3, TailElems, Zenon
<1>5. b \in Buffers /\ b # None
  BY <1>3, <1>4, NoneAssumption DEF Elems
<1>6. /\ fragment' \in [FragThreads -> Buffers \cup {None}]
      /\ fragment'[t] = b
      /\ \A u \in FragThreads : u # t => fragment'[u] = fragment[u]
  BY <1>3, <1>5, Zenon
<1>7. Busy' = Busy \cup {t} /\ \A u \in Busy : fragment'[u] = fragment[u]
  BY <1>3, <1>5, <1>6, Zenon DEF Busy
<1>8. ThreadBuffers' = ThreadBuffers \cup {At("thread", t, b)}
  BY <1>6, <1>7, Zenon DEF ThreadBuffers
<1>9. TailBuffers' = TailBuffers \ {At("tail", None, b)}
  <2>1. TailBuffers' = {At("tail", None, x) : x \in Elems(to_process_frag) \ {b}}
    BY <1>4, Zenon DEF TailBuffers
  <2> QED BY <2>1, AtLess, Zenon DEF TailBuffers
<1>10. At("tail", None, b) \in TailBuffers
  BY <1>4, Zenon DEF TailBuffers
<1>11. /\ PrevBuffers' = PrevBuffers /\ DeflateBuffers' = DeflateBuffers
       /\ DeflatorBuffers' = DeflatorBuffers /\ MainBuffers' = MainBuffers
       /\ Compressing' = Compressing
  BY <1>1, Untouched, Zenon
<1>12. At("tail", None, b) \notin PrevBuffers \cup DeflateBuffers \cup DeflatorBuffers
                                       \cup ThreadBuffers \cup MainBuffers
  BY Tagged, AtFields
<1>13. /\ OnTheWay' = (OnTheWay \ {At("tail", None, b)}) \cup {At("thread", t, b)}
       /\ At("tail", None, b) \in OnTheWay
  BY <1>8, <1>9, <1>10, <1>11, <1>12, Zenon DEF OnTheWay
<1>14. Types'
  BY <1>1, <1>3, <1>4, <1>6, <1>11, Zenon DEF Types
<1>15. Places'
  BY <1>1, <1>3, <1>4, <1>6, <1>7, <1>11, Zenon DEF Places
<1>16. At("tail", None, b).buf = b /\ At("thread", t, b).buf = b
  BY AtFields
<1> QED BY <1>1, <1>5, <1>13, <1>14, <1>15, <1>16, PassOn, Zenon

(* What FragPut passes on.                                                   *)
LEMMA FragPassed ==
    ASSUME NEW b \in Buffers, TailOK(b), NEW c,
           \/ c = [b EXCEPT !.fragment = ~b.sparse]
           \/ /\ b.size = 1 /\ (b.sparse => OldZeroTails)
              /\ c = [b EXCEPT !.fragment = ~b.sparse, !.cache = "heap"]
    PROVE  /\ c \in Buffers /\ MainOK(c)
           /\ c.seq = b.seq /\ c.file = b.file /\ c.try = b.try /\ c.block = b.block
           /\ c.size = b.size /\ c.error = b.error
<1>1. b.sparse \in BOOLEAN /\ (~b.sparse) \in BOOLEAN
  BY Zenon DEF Buffers
<1>2. CASE c = [b EXCEPT !.fragment = ~b.sparse]
  <2>1. /\ c \in Buffers
        /\ c.seq = b.seq /\ c.file = b.file /\ c.try = b.try /\ c.block = b.block
        /\ c.size = b.size /\ c.error = b.error /\ c.cache = b.cache
    BY <1>1, <1>2, Zenon DEF Buffers
  <2>2. (c.fragment <=> ~b.sparse) /\ (c.sparse <=> b.sparse)
    BY <1>1, <1>2, Zenon DEF Buffers
  <2>3. Within(c)
    BY <2>1, <2>2, Zenon DEF TailOK, Within, Last
  <2>4. MainOK(c)
    BY <2>1, <2>2, <2>3, Zenon DEF TailOK, MainOK, DataOK
  <2> QED BY <2>1, <2>4, Zenon
<1>3. CASE /\ b.size = 1 /\ (b.sparse => OldZeroTails)
           /\ c = [b EXCEPT !.fragment = ~b.sparse, !.cache = "heap"]
  <2>1. /\ c \in Buffers
        /\ c.seq = b.seq /\ c.file = b.file /\ c.try = b.try /\ c.block = b.block
        /\ c.size = b.size /\ c.error = b.error /\ c.cache = "heap"
    BY <1>1, <1>3, Zenon DEF Buffers
  <2>2. (c.fragment <=> ~b.sparse) /\ (c.sparse <=> b.sparse)
    BY <1>1, <1>3, Zenon DEF Buffers
  <2>3. Within(c)
    BY <2>1, <2>2, Zenon DEF TailOK, Within, Last
  <2>4. MainOK(c)
    BY <1>3, <2>1, <2>2, <2>3, Zenon DEF TailOK, MainOK, DataOK
  <2> QED BY <2>1, <2>4, Zenon
<1> QED BY <1>2, <1>3, Zenon

(* frag_thrd: the rest of a pass *)
LEMMA FragPutStep ==
    ASSUME IInv, NEW t \in FragThreads, FragPut(t)
    PROVE  IInv'
<1>1. /\ UNCHANGED <<readerVars, mainVars>>
      /\ reader' = reader /\ prev_buffer' = prev_buffer /\ seq' = seq /\ main' = main
      /\ sequence' = sequence /\ to_process_frag' = to_process_frag
      /\ to_deflate' = to_deflate /\ deflator' = deflator
  BY Zenon DEF FragPut, readerVars, mainVars, queues
<1>2. PICK b : b = fragment[t]
  BY Zenon
<1>3. /\ Types /\ Places /\ t \in Busy
      /\ fragment \in [FragThreads -> Buffers \cup {None}]
      /\ fragment' = [fragment EXCEPT ![t] = None]
  BY Zenon DEF FragPut, IInv, Types, Busy
<1>4. b \in Buffers /\ TailOK(b) /\ b # None
  BY <1>2, <1>3, Zenon DEF Places, Busy
<1>5. PICK c : /\ to_main' = to_main \cup {c}
               /\ \/ c = [b EXCEPT !.fragment = ~b.sparse]
                  \/ /\ b.size = 1 /\ (b.sparse => OldZeroTails)
                     /\ c = [b EXCEPT !.fragment = ~b.sparse, !.cache = "heap"]
  <2>1. CASE to_main' = to_main \cup {[b EXCEPT !.fragment = ~b.sparse]}
    BY <2>1, Zenon
  <2>2. CASE /\ b.size = 1 /\ (b.sparse => OldZeroTails)
             /\ to_main' = to_main \cup {[b EXCEPT !.fragment = ~b.sparse, !.cache = "heap"]}
    BY <2>2, Zenon
  <2> QED BY <1>2, <2>1, <2>2, Zenon DEF FragPut
<1>6. /\ c \in Buffers /\ MainOK(c)
      /\ c.seq = b.seq /\ c.file = b.file /\ c.try = b.try /\ c.block = b.block
      /\ c.size = b.size /\ c.error = b.error
  BY <1>4, <1>5, FragPassed, Zenon
<1>7. /\ fragment' \in [FragThreads -> Buffers \cup {None}]
      /\ fragment'[t] = None
      /\ \A u \in FragThreads : u # t => fragment'[u] = fragment[u]
  BY <1>3, Zenon
<1>8. /\ Busy' = Busy \ {t}
      /\ \A u \in Busy' : u \in Busy /\ fragment'[u] = fragment[u]
  BY <1>3, <1>7, Zenon DEF Busy
<1>9. ThreadBuffers' = ThreadBuffers \ {At("thread", t, b)}
  <2>1. \A u : At("thread", u, fragment[u]) = At("thread", t, b) => u = t
    BY AtFields
  <2> QED BY <1>2, <1>8, <2>1, Zenon DEF ThreadBuffers
<1>10. MainBuffers' = MainBuffers \cup {At("main", None, c)}
  BY <1>5, AtAdd DEF MainBuffers
<1>11. At("thread", t, b) \in ThreadBuffers
  BY <1>2, <1>3, Zenon DEF ThreadBuffers
<1>12. /\ PrevBuffers' = PrevBuffers /\ TailBuffers' = TailBuffers
       /\ DeflatorBuffers' = DeflatorBuffers /\ DeflateBuffers' = DeflateBuffers
       /\ Compressing' = Compressing
  BY <1>1, Untouched, Zenon
<1>13. At("thread", t, b) \notin PrevBuffers \cup TailBuffers \cup DeflateBuffers
                                       \cup DeflatorBuffers \cup MainBuffers
  BY Tagged, AtFields, Zenon
<1>14. /\ OnTheWay' = (OnTheWay \ {At("thread", t, b)}) \cup {At("main", None, c)}
       /\ At("thread", t, b) \in OnTheWay
  BY <1>9, <1>10, <1>11, <1>12, <1>13, Zenon DEF OnTheWay
<1>15. Types'
  BY <1>1, <1>3, <1>5, <1>6, <1>7, <1>12, Zenon DEF Types
<1>16. Places'
  BY <1>1, <1>3, <1>5, <1>6, <1>8, <1>12, Zenon DEF Places
<1>17. At("thread", t, b).buf = b /\ At("main", None, c).buf = c
  BY AtFields
<1> QED BY <1>1, <1>6, <1>14, <1>15, <1>16, <1>17, PassOn, Zenon

-----------------------------------------------------------------------------
(* The main thread's steps *)

(* The buffer that has arrived is the one that is expected.                  *)
LEMMA ArrivedFits ==
    ASSUME IInv, NEW b \in Arrived
    PROVE  /\ b \in to_main /\ b.seq = sequence /\ b \in Buffers /\ MainOK(b) /\ Within(b)
           /\ At("main", None, b) \in OnTheWay
           /\ Fit(Expected, b)
           /\ b.file = main.file /\ b.block = main.block
           /\ main.at = "next" =>
                /\ b.try = main.try
                /\ main.blocks = Unknown => (b.size # Unknown => Last(b))
                /\ main.blocks # Unknown => b.size = main.blocks
<1>1. b \in to_main /\ b.seq = sequence /\ b \in Buffers /\ MainOK(b) /\ Within(b)
  BY Zenon DEF Arrived, IInv, Types, Places, MainOK
<1>2. At("main", None, b) \in OnTheWay
  BY <1>1, Zenon DEF OnTheWay, MainBuffers
<1>3. Fit(Expected, b)
  BY <1>1, <1>2, AtFields DEF IInv, InOrder, Order
<1> QED BY <1>1, <1>2, <1>3, Zenon DEF Fit, Expected

(* The main thread takes it. *)
LEMMA MainTake ==
    ASSUME IInv, NEW b \in Arrived, to_main' = to_main \ {b}, sequence' = sequence + 1,
           UNCHANGED <<readerVars, queues, deflator, fragment>>,
           main' \in MainStates, Expected' = After(b), fragment_buffer' = 0,
           main'.at = "next" <=> main'.block > 0
    PROVE  IInv'
<1>1. /\ reader' = reader /\ prev_buffer' = prev_buffer /\ seq' = seq
      /\ to_deflate' = to_deflate /\ to_process_frag' = to_process_frag
      /\ deflator' = deflator /\ fragment' = fragment
  BY Zenon DEF readerVars, queues
<1>2. /\ PrevBuffers' = PrevBuffers /\ TailBuffers' = TailBuffers
      /\ DeflatorBuffers' = DeflatorBuffers /\ DeflateBuffers' = DeflateBuffers
      /\ ThreadBuffers' = ThreadBuffers /\ Busy' = Busy /\ Compressing' = Compressing
  BY <1>1, Untouched, Zenon
<1>3. MainBuffers' = MainBuffers \ {At("main", None, b)}
  BY AtLess, Zenon DEF MainBuffers
<1>4. At("main", None, b) \notin PrevBuffers \cup TailBuffers \cup DeflateBuffers
                                       \cup DeflatorBuffers \cup ThreadBuffers
  BY Tagged, AtFields, Zenon
<1>5. OnTheWay' = OnTheWay \ {At("main", None, b)}
  BY <1>2, <1>3, <1>4, Zenon DEF OnTheWay
<1>6. Order(OnTheWay, sequence, seq, Expected, reader)
  BY Zenon DEF IInv, InOrder
<1>7. At("main", None, b) \in OnTheWay /\ At("main", None, b).buf = b /\ b.seq = sequence
  BY ArrivedFits, AtFields
<1>8. Order(OnTheWay', sequence + 1, seq, After(b), reader)
  BY <1>5, <1>6, <1>7, OrderTake, Zenon
<1>9. InOrder'
  BY <1>1, <1>8, Zenon DEF InOrder
<1>10. Types'
  BY <1>1, <1>2 DEF IInv, Types
<1>11. Places'
  BY <1>1, <1>2, Zenon DEF IInv, Places
<1>12. ReaderInv' /\ MainInv'
  BY <1>1, Zenon DEF IInv, ReaderInv, MainInv
<1> QED BY <1>9, <1>10, <1>11, <1>12, Zenon DEF IInv

(* After Waiting(f) the first block of file f is expected.                   *)
LEMMA WaitingExpects ==
    ASSUME NEW f \in Nat, main' = Waiting(f)
    PROVE  main' \in MainStates /\ Expected' = First(f) /\ (main'.at = "next" <=> main'.block > 0)
<1>1. main' \in MainStates /\ main'.at = "first" /\ main'.block = 0
  BY Zenon DEF Waiting, MainStates
<1>2. Expected' = First(f)
  BY Zenon DEF Waiting, Expected, First
<1> QED BY <1>1, <1>2

(* write_file, when the first buffer decides *)
LEMMA WriteFileStep ==
    ASSUME IInv, WriteFile
    PROVE  IInv'
<1>1. PICK b \in Arrived :
          /\ b.error # 0 \/ (b.error = 0 /\ b.size = 0)
               \/ (b.error = 0 /\ b.size # Unknown /\ b.fragment)
          /\ to_main' = to_main \ {b} /\ sequence' = sequence + 1
          /\ main' = Waiting(IF b.error = 2 THEN main.file ELSE main.file + 1)
          /\ UNCHANGED <<readerVars, queues, deflator, fragment, fragment_buffer>>
  BY Zenon DEF WriteFile
<1>2. /\ b \in Buffers /\ Within(b) /\ b.file = main.file
      /\ b.block \in Nat /\ b.error \in 0..2 /\ main.file \in Nat
  BY ArrivedFits, Zenon DEF Buffers, IInv, Types, MainStates
<1>3. b.error = 0 => Last(b)
  BY <1>1, <1>2 DEF Within, Last, Unknown
<1>4. After(b) = First(IF b.error = 2 THEN main.file ELSE main.file + 1)
  BY <1>2, <1>3, Zenon DEF After
<1>5. main' \in MainStates /\ Expected' = After(b) /\ (main'.at = "next" <=> main'.block > 0)
  <2>1. (IF b.error = 2 THEN main.file ELSE main.file + 1) \in Nat
    BY <1>2
  <2> QED BY <1>1, <1>4, <2>1, WaitingExpects, Zenon
<1>6. fragment_buffer' = 0 /\ UNCHANGED <<readerVars, queues, deflator, fragment>>
  BY <1>1, Zenon DEF IInv, MainInv
<1> QED BY <1>1, <1>5, <1>6, MainTake, Zenon

(* read_err *)
LEMMA NextErrorStep ==
    ASSUME IInv, NextError
    PROVE  IInv'
<1>1. PICK b \in Arrived :
          /\ b.error # 0
          /\ to_main' = to_main \ {b} /\ sequence' = sequence + 1
          /\ main' = Waiting(IF b.error = 2 THEN main.file ELSE main.file + 1)
          /\ UNCHANGED <<readerVars, queues, deflator, fragment, fragment_buffer>>
  BY Zenon DEF NextError
<1>2. b \in Buffers /\ b.file = main.file /\ main.file \in Nat
  BY ArrivedFits, Zenon DEF IInv, Types, MainStates
<1>3. After(b) = First(IF b.error = 2 THEN main.file ELSE main.file + 1)
  BY <1>1, <1>2, Zenon DEF After
<1>4. main' \in MainStates /\ Expected' = After(b) /\ (main'.at = "next" <=> main'.block > 0)
  <2>1. (IF b.error = 2 THEN main.file ELSE main.file + 1) \in Nat
    BY <1>2
  <2> QED BY <1>1, <1>3, <2>1, WaitingExpects, Zenon
<1>5. fragment_buffer' = 0 /\ UNCHANGED <<readerVars, queues, deflator, fragment>>
  BY <1>1, Zenon DEF IInv, MainInv
<1> QED BY <1>1, <1>4, <1>5, MainTake, Zenon

(* A block, with the file in state m: m.blocks and b tell alike whether it is *)
(* the last one.                                                             *)
LEMMA BlockStep ==
    ASSUME IInv, NEW b \in Arrived, b.error = 0, NEW m \in MainStates, m.at = "next",
           m.file = b.file, m.try = b.try, m.block = b.block,
           m.blocks = Unknown => (b.size # Unknown => Last(b)),
           m.blocks # Unknown => b.size = m.blocks,
           Block(b, m)
    PROVE  IInv'
<1>1. /\ to_main' = to_main \ {b} /\ sequence' = sequence + 1
      /\ UNCHANGED <<readerVars, queues, deflator, fragment>>
  BY Zenon DEF Block
<1>2. /\ b \in Buffers /\ Within(b) /\ b.block \in Nat /\ b.size \in Nat \cup {Unknown}
      /\ m.file \in Nat /\ m.block \in Nat
  BY ArrivedFits, Zenon DEF Buffers, MainStates
<1> DEFINE last == IF m.blocks = Unknown THEN b.size # Unknown ELSE m.block + 1 >= m.blocks
<1>3. last <=> Last(b)
  BY <1>2, Zenon DEF Last
<1>4. fragment_buffer = 0
  BY Zenon DEF IInv, MainInv
<1>5. CASE /\ ~last
           /\ main' = [m EXCEPT !.at = "next", !.block = @ + 1]
           /\ fragment_buffer' = fragment_buffer + (IF b.fragment THEN 1 ELSE 0)
  <2>1. ~b.fragment
    BY <1>2, <1>3, <1>5, Zenon DEF Within
  <2>2. fragment_buffer' = 0
    BY <1>4, <1>5, <2>1
  <2>3. /\ main' \in MainStates /\ main'.at = "next" /\ main'.file = m.file
        /\ main'.try = m.try /\ main'.block = m.block + 1 /\ main'.blocks = m.blocks
    <3>1. m.block + 1 \in Nat
      BY <1>2
    <3>2. main' \in MainStates
      BY <1>5, <3>1, Zenon DEF MainStates
    <3> QED BY <1>5, <3>2, Zenon DEF MainStates
  <2>4. m.blocks = b.size
    BY <1>3, <1>5, Zenon
  <2>5. Expected' = After(b)
    BY <1>3, <1>5, <2>3, <2>4 DEF Expected, After
  <2> QED BY <1>1, <1>2, <2>2, <2>3, <2>5, MainTake
<1>6. CASE last /\ main' = Waiting(m.file + 1) /\ fragment_buffer' = 0
  <2>1. After(b) = First(m.file + 1)
    BY <1>3, <1>6 DEF After
  <2>2. main' \in MainStates /\ Expected' = After(b) /\ (main'.at = "next" <=> main'.block > 0)
    BY <1>2, <1>6, <2>1, WaitingExpects
  <2> QED BY <1>1, <1>6, <2>2, MainTake, Zenon
<1> QED BY <1>5, <1>6, Zenon DEF Block

(* The first block of a file *)
LEMMA FirstBlockStep ==
    ASSUME IInv, FirstBlock
    PROVE  IInv'
<1>1. PICK b \in Arrived, dup \in BOOLEAN :
          /\ main.at = "first" /\ b.error = 0
          /\ Block(b, [file |-> main.file, at |-> "next", try |-> b.try, block |-> 0,
                       blocks |-> b.size, dup |-> dup])
  BY Zenon DEF FirstBlock
<1>2. PICK m : m = [file |-> main.file, at |-> "next", try |-> b.try, block |-> 0,
                    blocks |-> b.size, dup |-> dup]
  BY Zenon
<1>3. /\ b \in Buffers /\ b.file = main.file /\ b.block = main.block
      /\ main.file \in Nat /\ b.try \in Nat /\ b.size \in Nat \cup {Unknown}
  BY ArrivedFits, Zenon DEF Buffers, IInv, Types, MainStates
<1>4. main.block = 0
  BY <1>1 DEF IInv, MainInv, Types, MainStates
<1>5. m \in MainStates
  BY <1>2, <1>3, Zenon DEF MainStates
<1>6. /\ m.file = b.file /\ m.try = b.try /\ m.block = b.block /\ m.blocks = b.size
      /\ m.at = "next"
  BY <1>2, <1>3, <1>4, Zenon
<1>7. Block(b, m)
  BY <1>1, <1>2, Zenon
<1> QED BY <1>1, <1>5, <1>6, <1>7, BlockStep, Zenon

(* The other blocks *)
LEMMA NextBlockStep ==
    ASSUME IInv, NextBlock
    PROVE  IInv'
<1>1. PICK b \in Arrived : main.at = "next" /\ b.error = 0 /\ Block(b, main)
  BY Zenon DEF NextBlock
<1>2. main \in MainStates
  BY Zenon DEF IInv, Types
<1> QED BY <1>1, <1>2, ArrivedFits, BlockStep, Zenon

-----------------------------------------------------------------------------
(* initialise_threads *)
LEMMA InitIInv == Init => IInv
<1> SUFFICES ASSUME Init PROVE IInv
  BY Zenon
<1>1. PICK s \in Sizes, k \in Kinds : reader = File(1, k, s)
  BY Zenon DEF Init
<1>2. s \in Nat /\ k \in {"file", "process"}
  BY PipelineAssumption DEF Sizes
<1>3. /\ reader \in ReaderStates /\ reader.file = 1 /\ reader.block = 0 /\ reader.kind = k
      /\ reader.size = (IF k = "process" THEN Unknown ELSE s)
  BY <1>1, <1>2, Zenon DEF File, ReaderStates
<1>4. main \in MainStates /\ main.at = "first" /\ main.file = 1 /\ main.block = 0
  BY Zenon DEF Init, Waiting, MainStates
<1>5. /\ deflator \in [Deflators -> DeflatorStates]
      /\ \A d \in Deflators : deflator[d].at = "start"
  BY Zenon DEF Init, DeflatorStates
<1>6. Compressing = {} /\ Busy = {}
  <2>1. Compressing = {}
    BY <1>5, Zenon DEF Compressing
  <2>2. Busy = {}
    BY Zenon DEF Busy, Init
  <2> QED BY <2>1, <2>2, Zenon
<1>7. /\ to_deflate \in Seq(Buffers) /\ to_process_frag \in Seq(Buffers)
      /\ Distinct(to_deflate) /\ Distinct(to_process_frag)
      /\ Elems(to_deflate) = {} /\ Elems(to_process_frag) = {}
  BY DEF Init, Distinct, Elems
<1>8. Types
  <2>1. fragment \in [FragThreads -> Buffers \cup {None}]
    BY Zenon DEF Init
  <2>2. prev_buffer = None /\ seq = 0 /\ sequence = 0 /\ to_main = {}
    BY Zenon DEF Init
  <2> QED BY <1>3, <1>4, <1>5, <1>6, <1>7, <2>1, <2>2, Zenon DEF Types
<1>9. ReaderInv
  BY <1>2, <1>3 DEF Init, ReaderInv
<1>10. Places
  BY <1>6, <1>7, Zenon DEF Init, Places
<1>11. MainInv
  BY <1>4 DEF Init, MainInv
<1>12. OnTheWay = {}
  <2>1. PrevBuffers = {}
    BY Zenon DEF Init, PrevBuffers
  <2>2. DeflateBuffers = {} /\ TailBuffers = {}
    BY <1>7, Zenon DEF DeflateBuffers, TailBuffers
  <2>3. DeflatorBuffers = {} /\ ThreadBuffers = {}
    BY <1>6, Zenon DEF DeflatorBuffers, ThreadBuffers
  <2>4. MainBuffers = {}
    BY Zenon DEF Init, MainBuffers
  <2> QED BY <2>1, <2>2, <2>3, <2>4, Zenon DEF OnTheWay
<1>13. ReaderFit(Expected, reader)
  BY <1>3, <1>4, Zenon DEF ReaderFit, Expected
<1>14. InOrder
  <2>1. sequence = 0 /\ seq = 0
    BY Zenon DEF Init
  <2> QED BY <1>12, <1>13, <2>1 DEF InOrder, Order
<1> QED BY <1>8, <1>9, <1>10, <1>11, <1>14, Zenon DEF IInv

(* A step that leaves all of this alone.                                     *)
LEMMA KeepIInv ==
    ASSUME IInv, UNCHANGED <<readerVars, queues, to_main, deflator, fragment, mainVars>>
    PROVE  IInv'
<1>1. /\ reader' = reader /\ prev_buffer' = prev_buffer /\ seq' = seq /\ main' = main
      /\ sequence' = sequence /\ fragment_buffer' = fragment_buffer
      /\ to_deflate' = to_deflate /\ to_process_frag' = to_process_frag
      /\ to_main' = to_main /\ fragment' = fragment /\ deflator' = deflator
  BY Zenon DEF readerVars, mainVars, queues
<1>2. OnTheWay' = OnTheWay /\ Busy' = Busy /\ Compressing' = Compressing
  BY <1>1, Untouched, Zenon DEF OnTheWay
<1>3. Types'
  BY <1>1, <1>2, Zenon DEF IInv, Types
<1>4. Places'
  BY <1>1, <1>2, Zenon DEF IInv, Places
<1>5. ReaderInv' /\ MainInv' /\ Expected' = Expected
  BY <1>1, Zenon DEF IInv, ReaderInv, MainInv, Expected
<1>6. InOrder'
  BY <1>1, <1>2, <1>5, Zenon DEF IInv, InOrder
<1> QED BY <1>3, <1>4, <1>5, <1>6, Zenon DEF IInv

(* Every step keeps the invariant. *)
LEMMA NextIInv == IInv /\ [Next]_vars => IInv'
<1> SUFFICES ASSUME IInv, [Next]_vars PROVE IInv'
  BY Zenon
<1>1. CASE ReadFile
  BY <1>1, ReadFileStep, Zenon
<1>2. CASE ReadProcess
  BY <1>2, ReadProcessStep, Zenon
<1>3. CASE WriteFile
  BY <1>3, WriteFileStep, Zenon
<1>4. CASE FirstBlock
  BY <1>4, FirstBlockStep, Zenon
<1>5. CASE NextBlock
  BY <1>5, NextBlockStep, Zenon
<1>6. CASE NextError
  BY <1>6, NextErrorStep, Zenon
<1>7. CASE Writer
  BY <1>7, KeepIInv, Zenon DEF Writer
<1>8. ASSUME NEW d \in Deflators, Deflator(d) PROVE IInv'
  BY <1>8, DeflatorGetBufferStep, DeflatorTakeStep, DeflatorPutStep, Zenon DEF Deflator
<1>9. ASSUME NEW t \in FragThreads, FragThread(t) PROVE IInv'
  BY <1>9, FragTakeStep, FragPutStep, Zenon DEF FragThread
<1>10. CASE Finished \/ UNCHANGED vars
  <2>1. UNCHANGED vars
    BY <1>10, Zenon DEF Finished
  <2> QED BY <2>1, KeepIInv, Zenon DEF vars
<1> QED BY <1>1, <1>2, <1>3, <1>4, <1>5, <1>6, <1>7, <1>8, <1>9, <1>10, Zenon
        DEF Next, Reader, Main

(* Every number the reader has given out and write_file has not had yet is    *)
(* on one buffer, in one place, and the buffers continue each other: nothing  *)
(* is lost, duplicated or exchanged on the way.                               *)
THEOREM PipelineInvariant == Spec => []IInv
<1> QED BY InitIInv, NextIInv, PTL DEF Spec

(* However the threads overtake each other, and however often the reader     *)
(* starts a file again, the buffer write_file gets is the one it expects: of *)
(* the file it is at, with the next block, of the same reading of the file.  *)
THEOREM PipelineRightBuffer == Spec => []RightBuffer
<1>1. IInv => RightBuffer
  BY ArrivedFits, Zenon DEF RightBuffer
<1> QED BY <1>1, PipelineInvariant, PTL

-----------------------------------------------------------------------------
(* The buffers are accounted for *)

\* The deflators that have a write buffer.
Holding == {d \in Deflators : deflator[d].at # "start"}

Acct ==
    /\ IsFiniteSet(to_main)
    /\ buffer_list \in Nat /\ to_writer \in Nat
    /\ reader_used <= reader_size /\ bwriter_used <= bwriter_size
    /\ reader_used = ReadBuffers /\ bwriter_used = WriteBuffers

(* A buffer comes to the main thread, or is taken from it.                   *)
LEMMA CountAdd ==
    ASSUME FiniteSetFacts, IsFiniteSet(to_main), NEW b, b \notin to_main, to_main' = to_main \cup {b}, NEW c
    PROVE  /\ IsFiniteSet(to_main')
           /\ Count(c)' = Count(c) + (IF b.cache = c THEN 1 ELSE 0)
<1>1. IsFiniteSet(to_main')
  BY OneMore, Zenon
<1> DEFINE S == {x \in to_main : x.cache = c}
           S2 == {x \in to_main' : x.cache = c}
<1>2. IsFiniteSet(S) /\ Cardinality(S) \in Nat
  BY FinitePart, Zenon
<1>3. CASE b.cache = c
  <2>1. S2 = S \cup {b} /\ b \notin S
    BY <1>3, Zenon
  <2>2. Cardinality(S2) = Cardinality(S) + 1
    BY <1>2, <2>1, OneMore, Zenon
  <2> QED BY <1>1, <1>3, <2>2, Zenon DEF Count
<1>4. CASE b.cache # c
  <2>1. S2 = S
    BY <1>4, Zenon
  <2>2. Cardinality(S2) = Cardinality(S)
    BY <2>1, Zenon
  <2>3. Count(c)' = Count(c) /\ Count(c) \in Nat
    BY <1>2, <2>2, Zenon DEF Count
  <2> HIDE DEF S, S2
  <2> QED BY <1>1, <1>4, <2>3
<1> QED BY <1>3, <1>4, Zenon

(* Main taking a buffer leaves one fewer of that cache in its queue. *)
LEMMA CountLess ==
    ASSUME FiniteSetFacts, IsFiniteSet(to_main), NEW b \in to_main, to_main' = to_main \ {b}, NEW c
    PROVE  /\ IsFiniteSet(to_main')
           /\ Count(c)' = Count(c) - (IF b.cache = c THEN 1 ELSE 0)
<1>1. IsFiniteSet(to_main')
  BY OneLess, Zenon
<1> DEFINE S == {x \in to_main : x.cache = c}
           S2 == {x \in to_main' : x.cache = c}
<1>2. IsFiniteSet(S) /\ Cardinality(S) \in Nat
  BY FinitePart, Zenon
<1>3. CASE b.cache = c
  <2>1. S2 = S \ {b} /\ b \in S
    BY <1>3, Zenon
  <2>2. Cardinality(S2) = Cardinality(S) - 1
    BY <1>2, <2>1, OneLess, Zenon
  <2> QED BY <1>1, <1>3, <2>2, Zenon DEF Count
<1>4. CASE b.cache # c
  <2>1. S2 = S
    BY <1>4
  <2>2. Cardinality(S2) = Cardinality(S)
    BY <2>1, Zenon
  <2>3. Count(c)' = Count(c) /\ Count(c) \in Nat
    BY <1>2, <2>2, Zenon DEF Count
  <2> HIDE DEF S, S2
  <2> QED BY <1>1, <1>4, <2>3
<1> QED BY <1>3, <1>4, Zenon

(* The numbers that are added up are natural numbers.                        *)
LEMMA Numbers ==
    ASSUME FiniteSetFacts, Types, IsFiniteSet(to_main)
    PROVE  /\ Len(to_deflate) \in Nat /\ Len(to_process_frag) \in Nat
           /\ \A c : Count(c) \in Nat
           /\ IsFiniteSet(Compressing) /\ Cardinality(Compressing) \in Nat
           /\ IsFiniteSet(Busy) /\ Cardinality(Busy) \in Nat
           /\ IsFiniteSet(Holding) /\ Cardinality(Holding) \in Nat
<1>1. Len(to_deflate) \in Nat /\ Len(to_process_frag) \in Nat
  BY DEF Types
<1>2. ASSUME NEW c PROVE Count(c) \in Nat
  BY FinitePart, Zenon DEF Count
<1>3. IsFiniteSet(Compressing) /\ IsFiniteSet(Holding)
  BY FinitePart, PipelineAssumption, Zenon DEF Compressing, Holding
<1>4. IsFiniteSet(Busy)
  BY FinitePart, PipelineAssumption, Zenon DEF Busy
<1>5. /\ Cardinality(Compressing) \in Nat /\ Cardinality(Busy) \in Nat
      /\ Cardinality(Holding) \in Nat
  BY <1>3, <1>4, Numbered, Zenon
<1> QED BY <1>1, <1>2, <1>3, <1>4, <1>5, Zenon

\* The sums, in the parts the proofs speak of.
Prev == IF prev_buffer = None THEN 0 ELSE 1
QueueLen == Len(to_deflate) + Len(to_process_frag) + Count("reader")

Countable ==
    /\ Types /\ IsFiniteSet(to_main) /\ fragment_buffer = 0
    /\ buffer_list \in Nat /\ to_writer \in Nat
Summed ==
    /\ ReadBuffers = Prev + QueueLen + Cardinality(Compressing) + Cardinality(Busy)
    /\ WriteBuffers = Cardinality(Holding) + Count("bwriter") + buffer_list + to_writer
    /\ Prev \in Nat /\ QueueLen \in Nat
    /\ Len(to_deflate) <= QueueLen /\ Len(to_process_frag) <= QueueLen

(* With every part finite, the buffers of a cache are the sum of its parts. *)
LEMMA SumParts == FiniteSetFacts /\ Countable => Summed
<1> SUFFICES ASSUME FiniteSetFacts, Countable PROVE Summed
  BY Zenon
<1> USE DEF Countable, Summed
<1>1. /\ Len(to_deflate) \in Nat /\ Len(to_process_frag) \in Nat /\ Count("reader") \in Nat
      /\ Cardinality(Compressing) \in Nat /\ Cardinality(Busy) \in Nat
  BY Numbers, Zenon
<1>2. Prev \in Nat
  BY Zenon DEF Prev
<1>3. ReadBuffers = Prev + QueueLen + Cardinality(Compressing) + Cardinality(Busy)
  BY <1>1, <1>2 DEF ReadBuffers, Prev, QueueLen, Busy
<1>4. WriteBuffers = Cardinality(Holding) + Count("bwriter") + buffer_list + to_writer
  BY Zenon DEF WriteBuffers, Holding
<1>5. /\ QueueLen \in Nat
      /\ Len(to_deflate) <= QueueLen /\ Len(to_process_frag) <= QueueLen
  BY <1>1 DEF QueueLen
<1> QED BY <1>2, <1>3, <1>4, <1>5, Zenon

(* put_file_buffer makes the queues longer by the one buffer.                *)
LEMMA PutCounts ==
    ASSUME FiniteSetFacts, Types, IsFiniteSet(to_main), NEW b \in Buffers, b.cache = "reader",
           b \notin to_main, PutFileBuffer(b)
    PROVE  /\ IsFiniteSet(to_main')
           /\ QueueLen' = QueueLen + 1
           /\ Count("bwriter")' = Count("bwriter")
<1>0. /\ Len(to_deflate) \in Nat /\ Len(to_process_frag) \in Nat
      /\ Count("reader") \in Nat /\ Count("bwriter") \in Nat
      /\ to_deflate \in Seq(Buffers) /\ to_process_frag \in Seq(Buffers)
  BY Numbers, Zenon DEF Types
<1>1. CASE b.error # 0 \/ b.size = 0
  <2>1. to_main' = to_main \cup {b} /\ to_deflate' = to_deflate
          /\ to_process_frag' = to_process_frag
    BY <1>1, Zenon DEF PutFileBuffer, queues
  <2>2. /\ IsFiniteSet(to_main') /\ Count("reader")' = Count("reader") + 1
        /\ Count("bwriter")' = Count("bwriter") + 0
    <3>1. /\ IsFiniteSet(to_main')
          /\ Count("reader")' = Count("reader") + (IF b.cache = "reader" THEN 1 ELSE 0)
          /\ Count("bwriter")' = Count("bwriter") + (IF b.cache = "bwriter" THEN 1 ELSE 0)
      BY <2>1, CountAdd, Zenon
    <3> QED BY <3>1, Zenon
  <2> QED BY <1>0, <2>1, <2>2 DEF QueueLen
<1>2. CASE b.error = 0 /\ b.size # 0
  <2>1. /\ to_main' = to_main
        /\ \/ to_process_frag' = Append(to_process_frag, b) /\ to_deflate' = to_deflate
           \/ to_deflate' = Append(to_deflate, b) /\ to_process_frag' = to_process_frag
    BY <1>2, Zenon DEF PutFileBuffer
  <2>2. Len(to_deflate') + Len(to_process_frag') = Len(to_deflate) + Len(to_process_frag) + 1
    <3>1. CASE to_process_frag' = Append(to_process_frag, b) /\ to_deflate' = to_deflate
      <4>1. Len(to_process_frag') = Len(to_process_frag) + 1
        BY <1>0, <3>1
      <4> QED BY <1>0, <3>1, <4>1
    <3>2. CASE to_deflate' = Append(to_deflate, b) /\ to_process_frag' = to_process_frag
      <4>1. Len(to_deflate') = Len(to_deflate) + 1
        BY <1>0, <3>2
      <4> QED BY <1>0, <3>2, <4>1
    <3> QED BY <2>1, <3>1, <3>2, Zenon
  <2>3. Len(to_deflate') \in Nat /\ Len(to_process_frag') \in Nat
    BY <1>0, <2>1
  <2>4. Count("reader")' = Count("reader") /\ Count("bwriter")' = Count("bwriter")
    BY <2>1, Zenon DEF Count
  <2> QED BY <1>0, <2>1, <2>2, <2>3, <2>4 DEF QueueLen
<1> QED BY <1>1, <1>2, Zenon

(* The sums decide whether the buffers are accounted for.                    *)
LEMMA AcctNext ==
    ASSUME FiniteSetFacts, IInv, IInv', Acct, IsFiniteSet(to_main'),
           buffer_list' \in Nat, to_writer' \in Nat,
           NEW r \in Int, NEW w \in Int,
           reader_used' = reader_used + r, bwriter_used' = bwriter_used + w,
           r > 0 => reader_used < reader_size /\ r = 1,
           w > 0 => bwriter_used < bwriter_size /\ w = 1,
           Prev' + QueueLen' + Cardinality(Compressing') + Cardinality(Busy')
             = Prev + QueueLen + Cardinality(Compressing) + Cardinality(Busy) + r,
           Cardinality(Holding') + Count("bwriter")' + buffer_list' + to_writer'
             = Cardinality(Holding) + Count("bwriter") + buffer_list + to_writer + w
    PROVE  Acct'
<1>1. Types /\ Types' /\ fragment_buffer = 0 /\ fragment_buffer' = 0
  BY Zenon DEF IInv, MainInv
<1>0. Countable' => Summed'
  <2>1. FiniteSetFacts'
    BY Zenon DEF FiniteSetFacts
  <2> QED BY <2>1, SumParts, PTL
<1>2. /\ reader_used = Prev + QueueLen + Cardinality(Compressing) + Cardinality(Busy)
      /\ bwriter_used = Cardinality(Holding) + Count("bwriter") + buffer_list + to_writer
      /\ reader_used <= reader_size /\ bwriter_used <= bwriter_size
      /\ buffer_list \in Nat /\ to_writer \in Nat
  BY <1>1, SumParts, Zenon DEF Acct, Countable, Summed
<1>3. /\ ReadBuffers' = Prev' + QueueLen' + Cardinality(Compressing') + Cardinality(Busy')
      /\ WriteBuffers' = Cardinality(Holding') + Count("bwriter")' + buffer_list' + to_writer'
  BY <1>0, <1>1, Zenon DEF Countable, Summed
<1>4. reader_used' = ReadBuffers' /\ bwriter_used' = WriteBuffers'
  BY <1>2, <1>3, Zenon
<1>5. reader_used \in Int /\ bwriter_used \in Int
  <2>1. Prev \in Nat /\ QueueLen \in Nat /\ Count("bwriter") \in Nat
    BY <1>1, SumParts, Numbers, Zenon DEF Acct, Countable, Summed
  <2>2. /\ Cardinality(Compressing) \in Nat /\ Cardinality(Busy) \in Nat
        /\ Cardinality(Holding) \in Nat
    BY <1>1, Numbers, Zenon DEF Acct
  <2> QED BY <1>2, <2>1, <2>2
<1>6. reader_used' <= reader_size /\ bwriter_used' <= bwriter_size
  <2>1. reader_size \in Int /\ bwriter_size \in Int
    BY PipelineAssumption
  <2> QED BY <1>2, <1>5, <2>1
<1> QED BY <1>4, <1>6, Zenon DEF Acct

(* What a thread or prev_buffer has is not with the main thread as well.     *)
LEMMA NotYetThere ==
    ASSUME IInv, NEW e \in OnTheWay, e.place # "main"
    PROVE  \A x \in to_main : x.seq # e.buf.seq
<1> SUFFICES ASSUME NEW x \in to_main, x.seq = e.buf.seq PROVE FALSE
  BY Zenon
<1>1. At("main", None, x) \in OnTheWay
  BY Zenon DEF OnTheWay, MainBuffers
<1>2. At("main", None, x).buf = x /\ At("main", None, x).place = "main"
  BY AtFields
<1>3. e = At("main", None, x)
  BY <1>1, <1>2 DEF IInv, InOrder, Order
<1> QED BY <1>2, <1>3, Zenon

(* Nor is a buffer with a number not given out yet. *)
LEMMA NewNotThere ==
    ASSUME IInv
    PROVE  \A x \in to_main : x.seq # seq
<1> SUFFICES ASSUME NEW x \in to_main PROVE x.seq # seq
  BY Zenon
<1>1. At("main", None, x) \in OnTheWay
  BY Zenon DEF OnTheWay, MainBuffers
<1>2. At("main", None, x).buf = x
  BY AtFields
<1> QED BY <1>1, <1>2, NewNumber, Zenon

(* The reader's and the other threads' parts of the sums.                    *)
LEMMA ThreadParts ==
    /\ deflator' = deflator => Compressing' = Compressing /\ Holding' = Holding
    /\ fragment' = fragment => Busy' = Busy
    /\ prev_buffer' = prev_buffer => Prev' = Prev
    /\ to_main' = to_main => \A c : Count(c)' = Count(c)
    /\ to_main' = to_main /\ to_deflate' = to_deflate /\ to_process_frag' = to_process_frag
          => QueueLen' = QueueLen
BY Zenon DEF Compressing, Holding, Busy, Prev, Count, QueueLen

(* The parts of the sums, and what they come to. *)
LEMMA PartTypes ==
    ASSUME FiniteSetFacts, IInv, Acct
    PROVE  /\ Prev \in Nat /\ QueueLen \in Nat
           /\ Cardinality(Compressing) \in Nat /\ Cardinality(Busy) \in Nat
           /\ Cardinality(Holding) \in Nat /\ Count("bwriter") \in Nat
           /\ buffer_list \in Nat /\ to_writer \in Nat
           /\ reader_used \in Nat /\ bwriter_used \in Nat
           /\ reader_used = Prev + QueueLen + Cardinality(Compressing) + Cardinality(Busy)
           /\ bwriter_used = Cardinality(Holding) + Count("bwriter") + buffer_list + to_writer
<1>1. Countable
  BY Zenon DEF Countable, IInv, MainInv, Acct
<1>2. Summed
  BY <1>1, SumParts, Zenon
<1>3. /\ Cardinality(Compressing) \in Nat /\ Cardinality(Busy) \in Nat
      /\ Cardinality(Holding) \in Nat /\ Count("bwriter") \in Nat
  BY <1>1, Numbers, Zenon DEF Countable
<1>4. /\ reader_used = Prev + QueueLen + Cardinality(Compressing) + Cardinality(Busy)
      /\ bwriter_used = Cardinality(Holding) + Count("bwriter") + buffer_list + to_writer
      /\ Prev \in Nat /\ QueueLen \in Nat /\ buffer_list \in Nat /\ to_writer \in Nat
  BY <1>1, <1>2, Zenon DEF Summed, Countable, Acct
<1> QED BY <1>3, <1>4

(* The reader takes a read buffer and passes one on, the same or prev_buffer. *)
LEMMA ReaderAcct ==
    ASSUME FiniteSetFacts, IInv, IInv', Acct, NEW b \in Buffers, b.cache = "reader", b \notin to_main,
           PutFileBuffer(b), NEW r \in Int, reader_used' = reader_used + r,
           r > 0 => reader_used < reader_size /\ r = 1, Prev' = Prev + r - 1,
           UNCHANGED <<deflator, fragment, mainVars, to_writer, bwriter_used>>
    PROVE  Acct'
<1>1. Types /\ IsFiniteSet(to_main) /\ buffer_list \in Nat /\ to_writer \in Nat
  BY Zenon DEF IInv, Acct
<1>2. /\ IsFiniteSet(to_main') /\ QueueLen' = QueueLen + 1
      /\ Count("bwriter")' = Count("bwriter")
  BY <1>1, PutCounts, Zenon
<1>3. /\ Compressing' = Compressing /\ Holding' = Holding /\ Busy' = Busy
      /\ buffer_list' = buffer_list /\ to_writer' = to_writer
      /\ bwriter_used' = bwriter_used
  BY ThreadParts, Zenon DEF mainVars
<1>4. /\ QueueLen \in Nat /\ Prev \in Nat /\ Prev' \in Nat
      /\ Cardinality(Compressing) \in Nat /\ Cardinality(Busy) \in Nat
      /\ Cardinality(Holding) \in Nat /\ Count("bwriter") \in Nat
      /\ bwriter_used \in Nat
  BY PartTypes, Zenon DEF Prev
<1>5. Prev' + QueueLen' + Cardinality(Compressing') + Cardinality(Busy')
         = Prev + QueueLen + Cardinality(Compressing) + Cardinality(Busy) + r
  <2>1. Prev' + (QueueLen + 1) + Cardinality(Compressing) + Cardinality(Busy)
           = Prev + QueueLen + Cardinality(Compressing) + Cardinality(Busy) + r
    BY <1>4
  <2> QED BY <1>2, <1>3, <2>1, Zenon
<1>6. Cardinality(Holding') + Count("bwriter")' + buffer_list' + to_writer'
         = Cardinality(Holding) + Count("bwriter") + buffer_list + to_writer + 0
  BY <1>1, <1>2, <1>3, <1>4
<1>7. bwriter_used' = bwriter_used + 0
  BY <1>3, <1>4
<1> QED BY <1>1, <1>2, <1>3, <1>4, <1>5, <1>6, <1>7, AcctNext

(* reader_read_file *)
LEMMA ReadFileAcct ==
    ASSUME FiniteSetFacts, IInv, IInv', Acct, ReadFile
    PROVE  Acct'
<1>1. /\ prev_buffer = None /\ prev_buffer' = prev_buffer
      /\ reader.size \in Nat \cup {Unknown}
      /\ reader_used' = reader_used + 1 /\ reader_used < reader_size
      /\ UNCHANGED <<deflator, fragment, mainVars, to_writer, bwriter_used>>
  BY Zenon DEF ReadFile, ReadBufferFree, IInv, ReaderInv, Types, ReaderStates
<1>2. Buffer(reader.size) \in Buffers
  BY <1>1, BufferType, Zenon DEF IInv
<1>3. \E b \in Buffers : b.cache = "reader" /\ b.seq = seq /\ PutFileBuffer(b)
  <2>1. ASSUME NEW sparse \in BOOLEAN, NEW frag \in BOOLEAN,
               PutFileBuffer([Buffer(reader.size) EXCEPT
                                     !.fragment = frag, !.sparse = sparse])
        PROVE  \E b \in Buffers : b.cache = "reader" /\ b.seq = seq /\ PutFileBuffer(b)
    <3>1. PICK b : b = [Buffer(reader.size) EXCEPT !.fragment = frag, !.sparse = sparse]
      BY Zenon
    <3>2. b \in Buffers
      BY <1>2, <3>1, Zenon DEF Buffers
    <3>3. b.cache = "reader" /\ b.seq = seq
      BY <3>1, Zenon DEF Buffer
    <3> QED BY <2>1, <3>1, <3>2, <3>3, Zenon
  <2>2. ASSUME NEW e \in 1..2, PutFileBuffer([Buffer(reader.size) EXCEPT !.error = e])
        PROVE  \E b \in Buffers : b.cache = "reader" /\ b.seq = seq /\ PutFileBuffer(b)
    <3>1. PICK b : b = [Buffer(reader.size) EXCEPT !.error = e]
      BY Zenon
    <3>2. b \in Buffers
      BY <1>2, <3>1 DEF Buffers
    <3>3. b.cache = "reader" /\ b.seq = seq
      BY <3>1, Zenon DEF Buffer
    <3> QED BY <2>2, <3>1, <3>2, <3>3, Zenon
  <2>3. \/ \E sparse, frag \in BOOLEAN :
              PutFileBuffer([Buffer(reader.size) EXCEPT !.fragment = frag, !.sparse = sparse])
        \/ PutFileBuffer([Buffer(reader.size) EXCEPT !.error = 2])
        \/ PutFileBuffer([Buffer(reader.size) EXCEPT !.error = 1])
    BY Zenon DEF ReadFile
  <2>4. CASE \E sparse, frag \in BOOLEAN :
              PutFileBuffer([Buffer(reader.size) EXCEPT !.fragment = frag, !.sparse = sparse])
    <3>1. PICK sparse \in BOOLEAN, frag \in BOOLEAN :
              PutFileBuffer([Buffer(reader.size) EXCEPT !.fragment = frag, !.sparse = sparse])
      BY <2>4, Zenon
    <3> QED BY <2>1, <3>1, Zenon
  <2>5. CASE PutFileBuffer([Buffer(reader.size) EXCEPT !.error = 2])
    <3>1. 2 \in 1..2
      OBVIOUS
    <3> QED BY <2>2, <2>5, <3>1, Zenon
  <2>6. CASE PutFileBuffer([Buffer(reader.size) EXCEPT !.error = 1])
    <3>1. 1 \in 1..2
      OBVIOUS
    <3> QED BY <2>2, <2>6, <3>1, Zenon
  <2> QED BY <2>3, <2>4, <2>5, <2>6, Zenon
<1>4. PICK b \in Buffers : b.cache = "reader" /\ b.seq = seq /\ PutFileBuffer(b)
  BY <1>3, Zenon
<1>5. b \notin to_main
  BY <1>4, NewNotThere, Zenon
<1>6. Prev' = Prev + 1 - 1
  BY <1>1, ThreadParts, PartTypes
<1> QED BY <1>1, <1>4, <1>5, <1>6, ReaderAcct

(* reader_read_process *)
LEMMA ReadProcessAcct ==
    ASSUME FiniteSetFacts, IInv, IInv', Acct, ReadProcess
    PROVE  Acct'
<1>1. /\ reader_used < reader_size
      /\ UNCHANGED <<deflator, fragment, mainVars, to_writer, bwriter_used>>
  BY Zenon DEF ReadProcess, ReadBufferFree
<1>2. Types /\ Places /\ IsFiniteSet(to_main) /\ buffer_list \in Nat /\ to_writer \in Nat
  BY Zenon DEF IInv, Acct
<1>3. CASE /\ reader_used' = reader_used + 1
           /\ \E sparse \in BOOLEAN :
                prev_buffer' = [Buffer(Unknown) EXCEPT !.sparse = sparse]
           /\ IF prev_buffer = None THEN UNCHANGED <<queues, to_main>>
                                    ELSE PutFileBuffer(prev_buffer)
  <2>1. Prev' = 1
    <3>1. PICK sparse \in BOOLEAN : prev_buffer' = [Buffer(Unknown) EXCEPT !.sparse = sparse]
      BY <1>3, Zenon
    <3>2. Buffer(Unknown) \in Buffers
      BY <1>2, BufferType, Zenon
    <3>3. prev_buffer' \in Buffers
      BY <3>1, <3>2, Zenon DEF Buffers
    <3> QED BY <3>3, NoneAssumption, Zenon DEF Prev
  <2>2. CASE prev_buffer = None
    <3>1. to_deflate' = to_deflate /\ to_process_frag' = to_process_frag /\ to_main' = to_main
      BY <1>3, <2>2, Zenon DEF queues
    <3>2. /\ Compressing' = Compressing /\ Holding' = Holding /\ Busy' = Busy
          /\ buffer_list' = buffer_list /\ to_writer' = to_writer
          /\ bwriter_used' = bwriter_used /\ QueueLen' = QueueLen
          /\ Count("bwriter")' = Count("bwriter") /\ Prev = 0
      BY <1>1, <2>2, <3>1, ThreadParts, Zenon DEF mainVars, Prev
    <3>3. /\ QueueLen \in Nat /\ bwriter_used \in Nat
          /\ Cardinality(Compressing) \in Nat /\ Cardinality(Busy) \in Nat
          /\ Cardinality(Holding) \in Nat /\ Count("bwriter") \in Nat
      BY PartTypes, Zenon
    <3>4. Prev' + QueueLen' + Cardinality(Compressing') + Cardinality(Busy')
             = Prev + QueueLen + Cardinality(Compressing) + Cardinality(Busy) + 1
      BY <2>1, <3>2, <3>3
    <3>5. Cardinality(Holding') + Count("bwriter")' + buffer_list' + to_writer'
             = Cardinality(Holding) + Count("bwriter") + buffer_list + to_writer + 0
      BY <1>2, <3>2, <3>3
    <3>6. bwriter_used' = bwriter_used + 0
      BY <3>2, <3>3
    <3> QED BY <1>1, <1>2, <1>3, <3>1, <3>2, <3>4, <3>5, <3>6, AcctNext
  <2>3. CASE prev_buffer # None
    <3>1. prev_buffer \in Buffers /\ prev_buffer.cache = "reader" /\ PutFileBuffer(prev_buffer)
      BY <1>2, <1>3, <2>3, Zenon DEF Types, Places, PrevOK
    <3>2. prev_buffer \notin to_main
      BY <2>3, PrevAlone, AtFields, NotYetThere
    <3>3. Prev = 1
      BY <2>3, Zenon DEF Prev
    <3> QED BY <1>1, <1>3, <2>1, <3>1, <3>2, <3>3, ReaderAcct
  <2> QED BY <2>2, <2>3, Zenon
<1>4. CASE /\ prev_buffer = None /\ prev_buffer' = prev_buffer
           /\ reader_used' = reader_used + 1
           /\ \E error \in 0..1 : PutFileBuffer([Buffer(0) EXCEPT !.error = error])
  <2>1. PICK error \in 0..1 : PutFileBuffer([Buffer(0) EXCEPT !.error = error])
    BY <1>4, Zenon
  <2>2. PICK b : b = [Buffer(0) EXCEPT !.error = error]
    BY Zenon
  <2>3. b \in Buffers /\ b.cache = "reader" /\ b.seq = seq
    <3>1. Buffer(0) \in Buffers
      BY <1>2, BufferType, Zenon
    <3>2. b \in Buffers
      BY <2>2, <3>1 DEF Buffers
    <3>3. b.cache = "reader" /\ b.seq = seq
      BY <2>2, Zenon DEF Buffer
    <3> QED BY <3>2, <3>3, Zenon
  <2>4. b \notin to_main
    BY <2>3, NewNotThere, Zenon
  <2>5. Prev' = Prev + 1 - 1 /\ PutFileBuffer(b)
    BY <1>4, <2>1, <2>2, ThreadParts, PartTypes
  <2> QED BY <1>1, <1>4, <2>3, <2>4, <2>5, ReaderAcct
<1>5. CASE /\ prev_buffer # None /\ prev_buffer' = None
           /\ reader_used' = reader_used
           /\ \E error \in 0..1, frag \in BOOLEAN :
                PutFileBuffer([prev_buffer EXCEPT !.size = reader.block,
                                   !.error = error, !.fragment = frag])
  <2>1. PICK error \in 0..1, frag \in BOOLEAN :
                PutFileBuffer([prev_buffer EXCEPT !.size = reader.block,
                                   !.error = error, !.fragment = frag])
    BY <1>5, Zenon
  <2>2. PICK b : b = [prev_buffer EXCEPT !.size = reader.block,
                                   !.error = error, !.fragment = frag]
    BY Zenon
  <2>3. prev_buffer \in Buffers /\ PrevOK(prev_buffer) /\ reader.block \in Nat \cup {Unknown}
    BY <1>2, <1>5, Zenon DEF Types, Places, ReaderStates
  <2>4. b \in Buffers /\ b.cache = "reader" /\ b.seq = prev_buffer.seq
    <3>1. b \in Buffers
      <4>1. error \in 0..2
        OBVIOUS
      <4> QED BY <2>2, <2>3, <4>1, BufferChange, Zenon
    <3>2. b.cache = prev_buffer.cache /\ b.seq = prev_buffer.seq
      BY <2>2, <2>3, Zenon DEF Buffers
    <3> QED BY <2>3, <3>1, <3>2, Zenon DEF PrevOK
  <2>5. b \notin to_main
    BY <1>5, <2>4, PrevAlone, AtFields, NotYetThere
  <2>6. Prev' = 0 /\ Prev = 1 /\ PutFileBuffer(b)
    BY <1>5, <2>1, <2>2, Zenon DEF Prev
  <2>7. reader_used' = reader_used + 0
    <3>1. reader_used \in Nat
      BY PartTypes, Zenon
    <3> QED BY <1>5, <3>1
  <2> QED BY <1>1, <2>4, <2>5, <2>6, <2>7, ReaderAcct
<1> QED BY <1>3, <1>4, <1>5, Zenon DEF ReadProcess

(* deflator: cache_get_nohash *)
LEMMA DeflatorGetBufferAcct ==
    ASSUME FiniteSetFacts, IInv, IInv', Acct, NEW d \in Deflators, DeflatorGetBuffer(d)
    PROVE  Acct'
<1>1. /\ to_deflate' = to_deflate /\ to_process_frag' = to_process_frag
      /\ to_main' = to_main /\ fragment' = fragment /\ prev_buffer' = prev_buffer
      /\ buffer_list' = buffer_list /\ to_writer' = to_writer
      /\ reader_used' = reader_used /\ bwriter_used' = bwriter_used + 1
      /\ bwriter_used < bwriter_size
      /\ deflator[d].at = "start" /\ deflator' = [deflator EXCEPT ![d].at = "idle"]
  BY Zenon DEF DeflatorGetBuffer, readerVars, mainVars, queues
<1>2. /\ Types /\ deflator \in [Deflators -> DeflatorStates] /\ IsFiniteSet(to_main)
  BY Zenon DEF IInv, Types, Acct
<1>3. /\ Busy' = Busy /\ Prev' = Prev /\ QueueLen' = QueueLen
      /\ Count("bwriter")' = Count("bwriter")
  BY <1>1, ThreadParts, Zenon
<1>4. /\ deflator'[d].at = "idle"
      /\ \A c \in Deflators : c # d => deflator'[c] = deflator[c]
  BY <1>1, <1>2, Zenon DEF DeflatorStates
<1>5. Compressing' = Compressing /\ Holding' = Holding \cup {d} /\ d \notin Holding
  BY <1>1, <1>4, Zenon DEF Compressing, Holding
<1>6. Cardinality(Holding') = Cardinality(Holding) + 1
  BY <1>2, <1>5, Numbers, OneMore, Zenon
<1>7. reader_used' = reader_used + 0
  BY <1>1, PartTypes
<1>8. Prev' + QueueLen' + Cardinality(Compressing') + Cardinality(Busy')
         = Prev + QueueLen + Cardinality(Compressing) + Cardinality(Busy) + 0
  BY <1>3, <1>5, PartTypes
<1>9. Cardinality(Holding') + Count("bwriter")' + buffer_list' + to_writer'
         = Cardinality(Holding) + Count("bwriter") + buffer_list + to_writer + 1
  BY <1>1, <1>3, <1>6, PartTypes
<1> QED BY <1>1, <1>2, <1>7, <1>8, <1>9, PartTypes, AcctNext

(* deflator: queue_get *)
LEMMA DeflatorTakeAcct ==
    ASSUME FiniteSetFacts, IInv, IInv', Acct, NEW d \in Deflators, DeflatorTake(d)
    PROVE  Acct'
<1>1. /\ to_process_frag' = to_process_frag
      /\ to_main' = to_main /\ fragment' = fragment /\ prev_buffer' = prev_buffer
      /\ buffer_list' = buffer_list /\ to_writer' = to_writer
      /\ reader_used' = reader_used /\ bwriter_used' = bwriter_used
      /\ deflator[d].at = "idle" /\ to_deflate # <<>> /\ to_deflate' = Tail(to_deflate)
      /\ deflator' = [deflator EXCEPT ![d] = [at |-> "compress", block |-> Head(to_deflate)]]
  BY Zenon DEF DeflatorTake, readerVars, mainVars
<1>2. /\ Types /\ deflator \in [Deflators -> DeflatorStates] /\ IsFiniteSet(to_main)
      /\ to_deflate \in Seq(Buffers) /\ to_process_frag \in Seq(Buffers)
  BY Zenon DEF IInv, Types, Acct
<1>3. /\ Busy' = Busy /\ Prev' = Prev
      /\ Count("reader")' = Count("reader") /\ Count("bwriter")' = Count("bwriter")
  BY <1>1, ThreadParts, Zenon
<1>4. /\ deflator'[d].at = "compress"
      /\ \A c \in Deflators : c # d => deflator'[c] = deflator[c]
  BY <1>1, <1>2, Zenon
<1>5. /\ Compressing' = Compressing \cup {d} /\ d \notin Compressing
      /\ Holding' = Holding
  BY <1>1, <1>4, Zenon DEF Compressing, Holding
<1>6. Cardinality(Compressing') = Cardinality(Compressing) + 1
  BY <1>2, <1>5, Numbers, OneMore, Zenon
<1>7. Len(to_deflate') = Len(to_deflate) - 1 /\ Len(to_deflate) \in Nat
        /\ Len(to_process_frag) \in Nat /\ Count("reader") \in Nat
  BY <1>1, <1>2, Numbers
<1>8. QueueLen' = QueueLen - 1
  BY <1>1, <1>3, <1>7 DEF QueueLen
<1>9. reader_used' = reader_used + 0 /\ bwriter_used' = bwriter_used + 0
  <2>1. reader_used' = reader_used /\ bwriter_used' = bwriter_used
    BY <1>1, Zenon
  <2>2. reader_used \in Nat /\ bwriter_used \in Nat
    BY PartTypes, Zenon
  <2> QED BY <2>1, <2>2
<1>10. Prev' + QueueLen' + Cardinality(Compressing') + Cardinality(Busy')
         = Prev + QueueLen + Cardinality(Compressing) + Cardinality(Busy) + 0
  BY <1>3, <1>6, <1>8, PartTypes
<1>11. Cardinality(Holding') + Count("bwriter")' + buffer_list' + to_writer'
         = Cardinality(Holding) + Count("bwriter") + buffer_list + to_writer + 0
  BY <1>1, <1>3, <1>5, PartTypes
<1> QED BY <1>1, <1>2, <1>9, <1>10, <1>11, PartTypes, AcctNext

(* deflator: the rest of a pass *)
LEMMA DeflatorPutAcct ==
    ASSUME FiniteSetFacts, IInv, IInv', Acct, NEW d \in Deflators, DeflatorPut(d)
    PROVE  Acct'
<1>1. /\ to_process_frag' = to_process_frag /\ to_deflate' = to_deflate
      /\ fragment' = fragment /\ prev_buffer' = prev_buffer
      /\ buffer_list' = buffer_list /\ to_writer' = to_writer
      /\ bwriter_used' = bwriter_used /\ deflator[d].at = "compress"
  BY Zenon DEF DeflatorPut, readerVars, mainVars, queues
<1>2. /\ Types /\ deflator \in [Deflators -> DeflatorStates] /\ IsFiniteSet(to_main)
      /\ d \in Compressing /\ d \in Holding
  BY <1>1, Zenon DEF IInv, Types, Acct, Compressing, Holding
<1>3. PICK b : b = deflator[d].block
  BY Zenon
<1>4. b \in Buffers /\ b.cache = "reader"
  BY <1>2, <1>3, Zenon DEF IInv, Types, Places, DeflateOK
<1>5. \A x \in to_main : x.seq # b.seq
  <2>1. At("deflator", d, b) \in OnTheWay
    BY <1>2, <1>3, Zenon DEF OnTheWay, DeflatorBuffers
  <2>2. At("deflator", d, b).place # "main" /\ At("deflator", d, b).buf = b
    BY AtFields
  <2> QED BY <2>1, <2>2, NotYetThere, Zenon
<1>6. Busy' = Busy /\ Prev' = Prev
  BY <1>1, ThreadParts, Zenon
<1>7. /\ Len(to_deflate) \in Nat /\ Len(to_process_frag) \in Nat
      /\ Count("reader") \in Nat /\ Count("bwriter") \in Nat
  BY <1>2, Numbers, Zenon
<1>8. CASE b.sparse
  <2>1. /\ to_main' = to_main \cup {b} /\ reader_used' = reader_used
        /\ deflator' = [deflator EXCEPT ![d] = [at |-> "idle", block |-> None]]
    BY <1>3, <1>8, Zenon DEF DeflatorPut
  <2>2. /\ deflator'[d].at = "idle"
        /\ \A c \in Deflators : c # d => deflator'[c] = deflator[c]
    BY <1>2, <2>1, Zenon
  <2>3. Compressing' = Compressing \ {d} /\ Holding' = Holding
    BY <1>1, <2>2, Zenon DEF Compressing, Holding
  <2>4. Cardinality(Compressing') = Cardinality(Compressing) - 1
    BY <1>2, <2>3, Numbers, OneLess, Zenon
  <2>5. /\ IsFiniteSet(to_main') /\ Count("reader")' = Count("reader") + 1
        /\ Count("bwriter")' = Count("bwriter") + 0
    BY <1>2, <1>4, <1>5, <2>1, CountAdd, Zenon
  <2>6. QueueLen' = QueueLen + 1
    BY <1>1, <1>7, <2>5 DEF QueueLen
  <2>7. reader_used' = reader_used + 0 /\ bwriter_used' = bwriter_used + 0
    BY <1>1, <2>1, PartTypes
  <2>8. Prev' + QueueLen' + Cardinality(Compressing') + Cardinality(Busy')
         = Prev + QueueLen + Cardinality(Compressing) + Cardinality(Busy) + 0
    BY <1>6, <2>4, <2>6, PartTypes
  <2>9. Cardinality(Holding') + Count("bwriter")' + buffer_list' + to_writer'
         = Cardinality(Holding) + Count("bwriter") + buffer_list + to_writer + 0
    BY <1>1, <2>3, <2>5, PartTypes
  <2> QED BY <1>1, <2>5, <2>7, <2>8, <2>9, PartTypes, AcctNext
<1>9. CASE ~b.sparse
  <2>1. /\ to_main' = to_main \cup {[b EXCEPT !.cache = "bwriter"]}
        /\ reader_used' = reader_used - 1
        /\ deflator' = [deflator EXCEPT ![d] = [at |-> "start", block |-> None]]
    BY <1>3, <1>9, Zenon DEF DeflatorPut
  <2>2. /\ deflator'[d].at = "start"
        /\ \A c \in Deflators : c # d => deflator'[c] = deflator[c]
    BY <1>2, <2>1, Zenon
  <2>3. Compressing' = Compressing \ {d} /\ Holding' = Holding \ {d}
    BY <1>1, <2>2, Zenon DEF Compressing, Holding
  <2>4. /\ Cardinality(Compressing') = Cardinality(Compressing) - 1
        /\ Cardinality(Holding') = Cardinality(Holding) - 1
    BY <1>2, <2>3, Numbers, OneLess, Zenon
  <2>5. PICK c : c = [b EXCEPT !.cache = "bwriter"]
    BY Zenon
  <2>6. c.cache = "bwriter" /\ c.seq = b.seq
    BY <1>4, <2>5, Zenon DEF Buffers
  <2>7. to_main' = to_main \cup {c} /\ c \notin to_main
    BY <1>5, <2>1, <2>5, <2>6, Zenon
  <2>8. /\ IsFiniteSet(to_main') /\ Count("reader")' = Count("reader") + 0
        /\ Count("bwriter")' = Count("bwriter") + 1
    BY <1>2, <2>6, <2>7, CountAdd, Zenon
  <2>9. QueueLen' = QueueLen
    BY <1>1, <1>7, <2>8 DEF QueueLen
  <2>10. reader_used' = reader_used + (-1) /\ bwriter_used' = bwriter_used + 0
    BY <1>1, <2>1, PartTypes
  <2>11. Prev' + QueueLen' + Cardinality(Compressing') + Cardinality(Busy')
         = Prev + QueueLen + Cardinality(Compressing) + Cardinality(Busy) + (-1)
    BY <1>6, <2>4, <2>9, PartTypes
  <2>12. Cardinality(Holding') + Count("bwriter")' + buffer_list' + to_writer'
         = Cardinality(Holding) + Count("bwriter") + buffer_list + to_writer + 0
    BY <1>1, <2>4, <2>8, PartTypes
  <2> QED BY <1>1, <2>8, <2>10, <2>11, <2>12, PartTypes, AcctNext
<1> QED BY <1>8, <1>9, Zenon

(* frag_thrd: queue_get *)
LEMMA FragTakeAcct ==
    ASSUME FiniteSetFacts, IInv, IInv', Acct, NEW t \in FragThreads, FragTake(t)
    PROVE  Acct'
<1>1. /\ to_deflate' = to_deflate
      /\ to_main' = to_main /\ deflator' = deflator /\ prev_buffer' = prev_buffer
      /\ buffer_list' = buffer_list /\ to_writer' = to_writer
      /\ reader_used' = reader_used /\ bwriter_used' = bwriter_used
      /\ fragment[t] = None /\ to_process_frag # <<>>
      /\ to_process_frag' = Tail(to_process_frag)
      /\ fragment' = [fragment EXCEPT ![t] = Head(to_process_frag)]
  BY Zenon DEF FragTake, readerVars, mainVars
<1>2. /\ Types /\ IsFiniteSet(to_main) /\ fragment \in [FragThreads -> Buffers \cup {None}]
      /\ to_deflate \in Seq(Buffers) /\ to_process_frag \in Seq(Buffers)
  BY Zenon DEF IInv, Types, Acct
<1>3. /\ Compressing' = Compressing /\ Holding' = Holding /\ Prev' = Prev
      /\ Count("reader")' = Count("reader") /\ Count("bwriter")' = Count("bwriter")
  BY <1>1, ThreadParts, Zenon
<1>4. Head(to_process_frag) \in Buffers /\ Head(to_process_frag) # None
  BY <1>1, <1>2, NoneAssumption
<1>5. /\ fragment'[t] # None
      /\ \A u \in FragThreads : u # t => fragment'[u] = fragment[u]
  BY <1>1, <1>2, <1>4, Zenon
<1>6. Busy' = Busy \cup {t} /\ t \notin Busy
  BY <1>1, <1>5, Zenon DEF Busy
<1>7. Cardinality(Busy') = Cardinality(Busy) + 1
  BY <1>2, <1>6, Numbers, OneMore, Zenon
<1>8. Len(to_process_frag') = Len(to_process_frag) - 1 /\ Len(to_deflate) \in Nat
        /\ Len(to_process_frag) \in Nat /\ Count("reader") \in Nat
  BY <1>1, <1>2, Numbers
<1>9. QueueLen' = QueueLen - 1
  BY <1>1, <1>3, <1>8 DEF QueueLen
<1>10. reader_used' = reader_used + 0 /\ bwriter_used' = bwriter_used + 0
  <2>1. reader_used' = reader_used /\ bwriter_used' = bwriter_used
    BY <1>1, Zenon
  <2>2. reader_used \in Nat /\ bwriter_used \in Nat
    BY PartTypes, Zenon
  <2> QED BY <2>1, <2>2
<1>11. Prev' + QueueLen' + Cardinality(Compressing') + Cardinality(Busy')
         = Prev + QueueLen + Cardinality(Compressing) + Cardinality(Busy) + 0
  BY <1>3, <1>7, <1>9, PartTypes
<1>12. Cardinality(Holding') + Count("bwriter")' + buffer_list' + to_writer'
         = Cardinality(Holding) + Count("bwriter") + buffer_list + to_writer + 0
  BY <1>1, <1>3, PartTypes
<1> QED BY <1>1, <1>2, <1>10, <1>11, <1>12, PartTypes, AcctNext

(* frag_thrd: the rest of a pass *)
LEMMA FragPutAcct ==
    ASSUME FiniteSetFacts, IInv, IInv', Acct, NEW t \in FragThreads, FragPut(t)
    PROVE  Acct'
<1>1. /\ to_process_frag' = to_process_frag /\ to_deflate' = to_deflate
      /\ deflator' = deflator /\ prev_buffer' = prev_buffer
      /\ buffer_list' = buffer_list /\ to_writer' = to_writer
      /\ bwriter_used' = bwriter_used /\ fragment[t] # None
      /\ fragment' = [fragment EXCEPT ![t] = None]
  BY Zenon DEF FragPut, readerVars, mainVars, queues
<1>2. /\ Types /\ fragment \in [FragThreads -> Buffers \cup {None}] /\ IsFiniteSet(to_main)
      /\ t \in Busy
  BY <1>1, Zenon DEF IInv, Types, Acct, Busy
<1>3. PICK b : b = fragment[t]
  BY Zenon
<1>4. b \in Buffers /\ b.cache = "reader"
  BY <1>1, <1>2, <1>3, Zenon DEF IInv, Places, TailOK
<1>5. \A x \in to_main : x.seq # b.seq
  <2>1. At("thread", t, b) \in OnTheWay
    BY <1>2, <1>3, Zenon DEF OnTheWay, ThreadBuffers
  <2>2. At("thread", t, b).place # "main" /\ At("thread", t, b).buf = b
    BY AtFields
  <2> QED BY <2>1, <2>2, NotYetThere, Zenon
<1>6. Compressing' = Compressing /\ Holding' = Holding /\ Prev' = Prev
  BY <1>1, ThreadParts, Zenon
<1>7. /\ Len(to_deflate) \in Nat /\ Len(to_process_frag) \in Nat
      /\ Count("reader") \in Nat /\ Count("bwriter") \in Nat
  BY <1>2, Numbers, Zenon
<1>8. /\ fragment'[t] = None
      /\ \A u \in FragThreads : u # t => fragment'[u] = fragment[u]
  BY <1>1, <1>2, Zenon
<1>9. Busy' = Busy \ {t}
  BY <1>1, <1>8, Zenon DEF Busy
<1>10. Cardinality(Busy') = Cardinality(Busy) - 1
  BY <1>2, <1>9, Numbers, OneLess, Zenon
<1>11. (~b.sparse) \in BOOLEAN
  BY Zenon
<1>12. CASE /\ to_main' = to_main \cup {[b EXCEPT !.fragment = ~b.sparse]}
            /\ reader_used' = reader_used
  <2>1. PICK c : c = [b EXCEPT !.fragment = ~b.sparse]
    BY Zenon
  <2>2. c.cache = "reader" /\ c.seq = b.seq
    BY <1>4, <2>1, Zenon DEF Buffers
  <2>3. to_main' = to_main \cup {c} /\ c \notin to_main
    BY <1>5, <1>12, <2>1, <2>2, Zenon
  <2>4. /\ IsFiniteSet(to_main') /\ Count("reader")' = Count("reader") + 1
        /\ Count("bwriter")' = Count("bwriter") + 0
    BY <1>2, <2>2, <2>3, CountAdd, Zenon
  <2>5. QueueLen' = QueueLen + 1
    BY <1>1, <1>7, <2>4 DEF QueueLen
  <2>6. reader_used' = reader_used + 0 /\ bwriter_used' = bwriter_used + 0
    BY <1>1, <1>12, PartTypes
  <2>7. Prev' + QueueLen' + Cardinality(Compressing') + Cardinality(Busy')
         = Prev + QueueLen + Cardinality(Compressing) + Cardinality(Busy) + 0
    BY <1>6, <1>10, <2>5, PartTypes
  <2>8. Cardinality(Holding') + Count("bwriter")' + buffer_list' + to_writer'
         = Cardinality(Holding) + Count("bwriter") + buffer_list + to_writer + 0
    BY <1>1, <1>6, <2>4, PartTypes
  <2> QED BY <1>1, <2>4, <2>6, <2>7, <2>8, PartTypes, AcctNext
<1>13. CASE /\ to_main' = to_main \cup {[b EXCEPT !.fragment = ~b.sparse, !.cache = "heap"]}
            /\ reader_used' = reader_used - 1
  <2>1. PICK c : c = [b EXCEPT !.fragment = ~b.sparse, !.cache = "heap"]
    BY Zenon
  <2>2. c.cache = "heap" /\ c.seq = b.seq
    BY <1>4, <2>1, Zenon DEF Buffers
  <2>3. to_main' = to_main \cup {c} /\ c \notin to_main
    BY <1>5, <1>13, <2>1, <2>2, Zenon
  <2>4. /\ IsFiniteSet(to_main') /\ Count("reader")' = Count("reader") + 0
        /\ Count("bwriter")' = Count("bwriter") + 0
    <3>1. /\ IsFiniteSet(to_main')
          /\ Count("reader")' = Count("reader") + (IF c.cache = "reader" THEN 1 ELSE 0)
          /\ Count("bwriter")' = Count("bwriter") + (IF c.cache = "bwriter" THEN 1 ELSE 0)
      BY <1>2, <2>2, <2>3, CountAdd, Zenon
    <3> QED BY <2>2, <3>1, Zenon
  <2>5. QueueLen' = QueueLen
    BY <1>1, <1>7, <2>4 DEF QueueLen
  <2>6. reader_used' = reader_used + (-1) /\ bwriter_used' = bwriter_used + 0
    BY <1>1, <1>13, PartTypes
  <2>7. Prev' + QueueLen' + Cardinality(Compressing') + Cardinality(Busy')
         = Prev + QueueLen + Cardinality(Compressing) + Cardinality(Busy) + (-1)
    BY <1>6, <1>10, <2>5, PartTypes
  <2>8. Cardinality(Holding') + Count("bwriter")' + buffer_list' + to_writer'
         = Cardinality(Holding) + Count("bwriter") + buffer_list + to_writer + 0
    BY <1>1, <1>6, <2>4, PartTypes
  <2> QED BY <1>1, <2>4, <2>6, <2>7, <2>8, PartTypes, AcctNext
<1> QED BY <1>3, <1>12, <1>13, Zenon DEF FragPut

(* Read buffers that the main thread takes leave the queues. *)
LEMMA QueueLess ==
    ASSUME FiniteSetFacts, Types, IsFiniteSet(to_main), NEW r \in Nat,
           to_deflate' = to_deflate, to_process_frag' = to_process_frag,
           Count("reader")' = Count("reader") - r
    PROVE  QueueLen' = QueueLen - r
<1>1. /\ Len(to_deflate) \in Nat /\ Len(to_process_frag) \in Nat /\ Count("reader") \in Nat
  BY Numbers, Zenon
<1>2. QueueLen' = Len(to_deflate) + Len(to_process_frag) + (Count("reader") - r)
  BY Zenon DEF QueueLen
<1>3. QueueLen = Len(to_deflate) + Len(to_process_frag) + Count("reader")
  BY Zenon DEF QueueLen
<1> QED BY <1>1, <1>2, <1>3

(* The main thread takes buffer b, releases r read buffers and w write       *)
(* buffers, and keeps or hands on the others.                                *)
LEMMA MainAcct ==
    ASSUME FiniteSetFacts, IInv, IInv', Acct, NEW b \in Arrived, to_main' = to_main \ {b},
           UNCHANGED <<readerVars, queues, deflator, fragment>>,
           NEW r \in Nat, NEW w \in Nat,
           reader_used' = reader_used - r, bwriter_used' = bwriter_used - w,
           buffer_list' \in Nat, to_writer' \in Nat,
           r = (IF b.cache = "reader" THEN 1 ELSE 0),
           buffer_list' + to_writer' + w
              = buffer_list + to_writer + (IF b.cache = "bwriter" THEN 1 ELSE 0)
    PROVE  Acct'
<1>1. /\ prev_buffer' = prev_buffer /\ deflator' = deflator /\ fragment' = fragment
      /\ to_deflate' = to_deflate /\ to_process_frag' = to_process_frag
  BY Zenon DEF readerVars, queues
<1>2. /\ Compressing' = Compressing /\ Holding' = Holding /\ Busy' = Busy /\ Prev' = Prev
  BY <1>1, ThreadParts, Zenon
<1>3. b \in to_main /\ Types /\ IsFiniteSet(to_main)
  BY Zenon DEF Arrived, IInv, Acct
<1> DEFINE k == IF b.cache = "bwriter" THEN 1 ELSE 0
<1>4. /\ IsFiniteSet(to_main') /\ Count("reader")' = Count("reader") - r
      /\ Count("bwriter")' = Count("bwriter") - k
  BY <1>3, CountLess, Zenon
<1>5. k \in Nat /\ buffer_list' + to_writer' + w = buffer_list + to_writer + k
  BY Zenon
<1> HIDE DEF k
<1>7. QueueLen' = QueueLen - r
  BY <1>1, <1>3, <1>4, QueueLess, Zenon
<1>8. /\ reader_used' = reader_used + (-r) /\ bwriter_used' = bwriter_used + (-w)
      /\ -r \in Int /\ -w \in Int /\ ~(-r > 0) /\ ~(-w > 0)
  BY PartTypes
<1>9. Prev' + QueueLen' + Cardinality(Compressing') + Cardinality(Busy')
         = Prev + QueueLen + Cardinality(Compressing) + Cardinality(Busy) + (-r)
  BY <1>2, <1>7, PartTypes
<1>10. Cardinality(Holding') + Count("bwriter")' + buffer_list' + to_writer'
         = Cardinality(Holding) + Count("bwriter") + buffer_list + to_writer + (-w)
  <2>1. Cardinality(Holding) + (Count("bwriter") - k) + buffer_list' + to_writer'
           = Cardinality(Holding) + Count("bwriter") + buffer_list + to_writer + (-w)
    BY <1>5, PartTypes
  <2> QED BY <1>2, <1>4, <2>1, Zenon
<1> QED BY <1>4, <1>8, <1>9, <1>10, AcctNext, Zenon

(* write_file, when the first buffer decides *)
LEMMA WriteFileAcct ==
    ASSUME FiniteSetFacts, IInv, IInv', Acct, WriteFile, ~OldZeroTails
    PROVE  Acct'
<1>1. PICK b \in Arrived :
          /\ \/ b.error # 0 /\ PutReadBuffer
             \/ b.error = 0 /\ b.size = 0 /\ PutReadBuffer
             \/ /\ b.error = 0 /\ b.size # Unknown /\ b.fragment
                /\ IF b.cache = "heap" THEN UNCHANGED reader_used ELSE PutReadBuffer
          /\ to_main' = to_main \ {b}
          /\ UNCHANGED <<readerVars, queues, deflator, fragment, buffer_list, to_writer,
                         bwriter_used>>
  BY Zenon DEF WriteFile
<1>2. /\ UNCHANGED <<readerVars, queues, deflator, fragment>>
      /\ buffer_list' = buffer_list /\ to_writer' = to_writer
      /\ bwriter_used' = bwriter_used
  BY <1>1, Zenon
<1>3. MainOK(b) /\ Within(b)
  BY ArrivedFits, Zenon
<1> DEFINE r == IF b.cache = "reader" THEN 1 ELSE 0
<1>4. reader_used' = reader_used - r /\ b.cache # "bwriter"
  <2>1. CASE b.error # 0 \/ b.size = 0
    <3>1. b.cache = "reader"
      BY <1>3, <2>1, Zenon DEF MainOK
    <3>2. reader_used' = reader_used - 1
      BY <1>1, <2>1, <3>1, Zenon DEF PutReadBuffer
    <3> QED BY <3>1, <3>2, Zenon
  <2>2. CASE b.error = 0 /\ b.size # 0
    <3>1. b.fragment /\ IF b.cache = "heap" THEN UNCHANGED reader_used ELSE PutReadBuffer
      BY <1>1, <2>2, Zenon
    <3>2. b.cache = "reader" \/ b.cache = "heap"
      BY <1>3, <2>2, <3>1, Zenon DEF MainOK, DataOK
    <3>3. CASE b.cache = "reader"
      BY <3>1, <3>3, Zenon DEF PutReadBuffer
    <3>4. CASE b.cache = "heap"
      BY <3>1, <3>4, PartTypes
    <3> QED BY <3>2, <3>3, <3>4, Zenon
  <2> QED BY <2>1, <2>2, Zenon
<1>5. r \in Nat /\ r = (IF b.cache = "reader" THEN 1 ELSE 0)
  BY Zenon
<1> HIDE DEF r
<1>6. buffer_list' + to_writer' + 0
              = buffer_list + to_writer + (IF b.cache = "bwriter" THEN 1 ELSE 0)
  BY <1>2, <1>4, PartTypes, Zenon
<1>7. bwriter_used' = bwriter_used - 0 /\ buffer_list' \in Nat /\ to_writer' \in Nat
  BY <1>2, PartTypes
<1> QED BY <1>1, <1>2, <1>4, <1>5, <1>6, <1>7, MainAcct, Zenon

(* read_err *)
LEMMA NextErrorAcct ==
    ASSUME FiniteSetFacts, IInv, IInv', Acct, NextError
    PROVE  Acct'
<1>1. PICK b \in Arrived :
          /\ b.error # 0 /\ PutReadBuffer
          /\ bwriter_used' = bwriter_used - buffer_list
          /\ buffer_list' = 0
          /\ to_main' = to_main \ {b}
          /\ UNCHANGED <<readerVars, queues, deflator, fragment, to_writer>>
  BY Zenon DEF NextError
<1>2. b.cache = "reader"
  BY <1>1, ArrivedFits, Zenon DEF MainOK
<1>3. reader_used' = reader_used - 1 /\ to_writer' = to_writer
      /\ UNCHANGED <<readerVars, queues, deflator, fragment>>
  BY <1>1, Zenon DEF PutReadBuffer
<1>4. buffer_list' + to_writer' + buffer_list
              = buffer_list + to_writer + (IF b.cache = "bwriter" THEN 1 ELSE 0)
  BY <1>1, <1>2, <1>3, PartTypes
<1>5. buffer_list' \in Nat /\ to_writer' \in Nat /\ buffer_list \in Nat
  BY <1>1, <1>3, PartTypes, Zenon
<1>6. 1 = (IF b.cache = "reader" THEN 1 ELSE 0)
  BY <1>2, Zenon
<1> QED BY <1>1, <1>3, <1>4, <1>5, <1>6, MainAcct, Zenon

(* A block that holds data: a sparse one is released, a tail completes the   *)
(* file and is released with it, any other is kept or handed on.             *)
LEMMA BlockAcct ==
    ASSUME FiniteSetFacts, IInv, IInv', Acct, NEW b \in Arrived, b.error = 0, b.size # 0, DataOK(b),
           b.fragment => b.cache = "reader", NEW m \in MainStates, m.block = b.block,
           m.blocks = Unknown => (b.size # Unknown => Last(b)),
           m.blocks # Unknown => b.size = m.blocks,
           Block(b, m)
    PROVE  Acct'
<1>1. /\ to_main' = to_main \ {b}
      /\ UNCHANGED <<readerVars, queues, deflator, fragment>>
  BY Zenon DEF Block
<1>2. /\ b \in Buffers /\ Within(b) /\ b.block \in Nat /\ b.size \in Nat \cup {Unknown}
  BY ArrivedFits, Zenon DEF Buffers
<1> DEFINE last == IF m.blocks = Unknown THEN b.size # Unknown ELSE m.block + 1 >= m.blocks
           keep == m.dup /\ m.block >= Thresh(m.blocks) /\ ~b.fragment /\ ~b.sparse
           write == ~keep /\ ~b.fragment /\ ~b.sparse
           kept == buffer_list + (IF keep THEN 1 ELSE 0)
           tails == fragment_buffer + (IF b.fragment THEN 1 ELSE 0)
           sp == IF b.sparse THEN 1 ELSE 0
           wr == IF write THEN 1 ELSE 0
           r == IF b.cache = "reader" THEN 1 ELSE 0
           k == IF b.cache = "bwriter" THEN 1 ELSE 0
<1>3. fragment_buffer = 0
  BY Zenon DEF IInv, MainInv
<1>4. b.fragment => last
  BY <1>2, Zenon DEF Within, Last
<1>5. tails \in Nat /\ sp \in Nat /\ sp + tails = r
  <2>1. CASE b.sparse
    <3>1. ~b.fragment /\ b.cache = "reader"
      BY <2>1, Zenon DEF DataOK
    <3> QED BY <1>3, <2>1, <3>1
  <2>2. CASE ~b.sparse /\ b.fragment
    BY <1>3, <2>2
  <2>3. CASE ~b.sparse /\ ~b.fragment
    <3>1. b.cache = "bwriter"
      BY <2>3, Zenon DEF DataOK
    <3> QED BY <1>3, <2>3, <3>1
  <2> QED BY <2>1, <2>2, <2>3, Zenon
<1>6. kept \in Nat /\ wr \in Nat /\ kept + wr = buffer_list + k
  <2>1. CASE b.sparse \/ b.fragment
    <3>1. b.cache # "bwriter"
      BY <2>1, Zenon DEF DataOK
    <3>2. ~keep /\ ~write
      BY <2>1, Zenon
    <3> HIDE DEF keep, write
    <3> QED BY <3>1, <3>2, PartTypes
  <2>2. CASE ~b.sparse /\ ~b.fragment
    <3>1. b.cache = "bwriter"
      BY <2>2, Zenon DEF DataOK
    <3>2. write <=> ~keep
      BY <2>2, Zenon
    <3> HIDE DEF keep, write
    <3> QED BY <3>1, <3>2, PartTypes
  <2> QED BY <2>1, <2>2, Zenon
<1>7. r \in Nat /\ r = (IF b.cache = "reader" THEN 1 ELSE 0)
        /\ k = (IF b.cache = "bwriter" THEN 1 ELSE 0)
  BY Zenon
<1>8. \/ /\ ~last
         /\ buffer_list' = kept
         /\ to_writer' = to_writer + wr
         /\ reader_used' = reader_used - sp
         /\ bwriter_used' = bwriter_used
      \/ /\ last
         /\ buffer_list' = 0
         /\ reader_used' = reader_used - sp - tails
         /\ \E duplicate \in {FALSE, m.dup} :
               /\ to_writer' = to_writer + wr + (IF duplicate THEN 0 ELSE kept)
               /\ bwriter_used' = bwriter_used - (IF duplicate THEN kept ELSE 0)
  BY Zenon DEF Block
<1>9. ~last => tails = 0
  BY <1>3, <1>4
<1> HIDE DEF last, keep, write, kept, tails, sp, wr, r, k
<1>10. CASE /\ ~last
            /\ buffer_list' = kept
            /\ to_writer' = to_writer + wr
            /\ reader_used' = reader_used - sp
            /\ bwriter_used' = bwriter_used
  <2>1. reader_used' = reader_used - r /\ bwriter_used' = bwriter_used - 0
    BY <1>5, <1>7, <1>9, <1>10, PartTypes
  <2>2. buffer_list' \in Nat /\ to_writer' \in Nat
    BY <1>6, <1>10, PartTypes
  <2>3. buffer_list' + to_writer' + 0 = buffer_list + to_writer + k
    <3>1. kept + (to_writer + wr) + 0 = buffer_list + to_writer + k
      <4>1. k \in Nat
        BY <1>7, Zenon
      <4>2. kept = buffer_list + k - wr
        BY <1>6, <4>1, PartTypes
      <4>3. wr \in Nat /\ buffer_list \in Nat /\ to_writer \in Nat
        BY <1>6, PartTypes, Zenon
      <4> QED BY <4>1, <4>2, <4>3
    <3> QED BY <1>10, <3>1, Zenon
  <2>4. 0 \in Nat
    BY Zenon
  <2> QED BY <1>1, <1>7, <2>1, <2>2, <2>3, <2>4, MainAcct, Zenon
<1>11. CASE /\ last
            /\ buffer_list' = 0
            /\ reader_used' = reader_used - sp - tails
            /\ \E duplicate \in {FALSE, m.dup} :
                  /\ to_writer' = to_writer + wr + (IF duplicate THEN 0 ELSE kept)
                  /\ bwriter_used' = bwriter_used - (IF duplicate THEN kept ELSE 0)
  <2>1. PICK duplicate \in {FALSE, m.dup} :
                  /\ to_writer' = to_writer + wr + (IF duplicate THEN 0 ELSE kept)
                  /\ bwriter_used' = bwriter_used - (IF duplicate THEN kept ELSE 0)
    BY <1>11, Zenon
  <2>2. reader_used' = reader_used - r
    <3>1. reader_used - sp - tails = reader_used - r
      <4>1. r = sp + tails /\ sp \in Nat /\ tails \in Nat /\ reader_used \in Nat
        BY <1>5, PartTypes, Zenon
      <4> QED BY <4>1
    <3> QED BY <1>11, <3>1, Zenon
  <2>3. PICK w \in Nat : w = IF duplicate THEN kept ELSE 0
    BY <1>6
  <2>4. PICK v \in Nat : v = IF duplicate THEN 0 ELSE kept
    BY <1>6
  <2>5. v + w = kept
    BY <1>6, <2>3, <2>4
  <2>6. to_writer' = to_writer + wr + v /\ bwriter_used' = bwriter_used - w
    BY <2>1, <2>3, <2>4, Zenon
  <2>7. buffer_list' \in Nat /\ to_writer' \in Nat
    BY <1>6, <1>11, <2>6, PartTypes
  <2>8. buffer_list' + to_writer' + w = buffer_list + to_writer + k
    <3>1. k \in Nat
      BY <1>7, Zenon
    <3>2. 0 + (to_writer + wr + v) + w = buffer_list + to_writer + k
      <4>1. /\ wr \in Nat /\ buffer_list \in Nat /\ to_writer \in Nat /\ kept \in Nat
            /\ kept + wr = buffer_list + k
        BY <1>6, PartTypes, Zenon
      <4>2. \A a, b2, c, d, n, u, x \in Nat :
               u + x = a /\ a + b2 = c + d => 0 + (n + b2 + u) + x = c + n + d
        OBVIOUS
      <4> QED BY <2>5, <3>1, <4>1, <4>2
    <3> QED BY <1>11, <2>6, <3>2, Zenon
  <2> QED BY <1>1, <1>7, <2>2, <2>6, <2>7, <2>8, MainAcct, Zenon
<1> QED BY <1>8, <1>10, <1>11, Zenon

(* The first block of a file *)
LEMMA FirstBlockAcct ==
    ASSUME FiniteSetFacts, IInv, IInv', Acct, FirstBlock, ~OldZeroTails
    PROVE  Acct'
<1>1. PICK b \in Arrived, dup \in BOOLEAN :
          /\ main.at = "first" /\ b.error = 0 /\ b.size # 0
          /\ b.size # Unknown => ~b.fragment
          /\ Block(b, [file |-> main.file, at |-> "next", try |-> b.try, block |-> 0,
                       blocks |-> b.size, dup |-> dup])
  BY Zenon DEF FirstBlock
<1>2. PICK m : m = [file |-> main.file, at |-> "next", try |-> b.try, block |-> 0,
                    blocks |-> b.size, dup |-> dup]
  BY Zenon
<1>3. /\ b \in Buffers /\ b.block = main.block /\ MainOK(b) /\ Within(b)
      /\ main.file \in Nat /\ b.try \in Nat /\ b.size \in Nat \cup {Unknown}
  BY ArrivedFits, Zenon DEF Buffers, IInv, Types, MainStates
<1>4. main.block = 0
  BY <1>1 DEF IInv, MainInv, Types, MainStates
<1>5. m \in MainStates
  BY <1>2, <1>3, Zenon DEF MainStates
<1>6. m.block = b.block /\ m.blocks = b.size
  BY <1>2, <1>3, <1>4, Zenon
<1>7. Block(b, m)
  BY <1>1, <1>2, Zenon
<1>8. DataOK(b) /\ ~b.fragment
  BY <1>1, <1>3, Zenon DEF MainOK, Within, Last
<1> QED BY <1>1, <1>5, <1>6, <1>7, <1>8, BlockAcct, Zenon

(* The other blocks *)
LEMMA NextBlockAcct ==
    ASSUME FiniteSetFacts, IInv, IInv', Acct, NextBlock, ~OldZeroTails
    PROVE  Acct'
<1>1. PICK b \in Arrived : main.at = "next" /\ b.error = 0 /\ Block(b, main)
  BY Zenon DEF NextBlock
<1>2. main \in MainStates /\ main.block > 0 /\ main.block \in Nat
  BY <1>1, Zenon DEF IInv, Types, MainInv, MainStates
<1>3. b \in Buffers /\ b.block = main.block /\ MainOK(b) /\ Within(b)
        /\ b.size \in Nat \cup {Unknown}
  BY ArrivedFits, Zenon DEF Buffers
<1>4. b.size # 0 /\ b.size # 1
  BY <1>2, <1>3 DEF Within, Unknown
<1>5. DataOK(b)
  BY <1>1, <1>3, <1>4, Zenon DEF MainOK
<1>6. b.fragment => b.cache = "reader"
  BY <1>4, <1>5, Zenon DEF DataOK
<1> QED BY <1>1, <1>2, <1>4, <1>5, <1>6, ArrivedFits, BlockAcct, Zenon

(* writer *)
LEMMA WriterAcct ==
    ASSUME FiniteSetFacts, IInv, IInv', Acct, Writer
    PROVE  Acct'
<1>1. /\ to_main' = to_main /\ fragment' = fragment /\ prev_buffer' = prev_buffer
      /\ to_deflate' = to_deflate /\ to_process_frag' = to_process_frag
      /\ deflator' = deflator /\ buffer_list' = buffer_list
      /\ reader_used' = reader_used /\ bwriter_used' = bwriter_used - 1
      /\ to_writer > 0 /\ to_writer' = to_writer - 1
  BY Zenon DEF Writer, readerVars, mainVars, queues
<1>2. /\ Compressing' = Compressing /\ Holding' = Holding /\ Busy' = Busy /\ Prev' = Prev
      /\ QueueLen' = QueueLen /\ Count("bwriter")' = Count("bwriter")
  BY <1>1, ThreadParts, Zenon
<1>3. /\ reader_used' = reader_used + 0 /\ bwriter_used' = bwriter_used + (-1)
      /\ to_writer' \in Nat /\ buffer_list' \in Nat
  BY <1>1, PartTypes
<1>4. Prev' + QueueLen' + Cardinality(Compressing') + Cardinality(Busy')
         = Prev + QueueLen + Cardinality(Compressing) + Cardinality(Busy) + 0
  BY <1>2, PartTypes
<1>5. Cardinality(Holding') + Count("bwriter")' + buffer_list' + to_writer'
         = Cardinality(Holding) + Count("bwriter") + buffer_list + to_writer + (-1)
  BY <1>1, <1>2, PartTypes
<1>6. IsFiniteSet(to_main')
  BY <1>1, Zenon DEF Acct
<1> QED BY <1>3, <1>4, <1>5, <1>6, AcctNext

(* Nothing changes. *)
LEMMA KeepAcct ==
    ASSUME Acct, UNCHANGED vars
    PROVE  Acct'
BY Zenon DEF Acct, vars, readerVars, mainVars, queues, ReadBuffers, WriteBuffers, Count, Compressing

(* initialise_threads *)
LEMMA InitAcct == FiniteSetFacts /\ Init => Acct
<1> SUFFICES ASSUME FiniteSetFacts, Init PROVE Acct
  BY Zenon
<1>1. /\ prev_buffer = None /\ to_deflate = <<>> /\ to_process_frag = <<>> /\ to_main = {}
      /\ buffer_list = 0 /\ fragment_buffer = 0 /\ to_writer = 0
      /\ reader_used = 0 /\ bwriter_used = 0
  BY Zenon DEF Init
<1>2. /\ \A d \in Deflators : deflator[d].at = "start"
      /\ \A t \in FragThreads : fragment[t] = None
  BY Zenon DEF Init
<1>3. Compressing = {} /\ {t \in FragThreads : fragment[t] # None} = {}
        /\ {d \in Deflators : deflator[d].at # "start"} = {}
  BY <1>2, Zenon DEF Compressing
<1>4. IsFiniteSet({}) /\ Cardinality({}) = 0
  BY Numbered, Zenon
<1>5. ASSUME NEW c PROVE Count(c) = 0
  <2>1. {b \in to_main : b.cache = c} = {}
    BY <1>1, Zenon
  <2> QED BY <1>4, <2>1, Zenon DEF Count
<1>6. ReadBuffers = 0 /\ WriteBuffers = 0
  <2>1. Len(to_deflate) = 0 /\ Len(to_process_frag) = 0
    BY <1>1, Zenon
  <2>2. Count("reader") = 0 /\ Count("bwriter") = 0
    BY <1>5, Zenon
  <2>5. /\ Cardinality(Compressing) = 0
        /\ Cardinality({t \in FragThreads : fragment[t] # None}) = 0
        /\ Cardinality({d \in Deflators : deflator[d].at # "start"}) = 0
    BY <1>3, <1>4, Zenon
  <2>6. (IF prev_buffer = None THEN 0 ELSE 1) = 0
    BY <1>1, Zenon
  <2>3. ReadBuffers = 0
    <3>1. ReadBuffers = 0 + 0 + 0 + 0 + 0 + 0 + 0
      BY <1>1, <2>1, <2>2, <2>5, <2>6, Zenon DEF ReadBuffers
    <3> QED BY <3>1
  <2>4. WriteBuffers = 0
    <3>1. WriteBuffers = 0 + 0 + 0 + 0
      BY <1>1, <2>2, <2>5, Zenon DEF WriteBuffers
    <3> QED BY <3>1
  <2> QED BY <2>3, <2>4, Zenon
<1>7. reader_size \in Nat /\ bwriter_size \in Nat
  BY PipelineAssumption, Zenon
<1> QED BY <1>1, <1>4, <1>6, <1>7 DEF Acct

(* Every step keeps the account. *)
LEMMA NextAcct ==
    ASSUME FiniteSetFacts, ~OldZeroTails, IInv, IInv', Acct, [Next]_vars
    PROVE  Acct'
<1>1. CASE ReadFile
  BY <1>1, ReadFileAcct, Zenon
<1>2. CASE ReadProcess
  BY <1>2, ReadProcessAcct, Zenon
<1>3. CASE WriteFile
  BY <1>3, WriteFileAcct, Zenon
<1>4. CASE FirstBlock
  BY <1>4, FirstBlockAcct, Zenon
<1>5. CASE NextBlock
  BY <1>5, NextBlockAcct, Zenon
<1>6. CASE NextError
  BY <1>6, NextErrorAcct, Zenon
<1>7. CASE Writer
  BY <1>7, WriterAcct, Zenon
<1>8. ASSUME NEW d \in Deflators, Deflator(d) PROVE Acct'
  BY <1>8, DeflatorGetBufferAcct, DeflatorTakeAcct, DeflatorPutAcct, Zenon DEF Deflator
<1>9. ASSUME NEW t \in FragThreads, FragThread(t) PROVE Acct'
  BY <1>9, FragTakeAcct, FragPutAcct, Zenon DEF FragThread
<1>10. CASE Finished \/ UNCHANGED vars
  BY <1>10, KeepAcct, Zenon DEF Finished
<1> QED BY <1>1, <1>2, <1>3, <1>4, <1>5, <1>6, <1>7, <1>8, <1>9, <1>10, Zenon
        DEF Next, Reader, Main

(* Then they are accounted for.                                             *)
LEMMA AcctEnough ==
    ASSUME FiniteSetFacts, IInv, Acct
    PROVE  BuffersAccounted
<1>1. Countable /\ Summed
  BY SumParts, Zenon DEF Countable, IInv, MainInv, Acct
<1>2. /\ reader_used \in Nat /\ bwriter_used \in Nat
      /\ reader_size \in Nat /\ bwriter_size \in Nat
  BY PartTypes, PipelineAssumption, Zenon
<1>3. reader_used \in 0..reader_size /\ bwriter_used \in 0..bwriter_size
  BY <1>2 DEF Acct
<1>4. Len(to_deflate) <= reader_size /\ Len(to_process_frag) <= reader_size
  <2>1. Len(to_deflate) \in Nat /\ Len(to_process_frag) \in Nat
    BY Numbers, Zenon DEF IInv, Acct
  <2>2. QueueLen <= reader_used /\ QueueLen \in Nat
    BY PartTypes
  <2>3. Len(to_deflate) <= QueueLen /\ Len(to_process_frag) <= QueueLen
    BY <1>1, Zenon DEF Summed
  <2> QED BY <1>2, <2>1, <2>2, <2>3 DEF Acct
<1>5. sequence <= seq /\ main.at \in {"first", "next"}
  BY Zenon DEF IInv, InOrder, Order, Types, MainStates
<1> QED BY <1>3, <1>4, <1>5, Zenon DEF BuffersAccounted, TypeOK, Acct

\* The library of finite sets, not needed before this point.
INSTANCE FiniteSetTheorems

(* The facts about finite sets that the lemmas assume.                       *)
LEMMA FiniteSetsHave == FiniteSetFacts
<1>1. \A S : IsFiniteSet(S) => Cardinality(S) \in Nat
  BY FS_CardinalityType, Zenon
<1>2. \A S, x : IsFiniteSet(S) =>
         /\ IsFiniteSet(S \cup {x})
         /\ x \notin S => Cardinality(S \cup {x}) = Cardinality(S) + 1
  BY FS_AddElement, Zenon
<1>3. \A S, x : IsFiniteSet(S) =>
         /\ IsFiniteSet(S \ {x})
         /\ x \in S => Cardinality(S \ {x}) = Cardinality(S) - 1
  BY FS_RemoveElement, Zenon
<1>4. \A S, T : IsFiniteSet(S) /\ T \subseteq S =>
         IsFiniteSet(T) /\ Cardinality(T) <= Cardinality(S)
  BY FS_Subset, Zenon
<1>5. \A n \in Nat : IsFiniteSet(1..n)
  BY FS_Interval
<1>6. ASSUME NEW S, NEW T, NEW f \in [S -> T], IsFiniteSet(S),
             \A a, b \in S : f[a] = f[b] => a = b,
             \A t \in T : \E a \in S : f[a] = t
      PROVE  Cardinality(T) = Cardinality(S)
  <2>1. f \in Bijection(S, T)
    BY <1>6, Zenon DEF Bijection, Injection, Surjection, IsInjective
  <2> QED
    BY <1>6, <2>1, FS_Bijection, Zenon DEF ExistsBijection
<1> QED
  BY <1>1, <1>2, <1>3, <1>4, <1>5, <1>6, FS_EmptySet, Zenon DEF FiniteSetFacts

(* Every buffer of the two caches that is in use is with one thread or queue, *)
(* whatever files change, end early or cannot be read; the caches keep to     *)
(* their sizes, and the queues the reader fills never make it wait.  As in    *)
(* the run, no image is appended to that has tails which are all zero.        *)
THEOREM PipelineBuffersAccounted == ASSUME ~OldZeroTails PROVE Spec => []BuffersAccounted
<1>1. IInv /\ Acct => BuffersAccounted
  BY FiniteSetsHave, AcctEnough, Zenon
<1>2. Init => IInv /\ Acct
  BY FiniteSetsHave, InitIInv, InitAcct, Zenon
<1>3. IInv /\ Acct /\ [Next]_vars => IInv' /\ Acct'
  BY FiniteSetsHave, NextIInv, NextAcct, Zenon
<1> QED BY <1>1, <1>2, <1>3, PTL DEF Spec
=============================================================================
