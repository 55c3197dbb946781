--------------------------- MODULE UnsquashProofs ---------------------------
(* Proofs about the extraction threads of Unsquashfs, for every tree, every  *)
(* size of the caches and every number of inflators: every step keeps the    *)
(* second half of the invariant, the open files, the end of the work and     *)
(* what has been written, and what the invariant implies.                    *)
EXTENDS UnsquashSteps

-----------------------------------------------------------------------------
(* What a step does to the number of queued files.                           *)
QueuedOpen == Cardinality({i \in DOMAIN to_writer : to_writer[i].item = "file"})
OpenChanges ==
    /\ QueuedOpen \in Nat
    /\ to_writer' = to_writer => QueuedOpen' = QueuedOpen
    /\ \A x \in Items : to_writer' = Append(to_writer, x) =>
          QueuedOpen' = QueuedOpen + (IF x.item = "file" THEN 1 ELSE 0)
    /\ to_writer # <<>> /\ to_writer' = Tail(to_writer) =>
          QueuedOpen' = QueuedOpen - (IF Head(to_writer).item = "file" THEN 1 ELSE 0)

(* The open files are counted. *)
LEMMA OpenedStep == ASSUME IInv, [Next]_vars, OpenChanges PROVE Opened'
<1> DEFINE n(x) == IF x THEN 1 ELSE 0
<1>0. /\ Opened /\ to_writer \in Seq(Items) /\ main \in MainType /\ writer \in WriterType
      /\ faults' = faults /\ open_count \in Nat /\ max_files \in Nat /\ QueuedOpen \in Nat
      /\ OpenFiles = QueuedOpen + n(main.at = "queue") + n(writer.file # 0)
      /\ OpenFiles' = QueuedOpen' + n(main'.at = "queue") + n(writer'.file # 0)
  BY Cases, Constants, Zenon DEF IInv, Types, OpenFiles, QueuedOpen, OpenChanges
<1>c. /\ to_writer' = to_writer => QueuedOpen' = QueuedOpen
      /\ \A x \in Items : to_writer' = Append(to_writer, x) =>
            QueuedOpen' = QueuedOpen + n(x.item = "file")
      /\ to_writer # <<>> /\ to_writer' = Tail(to_writer) =>
            QueuedOpen' = QueuedOpen - n(Head(to_writer).item = "file")
  BY Zenon DEF OpenChanges
<1>1. ASSUME open_count' = open_count, OpenFiles' = OpenFiles PROVE Opened'
  BY <1>0, <1>1, Zenon DEF Opened
<1>2. ASSUME UNCHANGED <<open_count, to_writer>>, main'.at = "queue" <=> main.at = "queue",
             writer'.file = writer.file
      PROVE  Opened'
  <2>1. QueuedOpen' = QueuedOpen
    BY <1>0, <1>2, <1>c, Zenon
  <2> QED
    BY <1>0, <1>1, <1>2, <2>1, Zenon
<1>3. CASE OpenFails
  <2>1. /\ open_count' = open_count - 1 /\ faults.open /\ to_writer' = to_writer /\ main' = main
        /\ writer' = writer /\ open_count > 0
    BY <1>3, Zenon DEF OpenFails
  <2>2. OpenFiles' = OpenFiles
    BY <1>0, <2>1, <1>c, Zenon
  <2> QED
    BY <1>0, <2>1, <2>2 DEF Opened
<1>4. CASE Opens
  <2>1. /\ open_count' = open_count - 1 /\ to_writer' = to_writer /\ main.at = "scan"
        /\ main'.at = "queue" /\ writer' = writer
    BY <1>0, <1>4, Zenon DEF Opens, MainType
  <2>2. OpenFiles' = OpenFiles + 1 /\ OpenFiles \in Nat
    BY <1>0, <2>1, <1>c
  <2>3. open_count' + OpenFiles' = open_count + OpenFiles
    BY <1>0, <2>1, <2>2
  <2> QED
    BY <1>0, <2>3, Zenon DEF Opened
<1>5. CASE MakeName \/ Synced \/ QueueRead \/ WakeMain
  BY <1>0, <1>2, <1>5, Zenon DEF MakeName, Synced, QueueRead, WakeMain, queueVars, MainType
<1>6. CASE CacheGet
  <2>0. UNCHANGED <<open_count, to_writer>> /\ writer' = writer /\ main.at # "queue"
    BY <1>6, CacheGetCases, Zenon DEF queueVars, InLoop, LoopPlaces
  <2>1. CASE GetHole \/ GetSleep
    BY <1>0, <1>2, <2>0, <2>1, Zenon DEF GetHole, GetSleep, MainType
  <2>2. ASSUME NEW e \in Entries, GetHit(e) \/ GetNew(e) PROVE Opened'
    BY <1>0, <1>2, <2>0, <2>2, Zenon DEF GetHit, GetNew, CacheHit, Reserve, MainType
  <2> QED
    BY <1>6, <2>1, <2>2, CacheGetCases, Zenon
<1>7. CASE QueueFile \/ QueueBlock \/ QueueDir \/ EndScan
  <2>1. PICK x \in Items : to_writer' = Append(to_writer, x)
    BY <1>0, <1>7, QueueCases DEF QueueFile, QueueBlock, QueueDir, EndScan
  <2>2. Len(to_writer) \in Nat /\ to_writer'[Len(to_writer) + 1] = x
    BY <1>0, <2>1
  <2>3. (x.item = "file" <=> QueueFile)
    <3>1. CASE QueueFile
      BY <1>0, <2>2, <3>1 DEF QueueFile
    <3>2. CASE QueueBlock
      <4>1. x.item = "block" /\ main.at = "put"
        BY <1>0, <2>2, <3>2 DEF QueueBlock
      <4> QED
        BY <4>1, Zenon DEF QueueFile
    <3>3. CASE QueueDir
      <4>1. x.item = "dir" /\ main.at = "scan"
        BY <1>0, <2>2, <3>3 DEF QueueDir
      <4> QED
        BY <4>1, Zenon DEF QueueFile
    <3>4. CASE EndScan
      <4>1. x.item = "null" /\ main.at = "scan"
        BY <1>0, <2>2, <3>4 DEF EndScan
      <4> QED
        BY <4>1, Zenon DEF QueueFile
    <3> QED
      BY <1>7, <3>1, <3>2, <3>3, <3>4, Zenon
  <2>4. QueuedOpen' = QueuedOpen + n(QueueFile)
    BY <1>0, <2>1, <2>3, <1>c, Zenon
  <2>5. open_count' = open_count /\ writer' = writer
    BY <1>7, Zenon DEF QueueFile, QueueBlock, QueueDir, EndScan
  <2>6. CASE QueueFile
    <3>1. main.at = "queue" /\ main'.at # "queue"
      BY <1>0, <2>6, Zenon DEF QueueFile, MainType
    <3> QED
      BY <1>0, <1>1, <2>4, <2>5, <2>6, <3>1
  <2>7. CASE ~QueueFile
    <3>1. main.at # "queue" /\ main'.at # "queue"
      BY <1>0, <1>7, <2>7 DEF QueueBlock, NextBlock, QueueDir, EndScan, MainType
    <3> QED
      BY <1>0, <1>1, <2>4, <2>5, <2>7, <3>1
  <2> QED
    BY <2>6, <2>7, Zenon
<1>8. CASE Quiet \/ WakeWriter \/ WriterSleep
  BY <1>0, <1>2, <1>8, Zenon DEF Quiet, WakeWriter, WriterSleep, mainVars, queueVars, WriterType
<1>9. ASSUME NEW e \in Entries, Fill(e) PROVE Opened'
  BY <1>0, <1>2, <1>9, Zenon DEF Fill, CacheBlockReady, mainVars, WriterType
<1>10. CASE WriterTake
  <2>1. /\ to_writer # <<>> /\ to_writer' = Tail(to_writer) /\ UNCHANGED <<main, open_count>>
        /\ writer.at = "idle" /\ writer.file = 0 /\ Head(to_writer) \in Items
    BY <1>0, <1>10 DEF WriterTake, IInv, WriterInv
  <2>2. QueuedOpen' = QueuedOpen - n(Head(to_writer).item = "file")
    BY <1>0, <2>1, <1>c, Zenon
  <2>3. writer'.file # 0 <=> Head(to_writer).item = "file"
    <3>1. CASE /\ writer' = [writer EXCEPT !.at = "blocks", !.file = Head(to_writer).of]
               /\ Head(to_writer).item = "file"
      <4>1. Head(to_writer).of \in FileNos
        BY <2>1, <3>1, ItemShapes, Zenon
      <4>2. Head(to_writer).of # 0
        BY <4>1, Shapes DEF IInv
      <4> QED
        BY <1>0, <3>1, <4>2, Zenon DEF WriterType
    <3>2. CASE writer' = writer /\ Head(to_writer).item # "file"
      BY <2>1, <3>2, Zenon
    <3> QED
      BY <1>10, <3>1, <3>2, Zenon DEF WriterTake
  <2>4. OpenFiles' = OpenFiles
    BY <1>0, <2>1, <2>2, <2>3
  <2> QED
    BY <1>1, <2>1, <2>4, Zenon
<1>11. CASE WriterBlock
  <2>1. /\ to_writer # <<>> /\ to_writer' = Tail(to_writer) /\ UNCHANGED <<main, open_count>>
        /\ Head(to_writer).item = "block"
    BY <1>11, DueBlock, Zenon DEF WriterBlock
  <2>2. writer'.file = writer.file
    BY <1>0, <1>11, Zenon DEF WriterBlock, WriterNext, WriterType
  <2>3. QueuedOpen' = QueuedOpen
    BY <1>0, <2>1, <1>c
  <2> QED
    BY <1>0, <1>1, <2>1, <2>2, <2>3, Zenon
<1>12. CASE Skip \/ Put
  <2>1. UNCHANGED <<to_writer, open_count>> /\ writer'.file = writer.file
    BY <1>0, <1>12, NextTyped, Zenon DEF Skip, Put, mainVars
  <2>2. main'.at = "queue" <=> main.at = "queue"
    BY <1>0, <1>12, Zenon DEF Skip, Put, CacheBlockPut, mainVars, MainType
  <2> QED
    BY <1>2, <2>1, <2>2, Zenon
<1>13. CASE WriterClose
  <2>1. /\ UNCHANGED <<to_writer, main>> /\ open_count' = open_count + 1 /\ writer'.file = 0
        /\ writer.file # 0
    BY <1>13, Shapes DEF WriterClose, queueVars, IInv, WriterInv
  <2>2. OpenFiles' = OpenFiles - 1
    BY <1>0, <2>1, <1>c
  <2> QED
    BY <1>0, <2>1, <2>2 DEF Opened
<1> QED
  BY <1>3, <1>4, <1>5, <1>6, <1>7, <1>8, <1>9, <1>10, <1>11, <1>12, <1>13, Cases, Zenon

(* The end marker comes last. *)
LEMMA EndingStep == ASSUME IInv, [Next]_vars PROVE Ending'
<1>0. /\ Ending /\ to_writer \in Seq(Items) /\ main \in MainType /\ writer \in WriterType
      /\ from_writer \in 0..1 /\ Len(to_writer) \in Nat
  BY DEF IInv, Types
<1>1. ASSUME UNCHANGED <<to_writer, from_writer>>,
             main'.at = main.at \/ {main.at, main'.at} \cap {"end", "done"} = {},
             writer'.at = writer.at \/ writer.at # "idle"
      PROVE  Ending'
  <2>1. CASE main'.at = main.at
    BY <1>0, <1>1, <2>1, Zenon DEF Ending
  <2>2. CASE {main.at, main'.at} \cap {"end", "done"} = {}
    BY <1>0, <1>1, <2>2, Zenon DEF Ending
  <2> QED
    BY <1>1, <2>1, <2>2, Zenon
<1>2. CASE MakeName \/ OpenFails \/ Opens \/ QueueRead \/ WakeMain
  BY <1>0, <1>1, <1>2, Zenon DEF MakeName, OpenFails, Opens, QueueRead, WakeMain, queueVars, MainType
<1>3. CASE CacheGet
  <2>0. /\ UNCHANGED <<to_writer, from_writer>> /\ writer' = writer
        /\ main.at \notin {"end", "done"}
    BY <1>3, CacheGetCases, Zenon DEF queueVars, InLoop, LoopPlaces
  <2>1. CASE GetHole \/ GetSleep
    BY <1>0, <1>1, <2>0, <2>1, Zenon DEF GetHole, GetSleep, MainType
  <2>2. ASSUME NEW e \in Entries, GetHit(e) \/ GetNew(e) PROVE Ending'
    BY <1>0, <1>1, <2>0, <2>2, Zenon DEF GetHit, GetNew, CacheHit, Reserve, MainType
  <2> QED
    BY <1>3, <2>1, <2>2, CacheGetCases, Zenon
<1>4. CASE QueueFile \/ QueueBlock \/ QueueDir
  <2>1. PICK x \in Items : to_writer' = Append(to_writer, x)
    BY <1>0, <1>4, QueueCases DEF QueueFile, QueueBlock, QueueDir
  <2>2. /\ Len(to_writer') = Len(to_writer) + 1 /\ to_writer'[Len(to_writer) + 1] = x
        /\ \A j \in 1..Len(to_writer) : to_writer'[j] = to_writer[j]
    BY <1>0, <2>1
  <2>3. x.item # "null"
    BY <1>0, <1>4, <2>2 DEF QueueFile, QueueBlock, QueueDir
  <2>4. main.at \notin {"end", "done"} /\ main'.at \notin {"end", "done"} /\ UNCHANGED from_writer
    BY <1>0, <1>4 DEF QueueFile, QueueBlock, NextBlock, QueueDir, MainType
  <2>5. from_writer = 0
    BY <1>0, <2>4 DEF Ending
  <2>6. \A j \in 1..Len(to_writer') : to_writer'[j].item # "null"
    BY <1>0, <2>2, <2>3, <2>4 DEF Ending
  <2> QED
    BY <2>4, <2>5, <2>6 DEF Ending
<1>5. CASE EndScan
  <2>1. /\ to_writer' = Append(to_writer, [item |-> "null"]) /\ main.at = "scan" /\ main'.at = "end"
        /\ UNCHANGED from_writer
    BY <1>0, <1>5, Zenon DEF EndScan, MainType
  <2>2. /\ Len(to_writer') = Len(to_writer) + 1
        /\ to_writer'[Len(to_writer) + 1] = [item |-> "null"]
        /\ \A j \in 1..Len(to_writer) : to_writer'[j] = to_writer[j]
        /\ to_writer' # <<>>
    BY <1>0, <2>1
  <2>3. from_writer = 0 /\ \A j \in 1..Len(to_writer) : to_writer[j].item # "null"
    BY <1>0, <2>1 DEF Ending
  <2> QED
    BY <1>0, <2>1, <2>2, <2>3 DEF Ending
<1>6. CASE Synced
  <2>1. /\ from_writer = 1 /\ from_writer' = 0 /\ main'.at = "done" /\ writer' = writer
        /\ to_writer' = to_writer
    BY <1>0, <1>6, Zenon DEF Synced, MainType
  <2>2. to_writer = <<>> /\ writer.at = "idle"
    BY <1>0, <2>1, Zenon DEF Ending
  <2> QED
    BY <2>1, <2>2 DEF Ending
<1>7. CASE Quiet \/ WakeWriter \/ WriterSleep
  BY <1>0, <1>1, <1>7, Zenon DEF Quiet, WakeWriter, WriterSleep, mainVars, queueVars
<1>8. ASSUME NEW e \in Entries, Fill(e) PROVE Ending'
  BY <1>0, <1>1, <1>8, Zenon DEF Fill, CacheBlockReady, mainVars
<1>9. CASE Skip \/ WriterClose
  BY <1>0, <1>1, <1>9, Zenon DEF Skip, WriterClose, mainVars, queueVars
<1>10. CASE Put
  <2>1. UNCHANGED <<to_writer, from_writer>> /\ writer.at # "idle"
    BY <1>10, Zenon DEF Put
  <2>2. main'.at = main.at \/ {main.at, main'.at} \cap {"end", "done"} = {}
    BY <1>0, <1>10, Zenon DEF Put, CacheBlockPut, MainType
  <2> QED
    BY <1>1, <2>1, <2>2, Zenon
<1>11. CASE WriterTake \/ WriterBlock
  <2>1. /\ to_writer # <<>> /\ to_writer' = Tail(to_writer) /\ main' = main
        /\ Head(to_writer) = to_writer[1]
    BY <1>0, <1>11 DEF WriterTake, WriterBlock
  <2>2. /\ Len(to_writer) > 0 /\ Len(to_writer') = Len(to_writer) - 1
        /\ \A j \in 1..Len(to_writer') : to_writer'[j] = to_writer[j + 1]
        /\ to_writer' \in Seq(Items)
    BY <1>0, <2>1
  <2>3. from_writer = 0 /\ main.at # "done"
    BY <1>0, <2>1 DEF Ending
  <2>4. CASE to_writer[1].item = "null"
    <3>1. Len(to_writer) = 1 /\ main.at = "end"
      BY <1>0, <2>2, <2>4 DEF Ending
    <3>2. to_writer' = <<>>
      BY <2>2, <3>1
    <3>3. from_writer' = 1 /\ writer' = writer /\ writer.at = "idle"
      <4>1. ~WriterBlock
        BY <2>4, DueBlock, Zenon
      <4> QED
        BY <1>11, <2>1, <2>4, <4>1, Zenon DEF WriterTake
    <3> QED
      BY <2>1, <3>1, <3>2, <3>3 DEF Ending
  <2>5. CASE to_writer[1].item # "null"
    <3>1. from_writer' = 0
      BY <1>11, <2>1, <2>3, <2>5, Zenon DEF WriterTake, WriterBlock
    <3>2. ASSUME NEW j \in 1..Len(to_writer'), to_writer'[j].item = "null"
          PROVE  j = Len(to_writer') /\ main.at = "end"
      <4>1. j + 1 \in 1..Len(to_writer) /\ to_writer[j + 1].item = "null"
        BY <1>0, <2>2, <3>2
      <4>2. j + 1 = Len(to_writer) /\ main.at = "end"
        BY <1>0, <4>1, Zenon DEF Ending
      <4> QED
        BY <1>0, <2>2, <4>2
    <3>3. ASSUME main.at = "end"
          PROVE  to_writer' # <<>> /\ to_writer'[Len(to_writer')].item = "null"
      <4>1. to_writer[Len(to_writer)].item = "null"
        BY <1>0, <2>3, <3>3, Zenon DEF Ending
      <4>2. Len(to_writer) # 1
        BY <2>5, <4>1, Zenon
      <4>3. Len(to_writer') \in 1..Len(to_writer') /\ Len(to_writer') + 1 = Len(to_writer)
        BY <1>0, <2>2, <4>2
      <4> QED
        BY <2>2, <4>1, <4>3
    <3> QED
      BY <2>1, <2>3, <3>1, <3>2, <3>3 DEF Ending
  <2> QED
    BY <2>4, <2>5, Zenon
<1> QED
  BY <1>2, <1>3, <1>4, <1>5, <1>6, <1>7, <1>8, <1>9, <1>10, <1>11, Cases, Zenon

(* Files are queued in the order of the scan. *)
LEMMA FrontierStep ==
    ASSUME IInv, [Next]_vars
    PROVE  /\ Frontier \in Nat /\ Frontier' \in Nat /\ scan \in Nat /\ scan' \in Nat
           /\ scan <= scan' /\ Frontier <= Frontier'
           /\ Frontier' # Frontier => ~InLoop /\ Frontier = scan - 1 /\ Frontier' = scan
           /\ QueueFile => Frontier' = scan /\ Frontier = scan - 1
           /\ InLoop => scan \in FileNos
<1>0. main \in MainType /\ scan \in Nat /\ scan >= 1 /\ main.block \in Nat
  BY DEF IInv, Types, MainInv, MainType
<1>1. CASE UNCHANGED <<scan, main>>
  BY <1>0, <1>1 DEF Frontier, InLoop, QueueFile, LoopPlaces, IInv, MainInv, MainType
<1>l. InLoop => scan \in FileNos
  BY Zenon DEF IInv, MainInv
<1>2. CASE MakeName \/ OpenFails \/ QueueDir
  <2>1. main' = main /\ scan' = scan + 1 /\ main.at = "scan"
    BY <1>2, Zenon DEF MakeName, OpenFails, QueueDir
  <2> QED
    BY <1>0, <1>l, <2>1 DEF Frontier, InLoop, LoopPlaces, QueueFile
<1>3. CASE Opens \/ EndScan \/ Synced
  <2>1. ~InLoop /\ ~InLoop' /\ scan' = scan /\ main.at # "queue"
    BY <1>0, <1>3, Zenon DEF Opens, EndScan, Synced, InLoop, LoopPlaces, MainType
  <2> QED
    BY <1>0, <1>l, <2>1 DEF Frontier, QueueFile
<1>4. CASE QueueFile
  <2>1. main.at = "queue" /\ ~InLoop
    BY <1>4, Zenon DEF QueueFile, InLoop, LoopPlaces
  <2>2. \/ scan' = scan + 1 /\ ~InLoop'
        \/ scan' = scan /\ InLoop'
    BY <1>0, <1>4, Zenon DEF QueueFile, InLoop, LoopPlaces, MainType
  <2> QED
    BY <1>0, <1>l, <2>1, <2>2 DEF Frontier
<1>5. CASE QueueBlock
  <2>1. main.at = "put" /\ InLoop
    BY <1>5, Zenon DEF QueueBlock, InLoop, LoopPlaces
  <2>2. \/ scan' = scan + 1 /\ ~InLoop'
        \/ scan' = scan /\ InLoop'
    BY <1>0, <1>5 DEF QueueBlock, NextBlock, InLoop, LoopPlaces
  <2> QED
    BY <1>0, <1>l, <2>1, <2>2 DEF Frontier, QueueFile
<1>6. ASSUME InLoop, InLoop', scan' = scan PROVE Frontier' = Frontier /\ ~QueueFile /\ Frontier \in Nat
  BY <1>0, <1>6, Zenon DEF Frontier, QueueFile, InLoop, LoopPlaces
<1>7. CASE CacheGet
  <2>0. InLoop /\ scan' = scan
    BY <1>7, CacheGetCases, Zenon
  <2>1. InLoop'
    <3>1. CASE GetHole \/ GetSleep
      BY <1>0, <3>1, Zenon DEF GetHole, GetSleep, InLoop, LoopPlaces, MainType
    <3>2. ASSUME NEW e \in Entries, GetHit(e) \/ GetNew(e) PROVE InLoop'
      BY <1>0, <3>2, Zenon DEF GetHit, GetNew, CacheHit, Reserve, InLoop, LoopPlaces, MainType
    <3> QED
      BY <1>7, <3>1, <3>2, CacheGetCases, Zenon
  <2> QED
    BY <1>0, <1>l, <1>6, <2>0, <2>1, NatOrder, Zenon
<1>8. CASE QueueRead \/ WakeMain
  <2>1. InLoop /\ InLoop' /\ scan' = scan
    BY <1>0, <1>8, Zenon DEF QueueRead, WakeMain, InLoop, LoopPlaces, MainType
  <2> QED
    BY <1>0, <1>l, <1>6, <2>1, NatOrder, Zenon
<1>9. CASE Quiet \/ WriterTake \/ WriterBlock \/ WriterSleep \/ Skip \/ WriterClose \/ WakeWriter
  BY <1>1, <1>9, Zenon DEF Quiet, WriterTake, WriterBlock, WriterSleep, Skip, WriterClose, WakeWriter,
                    mainVars
<1>10. CASE \E e \in Entries : Fill(e)
  BY <1>1, <1>10, Zenon DEF Fill, mainVars
<1>11. CASE Put
  <2>1. CASE main' = main
    BY <1>1, <1>11, <2>1, Zenon DEF Put
  <2>2. CASE main.at = "sleep" /\ main' = [main EXCEPT !.at = "woken"]
    <3>1. InLoop /\ InLoop' /\ scan' = scan
      BY <1>0, <1>11, <2>2, Zenon DEF Put, InLoop, LoopPlaces, MainType
    <3> QED
      BY <1>0, <1>l, <1>6, <3>1, NatOrder, Zenon
  <2> QED
    BY <1>11, <2>1, <2>2, Zenon DEF Put, CacheBlockPut
<1> QED
  BY <1>2, <1>3, <1>4, <1>5, <1>7, <1>8, <1>9, <1>10, <1>11, Cases, Zenon

(* The file the writer is at. *)
LEMMA WriterFile ==
    ASSUME IInv, [Next]_vars
    PROVE  /\ writer.file \in Nat /\ writer'.file \in Nat
           /\ \/ writer'.file = writer.file
              \/ /\ WriterTake /\ writer.file = 0 /\ to_writer # <<>>
                 /\ to_writer[1].item = "file" /\ writer'.file = to_writer[1].of
              \/ WriterClose /\ writer'.file = 0
<1>0. writer \in WriterType /\ writer' \in WriterType /\ FileNos \subseteq Nat
  BY WriterTyped, Shapes DEF IInv, Types
<1>1. writer.file \in Nat /\ writer'.file \in Nat
  <2>1. writer.file \in FileNos \cup {0} /\ writer'.file \in FileNos \cup {0}
    BY <1>0, Zenon DEF WriterType
  <2>2. \A i \in FileNos \cup {0} : i \in Nat
    BY Shapes DEF IInv
  <2> QED
    BY <2>1, <2>2, Zenon
<1>2. CASE MakeName \/ OpenFails \/ Opens \/ QueueFile \/ CacheGet \/ QueueRead
  BY <1>1, <1>2, Zenon DEF MakeName, OpenFails, Opens, QueueFile, CacheGet, QueueRead
<1>3. CASE QueueBlock \/ QueueDir \/ EndScan \/ Synced \/ Quiet \/ WakeMain
  BY <1>1, <1>3, Zenon DEF QueueBlock, QueueDir, EndScan, Synced, Quiet, WakeMain
<1>4. ASSUME NEW e \in Entries, Fill(e) PROVE writer'.file = writer.file
  BY <1>0, <1>4, Zenon DEF Fill, CacheBlockReady, WriterType
<1>5. CASE WriterSleep \/ WakeWriter \/ WriterBlock
  BY <1>0, <1>1, <1>5, Zenon DEF WriterSleep, WakeWriter, WriterBlock, WriterNext, WriterType
<1>6. CASE Skip \/ Put
  BY <1>0, <1>1, <1>6, NextTyped, Zenon DEF Skip, Put
<1>7. CASE WriterClose
  BY <1>1, <1>7, Zenon DEF WriterClose
<1>8. CASE WriterTake
  <2>1. writer.file = 0 /\ to_writer # <<>> /\ Head(to_writer) = to_writer[1]
    BY <1>8 DEF WriterTake, IInv, WriterInv, Types
  <2> QED
    BY <1>0, <1>1, <1>8, <2>1, Zenon DEF WriterTake, WriterType
<1> QED
  BY <1>1, <1>2, <1>3, <1>4, <1>5, <1>6, <1>7, <1>8, Cases, Zenon

(* Every step keeps the files in the order the writer meets them. *)
LEMMA OrderedStep == ASSUME IInv, [Next]_vars PROVE Ordered'
<1> DEFINE A == writer.file <= Frontier
           L(x) == x.item = "file" => writer.file < x.of /\ x.of <= Frontier
           I == \A j \in 1..Len(to_writer) : L(to_writer[j])
           D == \A j, k \in 1..Len(to_writer) :
                   j < k /\ to_writer[j].item = "file" /\ to_writer[k].item = "file" =>
                      to_writer[j].of < to_writer[k].of
           P == \A i \in present : i < scan \/ (i = scan /\ (InLoop \/ main.at = "queue"))
<1>0. /\ A /\ I /\ D /\ P /\ to_writer \in Seq(Items) /\ main \in MainType /\ writer \in WriterType
      /\ Len(to_writer) \in Nat /\ present \subseteq Nat
      /\ \A j \in 1..Len(to_writer) : to_writer[j] \in Items
      /\ \A j \in 1..Len(to_writer) : to_writer[j].item = "file" => to_writer[j].of \in Nat
  <2>1. to_writer \in Seq(Items) /\ FileNos \subseteq Nat
    BY FilesNumbered, Zenon DEF IInv, Types
  <2>2. Len(to_writer) \in Nat /\ \A j \in 1..Len(to_writer) : to_writer[j] \in Items
    BY <2>1, SeqShape, Zenon
  <2>4. \A j \in 1..Len(to_writer) : to_writer[j].item = "file" => to_writer[j].of \in Nat
    <3>1. \A x \in Items : x.item = "file" => x.of \in Nat
      BY <2>1, ItemShapes, Zenon
    <3> QED
      BY <2>2, <3>1, Zenon
  <2>3. present \subseteq Nat
    BY FilesNumbered, Zenon DEF IInv, Types
  <2> QED
    BY <2>1, <2>2, <2>3, <2>4, Zenon DEF IInv, Types, Ordered
<1>f. /\ Frontier \in Nat /\ Frontier' \in Nat /\ Frontier <= Frontier' /\ scan \in Nat
      /\ scan' \in Nat /\ scan <= scan' /\ writer.file \in Nat /\ writer'.file \in Nat
  BY FrontierStep, WriterFile, Zenon
<1>w. \/ writer'.file = writer.file \/ writer'.file = 0
      \/ WriterTake /\ to_writer # <<>> /\ to_writer[1].item = "file"
         /\ writer'.file = to_writer[1].of
  BY WriterFile, Zenon
<1>1. A'
  <2>1. CASE writer'.file = writer.file \/ writer'.file = 0
    BY <1>0, <1>f, <2>1
  <2>2. CASE to_writer # <<>> /\ to_writer[1].item = "file" /\ writer'.file = to_writer[1].of
    <3>1. 1 \in 1..Len(to_writer)
      BY <1>0, <2>2
    <3>2. writer'.file <= Frontier
      BY <1>0, <2>2, <3>1, Zenon
    <3> QED
      BY <1>f, <3>2
  <2> QED
    BY <1>w, <2>1, <2>2, Zenon
<1>2. I' /\ D'
  <2>1. CASE to_writer' = to_writer
    <3>1. writer'.file = writer.file \/ writer'.file = 0
      <4>1. ~WriterTake
        <5>1. ASSUME WriterTake PROVE FALSE
          <6>1. to_writer # <<>> /\ to_writer' = Tail(to_writer)
            BY <5>1, Zenon DEF WriterTake
          <6>2. Len(Tail(to_writer)) # Len(to_writer)
            BY <1>0, <6>1
          <6> QED
            BY <2>1, <6>1, <6>2, Zenon
        <5> QED
          BY <5>1, Zenon
      <4> QED
        BY <1>w, <4>1, Zenon
    <3>2. D'
      BY <1>0, <2>1, Zenon
    <3>3. ASSUME NEW j \in 1..Len(to_writer'), to_writer'[j].item = "file"
          PROVE  writer'.file < to_writer'[j].of /\ to_writer'[j].of <= Frontier'
      <4>1. /\ writer.file < to_writer[j].of /\ to_writer[j].of <= Frontier
            /\ to_writer[j].of \in Nat
        BY <1>0, <2>1, <3>3, Zenon
      <4> QED
        BY <1>f, <2>1, <3>1, <4>1
    <3> QED
      BY <3>2, <3>3, Zenon
  <2>2. CASE QueueFile \/ QueueBlock \/ QueueDir \/ EndScan
    <3>1. PICK x \in Items : to_writer' = Append(to_writer, x)
      BY <1>0, <2>2, QueueCases DEF QueueFile, QueueBlock, QueueDir, EndScan
    <3>2. /\ Len(to_writer') = Len(to_writer) + 1 /\ to_writer'[Len(to_writer) + 1] = x
          /\ \A j \in 1..Len(to_writer) : to_writer'[j] = to_writer[j]
      BY <1>0, <3>1
    <3>3. writer' = writer
      BY <2>2, Zenon DEF QueueFile, QueueBlock, QueueDir, EndScan
    <3>4. x.item = "file" => x.of = scan /\ Frontier' = scan /\ Frontier = scan - 1
      <4>1. CASE QueueFile
        BY <1>0, <3>2, <4>1, FrontierStep DEF QueueFile
      <4>2. CASE QueueBlock \/ QueueDir \/ EndScan
        BY <1>0, <3>2, <4>2 DEF QueueBlock, QueueDir, EndScan
      <4> QED
        BY <2>2, <4>1, <4>2, Zenon
    <3>5. ASSUME NEW j \in 1..Len(to_writer), to_writer[j].item = "file"
          PROVE  /\ writer.file < to_writer[j].of /\ to_writer[j].of <= Frontier'
                 /\ to_writer[j].of <= Frontier /\ to_writer[j].of \in Nat
      <4>1. /\ writer.file < to_writer[j].of /\ to_writer[j].of <= Frontier
            /\ to_writer[j].of \in Nat
        BY <1>0, <3>5, Zenon
      <4> QED
        BY <1>f, <4>1
    <3>6. x.item = "file" => writer.file < x.of /\ x.of <= Frontier'
      BY <1>0, <1>f, <3>4
    <3>7. I'
      <4>1. ASSUME NEW j \in 1..Len(to_writer'), to_writer'[j].item = "file"
            PROVE  writer'.file < to_writer'[j].of /\ to_writer'[j].of <= Frontier'
        <5>1. CASE j \in 1..Len(to_writer)
          BY <3>2, <3>3, <3>5, <4>1, <5>1, Zenon
        <5>2. CASE j = Len(to_writer) + 1
          BY <3>2, <3>3, <3>6, <4>1, <5>2, Zenon
        <5> QED
          BY <1>0, <3>2, <5>1, <5>2
      <4> QED
        BY <4>1, Zenon
    <3>8. D'
      <4>1. ASSUME NEW j \in 1..Len(to_writer'), NEW k \in 1..Len(to_writer'), j < k,
                   to_writer'[j].item = "file", to_writer'[k].item = "file"
            PROVE  to_writer'[j].of < to_writer'[k].of
        <5>0. j \in 1..Len(to_writer) /\ to_writer'[j] = to_writer[j]
          BY <1>0, <3>2, <4>1
        <5>1. CASE k \in 1..Len(to_writer)
          BY <1>0, <3>2, <4>1, <5>0, <5>1, Zenon
        <5>2. CASE k = Len(to_writer) + 1
          <6>1. to_writer'[k] = x /\ x.of = scan /\ Frontier = scan - 1
            BY <3>2, <3>4, <4>1, <5>2, Zenon
          <6>2. to_writer[j].of <= Frontier /\ to_writer[j].of \in Nat
            BY <3>5, <4>1, <5>0, Zenon
          <6> QED
            BY <1>f, <5>0, <6>1, <6>2
        <5> QED
          BY <1>0, <3>2, <5>1, <5>2
      <4> QED
        BY <4>1, Zenon
    <3> QED
      BY <3>7, <3>8, Zenon
  <2>3. CASE WriterTake \/ WriterBlock
    <3>1. to_writer # <<>> /\ to_writer' = Tail(to_writer)
      BY <2>3, Zenon DEF WriterTake, WriterBlock
    <3>2. /\ Len(to_writer) > 0 /\ Len(to_writer') = Len(to_writer) - 1
          /\ \A j \in 1..Len(to_writer') : to_writer'[j] = to_writer[j + 1]
          /\ \A j \in 1..Len(to_writer') : j + 1 \in 1..Len(to_writer)
          /\ 1 \in 1..Len(to_writer)
      BY <1>0, <3>1
    <3>3. ASSUME NEW j \in 1..Len(to_writer'), to_writer'[j].item = "file"
          PROVE  writer'.file < to_writer'[j].of /\ to_writer'[j].of <= Frontier'
      <4>1. /\ writer.file < to_writer[j + 1].of /\ to_writer[j + 1].of <= Frontier
            /\ to_writer[j + 1].of \in Nat /\ to_writer'[j] = to_writer[j + 1]
        BY <1>0, <3>2, <3>3, Zenon
      <4>2. CASE writer'.file = writer.file \/ writer'.file = 0
        BY <1>f, <4>1, <4>2
      <4>3. CASE to_writer[1].item = "file" /\ writer'.file = to_writer[1].of
        <5>1. to_writer[1].of < to_writer[j + 1].of
          BY <1>0, <3>2, <3>3, <4>1, <4>3
        <5> QED
          BY <1>f, <4>1, <4>3, <5>1
      <4> QED
        BY <1>w, <4>2, <4>3, Zenon
    <3>4. ASSUME NEW j \in 1..Len(to_writer'), NEW k \in 1..Len(to_writer'), j < k,
                 to_writer'[j].item = "file", to_writer'[k].item = "file"
          PROVE  to_writer'[j].of < to_writer'[k].of
      <4>1. /\ to_writer'[j] = to_writer[j + 1] /\ to_writer'[k] = to_writer[k + 1]
            /\ j + 1 \in 1..Len(to_writer) /\ k + 1 \in 1..Len(to_writer) /\ j + 1 < k + 1
        BY <3>2, <3>4
      <4> QED
        BY <1>0, <3>4, <4>1, Zenon
    <3> QED
      BY <3>3, <3>4, Zenon
  <2> QED
    BY <2>1, <2>2, <2>3, QueueCases, Zenon
<1>3. P'
  <2>1. ASSUME present' \subseteq present, scan' > scan PROVE P'
    BY <1>0, <1>f, <2>1
  <2>2. ASSUME present' \subseteq present, scan' = scan,
               InLoop \/ main.at = "queue" => InLoop' \/ main'.at = "queue"
        PROVE  P'
    BY <1>0, <1>f, <2>2, Zenon
  <2>3. CASE MakeName
    <3>1. present' \subseteq present \cup {scan} /\ scan' = scan + 1
      BY <2>3, Zenon DEF MakeName
    <3> QED
      BY <1>0, <1>f, <3>1
  <2>4. CASE Opens
    <3>1. present' = present \cup {scan} /\ scan' = scan /\ main'.at = "queue" /\ main.at = "scan"
      BY <1>0, <2>4, Zenon DEF Opens, MainType
    <3> QED
      BY <1>0, <1>f, <3>1, Zenon DEF InLoop, LoopPlaces
  <2>5. CASE OpenFails \/ QueueDir
    BY <1>f, <2>1, <2>5 DEF OpenFails, QueueDir, fsVars
  <2>6. CASE QueueFile
    <3>1. present' = present /\ (scan' = scan + 1 \/ (scan' = scan /\ main'.at = "block"))
      BY <1>0, <2>6, Zenon DEF QueueFile, fsVars, MainType
    <3> QED
      BY <1>f, <2>1, <2>2, <3>1, NatOrder, Zenon DEF InLoop, LoopPlaces
  <2>7. CASE QueueBlock
    <3>1. present' = present /\ (scan' = scan + 1 \/ (scan' = scan /\ main'.at = "block"))
      BY <1>0, <2>7 DEF QueueBlock, NextBlock, fsVars
    <3> QED
      BY <1>f, <2>1, <2>2, <3>1, NatOrder, Zenon DEF InLoop, LoopPlaces
  <2>8. CASE EndScan \/ Synced
    BY <2>2, <2>8, Zenon DEF EndScan, Synced, fsVars, InLoop, LoopPlaces
  <2>9. CASE CacheGet
    <3>0. present' = present /\ scan' = scan
      BY <2>9, Zenon DEF CacheGet, fsVars
    <3>1. InLoop'
      <4>1. CASE GetHole \/ GetSleep
        BY <1>0, <4>1, Zenon DEF GetHole, GetSleep, InLoop, LoopPlaces, MainType
      <4>2. ASSUME NEW e \in Entries, GetHit(e) \/ GetNew(e) PROVE InLoop'
        BY <1>0, <4>2, Zenon DEF GetHit, GetNew, CacheHit, Reserve, InLoop, LoopPlaces, MainType
      <4> QED
        BY <2>9, <4>1, <4>2, CacheGetCases, Zenon
    <3> QED
      BY <2>2, <3>0, <3>1, Zenon
  <2>10. CASE QueueRead \/ WakeMain
    <3>1. present' = present /\ scan' = scan /\ InLoop'
      BY <1>0, <2>10, Zenon DEF QueueRead, WakeMain, fsVars, InLoop, LoopPlaces, MainType
    <3> QED
      BY <2>2, <3>1, Zenon
  <2>11. CASE Quiet \/ WriterTake \/ WriterBlock \/ WriterSleep \/ Skip \/ WriterClose \/ WakeWriter
    <3>1. present' \subseteq present /\ scan' = scan /\ main' = main
      BY <2>11, Zenon DEF Quiet, WriterTake, WriterBlock, WriterSleep, Skip, WriterClose, WakeWriter,
                   mainVars, fsVars
    <3> QED
      BY <2>2, <3>1, Zenon DEF InLoop
  <2>12. ASSUME NEW e \in Entries, Fill(e) PROVE P'
    <3>1. present' = present /\ scan' = scan /\ main' = main
      BY <2>12, Zenon DEF Fill, mainVars, fsVars
    <3> QED
      BY <2>2, <3>1, Zenon DEF InLoop
  <2>13. CASE Put
    <3>1. present' = present /\ scan' = scan
      BY <2>13, Zenon DEF Put
    <3>2. InLoop \/ main.at = "queue" => InLoop' \/ main'.at = "queue"
      BY <1>0, <2>13, Zenon DEF Put, CacheBlockPut, InLoop, LoopPlaces, MainType
    <3> QED
      BY <2>2, <3>1, <3>2, Zenon
  <2> QED
    BY <2>3, <2>4, <2>5, <2>6, <2>7, <2>8, <2>9, <2>10, <2>11, <2>12, <2>13, Cases, Zenon
<1> QED
  BY <1>1, <1>2, <1>3, Zenon DEF Ordered

(* Two lists with the same elements. *)
LEMMA SameList ==
    ASSUME NEW S, NEW T, NEW s \in Seq(S), NEW t \in Seq(T), Len(s) = Len(t),
           \A k \in 1..Len(s) : s[k] = t[k]
    PROVE  s = t
<1>1. /\ DOMAIN s = 1..Len(s) /\ DOMAIN t = 1..Len(t)
      /\ s = [k \in DOMAIN s |-> s[k]] /\ t = [k \in DOMAIN t |-> t[k]]
  OBVIOUS
<1> QED
  BY <1>1, Zenon

(* The files in the queue. *)
LEMMA QueuedFilesChange ==
    ASSUME IInv, [Next]_vars
    PROVE  /\ to_writer' = to_writer => QueuedFiles' = QueuedFiles
           /\ QueueFile => QueuedFiles' = QueuedFiles \cup {scan} /\ scan \in FileNos
           /\ QueueBlock \/ QueueDir \/ EndScan => QueuedFiles' = QueuedFiles
           /\ WriterTake /\ to_writer[1].item = "file" =>
                 /\ to_writer[1].of \in QueuedFiles
                 /\ QueuedFiles' = QueuedFiles \ {to_writer[1].of}
           /\ WriterTake /\ to_writer[1].item # "file" => QueuedFiles' = QueuedFiles
           /\ WriterBlock => QueuedFiles' = QueuedFiles
<1>0. /\ to_writer \in Seq(Items) /\ Len(to_writer) \in Nat
      /\ \A j \in 1..Len(to_writer) : to_writer[j] \in Items
  BY DEF IInv, Types
<1>1. to_writer' = to_writer => QueuedFiles' = QueuedFiles
  BY Zenon DEF QueuedFiles
<1>2. ASSUME NEW x \in Items, to_writer' = Append(to_writer, x)
      PROVE  /\ x.item = "file" => QueuedFiles' = QueuedFiles \cup {x.of}
             /\ x.item # "file" => QueuedFiles' = QueuedFiles
  <2>1. /\ Len(to_writer') = Len(to_writer) + 1 /\ to_writer'[Len(to_writer) + 1] = x
        /\ \A j \in 1..Len(to_writer) : to_writer'[j] = to_writer[j]
        /\ x.item = "file" => x.of \in FileNos
    BY <1>0, <1>2, ItemShapes
  <2>2. ASSUME NEW i \in QueuedFiles' PROVE i \in QueuedFiles \/ (x.item = "file" /\ i = x.of)
    <3>1. PICK j \in 1..Len(to_writer') : to_writer'[j].item = "file" /\ to_writer'[j].of = i
      BY Zenon DEF QueuedFiles
    <3>2. i \in FileNos
      BY Zenon DEF QueuedFiles
    <3>3. CASE j \in 1..Len(to_writer)
      BY <2>1, <3>1, <3>2, <3>3, Zenon DEF QueuedFiles
    <3>4. CASE j = Len(to_writer) + 1
      BY <2>1, <3>1, <3>4, Zenon
    <3> QED
      BY <1>0, <2>1, <3>3, <3>4
  <2>3. ASSUME NEW i \in QueuedFiles PROVE i \in QueuedFiles'
    <3>1. PICK j \in 1..Len(to_writer) : to_writer[j].item = "file" /\ to_writer[j].of = i
      BY Zenon DEF QueuedFiles
    <3>2. j \in 1..Len(to_writer') /\ to_writer'[j] = to_writer[j] /\ i \in FileNos
      BY <1>0, <2>1 DEF QueuedFiles
    <3> QED
      BY <3>1, <3>2, Zenon DEF QueuedFiles
  <2>4. x.item = "file" => x.of \in QueuedFiles'
    <3>1. Len(to_writer) + 1 \in 1..Len(to_writer')
      BY <1>0, <2>1
    <3> QED
      BY <2>1, <3>1, Zenon DEF QueuedFiles
  <2> QED
    BY <2>2, <2>3, <2>4, Zenon
<1>3. ASSUME QueueFile PROVE QueuedFiles' = QueuedFiles \cup {scan} /\ scan \in FileNos
  <2>1. scan \in FileNos
    BY <1>3, Zenon DEF QueueFile, IInv, MainInv
  <2>2. [item |-> "file", of |-> scan] \in Items
    BY <2>1, Zenon DEF Items, FileItems
  <2> QED
    BY <1>2, <1>3, <2>1, <2>2, Zenon DEF QueueFile
<1>4. ASSUME QueueBlock \/ QueueDir \/ EndScan PROVE QueuedFiles' = QueuedFiles
  <2>1. PICK x \in Items : to_writer' = Append(to_writer, x)
    BY <1>0, <1>4, QueueCases DEF QueueBlock, QueueDir, EndScan
  <2>2. to_writer'[Len(to_writer) + 1] = x
    BY <1>0, <2>1
  <2>3. x.item # "file"
    BY <1>0, <1>4, <2>2 DEF QueueBlock, QueueDir, EndScan
  <2> QED
    BY <1>2, <2>1, <2>3, Zenon
<1>5. ASSUME to_writer # <<>>, to_writer' = Tail(to_writer)
      PROVE  /\ to_writer[1].item # "file" => QueuedFiles' = QueuedFiles
             /\ to_writer[1].item = "file" =>
                  /\ to_writer[1].of \in QueuedFiles
                  /\ QueuedFiles' = QueuedFiles \ {to_writer[1].of}
  <2>1. /\ Len(to_writer) > 0 /\ Len(to_writer') = Len(to_writer) - 1
        /\ \A j \in 1..Len(to_writer') : to_writer'[j] = to_writer[j + 1]
        /\ \A j \in 1..Len(to_writer') : j + 1 \in 1..Len(to_writer)
        /\ 1 \in 1..Len(to_writer)
    BY <1>0, <1>5
  <2>2. ASSUME NEW i \in QueuedFiles'
        PROVE  i \in QueuedFiles /\ (to_writer[1].item = "file" => i # to_writer[1].of)
    <3>1. PICK j \in 1..Len(to_writer') : to_writer'[j].item = "file" /\ to_writer'[j].of = i
      BY Zenon DEF QueuedFiles
    <3>2. i \in FileNos /\ j + 1 \in 1..Len(to_writer) /\ 1 < j + 1
          /\ to_writer[j + 1].item = "file" /\ to_writer[j + 1].of = i
      BY <2>1, <3>1 DEF QueuedFiles
    <3>3. i \in QueuedFiles
      BY <3>2, Zenon DEF QueuedFiles
    <3>4. ASSUME to_writer[1].item = "file" PROVE i # to_writer[1].of
      <4>1. to_writer[1].of < i /\ to_writer[1].of \in Nat
        BY <1>0, <2>1, <3>2, <3>4, ItemShapes, Shapes DEF IInv, Ordered
      <4> QED
        BY <4>1
    <3> QED
      BY <3>3, <3>4, Zenon
  <2>3. ASSUME NEW i \in QueuedFiles, ~(to_writer[1].item = "file" /\ i = to_writer[1].of)
        PROVE  i \in QueuedFiles'
    <3>1. PICK j \in 1..Len(to_writer) : to_writer[j].item = "file" /\ to_writer[j].of = i
      BY Zenon DEF QueuedFiles
    <3>2. j # 1 /\ i \in FileNos
      BY <2>3, <3>1, Zenon DEF QueuedFiles
    <3>3. j - 1 \in 1..Len(to_writer') /\ to_writer'[j - 1] = to_writer[j]
      BY <1>0, <2>1, <3>2
    <3> QED
      BY <3>1, <3>2, <3>3, Zenon DEF QueuedFiles
  <2>4. to_writer[1].item = "file" => to_writer[1].of \in QueuedFiles
    BY <1>0, <2>1, ItemShapes, Zenon DEF QueuedFiles
  <2> QED
    BY <2>2, <2>3, <2>4, Zenon
<1>6. ASSUME WriterTake \/ WriterBlock PROVE to_writer # <<>> /\ to_writer' = Tail(to_writer)
  BY <1>6, Zenon DEF WriterTake, WriterBlock
<1>7. ASSUME WriterBlock PROVE to_writer[1].item # "file"
  BY <1>7, DueBlock, Zenon
<1> QED
  BY <1>1, <1>3, <1>4, <1>5, <1>6, <1>7, Zenon

(* What is written of a file is what comes first of its blocks. *)
NotBegun(i) == i \in QueuedFiles \/ i > Frontier => output[i] = <<>>
Begun(i) ==
    i = writer.file /\ ~writer.failed =>
       /\ Len(output[i]) = writer.block - 1
       /\ \A k \in 1..(writer.block - 1) : output[i][k] = List[i].blocks[k]
Over(i) ==
    i \in present /\ i <= Frontier /\ i # writer.file /\ i \notin QueuedFiles =>
       output[i] = List[i].blocks

(* Writing one more block leaves the file a longer prefix of itself. *)
LEMMA OneMoreBlock ==
    ASSUME IInv, writer.file \in FileNos, writer.block \in 1..Len(WFile), ~writer.failed,
           output' = [output EXCEPT ![writer.file] = Append(@, WFile[writer.block])],
           writer'.file = writer.file, writer'.block = writer.block + 1
    PROVE  Begun(writer.file)'
<1> DEFINE i == writer.file
<1>1. /\ output \in [DOMAIN List -> Seq(AllBlocks \cup {None})] /\ i \in DOMAIN List
      /\ Len(output[i]) = writer.block - 1 /\ writer.block \in Nat
      /\ \A k \in 1..(writer.block - 1) : output[i][k] = List[i].blocks[k]
      /\ WFile[writer.block] \in AllBlocks
  <2>1. WFile \in Seq(AllBlocks)
    BY Shapes, Zenon DEF IInv, WFile
  <2>2. /\ output \in [DOMAIN List -> Seq(AllBlocks \cup {None})] /\ i \in DOMAIN List
        /\ writer.block \in Nat
    BY Zenon DEF IInv, Types, WriterType, FileNos
  <2>3. /\ Len(output[i]) = writer.block - 1
        /\ \A k \in 1..(writer.block - 1) : output[i][k] = List[i].blocks[k]
    BY Zenon DEF IInv, Outputs
  <2>4. WFile[writer.block] \in AllBlocks
    BY <2>1
  <2> QED
    BY <2>2, <2>3, <2>4, Zenon
<1>2. output'[i] = Append(output[i], WFile[writer.block]) /\ output[i] \in Seq(AllBlocks \cup {None})
  BY <1>1, Zenon
<1>3. /\ Len(output'[i]) = writer.block
      /\ output'[i][writer.block] = List[i].blocks[writer.block]
      /\ \A k \in 1..(writer.block - 1) : output'[i][k] = output[i][k]
  <2> DEFINE s == output[i]
             x == WFile[writer.block]
  <2>1. /\ s \in Seq(AllBlocks \cup {None}) /\ x \in AllBlocks \cup {None}
        /\ Len(s) = writer.block - 1 /\ writer.block \in Nat /\ output'[i] = Append(s, x)
    BY <1>1, <1>2, Zenon
  <2>2. x = List[i].blocks[writer.block]
    BY Zenon DEF WFile
  <2> HIDE DEF s, x
  <2>3. /\ Len(Append(s, x)) = writer.block /\ Append(s, x)[writer.block] = x
        /\ \A k \in 1..(writer.block - 1) : Append(s, x)[k] = s[k]
    BY <2>1
  <2> QED
    BY <2>1, <2>2, <2>3, Zenon DEF s
<1>4. \A k \in 1..writer.block : output'[i][k] = List[i].blocks[k]
  BY <1>1, <1>3
<1> QED
  <2>1. writer'.file = i /\ writer'.block - 1 = writer.block
    BY <1>1
  <2> QED
    BY <1>3, <1>4, <2>1, Zenon DEF Begun

(* Every step keeps the outputs what the writer has written so far. *)
LEMMA OutputsStep == ASSUME IInv, [Next]_vars PROVE Outputs'
<1>0. /\ \A i \in FileNos : NotBegun(i) /\ Begun(i) /\ Over(i)
      /\ output \in [DOMAIN List -> Seq(AllBlocks \cup {None})] /\ writer \in WriterType
      /\ to_writer \in Seq(Items) /\ FileNos \subseteq DOMAIN List /\ FileNos \subseteq Nat
      /\ Frontier \in Nat /\ Frontier' \in Nat /\ Frontier <= Frontier' /\ scan \in Nat
      /\ 0 \notin FileNos
  <2>1. \A i \in FileNos : NotBegun(i) /\ Begun(i) /\ Over(i)
    BY Zenon DEF IInv, Outputs, NotBegun, Begun, Over
  <2>2. /\ output \in [DOMAIN List -> Seq(AllBlocks \cup {None})] /\ writer \in WriterType
        /\ to_writer \in Seq(Items) /\ FileNos \subseteq DOMAIN List
    BY Zenon DEF IInv, Types, FileNos
  <2>3. FileNos \subseteq 1..Len(List) /\ Len(List) \in Nat
    BY Shapes, Zenon DEF IInv
  <2>4. FileNos \subseteq Nat /\ 0 \notin FileNos
    BY <2>3
  <2>5. Frontier \in Nat /\ Frontier' \in Nat /\ Frontier <= Frontier' /\ scan \in Nat
    BY FrontierStep, Zenon
  <2> QED
    BY <2>1, <2>2, <2>4, <2>5, Zenon
<1>g. SUFFICES \A i \in FileNos : NotBegun(i)' /\ Begun(i)' /\ Over(i)'
  BY Zenon DEF Outputs, NotBegun, Begun, Over
<1>f. /\ Frontier' # Frontier => Frontier = scan - 1 /\ Frontier' = scan
      /\ \A i \in FileNos : i > Frontier' => i > Frontier
      /\ \A i \in FileNos : i <= Frontier' => i <= Frontier \/ (Frontier' # Frontier /\ i = scan)
  BY <1>0, FrontierStep
<1>1. ASSUME output' = output, writer'.file = writer.file, QueuedFiles' = QueuedFiles,
             writer'.block = writer.block, writer'.failed = writer.failed,
             \A i \in FileNos : i \in present' /\ i <= Frontier' => i \in present /\ i <= Frontier
      PROVE  \A i \in FileNos : NotBegun(i)' /\ Begun(i)' /\ Over(i)'
  <2> TAKE i \in FileNos
  <2>1. NotBegun(i)'
    BY <1>0, <1>1, <1>f, Zenon DEF NotBegun
  <2>2. Begun(i)'
    BY <1>0, <1>1, Zenon DEF Begun
  <2>3. Over(i)'
    BY <1>0, <1>1, Zenon DEF Over
  <2> QED
    BY <2>1, <2>2, <2>3, Zenon
<1>2. ASSUME UNCHANGED <<output, present, to_writer, writer>>, Frontier' = Frontier
      PROVE  \A i \in FileNos : NotBegun(i)' /\ Begun(i)' /\ Over(i)'
  BY <1>0, <1>1, <1>2, QueuedFilesChange, Zenon
<1>3. CASE MakeName \/ OpenFails \/ QueueDir
  <2>1. UNCHANGED <<output, writer>> /\ QueuedFiles' = QueuedFiles
        /\ present' \subseteq present \cup {scan} /\ main.at = "scan"
    BY <1>3, QueuedFilesChange, Zenon DEF MakeName, OpenFails, QueueDir, queueVars, fsVars
  <2>2. scan \in FileNos => scan \notin present'
    <3>1. scan \notin present
      BY <1>0, <2>1 DEF IInv, Ordered, InLoop, LoopPlaces
    <3>2. CASE OpenFails \/ QueueDir
      BY <3>1, <3>2, Zenon DEF OpenFails, QueueDir, fsVars
    <3>3. CASE MakeName
      BY <3>3, Zenon DEF MakeName, Step, FileNos
    <3> QED
      BY <1>3, <3>2, <3>3, Zenon
  <2>3. \A i \in FileNos : i \in present' /\ i <= Frontier' => i \in present /\ i <= Frontier
    BY <1>0, <1>f, <2>1, <2>2, Zenon
  <2> QED
    BY <1>1, <2>1, <2>3, Zenon
<1>4. CASE Opens
  <2>1. UNCHANGED <<output, writer, to_writer>> /\ present' = present \cup {scan}
        /\ main.at = "scan" /\ main'.at = "queue" /\ scan' = scan
    BY <1>4, Zenon DEF Opens, IInv, Types, MainType
  <2>2. Frontier = scan - 1 /\ Frontier' = scan - 1
    BY <2>1, Zenon DEF Frontier, InLoop, LoopPlaces
  <2>3. \A i \in FileNos : i \in present' /\ i <= Frontier' => i \in present /\ i <= Frontier
    BY <1>0, <2>1, <2>2
  <2> QED
    BY <1>1, <2>1, <2>3, QueuedFilesChange, Zenon
<1>5. CASE QueueFile
  <2>1. UNCHANGED <<output, writer, present>> /\ QueuedFiles' = QueuedFiles \cup {scan}
        /\ Frontier' = scan /\ Frontier = scan - 1
    BY <1>5, QueuedFilesChange, FrontierStep, Zenon DEF QueueFile, fsVars
  <2> TAKE i \in FileNos
  <2>2. NotBegun(i)'
    BY <1>0, <2>1 DEF NotBegun
  <2>3. Begun(i)'
    BY <1>0, <2>1, Zenon DEF Begun
  <2>4. Over(i)'
    BY <1>0, <2>1 DEF Over
  <2> QED
    BY <2>2, <2>3, <2>4, Zenon
<1>6. CASE CacheGet \/ QueueRead \/ Synced \/ WakeMain
  <2>1. UNCHANGED <<output, present, to_writer, writer>>
    BY <1>6, Zenon DEF CacheGet, QueueRead, Synced, WakeMain, queueVars, fsVars
  <2>2. Frontier' = Frontier
    <3>1. CASE CacheGet \/ QueueRead \/ WakeMain
      <4>1. InLoop
        BY <3>1, CacheGetCases, Zenon DEF QueueRead, WakeMain, InLoop, LoopPlaces
      <4> QED
        BY <4>1, FrontierStep, Zenon
    <3>2. CASE Synced
      BY <3>2, Zenon DEF Synced, Frontier, InLoop, LoopPlaces, IInv, Types, MainType
    <3> QED
      BY <1>6, <3>1, <3>2, Zenon
  <2> QED
    BY <1>2, <2>1, <2>2, Zenon
<1>7. CASE QueueBlock \/ EndScan
  <2>1. UNCHANGED <<output, present, writer>> /\ QueuedFiles' = QueuedFiles
    BY <1>7, QueuedFilesChange, Zenon DEF QueueBlock, EndScan, fsVars
  <2>2. Frontier' = Frontier
    <3>1. CASE QueueBlock
      <4>1. InLoop
        BY <3>1, Zenon DEF QueueBlock, InLoop, LoopPlaces
      <4> QED
        BY <4>1, FrontierStep, Zenon
    <3>2. CASE EndScan
      BY <3>2, Zenon DEF EndScan, Frontier, InLoop, LoopPlaces, IInv, Types, MainType
    <3> QED
      BY <1>7, <3>1, <3>2, Zenon
  <2> QED
    BY <1>0, <1>1, <2>1, <2>2, Zenon
<1>8. ASSUME UNCHANGED <<scan, main>> \/ InLoop PROVE Frontier' = Frontier
  <2>1. CASE InLoop
    BY <2>1, FrontierStep, Zenon
  <2>2. CASE UNCHANGED <<scan, main>>
    BY <2>2, Zenon DEF Frontier, InLoop
  <2> QED
    BY <1>8, <2>1, <2>2, Zenon
<1>9. CASE Quiet
  BY <1>2, <1>8, <1>9, Zenon DEF Quiet, mainVars, fsVars
<1>10. CASE WakeWriter \/ WriterSleep \/ \E e \in Entries : Fill(e)
  <2>1. UNCHANGED <<output, present, to_writer, scan, main>>
    BY <1>10, Zenon DEF WakeWriter, WriterSleep, Fill, mainVars, fsVars, queueVars
  <2>2. /\ writer'.file = writer.file /\ writer'.block = writer.block
        /\ writer'.failed = writer.failed
    BY <1>0, <1>10, Zenon DEF WakeWriter, WriterSleep, Fill, CacheBlockReady, WriterType
  <2> QED
    BY <1>0, <1>1, <1>8, <2>1, <2>2, QueuedFilesChange, Zenon
<1>w. ASSUME writer.at # "idle"
      PROVE  /\ writer.file \in FileNos /\ writer.file <= Frontier /\ writer.file \notin QueuedFiles
  <2>1. writer.file \in FileNos /\ writer.file <= Frontier
    BY <1>w, Zenon DEF IInv, WriterInv, Ordered
  <2>2. ASSUME NEW j \in 1..Len(to_writer), to_writer[j].item = "file" PROVE to_writer[j].of # writer.file
    <3>1. writer.file < to_writer[j].of
      BY <2>2, Zenon DEF IInv, Ordered
    <3>2. to_writer[j].of \in Nat
      BY <1>0, <2>2, ItemShapes, SeqShape, Zenon
    <3> QED
      BY <1>0, <2>1, <3>1, <3>2, NatOrder, Zenon
  <2> QED
    BY <2>1, <2>2, Zenon DEF QueuedFiles
<1>11. ASSUME writer.at # "idle", QueuedFiles' = QueuedFiles, Frontier' = Frontier, present' = present,
              writer'.file = writer.file, Begun(writer.file)',
              \A i \in FileNos : i # writer.file => output'[i] = output[i]
       PROVE  \A i \in FileNos : NotBegun(i)' /\ Begun(i)' /\ Over(i)'
  <2> TAKE i \in FileNos
  <2>0. writer.file \in FileNos /\ writer.file <= Frontier /\ writer.file \notin QueuedFiles
    BY <1>11, <1>w, Zenon
  <2>1. CASE i = writer.file
    <3>1. NotBegun(i)'
      <4>1. ~(i > Frontier')
        BY <1>0, <1>11, <2>0, <2>1, NatOrder, Zenon
      <4> QED
        BY <1>11, <2>0, <2>1, <4>1, Zenon DEF NotBegun
    <3>2. Over(i)'
      BY <1>11, <2>1, Zenon DEF Over
    <3> QED
      BY <1>11, <2>1, <3>1, <3>2, Zenon DEF Begun
  <2>2. CASE i # writer.file
    <3>1. NotBegun(i)'
      BY <1>0, <1>11, <2>2, Zenon DEF NotBegun
    <3>2. Over(i)'
      BY <1>0, <1>11, <2>2, Zenon DEF Over
    <3>3. Begun(i)'
      BY <1>11, <2>2, Zenon DEF Begun
    <3> QED
      BY <3>1, <3>2, <3>3, Zenon
  <2> QED
    BY <2>1, <2>2, Zenon
<1>12. CASE Skip
  <2>1. /\ UNCHANGED <<output, present, to_writer, scan, main>> /\ writer.at = "check"
        /\ writer'.file = writer.file /\ writer'.failed = TRUE
    BY <1>0, <1>12, NextTyped, Zenon DEF Skip, mainVars, fsVars
  <2>2. Begun(writer.file)'
    BY <2>1, Zenon DEF Begun
  <2> QED
    BY <1>8, <1>11, <2>1, <2>2, QueuedFilesChange, Zenon
<1>13. CASE WriterBlock
  <2>0. /\ to_writer[1].item = "block" /\ to_writer[1].of = writer.file
        /\ to_writer[1].nth = writer.block /\ Head(to_writer) = to_writer[1]
        /\ writer.at = "blocks" /\ writer.file \in FileNos /\ writer.block \in 1..Len(WFile)
        /\ 1 \in 1..Len(to_writer)
    <3>1. Len(to_writer) > 0 /\ Len(to_writer) \in Nat
      BY <1>0, <1>13, DueBlock, SeqShape, Zenon
    <3>2. 1 \in 1..Len(to_writer)
      BY <3>1, NatOrder, Zenon
    <3> QED
      BY <1>13, <3>2, DueBlock, Zenon
  <2>1. UNCHANGED <<present, scan, main>> /\ QueuedFiles' = QueuedFiles
    BY <1>13, QueuedFilesChange, Zenon DEF WriterBlock
  <2>2. CASE Head(to_writer).entry # None
    <3>1. /\ output' = output
          /\ writer' = [writer EXCEPT !.at = "check", !.entry = Head(to_writer).entry]
      BY <1>13, <2>2, Zenon DEF WriterBlock
    <3>2. /\ writer'.file = writer.file /\ writer'.block = writer.block
          /\ writer'.failed = writer.failed
      BY <1>0, <3>1, Zenon DEF WriterType
    <3> QED
      BY <1>0, <1>1, <1>8, <2>1, <3>1, <3>2, Zenon
  <2>3. CASE Head(to_writer).entry = None
    <3>0. WriterNext(writer.failed) /\ writer.failed \in BOOLEAN
      BY <1>0, <1>13, <2>3, Zenon DEF WriterBlock, WriterType
    <3>1. /\ writer'.file = writer.file /\ writer'.block = writer.block + 1
          /\ writer'.failed = writer.failed
      BY <1>0, <3>0, NextTyped, Zenon
    <3>2. output' = [output EXCEPT ![writer.file] = IF writer.failed THEN @ ELSE Append(@, Hole)]
      BY <1>13, <2>3, Zenon DEF WriterBlock
    <3>3. \A i \in FileNos : i # writer.file => output'[i] = output[i]
      BY <1>0, <3>2, Zenon
    <3>4. CASE writer.failed
      <4>1. Begun(writer.file)'
        BY <3>1, <3>4, Zenon DEF Begun
      <4> QED
        BY <1>8, <1>11, <2>0, <2>1, <3>1, <3>3, <4>1, Zenon
    <3>5. CASE ~writer.failed
      <4>1. WFile[writer.block] = Hole
        BY <2>0, <2>3, Zenon DEF IInv, Refs, WFile
      <4>2. output' = [output EXCEPT ![writer.file] = Append(@, WFile[writer.block])]
        BY <3>2, <3>5, <4>1, Zenon
      <4>3. Begun(writer.file)'
        BY <2>0, <3>1, <3>5, <4>2, OneMoreBlock, Zenon
      <4> QED
        BY <1>8, <1>11, <2>0, <2>1, <3>1, <3>3, <4>3, Zenon
    <3> QED
      BY <3>4, <3>5, Zenon
  <2> QED
    BY <2>2, <2>3, Zenon
<1>14. CASE Put
  <2>0. /\ writer.at = "check" /\ ~entry[writer.entry].pending /\ ~entry[writer.entry].error
        /\ ~writer.failed /\ UNCHANGED <<present, to_writer, scan>>
        /\ writer'.file = writer.file /\ writer'.block = writer.block + 1
    BY <1>0, <1>14, NextTyped, Zenon DEF Put, Ready
  <2>1. writer.entry \in Entries /\ writer.file \in FileNos /\ writer.block \in 1..Len(WFile)
    <3>1. writer.entry \in Entries /\ writer.file \in FileNos /\ writer.block \in 1..(Len(WFile) + 1)
          /\ writer.block <= Len(WFile)
      BY <2>0, Shapes, Zenon DEF IInv, WriterInv
    <3>2. Len(WFile) \in Nat
      BY <3>1, Shapes, Zenon DEF IInv, WFile
    <3> QED
      BY <3>1, <3>2
  <2>2. Frontier' = Frontier /\ QueuedFiles' = QueuedFiles
    <3>1. UNCHANGED <<scan, main>> \/ InLoop
      BY <1>14, Zenon DEF Put, CacheBlockPut, InLoop, LoopPlaces
    <3> QED
      BY <1>8, <2>0, <3>1, QueuedFilesChange, Zenon
  <2>3. entry[writer.entry].data = WFile[writer.block]
    BY <2>0, <2>1, Zenon DEF IInv, Held, Refs
  <2>4. CASE output' = [output EXCEPT ![writer.file] = Append(@, entry[writer.entry].data)]
    <3>1. output' = [output EXCEPT ![writer.file] = Append(@, WFile[writer.block])]
      BY <2>3, <2>4, Zenon
    <3>2. Begun(writer.file)'
      BY <2>0, <2>1, <3>1, OneMoreBlock, Zenon
    <3>3. \A i \in FileNos : i # writer.file => output'[i] = output[i]
      BY <1>0, <2>4, Zenon
    <3> QED
      BY <1>11, <2>0, <2>2, <3>2, <3>3, Zenon
  <2>5. CASE WriterNext(TRUE) /\ UNCHANGED output
    <3>1. writer'.failed = TRUE
      BY <1>0, <2>5, NextTyped, Zenon
    <3>2. Begun(writer.file)'
      BY <3>1, Zenon DEF Begun
    <3> QED
      BY <1>11, <2>0, <2>2, <2>5, <3>2, Zenon
  <2> QED
    BY <1>14, <2>4, <2>5, Zenon DEF Put
<1>15. CASE WriterTake
  <2>0. /\ UNCHANGED <<output, present, scan, main>> /\ writer.at = "idle" /\ writer.file = 0
        /\ writer.block = 1 /\ ~writer.failed /\ Head(to_writer) = to_writer[1]
    BY <1>0, <1>15 DEF WriterTake, IInv, WriterInv
  <2>f. Frontier' = Frontier
    BY <1>8, <2>0, Zenon
  <2>1. CASE to_writer[1].item # "file"
    <3>1. writer' = writer /\ QueuedFiles' = QueuedFiles
      BY <1>15, <2>0, <2>1, QueuedFilesChange, Zenon DEF WriterTake
    <3> QED
      BY <1>0, <1>1, <2>0, <2>f, <3>1, Zenon
  <2>2. CASE to_writer[1].item = "file"
    <3>1. PICK f \in FileNos : f = to_writer[1].of /\ f \in QueuedFiles
      BY <1>15, <2>2, QueuedFilesChange, Zenon DEF QueuedFiles
    <3>2. QueuedFiles' = QueuedFiles \ {f} /\ writer' = [writer EXCEPT !.at = "blocks", !.file = f]
      BY <1>15, <2>0, <2>2, <3>1, QueuedFilesChange, Zenon DEF WriterTake
    <3>3. writer'.file = f /\ writer'.block = 1
      BY <1>0, <2>0, <3>2, Zenon DEF WriterType
    <3>4. output[f] = <<>> /\ f <= Frontier
      <4>1. \E j \in 1..Len(to_writer) : to_writer[j].item = "file" /\ to_writer[j].of = f
        BY <3>1, Zenon DEF QueuedFiles
      <4> QED
        BY <1>0, <3>1, <4>1, Zenon DEF NotBegun, IInv, Ordered
    <3> TAKE i \in FileNos
    <3>5. NotBegun(i)'
      BY <1>0, <2>0, <2>f, <3>2, <3>4, Zenon DEF NotBegun
    <3>6. Begun(i)'
      <4>1. Len(<<>>) = 0
        OBVIOUS
      <4> QED
        BY <2>0, <3>3, <3>4, <4>1, NatOrder, Zenon DEF Begun
    <3>7. Over(i)'
      BY <1>0, <2>0, <2>f, <3>2, <3>3, Zenon DEF Over
    <3> QED
      BY <3>5, <3>6, <3>7, Zenon
  <2> QED
    BY <2>1, <2>2, Zenon
<1>16. CASE WriterClose
  <2>0. /\ UNCHANGED <<output, to_writer, scan, main>> /\ writer.at = "blocks"
        /\ writer.block > Len(WFile) /\ writer'.file = 0
        /\ \/ present' = present \ {writer.file}
           \/ ~writer.failed /\ present' = present
    BY <1>16, Zenon DEF WriterClose, queueVars
  <2>1. Frontier' = Frontier /\ QueuedFiles' = QueuedFiles
    BY <1>8, <2>0, QueuedFilesChange, Zenon
  <2>2. writer.file \in FileNos /\ writer.block \in 1..(Len(WFile) + 1) /\ WFile \in Seq(AllBlocks)
    BY <2>0, Shapes, Zenon DEF IInv, WriterInv
  <2>3. ~writer.failed => output[writer.file] = List[writer.file].blocks
    <3>1. SUFFICES ASSUME ~writer.failed PROVE output[writer.file] = WFile
      BY Zenon DEF WFile
    <3>2. /\ Len(output[writer.file]) = writer.block - 1
          /\ \A k \in 1..(writer.block - 1) : output[writer.file][k] = WFile[k]
      BY <1>0, <2>2, <3>1, Zenon DEF Begun, WFile
    <3>3. writer.block - 1 = Len(WFile) /\ output[writer.file] \in Seq(AllBlocks \cup {None})
      BY <1>0, <2>0, <2>2, SMTT(30)
    <3>4. /\ Len(output[writer.file]) = Len(WFile)
          /\ \A k \in 1..Len(output[writer.file]) : output[writer.file][k] = WFile[k]
      BY <3>2, <3>3, Zenon
    <3> QED
      BY <2>2, <3>3, <3>4, SameList, Zenon
  <2> TAKE i \in FileNos
  <2>4. NotBegun(i)'
    BY <1>0, <2>0, <2>1, Zenon DEF NotBegun
  <2>5. Begun(i)'
    BY <1>0, <2>0, Zenon DEF Begun
  <2>6. Over(i)'
    <3>1. CASE i = writer.file
      BY <2>0, <2>3, <3>1, Zenon DEF Over
    <3>2. CASE i # writer.file
      BY <1>0, <2>0, <2>1, <3>2, Zenon DEF Over
    <3> QED
      BY <3>1, <3>2, Zenon
  <2> QED
    BY <2>4, <2>5, <2>6, Zenon
<1> QED
  BY <1>3, <1>4, <1>5, <1>6, <1>7, <1>9, <1>10, <1>12, <1>13, <1>14, <1>15, <1>16, Cases, Zenon

(* The directories whose attributes are set. *)
LEMMA ClosedStep ==
    ASSUME IInv, [Next]_vars
    PROVE  \/ closed' = closed
           \/ /\ WriterTake /\ to_writer # <<>> /\ to_writer[1].item = "dir" /\ writer' = writer
              /\ closed' = closed \cup {to_writer[1].of}
<1>1. CASE MakeName \/ OpenFails \/ Opens \/ QueueFile \/ CacheGet \/ QueueRead
  BY <1>1, Zenon DEF MakeName, OpenFails, Opens, QueueFile, CacheGet, QueueRead, fsVars
<1>2. CASE QueueBlock \/ QueueDir \/ EndScan \/ Synced \/ Quiet \/ WakeMain \/ WakeWriter
  BY <1>2, Zenon DEF QueueBlock, QueueDir, EndScan, Synced, Quiet, WakeMain, WakeWriter, fsVars, mainVars
<1>3. CASE \E e \in Entries : Fill(e)
  BY <1>3, Zenon DEF Fill, fsVars, mainVars
<1>4. CASE WriterBlock \/ WriterSleep \/ Skip \/ Put \/ WriterClose
  BY <1>4, Zenon DEF WriterBlock, WriterSleep, Skip, Put, WriterClose, fsVars, mainVars
<1>5. CASE WriterTake
  <2>1. to_writer # <<>> /\ Head(to_writer) = to_writer[1]
    BY <1>5 DEF WriterTake, IInv, Types
  <2> QED
    BY <1>5, <2>1, Zenon DEF WriterTake
<1> QED
  BY <1>1, <1>2, <1>3, <1>4, <1>5, Cases, Zenon

(* A directory is over for the scan from its end on. *)
LEMMA NotScannedStep ==
    ASSUME IInv, [Next]_vars
    PROVE  /\ \A d : NotScanned(d) => NotScanned(d)'
           /\ \A d : QueueDir /\ d = F.dir => NotScanned(d)'
           /\ \A d : NotScanned(d) /\ scan \in FileNos => List[scan].dir # d
<1>0. /\ scan \in Nat /\ scan >= 1 /\ scan' \in Nat /\ scan <= scan' /\ Len(List) \in Nat
      /\ DOMAIN List = 1..Len(List)
  BY FrontierStep, ListAssumption DEF IInv, MainInv
<1>1. ASSUME NEW d, NotScanned(d) PROVE NotScanned(d)'
  <2>1. \A i \in scan'..Len(List) : i \in scan..Len(List)
    BY <1>0
  <2> QED
    BY <1>1, <2>1, Zenon DEF NotScanned
<1>2. ASSUME NEW d, QueueDir, d = F.dir PROVE NotScanned(d)'
  <2>1. scan' = scan + 1 /\ scan <= Len(List) /\ List[scan].op = "enddir"
    BY <1>2, Zenon DEF QueueDir, Step
  <2>2. scan \in DOMAIN List /\ \A i \in scan'..Len(List) : i \in DOMAIN List /\ scan < i
    BY <1>0, <2>1
  <2>4. \A i \in scan'..Len(List) : List[i].op # "enddir" => List[i].dir # d
    BY <1>2, <2>1, <2>2, ListAssumption, Zenon DEF F
  <2> QED
    BY <2>4, Zenon DEF NotScanned
<1>3. ASSUME NEW d, NotScanned(d), scan \in FileNos PROVE List[scan].dir # d
  <2>1. scan \in scan..Len(List) /\ List[scan].op = "file"
    BY <1>0, <1>3 DEF FileNos
  <2> QED
    BY <1>3, <2>1, Zenon DEF NotScanned
<1> QED
  BY <1>1, <1>2, <1>3, Zenon

(* Every step keeps a closed directory one that nothing is to come for. *)
LEMMA DirsDoneStep == ASSUME IInv, [Next]_vars PROVE DirsDone'
<1> DEFINE Off(d, x) == x.item = "file" => List[x.of].dir # d
           A(d) == /\ NotScanned(d)
                   /\ writer.file # 0 => List[writer.file].dir # d
                   /\ \A j \in 1..Len(to_writer) : Off(d, to_writer[j])
           D(j) == to_writer[j].item = "dir" =>
                     /\ NotScanned(to_writer[j].of)
                     /\ \A k \in (j + 1)..Len(to_writer) : Off(to_writer[j].of, to_writer[k])
<1>0. /\ \A d \in closed : A(d)
      /\ \A j \in 1..Len(to_writer) : D(j)
      /\ to_writer \in Seq(Items) /\ Len(to_writer) \in Nat
  <2>1. to_writer \in Seq(Items)
    BY Zenon DEF IInv, Types
  <2>2. Len(to_writer) \in Nat
    BY <2>1
  <2> QED
    BY <2>1, <2>2, Zenon DEF IInv, DirsDone
<1>n. \A d : NotScanned(d) => NotScanned(d)'
  BY NotScannedStep, Zenon
<1>g. SUFFICES (\A d \in closed' : A(d)') /\ \A j \in 1..Len(to_writer') : D(j)'
  BY Zenon DEF DirsDone
<1>1. CASE to_writer' = to_writer
  <2>1. ~WriterTake
    <3>1. ASSUME WriterTake PROVE FALSE
      <4>1. to_writer # <<>> /\ to_writer' = Tail(to_writer)
        BY <3>1, Zenon DEF WriterTake
      <4>2. Len(Tail(to_writer)) # Len(to_writer)
        BY <1>0, <4>1
      <4> QED
        BY <1>1, <4>1, <4>2, Zenon
    <3> QED
      BY <3>1, Zenon
  <2>2. closed' = closed /\ (writer'.file = writer.file \/ writer'.file = 0)
    BY <2>1, ClosedStep, WriterFile, Zenon
  <2>3. ASSUME NEW d \in closed' PROVE A(d)'
    <3>1. A(d)
      BY <1>0, <2>2, Zenon
    <3>2. NotScanned(d)'
      BY <1>n, <3>1, Zenon
    <3>3. \A j \in 1..Len(to_writer') : Off(d, to_writer'[j])
      BY <1>1, <3>1, Zenon
    <3> QED
      BY <2>2, <3>1, <3>2, <3>3, Zenon
  <2>4. ASSUME NEW j \in 1..Len(to_writer') PROVE D(j)'
    <3>1. D(j)
      BY <1>0, <1>1, Zenon
    <3>2. to_writer[j].item = "dir" => NotScanned(to_writer[j].of)'
      <4>1. PICK d : d = to_writer[j].of
        BY Zenon
      <4>2. to_writer[j].item = "dir" => NotScanned(d)'
        BY <1>n, <3>1, <4>1, Zenon
      <4>3. d = to_writer'[j].of
        BY <1>1, <4>1, Zenon
      <4> QED
        BY <4>2, <4>3, Zenon DEF NotScanned
    <3> QED
      BY <1>1, <3>1, <3>2, Zenon
  <2> QED
    BY <2>3, <2>4, Zenon
<1>2. CASE QueueFile \/ QueueBlock \/ QueueDir \/ EndScan
  <2>1. PICK x \in Items : to_writer' = Append(to_writer, x)
    BY <1>0, <1>2, QueueCases DEF QueueFile, QueueBlock, QueueDir, EndScan
  <2>2. /\ Len(to_writer') = Len(to_writer) + 1 /\ to_writer'[Len(to_writer) + 1] = x
        /\ \A j \in 1..Len(to_writer) : to_writer'[j] = to_writer[j]
    BY <1>0, <2>1
  <2>3. writer' = writer /\ closed' = closed
    BY <1>2, Zenon DEF QueueFile, QueueBlock, QueueDir, EndScan, fsVars
  <2>4. x.item = "file" => x.of = scan /\ scan \in FileNos
    <3>1. CASE QueueFile
      BY <1>0, <2>2, <3>1 DEF QueueFile, IInv, MainInv
    <3>2. CASE QueueBlock \/ QueueDir \/ EndScan
      BY <1>0, <2>2, <3>2 DEF QueueBlock, QueueDir, EndScan
    <3> QED
      BY <1>2, <3>1, <3>2, Zenon
  <2>5. ASSUME NEW d, NotScanned(d) PROVE Off(d, x)
    BY <2>4, <2>5, NotScannedStep, Zenon
  <2>6. ASSUME NEW d, d = x.of, x.item = "dir" PROVE NotScanned(d)'
    <3>1. QueueDir /\ d = F.dir
      <4>1. ~(QueueFile \/ QueueBlock \/ EndScan)
        BY <1>0, <2>2, <2>6 DEF QueueFile, QueueBlock, EndScan
      <4>2. QueueDir
        BY <1>2, <4>1, Zenon
      <4>3. x = [item |-> "dir", of |-> F.dir]
        <5>1. to_writer' = Append(to_writer, [item |-> "dir", of |-> F.dir])
          BY <4>2, Zenon DEF QueueDir
        <5>2. to_writer \in Seq(Items)
          BY <1>0, Zenon
        <5> QED
          BY <2>2, <5>1, <5>2
      <4> QED
        BY <2>6, <4>2, <4>3
    <3> QED
      BY <3>1, NotScannedStep, Zenon
  <2>7. ASSUME NEW d \in closed' PROVE A(d)'
    <3>1. A(d)
      BY <1>0, <2>3, Zenon
    <3>2. NotScanned(d)' /\ Off(d, x)
      BY <1>n, <2>5, <3>1, Zenon
    <3>3. \A j \in 1..Len(to_writer') : Off(d, to_writer'[j])
      <4>1. \A j \in 1..Len(to_writer') : j \in 1..Len(to_writer) \/ j = Len(to_writer) + 1
        BY <1>0, <2>2
      <4> QED
        BY <2>2, <3>1, <3>2, <4>1, Zenon
    <3> QED
      BY <2>3, <3>1, <3>2, <3>3, Zenon
  <2>8. ASSUME NEW j \in 1..Len(to_writer') PROVE D(j)'
    <3>0. SUFFICES ASSUME NEW d, d = to_writer'[j].of, to_writer'[j].item = "dir"
                   PROVE  /\ NotScanned(d)'
                          /\ \A k \in (j + 1)..Len(to_writer') : Off(d, to_writer'[k])
      <4>1. PICK d : d = to_writer'[j].of
        BY Zenon
      <4>2. to_writer'[j].item = "dir" =>
               /\ NotScanned(d)'
               /\ \A k \in (j + 1)..Len(to_writer') : Off(d, to_writer'[k])
        BY <3>0, <4>1, Zenon
      <4> QED
        BY <4>1, <4>2, Zenon DEF NotScanned
    <3>1. CASE j \in 1..Len(to_writer)
      <4>1. to_writer'[j] = to_writer[j] /\ NotScanned(d)
            /\ \A k \in (j + 1)..Len(to_writer) : Off(d, to_writer[k])
        BY <1>0, <2>2, <3>0, <3>1, Zenon
      <4>2. NotScanned(d)' /\ Off(d, x)
        BY <1>n, <2>5, <4>1, Zenon
      <4>3. ASSUME NEW k \in (j + 1)..Len(to_writer') PROVE Off(d, to_writer'[k])
        <5>1. CASE k \in 1..Len(to_writer)
          <6>1. k \in (j + 1)..Len(to_writer) /\ to_writer'[k] = to_writer[k]
            BY <1>0, <2>2, <5>1
          <6> QED
            BY <4>1, <6>1, Zenon
        <5>2. CASE k = Len(to_writer) + 1
          BY <2>2, <4>2, <5>2, Zenon
        <5>3. k \in 1..Len(to_writer) \/ k = Len(to_writer) + 1
          <6>1. /\ Len(to_writer) \in Nat /\ Len(to_writer') = Len(to_writer) + 1
                /\ j \in 1..Len(to_writer)
            BY <1>0, <2>2, <3>1, Zenon
          <6> QED
            BY <6>1
        <5> QED
          BY <5>1, <5>2, <5>3, Zenon
      <4> QED
        BY <4>2, <4>3, Zenon
    <3>2. CASE j = Len(to_writer) + 1
      <4>1. NotScanned(d)'
        BY <2>2, <2>6, <3>0, <3>2, Zenon
      <4>2. (j + 1)..Len(to_writer') = {}
        BY <1>0, <2>2, <3>2
      <4> QED
        BY <4>1, <4>2, Zenon
    <3> QED
      BY <1>0, <2>2, <3>1, <3>2
  <2> QED
    BY <2>7, <2>8, Zenon
<1>3. CASE WriterTake \/ WriterBlock
  <2>1. to_writer # <<>> /\ to_writer' = Tail(to_writer)
    BY <1>3, Zenon DEF WriterTake, WriterBlock
  <2>2. /\ Len(to_writer) > 0 /\ Len(to_writer') = Len(to_writer) - 1
        /\ \A j \in 1..Len(to_writer') : to_writer'[j] = to_writer[j + 1]
        /\ \A j \in 1..Len(to_writer') : j + 1 \in 1..Len(to_writer)
        /\ 1 \in 1..Len(to_writer)
    BY <1>0, <2>1
  <2>3. ASSUME NEW d \in closed, closed' = closed PROVE A(d)'
    <3>1. A(d)
      BY <1>0, Zenon
    <3>2. NotScanned(d)'
      BY <1>n, <3>1, Zenon
    <3>3. \A j \in 1..Len(to_writer') : Off(d, to_writer'[j])
      BY <2>2, <3>1, Zenon
    <3>4. writer'.file # 0 => List[writer'.file].dir # d
      <4>1. CASE writer'.file = writer.file \/ writer'.file = 0
        BY <3>1, <4>1, Zenon
      <4>2. CASE to_writer[1].item = "file" /\ writer'.file = to_writer[1].of
        BY <2>2, <3>1, <4>2, Zenon
      <4> QED
        BY <4>1, <4>2, WriterFile, Zenon
    <3> QED
      BY <3>2, <3>3, <3>4, Zenon
  <2>4. ASSUME NEW d \in closed', closed' = closed \cup {to_writer[1].of}, writer' = writer,
               WriterTake, to_writer[1].item = "dir"
        PROVE  A(d)'
    <3>1. writer'.file = 0
      BY <2>4, Zenon DEF WriterTake, IInv, WriterInv
    <3>2. NotScanned(d) /\ \A k \in 2..Len(to_writer) : Off(d, to_writer[k])
      <4>1. CASE d \in closed
        <5>1. A(d)
          BY <1>0, <4>1, Zenon
        <5>2. \A k \in 2..Len(to_writer) : k \in 1..Len(to_writer)
          BY <1>0
        <5> QED
          BY <5>1, <5>2, Zenon
      <4>2. CASE d = to_writer[1].of
        <5>1. D(1)
          BY <1>0, <2>2, Zenon
        <5>2. 1 + 1 = 2
          OBVIOUS
        <5> QED
          BY <2>4, <4>2, <5>1, <5>2, Zenon
      <4> QED
        BY <2>4, <4>1, <4>2, Zenon
    <3>3. NotScanned(d)'
      BY <1>n, <3>2, Zenon
    <3>4. \A j \in 1..Len(to_writer') : Off(d, to_writer'[j])
      <4>1. \A j \in 1..Len(to_writer') : j + 1 \in 2..Len(to_writer) /\ to_writer'[j] = to_writer[j + 1]
        BY <1>0, <2>2
      <4> QED
        BY <3>2, <4>1, Zenon
    <3> QED
      BY <3>1, <3>3, <3>4, Zenon
  <2>5. \A d \in closed' : A(d)'
    BY <2>3, <2>4, ClosedStep, Zenon
  <2>6. ASSUME NEW j \in 1..Len(to_writer') PROVE D(j)'
    <3>1. D(j + 1) /\ to_writer'[j] = to_writer[j + 1]
      BY <1>0, <2>2, Zenon
    <3>2. PICK d : d = to_writer'[j].of
      BY Zenon
    <3>3. ASSUME to_writer'[j].item = "dir"
          PROVE  NotScanned(d)' /\ \A k \in (j + 1)..Len(to_writer') : Off(d, to_writer'[k])
      <4>1. NotScanned(d) /\ \A k \in (j + 1 + 1)..Len(to_writer) : Off(d, to_writer[k])
        BY <3>1, <3>2, <3>3, Zenon
      <4>2. \A k \in (j + 1)..Len(to_writer') : k + 1 \in (j + 1 + 1)..Len(to_writer)
                                                /\ to_writer'[k] = to_writer[k + 1]
        BY <1>0, <2>2
      <4> QED
        BY <1>n, <4>1, <4>2, Zenon
    <3> QED
      BY <3>2, <3>3, Zenon DEF NotScanned
  <2> QED
    BY <2>5, <2>6, Zenon
<1> QED
  BY <1>1, <1>2, <1>3, QueueCases, Zenon

-----------------------------------------------------------------------------
(* The references, counted in the queue. *)
ItemsOf(e) == {x \in BlockItems : x.entry = e}
(* The places in the queue that refer to an entry are finitely many. *)
LEMMA QueuedSpots ==
    ASSUME FiniteSetFacts, to_writer \in Seq(Items), NEW e
    PROVE  /\ Queued(e) = Spots(to_writer, ItemsOf(e))
           /\ IsFiniteSet(Queued(e)) /\ Cardinality(Queued(e)) \in Nat
<1>1. DOMAIN to_writer = 1..Len(to_writer) /\ \A j \in 1..Len(to_writer) : to_writer[j] \in Items
  OBVIOUS
<1>2. \A x \in Items : x.item = "block" /\ x.entry = e <=> x \in ItemsOf(e)
  BY ItemShapes, Zenon DEF ItemsOf
<1>3. Queued(e) = Spots(to_writer, ItemsOf(e))
  BY <1>1, <1>2, Zenon DEF Queued, Spots
<1> QED
  BY <1>3, SpotsFinite, Zenon

(* Those places can therefore be counted. *)
LEMMA CountsHold == FiniteSetFacts /\ Types => QueueCounts
<1> SUFFICES ASSUME FiniteSetFacts, Types, NEW e \in Entries
             PROVE  /\ Cardinality(Queued(e)) \in Nat
                    /\ Queued(e) # {} => Cardinality(Queued(e)) > 0
  BY Zenon DEF QueueCounts
<1>1. IsFiniteSet(Queued(e)) /\ Cardinality(Queued(e)) \in Nat
  BY QueuedSpots, Zenon DEF Types
<1>2. Queued(e) # {} => Cardinality(Queued(e)) # 0
  BY <1>1, Numbered, Zenon
<1> QED
  BY <1>1, <1>2

(* ... and how a step changes it, ... *)
LEMMA QueuedChange ==
    ASSUME FiniteSetFacts, to_writer \in Seq(Items), NEW e
    PROVE  QueuedChanges(e)
<1>0. \A x \in Items : x.item = "block" /\ x.entry = e <=> x \in ItemsOf(e)
  BY ItemShapes, Zenon DEF ItemsOf
<1>1. Queued(e) = Spots(to_writer, ItemsOf(e))
  BY QueuedSpots, Zenon
<1>2. ASSUME to_writer' = to_writer PROVE Cardinality(Queued(e))' = Cardinality(Queued(e))
  BY <1>2, Zenon DEF Queued
<1>3. ASSUME NEW x \in Items, to_writer' = Append(to_writer, x)
      PROVE  Cardinality(Queued(e))' = Cardinality(Queued(e))
                                          + (IF x.item = "block" /\ x.entry = e THEN 1 ELSE 0)
  <2>1. to_writer' \in Seq(Items)
    BY <1>3
  <2>2. Queued(e)' = Spots(Append(to_writer, x), ItemsOf(e))
    <3>1. /\ DOMAIN to_writer' = 1..Len(to_writer')
          /\ \A j \in 1..Len(to_writer') : to_writer'[j] \in Items
      BY <2>1
    <3> QED
      BY <1>0, <1>3, <3>1, Zenon DEF Queued, Spots
  <2> QED
    BY <1>0, <1>1, <2>2, SpotsAppend
<1>4. ASSUME to_writer # <<>>, to_writer' = Tail(to_writer)
      PROVE  Cardinality(Queued(e))' = Cardinality(Queued(e))
                - (IF Head(to_writer).item = "block" /\ Head(to_writer).entry = e THEN 1 ELSE 0)
  <2>1. to_writer' \in Seq(Items) /\ Head(to_writer) \in Items
    BY <1>4
  <2>2. Queued(e)' = Spots(Tail(to_writer), ItemsOf(e))
    <3>1. /\ DOMAIN to_writer' = 1..Len(to_writer')
          /\ \A j \in 1..Len(to_writer') : to_writer'[j] \in Items
      BY <2>1
    <3> QED
      BY <1>0, <1>4, <3>1, Zenon DEF Queued, Spots
  <2> QED
    BY <1>0, <1>1, <1>4, <2>1, <2>2, SpotsTail, Zenon
<1> QED
  BY <1>2, <1>3, <1>4, Zenon DEF QueuedChanges

(* ... and the number of the queued files. *)
LEMMA OpenChange ==
    ASSUME FiniteSetFacts, to_writer \in Seq(Items)
    PROVE  QueuedOpen \in Nat /\ OpenChanges
<1>0. \A x \in Items : x.item = "file" <=> x \in FileItems
  BY ItemShapes, Zenon
<1>1. QueuedOpen = Cardinality(Spots(to_writer, FileItems))
  <2>1. /\ DOMAIN to_writer = 1..Len(to_writer)
        /\ \A j \in 1..Len(to_writer) : to_writer[j] \in Items
    BY SeqShape, Zenon
  <2>2. {i \in DOMAIN to_writer : to_writer[i].item = "file"} = Spots(to_writer, FileItems)
    BY <1>0, <2>1, Zenon DEF Spots
  <2> QED
    BY <2>2, Zenon DEF QueuedOpen
<1>2. ASSUME to_writer' \in Seq(Items) PROVE QueuedOpen' = Cardinality(Spots(to_writer', FileItems))
  <2>1. /\ DOMAIN to_writer' = 1..Len(to_writer')
        /\ \A j \in 1..Len(to_writer') : to_writer'[j] \in Items
    BY <1>2, SeqShape, Zenon
  <2>2. {i \in DOMAIN to_writer' : to_writer'[i].item = "file"} = Spots(to_writer', FileItems)
    BY <1>0, <2>1, Zenon DEF Spots
  <2> QED
    BY <2>2, Zenon DEF QueuedOpen
<1>3. QueuedOpen \in Nat
  BY <1>1, SpotsFinite, Zenon
<1>4. ASSUME NEW x \in Items, to_writer' = Append(to_writer, x)
      PROVE  QueuedOpen' = QueuedOpen + (IF x.item = "file" THEN 1 ELSE 0)
  <2>1. to_writer' \in Seq(Items)
    BY <1>4, SeqGrows, Zenon
  <2> QED
    BY <1>0, <1>1, <1>2, <1>4, <2>1, SpotsAppend
<1>5. ASSUME to_writer # <<>>, to_writer' = Tail(to_writer)
      PROVE  QueuedOpen' = QueuedOpen - (IF Head(to_writer).item = "file" THEN 1 ELSE 0)
  <2>1. to_writer' \in Seq(Items) /\ Head(to_writer) \in Items
    BY <1>5, SeqShrinks, Zenon
  <2> QED
    BY <1>0, <1>1, <1>2, <1>5, <2>1, SpotsTail, Zenon
<1>6. to_writer' = to_writer => QueuedOpen' = QueuedOpen
  BY Zenon DEF QueuedOpen
<1> QED
  BY <1>3, <1>4, <1>5, <1>6, Zenon DEF OpenChanges

(* The first state. *)
LEMMA InitIInv ==
    ASSUME FiniteSetFacts, Init
    PROVE  IInv
<1>0. /\ Len(to_writer) = 0 /\ main.at = "scan" /\ writer.at = "idle" /\ ~InLoop
      /\ \A e \in Entries : entry[e].used = 0 /\ entry[e].block = None /\ ~entry[e].error
                              /\ entry[e].data = None
      /\ DOMAIN to_writer = {} /\ writer.file = 0 /\ writer.block = 1 /\ ~writer.failed
      /\ main.block = 1 /\ scan = 1
  BY DEF Init, InLoop, LoopPlaces
<1>1. Types
  <2>1. main \in MainType
    BY Zenon DEF Init, MainType, MaybeEntry
  <2>2. writer \in WriterType
    BY Zenon DEF Init, WriterType, MaybeEntry
  <2>3. entry \in [Entries -> EntryType]
    BY Zenon DEF Init, EntryType
  <2>4. output \in [DOMAIN List -> Seq(AllBlocks \cup {None})]
    BY DEF Init
  <2>5. open_count \in Nat
    BY Constants, Zenon DEF Init
  <2>6. /\ count \in [Caches -> Nat] /\ free_list \in [Caches -> Seq(Entries)]
        /\ wait_free \in [Caches -> BOOLEAN] /\ wait_pending \in [Caches -> BOOLEAN]
    BY DEF Init
  <2>7. to_reader \in Seq(Entries) /\ to_inflate \in Seq(Entries) /\ to_writer \in Seq(Items)
    BY DEF Init
  <2>8. reader \in MaybeEntry /\ inflator \in [Inflators -> MaybeEntry]
    BY Zenon DEF Init, MaybeEntry
  <2>9. faults \in Faults /\ scan \in Nat /\ from_writer \in 0..1 /\ present \subseteq DOMAIN List
    BY DEF Init
  <2> QED
    BY <2>1, <2>2, <2>3, <2>4, <2>5, <2>6, <2>7, <2>8, <2>9, Zenon DEF Types
<1>2. Room
  BY Constants DEF Init, Room
<1>3. MainInv
  <2>1. Len(List) \in Nat
    BY ListAssumption, Zenon
  <2>2. scan \in 1..(Len(List) + 1)
    BY <1>0, <2>1
  <2> QED
    BY <1>0, <2>2, Zenon DEF MainInv
<1>4. WriterInv
  BY <1>0, Zenon DEF WriterInv
<1>5. Stream
  BY <1>0 DEF Stream, MainFits, Cursor, Complete, WriterCursor
<1>6. Refs
  BY <1>0 DEF Refs
<1>c. QueueCounts
  BY <1>1, CountsHold, Zenon
<1>7. Counted
  <2>1. \A e \in Entries : References(e) = 0
    BY <1>0, Numbered DEF References, Queued, MainHas, WriterHas
  <2> QED
    BY <1>0, <2>1 DEF Counted
<1>8. Free
  BY <1>0, Constants DEF Init, Free, Elems, Distinct
<1>9. Held
  BY <1>0, ListAssumption, Zenon DEF Held
<1>10. NoLostWakeup
  BY <1>0, Zenon DEF NoLostWakeup
<1>11. Opened
  <2>1. OpenFiles = 0
    <3>1. {i \in DOMAIN to_writer : to_writer[i].item = "file"} = {}
      BY <1>0, Zenon
    <3> QED
      BY <1>0, <3>1, Numbered DEF OpenFiles
  <2> QED
    BY <2>1, Constants DEF Init, Opened
<1>e. /\ 1..Len(to_writer) = {} /\ from_writer = 0 /\ 0 # 1 /\ present = {} /\ closed = {}
      /\ \A i \in FileNos : output[i] = <<>>
  <2>1. 1..Len(to_writer) = {} /\ 0 # 1
    BY <1>0
  <2> QED
    BY <2>1, Zenon DEF Init, FileNos
<1>12. Ending
  BY <1>0, <1>e, Zenon DEF Ending
<1>13. Ordered
  <2>1. Frontier = 1 - 1
    BY <1>0, Zenon DEF Frontier
  <2>2. writer.file <= Frontier
    BY <1>0, <2>1, NatOrder, Zenon
  <2> QED
    BY <1>e, <2>2, Zenon DEF Ordered
<1>14. Outputs
  <2>1. 0 \notin FileNos
    BY FilesNumbered, Zenon
  <2> QED
    BY <1>0, <1>e, <2>1, Zenon DEF Outputs
<1>15. DirsDone
  BY <1>e, Zenon DEF DirsDone
<1> QED
  BY <1>1, <1>2, <1>3, <1>4, <1>5, <1>6, <1>c, <1>7, <1>8, <1>9, <1>10, <1>11, <1>12, <1>13, <1>14,
     <1>15, Zenon DEF IInv

-----------------------------------------------------------------------------

(* Every step keeps the invariant. *)
LEMMA NextIInv ==
    ASSUME FiniteSetFacts, IInv, [Next]_vars
    PROVE  IInv'
<1>1. to_writer \in Seq(Items)
  BY Zenon DEF IInv, Types
<1>2. Counted'
  BY <1>1, QueuedChange, CountedStep, Zenon
<1>3. Opened'
  BY <1>1, OpenChange, OpenedStep, Zenon
<1>4. Types'
  BY TypesStep, Zenon
<1>5. QueueCounts'
  <2>1. FiniteSetFacts'
    BY Zenon DEF FiniteSetFacts
  <2>2. FiniteSetFacts' /\ Types' => QueueCounts'
    BY CountsHold, PTL
  <2> QED
    BY <1>4, <2>1, <2>2, Zenon
<1>6. Room' /\ Free'
  BY <1>4, FreeStep, TypesStep, Zenon
<1>7. MainInv' /\ WriterInv' /\ Stream' /\ Refs'
  BY MainStep, WriterStep, StreamStep, RefsStep, Zenon
<1>8. Held' /\ NoLostWakeup' /\ Ending'
  BY HeldStep, WakeupStep, EndingStep, Zenon
<1>9. Ordered' /\ Outputs' /\ DirsDone'
  BY OrderedStep, OutputsStep, DirsDoneStep, Zenon
<1> QED
  BY <1>2, <1>3, <1>4, <1>5, <1>6, <1>7, <1>8, <1>9, Zenon DEF IInv

(* Every entry a thread wants is counted and not free. *)
LEMMA ImpliesReferencesHold ==
    ASSUME FiniteSetFacts, IInv
    PROVE  ReferencesHold
<1>0. /\ to_writer \in Seq(Items) /\ DOMAIN to_writer = 1..Len(to_writer)
      /\ main \in MainType /\ writer \in WriterType /\ None \notin Entries
  <2>1. to_writer \in Seq(Items) /\ main \in MainType /\ writer \in WriterType
    BY Zenon DEF IInv, Types
  <2>2. None \notin Entries
    BY Shapes, Zenon DEF IInv
  <2> QED
    BY <2>1, <2>2, SeqShape, Zenon
<1>1. TypeOK
  <2>1. open_count \in 0..max_files
    <3>1. OpenFiles \in Nat
      <4>1. QueuedOpen \in Nat
        BY <1>0, OpenChange, Zenon
      <4> QED
        BY <4>1 DEF OpenFiles, QueuedOpen
    <3> QED
      BY <3>1, Constants, SMTT(30) DEF IInv, Types, Opened
  <2>2. \A c \in Caches : count[c] \in 0..max_buffers[c]
    BY Constants, SMTT(30) DEF IInv, Types, Room
  <2>3. \A e \in Entries : entry[e].used \in Nat
    BY Zenon DEF IInv, Types, EntryType
  <2> QED
    BY <2>1, <2>2, <2>3, Zenon DEF IInv, Room, TypeOK
<1>2. ASSUME NEW e \in Entries
      PROVE  /\ \A j \in Queued(e) :
                   entry[e].block = List[to_writer[j].of].blocks[to_writer[j].nth]
             /\ MainHas(e) => entry[e].block = B
             /\ WriterHas(e) => entry[e].block = WFile[writer.block]
  BY <1>0, Zenon DEF IInv, Refs, Queued, MainHas, WriterHas
<1>3. ASSUME NEW e \in Entries
      PROVE  (\E i \in DOMAIN free_list[e[1]] : free_list[e[1]][i] = e)
               <=> e[2] <= count[e[1]] /\ entry[e].used = 0
  <2>1. free_list[e[1]] \in Seq(Entries)
    BY Constants, Zenon DEF IInv, Types
  <2>2. e \in Elems(free_list[e[1]]) <=> \E i \in DOMAIN free_list[e[1]] : free_list[e[1]][i] = e
    BY <2>1 DEF Elems
  <2> QED
    BY <2>2, Zenon DEF IInv, Free
<1> QED
  BY <1>1, <1>2, <1>3, Zenon DEF IInv, Counted, Held, ReferencesHold

(* When main has heard from the writer, nothing is queued. *)
LEMMA ImpliesFilesComplete ==
    ASSUME IInv
    PROVE  FilesComplete
<1>1. SUFFICES ASSUME NEW i \in FileNos, i \in present, main.at = "done"
               PROVE  output[i] = List[i].blocks
  BY Zenon DEF FilesComplete, FileNos
<1>2. to_writer = <<>> /\ writer.at = "idle" /\ scan = Len(List) + 1
  BY <1>1, Zenon DEF IInv, Ending, MainInv
<1>3. writer.file = 0 /\ QueuedFiles = {} /\ Frontier = scan - 1
  BY <1>1, <1>2 DEF IInv, WriterInv, QueuedFiles, Frontier, InLoop, LoopPlaces
<1>4. i \in Nat /\ i # 0 /\ i <= Frontier
  BY <1>2, <1>3, Shapes DEF IInv
<1> QED
  BY <1>1, <1>3, <1>4, Zenon DEF IInv, Outputs

(* No step changes a directory whose attributes are set. *)
LEMMA ClosedStays ==
    ASSUME IInv, [Next]_vars
    PROVE  \A d \in closed : Contents(d)' = Contents(d)
<1>1. SUFFICES ASSUME NEW d \in closed PROVE Contents(d)' = Contents(d)
  BY Zenon
<1>2. NotScanned(d) /\ (writer.file # 0 => List[writer.file].dir # d)
  BY Zenon DEF IInv, DirsDone
<1>3. ASSUME present' = present PROVE Contents(d)' = Contents(d)
  BY <1>3, Zenon DEF Contents
<1>4. CASE MakeName \/ Opens
  <2>1. /\ present' = present \/ present' = present \cup {scan}
        /\ scan <= Len(List) /\ List[scan].op # "enddir"
    BY <1>4, Zenon DEF MakeName, Opens, Step
  <2>2. scan \in scan..Len(List)
    BY <2>1, Shapes DEF IInv, MainInv
  <2>3. List[scan].dir # d
    BY <1>2, <2>1, <2>2, Zenon DEF NotScanned
  <2> QED
    BY <1>3, <2>1, <2>3, Zenon DEF Contents
<1>5. CASE WriterClose
  <2>1. present' = present \/ present' = present \ {writer.file}
    BY <1>5, Zenon DEF WriterClose
  <2>2. writer.file # 0
    <3>1. writer.at # "idle"
      BY <1>5, Zenon DEF WriterClose
    <3> QED
      BY <3>1, FilesNumbered, Zenon DEF IInv, WriterInv
  <2> QED
    BY <1>2, <1>3, <2>1, <2>2, Zenon DEF Contents
<1>6. CASE OpenFails \/ QueueFile \/ CacheGet \/ QueueRead
  BY <1>3, <1>6, Zenon DEF OpenFails, QueueFile, CacheGet, QueueRead, fsVars
<1>7. CASE QueueBlock \/ QueueDir \/ EndScan \/ Synced \/ Quiet \/ WakeMain \/ WakeWriter
  BY <1>3, <1>7, Zenon DEF QueueBlock, QueueDir, EndScan, Synced, Quiet, WakeMain, WakeWriter, fsVars,
                    mainVars
<1>8. CASE \E e \in Entries : Fill(e)
  BY <1>3, <1>8, Zenon DEF Fill, fsVars, mainVars
<1>9. CASE WriterTake \/ WriterBlock \/ WriterSleep \/ Skip \/ Put
  BY <1>3, <1>9, Zenon DEF WriterTake, WriterBlock, WriterSleep, Skip, Put, fsVars, mainVars
<1> QED
  BY <1>4, <1>5, <1>6, <1>7, <1>8, <1>9, Cases, Zenon

-----------------------------------------------------------------------------
\* The library of finite sets, not needed before this point.
INSTANCE FiniteSetTheorems

(* The facts about finite sets that the lemmas assume.                       *)
LEMMA FiniteSetsHave == FiniteSetFacts
<1>1. \A S : IsFiniteSet(S) => Cardinality(S) \in Nat
  BY FS_CardinalityType, Zenon
<1>2. \A S, x : IsFiniteSet(S) =>
         /\ IsFiniteSet(S \cup {x})
         /\ x \notin S => Cardinality(S \cup {x}) = Cardinality(S) + 1
  BY FS_AddElement, Zenon
<1>3. \A S, x : IsFiniteSet(S) =>
         /\ IsFiniteSet(S \ {x})
         /\ x \in S => Cardinality(S \ {x}) = Cardinality(S) - 1
  BY FS_RemoveElement, Zenon
<1>4. \A S, T : IsFiniteSet(S) /\ T \subseteq S =>
         IsFiniteSet(T) /\ Cardinality(T) <= Cardinality(S)
  BY FS_Subset, Zenon
<1>5. \A n \in Nat : IsFiniteSet(1..n)
  BY FS_Interval
<1>6. ASSUME NEW S, NEW T, NEW f \in [S -> T], IsFiniteSet(S),
             \A a, b \in S : f[a] = f[b] => a = b,
             \A t \in T : \E a \in S : f[a] = t
      PROVE  Cardinality(T) = Cardinality(S)
  <2>1. f \in Bijection(S, T)
    BY <1>6, Zenon DEF Bijection, Injection, Surjection, IsInjective
  <2> QED
    BY <1>6, <2>1, FS_Bijection, Zenon DEF ExistsBijection
<1> QED
  BY <1>1, <1>2, <1>3, <1>4, <1>5, <1>6, FS_EmptySet, Zenon DEF FiniteSetFacts

(* The inductive invariant. *)
THEOREM UnsquashInvariant == Spec => []IInv
<1>1. Init => IInv
  BY FiniteSetsHave, InitIInv, Zenon
<1>2. IInv /\ [Next]_vars => IInv'
  BY FiniteSetsHave, NextIInv, Zenon
<1> QED
  BY <1>1, <1>2, PTL DEF Spec

(* write_file's references: an entry holds the block that main, the queue    *)
(* and the writer want of it, each of them is counted in used, and the free  *)
(* list of cache_get has the entries that nobody uses and no other.          *)
THEOREM UnsquashReferencesHold == Spec => []ReferencesHold
<1>1. IInv => ReferencesHold
  BY FiniteSetsHave, ImpliesReferencesHold, Zenon
<1> QED
  BY <1>1, UnsquashInvariant, PTL

(* The waits of cache_get and cache_block_wait: no thread sleeps past the    *)
(* call that should have woken it.                                           *)
THEOREM UnsquashNoLostWakeup == Spec => []NoLostWakeup
<1>1. IInv => NoLostWakeup
  BY Zenon DEF IInv
<1> QED
  BY <1>1, UnsquashInvariant, PTL

(* writer(): when main has heard from the writer, every file that exists has *)
(* all its blocks in order.                                                  *)
THEOREM UnsquashFilesComplete == Spec => []FilesComplete
<1>1. IInv => FilesComplete
  BY ImpliesFilesComplete, Zenon
<1> QED
  BY <1>1, UnsquashInvariant, PTL

(* open_wait and close_wake: the count is the limit less the open files.     *)
THEOREM UnsquashOpenCountKept == Spec => []OpenCountKept
<1>1. IInv => OpenCountKept
  BY Zenon DEF IInv, Opened, OpenCountKept
<1> QED
  BY <1>1, UnsquashInvariant, PTL

(* queue_dir: nothing is created in a directory or removed from it after its *)
(* attributes were set.                                                      *)
THEOREM UnsquashDirStable == Spec => DirStable
<1>1. IInv /\ [Next]_vars => \A d \in closed : Contents(d)' = Contents(d)
  BY ClosedStays, Zenon
<1> QED
  BY <1>1, UnsquashInvariant, PTL DEF Spec, DirStable
=============================================================================
