---------------------------- MODULE RunLogProofs ----------------------------
(***************************************************************************)
(* Proofs about RunLog, for any number of runs and agents, any number of   *)
(* failed appends, restarts and edits, and any deletion of the file.       *)
(*                                                                         *)
(* The chain depends on the file, the tip and the load flag.  ChainInv     *)
(* says that the tip in memory is the hash of the last row on file, and    *)
(* EditInv that every row on file carries the hash of its content before   *)
(* any edit.  What the process shows depends on the rows in memory:        *)
(* TypeInv gives them their type, LastInv says which of them an idle       *)
(* agent's last run is, and ReportInv that those of finished runs are the  *)
(* lines on file.  They rest on lemmas about Selected, which takes the     *)
(* elements at some positions out of a sequence.                           *)
(***************************************************************************)
EXTENDS RunLog, SequenceTheorems, NaturalSets, TLAPS

CountType == [faults : Nat, misreads : Nat, restarts : Nat, edits : Nat, deletes : Nat]

LogTypeOK ==
  /\ file \in Seq(Line) /\ tail \in {"clean", "torn"}
  /\ last \in Hash /\ loaded \in BOOLEAN
  /\ edited \in BOOLEAN /\ severed \in BOOLEAN
  /\ count \in CountType

(* What the run was appended as: the hash of a row ignores later edits.    *)
Original(row)  == [run |-> row.body.run, edited |-> FALSE]
Stamped(row)   == row.hash = HashOf(row.prev, Original(row))
RowsStamped    == \A i \in 1 .. Len(file) : file[i] # Garbage => Stamped(file[i])
EditOnFile     == edited => \E i \in 1 .. Len(file) : file[i] # Garbage /\ file[i].body.edited
EditInv        == LogTypeOK /\ RowsStamped /\ EditOnFile

Untouched      == count.faults = 0 /\ ~edited /\ ~severed
WholeLines     == count.faults = 0 => tail = "clean"
TipOfFile      == loaded => last = Tip
ChainInv       == LogTypeOK /\ WholeLines /\ (Untouched => Verified /\ TipOfFile)

-----------------------------------------------------------------------------
(* The tip is a hash, whatever is on file.                                 *)
LEMMA TipType == ASSUME file \in Seq(Line) PROVE Tip \in Hash
<1>1. CASE \E i \in 1 .. Len(file) : LastReadable(i)
  <2>. DEFINE k == CHOOSE i \in 1 .. Len(file) : LastReadable(i)
  <2>1. k \in 1 .. Len(file) /\ LastReadable(k)  BY <1>1
  <2>2. file[k] \in Line  BY <2>1, ElementOfSeq
  <2>3. file[k] \in Row  BY <2>1, <2>2 DEF LastReadable, Line
  <2>4. Tip = file[k].hash  BY <1>1 DEF Tip
  <2>. QED  BY <2>3, <2>4 DEF Row
<1>2. CASE ~ \E i \in 1 .. Len(file) : LastReadable(i)
  BY <1>2 DEF Tip, Genesis, Hash
<1>. QED  BY <1>1, <1>2

(* Of a file whose lines are all readable, the tip is the last hash.       *)
AllReadable == file \in Seq(Line) /\ \A i \in 1 .. Len(file) : file[i] # Garbage
TipIsEnd    == Tip = IF Len(file) = 0 THEN Genesis ELSE file[Len(file)].hash

LEMMA TipIsLast == AllReadable => TipIsEnd
<1>. SUFFICES ASSUME AllReadable PROVE TipIsEnd
  OBVIOUS
<1>. USE DEF AllReadable, TipIsEnd
<1>0. Len(file) \in Nat  BY LenProperties
<1>1. CASE Len(file) = 0
  BY <1>0, <1>1 DEF Tip
<1>2. CASE Len(file) # 0
  <2>1. Len(file) \in 1 .. Len(file)  BY <1>0, <1>2
  <2>2. LastReadable(Len(file))  BY <1>0, <2>1 DEF LastReadable
  <2>3. \A i \in 1 .. Len(file) : LastReadable(i) => i = Len(file)
    <3>. SUFFICES ASSUME NEW i \in 1 .. Len(file), LastReadable(i), i # Len(file) PROVE FALSE
      OBVIOUS
    <3>1. Len(file) \in i + 1 .. Len(file)  BY <1>0
    <3>. QED  BY <3>1, <2>1 DEF LastReadable
  <2>4. (CHOOSE i \in 1 .. Len(file) : LastReadable(i)) = Len(file)  BY <2>1, <2>2, <2>3
  <2>. QED  BY <1>2, <2>1, <2>2, <2>4 DEF Tip
<1>. QED  BY <1>1, <1>2

LEMMA EmptyTypes == Genesis \in Hash /\ << >> \in Seq(Line)
BY DEF Genesis, Hash

(* Loading leaves a tip that is a hash.                                    *)
LEMMA LoadedLastType == ASSUME LogTypeOK PROVE LoadedLast \in Hash
BY TipType DEF LoadedLast, LogTypeOK

(* Two contents hash alike after the same row only if they are the same.   *)
LEMMA HashInjective ==
  ASSUME NEW prev \in Hash, NEW b \in Body, NEW c \in Body, HashOf(prev, b) = HashOf(prev, c)
  PROVE  b = c
<1>1. HashOf(prev, b)[Len(prev) + 1] = b /\ HashOf(prev, c)[Len(prev) + 1] = c
  BY DEF HashOf, Hash
<1>. QED  BY <1>1

(* A row built for a run of the process is a row, stamped and unedited.    *)
LEMMA NewRow ==
  ASSUME NEW r \in Runs, NEW prev \in Hash
  PROVE  LET body == [run |-> r, edited |-> FALSE]
             row  == [body |-> body, prev |-> prev, hash |-> HashOf(prev, body)]
         IN  row \in Row /\ row \in Line /\ HashOf(prev, body) \in Hash /\ Stamped(row)
                 /\ row # Garbage /\ Original(row) = body
<1>. DEFINE body == [run |-> r, edited |-> FALSE]
            row  == [body |-> body, prev |-> prev, hash |-> HashOf(prev, body)]
<1>1. body \in Body  BY DEF Body
<1>2. HashOf(prev, body) \in Hash  BY <1>1 DEF HashOf, Hash
<1>3. row \in Row  BY <1>1, <1>2 DEF Row
<1>4. Original(row) = body  BY DEF Original
<1>. QED  BY <1>2, <1>3, <1>4, LogAssumption DEF Line, Stamped, LogAssumption

-----------------------------------------------------------------------------
(* What each step does to the part of the state the chain depends on       *)

(* A step that only loads.                                                 *)
Loads == /\ loaded' = TRUE /\ last' = LoadedLast
         /\ UNCHANGED <<file, tail, edited, severed, count>>

LEMMA RunsLoad == (Read \/ \E r \in Runs : StartRun(r) \/ Trace(r)) => Loads
BY DEF Read, StartRun, Trace, Upsert, Loads

LEMMA LoadsType == ASSUME LogTypeOK, Loads PROVE LogTypeOK'
BY LoadedLastType DEF LogTypeOK, Loads

(* A row is appended, glued to a cut-off line, lost, or cut off itself.    *)
Appends(row) ==
  \/ tail = "clean" /\ file' = Append(file, row) /\ UNCHANGED <<tail, count>>
  \/ tail = "torn" /\ tail' = "clean" /\ UNCHANGED <<file, count>>
  \/ /\ count' = [count EXCEPT !.faults = @ + 1]
     /\ tail' \in {tail, "torn"}
     /\ file' \in {file, Append(file, Garbage)}

LEMMA AppendLineAppends == ASSUME NEW row, AppendLine(row) PROVE Appends(row)
BY DEF AppendLine, Appends

LEMMA AppendsType ==
  ASSUME LogTypeOK, NEW row \in Row, Appends(row)
  PROVE  /\ file' \in Seq(Line) /\ tail' \in {"clean", "torn"}
         /\ count' \in CountType
         /\ count'.faults = 0 => count.faults = 0
<1>1. row \in Line /\ Garbage \in Line  BY DEF Line
<1>2. Append(file, row) \in Seq(Line) /\ Append(file, Garbage) \in Seq(Line)
  BY <1>1 DEF LogTypeOK
<1>3. file' \in Seq(Line) /\ tail' \in {"clean", "torn"}  BY <1>2 DEF LogTypeOK, Appends
<1>4. count \in CountType  BY DEF LogTypeOK
<1>5. CASE count' = count  BY <1>3, <1>4, <1>5
<1>6. CASE count' = [count EXCEPT !.faults = @ + 1]
  <2>1. count' \in CountType  BY <1>4, <1>6 DEF CountType
  <2>2. count'.faults # 0  BY <1>4, <1>6 DEF CountType
  <2>. QED  BY <1>3, <2>1, <2>2
<1>. QED  BY <1>5, <1>6 DEF Appends

(* What the step that records a run writes.                                *)
LEMMA RecordEffect ==
  ASSUME NEW r \in Runs, RecordRun(r), LogTypeOK
  PROVE  \E row \in Row : /\ row.prev = LoadedLast /\ Stamped(row) /\ row # Garbage
                          /\ row.hash = HashOf(row.prev, row.body) /\ ~row.body.edited
                          /\ Appends(row) /\ loaded' = TRUE /\ last' = row.hash
                          /\ row.hash \in Hash /\ UNCHANGED <<edited, severed>>
<1>. DEFINE body == [run |-> r, edited |-> FALSE]
            row  == [body |-> body, prev |-> LoadedLast, hash |-> HashOf(LoadedLast, body)]
<1>1. LoadedLast \in Hash  BY LoadedLastType
<1>2. row \in Row /\ Stamped(row) /\ row # Garbage /\ HashOf(LoadedLast, body) \in Hash
  BY <1>1, NewRow
<1>3. AppendLine(row) /\ loaded' = TRUE /\ last' = row.hash /\ UNCHANGED <<edited, severed>>
  BY DEF RecordRun
<1>4. Appends(row)  BY <1>3, AppendLineAppends
<1>5. row.prev = LoadedLast /\ row.hash = HashOf(row.prev, row.body) /\ ~row.body.edited
  OBVIOUS
<1>. QED  BY <1>2, <1>3, <1>4, <1>5

(* An edit of a row leaves a row, and the others as they were.             *)
LEMMA EditEffect ==
  ASSUME LogTypeOK, NEW i \in 1 .. Len(file), Edit(i)
  PROVE  LET row == [file[i] EXCEPT !.body.edited = TRUE]
         IN  /\ row \in Row /\ row # Garbage /\ row.body.edited
             /\ row.hash = file[i].hash /\ row.prev = file[i].prev
             /\ Original(row) = Original(file[i])
             /\ file' \in Seq(Line) /\ Len(file') = Len(file)
             /\ \A j \in 1 .. Len(file) : file'[j] = IF j = i THEN row ELSE file[j]
<1>. DEFINE row == [file[i] EXCEPT !.body.edited = TRUE]
<1>1. file[i] \in Row
  <2>1. file[i] \in Line /\ file[i] # Garbage  BY ElementOfSeq DEF LogTypeOK, Edit
  <2>. QED  BY <2>1 DEF Line
<1>2. row \in Row /\ row.body.edited /\ row.hash = file[i].hash /\ row.prev = file[i].prev
  BY <1>1 DEF Row, Body
<1>3. Original(row) = Original(file[i])  BY <1>1 DEF Row, Body, Original
<1>4. row # Garbage /\ row \in Line  BY <1>2, LogAssumption DEF LogAssumption, Line
<1>5. file' = [file EXCEPT ![i] = row]  BY DEF Edit
<1>. HIDE DEF row
<1>6. /\ [file EXCEPT ![i] = row] \in Seq(Line)
      /\ Len([file EXCEPT ![i] = row]) = Len(file)
      /\ \A j \in 1 .. Len(file) : [file EXCEPT ![i] = row][j] = IF j = i THEN row ELSE file[j]
  BY <1>4, ExceptSeq DEF LogTypeOK
<1>. QED  BY <1>2, <1>3, <1>4, <1>5, <1>6 DEF row

-----------------------------------------------------------------------------
(* Edited rows show                                                        *)

LEMMA EditInit == Init => EditInv
<1>. SUFFICES ASSUME Init PROVE EditInv
  OBVIOUS
<1>1. LogTypeOK  BY EmptyTypes DEF Init, LogTypeOK, CountType
<1>2. file = << >> /\ ~edited  BY DEF Init
<1>. QED  BY <1>1, <1>2 DEF EditInv, RowsStamped, EditOnFile

LEMMA EditStep == EditInv /\ [Next]_vars => EditInv'
<1>. SUFFICES ASSUME EditInv, [Next]_vars PROVE EditInv'
  OBVIOUS
<1>. USE DEF EditInv
<1>0. Len(file) \in Nat  BY LenProperties DEF LogTypeOK
<1>1. CASE Loads
  <2>1. LogTypeOK'  BY <1>1, LoadsType
  <2>2. RowsStamped'  BY <1>1 DEF Loads, RowsStamped, Stamped, HashOf, Original
  <2>3. EditOnFile'  BY <1>1 DEF Loads, EditOnFile
  <2>. QED  BY <2>1, <2>2, <2>3
<1>2. ASSUME NEW r \in Runs, RecordRun(r) PROVE EditInv'
  <2>1. PICK row \in Row : /\ Stamped(row) /\ Appends(row) /\ loaded' = TRUE /\ last' = row.hash
                          /\ row.hash \in Hash /\ UNCHANGED <<edited, severed>>
    BY <1>2, RecordEffect
  <2>2. LogTypeOK'  BY <2>1, AppendsType DEF LogTypeOK
  <2>3. row \in Line /\ Garbage \in Line  BY DEF Line
  <2>4. ASSUME NEW line \in Line, file' = Append(file, line), line # Garbage => Stamped(line)
        PROVE  RowsStamped' /\ EditOnFile'
    <3>1. Len(file') = Len(file) + 1 /\ file'[Len(file) + 1] = line
          /\ \A i \in 1 .. Len(file) : file'[i] = file[i]
      BY <2>4 DEF LogTypeOK
    <3>2. \A i \in 1 .. Len(file') : file'[i] # Garbage => Stamped(file'[i])
      BY <1>0, <2>4, <3>1 DEF RowsStamped
    <3>3. RowsStamped'  BY <3>2 DEF RowsStamped, Stamped, HashOf, Original
    <3>4. EditOnFile'  BY <1>0, <2>1, <3>1 DEF EditOnFile
    <3>. QED  BY <3>3, <3>4
  <2>5. CASE UNCHANGED file  BY <2>1, <2>2, <2>5 DEF RowsStamped, EditOnFile, Stamped, HashOf, Original
  <2>. QED  BY <2>1, <2>2, <2>3, <2>4, <2>5 DEF Appends
<1>3. ASSUME NEW i \in 1 .. Len(file), Edit(i) PROVE EditInv'
  <2>. DEFINE row == [file[i] EXCEPT !.body.edited = TRUE]
  <2>1. /\ row # Garbage /\ row.body.edited
        /\ row.hash = file[i].hash /\ row.prev = file[i].prev
        /\ Original(row) = Original(file[i])
        /\ file' \in Seq(Line) /\ Len(file') = Len(file)
        /\ \A j \in 1 .. Len(file) : file'[j] = IF j = i THEN row ELSE file[j]
    BY <1>3, EditEffect
  <2>2. LogTypeOK'
    <3>1. count' \in CountType
      BY <1>3 DEF LogTypeOK, Edit, CountType
    <3>. QED  BY <1>3, <2>1, <3>1 DEF LogTypeOK, Edit, memory
  <2>. HIDE DEF row
  <2>3. RowsStamped'
    <3>1. file[i] # Garbage  BY <1>3 DEF Edit
    <3>2. Stamped(row)  BY <2>1, <3>1, <1>3 DEF RowsStamped, Stamped
    <3>3. \A j \in 1 .. Len(file') : file'[j] # Garbage => Stamped(file'[j])
      BY <2>1, <3>2 DEF RowsStamped
    <3>. QED  BY <3>3 DEF RowsStamped, Stamped, HashOf, Original
  <2>4. EditOnFile'  BY <2>1, <1>3 DEF EditOnFile
  <2>. QED  BY <2>2, <2>3, <2>4
<1>4. CASE Restart
  <2>1. count' \in CountType
    BY <1>4 DEF LogTypeOK, Restart, CountType
  <2>2. LogTypeOK'  BY <1>4, <2>1, EmptyTypes DEF LogTypeOK, Restart
  <2>3. UNCHANGED <<file, edited>>  BY <1>4 DEF Restart
  <2>. QED  BY <2>2, <2>3 DEF RowsStamped, EditOnFile, Stamped, HashOf, Original
<1>5. CASE Delete \/ Reset
  <2>1. count' \in CountType
    BY <1>5 DEF LogTypeOK, Delete, Reset, CountType
  <2>2. file' = << >> /\ edited' = FALSE  BY <1>5 DEF Delete, Reset
  <2>3. last' \in Hash /\ loaded' \in BOOLEAN /\ severed' \in BOOLEAN /\ tail' = "clean"
    BY <1>5, EmptyTypes DEF LogTypeOK, Delete, Reset, memory
  <2>4. LogTypeOK'  BY <2>1, <2>2, <2>3, EmptyTypes DEF LogTypeOK
  <2>5. RowsStamped' /\ EditOnFile'  BY <2>2 DEF RowsStamped, EditOnFile
  <2>. QED  BY <2>4, <2>5
<1>6. CASE UNCHANGED vars
  BY <1>6 DEF vars, memory, LogTypeOK, RowsStamped, EditOnFile, Stamped, HashOf, Original
<1>7. CASE Misread
  <2>1. count' \in CountType  BY <1>7 DEF LogTypeOK, Misread, CountType
  <2>2. UNCHANGED <<file, tail, last, edited>> /\ loaded' = TRUE /\ severed' = TRUE
    BY <1>7 DEF Misread
  <2>3. LogTypeOK'  BY <2>1, <2>2 DEF LogTypeOK
  <2>. QED  BY <2>2, <2>3 DEF RowsStamped, EditOnFile, Stamped, HashOf, Original
<1>. QED  BY <1>1, <1>2, <1>3, <1>4, <1>5, <1>6, <1>7, RunsLoad DEF Next

(* An edited row shows for as long as it is on file: verify_chain, over    *)
(* whatever was appended, cut off or lost around it, says no.              *)
THEOREM EditsShow == Spec => []EditShows
<1>1. EditInv => EditShows
  <2>. SUFFICES ASSUME EditInv, edited, Verified PROVE FALSE
    BY DEF EditShows
  <2>1. PICK i \in 1 .. Len(file) : file[i] # Garbage /\ file[i].body.edited
    BY DEF EditInv, EditOnFile
  <2>2. file[i] \in Row
    <3>1. file[i] \in Line  BY ElementOfSeq DEF EditInv, LogTypeOK
    <3>. QED  BY <2>1, <3>1 DEF Line
  <2>3. file[i].hash = HashOf(file[i].prev, Original(file[i]))
    BY <2>1 DEF EditInv, RowsStamped, Stamped
  <2>4. file[i].hash = HashOf(file[i].prev, file[i].body)  BY DEF Verified
  <2>5. Original(file[i]) \in Body /\ file[i].body \in Body /\ file[i].prev \in Hash
    BY <2>2 DEF Original, Body, Row
  <2>6. file[i].body = Original(file[i])  BY <2>3, <2>4, <2>5, HashInjective
  <2>. QED  BY <2>1, <2>6 DEF Original
<1>. QED  BY <1>1, EditInit, EditStep, PTL DEF Spec

-----------------------------------------------------------------------------
(* The chain verifies                                                      *)

LEMMA ChainInit == Init => ChainInv
<1>. SUFFICES ASSUME Init PROVE ChainInv
  OBVIOUS
<1>1. LogTypeOK  BY EditInit DEF EditInv
<1>2. file = << >> /\ tail = "clean" /\ loaded = FALSE  BY DEF Init
<1>. QED  BY <1>1, <1>2 DEF ChainInv, WholeLines, Verified, TipOfFile

(* The type of the state is kept: EditStep has proved it.                  *)
LEMMA LogTypeStep == EditInv /\ [Next]_vars => LogTypeOK'
BY EditStep DEF EditInv

(* A row chained to the tip of a file that verifies leaves one that does.  *)
LEMMA ChainedRow ==
  ASSUME LogTypeOK, Verified, NEW row \in Row, row # Garbage, row.prev = Tip,
         row.hash = HashOf(row.prev, row.body), file' = Append(file, row), last' = row.hash
  PROVE  Verified' /\ TipOfFile'
<1>0. Len(file) \in Nat  BY LenProperties DEF LogTypeOK
<1>1. row \in Line  BY DEF Line
<1>2. file' \in Seq(Line) /\ Len(file') = Len(file) + 1 /\ file'[Len(file) + 1] = row
      /\ \A i \in 1 .. Len(file) : file'[i] = file[i]
  BY <1>1 DEF LogTypeOK
<1>3. \A i \in 1 .. Len(file) : file[i] # Garbage  BY DEF Verified
<1>4. Tip = IF Len(file) = 0 THEN Genesis ELSE file[Len(file)].hash
  BY <1>3, TipIsLast DEF AllReadable, TipIsEnd, LogTypeOK
<1>5. ASSUME NEW i \in 1 .. Len(file')
      PROVE  /\ file'[i] # Garbage
             /\ file'[i].hash = HashOf(file'[i].prev, file'[i].body)
             /\ file'[i].prev = IF i = 1 THEN Genesis ELSE file'[i - 1].hash
  <2>1. CASE i = Len(file) + 1
    <3>1. CASE Len(file) = 0  BY <1>2, <1>4, <2>1, <3>1
    <3>2. CASE Len(file) # 0
      <4>1. i # 1 /\ i - 1 = Len(file) /\ Len(file) \in 1 .. Len(file)  BY <1>0, <2>1, <3>2
      <4>2. file'[i - 1] = file[Len(file)]  BY <1>2, <4>1
      <4>. QED  BY <1>2, <1>4, <2>1, <3>2, <4>1, <4>2
    <3>. QED  BY <3>1, <3>2
  <2>2. CASE i # Len(file) + 1
    <3>1. i \in 1 .. Len(file) /\ (i # 1 => i - 1 \in 1 .. Len(file))  BY <1>0, <1>2, <2>2
    <3>. QED  BY <1>2, <3>1 DEF Verified
  <2>. QED  BY <2>1, <2>2
<1>6. Verified'  BY <1>5 DEF Verified, HashOf
<1>7. Tip' = row.hash
  <2>1. AllReadable'  BY <1>2, <1>5 DEF AllReadable, Line, Row, Hash, Body
  <2>2. TipIsEnd'  BY <2>1, TipIsLast, PTL
  <2>3. Len(file') # 0 /\ file'[Len(file')] = row  BY <1>0, <1>2
  <2>. QED  BY <2>2, <2>3 DEF TipIsEnd
<1>. QED  BY <1>6, <1>7 DEF TipOfFile

LEMMA ChainStep == EditInv /\ ChainInv /\ [Next]_vars => ChainInv'
<1>. SUFFICES ASSUME EditInv, ChainInv, [Next]_vars PROVE ChainInv'
  OBVIOUS
<1>0. LogTypeOK /\ LogTypeOK'  BY LogTypeStep DEF ChainInv
<1>. USE DEF ChainInv
<1>1. CASE Loads
  <2>1. WholeLines' /\ (Untouched' => Untouched)  BY <1>1 DEF Loads, WholeLines, Untouched
  <2>2. UNCHANGED file /\ last' = LoadedLast  BY <1>1 DEF Loads
  <2>3. Tip' = Tip /\ (Verified => Verified')
    BY <2>2 DEF Tip, LastReadable, Genesis, Verified, HashOf
  <2>4. Untouched => TipOfFile'  BY <2>2, <2>3 DEF TipOfFile, LoadedLast
  <2>. QED  BY <1>0, <2>1, <2>3, <2>4
<1>2. ASSUME NEW r \in Runs, RecordRun(r) PROVE ChainInv'
  <2>1. PICK row \in Row : /\ row.prev = LoadedLast /\ row # Garbage
                          /\ row.hash = HashOf(row.prev, row.body) /\ Appends(row)
                          /\ last' = row.hash /\ UNCHANGED <<edited, severed>>
    BY <1>0, <1>2, RecordEffect
  <2>2. count'.faults = 0 => count.faults = 0  BY <1>0, <2>1, AppendsType
  <2>3. CASE count'.faults = 0
    <3>1. tail = "clean"  BY <2>2, <2>3 DEF WholeLines
    <3>2. file' = Append(file, row) /\ UNCHANGED <<tail, count>>
      <4>1. ~ count' = [count EXCEPT !.faults = @ + 1]
        <5>. SUFFICES ASSUME count' = [count EXCEPT !.faults = @ + 1] PROVE FALSE
          OBVIOUS
        <5>1. count'.faults = count.faults + 1 /\ count.faults \in Nat  BY <1>0 DEF LogTypeOK, CountType
        <5>. QED  BY <2>3, <5>1
      <4>. QED  BY <2>1, <3>1, <4>1 DEF Appends
    <3>3. WholeLines'  BY <3>1, <3>2 DEF WholeLines
    <3>4. Untouched' => Untouched  BY <2>1, <3>2 DEF Untouched
    <3>5. Untouched => row.prev = Tip  BY <2>1 DEF LoadedLast, TipOfFile
    <3>6. Untouched => Verified' /\ TipOfFile'
      BY <1>0, <2>1, <3>2, <3>5, ChainedRow
    <3>. QED  BY <1>0, <3>3, <3>4, <3>6
  <2>4. CASE count'.faults # 0  BY <1>0, <2>4 DEF WholeLines, Untouched
  <2>. QED  BY <2>3, <2>4
<1>3. ASSUME NEW i \in 1 .. Len(file), Edit(i) PROVE ChainInv'
  <2>1. count'.faults = count.faults /\ edited' = TRUE /\ UNCHANGED tail
    BY <1>0, <1>3 DEF LogTypeOK, Edit
  <2>. QED  BY <1>0, <2>1 DEF WholeLines, Untouched
<1>4. CASE Restart
  <2>1. count'.faults = count.faults /\ ~loaded' /\ UNCHANGED <<file, tail, edited, severed>>
    BY <1>0, <1>4 DEF LogTypeOK, Restart
  <2>2. WholeLines' /\ (Untouched' => Untouched)  BY <2>1 DEF WholeLines, Untouched
  <2>3. TipOfFile' /\ (Verified => Verified')  BY <2>1 DEF TipOfFile, Verified, HashOf
  <2>. QED  BY <1>0, <2>2, <2>3
<1>5. CASE Delete \/ Reset
  <2>1. file' = << >> /\ tail' = "clean"  BY <1>5 DEF Delete, Reset
  <2>2. (severed' = loaded') \/ ~loaded'
    BY <1>5 DEF Delete, Reset, memory
  <2>3. Verified' /\ WholeLines'  BY <2>1 DEF Verified, WholeLines
  <2>4. Untouched' => TipOfFile'  BY <2>2 DEF Untouched, TipOfFile
  <2>. QED  BY <1>0, <2>3, <2>4
<1>6. CASE UNCHANGED vars
  <2>1. UNCHANGED <<file, tail, last, loaded, edited, severed, count>>  BY <1>6 DEF vars, memory
  <2>2. Tip' = Tip /\ (Verified => Verified')
    BY <2>1 DEF Tip, LastReadable, Genesis, Verified, HashOf
  <2>. QED  BY <1>0, <2>1, <2>2 DEF WholeLines, Untouched, TipOfFile
<1>7. CASE Misread
  <2>1. severed' = TRUE /\ UNCHANGED tail /\ count'.faults = count.faults
    BY <1>0, <1>7 DEF Misread, LogTypeOK, CountType
  <2>. QED  BY <1>0, <2>1 DEF WholeLines, Untouched
<1>. QED  BY <1>1, <1>2, <1>3, <1>4, <1>5, <1>6, <1>7, RunsLoad DEF Next

(* Left alone, the chain verifies: across restarts, and however runs       *)
(* overlap, a row is chained to the last row on file.                      *)
THEOREM ChainHolds == Spec => []ChainVerifies
<1>1. ChainInv => ChainVerifies  BY DEF ChainInv, ChainVerifies, Untouched
<1>. QED  BY <1>1, EditInit, EditStep, ChainInit, ChainStep, PTL DEF Spec

-----------------------------------------------------------------------------
(* What Selected returns                                                   *)

(* Positions are finitely many numbers.                                    *)
LEMMA FinitePositions ==
  ASSUME NEW m \in Nat, NEW S, S \subseteq 1 .. m
  PROVE  /\ IsFiniteSet(S) /\ Cardinality(S) \in Nat
         /\ \A j \in S : j \in Nat /\ 1 <= j /\ j <= m
<1>1. IsFiniteSet(1 .. m)  BY FS_Interval
<1>2. S \in SUBSET (1 .. m)  OBVIOUS
<1>3. IsFiniteSet(S)  BY <1>1, <1>2, FS_Subset
<1>4. \A j \in S : j \in 1 .. m  OBVIOUS
<1>. QED  BY <1>3, <1>4, FS_CardinalityType

(* The positions up to i are one more than those before it when i is one.  *)
LEMMA RankStep ==
  ASSUME NEW S, IsFiniteSet(S), \A j \in S : j \in Nat, NEW i \in Nat
  PROVE  /\ Rank(S, i) \in Nat
         /\ Rank(S, i + 1) = IF i + 1 \in S THEN Rank(S, i) + 1 ELSE Rank(S, i)
<1>. DEFINE T == {j \in S : j <= i}
            U == {j \in S : j <= i + 1}
<1>1. IsFiniteSet(T) /\ Cardinality(T) \in Nat  BY FS_Subset, FS_CardinalityType
<1>2. CASE i + 1 \in S
  <2>1. \A j \in S : j <= i + 1 <=> j <= i \/ j = i + 1  OBVIOUS
  <2>2. U = T \cup {i + 1}  BY <1>2, <2>1
  <2>3. i + 1 \notin T  OBVIOUS
  <2>. HIDE DEF T, U
  <2>4. Cardinality(U) = Cardinality(T) + 1  BY <1>1, <2>2, <2>3, FS_AddElement
  <2>. QED  BY <1>1, <1>2, <2>4 DEF T, U, Rank
<1>3. CASE i + 1 \notin S
  <2>1. \A j \in S : j <= i + 1 <=> j <= i
    <3>1. \A j \in S : j # i + 1  BY <1>3
    <3>. QED  BY <3>1
  <2>2. U = T  BY <2>1
  <2>. QED  BY <1>1, <1>3, <2>2 DEF Rank
<1>. QED  BY <1>2, <1>3

(* Two positions of the same rank are one.                                 *)
LEMMA RankUnique ==
  ASSUME NEW S, IsFiniteSet(S), \A j \in S : j \in Nat, NEW i \in S, NEW j \in S,
         Rank(S, i) = Rank(S, j)
  PROVE  i = j
<1>1. ASSUME NEW a \in S, NEW b \in S, a < b, Rank(S, a) = Rank(S, b) PROVE FALSE
  <2>. DEFINE T == {k \in S : k <= a}
              U == {k \in S : k <= b}
  <2>1. T \in SUBSET U /\ IsFiniteSet(U)
    <3>1. a \in Nat /\ b \in Nat  OBVIOUS
    <3>2. \A k \in S : k <= a => k <= b  BY <1>1, <3>1
    <3>3. U \in SUBSET S  OBVIOUS
    <3>4. IsFiniteSet(U)  BY <3>3, FS_Subset
    <3>. QED  BY <3>2, <3>4
  <2>2. b \in U /\ b \notin T  BY <1>1
  <2>3. Cardinality(U) = Cardinality(T)  BY <1>1 DEF Rank
  <2>. HIDE DEF T, U
  <2>. QED  BY <2>1, <2>2, <2>3, FS_Subset
<1>2. i \in Nat /\ j \in Nat  OBVIOUS
<1>. QED  BY <1>1, <1>2

(* Every rank up to the number of positions is that of a position.         *)
LEMMA RankReached ==
  ASSUME NEW m \in Nat, NEW S, S \subseteq 1 .. m, NEW n \in 1 .. Cardinality(S)
  PROVE  \E i \in S : Rank(S, i) = n
<1>. DEFINE T == {i \in Nat : n <= Rank(S, i)}
<1>1. IsFiniteSet(S) /\ Cardinality(S) \in Nat /\ \A j \in S : j \in Nat /\ 1 <= j /\ j <= m
  BY FinitePositions
<1>2. Rank(S, 0) = 0
  <2>1. {j \in S : j <= 0} = {}
    <3>1. \A j \in S : ~ (j <= 0)  BY <1>1
    <3>. QED  BY <3>1
  <2>. QED  BY <2>1, FS_EmptySet DEF Rank
<1>3. Rank(S, m) = Cardinality(S)
  <2>1. {j \in S : j <= m} = S  BY <1>1
  <2>. QED  BY <2>1 DEF Rank
<1>4. m \in T  BY <1>1, <1>3
<1>5. PICK i \in T : \A k \in T : i <= k
  <2>1. T \subseteq Nat /\ T # {}  BY <1>4
  <2>. HIDE DEF T
  <2>. QED  BY <2>1, LeastNatural
<1>6. i \in Nat /\ n <= Rank(S, i) /\ n \in Nat /\ n > 0  BY <1>1
<1>7. i # 0  BY <1>2, <1>6
<1>8. i - 1 \in Nat /\ (i - 1) + 1 = i  BY <1>6, <1>7
<1>9. ~ (n <= Rank(S, i - 1))
  <2>1. i - 1 \notin T
    <3>. HIDE DEF T
    <3>. QED  BY <1>5, <1>6, <1>8
  <2>. QED  BY <1>8, <2>1
<1>10. /\ Rank(S, i - 1) \in Nat
       /\ Rank(S, i) = IF i \in S THEN Rank(S, i - 1) + 1 ELSE Rank(S, i - 1)
  <2>. DEFINE h == i - 1
  <2>1. h \in Nat /\ h + 1 = i  BY <1>8
  <2>. HIDE DEF h
  <2>2. Rank(S, h) \in Nat /\ Rank(S, h + 1) = IF h + 1 \in S THEN Rank(S, h) + 1 ELSE Rank(S, h)
    BY <1>1, <2>1, RankStep
  <2>. QED  BY <2>1, <2>2 DEF h
<1>. QED  BY <1>6, <1>9, <1>10

(* The position Selected takes its n-th element from.                      *)
Nth(S, n) == CHOOSE i \in S : Rank(S, i) = n

LEMMA NthIs ==
  ASSUME NEW m \in Nat, NEW S, S \subseteq 1 .. m, NEW n \in 1 .. Cardinality(S)
  PROVE  Nth(S, n) \in S /\ Rank(S, Nth(S, n)) = n
BY RankReached DEF Nth

LEMMA NthOf ==
  ASSUME NEW m \in Nat, NEW S, S \subseteq 1 .. m, NEW i \in S
  PROVE  Nth(S, Rank(S, i)) = i
<1>1. IsFiniteSet(S) /\ \A j \in S : j \in Nat  BY FinitePositions
<1>2. \A k \in S : Rank(S, k) = Rank(S, i) => k = i  BY <1>1, RankUnique
<1>. QED  BY <1>2 DEF Nth

(* Of a sequence, Selected is a sequence of its elements, one a position.  *)
LEMMA SelectedType ==
  ASSUME NEW X, NEW s \in Seq(X), NEW S, S \subseteq 1 .. Len(s),
         NEW Y, \A i \in S : s[i] \in Y
  PROVE  /\ Selected(s, S) \in Seq(Y) /\ Len(Selected(s, S)) = Cardinality(S)
         /\ Cardinality(S) \in Nat
         /\ \A n \in 1 .. Cardinality(S) :
              Selected(s, S)[n] = s[Nth(S, n)] /\ Nth(S, n) \in S
<1>1. Len(s) \in Nat  BY LenProperties
<1>2. Cardinality(S) \in Nat  BY <1>1, FinitePositions
<1>3. \A n \in 1 .. Cardinality(S) : Nth(S, n) \in S  BY <1>1, NthIs
<1>4. Selected(s, S) = [n \in 1 .. Cardinality(S) |-> s[Nth(S, n)]]  BY DEF Selected, Nth
<1>5. \A n \in 1 .. Cardinality(S) : s[Nth(S, n)] \in Y  BY <1>3
<1>6. [n \in 1 .. Cardinality(S) |-> s[Nth(S, n)]] \in Seq(Y)  BY <1>2, <1>5, IsASeq
<1>. QED  BY <1>2, <1>3, <1>4, <1>6

(* With every position it is the sequence itself.                          *)
LEMMA SelectedAll ==
  ASSUME NEW X, NEW s \in Seq(X)
  PROVE  Selected(s, 1 .. Len(s)) = s
<1>. DEFINE S == 1 .. Len(s)
<1>1. Len(s) \in Nat /\ s = [n \in 1 .. Len(s) |-> s[n]]  BY LenProperties
<1>2. Cardinality(S) = Len(s)  BY <1>1, FS_Interval
<1>3. ASSUME NEW n \in S PROVE Nth(S, n) = n
  <2>1. {j \in S : j <= n} = 1 .. n  BY <1>1
  <2>2. n \in Nat /\ Cardinality(1 .. n) = n  BY <1>1, FS_Interval
  <2>3. Rank(S, n) = n  BY <2>1, <2>2 DEF Rank
  <2>. HIDE DEF S
  <2>4. S \subseteq 1 .. Len(s)  BY DEF S
  <2>5. Nth(S, Rank(S, n)) = n  BY <1>1, <2>4, NthOf
  <2>. QED  BY <2>3, <2>5
<1>4. Selected(s, S) = [n \in 1 .. Len(s) |-> s[Nth(S, n)]]  BY <1>2 DEF Selected, Nth
<1>. QED  BY <1>1, <1>3, <1>4

(* A later element leaves the ranks of the earlier positions as they are.  *)
LEMMA RankOfGrown ==
  ASSUME NEW m \in Nat, NEW S, S \subseteq 1 .. m, NEW i \in 1 .. m
  PROVE  Rank(S \cup {m + 1}, i) = Rank(S, i)
<1>1. {j \in S \cup {m + 1} : j <= i} = {j \in S : j <= i}  OBVIOUS
<1>. QED  BY <1>1 DEF Rank

(* Selected of a longer sequence: the same, when the new element is not    *)
(* selected, and with it at the end when it is.                            *)
LEMMA SelectedSame ==
  ASSUME NEW X, NEW s \in Seq(X), NEW e \in X, NEW S, S \subseteq 1 .. Len(s)
  PROVE  Selected(Append(s, e), S) = Selected(s, S)
<1>1. Len(s) \in Nat /\ \A i \in 1 .. Len(s) : Append(s, e)[i] = s[i]
  OBVIOUS
<1>2. \A n \in 1 .. Cardinality(S) : Nth(S, n) \in 1 .. Len(s)  BY <1>1, NthIs
<1>3. \A n \in 1 .. Cardinality(S) : Append(s, e)[Nth(S, n)] = s[Nth(S, n)]
  BY <1>1, <1>2
<1>. QED  BY <1>3 DEF Selected, Nth

LEMMA SelectedMore ==
  ASSUME NEW X, NEW s \in Seq(X), NEW e \in X, NEW S, S \subseteq 1 .. Len(s)
  PROVE  Selected(Append(s, e), S \cup {Len(s) + 1}) = Append(Selected(s, S), e)
<1>. DEFINE m == Len(s)
            T == S \cup {m + 1}
            c == Cardinality(S)
            t == Append(s, e)
<1>1. /\ m \in Nat /\ t \in Seq(X) /\ Len(t) = m + 1 /\ t[m + 1] = e
      /\ \A i \in 1 .. m : t[i] = s[i]
  OBVIOUS
<1>2. /\ IsFiniteSet(S) /\ c \in Nat
      /\ \A j \in S : j \in Nat /\ 1 <= j /\ j <= m
  BY <1>1, FinitePositions
<1>3. Cardinality(T) = c + 1
  <2>1. m + 1 \notin S  BY <1>1, <1>2
  <2>. QED  BY <1>2, <2>1, FS_AddElement
<1>4. T \subseteq 1 .. m + 1
  <2>1. \A j \in T : j \in Nat /\ 1 <= j /\ j <= m + 1  BY <1>1, <1>2
  <2>. HIDE DEF T
  <2>. QED  BY <1>1, <2>1
<1>. HIDE DEF m
<1>5. ASSUME NEW n \in 1 .. c PROVE Nth(T, n) = Nth(S, n)
  <2>1. Nth(S, n) \in S /\ Rank(S, Nth(S, n)) = n  BY <1>1, NthIs DEF m
  <2>2. Nth(S, n) \in T /\ Nth(S, n) \in 1 .. m  BY <2>1 DEF m
  <2>3. Rank(T, Nth(S, n)) = n
    <3>1. S \subseteq 1 .. m  BY DEF m
    <3>2. Rank(T, Nth(S, n)) = Rank(S, Nth(S, n))  BY <1>1, <2>2, <3>1, RankOfGrown
    <3>. QED  BY <2>1, <3>2
  <2>. HIDE DEF T
  <2>4. m + 1 \in Nat  BY <1>1
  <2>5. Nth(T, Rank(T, Nth(S, n))) = Nth(S, n)  BY <1>4, <2>2, <2>4, NthOf
  <2>. QED  BY <2>3, <2>5
<1>6. Nth(T, c + 1) = m + 1
  <2>1. {j \in T : j <= m + 1} = T
    <3>. HIDE DEF T
    <3>1. \A j \in T : j \in 1 .. m + 1  BY <1>4
    <3>2. \A j \in T : j <= m + 1  BY <1>1, <3>1
    <3>. QED  BY <3>2
  <2>2. Rank(T, m + 1) = c + 1 /\ m + 1 \in T  BY <1>3, <2>1 DEF Rank
  <2>. HIDE DEF T
  <2>3. m + 1 \in Nat  BY <1>1
  <2>4. Nth(T, Rank(T, m + 1)) = m + 1  BY <1>4, <2>2, <2>3, NthOf
  <2>. QED  BY <2>2, <2>4
<1>7. Selected(t, T) = [n \in 1 .. c + 1 |-> t[Nth(T, n)]]  BY <1>3 DEF Selected, Nth
<1>8. /\ Selected(s, S) \in Seq(X) /\ Len(Selected(s, S)) = c
      /\ \A n \in 1 .. c : Selected(s, S)[n] = s[Nth(S, n)] /\ Nth(S, n) \in S
  <2>1. \A i \in S : s[i] \in X  BY ElementOfSeq
  <2>. QED  BY <2>1, SelectedType
<1>9. \A n \in 1 .. c : t[Nth(T, n)] = Selected(s, S)[n]
  <2>. SUFFICES ASSUME NEW n \in 1 .. c PROVE t[Nth(T, n)] = Selected(s, S)[n]
    OBVIOUS
  <2>1. Nth(T, n) = Nth(S, n) /\ Nth(S, n) \in 1 .. m  BY <1>5, <1>8 DEF m
  <2>. QED  BY <1>1, <1>8, <2>1
<1>10. Append(Selected(s, S), e)
         = [n \in 1 .. c + 1 |-> IF n = c + 1 THEN e ELSE Selected(s, S)[n]]
  <2>. DEFINE u == Selected(s, S)
  <2>. HIDE DEF u
  <2>1. u \in Seq(X) /\ Len(u) = c  BY <1>8 DEF u
  <2>2. /\ Append(u, e) = [n \in 1 .. Len(u) + 1 |-> Append(u, e)[n]]
        /\ \A n \in 1 .. Len(u) : Append(u, e)[n] = u[n]
        /\ Append(u, e)[Len(u) + 1] = e
    <3>1. Append(u, e) \in Seq(X) /\ Len(Append(u, e)) = Len(u) + 1  BY <2>1
    <3>2. Append(u, e) = [n \in DOMAIN Append(u, e) |-> Append(u, e)[n]]
          /\ DOMAIN Append(u, e) = 1 .. Len(u) + 1
      BY <3>1, LenProperties
    <3>. QED  BY <2>1, <3>2
  <2>3. [n \in 1 .. c + 1 |-> Append(u, e)[n]]
          = [n \in 1 .. c + 1 |-> IF n = c + 1 THEN e ELSE u[n]]
    <3>. SUFFICES ASSUME NEW n \in 1 .. c + 1
                  PROVE  Append(u, e)[n] = IF n = c + 1 THEN e ELSE u[n]
      OBVIOUS
    <3>1. n = c + 1 \/ n \in 1 .. c  BY <1>2
    <3>. HIDE DEF c
    <3>. QED  BY <2>1, <2>2, <3>1
  <2>. QED  BY <2>1, <2>2, <2>3 DEF u
<1>11. [n \in 1 .. c + 1 |-> t[Nth(T, n)]]
         = [n \in 1 .. c + 1 |-> IF n = c + 1 THEN e ELSE Selected(s, S)[n]]
  <2>. SUFFICES ASSUME NEW n \in 1 .. c + 1
                PROVE  t[Nth(T, n)] = IF n = c + 1 THEN e ELSE Selected(s, S)[n]
    OBVIOUS
  <2>1. n = c + 1 \/ n \in 1 .. c  BY <1>2
  <2>. HIDE DEF T, t, c
  <2>. QED  BY <1>1, <1>6, <1>9, <2>1
<1>. QED  BY <1>7, <1>10, <1>11 DEF m

-----------------------------------------------------------------------------
(* The types of the whole state                                            *)

RunsType     == [Runs -> [phase : {"new", "open", "done", "lost"}, agent : Agents]]
MemoryTypeOK == /\ records \in Seq(Entry) /\ byAgent \in [Agents -> Entry \cup {NoEntry}]
                /\ runs \in RunsType
TypeInv      == EditInv /\ MemoryTypeOK

(* The chained rows among some entries.                                    *)
Chained(rows) == {i \in 1 .. Len(rows) : rows[i].hash # Genesis}

(* What the file is read into: entries, all of them chained.               *)
LEMMA ReadRowsType ==
  ASSUME file \in Seq(Line)
  PROVE  /\ ReadRows \in Seq(Row)
         /\ \A n \in 1 .. Len(ReadRows) : \E i \in Readable : ReadRows[n] = file[i]
<1>1. Readable \subseteq 1 .. Len(file)  BY DEF Readable
<1>2. \A i \in Readable : file[i] \in Row
  <2>. SUFFICES ASSUME NEW i \in Readable PROVE file[i] \in Row
    OBVIOUS
  <2>1. i \in 1 .. Len(file) /\ file[i] # Garbage  BY DEF Readable
  <2>2. file[i] \in Line  BY <2>1, ElementOfSeq
  <2>. QED  BY <2>1, <2>2 DEF Line
<1>3. /\ ReadRows \in Seq(Row) /\ Len(ReadRows) = Cardinality(Readable)
      /\ \A n \in 1 .. Cardinality(Readable) :
            ReadRows[n] = file[Nth(Readable, n)] /\ Nth(Readable, n) \in Readable
  BY <1>1, <1>2, SelectedType DEF ReadRows
<1>. QED  BY <1>3

LEMMA LoadedRecordsType ==
  ASSUME TypeInv
  PROVE  /\ LoadedRecords \in Seq(Entry)
         /\ ~loaded => Chained(LoadedRecords) = 1 .. Len(LoadedRecords)
<1>1. CASE loaded  BY <1>1 DEF LoadedRecords, TypeInv, MemoryTypeOK
<1>2. CASE ~loaded
  <2>. DEFINE n == Len(ReadRows)
  <2>1. /\ ReadRows \in Seq(Row) /\ n \in Nat
        /\ \A k \in 1 .. n : \E i \in Readable : ReadRows[k] = file[i]
    BY ReadRowsType, LenProperties DEF TypeInv, EditInv, LogTypeOK
  <2>2. \A k \in 1 .. n : ReadRows[k] \in Row  BY <2>1, ElementOfSeq
  <2>3. \A k \in 1 .. n : ToEntry(ReadRows[k]) \in Entry
    BY <2>2 DEF ToEntry, Entry, Row, Body
  <2>4. \A k \in 1 .. n : ToEntry(ReadRows[k]).hash # Genesis
    <3>. SUFFICES ASSUME NEW k \in 1 .. n PROVE ReadRows[k].hash # Genesis
      BY DEF ToEntry
    <3>1. PICK i \in Readable : ReadRows[k] = file[i]  BY <2>1
    <3>2. Stamped(ReadRows[k])  BY <3>1 DEF Readable, TypeInv, EditInv, RowsStamped
    <3>3. Original(ReadRows[k]) \in Body /\ ReadRows[k].prev \in Seq(Body)
      BY <2>2 DEF Row, Body, Original, Hash
    <3>4. Len(ReadRows[k].hash) = Len(ReadRows[k].prev) + 1 /\ Len(ReadRows[k].prev) \in Nat
      BY <3>2, <3>3 DEF Stamped, HashOf
    <3>. QED  BY <3>4 DEF Genesis
  <2>5. LoadedRecords = [k \in 1 .. n |-> ToEntry(ReadRows[k])]  BY <1>2 DEF LoadedRecords
  <2>. HIDE DEF n
  <2>6. [k \in 1 .. n |-> ToEntry(ReadRows[k])] \in Seq(Entry)  BY <2>1, <2>3, IsASeq
  <2>7. Len(LoadedRecords) = n  BY <2>1, <2>5
  <2>. QED  BY <2>4, <2>5, <2>6, <2>7 DEF Chained
<1>. QED  BY <1>1, <1>2

(* The latest entry of an agent is one of its entries.                     *)
LEMMA LatestType ==
  ASSUME NEW rows \in Seq(Entry), NEW a \in Agents
  PROVE  LatestIn(rows, a) \in Entry \cup {NoEntry}
<1>. DEFINE own == {i \in 1 .. Len(rows) : runs[rows[i].run].agent = a}
<1>1. CASE own = {}  BY <1>1 DEF LatestIn
<1>2. CASE own # {}
  <2>1. Len(rows) \in Nat /\ own \subseteq 1 .. Len(rows)  BY LenProperties
  <2>2. LatestIn(rows, a) = rows[CHOOSE i \in own : \A j \in own : j <= i]
    BY <1>2 DEF LatestIn
  <2>. HIDE DEF own
  <2>3. \E i \in own : \A j \in own : j <= i  BY <1>2, <2>1, GreatestIndex
  <2>4. (CHOOSE i \in own : \A j \in own : j <= i) \in own  BY <2>3
  <2>. QED  BY <2>1, <2>2, <2>4, ElementOfSeq
<1>. QED  BY <1>1, <1>2

LEMMA LoadedByAgentType ==
  ASSUME TypeInv
  PROVE  LoadedByAgent \in [Agents -> Entry \cup {NoEntry}]
<1>1. LoadedRecords \in Seq(Entry)  BY LoadedRecordsType
<1>2. \A a \in Agents : LatestIn(LoadedRecords, a) \in Entry \cup {NoEntry}
  BY <1>1, LatestType
<1>. QED  BY <1>2 DEF LoadedByAgent, TypeInv, MemoryTypeOK

(* What the steps of a run do to the memory: an entry is added, or a stub  *)
(* found there, and it is the last one of the run's agent.                 *)
Noted(r, entry) ==
  /\ byAgent' = [LoadedByAgent EXCEPT ![runs[r].agent] = entry]
  /\ \A q \in Runs : runs'[q].agent = runs[q].agent /\ (q # r => runs'[q] = runs[q])
Stubbed(r, stub) ==
  /\ Noted(r, stub) /\ runs'[r].phase = "open"
  /\ \/ records' = LoadedRecords
     \/ records' = Append(LoadedRecords, stub)
Finished(r, row) == Noted(r, row) /\ records' = Append(LoadedRecords, row)

LEMMA StubEffect ==
  ASSUME TypeInv, NEW r \in Runs, StartRun(r) \/ Trace(r)
  PROVE  LET stub == [run |-> r, hash |-> Genesis]
         IN  stub \in Entry /\ Stubbed(r, stub) /\ Loads
<1>. DEFINE stub == [run |-> r, hash |-> Genesis]
<1>1. stub \in Entry  BY EmptyTypes DEF Entry
<1>2. Loads  BY RunsLoad
<1>3. runs \in RunsType  BY DEF TypeInv, MemoryTypeOK
<1>4. /\ byAgent' = [LoadedByAgent EXCEPT ![runs[r].agent] = stub]
      /\ records' \in {LoadedRecords, Append(LoadedRecords, stub)}
  BY DEF StartRun, Trace, Upsert
<1>5. \/ runs' = [runs EXCEPT ![r].phase = "open"]
      \/ runs' = runs /\ runs[r].phase = "open"
  BY DEF StartRun, Trace
<1>6. /\ runs'[r].phase = "open"
      /\ \A q \in Runs : runs'[q].agent = runs[q].agent /\ (q # r => runs'[q] = runs[q])
  BY <1>3, <1>5 DEF RunsType
<1>. HIDE DEF stub
<1>7. Stubbed(r, stub)  BY <1>4, <1>6 DEF Stubbed, Noted
<1>. QED  BY <1>1, <1>2, <1>7 DEF stub

LEMMA FinishEffect ==
  ASSUME TypeInv, NEW r \in Runs, RecordRun(r)
  PROVE  LET hash  == HashOf(LoadedLast, [run |-> r, edited |-> FALSE])
             entry == [run |-> r, hash |-> hash]
         IN  entry \in Entry /\ entry.hash # Genesis /\ Finished(r, entry)
<1>. DEFINE body  == [run |-> r, edited |-> FALSE]
            hash  == HashOf(LoadedLast, body)
            entry == [run |-> r, hash |-> hash]
<1>1. LoadedLast \in Hash /\ body \in Body
  BY LoadedLastType DEF TypeInv, EditInv, Body
<1>2. hash \in Hash /\ hash # Genesis
  <2>1. Append(LoadedLast, body) \in Seq(Body)  BY <1>1 DEF Hash
  <2>2. Len(Append(LoadedLast, body)) = Len(LoadedLast) + 1 /\ Len(LoadedLast) \in Nat
    BY <1>1 DEF Hash
  <2>3. Append(LoadedLast, body) # << >>  BY <2>2
  <2>. QED  BY <2>1, <2>3 DEF HashOf, Hash, Genesis
<1>3. runs' = [runs EXCEPT ![r].phase = "done"] /\ runs \in RunsType
  BY DEF RecordRun, TypeInv, MemoryTypeOK
<1>4. \A q \in Runs : runs'[q].agent = runs[q].agent /\ (q # r => runs'[q] = runs[q])
  BY <1>3 DEF RunsType
<1>5. /\ byAgent' = [LoadedByAgent EXCEPT ![runs[r].agent] = entry]
      /\ records' = Append(LoadedRecords, entry)
  BY DEF RecordRun
<1>6. entry \in Entry /\ entry.hash # Genesis  BY <1>2 DEF Entry
<1>. HIDE DEF entry
<1>7. Finished(r, entry)  BY <1>4, <1>5 DEF Finished, Noted
<1>. QED  BY <1>6, <1>7 DEF entry, hash, body

(* A load that fails leaves the first of the rows it would have read, and  *)
(* the latest of those for each agent.                                     *)
LEMMA MisreadEffect ==
  ASSUME TypeInv, Misread
  PROVE  /\ records' \in Seq(Entry) /\ Chained(records') = 1 .. Len(records')
         /\ byAgent' = [a \in Agents |-> LatestIn(records', a)]
         /\ UNCHANGED runs /\ loaded' = TRUE
<1>1. PICK n \in 0 .. Len(LoadedRecords) : records' = SubSeq(LoadedRecords, 1, n)
  BY DEF Misread
<1>2. /\ LoadedRecords \in Seq(Entry) /\ Len(LoadedRecords) \in Nat
      /\ Chained(LoadedRecords) = 1 .. Len(LoadedRecords)
  BY LoadedRecordsType, LenProperties DEF Misread
<1>3. /\ records' \in Seq(Entry) /\ Len(records') = n
      /\ \A i \in 1 .. n : records'[i] = LoadedRecords[i]
  BY <1>1, <1>2
<1>4. \A i \in 1 .. n : i \in Chained(LoadedRecords)  BY <1>2
<1>5. \A i \in 1 .. n : records'[i].hash # Genesis  BY <1>3, <1>4 DEF Chained
<1>6. Chained(records') = 1 .. Len(records')  BY <1>3, <1>5 DEF Chained
<1>. QED  BY <1>3, <1>6 DEF Misread

(* What the steps of the environment do to the memory.                     *)
Forgets == /\ records' = << >> /\ byAgent' = [a \in Agents |-> NoEntry] /\ loaded' = FALSE
Keeps   == UNCHANGED <<records, byAgent, loaded, runs>>

LEMMA EnvironmentMemory ==
  /\ Restart \/ Reset => Forgets
  /\ Delete \/ UNCHANGED vars => Keeps
  /\ (\E i \in 1 .. Len(file) : Edit(i)) => Keeps
BY DEF Restart, Reset, Delete, Edit, Forgets, Keeps, vars, memory

LEMMA TypeInit == Init => TypeInv
<1>. SUFFICES ASSUME Init PROVE TypeInv
  OBVIOUS
<1>1. EditInv  BY EditInit
<1>2. MemoryTypeOK  BY DEF Init, MemoryTypeOK, RunsType
<1>. QED  BY <1>1, <1>2 DEF TypeInv

LEMMA TypeStep == TypeInv /\ [Next]_vars => TypeInv'
<1>. SUFFICES ASSUME TypeInv, [Next]_vars PROVE MemoryTypeOK'
  BY EditStep DEF TypeInv
<1>0. /\ MemoryTypeOK /\ runs \in RunsType /\ LoadedRecords \in Seq(Entry)
      /\ LoadedByAgent \in [Agents -> Entry \cup {NoEntry}]
  BY LoadedRecordsType, LoadedByAgentType DEF TypeInv, MemoryTypeOK
<1>1. CASE Read  BY <1>0, <1>1 DEF Read, MemoryTypeOK
<1>2. ASSUME NEW r \in Runs, NEW e \in Entry, Noted(r, e)
      PROVE  byAgent' \in [Agents -> Entry \cup {NoEntry}]
  BY <1>0, <1>2 DEF Noted
<1>3. ASSUME NEW r \in Runs, StartRun(r) \/ Trace(r) PROVE MemoryTypeOK'
  <2>1. PICK stub \in Entry : Stubbed(r, stub)  BY <1>3, StubEffect
  <2>2. byAgent' \in [Agents -> Entry \cup {NoEntry}]  BY <1>2, <2>1 DEF Stubbed
  <2>3. records' \in Seq(Entry)  BY <1>0, <2>1 DEF Stubbed
  <2>4. runs' \in RunsType  BY <1>0, <1>3 DEF StartRun, Trace, RunsType
  <2>. QED  BY <2>2, <2>3, <2>4 DEF MemoryTypeOK
<1>4. ASSUME NEW r \in Runs, RecordRun(r) PROVE MemoryTypeOK'
  <2>1. PICK row \in Entry : Finished(r, row)  BY <1>4, FinishEffect
  <2>2. byAgent' \in [Agents -> Entry \cup {NoEntry}]  BY <1>2, <2>1 DEF Finished
  <2>3. records' \in Seq(Entry)  BY <1>0, <2>1 DEF Finished
  <2>4. runs' \in RunsType  BY <1>0, <1>4 DEF RecordRun, RunsType
  <2>. QED  BY <2>2, <2>3, <2>4 DEF MemoryTypeOK
<1>5. CASE Restart
  <2>1. runs' \in RunsType  BY <1>0, <1>5 DEF Restart, RunsType
  <2>. QED  BY <1>5, <2>1 DEF Restart, MemoryTypeOK
<1>6. CASE Reset  BY <1>0, <1>6 DEF Reset, MemoryTypeOK
<1>7. CASE Keeps  BY <1>0, <1>7 DEF Keeps, MemoryTypeOK
<1>8. CASE Misread
  <2>1. /\ records' \in Seq(Entry) /\ UNCHANGED runs
        /\ byAgent' = [a \in Agents |-> LatestIn(records', a)]
    BY <1>8, MisreadEffect
  <2>2. \A a \in Agents : LatestIn(records', a) \in Entry \cup {NoEntry}
    BY <2>1, LatestType
  <2>. QED  BY <1>0, <2>1, <2>2 DEF MemoryTypeOK
<1>. QED  BY <1>1, <1>3, <1>4, <1>5, <1>6, <1>7, <1>8, EnvironmentMemory DEF Next

(* The state has its type: what is read back from any file are rows, and   *)
(* the rows in memory are entries of runs, whatever happens to the file.   *)
THEOREM LogTyped == Spec => []TypeOK
<1>1. TypeInv => TypeOK
  BY DEF TypeInv, EditInv, LogTypeOK, MemoryTypeOK, RunsType, TypeOK, CountType
<1>. QED  BY <1>1, TypeInit, TypeStep, PTL DEF Spec

-----------------------------------------------------------------------------
(* The last run of an agent                                                *)

Idle(a) == \A r \in Runs : runs[r].agent = a => runs[r].phase # "open"

(* The last chained row of an agent among some rows.                       *)
Own(rows, R, a) == {i \in Chained(rows) : R[rows[i].run].agent = a}
LastOf(rows, R, a) == IF Own(rows, R, a) = {} THEN NoEntry
                   ELSE rows[CHOOSE i \in Own(rows, R, a) : \A j \in Own(rows, R, a) : j <= i]

UnreadMemory == ~loaded => records = << >> /\ byAgent = [a \in Agents |-> NoEntry]
LastInv      == UnreadMemory /\ \A a \in Agents : Idle(a) => byAgent[a] = LastOf(records, runs, a)

LEMMA LastOfNone == ASSUME NEW R, NEW a PROVE LastOf(<< >>, R, a) = NoEntry
BY DEF LastOf, Own, Chained

(* A row added that is not a chained row of the agent makes no difference; *)
(* one that is, is the last.                                               *)
LEMMA LastOfMore ==
  ASSUME NEW rows \in Seq(Entry), NEW e \in Entry, NEW R, NEW a
  PROVE  LastOf(Append(rows, e), R, a)
           = IF e.hash # Genesis /\ R[e.run].agent = a THEN e ELSE LastOf(rows, R, a)
<1>. DEFINE more == Append(rows, e)
            m    == Len(rows)
            S    == Own(rows, R, a)
            T    == Own(more, R, a)
<1>1. /\ m \in Nat /\ Len(more) = m + 1 /\ more[m + 1] = e
      /\ \A i \in 1 .. m : more[i] = rows[i]
  BY LenProperties
<1>. HIDE DEF m, more
<1>2. S \subseteq 1 .. m /\ \A i \in 1 .. m : i \in T <=> i \in S
  BY <1>1 DEF Own, Chained, m
<1>3. T \subseteq 1 .. m + 1  BY <1>1 DEF Own, Chained
<1>4. m + 1 \in T <=> e.hash # Genesis /\ R[e.run].agent = a
  BY <1>1 DEF Own, Chained
<1>5. m + 1 \notin S
  <2>1. ~ (m + 1 \in 1 .. m)  BY <1>1
  <2>. QED  BY <1>2, <2>1
<1>. HIDE DEF S, T
<1>6. \A i \in 1 .. m + 1 : i = m + 1 \/ i \in 1 .. m  BY <1>1
<1>7. CASE m + 1 \in T
  <2>1. \A j \in T : j <= m + 1
    <3>1. \A j \in 1 .. m + 1 : j <= m + 1  BY <1>1
    <3>. QED  BY <1>3, <3>1
  <2>2. ASSUME NEW i \in T, \A j \in T : j <= i PROVE i = m + 1
    <3>1. m + 1 <= i /\ i <= m + 1  BY <1>7, <2>1, <2>2
    <3>2. i \in 1 .. m + 1  BY <1>3
    <3>. QED  BY <1>1, <3>1, <3>2
  <2>3. (CHOOSE i \in T : \A j \in T : j <= i) = m + 1  BY <1>7, <2>1, <2>2
  <2>4. LastOf(more, R, a) = more[m + 1]  BY <1>7, <2>3 DEF LastOf, T
  <2>. QED  BY <1>1, <1>4, <1>7, <2>4 DEF more
<1>8. CASE m + 1 \notin T
  <2>1. T = S
    <3>1. \A i : i \in T => i \in 1 .. m  BY <1>3, <1>6, <1>8
    <3>. QED  BY <1>2, <3>1
  <2>2. CASE S = {}
    <3>1. LastOf(more, R, a) = NoEntry /\ LastOf(rows, R, a) = NoEntry
      BY <2>1, <2>2 DEF LastOf, S, T
    <3>. QED  BY <1>4, <1>8, <3>1 DEF more
  <2>3. CASE S # {}
    <3>. DEFINE k == CHOOSE i \in S : \A j \in S : j <= i
    <3>1. \E i \in S : \A j \in S : j <= i  BY <1>1, <1>2, <2>3, GreatestIndex
    <3>2. k \in S  BY <3>1
    <3>3. LastOf(rows, R, a) = rows[k]  BY <2>3 DEF LastOf, S
    <3>4. LastOf(more, R, a) = more[k]  BY <2>1, <2>3 DEF LastOf, S, T
    <3>5. more[k] = rows[k]
      <4>. HIDE DEF k
      <4>. QED  BY <1>1, <1>2, <3>2
    <3>. QED  BY <1>4, <1>8, <3>3, <3>4, <3>5 DEF more
  <2>. QED  BY <2>2, <2>3
<1>. QED  BY <1>7, <1>8

(* The last row depends on the agents of the runs and on nothing else.     *)
LEMMA LastOfSame ==
  ASSUME NEW rows \in Seq(Entry), NEW a, NEW R, NEW Q,
         \A r \in Runs : R[r].agent = Q[r].agent
  PROVE  LastOf(rows, R, a) = LastOf(rows, Q, a)
<1>1. \A i \in 1 .. Len(rows) : rows[i].run \in Runs
  <2>1. \A i \in 1 .. Len(rows) : rows[i] \in Entry  BY ElementOfSeq
  <2>. QED  BY <2>1 DEF Entry
<1>2. \A i \in Chained(rows) : R[rows[i].run].agent = Q[rows[i].run].agent
  BY <1>1 DEF Chained
<1>3. Own(rows, R, a) = Own(rows, Q, a)  BY <1>2 DEF Own
<1>. QED  BY <1>3 DEF LastOf

(* Loading, or having loaded, an idle agent's run is its last on record.   *)
LEMMA LoadedLatest ==
  ASSUME TypeInv, LastInv, NEW a \in Agents, Idle(a)
  PROVE  LoadedByAgent[a] = LastOf(LoadedRecords, runs, a)
<1>1. CASE loaded  BY <1>1 DEF LastInv, LoadedByAgent, LoadedRecords
<1>2. CASE ~loaded
  <2>1. Chained(LoadedRecords) = 1 .. Len(LoadedRecords)  BY <1>2, LoadedRecordsType
  <2>2. LoadedByAgent[a] = LatestIn(LoadedRecords, a)  BY <1>2 DEF LoadedByAgent
  <2>. QED  BY <2>1, <2>2 DEF LatestIn, LastOf, Own
<1>. QED  BY <1>1, <1>2

LEMMA LastInit == Init => LastInv
<1>. SUFFICES ASSUME Init PROVE LastInv
  OBVIOUS
<1>1. records = << >> /\ byAgent = [a \in Agents |-> NoEntry]  BY DEF Init
<1>2. \A a \in Agents : LastOf(records, runs, a) = NoEntry  BY <1>1, LastOfNone
<1>. QED  BY <1>1, <1>2 DEF LastInv, UnreadMemory

LEMMA LastStep == TypeInv /\ LastInv /\ [Next]_vars => LastInv'
<1>. SUFFICES ASSUME TypeInv, LastInv, [Next]_vars PROVE LastInv'
  OBVIOUS
<1>0. /\ records \in Seq(Entry) /\ LoadedRecords \in Seq(Entry) /\ runs \in RunsType
      /\ LoadedByAgent \in [Agents -> Entry \cup {NoEntry}]
  BY LoadedRecordsType, LoadedByAgentType DEF TypeInv, MemoryTypeOK
<1>1. CASE Read
  <2>1. ASSUME NEW a \in Agents, Idle(a)' PROVE byAgent'[a] = LastOf(records', runs', a)
    <3>1. UNCHANGED runs /\ records' = LoadedRecords /\ byAgent' = LoadedByAgent
      BY <1>1 DEF Read
    <3>2. Idle(a)  BY <2>1, <3>1 DEF Idle
    <3>. QED  BY <3>1, <3>2, LoadedLatest
  <2>2. loaded' = TRUE  BY <1>1 DEF Read
  <2>. QED  BY <2>1, <2>2 DEF LastInv, UnreadMemory
\* an entry that is chained or not, of a run that is open in the next state when it is not
<1>2. ASSUME NEW r \in Runs, NEW e \in Entry, Noted(r, e), e.run = r, loaded' = TRUE,
             \/ e.hash # Genesis /\ records' = Append(LoadedRecords, e)
             \/ /\ e.hash = Genesis /\ runs'[r].phase = "open"
                /\ records' \in {LoadedRecords, Append(LoadedRecords, e)}
      PROVE  LastInv'
  <2>. SUFFICES ASSUME NEW a \in Agents, Idle(a)'
                PROVE  byAgent'[a] = LastOf(records', runs', a)
    BY <1>2 DEF LastInv, UnreadMemory
  <2>1. /\ \A q \in Runs : runs'[q].agent = runs[q].agent /\ (q # r => runs'[q] = runs[q])
        /\ runs[r].agent \in Agents
        /\ byAgent'[a] = IF a = runs[r].agent THEN e ELSE LoadedByAgent[a]
    BY <1>0, <1>2 DEF Noted, RunsType
  <2>2. /\ records' \in {LoadedRecords, Append(LoadedRecords, e)}
        /\ records' \in Seq(Entry)
    <3>1. Append(LoadedRecords, e) \in Seq(Entry)  BY <1>0
    <3>2. records' \in {LoadedRecords, Append(LoadedRecords, e)}  BY <1>2
    <3>. QED  BY <1>0, <3>1, <3>2
  <2>3. LastOf(records', runs', a) = LastOf(records', runs, a)  BY <2>1, <2>2, LastOfSame
  <2>4. CASE a = runs[r].agent
    <3>1. e.hash # Genesis /\ records' = Append(LoadedRecords, e)
      BY <1>2, <2>1, <2>4 DEF Idle
    <3>2. LastOf(records', runs, a) = e  BY <1>0, <1>2, <2>4, <3>1, LastOfMore
    <3>. QED  BY <2>1, <2>3, <2>4, <3>2
  <2>5. CASE a # runs[r].agent
    <3>1. Idle(a)  BY <2>1, <2>5 DEF Idle
    <3>2. LoadedByAgent[a] = LastOf(LoadedRecords, runs, a)  BY <3>1, LoadedLatest
    <3>3. LastOf(records', runs, a) = LastOf(LoadedRecords, runs, a)
      <4>1. LastOf(Append(LoadedRecords, e), runs, a) = LastOf(LoadedRecords, runs, a)
        BY <1>0, <1>2, <2>5, LastOfMore
      <4>. QED  BY <2>2, <4>1
    <3>. QED  BY <2>1, <2>3, <2>5, <3>2, <3>3
  <2>. QED  BY <2>4, <2>5
<1>3. ASSUME NEW r \in Runs, StartRun(r) \/ Trace(r) PROVE LastInv'
  <2>. DEFINE stub == [run |-> r, hash |-> Genesis]
  <2>1. stub \in Entry /\ Stubbed(r, stub) /\ Loads  BY <1>3, StubEffect
  <2>2. stub.run = r /\ stub.hash = Genesis  OBVIOUS
  <2>. HIDE DEF stub
  <2>. QED  BY <1>2, <2>1, <2>2 DEF Stubbed, Loads
<1>4. ASSUME NEW r \in Runs, RecordRun(r) PROVE LastInv'
  <2>. DEFINE e == [run |-> r, hash |-> HashOf(LoadedLast, [run |-> r, edited |-> FALSE])]
  <2>1. e \in Entry /\ e.hash # Genesis /\ Finished(r, e)  BY <1>4, FinishEffect
  <2>2. e.run = r /\ loaded' = TRUE  BY <1>4 DEF RecordRun
  <2>. HIDE DEF e
  <2>. QED  BY <1>2, <2>1, <2>2 DEF Finished
<1>5. CASE Forgets
  <2>1. \A a \in Agents : LastOf(records', runs', a) = NoEntry  BY <1>5, LastOfNone DEF Forgets
  <2>. QED  BY <1>5, <2>1 DEF Forgets, LastInv, UnreadMemory
<1>6. CASE Keeps  BY <1>6 DEF Keeps, LastInv, UnreadMemory, Idle
<1>7. CASE Misread
  <2>1. /\ Chained(records') = 1 .. Len(records') /\ UNCHANGED runs /\ loaded' = TRUE
        /\ byAgent' = [a \in Agents |-> LatestIn(records', a)]
    BY <1>7, MisreadEffect
  <2>2. \A a \in Agents : LatestIn(records', a) = LastOf(records', runs', a)
    BY <2>1 DEF LatestIn, LastOf, Own
  <2>. QED  BY <2>1, <2>2 DEF LastInv, UnreadMemory
<1>. QED  BY <1>1, <1>3, <1>4, <1>5, <1>6, <1>7, EnvironmentMemory DEF Next

(* When no run of an agent is in flight, the registry shows its newest     *)
(* recorded run in memory: after runs that overlapped, a restart, a load   *)
(* that stopped halfway, a lost line, an edit or a deletion alike.         *)
THEOREM LastRunHolds == Spec => []LastRunIsLatest
<1>1. LastInv => LastRunIsLatest
  <2>1. \A a : LastOf(records, runs, a)
                 = LET own == {i \in Recorded : runs[records[i].run].agent = a}
                   IN  IF own = {} THEN NoEntry
                       ELSE records[CHOOSE i \in own : \A j \in own : j <= i]
    BY DEF LastOf, Own, Chained, Recorded
  <2>. QED  BY <2>1 DEF LastInv, LastRunIsLatest, Idle
<1>. QED  BY <1>1, TypeInit, TypeStep, LastInit, LastStep, PTL DEF Spec

-----------------------------------------------------------------------------
(* What the run routes list                                                *)

Shown(rows)   == Selected(rows, Chained(rows))
OnFile        == [i \in 1 .. Len(file) |-> ToEntry(file[i])]
Undisturbed   == count.faults = 0 /\ ~severed /\ count.deletes = 0
Whole         == count.faults = 0 =>
                   tail = "clean" /\ \A i \in 1 .. Len(file) : file[i] # Garbage
ReportInv     == Whole /\ (Undisturbed /\ loaded => Shown(records) = OnFile)

LEMMA ShownMore ==
  ASSUME NEW rows \in Seq(Entry), NEW e \in Entry
  PROVE  Shown(Append(rows, e)) = IF e.hash # Genesis THEN Append(Shown(rows), e) ELSE Shown(rows)
<1>. DEFINE more == Append(rows, e)
            m    == Len(rows)
            S    == Chained(rows)
<1>1. /\ m \in Nat /\ Len(more) = m + 1 /\ more[m + 1] = e
      /\ \A i \in 1 .. m : more[i] = rows[i]
  BY LenProperties
<1>. HIDE DEF m, more
<1>2. \A i \in 1 .. m + 1 : i = m + 1 \/ i \in 1 .. m  BY <1>1
<1>3. S \subseteq 1 .. m /\ \A i \in 1 .. m : i \in S <=> rows[i].hash # Genesis
  BY DEF Chained, m
<1>4. \A i : i \in Chained(more) <=> i \in 1 .. m + 1 /\ more[i].hash # Genesis
  BY <1>1 DEF Chained
<1>. HIDE DEF S
<1>5. CASE e.hash # Genesis
  <2>1. 1 .. m \subseteq 1 .. m + 1 /\ m + 1 \in 1 .. m + 1  BY <1>1
  <2>2. \A i : i \in Chained(more) <=> i \in S \cup {m + 1}
    BY <1>1, <1>2, <1>3, <1>4, <1>5, <2>1
  <2>3. Chained(more) = S \cup {m + 1}  BY <2>2
  <2>4. Selected(Append(rows, e), S \cup {m + 1}) = Append(Selected(rows, S), e)
    BY <1>3, SelectedMore DEF m
  <2>. QED  BY <1>5, <2>3, <2>4 DEF Shown, S, more
<1>6. CASE e.hash = Genesis
  <2>1. 1 .. m \subseteq 1 .. m + 1  BY <1>1
  <2>2. \A i : i \in Chained(more) <=> i \in S
    BY <1>1, <1>2, <1>3, <1>4, <1>6, <2>1
  <2>3. Chained(more) = S  BY <2>2
  <2>4. Selected(Append(rows, e), S) = Selected(rows, S)
    BY <1>3, SelectedSame DEF m
  <2>. QED  BY <1>6, <2>3, <2>4 DEF Shown, S, more
<1>. QED  BY <1>5, <1>6

(* Of a file without garbage every line is read, in order.                 *)
LEMMA LoadedReport ==
  ASSUME TypeInv, ReportInv, Undisturbed
  PROVE  Shown(LoadedRecords) = OnFile
<1>1. CASE loaded  BY <1>1 DEF ReportInv, LoadedRecords
<1>2. CASE ~loaded
  <2>1. Readable = 1 .. Len(file)  BY DEF ReportInv, Whole, Undisturbed, Readable
  <2>2. ReadRows = file  BY <2>1, SelectedAll DEF ReadRows, TypeInv, EditInv, LogTypeOK
  <2>3. LoadedRecords = OnFile  BY <1>2, <2>2 DEF LoadedRecords, OnFile
  <2>4. LoadedRecords \in Seq(Entry) /\ Chained(LoadedRecords) = 1 .. Len(LoadedRecords)
    BY <1>2, LoadedRecordsType
  <2>5. Shown(LoadedRecords) = LoadedRecords  BY <2>4, SelectedAll DEF Shown
  <2>. QED  BY <2>3, <2>5
<1>. QED  BY <1>1, <1>2

LEMMA ReportInit == Init => ReportInv
<1>. SUFFICES ASSUME Init PROVE ReportInv
  OBVIOUS
<1>1. file = << >> /\ tail = "clean" /\ loaded = FALSE  BY DEF Init
<1>. QED  BY <1>1 DEF ReportInv, Whole

LEMMA ReportStep == TypeInv /\ ReportInv /\ [Next]_vars => ReportInv'
<1>. SUFFICES ASSUME TypeInv, ReportInv, [Next]_vars PROVE ReportInv'
  OBVIOUS
<1>0. /\ LogTypeOK /\ LoadedRecords \in Seq(Entry) /\ Len(file) \in Nat
      /\ count \in CountType
  BY LoadedRecordsType, LenProperties DEF TypeInv, EditInv, LogTypeOK
<1>1. ASSUME UNCHANGED <<file, tail, severed, count>>,
             Undisturbed => ~loaded' \/ Shown(records') = Shown(LoadedRecords)
      PROVE  ReportInv'
  <2>1. Whole' /\ OnFile' = OnFile /\ (Undisturbed' => Undisturbed)
    BY <1>1 DEF ReportInv, Whole, OnFile, Undisturbed
  <2>. QED  BY <1>1, <2>1, LoadedReport DEF ReportInv, Shown, Chained, Selected, Rank, Genesis
<1>2. CASE Read  BY <1>1, <1>2 DEF Read
<1>3. ASSUME NEW r \in Runs, StartRun(r) \/ Trace(r) PROVE ReportInv'
  <2>. DEFINE stub == [run |-> r, hash |-> Genesis]
  <2>1. stub \in Entry /\ Stubbed(r, stub) /\ Loads  BY <1>3, StubEffect
  <2>2. stub.hash = Genesis  OBVIOUS
  <2>. HIDE DEF stub
  <2>3. Shown(Append(LoadedRecords, stub)) = Shown(LoadedRecords)
    BY <1>0, <2>1, <2>2, ShownMore
  <2>4. Shown(records') = Shown(LoadedRecords)  BY <2>1, <2>3 DEF Stubbed
  <2>. QED  BY <1>1, <2>1, <2>4 DEF Loads
<1>4. ASSUME NEW r \in Runs, RecordRun(r) PROVE ReportInv'
  <2>. DEFINE hash == HashOf(LoadedLast, [run |-> r, edited |-> FALSE])
              e    == [run |-> r, hash |-> hash]
              row  == [body |-> [run |-> r, edited |-> FALSE], prev |-> LoadedLast, hash |-> hash]
  <2>1. e \in Entry /\ e.hash # Genesis /\ Finished(r, e)  BY <1>4, FinishEffect
  <2>2. row \in Row /\ row # Garbage /\ ToEntry(row) = e
    <3>1. LoadedLast \in Hash  BY <1>0, LoadedLastType
    <3>. QED  BY <3>1, NewRow DEF ToEntry
  <2>3. AppendLine(row) /\ UNCHANGED severed  BY <1>4 DEF RecordRun
  <2>. HIDE DEF e, row, hash
  <2>4. Appends(row)  BY <2>3, AppendLineAppends
  <2>5. CASE count'.faults # 0  BY <2>5 DEF ReportInv, Whole, Undisturbed
  <2>6. CASE count'.faults = 0
    <3>1. count.faults = 0  BY <1>0, <2>2, <2>4, <2>6, AppendsType
    <3>2. tail = "clean"  BY <3>1 DEF ReportInv, Whole
    <3>3. file' = Append(file, row) /\ UNCHANGED <<tail, count>>
      <4>1. ~ count' = [count EXCEPT !.faults = @ + 1]
        <5>. SUFFICES ASSUME count' = [count EXCEPT !.faults = @ + 1] PROVE FALSE
          OBVIOUS
        <5>1. count'.faults = count.faults + 1 /\ count.faults \in Nat  BY <1>0 DEF CountType
        <5>. QED  BY <2>6, <5>1
      <4>. QED  BY <2>4, <3>2, <4>1 DEF Appends
    <3>4. row \in Line /\ file \in Seq(Line)  BY <1>0, <2>2 DEF Line, LogTypeOK
    <3>5. /\ Len(file') = Len(file) + 1 /\ file'[Len(file) + 1] = row
          /\ \A i \in 1 .. Len(file) : file'[i] = file[i]
          /\ \A i \in 1 .. Len(file) + 1 : i = Len(file) + 1 \/ i \in 1 .. Len(file)
      BY <1>0, <3>3, <3>4
    <3>6. Whole'
      <4>1. \A i \in 1 .. Len(file) : file[i] # Garbage  BY <3>1 DEF ReportInv, Whole
      <4>2. \A i \in 1 .. Len(file') : file'[i] # Garbage  BY <2>2, <3>5, <4>1
      <4>. QED  BY <3>2, <3>3, <4>2 DEF Whole
    <3>7. ASSUME Undisturbed' PROVE Shown(records') = OnFile'
      <4>1. Undisturbed  BY <2>3, <3>3, <3>7 DEF Undisturbed
      <4>2. Shown(LoadedRecords) = OnFile  BY <4>1, LoadedReport
      <4>3. Shown(records') = Append(OnFile, e)
        BY <1>0, <2>1, <4>2, ShownMore DEF Finished
      <4>4. OnFile' = [i \in 1 .. Len(file) + 1 |-> ToEntry(file'[i])]
        BY <3>5 DEF OnFile, ToEntry
      <4>5. Append(OnFile, e) = [i \in 1 .. Len(file) + 1 |->
                                  IF i = Len(file) + 1 THEN e ELSE ToEntry(file[i])]
        BY <1>0 DEF OnFile
      <4>6. \A i \in 1 .. Len(file) + 1 :
              ToEntry(file'[i]) = IF i = Len(file) + 1 THEN e ELSE ToEntry(file[i])
        <5>. SUFFICES ASSUME NEW i \in 1 .. Len(file) + 1
                      PROVE ToEntry(file'[i]) = IF i = Len(file) + 1 THEN e ELSE ToEntry(file[i])
          OBVIOUS
        <5>1. CASE i = Len(file) + 1  BY <2>2, <3>5, <5>1
        <5>2. CASE i # Len(file) + 1  BY <3>5, <5>2
        <5>. QED  BY <5>1, <5>2
      <4>. QED  BY <4>3, <4>4, <4>5, <4>6
    <3>. QED  BY <3>6, <3>7 DEF ReportInv, Shown, Chained, Selected, Rank, Genesis
  <2>. QED  BY <2>5, <2>6
<1>5. ASSUME NEW i \in 1 .. Len(file), Edit(i) PROVE ReportInv'
  <2>. DEFINE row == [file[i] EXCEPT !.body.edited = TRUE]
  <2>1. /\ row # Garbage /\ row.hash = file[i].hash
        /\ Original(row) = Original(file[i]) /\ Len(file') = Len(file)
        /\ \A j \in 1 .. Len(file) : file'[j] = IF j = i THEN row ELSE file[j]
    BY <1>0, <1>5, EditEffect
  <2>2. /\ file[i] # Garbage /\ UNCHANGED <<tail, records, loaded, severed>>
        /\ count'.faults = count.faults /\ count'.deletes = count.deletes
    BY <1>0, <1>5 DEF Edit, memory
  <2>. HIDE DEF row
  <2>3. ToEntry(row) = ToEntry(file[i])
    <3>1. Original(row).run = row.body.run /\ Original(file[i]).run = file[i].body.run
      BY DEF Original
    <3>. QED  BY <2>1, <3>1 DEF ToEntry
  <2>4. Whole'  BY <2>1, <2>2 DEF ReportInv, Whole
  <2>5. \A j \in 1 .. Len(file) : ToEntry(file'[j]) = ToEntry(file[j])  BY <2>1, <2>3
  <2>6. OnFile' = OnFile  BY <2>1, <2>5 DEF OnFile, ToEntry
  <2>7. Shown(records)' = Shown(records)
    BY <2>2 DEF Shown, Chained, Selected, Rank, Genesis
  <2>8. Undisturbed' = Undisturbed  BY <2>2 DEF Undisturbed
  <2>. QED  BY <2>2, <2>4, <2>6, <2>7, <2>8 DEF ReportInv
<1>6. CASE Restart
  <2>1. UNCHANGED <<file, tail>> /\ count'.faults = count.faults /\ ~loaded'
    BY <1>0, <1>6 DEF Restart
  <2>. QED  BY <2>1 DEF ReportInv, Whole
<1>7. CASE Delete \/ Reset
  <2>1. file' = << >> /\ tail' = "clean"  BY <1>7 DEF Delete, Reset
  <2>2. count'.deletes = count.deletes + 1 /\ count.deletes \in Nat
    BY <1>0, <1>7 DEF Delete, Reset, CountType
  <2>3. count'.deletes # 0  BY <2>2
  <2>. QED  BY <2>1, <2>3 DEF ReportInv, Whole, Undisturbed
<1>8. CASE UNCHANGED vars
  <2>1. UNCHANGED <<file, tail, records, loaded, severed, count>>  BY <1>8 DEF vars, memory
  <2>2. Shown(records)' = Shown(records)
    BY <2>1 DEF Shown, Chained, Selected, Rank, Genesis
  <2>3. OnFile' = OnFile  BY <2>1 DEF OnFile, ToEntry
  <2>4. Whole' = Whole /\ Undisturbed' = Undisturbed  BY <2>1 DEF Whole, Undisturbed
  <2>. QED  BY <2>1, <2>2, <2>3, <2>4 DEF ReportInv
<1>9. CASE Misread
  <2>1. severed' = TRUE /\ UNCHANGED <<file, tail>> /\ count'.faults = count.faults
    BY <1>0, <1>9 DEF Misread, CountType
  <2>. QED  BY <2>1 DEF ReportInv, Whole, Undisturbed
<1>. QED  BY <1>2, <1>3, <1>4, <1>5, <1>6, <1>7, <1>8, <1>9 DEF Next

(* What the run routes list and count as chained is what is on file, in    *)
(* the same order, while no append fails and the file is not deleted: for  *)
(* any number of overlapping runs, running stubs, restarts and edits.      *)
THEOREM ReportHolds == Spec => []ReportMatchesFile
<1>1. ReportInv => ReportMatchesFile
  BY DEF ReportInv, Undisturbed, Shown, Chained, OnFile, Recorded, ReportMatchesFile
<1>. QED  BY <1>1, TypeInit, TypeStep, ReportInit, ReportStep, PTL DEF Spec
=============================================================================
