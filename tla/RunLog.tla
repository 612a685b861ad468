------------------------------- MODULE RunLog -------------------------------
(***************************************************************************)
(* The audit log of agent runs: runtime/run_store.py, with the places that *)
(* write to it (AgentRuntime.run, the tool loop, AuditLogger.log_run) and  *)
(* that read it (the run routes, the agent registry).                      *)
(*                                                                         *)
(* A finished run is appended to a JSONL file, each row carrying a SHA-256 *)
(* hash of the previous hash and its own content.  A run in flight is a    *)
(* stub in memory only.  Everything here runs on the event loop and awaits *)
(* nothing, so each function is one step.                                  *)
(*                                                                         *)
(* Data abstracted: the content of a row is the run it is about and        *)
(* whether it was edited since; a hash is the list of the contents it was  *)
(* computed from, which is what a hash without collisions tells apart.     *)
(***************************************************************************)
EXTENDS Naturals, Sequences, FiniteSets

CONSTANTS
  Runs,         (* runs, each used once                                    *)
  Agents,       (* agent names                                             *)
  Garbage,      (* a line of the file that is not JSON                     *)
  NoEntry,      (* no run known for an agent                               *)
  MaxFaults,    (* bound: appends that fail                                *)
  MaxMisreads,  (* bound: loads that fail                                  *)
  MaxRestarts,  (* bound: restarts of the process                          *)
  MaxEdits,     (* bound: rows edited by someone else                      *)
  MaxDeletes    (* bound: deletions of the file by an operator             *)

Genesis == << >>
Body    == [run : Runs, edited : BOOLEAN]
Hash    == Seq(Body)
Row     == [body : Body, prev : Hash, hash : Hash]
Line    == Row \cup {Garbage}

(* A row in memory; the hash of a stub, which has none, is Genesis.        *)
Entry   == [run : Runs, hash : Hash]

ASSUME LogAssumption ==
  /\ Garbage \notin Row
  /\ NoEntry \notin Entry
  /\ {MaxFaults, MaxMisreads, MaxRestarts, MaxEdits, MaxDeletes} \subseteq Nat

VARIABLES
  file,      (* the lines of runs.jsonl; a deleted file has none           *)
  tail,      (* "torn": the last line was cut off before its newline       *)
  records,   (* _all_records                                               *)
  byAgent,   (* _by_agent                                                  *)
  last,      (* _last_hash                                                 *)
  loaded,    (* _loaded                                                    *)
  runs,      (* phase and agent of each run                                *)
  edited,    (* some row now on file was edited                            *)
  severed,   (* a process went on without the tip of the file: its load    *)
             (* failed, or the file was deleted under it                   *)
  count      (* faults, misreads, restarts, edits and deletions so far     *)

memory == <<records, byAgent, last, loaded>>
vars   == <<file, tail, memory, runs, edited, severed, count>>

Init ==
  /\ file = << >> /\ tail = "clean"
  /\ records = << >> /\ byAgent = [a \in Agents |-> NoEntry]
  /\ last = Genesis /\ loaded = FALSE
  /\ runs \in [Runs -> [phase : {"new"}, agent : Agents]]
  /\ edited = FALSE /\ severed = FALSE
  /\ count = [faults |-> 0, misreads |-> 0, restarts |-> 0, edits |-> 0, deletes |-> 0]

-----------------------------------------------------------------------------
(* The hash chain                                                          *)

(* Mutant: the hash covers which run it is and not its content.          *)
HashOfRun(prev, body) == Append(prev, [body EXCEPT !.edited = FALSE])

(* _compute_hash                                                           *)
HashOf(prev, body) == Append(prev, body)

(* verify_chain, over the whole file.                                      *)
Verified ==
  \A i \in 1 .. Len(file) :
    /\ file[i] # Garbage
    /\ file[i].hash = HashOf(file[i].prev, file[i].body)
    /\ file[i].prev = IF i = 1 THEN Genesis ELSE file[i - 1].hash

-----------------------------------------------------------------------------
(* _load_file_once: lines that do not parse are skipped                    *)

(* What SelectSeq returns, by positions: the elements of s at the          *)
(* positions S, in their order.                                            *)
Rank(S, i)     == Cardinality({j \in S : j <= i})
Selected(s, S) == [n \in 1 .. Cardinality(S) |-> s[CHOOSE i \in S : Rank(S, i) = n]]

Readable == {i \in 1 .. Len(file) : file[i] # Garbage}
ReadRows == Selected(file, Readable)

LastReadable(i) == file[i] # Garbage /\ \A j \in i + 1 .. Len(file) : file[j] = Garbage

Tip ==
  IF \E i \in 1 .. Len(file) : LastReadable(i)
  THEN file[CHOOSE i \in 1 .. Len(file) : LastReadable(i)].hash
  ELSE Genesis

(* Mutant: the hash of a row is not kept in memory.                      *)
ToUnhashed(row) == [run |-> row.body.run]

ToEntry(row) == [run |-> row.body.run, hash |-> row.hash]

LoadedRecords == IF loaded THEN records
                 ELSE [i \in 1 .. Len(ReadRows) |-> ToEntry(ReadRows[i])]

(* The last of the entries of an agent.                                    *)
LatestIn(entries, a) ==
  LET own == {i \in 1 .. Len(entries) : runs[entries[i].run].agent = a}
  IN  IF own = {} THEN NoEntry ELSE entries[CHOOSE i \in own : \A j \in own : j <= i]

(* Mutant: of the rows of an agent the first wins.                       *)
FirstIn(entries, a) ==
  LET own == {i \in 1 .. Len(entries) : runs[entries[i].run].agent = a}
  IN  IF own = {} THEN NoEntry ELSE entries[CHOOSE i \in own : \A j \in own : i <= j]
LoadedFirst == IF loaded THEN byAgent ELSE [a \in Agents |-> FirstIn(LoadedRecords, a)]

LoadedByAgent == IF loaded THEN byAgent ELSE [a \in Agents |-> LatestIn(LoadedRecords, a)]

(* Mutant: the tip on file is not restored.                              *)
LoadedFresh == IF loaded THEN last ELSE Genesis

LoadedLast == IF loaded THEN last ELSE Tip

(* list_runs, get_run_by_id, get_last_run and chain_report only load.      *)
Read ==
  /\ ~loaded
  /\ loaded' = TRUE
  /\ records' = LoadedRecords /\ byAgent' = LoadedByAgent /\ last' = LoadedLast
  /\ UNCHANGED <<file, tail, runs, edited, severed, count>>

(* The same, when the file cannot be opened or read to its end: the rows   *)
(* read so far stay in memory, the tip is not restored, and the file       *)
(* counts as loaded.  A run whose own load fails does what it does after   *)
(* such a read, so it needs no action of its own.                          *)
Misread ==
  /\ ~loaded /\ file # << >>
  /\ count.misreads < MaxMisreads
  /\ count' = [count EXCEPT !.misreads = @ + 1]
  /\ loaded' = TRUE /\ severed' = TRUE
  /\ \E n \in 0 .. Len(LoadedRecords) :
       /\ records' = SubSeq(LoadedRecords, 1, n)
       /\ byAgent' = [a \in Agents |-> LatestIn(records', a)]
  /\ UNCHANGED <<file, tail, last, runs, edited>>

-----------------------------------------------------------------------------
(* Runs                                                                    *)

(* Mutant: a stub is added before the file is read.                      *)
UpsertCold(r) ==
  LET stub == [run |-> r, hash |-> Genesis]
  IN  /\ loaded' = TRUE /\ last' = LoadedLast
      /\ records' = Append(records, stub)
      /\ byAgent' = [LoadedByAgent EXCEPT ![runs[r].agent] = stub]

(* upsert_run: a stub is merged in place or appended; no hash is computed. *)
Upsert(r) ==
  LET stub == [run |-> r, hash |-> Genesis]
      rows == LoadedRecords
  IN  /\ loaded' = TRUE /\ last' = LoadedLast
      /\ records' = IF \E i \in 1 .. Len(rows) : rows[i] = stub THEN rows ELSE Append(rows, stub)
      /\ byAgent' = [LoadedByAgent EXCEPT ![runs[r].agent] = stub]

(* AgentRuntime.run shows the run before it begins.                        *)
StartRun(r) ==
  /\ runs[r].phase = "new"
  /\ Upsert(r)
  /\ runs' = [runs EXCEPT ![r].phase = "open"]
  /\ UNCHANGED <<file, tail, edited, severed, count>>

(* The tool loop updates the stub after each tool.                         *)
Trace(r) ==
  /\ runs[r].phase = "open"
  /\ Upsert(r)
  /\ UNCHANGED <<file, tail, runs, edited, severed, count>>

(* A line appended after a cut-off line becomes part of it.                *)
AppendLine(row) ==
  \/ /\ tail = "clean"
     /\ file' = Append(file, row)
     /\ UNCHANGED <<tail, count>>
  \/ /\ tail = "torn"
     /\ tail' = "clean"
     /\ UNCHANGED <<file, count>>
  \/ /\ count.faults < MaxFaults
     /\ count' = [count EXCEPT !.faults = @ + 1]
     /\ \/ UNCHANGED <<file, tail>>
        \/ /\ tail' = "torn"
           /\ file' = IF tail = "torn" THEN file ELSE Append(file, Garbage)

(* record_run, called by AuditLogger.log_run when the run ends.  The tip   *)
(* and the memory advance before the append is tried.                      *)
RecordRun(r) ==
  LET body == [run |-> r, edited |-> FALSE]
      hash == HashOf(LoadedLast, body)
  IN  /\ runs[r].phase = "open"
      /\ loaded' = TRUE
      /\ last' = hash
      /\ records' = Append(LoadedRecords, [run |-> r, hash |-> hash])
      /\ byAgent' = [LoadedByAgent EXCEPT ![runs[r].agent] = [run |-> r, hash |-> hash]]
      /\ AppendLine([body |-> body, prev |-> LoadedLast, hash |-> hash])
      /\ runs' = [runs EXCEPT ![r].phase = "done"]
      /\ UNCHANGED <<edited, severed>>

-----------------------------------------------------------------------------
(* The environment                                                         *)

(* The process stops at any point; runs in flight are never recorded.      *)
Restart ==
  /\ count.restarts < MaxRestarts
  /\ count' = [count EXCEPT !.restarts = @ + 1]
  /\ records' = << >> /\ byAgent' = [a \in Agents |-> NoEntry]
  /\ last' = Genesis /\ loaded' = FALSE
  /\ runs' = [r \in Runs |-> IF runs[r].phase = "open" THEN [runs[r] EXCEPT !.phase = "lost"]
                             ELSE runs[r]]
  /\ UNCHANGED <<file, tail, edited, severed>>

(* A row is changed on file and its hash is not recomputed.                *)
Edit(i) ==
  /\ count.edits < MaxEdits /\ file[i] # Garbage
  /\ count' = [count EXCEPT !.edits = @ + 1]
  /\ file' = [file EXCEPT ![i] = [@ EXCEPT !.body.edited = TRUE]]
  /\ edited' = TRUE
  /\ UNCHANGED <<tail, memory, runs, severed>>

(* An operator follows the advice to delete data/runs.                     *)
Delete ==
  /\ count.deletes < MaxDeletes
  /\ count' = [count EXCEPT !.deletes = @ + 1]
  /\ file' = << >> /\ tail' = "clean"
  /\ edited' = FALSE /\ severed' = loaded
  /\ UNCHANGED <<memory, runs>>

(* reset_run_log_for_demo deletes the file and forgets the memory as well. *)
Reset ==
  /\ count.deletes < MaxDeletes
  /\ count' = [count EXCEPT !.deletes = @ + 1]
  /\ file' = << >> /\ tail' = "clean"
  /\ records' = << >> /\ byAgent' = [a \in Agents |-> NoEntry]
  /\ last' = Genesis /\ loaded' = FALSE
  /\ edited' = FALSE /\ severed' = FALSE
  /\ UNCHANGED runs

-----------------------------------------------------------------------------
Next ==
  \/ \E r \in Runs : StartRun(r) \/ Trace(r) \/ RecordRun(r)
  \/ Read \/ Misread
  \/ Restart
  \/ \E i \in 1 .. Len(file) : Edit(i)
  \/ Delete
  \/ Reset

Spec == Init /\ [][Next]_vars

-----------------------------------------------------------------------------
(* Types: the lines, the rows in memory and the tip have their type.       *)
TypeOK ==
  /\ file \in Seq(Line) /\ tail \in {"clean", "torn"}
  /\ records \in Seq(Entry) /\ byAgent \in [Agents -> Entry \cup {NoEntry}]
  /\ last \in Hash /\ loaded \in BOOLEAN
  /\ runs \in [Runs -> [phase : {"new", "open", "done", "lost"}, agent : Agents]]
  /\ edited \in BOOLEAN /\ severed \in BOOLEAN
  /\ count \in [faults : Nat, misreads : Nat, restarts : Nat, edits : Nat, deletes : Nat]

(* Left alone, the chain verifies, across any number of restarts: unless   *)
(* the load fails, the tip is restored from the file before a row is       *)
(* chained to it.                                                          *)
ChainVerifies == (count.faults = 0 /\ ~edited /\ ~severed) => Verified

(* An edited row shows for as long as it is on file, however many rows are *)
(* appended after it and whatever else happens to the file.                *)
EditShows == edited => ~Verified

(* The rows in memory that are of finished runs.                           *)
Recorded == {i \in 1 .. Len(records) : records[i].hash # Genesis}

(* What the run routes list and count as chained is what is on file, in    *)
(* the same order.                                                         *)
ReportMatchesFile ==
  (loaded /\ count.faults = 0 /\ ~severed /\ count.deletes = 0) =>
    Selected(records, Recorded) = [i \in 1 .. Len(file) |-> ToEntry(file[i])]

(* When no run of an agent is in flight, its last run in the registry is   *)
(* the newest recorded one it has in memory, even after runs of it         *)
(* overlapped or a load that stopped halfway.                              *)
LastRunIsLatest ==
  \A a \in Agents :
    (\A r \in Runs : runs[r].agent = a => runs[r].phase # "open") =>
      byAgent[a] = LET own == {i \in Recorded : runs[records[i].run].agent = a}
                   IN  IF own = {} THEN NoEntry
                       ELSE records[CHOOSE i \in own : \A j \in own : j <= i]
=============================================================================
