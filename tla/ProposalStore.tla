---------------------------- MODULE ProposalStore ----------------------------
(***************************************************************************)
(* The queue of manager-decision cards: runtime/proposal_store.py, the     *)
(* expiry job that runs in a pool thread beside the event loop, and the    *)
(* callers on the loop that write to it: the tail of AgentRuntime.run, the *)
(* HTTP resolve route, the in-chat approve/reject tools, the boot sweep.   *)
(*                                                                         *)
(* Every write is a lock section that updates the dictionary and appends a *)
(* JSONL row.  resolve_proposal reads in one lock section and writes in    *)
(* another, so the two threads interleave between them.  The first reader  *)
(* replays the file into memory line by line, and each thread may be that  *)
(* reader.  A loop handler has no await in it: handlers of the loop never  *)
(* interleave each other.                                                  *)
(*                                                                         *)
(* Data abstracted: a card is its mint number, which is also its           *)
(* created_at order; what supersedes what is its group; a row is a status  *)
(* and the run stamped on it; the file is, for each card, its last         *)
(* readable row and the set of those before it; all cards are of one       *)
(* store, since every filter is by store.                                  *)
(***************************************************************************)
EXTENDS Naturals, FiniteSets

CONSTANTS
  MaxCards,     (* bound: cards minted                                     *)
  Runs,         (* agent runs, each used once (a run id is a fresh uuid)   *)
  Decisions,    (* the two statuses a manager gives: APPROVED, REJECTED    *)
  Snapshot,     (* card groups of SNAPSHOT_AGENTS: a newer run replaces    *)
  Reviews,      (* card groups of review_response, one per review id       *)
  NoReview,     (* the review_response cards that carry no review id       *)
  Notify,       (* NOTIFY_MANAGERS rows, left on file by earlier versions  *)
  Fleet,        (* target of a run with no store_id                        *)
  Chat,         (* target of a manager_chat run                            *)
  NoRow, NoRun, (* sentinels                                               *)
  DemoMode,     (* demo_mode(): the boot sweep runs, and every agent but   *)
                (* review_response is given the focus store                *)
  MaxFaults,    (* bound: appends and loads that fail                      *)
  MaxRestarts   (* bound: crashes                                          *)

Threads == {"loop", "sweep"}
Cards   == 1 .. MaxCards
Groups  == Snapshot \cup Reviews \cup {NoReview}
Targets == Groups \cup {Fleet, Chat}
Status  == Decisions \cup {"PENDING", "EXPIRED", "SUPERSEDED"}
Row     == [status : Status, run : Runs \cup {NoRun}]
Entry   == Row \cup {NoRow}

ASSUME ConstantsAssumption ==
  /\ MaxCards \in Nat \ {0} /\ MaxFaults \in Nat /\ MaxRestarts \in Nat
  /\ DemoMode \in BOOLEAN
  /\ Decisions \cap {"PENDING", "EXPIRED", "SUPERSEDED", "absent"} = {}
  /\ NoRow \notin Row
  /\ NoRun \notin Runs
  /\ Notify \notin Groups /\ Fleet \notin Groups /\ Chat \notin Groups
  /\ Fleet # Chat

VARIABLES
  mem,       (* _by_id                                                     *)
  loaded,    (* _loaded: a replay of the file into _by_id has ended        *)
  reading,   (* threads inside _load_file_once                             *)
  unread,    (* unread[t]: cards whose last line t has still to replay     *)
  disk,      (* the last readable row of each card on file                 *)
  older,     (* the readable rows of each card before that one             *)
  tail,      (* "torn": the file ends in a partial line                    *)
  lost,      (* cards whose row in memory may not be the last on file: an  *)
             (* append of theirs or the load before their line failed      *)
  faults,    (* appends and loads that failed so far                       *)
  group,     (* the group of each card minted so far                       *)
  minted,    (* cards minted so far                                        *)
  aged,      (* cards 1..aged are past the expiry cutoff                   *)
  runs,      (* the agent runs                                             *)
  carry,     (* carry[r]: cards among the proposals run r will save        *)
  loop,      (* what the event loop is executing                           *)
  sweep,     (* what the expiry thread is executing                        *)
  restarts   (* crashes so far                                             *)

load  == <<loaded, reading, unread>>
file  == <<disk, older, tail, lost, faults>>
store == <<mem, load, file>>
cards == <<group, minted, aged>>
vars  == <<store, cards, runs, carry, loop, sweep, restarts>>

(* resolve_proposal holds a copy of the row it read; the status in it is   *)
(* overwritten, the run is not.                                            *)
Held == [card : Cards, run : Runs \cup {NoRun}]

IdleLoop  == [job |-> "none", pc |-> "idle", run |-> NoRun, goal |-> "PENDING",
              todo |-> {}, held |-> {}]
IdleSweep == [pc |-> "idle", todo |-> {}, held |-> {}]

BootLoop == IF DemoMode THEN [IdleLoop EXCEPT !.job = "boot", !.pc = "list"] ELSE IdleLoop

(* A process starts on an empty file or on one an earlier version left.    *)
Init ==
  /\ \E legacy \in BOOLEAN :
       /\ disk = [c \in Cards |-> IF legacy /\ c = 1
                                  THEN [status |-> "PENDING", run |-> NoRun] ELSE NoRow]
       /\ minted = IF legacy THEN 1 ELSE 0
  /\ group = [c \in Cards |-> Notify]
  /\ aged = 0
  /\ mem = [c \in Cards |-> NoRow] /\ loaded = FALSE
  /\ reading = {} /\ unread = [t \in Threads |-> {}]
  /\ older = [c \in Cards |-> {}]
  /\ tail = "clean" /\ lost = {} /\ faults = 0 /\ restarts = 0
  /\ runs = [r \in Runs |-> [phase |-> "new", target |-> Chat, caller |-> NoRun]]
  /\ carry = [r \in Runs |-> {}]
  /\ loop = BootLoop
  /\ sweep = IdleSweep

-----------------------------------------------------------------------------
(* Reading the store                                                       *)

(* The loop is between two handlers, or at a step of the one it executes,  *)
(* and not inside a load.                                                  *)
LoopAt(pc) == loop.pc = pc /\ "loop" \notin reading
Idle       == LoopAt("idle")

(* Where a thread calls _load_file_once: a list, or a get that misses.     *)
(* The scheduler is started after the boot sweep.                          *)
LoopLists == \/ loop.pc \in {"idle", "list"}
             \/ loop.pc = "save" /\ loop.todo = {} /\ runs[loop.run].target # Fleet
             \/ loop.pc = "get" /\ \E c \in loop.todo : mem[c] = NoRow

SweepLists == sweep.pc = "idle" /\ loop.job # "boot"

(* _loaded is tested outside the lock: both threads may enter.             *)
StartLoad(t) ==
  /\ ~loaded /\ t \notin reading
  /\ IF t = "loop" THEN LoopLists ELSE SweepLists
  /\ reading' = reading \cup {t}
  /\ unread' = [unread EXCEPT ![t] = {c \in Cards : disk[c] # NoRow}]
  /\ UNCHANGED <<mem, loaded, file, cards, runs, carry, loop, sweep, restarts>>

(* Each line replaces what memory holds of its card, in a lock section of  *)
(* its own: first the earlier lines of a card, at last its last one.       *)
ReadEarlier(t, c) ==
  /\ c \in unread[t]
  /\ \E row \in older[c] : mem' = [mem EXCEPT ![c] = row]
  /\ UNCHANGED <<load, file, cards, runs, carry, loop, sweep, restarts>>

ReadLast(t, c) ==
  /\ c \in unread[t]
  /\ mem' = [mem EXCEPT ![c] = disk[c]]
  /\ lost' = lost \ {c}
  /\ unread' = [unread EXCEPT ![t] = @ \ {c}]
  /\ UNCHANGED <<loaded, reading, disk, older, tail, faults,
                 cards, runs, carry, loop, sweep, restarts>>

EndLoad(t) ==
  /\ t \in reading /\ unread[t] = {}
  /\ loaded' = TRUE /\ reading' = reading \ {t}
  /\ UNCHANGED <<mem, unread, file, cards, runs, carry, loop, sweep, restarts>>

(* Mutant: the cards that were not reached are forgotten about.            *)
FailLoadUnmarked(t) ==
  /\ t \in reading /\ faults < MaxFaults
  /\ faults' = faults + 1
  /\ unread' = [unread EXCEPT ![t] = {}]
  /\ loaded' = TRUE /\ reading' = reading \ {t}
  /\ UNCHANGED <<mem, lost, disk, older, tail, cards, runs, carry, loop, sweep, restarts>>

(* An exception ends the load where it is, and it counts as done.          *)
FailLoad(t) ==
  /\ t \in reading /\ faults < MaxFaults
  /\ faults' = faults + 1
  /\ lost' = lost \cup unread[t]
  /\ unread' = [unread EXCEPT ![t] = {}]
  /\ loaded' = TRUE /\ reading' = reading \ {t}
  /\ UNCHANGED <<mem, disk, older, tail, cards, runs, carry, loop, sweep, restarts>>

(* What get_proposal answers: memory first, the file only on a miss.       *)
Found(c) == IF mem[c] # NoRow \/ loaded THEN mem[c] ELSE disk[c]

(* A get goes on when it hits, or when its own load is over.               *)
CanGet(c) == mem[c] # NoRow \/ loaded

(* _filtered_rows(status="PENDING"), once the load it begins with is over. *)
Open      == {c \in Cards : mem[c] # NoRow /\ mem[c].status = "PENDING"}
OpenIn(g) == {c \in Open : group[c] = g}

-----------------------------------------------------------------------------
(* Writing the store: one lock section                                     *)

(* A load that is under way reaches the new line too.  A row appended      *)
(* after a partial line shares that line, and a load skips both.  A failed *)
(* append is only logged.                                                  *)
Append(c, row) ==
  \/ /\ tail = "clean"
     /\ disk' = [disk EXCEPT ![c] = row]
     /\ older' = [older EXCEPT ![c] = @ \cup ({disk[c]} \ {NoRow})]
     /\ unread' = [t \in Threads |-> IF t \in reading THEN unread[t] \cup {c} ELSE unread[t]]
     /\ lost' = lost \ {c}
     /\ UNCHANGED <<tail, faults>>
  \/ /\ tail = "torn"
     /\ tail' = "clean"
     /\ lost' = lost \cup {c}
     /\ UNCHANGED <<disk, older, unread, faults>>
  \/ /\ faults < MaxFaults
     /\ faults' = faults + 1
     /\ tail' \in {tail, "torn"}
     /\ lost' = lost \cup {c}
     /\ UNCHANGED <<disk, older, unread>>

(* Mutant: the row is kept in memory and never appended.                   *)
WriteMemoryOnly(c, row) ==
  /\ mem' = [mem EXCEPT ![c] = row]
  /\ UNCHANGED <<load, file>>

Write(c, row) ==
  /\ mem' = [mem EXCEPT ![c] = row]
  /\ Append(c, row)
  /\ UNCHANGED <<loaded, reading>>

-----------------------------------------------------------------------------
(* Agent runs between their awaits: they step when the loop is idle.       *)

Ended(r)    == runs[r].phase = "done"
Calls(q, r) == runs[r].phase # "new" /\ runs[r].caller = q
InTools(r)  == Idle /\ runs[r].phase = "open" /\ \A s \in Runs : Calls(r, s) => Ended(s)

(* A run is started by a route, the scheduler or the review consumer, or   *)
(* by a manager chat whose tool calls the specialist and awaits it.        *)
StartRun(r, t, q) ==
  /\ Idle /\ runs[r].phase = "new"
  /\ q # NoRun => runs[q].phase = "open" /\ runs[q].target = Chat /\ t # Chat
  /\ runs' = [runs EXCEPT ![r] = [phase |-> "open", target |-> t, caller |-> q]]
  /\ UNCHANGED <<store, cards, carry, loop, sweep, restarts>>

(* Groups the tools of a run may draft cards for.                          *)
DraftGroups(r) ==
  CASE runs[r].target = Fleet -> IF DemoMode THEN Groups \ Snapshot ELSE Groups
    [] runs[r].target = Chat  -> {}
    [] OTHER                  -> {runs[r].target}

(* A draft tool mints a card; it is saved only when the run commits.       *)
Draft(r) ==
  /\ Idle /\ runs[r].phase = "open" /\ minted < MaxCards
  /\ \E g \in DraftGroups(r) : group' = [group EXCEPT ![minted + 1] = g]
  /\ minted' = minted + 1
  /\ carry' = [carry EXCEPT ![r] = @ \cup {minted + 1}]
  /\ UNCHANGED <<store, aged, runs, loop, sweep, restarts>>

(* The idempotency key is taken: the tool answers with a copy of           *)
(* latest_open, a PENDING card, as the proposal.                           *)
DuplicateDraft(r) ==
  /\ Idle /\ loaded /\ runs[r].phase = "open"
  /\ \E g \in DraftGroups(r) \cap Snapshot : \E c \in OpenIn(g) :
       /\ \A d \in OpenIn(g) : d <= c
       /\ carry' = [carry EXCEPT ![r] = @ \cup {c}]
  /\ UNCHANGED <<store, cards, runs, loop, sweep, restarts>>

(* list_pending_proposals inside a manager chat: its rows come back under  *)
(* "proposals", and the tool loop takes them for proposals of this run.    *)
ListPending(r) ==
  /\ Idle /\ loaded /\ runs[r].phase = "open" /\ runs[r].target = Chat
  /\ carry' = [carry EXCEPT ![r] = @ \cup (Open \ OpenIn(Notify))]
  /\ UNCHANGED <<store, cards, runs, loop, sweep, restarts>>

(* The LLM path raised: what its tools returned is dropped, and the rule   *)
(* fallback goes on in the same run.                                       *)
Discard(r) ==
  /\ InTools(r)
  /\ carry' = [carry EXCEPT ![r] = {}]
  /\ UNCHANGED <<store, cards, runs, loop, sweep, restarts>>

(* The fallback raised: the run ends without saving or superseding.        *)
Fail(r) ==
  /\ InTools(r)
  /\ runs' = [runs EXCEPT ![r].phase = "done"]
  /\ carry' = [carry EXCEPT ![r] = {}]
  /\ UNCHANGED <<store, cards, loop, sweep, restarts>>

-----------------------------------------------------------------------------
(* The tail of AgentRuntime.run                                            *)

Commit(r) ==
  /\ InTools(r)
  /\ runs' = [runs EXCEPT ![r].phase = "commit"]
  /\ loop' = [IdleLoop EXCEPT !.job = "commit", !.pc = "save", !.run = r, !.todo = carry[r]]
  /\ UNCHANGED <<store, cards, carry, sweep, restarts>>

(* Mutant: the row is saved without the run stamped on it.                 *)
SaveUnstamped(c) ==
  /\ LoopAt("save") /\ c \in loop.todo
  /\ Write(c, [status |-> "PENDING"])
  /\ loop' = [loop EXCEPT !.todo = @ \ {c}]
  /\ UNCHANGED <<cards, runs, carry, sweep, restarts>>

(* save_proposal keeps the status the copy came with, PENDING, and stamps  *)
(* the run; what the card has become meanwhile is not looked at.           *)
Save(c) ==
  /\ LoopAt("save") /\ c \in loop.todo
  /\ Write(c, [status |-> "PENDING", run |-> loop.run])
  /\ loop' = [loop EXCEPT !.todo = @ \ {c}]
  /\ UNCHANGED <<cards, runs, carry, sweep, restarts>>

(* The groups a run may clear: a review run that drafted nothing has no    *)
(* review id to name, and clears the cards that have none.                 *)
Cleared(r) ==
  CASE runs[r].target \in Snapshot -> {runs[r].target}
    [] runs[r].target \in Reviews  -> IF carry[r] # {} THEN {runs[r].target} ELSE {NoReview}
    [] runs[r].target = NoReview   -> {NoReview}
    [] OTHER                       -> {}

(* Mutant: keep_ids and keep_run_id are ignored.                           *)
StaleOwnToo(r) == {c \in Open : group[c] \in Cleared(r)}

(* Mutant: the rows are not filtered by status.                            *)
StaleAnyStatus(r) ==
  {c \in Cards : /\ mem[c] # NoRow
                 /\ group[c] \in Cleared(r) /\ c \notin carry[r] /\ mem[c].run # r}

Stale(r) ==
  {c \in Open : group[c] \in Cleared(r) /\ c \notin carry[r] /\ mem[c].run # r}

(* Mutant: a run that drafted nothing supersedes nothing.                  *)
SupersedeIfDrafted ==
  /\ LoopAt("save") /\ loop.todo = {}
  /\ loaded
  /\ loop' = [loop EXCEPT !.pc = "get", !.goal = "SUPERSEDED",
                          !.todo = IF carry[loop.run] = {} THEN {} ELSE Stale(loop.run)]
  /\ UNCHANGED <<store, cards, runs, carry, sweep, restarts>>

(* supersede_stale_pending takes its list once every card is saved; a run  *)
(* without a store does not call it.                                       *)
Supersede ==
  /\ LoopAt("save") /\ loop.todo = {}
  /\ runs[loop.run].target # Fleet => loaded
  /\ loop' = [loop EXCEPT !.pc = "get", !.goal = "SUPERSEDED", !.todo = Stale(loop.run)]
  /\ UNCHANGED <<store, cards, runs, carry, sweep, restarts>>

-----------------------------------------------------------------------------
(* sweep_stale_open_queue, before the scheduler and the routes start       *)

Newest(g) == CHOOSE c \in OpenIn(g) : \A d \in OpenIn(g) : d <= c

BootStale ==
  OpenIn(Notify) \cup
  {c \in Open : group[c] \in Snapshot \cup Reviews
                /\ mem[c].run # mem[Newest(group[c])].run}

BootSweep ==
  /\ LoopAt("list") /\ loaded
  /\ loop' = [loop EXCEPT !.pc = "get", !.goal = "SUPERSEDED", !.todo = BootStale]
  /\ UNCHANGED <<store, cards, runs, carry, sweep, restarts>>

-----------------------------------------------------------------------------
(* Managers                                                                *)

Decide(job, c, d) ==
  loop' = [IdleLoop EXCEPT !.job = job, !.pc = "get", !.goal = d, !.todo = {c}]

(* POST /agent/proposals/{id}/resolve looks at no status.                  *)
HttpResolve(c, d) ==
  /\ Idle
  /\ Decide("http", c, d)
  /\ UNCHANGED <<store, cards, runs, carry, sweep, restarts>>

(* Mutant: the tool does not check that the card is PENDING.               *)
ChatResolveUnchecked(r, c, d) ==
  /\ Idle /\ runs[r].phase = "open" /\ runs[r].target = Chat
  /\ CanGet(c) /\ mem[c] # NoRow
  /\ Decide("chat", c, d)
  /\ UNCHANGED <<store, cards, runs, carry, sweep, restarts>>

(* approve_proposal / reject_proposal: the tool checks its own read.       *)
ChatResolve(r, c, d) ==
  /\ Idle /\ runs[r].phase = "open" /\ runs[r].target = Chat
  /\ CanGet(c) /\ c \in Open
  /\ Decide("chat", c, d)
  /\ UNCHANGED <<store, cards, runs, carry, sweep, restarts>>

-----------------------------------------------------------------------------
(* resolve_proposal on the loop.  What the apply hooks of a manager's      *)
(* decision then do to the platform does not come back to this store.      *)

LoopGet(c) ==
  /\ LoopAt("get") /\ c \in loop.todo
  /\ CanGet(c)
  /\ loop' = IF mem[c] = NoRow THEN [loop EXCEPT !.todo = @ \ {c}]
             ELSE [loop EXCEPT !.pc = "put", !.held = {[card |-> c, run |-> mem[c].run]}]
  /\ UNCHANGED <<store, cards, runs, carry, sweep, restarts>>

LoopPut ==
  /\ loop.pc = "put"
  /\ \E h \in loop.held :
       /\ Write(h.card, [status |-> loop.goal, run |-> h.run])
       /\ loop' = [loop EXCEPT !.pc = "get", !.todo = @ \ {h.card}, !.held = {}]
  /\ UNCHANGED <<cards, runs, carry, sweep, restarts>>

(* The output of a run keeps its "proposals" as drafted: the chat that     *)
(* called the specialist takes them for proposals of its own.              *)
HandBack(r) ==
  [q \in Runs |-> IF q = r THEN {}
                  ELSE IF q = runs[r].caller THEN carry[q] \cup carry[r] ELSE carry[q]]

(* A list of cards is worked off; a commit is then complete.               *)
LoopDone ==
  /\ LoopAt("get") /\ loop.todo = {}
  /\ IF loop.job = "commit"
     THEN /\ runs' = [runs EXCEPT ![loop.run].phase = "done"]
          /\ carry' = HandBack(loop.run)
     ELSE UNCHANGED <<runs, carry>>
  /\ loop' = IdleLoop
  /\ UNCHANGED <<store, cards, sweep, restarts>>

-----------------------------------------------------------------------------
(* sweep_expired, a plain function, which the executor of the scheduler    *)
(* runs in a pool thread: it lists, then resolves card by card.            *)

(* Mutant: the newest card past the cutoff is left out.                    *)
ExpirableBelow == {c \in Open : c < aged}

Expirable == {c \in Open : c <= aged}

SweepStart ==
  /\ SweepLists /\ loaded /\ "sweep" \notin reading
  /\ sweep' = [sweep EXCEPT !.pc = "get", !.todo = Expirable]
  /\ UNCHANGED <<store, cards, runs, carry, loop, restarts>>

SweepGet(c) ==
  /\ sweep.pc = "get" /\ c \in sweep.todo
  /\ sweep' = [sweep EXCEPT !.pc = "put", !.held = {[card |-> c, run |-> mem[c].run]}]
  /\ UNCHANGED <<store, cards, runs, carry, loop, restarts>>

SweepPut ==
  /\ sweep.pc = "put"
  /\ \E h \in sweep.held :
       /\ Write(h.card, [status |-> "EXPIRED", run |-> h.run])
       /\ sweep' = [sweep EXCEPT !.pc = "get", !.todo = @ \ {h.card}, !.held = {}]
  /\ UNCHANGED <<cards, runs, carry, loop, restarts>>

SweepDone ==
  /\ sweep.pc = "get" /\ sweep.todo = {}
  /\ sweep' = IdleSweep
  /\ UNCHANGED <<store, cards, runs, carry, loop, restarts>>

-----------------------------------------------------------------------------
(* The environment                                                         *)

(* A card passes the 72 hours; the oldest first.                           *)
Age ==
  /\ aged < minted
  /\ aged' = aged + 1
  /\ UNCHANGED <<store, group, minted, runs, carry, loop, sweep, restarts>>

(* The process dies at any point and starts again on the same file.        *)
Restart ==
  /\ restarts < MaxRestarts
  /\ restarts' = restarts + 1
  /\ mem' = [c \in Cards |-> NoRow] /\ loaded' = FALSE /\ lost' = {}
  /\ reading' = {} /\ unread' = [t \in Threads |-> {}]
  /\ runs' = [r \in Runs |-> IF runs[r].phase = "new" THEN runs[r]
                             ELSE [runs[r] EXCEPT !.phase = "done"]]
  /\ carry' = [r \in Runs |-> {}]
  /\ loop' = BootLoop
  /\ sweep' = IdleSweep
  /\ UNCHANGED <<disk, older, tail, faults, cards>>

-----------------------------------------------------------------------------
(* A load under way, and the one a handler on the loop has come to.        *)
LoadStep(t) ==
  \/ \E c \in Cards : ReadEarlier(t, c) \/ ReadLast(t, c)
  \/ EndLoad(t)
  \/ FailLoad(t)

HandlerLoads == loop.pc # "idle" /\ StartLoad("loop")

LoopStep ==
  \/ HandlerLoads
  \/ \E c \in Cards : Save(c) \/ LoopGet(c)
  \/ Supersede
  \/ BootSweep
  \/ LoopPut
  \/ LoopDone

SweepStep ==
  \/ \E c \in Cards : SweepGet(c)
  \/ SweepPut
  \/ SweepDone

RunStep(r) ==
  \/ \E t \in Targets, q \in (Runs \ {r}) \cup {NoRun} : StartRun(r, t, q)
  \/ Draft(r)
  \/ DuplicateDraft(r)
  \/ ListPending(r)
  \/ Discard(r)
  \/ Fail(r)
  \/ Commit(r)
  \/ \E c \in Cards, d \in Decisions : ChatResolve(r, c, d)

Next ==
  \/ \E t \in Threads : StartLoad(t) \/ LoadStep(t)
  \/ LoopStep
  \/ SweepStart
  \/ SweepStep
  \/ \E r \in Runs : RunStep(r)
  \/ \E c \in Cards, d \in Decisions : HttpResolve(c, d)
  \/ Age
  \/ Restart

(* A handler on the loop has no await, so once begun it runs on; the       *)
(* scheduler fires the sweep every day, and its pool thread runs on too.   *)
(* Reading lines is faster than the handlers that append them: a load      *)
(* comes to the end of the file.                                           *)
Fairness ==
  /\ WF_vars(LoopStep)
  /\ WF_vars(StartLoad("sweep") \/ SweepStart) /\ WF_vars(SweepStep)
  /\ \A t \in Threads : (\A c \in Cards : WF_vars(ReadLast(t, c))) /\ SF_vars(EndLoad(t))

Spec == Init /\ [][Next]_vars /\ Fairness

-----------------------------------------------------------------------------
StoreTypeOK ==
  /\ mem \in [Cards -> Entry] /\ disk \in [Cards -> Entry]
  /\ older \in [Cards -> SUBSET Row] /\ tail \in {"clean", "torn"}
  /\ loaded \in BOOLEAN /\ reading \in SUBSET Threads
  /\ unread \in [Threads -> SUBSET Cards]
  /\ lost \in SUBSET Cards /\ faults \in Nat

CardsTypeOK ==
  /\ group \in [Cards -> Groups \cup {Notify}]
  /\ minted \in 0 .. MaxCards /\ aged \in 0 .. minted

RunsTypeOK ==
  /\ runs \in [Runs -> [phase  : {"new", "open", "commit", "done"},
                        target : Targets, caller : Runs \cup {NoRun}]]
  /\ carry \in [Runs -> SUBSET Cards]

LoopTypeOK ==
  loop \in [job  : {"none", "boot", "commit", "http", "chat"},
            pc   : {"idle", "save", "list", "get", "put"},
            run  : Runs \cup {NoRun}, goal : Status,
            todo : SUBSET Cards, held : SUBSET Held]

SweepTypeOK == sweep \in [pc : {"idle", "get", "put"}, todo : SUBSET Cards, held : SUBSET Held]

(* Types: every row, copy and list has its type, and no card is past the   *)
(* cutoff before it is minted.                                             *)
TypeOK ==
  /\ StoreTypeOK /\ CardsTypeOK /\ RunsTypeOK /\ LoopTypeOK /\ SweepTypeOK
  /\ restarts \in Nat

StatusOf(entry) == IF entry = NoRow THEN "absent" ELSE entry.status
IsOpen(c)       == StatusOf(Found(c)) = "PENDING"

(* The tail of run r ends, other than by a crash.                          *)
Completes(r) == runs[r].phase = "commit" /\ Ended(r)' /\ restarts' = restarts

(* When a run that names a store ends, the groups it may clear hold no     *)
(* open card of any other run, however the expiry thread interleaved.      *)
CommitLeavesOnlyItsCards ==
  [][\A r \in Runs : Completes(r) =>
       \A c \in Cards : (IsOpen(c) /\ group[c] \in Cleared(r)) => Found(c).run = r]_vars

(* A run never closes a card it has just saved: when it ends each of its   *)
(* proposals is open, or was expired meanwhile.                            *)
OwnCardsSurvive ==
  [][\A r \in Runs : Completes(r) =>
       \A c \in carry[r] : StatusOf(mem[c]) \in {"PENDING", "EXPIRED"}]_vars

(* Superseding, by a run or by the boot sweep, never replaces the decision *)
(* of a manager: the list it works from was taken in the same handler.     *)
SupersedeSparesDecisions ==
  [][(LoopPut /\ loop.goal = "SUPERSEDED") =>
       \A c \in Cards : StatusOf(mem[c]) \in Decisions => mem'[c] = mem[c]]_vars

(* In-chat approve and reject overwrite an open card, or one the expiry    *)
(* thread closed after the tool had checked it; never another decision.    *)
ChatDecidesOpenCards ==
  [][\A c \in Cards : (LoopPut /\ loop.job = "chat" /\ mem'[c] # mem[c]) =>
       StatusOf(mem[c]) \in {"PENDING", "EXPIRED"}]_vars

(* A card past the cutoff does not stay open for ever.                     *)
AgedCardsClose == \A c \in Cards : (c <= aged /\ IsOpen(c)) ~> ~IsOpen(c)

(* Cards that a load has still to come to, or that a failure has cut off   *)
(* from their last line.                                                   *)
AtRisk == lost \cup UNION {unread[t] : t \in Threads}

(* A reader is answered the last row on file of every card that is not at  *)
(* risk, whichever threads are in the middle of a load, and after loads    *)
(* and appends that failed.                                                *)
AnswersOnFile == \A c \in Cards \ AtRisk : Found(c) = disk[c]

(* The store is a durable register per card, but for the cards at risk,    *)
(* which answer their last row or an earlier one, or nothing.              *)
Board == INSTANCE CardBoard
           WITH board   <- [c \in Cards |-> Found(c)],
                durable <- disk,
                past    <- [c \in Cards |-> older[c] \cup {NoRow}],
                atRisk  <- AtRisk,
                Opening <- {row \in Row : row.status = "PENDING"}

DurableCards == Board!Spec

-----------------------------------------------------------------------------
(* What the documentation says of the queue, and the code does not do      *)

(* The sweep marks EXPIRED the proposals in PENDING status: a card that is *)
(* expired was open when it was.  The pool thread writes over a decision   *)
(* that was taken between its read and its write.                          *)
SweepExpiresPendingOnly ==
  [][SweepPut => \A c \in Cards : StatusOf(mem[c]) \in Decisions =>
       StatusOf(mem'[c]) # "EXPIRED"]_vars
=============================================================================
