------------------------- MODULE ProposalStoreProofs -------------------------
(***************************************************************************)
(* Theorems about ProposalStore, for every value of its constants.         *)
(***************************************************************************)
EXTENDS ProposalStore, TLAPS

-----------------------------------------------------------------------------
(* Reading and writing the store keep its type                             *)

(* A load knows of a card by a line of it on file, and a thread that is in *)
(* no load has nothing left to read.                                       *)
LoadOK ==
  /\ \A t \in Threads : \A c \in unread[t] : disk[c] # NoRow
  /\ \A t \in Threads \ reading : unread[t] = {}

(* A lock section that writes a row keeps the type of the store.           *)
LEMMA WriteType ==
  ASSUME StoreTypeOK, LoadOK, NEW c \in Cards, NEW row \in Row, Write(c, row)
  PROVE  StoreTypeOK' /\ LoadOK'
<1>1. mem' \in [Cards -> Entry] /\ loaded' \in BOOLEAN /\ reading' = reading
  BY DEF StoreTypeOK, Write, Entry
<1>2. Append(c, row)
  BY DEF Write
<1>3. disk' \in [Cards -> Entry] /\ tail' \in {"clean", "torn"}
  BY <1>2 DEF StoreTypeOK, Append, Entry
<1>4. lost' \in SUBSET Cards /\ faults' \in Nat
  BY <1>2 DEF StoreTypeOK, Append
<1>5. \A d \in Cards : disk[d] \in Row \cup {NoRow}
  BY DEF StoreTypeOK, Entry
<1>6. older' \in [Cards -> SUBSET Row]
  BY <1>2, <1>5 DEF StoreTypeOK, Append
<1>7. unread' \in [Threads -> SUBSET Cards]
  BY <1>2 DEF StoreTypeOK, Append
<1>8. ASSUME NEW t \in Threads, NEW d \in unread'[t] PROVE disk'[d] # NoRow
  <2>1. \/ unread' = unread /\ disk' = disk
        \/ disk' = [disk EXCEPT ![c] = row] /\ (d \in unread[t] \/ d = c)
    BY <1>2, <1>8 DEF Append
  <2> QED BY <1>8, <2>1, ConstantsAssumption DEF LoadOK, StoreTypeOK
<1>9. \A t \in Threads \ reading : unread'[t] = {}
  BY <1>2 DEF Append, LoadOK
<1> QED BY <1>1, <1>3, <1>4, <1>6, <1>7, <1>8, <1>9 DEF StoreTypeOK, LoadOK

(* What a thread does on its way through _load_file_once.                  *)
Loading(t) == StartLoad(t) \/ LoadStep(t)

(* So does every step of a load, and it touches nothing but the store.     *)
LEMMA LoadType ==
  ASSUME StoreTypeOK, LoadOK, NEW t \in Threads, Loading(t)
  PROVE  /\ StoreTypeOK' /\ LoadOK'
         /\ UNCHANGED <<disk, cards, runs, carry, loop, sweep, restarts>>
<1>1. CASE StartLoad(t)
  <2>1. {c \in Cards : disk[c] # NoRow} \in SUBSET Cards
    OBVIOUS
  <2>2. UNCHANGED <<mem, loaded, file, cards, runs, carry, loop, sweep, restarts>>
    BY <1>1 DEF StartLoad
  <2>3. reading' \in SUBSET Threads /\ unread' \in [Threads -> SUBSET Cards]
    BY <1>1, <2>1 DEF StartLoad, StoreTypeOK
  <2>4. LoadOK'
    BY <1>1, <2>1, <2>2 DEF StartLoad, file, StoreTypeOK, LoadOK
  <2> QED BY <2>2, <2>3, <2>4 DEF file, StoreTypeOK
<1>2. CASE \E c \in Cards : ReadEarlier(t, c)
  <2> PICK c \in Cards : ReadEarlier(t, c)
    BY <1>2
  <2>1. mem' \in [Cards -> Entry]
    BY DEF ReadEarlier, StoreTypeOK, Entry
  <2> QED BY <2>1 DEF ReadEarlier, load, file, StoreTypeOK, LoadOK
<1>3. CASE \E c \in Cards : ReadLast(t, c)
  <2> PICK c \in Cards : ReadLast(t, c)
    BY <1>3
  <2>1. mem' \in [Cards -> Entry] /\ lost' \in SUBSET Cards /\ unread' \in [Threads -> SUBSET Cards]
    BY DEF ReadLast, StoreTypeOK
  <2>2. LoadOK'
    BY DEF ReadLast, StoreTypeOK, LoadOK
  <2> QED BY <2>1, <2>2 DEF ReadLast, StoreTypeOK
<1>4. CASE EndLoad(t)
  BY <1>4 DEF EndLoad, file, StoreTypeOK, LoadOK
<1>5. CASE FailLoad(t)
  <2>1. lost' \in SUBSET Cards /\ faults' \in Nat /\ unread' \in [Threads -> SUBSET Cards]
    BY <1>5 DEF FailLoad, StoreTypeOK
  <2>2. LoadOK'
    BY <1>5 DEF FailLoad, StoreTypeOK, LoadOK
  <2> QED BY <1>5, <2>1, <2>2 DEF FailLoad, StoreTypeOK
<1> QED BY <1>1, <1>2, <1>3, <1>4, <1>5 DEF Loading, LoadStep

(* Nothing but a crash takes a card out of memory.                         *)
LEMMA StaysKnown ==
  ASSUME StoreTypeOK, LoadOK, NEW d \in Cards, mem[d] # NoRow,
         \/ \E t \in Threads : Loading(t)
         \/ \E c \in Cards, row \in Row : Write(c, row)
         \/ UNCHANGED store
  PROVE  mem'[d] # NoRow
<1>1. CASE \E t \in Threads : Loading(t)
  <2> PICK t \in Threads : Loading(t)
    BY <1>1
  <2>1. CASE \E c \in Cards : ReadEarlier(t, c)
    BY <2>1, ConstantsAssumption DEF StoreTypeOK, ReadEarlier
  <2>2. CASE \E c \in Cards : ReadLast(t, c)
    BY <2>2 DEF StoreTypeOK, LoadOK, ReadLast
  <2>3. CASE StartLoad(t) \/ EndLoad(t) \/ FailLoad(t)
    BY <2>3 DEF StartLoad, EndLoad, FailLoad
  <2> QED BY <2>1, <2>2, <2>3 DEF Loading, LoadStep
<1>2. CASE \E c \in Cards, row \in Row : Write(c, row)
  BY <1>2, ConstantsAssumption DEF StoreTypeOK, Write
<1>3. CASE UNCHANGED store
  BY <1>3 DEF store
<1> QED BY <1>1, <1>2, <1>3

-----------------------------------------------------------------------------
(* The type invariant                                                      *)

(* The cards a sweep has still to resolve are in memory, so its read finds *)
(* a row to copy the run from.                                             *)
SweptKnown == \A c \in sweep.todo : mem[c] # NoRow

(* The tail of a run belongs to a run.                                     *)
CommitHasRun == loop.job = "commit" => loop.run \in Runs

TypeInv == TypeOK /\ LoadOK /\ SweptKnown /\ CommitHasRun

LEMMA TypeInit == Init => TypeInv
<1> SUFFICES ASSUME Init PROVE TypeInv
  OBVIOUS
<1> USE ConstantsAssumption
<1>1. StoreTypeOK
  <2>1. [status |-> "PENDING", run |-> NoRun] \in Row
    BY DEF Row, Status
  <2>2. disk \in [Cards -> Entry]
    BY <2>1 DEF Init, Entry
  <2> QED BY <2>2 DEF Init, StoreTypeOK, Entry
<1>6. LoadOK
  BY DEF Init, LoadOK
<1>2. CardsTypeOK
  BY DEF Init, CardsTypeOK
<1>3. RunsTypeOK
  BY DEF Init, RunsTypeOK, Targets
<1>4. LoopTypeOK
  BY DEF Init, LoopTypeOK, BootLoop, IdleLoop, Status
<1>5. SweepTypeOK /\ SweptKnown /\ CommitHasRun
  BY DEF Init, SweepTypeOK, SweptKnown, IdleSweep, CommitHasRun, BootLoop, IdleLoop
<1> QED BY <1>1, <1>2, <1>3, <1>4, <1>5, <1>6 DEF Init, TypeInv, TypeOK

(* The agent runs: drafting, listing, starting, ending.                    *)
LEMMA TypeRunStep ==
  ASSUME TypeInv, NEW r \in Runs, RunStep(r)
  PROVE  TypeInv'
<1> USE ConstantsAssumption DEF TypeInv, TypeOK
<1>1. CASE \E t \in Targets, q \in (Runs \ {r}) \cup {NoRun} : StartRun(r, t, q)
  BY <1>1 DEF StartRun, store, load, file, cards, RunsTypeOK, StoreTypeOK, CardsTypeOK,
              LoopTypeOK, SweepTypeOK, SweptKnown, LoadOK, CommitHasRun
<1>2. CASE Draft(r)
  <2>1. minted' \in 0 .. MaxCards /\ aged' \in 0 .. minted' /\ minted + 1 \in Cards
    BY <1>2 DEF Draft, CardsTypeOK, Cards
  <2>2. DraftGroups(r) \subseteq Groups
    BY DEF DraftGroups, RunsTypeOK, Targets, Groups
  <2>3. group' \in [Cards -> Groups \cup {Notify}]
    BY <1>2, <2>1, <2>2 DEF Draft, CardsTypeOK
  <2>4. RunsTypeOK'
    BY <1>2, <2>1 DEF Draft, RunsTypeOK
  <2> QED BY <1>2, <2>1, <2>3, <2>4
          DEF Draft, store, load, file, StoreTypeOK, CardsTypeOK, LoopTypeOK, SweepTypeOK, SweptKnown, LoadOK, CommitHasRun
<1>3. CASE DuplicateDraft(r) \/ ListPending(r)
  <2>1. UNCHANGED <<store, cards, runs, loop, sweep, restarts>>
    BY <1>3 DEF DuplicateDraft, ListPending
  <2>2. carry' \in [Runs -> SUBSET Cards]
    BY <1>3 DEF DuplicateDraft, ListPending, RunsTypeOK, Open, OpenIn
  <2> QED BY <2>1, <2>2 DEF store, load, file, StoreTypeOK, LoadOK, SweptKnown, cards, RunsTypeOK, CardsTypeOK, LoopTypeOK, SweepTypeOK,
                                  CommitHasRun
<1>4. CASE Discard(r) \/ Fail(r)
  BY <1>4 DEF Discard, Fail, store, load, file, cards, RunsTypeOK, StoreTypeOK, CardsTypeOK,
              LoopTypeOK, SweepTypeOK, SweptKnown, LoadOK, CommitHasRun
<1>5. CASE Commit(r)
  <2>1. LoopTypeOK' /\ CommitHasRun'
    BY <1>5 DEF Commit, LoopTypeOK, RunsTypeOK, IdleLoop, Status, CommitHasRun
  <2> QED BY <1>5, <2>1 DEF Commit, store, load, file, LoadOK, cards, RunsTypeOK, StoreTypeOK, CardsTypeOK,
                            SweepTypeOK, SweptKnown
<1>6. CASE \E c \in Cards, d \in Decisions : ChatResolve(r, c, d)
  <2> PICK c \in Cards, d \in Decisions : ChatResolve(r, c, d)
    BY <1>6
  <2>1. LoopTypeOK' /\ CommitHasRun'
    BY DEF ChatResolve, Decide, LoopTypeOK, IdleLoop, Status, CommitHasRun
  <2> QED BY <2>1 DEF ChatResolve, store, load, file, StoreTypeOK, LoadOK, SweptKnown, cards, RunsTypeOK,
                      CardsTypeOK, SweepTypeOK
<1> QED BY <1>1, <1>2, <1>3, <1>4, <1>5, <1>6 DEF RunStep

(* A load touches nothing but the store.                                   *)
LEMMA TypeLoadStep ==
  ASSUME TypeInv, NEW t \in Threads, Loading(t)
  PROVE  TypeInv'
<1> USE DEF TypeInv, TypeOK
<1>1. /\ StoreTypeOK' /\ LoadOK'
      /\ UNCHANGED <<cards, runs, carry, loop, sweep, restarts>>
  BY LoadType
<1>2. SweptKnown'
  BY <1>1, StaysKnown DEF SweptKnown, SweepTypeOK
<1> QED BY <1>1, <1>2 DEF cards, RunsTypeOK, CardsTypeOK, LoopTypeOK, SweepTypeOK, CommitHasRun

(* The handlers of the event loop, once begun.                             *)
LEMMA TypeLoopStep ==
  ASSUME TypeInv, LoopStep
  PROVE  TypeInv'
<1> USE DEF TypeInv, TypeOK
<1>0. CASE HandlerLoads
  BY <1>0, TypeLoadStep DEF HandlerLoads, Loading, Threads
<1>1. CASE \E c \in Cards : Save(c)
  <2> PICK c \in Cards : Save(c)
    BY <1>1
  <2> DEFINE row == [status |-> "PENDING", run |-> loop.run]
  <2>1. row \in Row
    BY DEF LoopTypeOK, Row, Status
  <2>2. Write(c, row)
    BY DEF Save
  <2>3. StoreTypeOK' /\ LoadOK' /\ SweptKnown'
    <3> HIDE DEF row
    <3> QED BY <2>1, <2>2, WriteType, StaysKnown DEF Save, SweptKnown, SweepTypeOK
  <2> QED BY <2>3 DEF Save, cards, RunsTypeOK, CardsTypeOK, LoopTypeOK, SweepTypeOK, CommitHasRun
<1>2. CASE \E c \in Cards : LoopGet(c)
  <2> PICK c \in Cards : LoopGet(c)
    BY <1>2
  <2>1. mem[c] # NoRow => [card |-> c, run |-> mem[c].run] \in Held
    BY DEF StoreTypeOK, Entry, Row, Held
  <2>2. LoopTypeOK' /\ CommitHasRun'
    BY <2>1 DEF LoopGet, LoopTypeOK, CommitHasRun
  <2> QED BY <2>2 DEF LoopGet, store, load, file, StoreTypeOK, LoadOK, SweptKnown, cards, RunsTypeOK,
                      CardsTypeOK, SweepTypeOK
<1>3. CASE Supersede
  <2>1. LoopTypeOK' /\ CommitHasRun'
    BY <1>3 DEF Supersede, LoopTypeOK, Stale, Open, Status, CommitHasRun
  <2> QED BY <1>3, <2>1 DEF Supersede, store, load, file, StoreTypeOK, LoadOK, SweptKnown, cards,
                            RunsTypeOK, CardsTypeOK, SweepTypeOK
<1>4. CASE BootSweep
  <2>1. BootStale \subseteq Cards
    BY DEF BootStale, OpenIn, Open
  <2>2. LoopTypeOK' /\ CommitHasRun'
    BY <1>4, <2>1 DEF BootSweep, LoopTypeOK, Status, CommitHasRun
  <2> QED BY <1>4, <2>2 DEF BootSweep, store, load, file, StoreTypeOK, LoadOK, SweptKnown, cards,
                            RunsTypeOK, CardsTypeOK, SweepTypeOK
<1>5. CASE LoopPut
  <2> PICK h \in loop.held :
             /\ Write(h.card, [status |-> loop.goal, run |-> h.run])
             /\ loop' = [loop EXCEPT !.pc = "get", !.todo = @ \ {h.card}, !.held = {}]
    BY <1>5 DEF LoopPut
  <2> DEFINE row == [status |-> loop.goal, run |-> h.run]
  <2>1. h.card \in Cards /\ row \in Row /\ Write(h.card, row)
    BY DEF LoopTypeOK, Held, Row
  <2>2. StoreTypeOK' /\ LoadOK' /\ SweptKnown'
    <3> HIDE DEF row
    <3> QED BY <1>5, <2>1, WriteType, StaysKnown DEF LoopPut, SweptKnown, SweepTypeOK
  <2> QED BY <1>5, <2>2 DEF LoopPut, cards, RunsTypeOK, CardsTypeOK, LoopTypeOK, SweepTypeOK,
                             CommitHasRun
<1>6. CASE LoopDone
  <2>1. LoopTypeOK' /\ CommitHasRun'
    BY <1>6 DEF LoopDone, LoopTypeOK, IdleLoop, Status, CommitHasRun
  <2>2. loop.job = "commit" => HandBack(loop.run) \in [Runs -> SUBSET Cards]
    BY DEF HandBack, RunsTypeOK, CommitHasRun
  <2>3. RunsTypeOK'
    BY <1>6, <2>2 DEF LoopDone, RunsTypeOK
  <2> QED BY <1>6, <2>1, <2>3 DEF LoopDone, store, load, file, cards, StoreTypeOK, CardsTypeOK,
                                  SweepTypeOK, SweptKnown, LoadOK
<1> QED BY <1>0, <1>1, <1>2, <1>3, <1>4, <1>5, <1>6 DEF LoopStep

(* The expiry thread.                                                      *)
LEMMA TypeSweepStep ==
  ASSUME TypeInv, SweepStart \/ SweepStep
  PROVE  TypeInv'
<1> USE DEF TypeInv, TypeOK
<1>1. CASE SweepStart
  BY <1>1 DEF SweepStart, Expirable, Open, store, load, file, StoreTypeOK, cards, RunsTypeOK,
              CardsTypeOK, LoopTypeOK, SweepTypeOK, SweptKnown, LoadOK, CommitHasRun
<1>2. CASE \E c \in Cards : SweepGet(c)
  <2> PICK c \in Cards : SweepGet(c)
    BY <1>2
  <2>1. [card |-> c, run |-> mem[c].run] \in Held
    BY DEF SweepGet, SweptKnown, StoreTypeOK, Entry, Row, Held
  <2>2. SweepTypeOK' /\ SweptKnown'
    BY <2>1 DEF SweepGet, SweepTypeOK, SweptKnown, store
  <2> QED BY <2>2 DEF SweepGet, store, load, file, LoadOK, StoreTypeOK, cards, RunsTypeOK, CardsTypeOK,
                      LoopTypeOK, CommitHasRun
<1>3. CASE SweepPut
  <2> PICK h \in sweep.held :
             /\ Write(h.card, [status |-> "EXPIRED", run |-> h.run])
             /\ sweep' = [sweep EXCEPT !.pc = "get", !.todo = @ \ {h.card}, !.held = {}]
    BY <1>3 DEF SweepPut
  <2> DEFINE row == [status |-> "EXPIRED", run |-> h.run]
  <2>1. h.card \in Cards /\ row \in Row /\ Write(h.card, row)
    BY DEF SweepTypeOK, Held, Row, Status
  <2>2. StoreTypeOK' /\ LoadOK' /\ SweepTypeOK' /\ SweptKnown'
    <3> HIDE DEF row
    <3> QED BY <2>1, WriteType, StaysKnown DEF SweptKnown, SweepTypeOK
  <2> QED BY <1>3, <2>2 DEF SweepPut, cards, RunsTypeOK, CardsTypeOK, LoopTypeOK, CommitHasRun
<1>4. CASE SweepDone
  BY <1>4 DEF SweepDone, IdleSweep, store, load, file, cards, StoreTypeOK, RunsTypeOK, CardsTypeOK,
              LoopTypeOK, SweepTypeOK, SweptKnown, LoadOK, CommitHasRun
<1> QED BY <1>1, <1>2, <1>3, <1>4 DEF SweepStep

(* Managers at the HTTP route, time, crashes, and steps of anything else.  *)
LEMMA TypeOtherStep ==
  ASSUME TypeInv,
         \/ \E c \in Cards, d \in Decisions : HttpResolve(c, d)
         \/ Age
         \/ Restart
         \/ UNCHANGED vars
  PROVE  TypeInv'
<1> USE DEF TypeInv, TypeOK
<1>1. CASE \E c \in Cards, d \in Decisions : HttpResolve(c, d)
  <2> PICK c \in Cards, d \in Decisions : HttpResolve(c, d)
    BY <1>1
  <2>1. LoopTypeOK' /\ CommitHasRun'
    BY DEF HttpResolve, Decide, IdleLoop, Status, LoopTypeOK, CommitHasRun
  <2> QED BY <2>1 DEF HttpResolve, store, load, file, LoadOK, cards, StoreTypeOK, RunsTypeOK, CardsTypeOK,
                      SweepTypeOK, SweptKnown
<1>2. CASE Age
  BY <1>2, ConstantsAssumption DEF Age, store, load, file, StoreTypeOK, RunsTypeOK, CardsTypeOK,
              LoopTypeOK, SweepTypeOK, SweptKnown, LoadOK, CommitHasRun
<1>3. CASE Restart
  <2>1. mem' \in [Cards -> Entry] /\ lost' \in SUBSET Cards
    BY <1>3 DEF Restart, Entry
  <2>5. restarts' \in Nat
    BY <1>3 DEF Restart
  <2>6. CardsTypeOK'
    BY <1>3 DEF Restart, cards, CardsTypeOK
  <2>7. StoreTypeOK' /\ LoadOK'
    BY <1>3, <2>1 DEF Restart, StoreTypeOK, LoadOK
  <2>2. RunsTypeOK'
    BY <1>3 DEF Restart, RunsTypeOK
  <2>3. LoopTypeOK' /\ CommitHasRun'
    BY <1>3 DEF Restart, LoopTypeOK, BootLoop, IdleLoop, Status, CommitHasRun
  <2>4. SweepTypeOK' /\ SweptKnown'
    BY <1>3 DEF Restart, SweepTypeOK, SweptKnown, IdleSweep
  <2> QED BY <2>2, <2>3, <2>4, <2>5, <2>6, <2>7
<1>4. CASE UNCHANGED vars
  BY <1>4 DEF vars, store, load, file, cards, StoreTypeOK, RunsTypeOK, CardsTypeOK,
              LoopTypeOK, SweepTypeOK, SweptKnown, LoadOK, CommitHasRun
<1> QED BY <1>1, <1>2, <1>3, <1>4

(* Every step, of whichever actor, keeps the types.                        *)
LEMMA TypeInvariance == Spec => []TypeInv
<1>1. TypeInv /\ [Next]_vars => TypeInv'
  BY TypeRunStep, TypeLoadStep, TypeLoopStep, TypeSweepStep, TypeOtherStep DEF Next, Loading
<1> QED BY <1>1, TypeInit, PTL DEF Spec

(* The rows, the lists of the two threads, the proposals of the runs and   *)
(* the file keep their types, whatever interleaves, fails or crashes.      *)
THEOREM TypeCorrect == Spec => []TypeOK
<1>1. TypeInv => TypeOK
  BY DEF TypeInv
<1> QED BY <1>1, TypeInvariance, PTL

-----------------------------------------------------------------------------
(* The store implements CardBoard                                          *)

(* A row that a thread holds a copy of is in memory: resolve_proposal      *)
(* never creates a card.                                                   *)
HeldKnown == \A h \in loop.held \cup sweep.held : mem[h.card] # NoRow

(* What a step does to the store: nothing, a step of a load, one lock      *)
(* section that opens a card or rewrites a known one, or a crash.          *)
StoreStep ==
  \/ UNCHANGED store
  \/ \E t \in Threads : Loading(t)
  \/ \E c \in Cards, row \in Row :
        Write(c, row) /\ (row.status = "PENDING" \/ Found(c) # NoRow)
  \/ Restart

LEMMA StepOnStore ==
  ASSUME TypeInv, HeldKnown, [Next]_vars
  PROVE  StoreStep
<1> USE DEF StoreStep, TypeInv, TypeOK
<1>1. CASE \E c \in Cards : Save(c)
  <2> PICK c \in Cards : Save(c)
    BY <1>1
  <2>1. /\ [status |-> "PENDING", run |-> loop.run] \in Row
        /\ Write(c, [status |-> "PENDING", run |-> loop.run])
    BY DEF Save, LoopTypeOK, Row, Status
  <2> QED BY <2>1
<1>2. CASE LoopPut
  <2> PICK h \in loop.held : Write(h.card, [status |-> loop.goal, run |-> h.run])
    BY <1>2 DEF LoopPut
  <2>1. h.card \in Cards /\ [status |-> loop.goal, run |-> h.run] \in Row
    BY DEF LoopTypeOK, Held, Row
  <2>2. Found(h.card) # NoRow
    BY DEF HeldKnown, Found
  <2> QED BY <2>1, <2>2
<1>3. CASE SweepPut
  <2> PICK h \in sweep.held : Write(h.card, [status |-> "EXPIRED", run |-> h.run])
    BY <1>3 DEF SweepPut
  <2>1. h.card \in Cards /\ [status |-> "EXPIRED", run |-> h.run] \in Row
    BY DEF SweepTypeOK, Held, Row, Status
  <2>2. Found(h.card) # NoRow
    BY DEF HeldKnown, Found
  <2> QED BY <2>1, <2>2
<1>4. CASE \E t \in Threads : Loading(t)
  BY <1>4
<1>5. CASE HandlerLoads
  BY <1>5 DEF HandlerLoads, Loading, Threads
<1>6. CASE Supersede \/ BootSweep \/ SweepStart \/ \E c \in Cards : LoopGet(c) \/ SweepGet(c)
  BY <1>6 DEF Supersede, BootSweep, SweepStart, LoopGet, SweepGet
<1>7. CASE \/ LoopDone \/ SweepDone \/ Age \/ UNCHANGED vars
           \/ \E c \in Cards, d \in Decisions : HttpResolve(c, d)
  BY <1>7 DEF LoopDone, SweepDone, Age, HttpResolve, vars
<1>8. CASE \E r \in Runs : RunStep(r)
  BY <1>8 DEF RunStep, StartRun, Draft, DuplicateDraft, ListPending, Discard, Fail, Commit,
              ChatResolve
<1>9. CASE Restart
  BY <1>9
<1> QED BY <1>1, <1>2, <1>3, <1>4, <1>5, <1>6, <1>7, <1>8, <1>9
        DEF Next, LoopStep, SweepStep, Loading

LEMMA HeldKnownStep ==
  ASSUME TypeInv, HeldKnown, [Next]_vars
  PROVE  HeldKnown'
<1> USE DEF TypeInv, TypeOK
<1>1. CASE Restart
  BY <1>1 DEF Restart, HeldKnown, BootLoop, IdleLoop, IdleSweep
<1>2. ASSUME ~Restart PROVE \A d \in Cards : mem[d] # NoRow => mem'[d] # NoRow
  BY <1>2, StepOnStore, StaysKnown DEF StoreStep
<1>3. \A h \in loop.held \cup sweep.held : h.card \in Cards
  BY DEF LoopTypeOK, SweepTypeOK, Held
<1>4. CASE ~Restart /\ loop'.held \cup sweep'.held \subseteq loop.held \cup sweep.held
  BY <1>2, <1>3, <1>4 DEF HeldKnown
<1>5. CASE ~Restart /\ \E c \in Cards : LoopGet(c)
  <2> PICK c \in Cards : LoopGet(c)
    BY <1>5
  <2>1. \A h \in loop'.held : h \in loop.held \/ (mem[c] # NoRow /\ h.card = c)
    BY DEF LoopGet, LoopTypeOK
  <2> QED BY <1>2, <1>3, <1>5, <2>1 DEF HeldKnown, LoopGet
<1>6. CASE ~Restart /\ \E c \in Cards : SweepGet(c)
  <2> PICK c \in Cards : SweepGet(c)
    BY <1>6
  <2>1. mem'[c] # NoRow
    BY <1>2, <1>6 DEF SweepGet, SweptKnown
  <2>2. \A h \in sweep'.held : h.card = c
    BY DEF SweepGet, SweepTypeOK
  <2> QED BY <1>2, <1>3, <1>6, <2>1, <2>2 DEF HeldKnown, SweepGet
<1>7. ASSUME ~Restart, ~\E c \in Cards : LoopGet(c) \/ SweepGet(c)
      PROVE  loop'.held \subseteq loop.held /\ sweep'.held \subseteq sweep.held
  <2>1. CASE LoopStep
    <3>1. CASE \E c \in Cards : Save(c)
      BY <3>1 DEF Save, LoopTypeOK
    <3>2. CASE Supersede \/ BootSweep
      BY <3>2 DEF Supersede, BootSweep, LoopTypeOK
    <3>3. CASE LoopPut
      BY <3>3 DEF LoopPut, LoopTypeOK
    <3>4. CASE LoopDone
      BY <3>4 DEF LoopDone, IdleLoop
    <3>5. CASE HandlerLoads
      BY <3>5, LoadType DEF HandlerLoads, Loading, Threads
    <3> QED BY <1>7, <2>1, <3>1, <3>2, <3>3, <3>4, <3>5 DEF LoopStep
  <2>2. CASE SweepStart \/ SweepStep
    <3>1. CASE SweepStart
      BY <3>1 DEF SweepStart, SweepTypeOK
    <3>2. CASE SweepPut
      BY <3>2 DEF SweepPut, SweepTypeOK
    <3>3. CASE SweepDone
      BY <3>3 DEF SweepDone, IdleSweep
    <3> QED BY <1>7, <2>2, <3>1, <3>2, <3>3 DEF SweepStep
  <2>3. CASE \E r \in Runs : RunStep(r)
    BY <2>3 DEF RunStep, StartRun, Draft, DuplicateDraft, ListPending, Discard, Fail, Commit,
                ChatResolve, Decide, IdleLoop
  <2>4. CASE \E c \in Cards, d \in Decisions : HttpResolve(c, d)
    BY <2>4 DEF HttpResolve, Decide, IdleLoop
  <2>5. CASE Age \/ UNCHANGED vars
    BY <2>5 DEF Age, vars
  <2>6. CASE \E t \in Threads : Loading(t)
    BY <2>6, LoadType
  <2> QED BY <1>7, <2>1, <2>2, <2>3, <2>4, <2>5, <2>6 DEF Next, Loading
<1> QED BY <1>1, <1>4, <1>5, <1>6, <1>7

(* Memory against the file, card by card: once a load has begun, a card    *)
(* that is not at risk has its last row in memory; before, it has that row *)
(* or none.                                                                *)
MemoryOnFile ==
  \A c \in Cards \ AtRisk :
    \/ mem[c] = disk[c]
    \/ ~loaded /\ reading = {} /\ mem[c] = NoRow

DurableInv == TypeInv /\ HeldKnown /\ MemoryOnFile

LEMMA OnFileAnswers == MemoryOnFile => AnswersOnFile
BY DEF MemoryOnFile, AnswersOnFile, Found

(* A thread with cards left to read is in a load.                          *)
LEMMA RiskOf ==
  ASSUME StoreTypeOK, LoadOK, NEW c \in Cards
  PROVE  c \in AtRisk <=> (c \in lost \/ \E t \in reading : c \in unread[t])
BY DEF StoreTypeOK, LoadOK, AtRisk

(* The beginning of a load changes no answer, and puts in doubt what it    *)
(* will read.                                                              *)
LEMMA StartDoubts ==
  ASSUME TypeInv, MemoryOnFile, NEW t \in Threads, StartLoad(t)
  PROVE  MemoryOnFile' /\ Board!Doubt
<1> USE DEF TypeInv, TypeOK, StoreTypeOK
<1>1. UNCHANGED <<mem, loaded, disk, older, lost>> /\ reading' = reading \cup {t}
  BY DEF StartLoad, file
<1>2. unread' = [unread EXCEPT ![t] = {c \in Cards : disk[c] # NoRow}]
  BY DEF StartLoad
<1>3. unread[t] = {}
  BY DEF StartLoad, LoadOK
<1>4. AtRisk' = AtRisk \cup {c \in Cards : disk[c] # NoRow}
  BY <1>1, <1>2, <1>3 DEF AtRisk
<1>5. MemoryOnFile'
  BY <1>1, <1>4 DEF MemoryOnFile
<1>6. AtRisk' \subseteq Cards
  BY <1>4 DEF AtRisk
<1> QED BY <1>1, <1>4, <1>5, <1>6 DEF Board!Doubt, Found

(* What a load does to the cards: nothing else is answered for a card that *)
(* is not at risk, and one that is read back answers its last row.         *)
LEMMA LoadSetsBack ==
  ASSUME TypeInv, MemoryOnFile, NEW t \in Threads, LoadStep(t)
  PROVE  MemoryOnFile' /\ Board!SetBack
<1> USE DEF TypeInv, TypeOK, StoreTypeOK
<1>1. CASE \E c \in Cards : ReadEarlier(t, c)
  <2> PICK c \in Cards : ReadEarlier(t, c)
    BY <1>1
  <2>1. PICK row \in older[c] : mem' = [mem EXCEPT ![c] = row]
    BY DEF ReadEarlier
  <2>2. UNCHANGED <<loaded, reading, unread, disk, older, lost>>
    BY DEF ReadEarlier, load, file
  <2>3. c \in AtRisk /\ AtRisk' = AtRisk
    BY <2>2 DEF ReadEarlier, AtRisk
  <2>4. row # NoRow /\ Found(c)' = row /\ \A d \in Cards \ {c} : Found(d)' = Found(d)
    BY <2>1, <2>2, ConstantsAssumption DEF Found
  <2>5. MemoryOnFile'
    BY <2>1, <2>2, <2>3 DEF MemoryOnFile
  <2> QED BY <2>2, <2>3, <2>4, <2>5 DEF Board!SetBack
<1>2. CASE \E c \in Cards : ReadLast(t, c)
  <2> PICK c \in Cards : ReadLast(t, c)
    BY <1>2
  <2>1. /\ mem' = [mem EXCEPT ![c] = disk[c]] /\ disk[c] # NoRow
        /\ UNCHANGED <<loaded, reading, disk, older>>
    BY DEF ReadLast, LoadOK
  <2>2. AtRisk' \subseteq AtRisk /\ \A d \in Cards \ {c} : d \in AtRisk' <=> d \in AtRisk
    BY DEF ReadLast, AtRisk
  <2>3. Found(c)' = disk[c] /\ \A d \in Cards \ {c} : Found(d)' = Found(d)
    BY <2>1 DEF Found
  <2>4. MemoryOnFile'
    BY <2>1, <2>2 DEF MemoryOnFile
  <2>5. c \in AtRisk
    BY DEF ReadLast, AtRisk
  <2> QED BY <2>1, <2>2, <2>3, <2>4, <2>5 DEF Board!SetBack
<1>3. CASE EndLoad(t) \/ FailLoad(t)
  <2>1. /\ UNCHANGED <<mem, disk, older>> /\ loaded' = TRUE /\ reading # {}
        /\ AtRisk' = AtRisk
    BY <1>3 DEF EndLoad, FailLoad, file, AtRisk
  <2>2. MemoryOnFile'
    BY <2>1 DEF MemoryOnFile
  <2>3. \A c \in Cards \ AtRisk : Found(c)' = Found(c)
    BY <2>1 DEF MemoryOnFile, Found
  <2>4. \A c \in Cards : Found(c)' \in {Found(c), NoRow}
    BY <2>1 DEF Found
  <2> QED BY <2>1, <2>2, <2>3, <2>4 DEF Board!SetBack
<1> QED BY <1>1, <1>2, <1>3 DEF LoadStep

(* After a crash every card answers its last row on file.                  *)
LEMMA RestartSetsBack ==
  ASSUME TypeInv, MemoryOnFile, Restart
  PROVE  MemoryOnFile' /\ Board!SetBack
<1>1. AtRisk' = {} /\ UNCHANGED <<disk, older>>
  BY DEF Restart, AtRisk
<1>2. \A c \in Cards : mem'[c] = NoRow /\ Found(c)' = disk[c]
  BY DEF Restart, Found
<1>3. ~loaded' /\ reading' = {}
  BY DEF Restart
<1>4. MemoryOnFile'
  BY <1>2, <1>3 DEF MemoryOnFile
<1>5. \A c \in Cards \ AtRisk : Found(c) = disk[c]
  BY OnFileAnswers DEF AnswersOnFile
<1> QED BY <1>1, <1>2, <1>4, <1>5 DEF Board!SetBack

(* A lock section changes the answer for its own card only.                *)
LEMMA WritePuts ==
  ASSUME TypeInv, MemoryOnFile, NEW c \in Cards, NEW row \in Row, Write(c, row),
         row.status = "PENDING" \/ Found(c) # NoRow
  PROVE  MemoryOnFile' /\ Board!Put(c)
<1> USE DEF TypeInv, TypeOK, StoreTypeOK
<1>1. row # NoRow /\ row \in Entry
  BY ConstantsAssumption DEF Entry
<1>2. mem' = [mem EXCEPT ![c] = row] /\ UNCHANGED <<loaded, reading>> /\ Append(c, row)
  BY DEF Write
<1>3. /\ \A d \in Cards \ {c} : (d \in AtRisk' <=> d \in AtRisk) /\ disk'[d] = disk[d]
      /\ \/ disk' = [disk EXCEPT ![c] = row]
         \/ c \in AtRisk' /\ UNCHANGED <<disk, older>>
  BY <1>2 DEF Append, AtRisk
<1>4. AtRisk \subseteq Cards /\ AtRisk' \subseteq Cards
  <2>1. lost' \subseteq Cards /\ unread' \in [Threads -> SUBSET Cards]
    BY <1>2 DEF Append
  <2> QED BY <2>1 DEF AtRisk
<1>5. Found(c)' = row /\ \A d \in Cards \ {c} : d \notin AtRisk => Found(d)' = Found(d)
  BY <1>1, <1>2, <1>3 DEF Found
<1>6. \A d \in Cards \ {c} : Found(d)' = Found(d)
  BY <1>2, <1>3 DEF Found
<1>7. MemoryOnFile'
  BY <1>2, <1>3 DEF MemoryOnFile
<1>8. [d \in Cards |-> Found(d)]' = [[d \in Cards |-> Found(d)] EXCEPT ![c] = row]
  BY <1>5, <1>6
<1>9. Found(c) = NoRow => row \in {x \in Row : x.status = "PENDING"}
  OBVIOUS
<1>10. CASE UNCHANGED <<disk, older>> /\ c \in AtRisk'
  <2>1. AtRisk' = AtRisk \cup {c}
    BY <1>3, <1>4, <1>10
  <2> QED BY <1>1, <1>5, <1>7, <1>8, <1>9, <1>10, <2>1 DEF Board!Put
<1>11. CASE ~(UNCHANGED <<disk, older>> /\ c \in AtRisk')
  <2>1. /\ disk' = [disk EXCEPT ![c] = row]
        /\ older' = [older EXCEPT ![c] = @ \cup ({disk[c]} \ {NoRow})]
    BY <1>2, <1>3, <1>11 DEF Append, AtRisk
  <2>2. AtRisk' \in {AtRisk \cup {c}, AtRisk \ {c}}
    BY <1>3, <1>4
  <2>3. [d \in Cards |-> older'[d] \cup {NoRow}] =
          [[d \in Cards |-> older[d] \cup {NoRow}] EXCEPT ![c] = @ \cup {disk[c]}]
    BY <2>1
  <2> QED BY <1>1, <1>5, <1>7, <1>8, <1>9, <2>1, <2>2, <2>3 DEF Board!Put, Board!Keep
<1> QED BY <1>10, <1>11

LEMMA DurableInit == Init => DurableInv /\ Board!Init
<1> SUFFICES ASSUME Init PROVE DurableInv /\ Board!Init
  OBVIOUS
<1>1. TypeInv
  BY TypeInit
<1>2. HeldKnown
  BY DEF Init, HeldKnown, BootLoop, IdleLoop, IdleSweep
<1>3. MemoryOnFile /\ \A c \in Cards : Found(c) = disk[c] /\ older[c] = {}
  BY DEF Init, MemoryOnFile, Found
<1>4. \A c \in Cards : disk[c] \in {row \in Row : row.status = "PENDING"} \cup {NoRow}
  <2>1. [status |-> "PENDING", run |-> NoRun] \in {row \in Row : row.status = "PENDING"}
    BY DEF Row, Status
  <2> QED BY <2>1 DEF Init
<1>5. AtRisk = {}
  BY DEF Init, AtRisk
<1> QED BY <1>1, <1>2, <1>3, <1>4, <1>5 DEF Init, DurableInv, Board!Init

(* One step: to a store that still answers what is on file, and by a step  *)
(* of the abstract board.                                                  *)
LEMMA DurableStep ==
  ASSUME DurableInv, [Next]_vars
  PROVE  DurableInv' /\ [Board!Next]_(Board!vars)
<1> USE DEF DurableInv
<1>1. TypeInv' /\ HeldKnown'
  BY HeldKnownStep, TypeRunStep, TypeLoadStep, TypeLoopStep, TypeSweepStep, TypeOtherStep
     DEF Next, Loading
<1>2. CASE UNCHANGED store
  BY <1>1, <1>2 DEF store, load, file, MemoryOnFile, AtRisk, Found, Board!vars
<1>3. CASE \E t \in Threads : Loading(t)
  BY <1>1, <1>3, StartDoubts, LoadSetsBack DEF Loading, Board!Next
<1>4. CASE Restart
  BY <1>1, <1>4, RestartSetsBack DEF Board!Next
<1>5. ASSUME NEW c \in Cards, NEW row \in Row, Write(c, row),
             row.status = "PENDING" \/ Found(c) # NoRow
      PROVE  MemoryOnFile' /\ Board!Next
  BY <1>5, WritePuts DEF Board!Next
<1> QED BY <1>1, <1>2, <1>3, <1>4, <1>5, StepOnStore DEF StoreStep

(* For every card not at risk, what a reader is answered is what is on     *)
(* file, in the middle of a load of either thread as well.                 *)
THEOREM AnswersSurvive == Spec => []AnswersOnFile
<1>1. DurableInv /\ [Next]_vars => DurableInv'
  BY DurableStep
<1>2. DurableInv => AnswersOnFile
  BY OnFileAnswers DEF DurableInv
<1> QED BY <1>1, <1>2, DurableInit, PTL DEF Spec

(* The store implements the board: one card at a time, no card forgotten,  *)
(* and only cards at risk set back, under every interleaving of the loads  *)
(* and the lock sections of the two threads, every failure and crash.      *)
THEOREM ImplementsCardBoard == Spec => DurableCards
<1>1. DurableInv /\ [Next]_vars => DurableInv' /\ [Board!Next]_(Board!vars)
  BY DurableStep
<1> QED BY <1>1, DurableInit, PTL DEF Spec, DurableCards, Board!Spec

-----------------------------------------------------------------------------
(* Demo mode: one load, by the boot sweep, before anything else            *)

(* A lock section: no other card moves, and no load begins or ends.        *)
LEMMA WriteEffect ==
  ASSUME StoreTypeOK, NEW c \in Cards, NEW row \in Row, Write(c, row)
  PROVE  /\ UNCHANGED <<loaded, reading>>
         /\ mem'[c] = row
         /\ \A d \in Cards \ {c} : mem'[d] = mem[d]
BY DEF StoreTypeOK, Write

(* The file has been replayed, or the boot sweep is about to list, and the *)
(* scheduler of the expiry thread is not started yet.                      *)
WarmInv ==
  \/ loaded /\ reading = {}
  \/ /\ loop.job = "boot" /\ loop.pc = "list"
     /\ sweep.pc = "idle" /\ "sweep" \notin reading

LEMMA WarmInit == ASSUME DemoMode, Init PROVE WarmInv
BY DEF Init, BootLoop, IdleLoop, IdleSweep, WarmInv

(* So nothing is replayed once the boot sweep has its list.                *)
LEMMA NoLoad ==
  ASSUME TypeInv, WarmInv, NEW t \in Threads, Loading(t)
  PROVE  t = "loop" /\ loop.pc = "list"
<1>1. t \in reading \/ ~loaded
  BY DEF Loading, LoadStep, StartLoad, ReadEarlier, ReadLast, EndLoad, FailLoad, TypeInv, LoadOK
<1>2. loop.job = "boot" /\ loop.pc = "list" /\ sweep.pc = "idle" /\ "sweep" \notin reading
  BY <1>1 DEF WarmInv
<1>3. ~Loading("sweep")
  BY <1>2 DEF Loading, LoadStep, StartLoad, SweepLists, ReadEarlier, ReadLast, EndLoad, FailLoad,
              TypeInv, LoadOK, Threads
<1> QED BY <1>2, <1>3 DEF Threads

(* Saving, resolving and expiring are all that writes to the store.        *)
LEMMA ThreeWrite ==
  ASSUME [Next]_vars, ~LoopPut, ~SweepPut, ~\E d \in Cards : Save(d), ~Restart,
         ~\E t \in Threads : Loading(t)
  PROVE  UNCHANGED store
<1>1. CASE LoopStep
  BY <1>1 DEF LoopStep, HandlerLoads, Loading, Threads, LoopGet, Supersede, BootSweep, LoopDone
<1>2. CASE SweepStart \/ SweepStep
  BY <1>2 DEF SweepStart, SweepStep, SweepGet, SweepDone
<1>3. CASE \E r \in Runs : RunStep(r)
  BY <1>3 DEF RunStep, StartRun, Draft, DuplicateDraft, ListPending, Discard, Fail, Commit,
              ChatResolve
<1>4. CASE \/ \E d \in Cards, e \in Decisions : HttpResolve(d, e)
           \/ Age \/ UNCHANGED vars
  BY <1>4 DEF HttpResolve, Age, vars
<1> QED BY <1>1, <1>2, <1>3, <1>4 DEF Next, Loading

LEMMA WarmStep ==
  ASSUME DemoMode, DurableInv, WarmInv, [Next]_vars
  PROVE  WarmInv'
<1> USE DEF DurableInv, TypeInv, TypeOK
<1>1. CASE Restart
  BY <1>1 DEF Restart, BootLoop, IdleLoop, IdleSweep, WarmInv
<1>2. CASE ~Restart /\ loaded /\ reading = {}
  <2>1. ~\E t \in Threads : Loading(t)
    BY <1>2 DEF Loading, LoadStep, StartLoad, ReadEarlier, ReadLast, EndLoad, FailLoad, LoadOK
  <2>2. UNCHANGED <<loaded, reading>>
    BY <1>2, <2>1, StepOnStore DEF StoreStep, Write, store, load
  <2> QED BY <1>2, <2>2 DEF WarmInv
<1>3. CASE ~Restart /\ ~(loaded /\ reading = {})
  <2>1. loop.job = "boot" /\ loop.pc = "list" /\ sweep.pc = "idle" /\ "sweep" \notin reading
    BY <1>3 DEF WarmInv
  <2>2. CASE \E t \in Threads : Loading(t)
    <3>1. Loading("loop")
      BY <2>2, NoLoad
    <3>2. UNCHANGED <<loop, sweep>>
      BY <3>1, LoadType DEF Threads
    <3>3. "sweep" \notin reading'
      BY <2>1, <3>1 DEF Loading, LoadStep, StartLoad, ReadEarlier, ReadLast, EndLoad, FailLoad, load
    <3> QED BY <2>1, <3>2, <3>3 DEF WarmInv
  <2>3. CASE Age \/ UNCHANGED vars
    BY <2>1, <2>3 DEF Age, vars, store, load, WarmInv
  <2>4. ~LoopStep \/ \E t \in Threads : Loading(t)
    <3>1. ~BootSweep
      BY <1>3, <2>1 DEF BootSweep, LoopAt, StoreTypeOK, Threads
    <3>2. ~LoopPut /\ ~Supersede /\ ~LoopDone /\ \A c \in Cards : ~Save(c) /\ ~LoopGet(c)
      BY <2>1 DEF LoopPut, Supersede, LoopDone, Save, LoopGet, LoopAt
    <3> QED BY <3>1, <3>2 DEF LoopStep, HandlerLoads, Loading, Threads
  <2>5. ~SweepStart /\ ~SweepStep
    BY <2>1 DEF SweepStart, SweepLists, SweepStep, SweepGet, SweepPut, SweepDone
  <2>6. /\ ~\E r \in Runs : RunStep(r)
        /\ ~\E c \in Cards, d \in Decisions : HttpResolve(c, d)
    BY <2>1 DEF RunStep, StartRun, Draft, DuplicateDraft, ListPending, Discard, Fail, Commit,
                ChatResolve, HttpResolve, InTools, Idle, LoopAt
  <2> QED BY <1>3, <2>2, <2>3, <2>4, <2>5, <2>6 DEF Next, Loading
<1> QED BY <1>1, <1>2, <1>3

-----------------------------------------------------------------------------
(* Superseding spares decisions                                            *)

(* The loop holds a copy only between the two lock sections of resolving a *)
(* card of its list.                                                       *)
HeldInTodo == \A h \in loop.held : loop.pc = "put" /\ h.card \in loop.todo

(* A card on the list to supersede has not been decided since the list was *)
(* taken: no other handler ran, and the expiry thread decides nothing.     *)
ClosingOpen ==
  (loop.pc \in {"get", "put"} /\ loop.goal = "SUPERSEDED") =>
    \A c \in loop.todo : StatusOf(mem[c]) \notin Decisions

SpareInv == DurableInv /\ WarmInv /\ HeldInTodo /\ ClosingOpen

LEMMA SpareInit == ASSUME DemoMode PROVE Init => SpareInv
<1> SUFFICES ASSUME Init PROVE SpareInv
  OBVIOUS
<1>1. DurableInv /\ WarmInv
  BY DurableInit, WarmInit
<1>2. HeldInTodo /\ ClosingOpen
  BY DEF Init, HeldInTodo, ClosingOpen, BootLoop, IdleLoop
<1> QED BY <1>1, <1>2 DEF SpareInv

(* The handlers of the event loop, once begun.                             *)
LEMMA SpareLoopStep ==
  ASSUME SpareInv, LoopStep
  PROVE  HeldInTodo' /\ ClosingOpen'
<1> USE DEF SpareInv, DurableInv, TypeInv, TypeOK
<1>0. CASE HandlerLoads
  <2>1. Loading("loop")
    BY <1>0 DEF HandlerLoads, Loading
  <2>2. loop.pc = "list" /\ UNCHANGED loop
    BY <2>1, NoLoad, LoadType DEF Threads
  <2> QED BY <2>2 DEF HeldInTodo, ClosingOpen
<1>1. CASE \E c \in Cards : Save(c)
  <2>1. loop.pc = "save" /\ loop'.pc = "save" /\ loop'.held = loop.held
    BY <1>1 DEF Save, LoopAt, LoopTypeOK
  <2> QED BY <2>1 DEF HeldInTodo, ClosingOpen
<1>2. CASE \E c \in Cards : LoopGet(c)
  <2> PICK c \in Cards : LoopGet(c)
    BY <1>2
  <2>1. HeldInTodo'
    BY DEF LoopGet, LoopAt, LoopTypeOK, HeldInTodo
  <2>2. /\ loop.pc = "get" /\ mem' = mem
        /\ loop'.todo \subseteq loop.todo /\ loop'.goal = loop.goal
    BY DEF LoopGet, LoopAt, LoopTypeOK, store
  <2> QED BY <2>1, <2>2 DEF ClosingOpen
<1>3. CASE Supersede
  <2>1. /\ loop.pc = "save" /\ loop'.todo \subseteq Open /\ loop'.held = loop.held /\ mem' = mem
    BY <1>3 DEF Supersede, LoopAt, LoopTypeOK, Stale, store
  <2> QED BY <2>1, ConstantsAssumption DEF HeldInTodo, ClosingOpen, Open, StatusOf
<1>4. CASE BootSweep
  <2>1. BootStale \subseteq Open
    BY DEF BootStale, OpenIn
  <2>2. loop.pc = "list" /\ loop'.todo \subseteq Open /\ loop'.held = loop.held /\ mem' = mem
    BY <1>4, <2>1 DEF BootSweep, LoopAt, LoopTypeOK, store
  <2> QED BY <2>2, ConstantsAssumption DEF HeldInTodo, ClosingOpen, Open, StatusOf
<1>5. CASE LoopPut
  <2> PICK h \in loop.held :
             /\ Write(h.card, [status |-> loop.goal, run |-> h.run])
             /\ loop' = [loop EXCEPT !.pc = "get", !.todo = @ \ {h.card}, !.held = {}]
    BY <1>5 DEF LoopPut
  <2>1. h.card \in Cards /\ [status |-> loop.goal, run |-> h.run] \in Row
    BY DEF LoopTypeOK, Held, Row
  <2>2. \A d \in Cards \ {h.card} : mem'[d] = mem[d]
    BY <2>1, WriteEffect
  <2>3. /\ loop.pc = "put" /\ loop'.goal = loop.goal /\ loop'.held = {}
        /\ loop'.todo = loop.todo \ {h.card} /\ loop.todo \subseteq Cards
    BY <1>5 DEF LoopPut, LoopTypeOK
  <2> QED BY <2>2, <2>3 DEF HeldInTodo, ClosingOpen
<1>6. CASE LoopDone
  BY <1>6 DEF LoopDone, IdleLoop, HeldInTodo, ClosingOpen
<1> QED BY <1>0, <1>1, <1>2, <1>3, <1>4, <1>5, <1>6 DEF LoopStep

(* Everything else.                                                        *)
LEMMA SpareStillStep ==
  ASSUME DemoMode, SpareInv, [Next]_vars, ~LoopStep
  PROVE  HeldInTodo' /\ ClosingOpen'
<1> USE DEF SpareInv, DurableInv, TypeInv, TypeOK, HeldInTodo, ClosingOpen
<1>1. CASE \E t \in Threads : Loading(t)
  <2>1. loop.pc = "list" /\ UNCHANGED loop
    BY <1>1, NoLoad, LoadType
  <2> QED BY <2>1
<1>2. CASE SweepPut
  <2> PICK h \in sweep.held : Write(h.card, [status |-> "EXPIRED", run |-> h.run])
    BY <1>2 DEF SweepPut
  <2> DEFINE row == [status |-> "EXPIRED", run |-> h.run]
  <2>1. /\ h.card \in Cards /\ row \in Row /\ Write(h.card, row)
        /\ StatusOf(row) \notin Decisions
    BY ConstantsAssumption DEF SweepTypeOK, Held, Row, Status, StatusOf
  <2> HIDE DEF row
  <2>2. UNCHANGED loop
    BY <1>2 DEF SweepPut
  <2> QED BY <2>1, <2>2, WriteEffect DEF LoopTypeOK
<1>3. CASE UNCHANGED <<mem, loop>>
  BY <1>3
<1>4. CASE loop'.held = {} /\ loop'.goal # "SUPERSEDED"
  BY <1>4
<1>5. SweepStart \/ SweepStep => SweepPut \/ UNCHANGED <<mem, loop>>
  BY DEF SweepStart, SweepStep, SweepGet, SweepDone, store
<1>6. ASSUME NEW r \in Runs, RunStep(r)
      PROVE  UNCHANGED <<mem, loop>> \/ (loop'.held = {} /\ loop'.goal # "SUPERSEDED")
  <2>1. CASE Commit(r)
    BY <2>1 DEF Commit, IdleLoop
  <2>2. CASE \E c \in Cards, d \in Decisions : ChatResolve(r, c, d)
    BY <2>2, ConstantsAssumption DEF ChatResolve, Decide, IdleLoop
  <2> QED BY <1>6, <2>1, <2>2
          DEF RunStep, StartRun, Draft, DuplicateDraft, ListPending, Discard, Fail, store
<1>7. ASSUME NEW c \in Cards, NEW d \in Decisions, HttpResolve(c, d)
      PROVE  loop'.held = {} /\ loop'.goal # "SUPERSEDED"
  BY <1>7, ConstantsAssumption DEF HttpResolve, Decide, IdleLoop
<1>8. Restart => loop'.held = {} /\ loop'.goal # "SUPERSEDED"
  BY DEF Restart, BootLoop, IdleLoop
<1>9. Age \/ UNCHANGED vars => UNCHANGED <<mem, loop>>
  BY DEF Age, vars, store
<1> QED BY <1>1, <1>2, <1>3, <1>4, <1>5, <1>6, <1>7, <1>8, <1>9 DEF Next, Loading

(* Every step keeps what the two threads and the file agree on.            *)
LEMMA SpareInductive == ASSUME DemoMode PROVE SpareInv /\ [Next]_vars => SpareInv'
BY DurableStep, WarmStep, SpareLoopStep, SpareStillStep DEF SpareInv

(* A run that supersedes, and the boot sweep, never write over a decision  *)
(* of a manager, whatever the expiry thread does meanwhile and whichever   *)
(* appends have failed.  Without the boot sweep the load of the other      *)
(* thread may put the decision back after the list was taken.              *)
THEOREM DecisionsAreSpared ==
  ASSUME DemoMode
  PROVE  Spec => SupersedeSparesDecisions
<1>1. SpareInv /\ [Next]_vars => SpareInv'
  BY SpareInductive
<1>2. ASSUME SpareInv, LoopPut, loop.goal = "SUPERSEDED",
             NEW c \in Cards, StatusOf(mem[c]) \in Decisions
      PROVE  mem'[c] = mem[c]
  <2> USE DEF SpareInv, DurableInv, TypeInv, TypeOK
  <2>1. PICK h \in loop.held : Write(h.card, [status |-> loop.goal, run |-> h.run])
    BY <1>2 DEF LoopPut
  <2>2. h.card \in Cards /\ [status |-> loop.goal, run |-> h.run] \in Row
    BY <1>2 DEF LoopTypeOK, Held, Row
  <2>3. h.card # c
    BY <1>2 DEF HeldInTodo, ClosingOpen
  <2> QED BY <1>2, <2>1, <2>2, <2>3, WriteEffect
<1>3. SpareInv /\ [Next]_vars =>
        [(LoopPut /\ loop.goal = "SUPERSEDED") =>
           \A c \in Cards : StatusOf(mem[c]) \in Decisions => mem'[c] = mem[c]]_vars
  BY <1>2
<1> QED BY <1>1, <1>3, SpareInit, PTL DEF Spec, SupersedeSparesDecisions

-----------------------------------------------------------------------------
(* A run leaves only its own cards open                                    *)

(* The loop is in the tail of the one run that is committing: it saves     *)
(* cards of that run, and then supersedes.                                 *)
TailInv ==
  /\ \A r \in Runs : runs[r].phase = "commit" => loop.job = "commit" /\ loop.run = r
  /\ loop.pc = "save" => loop.job = "commit" /\ loop.todo \subseteq carry[loop.run]
  /\ loop.job = "commit" => /\ loop.pc \in {"save", "get", "put"}
                            /\ loop.pc # "save" => loop.goal = "SUPERSEDED"

(* A card that a specialist has saved bears its run as long as it is open. *)
SavedInv ==
  (loop.job = "commit" /\ runs[loop.run].target # Chat) =>
    \A c \in carry[loop.run] : \/ loop.pc = "save" /\ c \in loop.todo
                               \/ StatusOf(mem[c]) = "PENDING" => mem[c].run = loop.run

(* What is open of another run where this one may clear is on its list.    *)
StaleInv ==
  (loop.job = "commit" /\ loop.pc # "save") =>
    \A c \in Cards \ loop.todo :
      (StatusOf(mem[c]) = "PENDING" /\ group[c] \in Cleared(loop.run)) => mem[c].run = loop.run

LeaveInv == TailInv /\ SavedInv /\ StaleInv

LEMMA LeaveInit == Init => LeaveInv
<1> SUFFICES ASSUME Init PROVE LeaveInv
  OBVIOUS
<1>1. loop.job # "commit" /\ loop.pc # "save" /\ \A r \in Runs : runs[r].phase = "new"
  BY DEF Init, BootLoop, IdleLoop
<1> QED BY <1>1 DEF LeaveInv, TailInv, SavedInv, StaleInv

(* Nothing is to be shown of the tail of a run while the loop does         *)
(* something else.                                                         *)
LEMMA NoTail ==
  ASSUME loop'.job # "commit", loop'.pc # "save",
         \A r \in Runs : runs'[r].phase # "commit"
  PROVE  LeaveInv'
BY DEF LeaveInv, TailInv, SavedInv, StaleInv

(* A run that steps finds the loop idle, and no run committing.            *)
LEMMA LeaveRunStep ==
  ASSUME SpareInv, LeaveInv, NEW r \in Runs, RunStep(r)
  PROVE  LeaveInv'
<1> USE DEF SpareInv, DurableInv, TypeInv, TypeOK
<1>1. loop.pc = "idle"
  BY DEF RunStep, StartRun, Draft, DuplicateDraft, ListPending, Discard, Fail, Commit, ChatResolve,
         InTools, Idle, LoopAt
<1>2. loop.job # "commit" /\ \A q \in Runs : runs[q].phase # "commit"
  BY <1>1 DEF LeaveInv, TailInv
<1>3. CASE Commit(r)
  <2>1. /\ loop'.job = "commit" /\ loop'.pc = "save" /\ loop'.run = r /\ loop'.todo = carry[r]
        /\ UNCHANGED carry
    BY <1>3 DEF Commit, IdleLoop
  <2>2. \A q \in Runs : runs'[q].phase = IF q = r THEN "commit" ELSE runs[q].phase
    BY <1>3 DEF Commit, RunsTypeOK
  <2> QED BY <1>2, <2>1, <2>2 DEF LeaveInv, TailInv, SavedInv, StaleInv
<1>4. CASE ~Commit(r)
  <2>1. loop'.job # "commit" /\ loop'.pc # "save"
    BY <1>1, <1>2, <1>4 DEF RunStep, StartRun, Draft, DuplicateDraft, ListPending, Discard, Fail,
                            ChatResolve, Decide, IdleLoop
  <2>2. ASSUME NEW q \in Runs PROVE runs'[q].phase # "commit"
    <3>1. CASE UNCHANGED runs
      BY <1>2, <3>1
    <3>2. CASE \E t \in Targets, p \in (Runs \ {r}) \cup {NoRun} : StartRun(r, t, p)
      BY <1>2, <3>2 DEF StartRun, RunsTypeOK
    <3>3. CASE Fail(r)
      BY <1>2, <3>3 DEF Fail, RunsTypeOK
    <3> QED BY <1>4, <3>1, <3>2, <3>3
            DEF RunStep, Draft, DuplicateDraft, ListPending, Discard, ChatResolve
  <2> QED BY <2>1, <2>2, NoTail
<1> QED BY <1>3, <1>4

(* The handlers of the event loop, once begun.                             *)
LEMMA LeaveLoopStep ==
  ASSUME SpareInv, LeaveInv, LoopStep
  PROVE  LeaveInv'
<1> USE DEF SpareInv, DurableInv, TypeInv, TypeOK, LeaveInv
<1>0. CASE HandlerLoads
  <2>1. Loading("loop") /\ loop.pc = "list"
    BY <1>0, NoLoad DEF HandlerLoads, Loading, Threads
  <2>2. UNCHANGED <<loop, runs>> /\ loop.job # "commit"
    BY <2>1, LoadType DEF Threads, TailInv
  <2> QED BY <2>1, <2>2, NoTail DEF TailInv
<1>1. CASE \E c \in Cards : Save(c)
  <2> PICK c \in Cards : Save(c)
    BY <1>1
  <2> DEFINE row == [status |-> "PENDING", run |-> loop.run]
  <2>1. /\ row \in Row /\ row.run = loop.run /\ Write(c, row)
        /\ loop.pc = "save" /\ loop.job = "commit" /\ c \in loop.todo
        /\ loop.run \in Runs /\ UNCHANGED <<carry, runs>>
    BY DEF Save, LoopAt, LoopTypeOK, Row, Status, TailInv, CommitHasRun
  <2>2. loop' = [loop EXCEPT !.todo = @ \ {c}]
    BY DEF Save
  <2> HIDE DEF row
  <2>3. mem'[c] = row /\ \A d \in Cards \ {c} : mem'[d] = mem[d]
    BY <2>1, WriteEffect
  <2>4. /\ loop'.pc = "save" /\ loop'.job = "commit" /\ loop'.run = loop.run
        /\ loop'.todo = loop.todo \ {c}
    BY <2>1, <2>2 DEF LoopTypeOK
  <2>5. TailInv' /\ StaleInv'
    BY <2>1, <2>4 DEF TailInv, StaleInv
  <2>6. SavedInv'
    BY <2>1, <2>3, <2>4 DEF SavedInv, RunsTypeOK
  <2> QED BY <2>5, <2>6
<1>2. CASE \E c \in Cards : LoopGet(c)
  <2> PICK c \in Cards : LoopGet(c)
    BY <1>2
  <2>1. /\ loop.pc = "get" /\ c \in loop.todo /\ UNCHANGED <<mem, carry, runs, group>>
        /\ loop'.job = loop.job /\ loop'.run = loop.run /\ loop'.goal = loop.goal
        /\ loop'.pc \in {"get", "put"}
        /\ loop'.todo = IF mem[c] = NoRow THEN loop.todo \ {c} ELSE loop.todo
    BY DEF LoopGet, LoopAt, LoopTypeOK, cards, store
  <2>2. TailInv' /\ SavedInv'
    BY <2>1 DEF TailInv, SavedInv
  <2>3. StaleInv'
    BY <2>1 DEF StaleInv, Cleared, StatusOf
  <2> QED BY <2>2, <2>3
<1>3. CASE Supersede
  <2>1. /\ loop.pc = "save" /\ loop.todo = {} /\ loop.job = "commit" /\ loop.run \in Runs
        /\ UNCHANGED <<mem, carry, runs, group>>
        /\ loop'.pc = "get" /\ loop'.todo = Stale(loop.run) /\ loop'.goal = "SUPERSEDED"
        /\ loop'.job = loop.job /\ loop'.run = loop.run
    BY <1>3 DEF Supersede, LoopAt, LoopTypeOK, TailInv, CommitHasRun, cards, store
  <2>2. TailInv' /\ SavedInv'
    BY <2>1 DEF TailInv, SavedInv
  <2>3. ASSUME NEW c \in Cards \ Stale(loop.run), StatusOf(mem[c]) = "PENDING",
               group[c] \in Cleared(loop.run)
        PROVE  mem[c].run = loop.run
    <3>1. c \in Open /\ runs[loop.run].target # Chat
      BY <2>3, ConstantsAssumption DEF Open, StatusOf, Cleared, Groups
    <3>2. CASE c \in carry[loop.run]
      BY <2>1, <2>3, <3>1, <3>2 DEF SavedInv
    <3> QED BY <2>3, <3>1, <3>2 DEF Stale
  <2>4. StaleInv'
    BY <2>1, <2>3 DEF StaleInv, Cleared
  <2> QED BY <2>2, <2>4
<1>4. CASE BootSweep
  <2>1. loop.job # "commit" /\ UNCHANGED runs /\ loop'.job = loop.job /\ loop'.pc = "get"
    BY <1>4 DEF BootSweep, LoopAt, TailInv, LoopTypeOK
  <2> QED BY <2>1, NoTail DEF TailInv
<1>5. CASE LoopPut
  <2> PICK h \in loop.held :
             /\ Write(h.card, [status |-> loop.goal, run |-> h.run])
             /\ loop' = [loop EXCEPT !.pc = "get", !.todo = @ \ {h.card}, !.held = {}]
    BY <1>5 DEF LoopPut
  <2> DEFINE row == [status |-> loop.goal, run |-> h.run]
  <2>1. /\ h.card \in Cards /\ row \in Row /\ Write(h.card, row)
        /\ StatusOf(row) = loop.goal
        /\ loop.pc = "put" /\ UNCHANGED <<carry, runs, group>>
    BY <1>5, ConstantsAssumption DEF LoopPut, LoopTypeOK, Held, Row, StatusOf, cards
  <2>2. /\ loop'.pc = "get" /\ loop'.goal = loop.goal /\ loop'.job = loop.job
        /\ loop'.run = loop.run /\ loop'.todo = loop.todo \ {h.card}
    BY DEF LoopTypeOK
  <2> HIDE DEF row
  <2>3. mem'[h.card] = row /\ \A d \in Cards \ {h.card} : mem'[d] = mem[d]
    BY <2>1, WriteEffect
  <2>4. TailInv'
    BY <2>1, <2>2 DEF TailInv
  <2>5. loop.job = "commit" => loop.run \in Runs /\ StatusOf(mem'[h.card]) # "PENDING"
    BY <2>1, <2>3 DEF TailInv, CommitHasRun
  <2>6. SavedInv'
    BY <2>1, <2>2, <2>3, <2>5 DEF SavedInv, RunsTypeOK
  <2>7. StaleInv'
    BY <2>1, <2>2, <2>3, <2>5 DEF StaleInv, Cleared
  <2> QED BY <2>4, <2>6, <2>7
<1>6. CASE LoopDone
  <2>1. loop' = IdleLoop /\ loop'.job # "commit" /\ loop'.pc # "save"
    BY <1>6 DEF LoopDone, IdleLoop
  <2>2. ASSUME NEW r \in Runs PROVE runs'[r].phase # "commit"
    BY <1>6 DEF LoopDone, TailInv, CommitHasRun, RunsTypeOK
  <2> QED BY <2>1, <2>2, NoTail
<1> QED BY <1>0, <1>1, <1>2, <1>3, <1>4, <1>5, <1>6 DEF LoopStep

(* The expiry thread closes cards; the rest does not touch the tail of a   *)
(* run, or ends it.                                                        *)
LEMMA LeaveStillStep ==
  ASSUME SpareInv, LeaveInv, [Next]_vars, ~LoopStep, ~\E r \in Runs : RunStep(r)
  PROVE  LeaveInv'
<1> USE DEF SpareInv, DurableInv, TypeInv, TypeOK, LeaveInv
<1>1. CASE \E t \in Threads : Loading(t)
  <2>1. loop.pc = "list" /\ UNCHANGED <<loop, runs>>
    BY <1>1, NoLoad, LoadType
  <2> QED BY <2>1, NoTail DEF TailInv
<1>2. CASE SweepPut
  <2> PICK h \in sweep.held : Write(h.card, [status |-> "EXPIRED", run |-> h.run])
    BY <1>2 DEF SweepPut
  <2> DEFINE row == [status |-> "EXPIRED", run |-> h.run]
  <2>1. /\ h.card \in Cards /\ row \in Row /\ Write(h.card, row)
        /\ StatusOf(row) # "PENDING"
    BY ConstantsAssumption DEF SweepTypeOK, Held, Row, Status, StatusOf
  <2> HIDE DEF row
  <2>2. StatusOf(mem'[h.card]) # "PENDING" /\ \A d \in Cards \ {h.card} : mem'[d] = mem[d]
    BY <2>1, WriteEffect
  <2>3. UNCHANGED <<group, carry, runs, loop>>
    BY <1>2 DEF SweepPut, cards
  <2>4. TailInv'
    BY <2>3 DEF TailInv
  <2>5. SavedInv'
    BY <2>1, <2>2, <2>3 DEF SavedInv, CommitHasRun, RunsTypeOK
  <2>6. StaleInv'
    BY <2>1, <2>2, <2>3 DEF StaleInv, Cleared
  <2> QED BY <2>4, <2>5, <2>6
<1>3. CASE UNCHANGED <<mem, group, carry, runs, loop>>
  BY <1>3 DEF TailInv, SavedInv, StaleInv, Cleared
<1>4. CASE \E c \in Cards, d \in Decisions : HttpResolve(c, d)
  <2>1. loop.pc = "idle" /\ loop'.job = "http" /\ loop'.pc = "get" /\ UNCHANGED runs
    BY <1>4 DEF HttpResolve, Idle, LoopAt, Decide, IdleLoop
  <2> QED BY <2>1, NoTail DEF TailInv
<1>5. CASE Restart
  <2>1. loop'.job # "commit" /\ loop'.pc # "save"
    BY <1>5 DEF Restart, BootLoop, IdleLoop
  <2>2. \A r \in Runs : runs'[r].phase # "commit"
    BY <1>5 DEF Restart, RunsTypeOK
  <2> QED BY <2>1, <2>2, NoTail
<1>6. SweepStart \/ SweepStep => SweepPut \/ UNCHANGED <<mem, group, carry, runs, loop>>
  BY DEF SweepStart, SweepStep, SweepGet, SweepDone, store, cards
<1>7. Age \/ UNCHANGED vars => UNCHANGED <<mem, group, carry, runs, loop>>
  BY DEF Age, vars, store, cards
<1> QED BY <1>1, <1>2, <1>3, <1>4, <1>5, <1>6, <1>7 DEF Next, Loading

LEMMA LeaveInductive ==
  ASSUME DemoMode
  PROVE  SpareInv /\ LeaveInv /\ [Next]_vars => SpareInv' /\ LeaveInv'
BY SpareInductive, LeaveRunStep, LeaveLoopStep, LeaveStillStep

(* The one step that completes a run is the last of its tail.              *)
LEMMA CompletionIsDone ==
  ASSUME SpareInv, LeaveInv, [Next]_vars, NEW r \in Runs, Completes(r)
  PROVE  LoopDone /\ loop.job = "commit" /\ loop.run = r
<1> USE DEF SpareInv, DurableInv, TypeInv, TypeOK, LeaveInv
<1>1. loop.job = "commit" /\ loop.run = r /\ loop.pc \notin {"idle", "list"}
  BY DEF Completes, TailInv
<1>2. runs[r].phase = "commit" /\ runs'[r].phase = "done" /\ restarts' = restarts
  BY DEF Completes, Ended
<1>3. ~Restart
  BY <1>2 DEF Restart
<1>4. ~\E q \in Runs : RunStep(q)
  BY <1>1 DEF RunStep, StartRun, Draft, DuplicateDraft, ListPending, Discard, Fail, Commit,
              ChatResolve, InTools, Idle, LoopAt
<1>5. ~\E t \in Threads : Loading(t)
  BY <1>1, NoLoad
<1>6. ASSUME ~LoopDone PROVE UNCHANGED runs
  BY <1>3, <1>4, <1>5, <1>6
     DEF Next, Loading, LoopStep, HandlerLoads, SweepStep, Save, LoopGet, Supersede, BootSweep,
         LoopPut, SweepStart, SweepGet, SweepPut, SweepDone, HttpResolve, Age, vars, Threads
<1> QED BY <1>1, <1>2, <1>6

(* Where a run that names a store may clear, it leaves no card of another  *)
(* run open when it ends: whatever the expiry thread does between two lock *)
(* sections, whichever appends fail and wherever the process restarts.     *)
THEOREM CommitClears ==
  ASSUME DemoMode
  PROVE  Spec => CommitLeavesOnlyItsCards
<1>1. ASSUME SpareInv, LeaveInv, [Next]_vars, NEW r \in Runs, Completes(r),
             NEW c \in Cards, IsOpen(c), group[c] \in Cleared(r)
      PROVE  Found(c).run = r
  <2>1. loop.job = "commit" /\ loop.run = r /\ loop.pc = "get" /\ loop.todo = {}
    BY <1>1, CompletionIsDone DEF LoopDone, LoopAt
  <2>2. loaded /\ (StatusOf(mem[c]) = "PENDING" => mem[c].run = r)
    BY <1>1, <2>1 DEF LeaveInv, StaleInv, SpareInv, WarmInv
  <2>3. Found(c) = mem[c]
    BY <2>2 DEF Found
  <2> QED BY <1>1, <2>2, <2>3 DEF IsOpen
<1>2. SpareInv /\ LeaveInv /\ [Next]_vars => SpareInv' /\ LeaveInv'
  BY LeaveInductive
<1>3. SpareInv /\ LeaveInv /\ [Next]_vars =>
        [\A r \in Runs : Completes(r) =>
           \A c \in Cards : (IsOpen(c) /\ group[c] \in Cleared(r)) => Found(c).run = r]_vars
  BY <1>1
<1> QED BY <1>2, <1>3, SpareInit, LeaveInit, PTL DEF Spec, CommitLeavesOnlyItsCards

-----------------------------------------------------------------------------
(* What a run saved, and what a chat was shown open                        *)

Lively(c) == StatusOf(mem[c]) \in {"PENDING", "EXPIRED"}

(* A card that is open or expired is made anything else by the loop only,  *)
(* when it resolves that card.                                             *)
LEMMA LivelyStays ==
  ASSUME SpareInv, LeaveInv, [Next]_vars, ~Restart, loop.pc # "list", NEW c \in Cards, Lively(c),
         LoopPut => c \in loop'.todo \/ c \notin loop.todo
  PROVE  Lively(c)'
<1> USE DEF SpareInv, DurableInv, TypeInv, TypeOK
<1> USE ConstantsAssumption
<1>1. mem[c] # NoRow
  BY DEF Lively, StatusOf
<1>2. CASE UNCHANGED store
  BY <1>1, <1>2 DEF store, Lively
<1>3. ASSUME NEW d \in Cards, NEW row \in Row, Write(d, row),
             d = c => row.status \in {"PENDING", "EXPIRED"}
      PROVE  Lively(c)'
  <2>1. mem'[c] = mem[c] \/ (d = c /\ mem'[c] = row)
    BY <1>3, WriteEffect
  <2>2. row # NoRow
    OBVIOUS
  <2> QED BY <1>3, <2>1, <2>2 DEF Lively, StatusOf
<1>4. CASE \E d \in Cards : Save(d)
  <2>1. PICK d \in Cards : Save(d)
    BY <1>4
  <2>2. [status |-> "PENDING", run |-> loop.run] \in Row
    BY DEF LoopTypeOK, Row, Status
  <2> QED BY <1>3, <2>1, <2>2 DEF Save
<1>5. CASE LoopPut
  <2>1. PICK h \in loop.held :
               /\ Write(h.card, [status |-> loop.goal, run |-> h.run])
               /\ loop' = [loop EXCEPT !.pc = "get", !.todo = @ \ {h.card}, !.held = {}]
    BY <1>5 DEF LoopPut
  <2>2. h.card \in Cards /\ [status |-> loop.goal, run |-> h.run] \in Row
    BY DEF LoopTypeOK, Held, Row
  <2>3. h.card \in loop.todo /\ h.card \notin loop'.todo
    BY <2>1 DEF HeldInTodo, LoopTypeOK
  <2> QED BY <1>3, <1>5, <2>1, <2>2, <2>3
<1>6. CASE SweepPut
  <2>1. PICK h \in sweep.held : Write(h.card, [status |-> "EXPIRED", run |-> h.run])
    BY <1>6 DEF SweepPut
  <2>2. h.card \in Cards /\ [status |-> "EXPIRED", run |-> h.run] \in Row
    BY DEF SweepTypeOK, Held, Row, Status
  <2> QED BY <1>3, <2>1, <2>2
<1>7. ~\E t \in Threads : Loading(t)
  BY NoLoad
<1> QED BY <1>2, <1>4, <1>5, <1>6, <1>7, ThreeWrite

(* Each card of the run in its tail is still to be saved, or has been; and *)
(* none of them is on the list to supersede.                               *)
OwnInv ==
  loop.job = "commit" =>
    \A c \in carry[loop.run] :
      \/ loop.pc = "save" /\ c \in loop.todo
      \/ Lively(c) /\ (loop.pc # "save" => c \notin loop.todo)

(* While the loop resolves for a chat, the card is what the tool saw, or   *)
(* has been expired.                                                       *)
ChatInv ==
  loop.job = "chat" => loop.pc \in {"get", "put"} /\ \A c \in loop.todo : Lively(c)

LEMMA OwnInductive ==
  ASSUME SpareInv, LeaveInv, OwnInv, [Next]_vars
  PROVE  OwnInv'
<1> USE DEF SpareInv, DurableInv, TypeInv, TypeOK, LeaveInv
<1>1. CASE loop'.job # "commit"
  BY <1>1 DEF OwnInv
<1>2. CASE \E r \in Runs : Commit(r)
  BY <1>2 DEF Commit, IdleLoop, OwnInv
<1>3. CASE loop'.job = "commit" /\ ~\E r \in Runs : Commit(r)
  <2>1. ~Restart /\ ~LoopDone /\ ~\E c \in Cards, d \in Decisions : HttpResolve(c, d)
    <3>1. BootLoop.job \in {"boot", "none"} /\ IdleLoop.job = "none"
      BY DEF BootLoop, IdleLoop
    <3>2. Restart \/ LoopDone => loop'.job \in {"boot", "none"}
      BY <3>1 DEF Restart, LoopDone
    <3>3. \A c \in Cards, d \in Decisions : HttpResolve(c, d) => loop'.job = "http"
      BY DEF HttpResolve, Decide, IdleLoop
    <3> QED BY <1>3, <3>2, <3>3
  <2>0. ~\E t \in Threads : Loading(t)
    BY <1>3, NoLoad, LoadType DEF TailInv
  <2>2. ~\E r \in Runs : RunStep(r)
    <3> SUFFICES ASSUME NEW r \in Runs, RunStep(r) PROVE FALSE
      OBVIOUS
    <3>1. loop.pc = "idle" \/ loop.job = "commit"
      BY DEF RunStep, StartRun, Draft, DuplicateDraft, ListPending, Discard, Fail, Commit,
             ChatResolve, InTools, Idle, LoopAt
    <3>2. loop.pc = "idle" => loop.job # "commit"
      BY DEF TailInv
    <3>3. ~\E c \in Cards, d \in Decisions : ChatResolve(r, c, d)
      BY <1>3 DEF ChatResolve, Decide, IdleLoop
    <3>4. UNCHANGED loop /\ loop.pc = "idle"
      BY <1>3, <3>3 DEF RunStep, StartRun, Draft, DuplicateDraft, ListPending, Discard, Fail,
                        InTools, Idle, LoopAt
    <3> QED BY <1>3, <3>2, <3>4
  <2>3. /\ loop.job = "commit" /\ loop.run \in Runs
        /\ carry' = carry /\ loop'.run = loop.run
    <3>1. carry' = carry /\ loop'.job = loop.job /\ loop'.run = loop.run
      <4>1. CASE \E c \in Cards : Save(c) \/ LoopGet(c)
        BY <4>1 DEF Save, LoopGet, LoopTypeOK
      <4>2. CASE Supersede \/ BootSweep \/ LoopPut
        BY <4>2 DEF Supersede, BootSweep, LoopPut, LoopTypeOK
      <4>3. CASE SweepStart \/ SweepStep \/ Age \/ UNCHANGED vars
        BY <4>3 DEF SweepStart, SweepStep, SweepGet, SweepPut, SweepDone, Age, vars
      <4> QED BY <2>0, <2>1, <2>2, <4>1, <4>2, <4>3
          DEF Next, Loading, LoopStep, HandlerLoads, Threads
    <3> QED BY <1>3, <3>1 DEF CommitHasRun
  <2> SUFFICES ASSUME NEW c \in carry[loop.run]
               PROVE  \/ loop'.pc = "save" /\ c \in loop'.todo
                      \/ Lively(c)' /\ (loop'.pc # "save" => c \notin loop'.todo)
    BY <2>3 DEF OwnInv
  <2>4. c \in Cards
    BY <2>3 DEF RunsTypeOK
  <2>5. CASE loop.pc = "save" /\ c \in loop.todo
    <3>1. CASE Save(c)
      <4>1. /\ [status |-> "PENDING", run |-> loop.run] \in Row
            /\ Write(c, [status |-> "PENDING", run |-> loop.run])
            /\ loop'.pc = "save"
        BY <3>1 DEF Save, LoopAt, LoopTypeOK, Row, Status
      <4>2. mem'[c] = [status |-> "PENDING", run |-> loop.run] /\ mem'[c] # NoRow
        BY <2>4, <4>1, WriteEffect, ConstantsAssumption
      <4> QED BY <4>1, <4>2 DEF Lively, StatusOf
    <3>2. CASE \E d \in Cards \ {c} : Save(d)
      BY <2>5, <3>2 DEF Save, LoopTypeOK
    <3>3. CASE LoopStep /\ ~\E d \in Cards : Save(d)
      BY <2>0, <2>1, <2>5, <3>3 DEF LoopStep, HandlerLoads, Loading, Threads, LoopGet, Supersede,
                                    BootSweep, LoopPut, LoopAt
    <3>4. CASE SweepStart \/ SweepStep \/ Age \/ UNCHANGED vars
      BY <2>5, <3>4 DEF SweepStart, SweepStep, SweepGet, SweepPut, SweepDone, Age, vars
    <3> QED BY <2>0, <2>1, <2>2, <3>1, <3>2, <3>3, <3>4 DEF Next, Loading
  <2>6. CASE ~(loop.pc = "save" /\ c \in loop.todo)
    <3>1. Lively(c) /\ (loop.pc # "save" => c \notin loop.todo)
      BY <2>3, <2>6 DEF OwnInv
    <3>2. LoopPut => c \notin loop.todo
      BY <3>1 DEF LoopPut
    <3>3. Lively(c)'
      BY <2>1, <2>3, <2>4, <3>1, <3>2, LivelyStays DEF TailInv
    <3>4. loop'.pc # "save" => c \notin loop'.todo
      <4>1. CASE Supersede
        BY <4>1 DEF Supersede, Stale, LoopTypeOK
      <4>2. CASE \E d \in Cards : Save(d) \/ LoopGet(d)
        BY <3>1, <4>2 DEF Save, LoopAt, LoopGet, LoopTypeOK
      <4>3. CASE LoopPut
        BY <3>1, <4>3 DEF LoopPut, LoopTypeOK
      <4>4. CASE BootSweep
        BY <2>3, <4>4 DEF BootSweep, LoopAt, TailInv
      <4>5. CASE SweepStart \/ SweepStep \/ Age \/ UNCHANGED vars
        BY <3>1, <4>5 DEF SweepStart, SweepStep, SweepGet, SweepPut, SweepDone, Age, vars
      <4> QED BY <2>0, <2>1, <2>2, <4>1, <4>2, <4>3, <4>4, <4>5
              DEF Next, Loading, LoopStep, HandlerLoads, Threads
    <3> QED BY <3>3, <3>4
  <2> QED BY <2>5, <2>6
<1> QED BY <1>1, <1>2, <1>3

LEMMA ChatInductive ==
  ASSUME SpareInv, LeaveInv, ChatInv, [Next]_vars
  PROVE  ChatInv'
<1> USE DEF SpareInv, DurableInv, TypeInv, TypeOK, LeaveInv
<1>1. CASE \E r \in Runs, c \in Cards, d \in Decisions : ChatResolve(r, c, d)
  <2> PICK r \in Runs, c \in Cards, d \in Decisions : ChatResolve(r, c, d)
    BY <1>1
  <2>1. mem' = mem /\ mem[c] # NoRow /\ mem[c].status = "PENDING"
    BY DEF ChatResolve, Open, store
  <2>2. loop'.pc = "get" /\ loop'.todo = {c}
    BY DEF ChatResolve, Decide, IdleLoop
  <2> QED BY <2>1, <2>2 DEF ChatInv, Lively, StatusOf
<1>2. CASE loop'.job # "chat"
  BY <1>2 DEF ChatInv
<1>3. CASE loop'.job = "chat" /\ ~\E r \in Runs, c \in Cards, d \in Decisions : ChatResolve(r, c, d)
  <2>1. /\ ~Restart /\ ~LoopDone /\ ~\E c \in Cards, d \in Decisions : HttpResolve(c, d)
        /\ ~\E r \in Runs : Commit(r)
    <3>1. BootLoop.job \in {"boot", "none"} /\ IdleLoop.job = "none"
      BY DEF BootLoop, IdleLoop
    <3>2. Restart \/ LoopDone => loop'.job \in {"boot", "none"}
      BY <3>1 DEF Restart, LoopDone
    <3>3. \A c \in Cards, d \in Decisions : HttpResolve(c, d) => loop'.job = "http"
      BY DEF HttpResolve, Decide, IdleLoop
    <3>4. \A r \in Runs : Commit(r) => loop'.job = "commit"
      BY DEF Commit, IdleLoop
    <3> QED BY <1>3, <3>2, <3>3, <3>4
  <2>0. ~\E t \in Threads : Loading(t)
    BY <1>3, NoLoad, LoadType DEF ChatInv
  <2>2. /\ loop.job = "chat" /\ loop'.pc \in {"get", "put"} /\ loop'.todo \subseteq loop.todo
    <3>1. CASE UNCHANGED loop
      BY <1>3, <3>1 DEF ChatInv
    <3>2. CASE \E c \in Cards : LoopGet(c)
      BY <1>3, <3>2 DEF LoopGet, LoopAt, LoopTypeOK
    <3>3. CASE LoopPut
      BY <1>3, <3>3 DEF LoopPut, LoopTypeOK
    <3>4. CASE Supersede \/ \E c \in Cards : Save(c)
      BY <1>3, <3>4 DEF LoopAt, Supersede, Save, TailInv, LoopTypeOK
    <3>5. CASE BootSweep
      BY <1>3, <3>5 DEF BootSweep, LoopAt, ChatInv, LoopTypeOK
    <3>6. \/ UNCHANGED loop \/ LoopStep
      BY <1>3, <2>0, <2>1 DEF Next, Loading, SweepStart, SweepStep, SweepGet, SweepPut, SweepDone, Age, RunStep,
                        StartRun, Draft, DuplicateDraft, ListPending, Discard, Fail, vars
    <3> QED BY <2>0, <2>1, <3>1, <3>2, <3>3, <3>4, <3>5, <3>6
            DEF LoopStep, HandlerLoads, Loading, Threads
  <2>3. ASSUME NEW c \in loop'.todo PROVE Lively(c)'
    <3>1. c \in Cards /\ Lively(c)
      BY <2>2, <2>3 DEF ChatInv, LoopTypeOK
    <3> QED BY <1>3, <2>1, <2>2, <2>3, <3>1, LivelyStays DEF ChatInv
  <2> QED BY <2>2, <2>3 DEF ChatInv
<1> QED BY <1>1, <1>2, <1>3

KeptInv == SpareInv /\ LeaveInv /\ OwnInv /\ ChatInv

LEMMA KeptHolds ==
  ASSUME DemoMode
  PROVE  Spec => []KeptInv
<1>1. Init => KeptInv
  <2> SUFFICES ASSUME Init PROVE KeptInv
    OBVIOUS
  <2>1. OwnInv /\ ChatInv
    BY DEF Init, OwnInv, ChatInv, BootLoop, IdleLoop
  <2> QED BY <2>1, SpareInit, LeaveInit DEF KeptInv
<1>2. KeptInv /\ [Next]_vars => KeptInv'
  BY LeaveInductive, OwnInductive, ChatInductive DEF KeptInv
<1> QED BY <1>1, <1>2, PTL DEF Spec

(* When a run ends each of its proposals is open, or was expired meanwhile:*)
(* its tail supersedes none of them, and no load undoes a save.  Without   *)
(* the boot sweep the load of the other thread can: it puts an earlier row *)
(* of the card over the one that was saved.                                *)
THEOREM OwnCardsAreKept ==
  ASSUME DemoMode
  PROVE  Spec => OwnCardsSurvive
<1>1. ASSUME KeptInv, [Next]_vars, NEW r \in Runs, Completes(r), NEW c \in carry[r]
      PROVE  StatusOf(mem[c]) \in {"PENDING", "EXPIRED"}
  <2>1. loop.job = "commit" /\ loop.run = r /\ loop.pc = "get"
    BY <1>1, CompletionIsDone DEF LoopDone, LoopAt, KeptInv
  <2> QED BY <1>1, <2>1 DEF KeptInv, OwnInv, Lively
<1>2. KeptInv /\ [Next]_vars =>
        [\A r \in Runs : Completes(r) =>
           \A c \in carry[r] : StatusOf(mem[c]) \in {"PENDING", "EXPIRED"}]_vars
  BY <1>1
<1> QED BY <1>2, KeptHolds, PTL DEF Spec, OwnCardsSurvive

(* In-chat approve and reject, which check a card in one lock section and  *)
(* write it in another, write over an open or an expired card only.        *)
THEOREM ChatSparesDecisions ==
  ASSUME DemoMode
  PROVE  Spec => ChatDecidesOpenCards
<1>1. ASSUME KeptInv, NEW c \in Cards, LoopPut, loop.job = "chat", mem'[c] # mem[c]
      PROVE  StatusOf(mem[c]) \in {"PENDING", "EXPIRED"}
  <2> USE DEF KeptInv, SpareInv, DurableInv, TypeInv, TypeOK
  <2>1. PICK h \in loop.held : Write(h.card, [status |-> loop.goal, run |-> h.run])
    BY <1>1 DEF LoopPut
  <2>2. h.card \in Cards /\ [status |-> loop.goal, run |-> h.run] \in Row
    BY <1>1 DEF LoopTypeOK, Held, Row
  <2>3. h.card = c
    BY <1>1, <2>1, <2>2, WriteEffect
  <2> QED BY <1>1, <2>3 DEF HeldInTodo, ChatInv, Lively
<1>2. KeptInv /\ [Next]_vars =>
        [\A c \in Cards : (LoopPut /\ loop.job = "chat" /\ mem'[c] # mem[c]) =>
           StatusOf(mem[c]) \in {"PENDING", "EXPIRED"}]_vars
  BY <1>1
<1> QED BY <1>2, KeptHolds, PTL DEF Spec, ChatDecidesOpenCards
=============================================================================
