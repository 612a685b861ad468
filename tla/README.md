# MaSoVa agent fleet: TLA+ models, checks and proofs

The package `src/src/masova_agent` runs a fleet of agents for a restaurant
chain: scheduled and triggered agents draft *proposal cards* (purchase orders,
rosters, prices, replies), managers approve or reject them, and an audit log
keeps every run.  It is one Python process: FastAPI and asyncio on one event
loop, an APScheduler beside it, a RabbitMQ consumer task, and JSONL files.

## Inventory

| Component | State | Operations | Interacts with | Module |
|---|---|---|---|---|
| Proposal queue (`proposal_store`, `proposal_expiry`, `proposal_tools`) | `_by_id`, `_loaded`, `proposals.jsonl` | save, get, list, resolve, supersede, boot sweep, expiry sweep | runs, routes, chat, scheduler | ProposalStore |
| Agent runtime (`agent_runtime`, `wrap`) | one record per run | model path, fallback, screening, save, supersede, audit | queue, run log, circuit, tools | AgentRun, ProposalStore |
| Run log (`run_store`, `audit`) | `_all_records`, `_by_agent`, `_last_hash`, `_loaded`, `runs.jsonl` | record, upsert stub, list, report, verify, reset | runtime, tool loop, registry | RunLog |
| Tool loop, ops contract, policy (`ops_llm`, `ops_contract`, `policy`) | results, cache of reads and budget of a run | turns with concurrent tools, fill in arguments, skip, evidence | tools, run log | Toolbox |
| Ops tools, idempotency | claims with a TTL | draft, claim, answer a duplicate | platform, queue | AgentRun |
| Circuit breaker | failures per agent | allow, success, failure | runtime | AgentRun |
| Proposal effects (`proposal_apply`, `demo_backend`) | demo database | place a draft, apply an approval or a rejection | runs, resolve route, chat | Effects |
| Reads and signals (`ops_tools`, `demo_backend`, pricing, shifts, churn) | orders of the demo database | pricing signal, segment, daily series, brief, slow items, roster | agents, tools | Signals |
| Rate limiter, store registry | hit lists, cached ids | admit a request, know a store | routes | Front |
| Manager chat, Redis sessions | ten turns per session, in memory and in Redis | history, run, persist, list, approve, reject | queue, runs | Front, ProposalStore |
| Review consumer, scheduler | task, jobs | start runs | runtime | ProposalStore (the sweep) |
| Guardrails, identity, auth, RAG, order, location, data, config, console | none shared | pure functions and I/O | | none |

What is hard here: the expiry job is a plain function, so the scheduler's
executor runs it in a pool thread, beside the event loop; handlers on the loop
hold copies of cards, of a catalogue and of a history across awaits; the tools of
a turn run concurrently; two requests for counts are taken for one moment; both
files can lose or cut off an append that the memory has already taken; they are
read back lazily, the queue's by either thread and line by line, and a load that
fails counts as done; a crash loses the memory and every run in flight, and leaves
the drafts that were placed.
`PROJECT.json` lists each hazard at its line, with the properties that would show
it going wrong.

What makes each component correct:

* queue: a manager's decision stands; a run leaves only its own cards open;
  aged cards close; a reader is answered what is on file;
* run log: the chain verifies unless someone broke it, an edit shows, the
  report and the registry agree with what is on file;
* runtime and tools: a drafted effect has a card, a failed model falls back, a
  duplicate drafts nothing and loses nothing, nothing empty is placed, and what
  is placed stands on what the run read last;
* effects: nothing leaves draft without a human, one decision moves one draft
  and nobody is booked twice for one approval;
* signals: a discount never meets a busy kitchen or a best seller, two ways of
  computing one thing agree, a brief and a forecast are about days with orders;
* front: no more than the budget in any window, refusals are deserved, the store
  check errs only where the catalogue could not be fetched, and the model sees the
  talk of its session.

## Modules

**ProposalStore** is the queue with everyone who writes to it.  Variables:
`mem`, `loaded` (`_by_id`, `_loaded`), `reading` and `unread` (the threads inside
`_load_file_once`, and the cards whose last line each has still to come to),
`disk`, `older` and `tail` (the last row of each card on file, those before it, and
whether the last line was cut off), `lost` (cards that a failed append or a failed
load has cut off from their last row), `group`, `minted`, `aged` (the cards), `runs` and
`carry` (agent runs and the proposals they hold), `loop` and `sweep` (what the
event loop and the expiry thread are executing).  One lock section of the code
is one step, so `LoopGet` / `LoopPut` and `SweepGet` / `SweepPut` are the two
halves of `resolve_proposal` on either thread.  A handler without an await is a
sequence of steps of `loop` during which no other handler of the loop starts;
the thread interleaves everywhere.  `_load_file_once` is `StartLoad`, then
`ReadEarlier` and `ReadLast` line by line, and `EndLoad` or `FailLoad`: it tests
`_loaded` outside the lock, so that both threads may be inside it, beside each other's
writes, and `CanGet` is a read that hits a memory half loaded.  Runs step between
their awaits: `StartRun`,
`Draft`, `DuplicateDraft`, `ListPending`, `Discard`, `Fail`, `Commit`, then
`Save` per card, `Supersede`, and `LoopDone`, which hands a specialist's cards
back to the chat that called it.

**CardBoard** is the promise of the queue to its readers: one register per card,
changed one card at a time (`Put`).  A card is at risk (`Doubt`) when the file is about
to be read back or after a failure; only then may it be set back (`SetBack`), to its
last row on file or to an earlier one of its own.  `DurableCards` is its specification
under a refinement mapping (`board` is what `get_proposal` would answer, `atRisk` the
cards a load has still to come to or a failure has cut off).

**RunLog** is the audit log: `file` and `tail` for `runs.jsonl`, `records`,
`byAgent`, `last`, `loaded` for the memory.  Each function of `run_store.py` is
one step, since none awaits and all run on the loop.  A hash is the list of
contents it was computed from, which is what a hash without collisions tells
apart.  `Misread` is a load that fails: the rows read so far stay, the tip is not
restored, and the file counts as loaded.  Someone may edit a row (`Edit`), delete
the file under the process (`Delete`) or reset the log (`Reset`); a process may stop
anywhere (`Restart`).

**AgentRun** is the inside of a run of an agent that drafts something on the
platform: `AgentRuntime.run`, the model's tool loop, the four drafting tools,
the rules, over `claims` (`idempotency._store`), `failures` (the circuit) and
the cards.  `now` and `began` are the clock and the start of the current bucket
of the key; `drafts` counts what the platform carried out per key and life of
the process; `minted`, `saved`, `open` are the cards made, those that reached
the queue, and those still open; `runs` holds each run's phase and what it
carries.  A step is what runs between two awaits.  `StartRun` picks the path;
`ModelCalls` is a turn, in which the model may make the same call twice, `BeginCall`
a tool up to its request (it claims, or answers a duplicate with `latest_open`),
`EndCall` the tool from its answer on, in any order among the tools of a turn;
`ModelEnds` and `ModelFails` leave the loop.  `ListLow`, `RuleVisit`, `RulePosted`, `RuleEnds` are the rules, which
visit one target after the other.  `Commit` is the tail of the run.  The agents
differ in three operators:

| Agent | Targets | Rules claim | Rules make a card | Duplicate answered with |
|---|---|---|---|---|
| inventory | suppliers of a store | yes, the key of the tool | for an order placed | newest open card |
| shifts | the store | no | for a roster placed | newest open card |
| churn | the store | no | never | newest open card |
| pricing | the store | no | always | nothing |

**Effects** is the demo platform and what happens to it.  `rows` are the orders and
campaigns as they were created, with the moment of their `created_at` (`at`),
`shifts` the draft and confirmed rows of each slot of a store, `menu` the prices
of the one catalogue, `recorded` the rows of `manager_actions`.  `cards` are the
cards of the queue with what `proposal_apply` reads of them: `row` is
`payload.po_id`, `ids` are `payload.item_ids`.  `copies` are the cards of which a chat
or a run may hold the PENDING copy a tool returned (`TakeCopy`); `ModelEnds` and
`ChatEnds` save any of them again (`SaveCopies`), whatever was decided meanwhile.
`turn` is held by the inventory rules between two suppliers, which is the one place
where a run on the rules is more than a step.  `PostOrder`, `PostCampaign` and `PostShifts` are the posts with
their merging of drafts; `RulesOrder` to `RulesPrice` and `ModelOrder` to
`ModelRecord` the runs that make them; `HttpResolve` decides any card on file and
`ChatResolve` an open one, and both apply in the same step, or fail to.
`told` and `applied` are history.

**Toolbox** is one run in the tool loop: `turn` holds the calls of the turn under
way (asked, running or done), `results` the answers of the turns before, `cache`
the answers of reads, `claimed` the keys taken, `placed` the drafts on the
platform, `world` what each read would list now, which changes while reads run.
`Ask` is a turn of the model with its budget and `AskPlanned` the scripted loop;
`Begin` is a call up to its request: cache, policy, arguments from earlier reads
(`Hydrated`), skipping (`Skipped`), claim; `EndRead`, `EndDraft` and `EndNotify` the
answers, in any order.  A call may bring a list of which the tool keeps nothing
(`junk`): `Skipped` sees that there is a list, and the tool of a roster posts what is
left of it.  `EndTurn` hands the answers to the model.  `Evidence` is what
`ops_contract` puts on the cards of an order.

**Signals** is a store's kitchen and what is concluded from it.  `orders` are its
orders, `now` the clock in half hours, `run` a pricing evaluation between its two
reads, on the rules or behind the tool's gate, and `decided` what it concluded and
met.  `CountActive` and `CountRecent` are the reads, which re-date the live tickets
of the demo database (`Refreshed`); orders arrive and leave between them, and reads
fail on the live platform.  Of the other stores it has the closed orders of the same
guests (`here`, `ArriveElsewhere`), which a request for one guest's orders returns too.
The other algorithms are operators on the state of the store: the series of the
backend (`DailyCounts`) and the forecast (`Wma`), the churn segment in its two ways
(`SqlSegments`, `PagedSegment`), `PeriodDay`, `TopSets` and `SlowSets`, `OnShift`.

**Front** is the way of a manager's message to a run and back: `hits` of the limiter,
`cache` of the store registry and the `catalogue` it caches (`fetched`: whether it ever
did, in this process), the requests `req`, and
one session in `mem` and `redis`, with the expiry of its entry.  A request is
`Arrive` (the middleware), `CheckCached` or `AskCatalogue` and `EndFetch` (the store
check, over the await of its fetch), `LoadHistory`, then `EndRun` or `FailRun`, or
`TurnAway` for a message the guardrails stop.  Any call to Redis may fail.
`admitted` and `talk` are history.

The `MC` modules hold the symmetry sets.  `ProposalStoreProofs`, `RunLogProofs`,
`AgentRunProofs`, `EffectsProofs`, `ToolboxProofs`, `SignalsProofs` and `FrontProofs`
hold the theorems, and `NaturalSets` the lemmas on least elements, repeated steps and
sums that four of them cite.  Each definition marked *Mutant* is a slip the code could have
had: it stands beside the definition it would replace, is used by no specification,
and shows that the property named for it in `PROJECT.json` can fail.

How they compose: ProposalStore refines CardBoard.  The others meet at small
interfaces, each abstracting the neighbour it does not model: AgentRun sees of the
queue its open cards, Effects the statuses a decision needs, Toolbox of the claims
whether a key is taken in its run, and ProposalStore of a run which cards it makes.

## Runs

| Run | Instance | Shows |
|---|---|---|
| `queue` | 2 runs, 2 cards, 2 decisions, demo mode, appends succeed | A run with a store leaves open only its own cards (`CommitLeavesOnlyItsCards`) and never closes one it saved (`OwnCardsSurvive`); superseding spares decisions; the chat tools decide open cards only |
| `queue_crash` | 1 run, 1 card, live platform, 2 failed appends or loads, 2 crashes | Two loads and everyone's writes interleave line by line: `AnswersOnFile`, the refinement `DurableCards`, the liveness `AgedCardsClose` |
| `queue_expire` | 1 run, 1 card | Finding: the thread expires a card that was decided |
| `drafts` | 2 runs of the inventory agent, 2 suppliers, budget 2, the circuit opens at the first failure, 1 failed request, 1 new hour, 1 crash | `OneDraftPerKey` and `NoTwinCards` whichever runs and paths compete; `FallbackDraftsHaveCards`; `CircuitStaysOpen`; a run always comes nearer its end (`RunsAdvance`) and is never stuck (`NoRunHangs`) |
| `drafts_blank` | 1 run, 1 supplier, nothing fails but the model | Finding: the order of a failed model has no card, and the rules skip its supplier |
| `runlog` | 3 runs, 2 agents, 1 failed append, 1 failed load, 2 restarts, 1 edit, 2 deletions | The chain verifies, an edit shows, the report matches the file, the registry's last run is the newest |
| `effects` | 2 stores, 2 suppliers, 1 slot, 1 item, 2 days, 3 posts, at most 2 cards for rows and 2 of one other kind, 2 decisions of a kind | One draft per purpose and day (`OneDraftPerDay`), every row that left draft has its decision (`HumanInTheLoop`), one row a decision, no booking and no price beyond what was approved, and a decided row moves again only where a card was decided over HTTP or saved from a copy (`DecidedStays`) |
| `effects_apply` | 1 store, 1 item, 1 card, 1 decision | Finding: an approved price card of the rules is answered as applied and changes no price |
| `toolbox` | one run of each agent, 1 row, 2 wordings of a read, budget 3, turns of 2 | Nothing empty is placed, but a roster of a list the tool kept nothing of, and drafts and evidence stand on what the run read |
| `signals` | 2 guests, 3 items, up to 3 orders here and elsewhere, the clock from 5 to 6, rosters of up to 5 staff and 5 slots | A discount means a quiet kitchen (`DiscountMeansQuiet`) and spares what sells (`DiscountSparesSellers`); where the two ways of the churn segment differ and why (`SegmentsAgree`); the backend's series and its forecast, the brief and the roster |
| `front` | 2 clients, 2 stores (one opens later), 3 requests, budget 1, window 2, history of 3, clock to 2 | `WindowBound`, `RefusalsDeserved`, `VerdictsOnceFetched`, `HistoryFollowsTalk` |
| `front_blocked` | 1 client, 2 stores, 2 requests, budget 2, clock to 1 | Finding: after a first fetch that failed every store is refused |

### Bounds

`MaxCards`, `MaxNow`, `MaxTime`, `MaxFaults`, `MaxRestarts`, `MaxEdits`,
`MaxDeletes`, `MaxPosts`, `MaxDecisions`, `MaxSeed` and their like bound how often
the environment acts or how much there is, never what the code does.  No run
checks deadlock: the bounds let every instance come to rest.

* **Queue.**  Two cards and two runs are enough for every conflict the queue has:
  a card of the run and one of another run, a chat and the specialist it calls, a
  decided card and a newer one; the actors that are not counted (console, chat
  tools, expiry thread, boot sweep) are always there.  `queue` has the boot sweep,
  which reads the file before the expiry thread is started, and neither a crash nor a
  failure; a load of a file as it was at the boot comes to each card once, so its `VIEW`
  leaves out `older`, which nothing reads again.  `queue_crash` is of the live platform,
  where both threads load.  It has one card, because its liveness does not scale to
  two: two failures and two crashes give every order of failed append, failed load, cut
  off line and rewrite of that card, and what one card does to another is the theorem's
  (`ImplementsCardBoard`).  `CommitLeavesOnlyItsCards`, `OwnCardsSurvive`,
  `SupersedeSparesDecisions` and `ChatDecidesOpenCards` are checked in demo mode, and
  proved there: on the live platform the slower of two loads puts earlier lines over
  what was saved, decided or looked at meanwhile.  `AnswersOnFile` and `DurableCards`
  say exactly which cards that can happen to.  That a decision is spared when the list
  was taken before a boot that met an old file is hardly exercised by TLC; the theorem
  covers it.
* **Runs.**  Two runs over two suppliers give each race for a claim (two tools of
  a turn, the same call twice in a turn, a tool and the rules of another run, a retry)
  beside a claim nobody contests; one tick crosses the boundary of the hour with requests in flight.  The
  circuit opens at the first failure (`OpenAfter` is a constant; the code has 3), so that one run trips it and the next one meets it open.  A
  claim lasts six ticks, an hour being one.
* **Effects.**  Two suppliers and two stores give each way a draft can be taken for
  another (by supplier, store or purpose), two days the draft of yesterday beside
  that of today, and three posts a replaced draft, its successor and a decided row.
  Two cards for orders and campaigns give a card with the id of its row beside one
  without.  Two decisions of a kind give approve and reject, in either order, also of
  one card that was saved again from a copy in between.  Cards of
  orders and campaigns interact only with each other, and so do those of each other
  kind, except where the limit on open cards supersedes them; `MaxKinds` keeps the
  run to one of the other kinds at a time.
* **Toolbox.**  A budget of three in turns of two gives a turn cut by the budget, two
  calls that overlap, and a turn that builds on both.  One row makes each list
  empty or not, which is all the code asks of it; two wordings give a repeated
  read and a second read of the same tool, whose answers may disagree.
* **Run log.**  Two restarts give a load of a file that a load had failed on; a
  failed load stops after any number of rows.
* **Signals.**  The thresholds of the pricing signal are scaled down to 2 and
  `MinOrders` to 1 (2 in the code), so that three orders cross each of them: a guest
  has enough closed orders or none, here or elsewhere, inside the lookback or outside.
  A limit of one guest cuts the query's segment of two.  The clock starts a day in, so
  that the series, the lookback and the inactive window all have orders outside them
  and inside.  Five staff and five slots cover a pool below, at and above the four
  slots of a day.
* **Front.**  A budget of one with three requests gives an admission, a refusal and
  an admission after the window has passed, for one client beside another.  Three
  requests of one session overlap in every order of load, run and persist; the
  history of three drops turns from the second exchange on.

### Fairness

`AgedCardsClose`: a handler on the loop, once begun, runs on (it has no await to
be parked at); the scheduler fires the sweep again and again and its thread, once
begun, runs on.  A load goes on line by line, and comes to the end of the file though
others append to it meanwhile (strong fairness of `EndLoad`: reading a line takes
microseconds, and the handlers that append one are a decision or a run apart).  Nothing
is assumed of runs, of managers or of the environment.  It is the one temporal
liveness property.  That a run ends is said without fairness: `NoRunHangs` says that a
run that has started can take a step, and `RunsAdvance` that each step, in a
well-founded order, brings its end nearer; that it does take the step is the time limit
of its awaits, 45 s for a turn of the model (`asyncio.wait_for`) and 20 or 30 s for a
request (the `httpx` client).  Effects, Toolbox, Signals and Front state safety only:
what must eventually happen in them is either a person's doing or a run's.

## Proofs

`tlapm` checks every theorem for all values of the constants that the named
assumptions allow.  These (`ConstantsAssumption`, `LogAssumption`,
`AgentAssumption`, `EffectsAssumption`, `ToolboxAssumption`, `FrontAssumption`, and
`ThresholdAssumption`, `TimeAssumption`, `BoundAssumption` of Signals) say that
sentinels differ from what they stand beside, that the statuses a manager gives
are not those the service gives, and that bounds are numbers.  Three say more:
`Inactive <= Lookback` and `MinOrders` at least 1 in Signals (14 and 60 days, and
2, in the code), and `Budget` at least 1 in Front.  Every safety property a passing
run checks, invariant or action property, is a theorem; where one needs more than the
named assumptions, its `ASSUME` says what, and the text below why.  The one exception
is `NoRunHangs`, which is about `ENABLED`.

**ProposalStoreProofs**

* `TypeCorrect`: `TypeOK` strengthened to `TypeInv`, since the sweep's work list
  must hold known cards only (it resolves what it listed, and a resolve of an
  unknown card writes nothing), a commit must name its run, and a thread that loads has
  still to come to cards on file only (`LoadOK`).
* `AnswersSurvive` and `ImplementsCardBoard` assume nothing more: any number of cards,
  failures and crashes, with or without a boot sweep, and both threads anywhere in a
  load.  `DurableInv` adds that a card held between the two halves of a resolve is
  known, so that a row is never created by a resolve, and `MemoryOnFile`: what memory
  holds of a card that is not at risk is its last row on file, or nothing while no load
  has begun.  Each step maps to `Put`, `SetBack`, `Doubt` or a stutter of `CardBoard`;
  a line that a load reads changes only a card it has still to come to, and sets it to
  a row of its own.
* `DecisionsAreSpared`, `CommitClears`, `OwnCardsAreKept` and `ChatSparesDecisions`
  assume `DemoMode`.  There the boot sweep lists the queue before the expiry thread is
  started, so that no load is left to begin or to end when somebody writes
  (`WarmInv`).  The assumption is needed: on the live platform, which has no boot
  sweep, the thread and the loop may both be loading, and the slower of the two puts
  earlier lines over what was saved or decided meanwhile.  Appends and loads may fail
  and the process may restart in all four.
* `SpareInv` adds that whatever the loop is about to close by superseding is not
  decided now (`ClosingOpen`): the list was taken in the same handler, and only the
  expiry thread can have touched a card since, which gives no decision.
* `LeaveInv` follows the tail of a run (`TailInv`): what it has saved bears its run as
  long as it is open (`SavedInv`), and what is open of another run is on the list it
  works off (`StaleInv`).
* `OwnInv` and `ChatInv`, in `KeptInv`, follow a card from the moment it is saved, or
  looked at by the chat, to the moment the handler ends.

**RunLogProofs**

* `ChainHolds`: `ChainInv` says that the tip in memory, once loaded, is the hash
  of the last row on file; a new row is chained to it either way.
* `EditsShow`: `EditInv` says that every row on file carries the hash of its
  content before any edit, whatever was cut off around it; hashes of different
  contents differ.
* A load that fails (`Misread`) leaves a beginning of the file in memory: `LastRunHolds`
  holds after it as well, while `ChainHolds` and `ReportHolds` speak of logs whose loads
  succeeded.
* `LogTyped`, `LastRunHolds` and `ReportHolds` speak of the rows a file is read into,
  which skips the lines that do not parse.  The model says which positions are
  readable and takes the elements there (`Selected`, `Rank`), and lemmas say how that
  grows with the sequence.  `LastInv` says that the registry's row of an agent without
  a run in flight is its last chained row, in memory and, before the load, on file;
  `ReportInv` that without a failed append and without a deletion every line on file
  is whole and the chained rows in memory are those lines.

**AgentRunProofs**

* `TypeCorrect`: `TypeInv` adds that the cards a run holds are cards that were
  made, which is what its tail puts in the queue.  What a run asks for is a number of
  calls for each target.
* `RunsComeToAnEnd`: every step of a run is a step down (`StepAdvances`), by phase,
  then by calls left of the budget, calls to begin and answers to wait for; nobody else
  changes a run but a crash, which ends it.
* `DraftsAreUnique`, assuming `Ttl >= Window`: `ClaimInv` says that a key with a
  draft, or with a request in flight, stays claimed until its bucket is over,
  and that a request in flight is of one run only and has not been carried out.
  After the bucket nobody makes the key again, so it does not matter that the
  claim expires.  The assumption holds for keys by the hour and fails for those by
  date (campaigns and rosters), whose claims last six hours of the day; what
  keeps those apart on the demo platform is `DraftsAreReplaced` below.
* `NoTwins`, assuming in addition that the agent is inventory or churn: `TwinInv` says
  that a card of this life stands for a key that is claimed and whose request is over.
  The rules of the other two agents make cards for keys they never claimed, and TLC
  finds two open cards of one key there.
* `RulesLeaveCards`, assuming the agent is not churn: `CoverInv` says that each
  draft the rules have placed has a card the run holds until its tail saves it.
* `OpenCircuitSticks`: the only step that clears the count is `ModelEnds`, which
  needs a run in the loop, and `StartRun` lets none in while the circuit is open.

**EffectsProofs**, from one invariant `EffectsInv`

* `DraftsAreReplaced` (`RowsInv`): rows that are drafts of one store, purpose and
  day are one row.  A post looks for that row before it creates another, and a
  decision never makes a draft.
* `HumansDecide`, `DecisionsMoveOneRow` and `DecisionsStand` rest on `Orderly`,
  which relates rows, cards and the turn of the inventory rules: the row a card
  carries is of its kind and store (`Linked`); it is a draft as long as the card is open,
  unless a card of its kind and store was decided over HTTP or saved again from a copy
  (`AgainSeen`, `Carried`); and without those two, no two cards that can be decided
  carry one row (`Distinct`), and the open cards of a kind and store are all of the
  rules or all of the model (`OnePath`), which is what rules out that the decision on a
  card without an id takes the row of another.  So `DecisionsStand` does not say that a
  decision stands: it says that only these two ways lead out of it, and that even then
  the card that does it carries the row's id.  Copies are of cards on file
  (`CopiesInv`), and saving them keeps `Orderly` (`SaveCopiesOrderly`), since a card
  that was saved from a copy is `again`.
* `BookingsAreApproved`: a slot never has two drafts (`PlatformInv`), so that an
  approval confirms at most one row of it.
* `PricesAreCapped`: a decision moves a price by at most the caps and rounds it to the
  cent, which is one step of `Highest` and of `Lowest`; the one never falls and the
  other never rises, so that an item that is not on the card stays between them too.
  `Highest` and `Lowest` are recursive functions on the naturals; that they exist and
  are natural numbers comes from `Iteration` and `IterationStays` below.
* `EffectsTypeCorrect`: `TypeOK` with `Linked`, since a card names a row on file.

**ToolboxProofs**, from one invariant `ToolboxInv`

* `RunsStayInBudget`: `BudgetInv` says that the answers and the calls under way are
  as many as were asked for, up to the budget, and `CardsInv` that answers refer to
  cards of the run.
* `EmptyDraftsAreSkipped`: `FilledInv` says that a draft that needs rows has them
  from the moment it begins, or is a roster of a list the tool kept nothing of
  (`junk`), which the code does place.
* `DraftsAreGrounded`: `ReadsInv` says that answers, those in the cache too, were
  listed by a read of the run, and that a call uses rows the model named or such
  rows.

**SignalsProofs**

* `DiscountIsQuiet`: `QuietInv` says that what the first read counted still bounds,
  at the second read, the live tickets from before it, because in a live store they
  only close, and in a demo no ticket arrives.  An evaluation one of whose
  reads failed is excepted, as in the property.
* `SegmentsDoAgree`, `BriefHasTickets` and `SellersAreSpared` are facts about the
  algorithms, for every state of the store of the right type.  A guest the requests give
  has no closed order within the time of inactivity, since the lookback holds it, and
  is one the query finds if the store has enough orders of theirs; where the two differ
  otherwise, the limit, a guest who was not asked about, the lookback or an order at
  another store is the reason; a brief goes back to the last day with tickets; an item a report leaves out sold no more
  than those it lists.
* `SeriesAreComplete`: a fold over a set is the function that adds up its parts element
  by element (`Sums`).  `SumOfCounts` says that a set counted by a key is counted
  completely, here the orders by their day; `MeanBetween` that a weighted mean, rounded
  down, lies between the least day and the greatest, for any weights but zeros, the
  caller's or the default ones.
* `RostersAreFair`: people take the places of a roster in turn (`Turn`), each turn is
  one place (`TurnUnique`) and none is left out (`TurnReached`).  So between two
  shifts of one person everyone else has one, and two places of slots in a row are
  fewer than four turns apart, which are different people when there are four.

**FrontProofs**

* `WindowBoundHolds`: `LimiterInv` says that a client's queue of hits is the end of
  the list of its admitted requests, and that the rest of that list is out of the
  window (`Accounts`).  Times do not decrease, so `Budget + 1` requests in a window
  would all be in the queue when the last was admitted, which refuses it.
* `RefusalsAreDeserved`: from `LimiterInv`, the queue of a refused client is a list
  of `Budget` admitted requests of the window.
* `VerdictsHoldOnceFetched`: `StoreInv` says that the cache is empty or a catalogue of
  some earlier time, that it is not empty once the catalogue was fetched, and that the
  answer a request carries across its fetch is such a catalogue.
* `HistoryIsTheTalk`: `TalkInv` says that memory and Redis hold turns of the talk in
  their order, the latest ones unless a call to Redis failed, and all that are kept
  while the session has not expired, its expiry being counted from the last turn.
* `FrontTypeCorrect` is the type invariant those proofs use.

**NaturalSets** starts from the library's theorem that a well founded order has
minimal elements.  Where a proof would go by induction, it takes a least
counterexample instead, which needs no operator as a parameter.  Least and greatest
elements are cited for the newest draft, the last day and the last of a sequence;
`Iteration` says that a step can be repeated any number of times, and `Summation` that
the sum of a function over a finite set exists, which is what makes the equations of a
recursive function and of a fold available to a proof.

Only model-checked: the liveness property `AgedCardsClose` and the invariant
`NoRunHangs`, since fairness and `ENABLED` are out of reach of the prover.  The four
findings are counterexamples, which TLC finds and a proof does not.

## Abstractions

**ProposalStore.**  Cards are numbered in the order of `created_at`; all are of one
store, because every filter of the queue is by store.  A load comes to the earlier
lines of a card in any order, which allows more than the code does, and to its last
line once; it reads the file as it was when it was opened and the lines appended since.
A load that meets a cut off line at the end does not see the row later joined to it.  A
cut off line that lacks only its newline is not distinguished from one that cannot be
read.  What the apply hooks do to the platform does not come back
to the queue and is left to Effects.  Review ids and snapshot agents are the
groups of cards that may supersede one another.

**AgentRun.**  The queue is the set of open cards, whose own steps are those of
`ProposalStore`, and the targets are of one store.  Tools that only read, and
drafting tools refused for their arguments, use up the budget and nothing else.
A status other than 200 or 201 means that the platform did nothing; an exception
leaves open whether it did.  A manager who cannot be notified of a draft is the
exception after it.  A quiet signal ends a run as an answer without calls does.
The clock moves in ticks, and a claim expires on one.  The rules of the shift
agent make one card of all they drafted, which is one store's.

**Effects.**  The demo platform answers without suspending, so a run on the rules is
one step; the inventory rules are a step per supplier, to let a crash come between,
and nothing else runs meanwhile.  The lines of an order, the guests of a campaign
and notifications are left out.  Claims are not kept: their hour may have passed, which
allows more than the code does.  Who holds a copy of a card is not kept either: any
number of chats and runs may, and save it at any later time.  Prices are in cents and rounded to the nearest, either way in a tie,
which the error of a floating point product decides.  Applying may fail before it
did anything, never halfway, since each decision is one transaction.

**Toolbox.**  A row stands for what a read lists and a draft is made of; the agent's
reads and drafts have short names (`low` for the items low in stock, `order` for a
purchase order).  Quantities, texts and the parsing of the model's answer are left
out: the model may ask for any calls, with a list or without, and with one of which
the tool keeps nothing.  A duplicate is answered without a card,
the card it may be answered with being AgentRun's subject.

**Signals.**  One store, and of the others the closed orders of its guests; half an
hour is the unit of time and of the reading window.  The rate of orders and money are
left out of the reports: items rank by what was sold over all time, which is
what the report counts though its text says today, and the query's limit takes any guests, since
what they spent is not kept.  Every order has a date, and a series that ended in an
exception is the empty one.  A backend without daily counts has its pages counted by the
tool (`ops_tools.py:478-514`); that series may lack whole pages and undated rows, so
that nothing can be claimed for it, and it is not modelled.  The demo backend ignores
`page`.  Its own forecast raises the weighted mean to ten and adds a buffer.  A seeded
history is any sequence of orders that could have come about by the start.  The rates
of the pricing suggestion are two directions.

**Front.**  A client stands for a key and its tier.  A key keeps sixteen characters of
the client's id (`rate_limit.py:110-113`), so clients that share them are one client
here and share its budget.  One session is modelled, because
every entry is by session.  A turn is its place in the talk, so a history is a list
of numbers.  Redis may fail in any call; the entry then keeps what it has.  A run
ends with an answer or fails, its inside being AgentRun's.

## What the code does that no run reports

These were met while modelling.  The models allow them, or leave out the part named:

* the tail of a run or a chat saves the PENDING copies its tools returned, so a card
  decided meanwhile, in that very chat too, is open again and can be decided the other
  way.  `DecidedStays` does not exclude it: it names this as one of the two ways in
  which a decision is undone.  `OneRowPerDecision` and `HumanInTheLoop` bound what the
  second decision does to the platform;
* a load that begins on one thread before the other's has ended puts the earlier lines
  of a card over its later ones, until it comes to its last, though
  `proposal_store.py:231` says "later lines win (including resolve events)"; on the live
  platform a save or a decision made meanwhile is hidden by it;
* a load of the run log that fails counts as done and leaves the tip at its start, so
  the next row breaks the chain though nobody touched the file; `ChainVerifies` speaks
  of logs whose loads succeeded;
* the rules of the churn agent ask for guests with `filter=CHURN_RISK`
  (`churn_prevention_agent.py:134`), which the demo backend does not know: it answers
  with all customers, and all of them are written to;
* a daily series the tool counts page by page ends at a page that fails and at the
  twentieth, and skips rows without a date, and is then taken for the whole
  (`ops_tools.py:481-502`);
* the tool of a roster drops the lines that are no objects after the check for an empty
  list (`ops_tools.py:1162`), and posts an empty roster with a card;
* the resolve route of the API replaces an earlier decision;
* the rules of the churn agent draft a campaign and make no card for it, and their
  run supersedes the cards there were;
* the stub of a finished run is not removed, so the registry goes on to show the run
  in flight, and with fifty recorded runs it shows no stub at all;
* deleting the log under a running process leaves a tip that the next row is chained
  to, so the new file's chain is broken at its first row;
* a pricing evaluation that could not read the orders may suggest a discount;
* a roster for a pool of fewer than four books overlapping shifts.

## Plan

Done: `ProposalStore`, `CardBoard`, `RunLog`, `AgentRun`, `Effects`, `Toolbox`,
`Signals`, `Front`, each with its proofs.  What is left, in this order:

1. the cards of a run whose save a load may undo on the live platform, named as
   `AnswersOnFile` names those at risk, so that `OwnCardsAreKept` needs no `DemoMode`;
2. a run of `AgentRun` under the date keys of campaigns and rosters, with the
   platform of `Effects` instead of its count of drafts;
3. the pages of orders a daily series is counted from where the backend has none;
4. the support chat, once its sessions are kept by code of the repository;
5. the review consumer, if its loop gains state (a retry, a reconnection).

## Not modelled

* **Review consumer**: its loop reads one message after the other and ends at the
  first exception; a model would restate the `except` clause.  What a message
  starts is a run, which is modelled.
* **Support chat**: its sessions live in the memory service of the agent library and
  its tools are single requests to the backend.
* **Guardrails, identity, auth**: regular expressions and token decoding, functions of
  one string.
* **Order, location, data services and knowledge search**: lookups, distances and
  embeddings, with no state that two actors share.
* **Agent metrics**: counters that nothing reads back into a decision.
* **Series counted page by page**: see Signals under Abstractions.
* **Hourly forecast heuristic, order quantities, scores, labels and all texts**:
  floating point and wording, which no property is about.
* **Configuration, logging, the seed script, the console and the frontend**: parsing,
  formatting and user interface.
