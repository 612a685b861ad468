------------------------------ MODULE AgentRun ------------------------------
(***************************************************************************)
(* Runs of one ops agent that drafts something on the platform:            *)
(* AgentRuntime.run with its two paths, the tool loop of the model and the *)
(* rule fallback, over the idempotency claims, the circuit breaker and the *)
(* card queue.  A draft is a purchase order, a campaign, a roster or a     *)
(* price notification; its targets are the suppliers of a store, or the    *)
(* one store of an agent that drafts per store.                            *)
(*                                                                         *)
(* A step is what runs between two awaits.  Abstracted: reading tools, a   *)
(* propose call refused for its arguments (both only use up the budget),   *)
(* what a draft contains; the queue is the set of cards that are open (its *)
(* own steps are those of ProposalStore).                                  *)
(***************************************************************************)
EXTENDS Naturals, Sequences, Functions

CONSTANTS
  Agent,        (* which agent runs                                        *)
  Targets,      (* what it drafts for                                      *)
  Runs,         (* its runs, each used once                                *)
  PreferModel,  (* ops_prefer_llm(): a key is configured                   *)
  MaxCalls,     (* OPS_MAX_TOOL_CALLS                                      *)
  OpenAfter,    (* _OPEN_AFTER: failures that open the circuit             *)
  Window,       (* ticks of the clock in a bucket of the key               *)
  Ttl,          (* ticks a claim lasts                                     *)
  MaxNow,       (* bound: ticks                                            *)
  MaxFaults,    (* bound: requests to the platform that fail               *)
  MaxRestarts   (* bound: crashes                                          *)

Agents    == {"inventory_reorder", "churn_prevention", "shift_optimisation",
              "dynamic_pricing"}
Lives     == 0 .. MaxRestarts
Ticks     == 0 .. MaxNow
Keys      == [target : Targets, began : Ticks]

ASSUME AgentAssumption ==
  /\ Agent \in Agents /\ PreferModel \in BOOLEAN
  /\ MaxCalls \in Nat \ {0} /\ OpenAfter \in Nat \ {0}
  /\ Window \in Nat \ {0} /\ Ttl \in Nat \ {0}
  /\ MaxNow \in Nat /\ MaxFaults \in Nat /\ MaxRestarts \in Nat

VARIABLES
  now,       (* the clock                                                  *)
  began,     (* the tick the current bucket began at                       *)
  claims,    (* _store of idempotency: when the claim of a key expires     *)
  failures,  (* _failures of the circuit                                   *)
  drafts,    (* drafts[l][k]: drafts with key k placed in life l           *)
  minted,    (* the cards made so far, oldest first                        *)
  saved,     (* those that reached the queue                               *)
  open,      (* those that are open in it                                  *)
  runs,      (* the runs                                                   *)
  life,      (* crashes so far                                             *)
  faults     (* requests that failed so far                                *)

clock == <<now, began>>
queue == <<minted, saved, open>>
vars  == <<clock, claims, failures, drafts, queue, runs, life, faults>>

Ended == {"done", "error", "lost"}
Phase == Ended \cup {"new", "model", "listing", "rule"}

(* asked: for each target, the calls of this turn not begun, or the visits *)
(* the rules have still to pay; posting: requests in flight; cards:        *)
(* proposals so far; low: what the rules found to draft for; placed:       *)
(* drafts the rules have placed.                                           *)
Run == [phase : Phase, focus : BOOLEAN, rules : BOOLEAN, calls : Nat,
        asked : [Targets -> Nat], posting : SUBSET Keys, cards : SUBSET Nat,
        low : SUBSET Targets, placed : SUBSET Keys]

None == [t \in Targets |-> 0]

NewRun == [phase |-> "new", focus |-> FALSE, rules |-> FALSE, calls |-> 0,
           asked |-> None, posting |-> {}, cards |-> {}, low |-> {}, placed |-> {}]

Init ==
  /\ now = 0 /\ began = 0 /\ life = 0 /\ faults = 0
  /\ claims = [k \in Keys |-> 0]
  /\ failures = 0
  /\ drafts = [l \in Lives |-> [k \in Keys |-> 0]]
  /\ minted = <<>> /\ saved = {} /\ open = {}
  /\ runs = [r \in Runs |-> NewRun]

-----------------------------------------------------------------------------
(* Where the agents differ                                                 *)

(* The inventory rules claim what they draft, with the key of the tool.    *)
RulesClaim == Agent = "inventory_reorder"

(* The rules make a card for a draft the platform accepted; pricing makes  *)
(* one whatever the notification came to, churn makes none.                *)
RulesCard(answer) ==
  \/ Agent = "dynamic_pricing"
  \/ Agent \in {"inventory_reorder", "shift_optimisation"} /\ answer = "ok"

(* What a tool answers to a duplicate: the newest open card of the agent;  *)
(* the pricing tool answers none.                                          *)
LatestOpen == {i \in open : \A j \in open : j <= i}
Duplicate  == IF Agent = "dynamic_pricing" THEN {} ELSE LatestOpen

-----------------------------------------------------------------------------
(* Claims                                                                  *)

Key(t)     == [target |-> t, began |-> began]
Claimed(k) == claims[k] > now
Claim(k)   == claims' = [claims EXCEPT ![k] = now + Ttl]

-----------------------------------------------------------------------------
(* Requests and cards                                                      *)

(* What comes of a request: whether the platform carried it out, and the   *)
(* answer.  After a lost answer, or when notifying the managers of a draft *)
(* fails, the caller sees an exception although the draft is there.        *)
Outcome == {o \in [placed : BOOLEAN, answer : {"ok", "refused", "raised"}] :
              /\ o.answer = "ok" => o.placed
              /\ o.answer = "refused" => ~o.placed}

Faulty(o) ==
  /\ faults + (IF o.answer = "ok" THEN 0 ELSE 1) <= MaxFaults
  /\ faults' = faults + (IF o.answer = "ok" THEN 0 ELSE 1)

Place(k, placed, keyed) ==
  drafts' = [drafts EXCEPT ![life][k] = @ + IF placed /\ keyed THEN 1 ELSE 0]

Mint(r, k, made) ==
  minted' = IF made THEN Append(minted, [run |-> r, key |-> k, life |-> life]) ELSE minted
MintedNow(made) == IF made THEN {Len(minted) + 1} ELSE {}

-----------------------------------------------------------------------------
(* A run                                                                   *)

Become(r, fields) == runs' = [runs EXCEPT ![r] = fields]

(* A run that is over keeps nothing but what the properties look back at.  *)
Over(run, phase) == [run EXCEPT !.phase = phase, !.calls = 0, !.asked = None,
                                !.posting = {}, !.cards = {}]
Idle(r) == runs[r].asked = None /\ runs[r].posting = {}

Asked(r)      == {t \in Targets : runs[r].asked[t] > 0}
Without(f, t) == [f EXCEPT ![t] = @ - 1]
Once(S)       == [t \in Targets |-> IF t \in S THEN 1 ELSE 0]

AllowModel == failures < OpenAfter

(* Mutant: allow_llm lets one run more through.                            *)
StartRunLate(r) ==
  /\ runs[r].phase = "new"
  /\ \E focus \in BOOLEAN :
       \/ /\ PreferModel /\ failures <= OpenAfter
          /\ Become(r, [runs[r] EXCEPT !.phase = "model", !.focus = focus])
       \/ /\ ~(PreferModel /\ failures <= OpenAfter)
          /\ Become(r, [runs[r] EXCEPT !.phase = "listing", !.focus = focus, !.rules = TRUE])
  /\ UNCHANGED <<clock, claims, failures, drafts, queue, life, faults>>

(* AgentRuntime.run up to its first await; a run of the whole fleet has no *)
(* store_id.                                                               *)
StartRun(r) ==
  /\ runs[r].phase = "new"
  /\ \E focus \in BOOLEAN :
       \/ /\ PreferModel /\ AllowModel
          /\ Become(r, [runs[r] EXCEPT !.phase = "model", !.focus = focus])
       \/ /\ ~(PreferModel /\ AllowModel)
          /\ Become(r, [runs[r] EXCEPT !.phase = "listing", !.focus = focus, !.rules = TRUE])
  /\ UNCHANGED <<clock, claims, failures, drafts, queue, life, faults>>

(* Mutant: a turn counts for one call, however many it makes.              *)
ModelCallsUncounted(r) ==
  /\ runs[r].phase = "model" /\ Idle(r)
  /\ runs[r].calls < MaxCalls
  /\ \E f \in [Targets -> 0 .. MaxCalls] : Become(r, [runs[r] EXCEPT !.asked = f])
  /\ UNCHANGED <<clock, claims, failures, drafts, queue, life, faults>>

(* Mutant: the calls beyond the budget are not dropped.                    *)
ModelCallsOver(r) ==
  /\ runs[r].phase = "model" /\ Idle(r)
  /\ runs[r].calls < MaxCalls
  /\ \E n \in 1 .. MaxCalls + 1, f \in [Targets -> 0 .. MaxCalls] :
       /\ SumFunction(f) <= n
       /\ Become(r, [runs[r] EXCEPT !.calls = @ + n, !.asked = f])
  /\ UNCHANGED <<clock, claims, failures, drafts, queue, life, faults>>

(* The model answers with n calls; those beyond the budget are dropped,    *)
(* the others are gathered.  f: how many of them ask for a draft for each  *)
(* target, the same call twice included.                                   *)
ModelCalls(r) ==
  /\ runs[r].phase = "model" /\ Idle(r)
  /\ runs[r].calls < MaxCalls
  /\ \E n \in 1 .. MaxCalls + 1 - runs[r].calls, f \in [Targets -> 0 .. MaxCalls] :
       /\ SumFunction(f) <= n
       /\ SumFunction(f) <= MaxCalls - runs[r].calls
       /\ Become(r, [runs[r] EXCEPT !.calls = @ + n, !.asked = f])
  /\ UNCHANGED <<clock, claims, failures, drafts, queue, life, faults>>

(* Mutant: the answer to a duplicate is a new card.                        *)
BeginCallMinting(r) ==
  /\ runs[r].phase = "model"
  /\ \E t \in Asked(r) :
       LET k == Key(t)
           begun == [runs[r] EXCEPT !.asked = Without(@, t)]
       IN  IF Claimed(k)
           THEN /\ Mint(r, k, TRUE)
                /\ Become(r, [begun EXCEPT !.cards = @ \cup MintedNow(TRUE)])
                /\ UNCHANGED claims
           ELSE /\ Become(r, [begun EXCEPT !.posting = @ \cup {k}])
                /\ Claim(k) /\ UNCHANGED minted
  /\ UNCHANGED <<clock, failures, drafts, saved, open, life, faults>>

(* A draft tool up to its request: it claims, or answers a duplicate.      *)
BeginCall(r) ==
  /\ runs[r].phase = "model"
  /\ \E t \in Asked(r) :
       LET k == Key(t)
           begun == [runs[r] EXCEPT !.asked = Without(@, t)]
       IN  IF Claimed(k)
           THEN /\ Become(r, [begun EXCEPT !.cards = @ \cup Duplicate])
                /\ UNCHANGED claims
           ELSE /\ Become(r, [begun EXCEPT !.posting = @ \cup {k}])
                /\ Claim(k)
  /\ UNCHANGED <<clock, failures, drafts, queue, life, faults>>

(* A draft tool from its answer on: it makes a card unless the request     *)
(* raised; invoke_tool turns that into a result without one.               *)
EndCall(r) ==
  /\ runs[r].phase = "model"
  /\ \E k \in runs[r].posting, o \in Outcome :
       LET made == o.answer # "raised" IN
       /\ Faulty(o) /\ Place(k, o.placed, TRUE) /\ Mint(r, k, made)
       /\ Become(r, [runs[r] EXCEPT !.posting = @ \ {k},
                                    !.cards = @ \cup MintedNow(made)])
  /\ UNCHANGED <<clock, claims, failures, saved, open, life>>

(* The tail of a run: its cards are saved as the open copies it holds, and *)
(* with a store every other open card of the agent is superseded.          *)
Commit(r) ==
  /\ saved' = saved \cup runs[r].cards
  /\ open' = runs[r].cards \cup (IF runs[r].focus THEN {} ELSE open)
  /\ Become(r, Over(runs[r], "done"))

(* Mutant: a run that has spent its budget is not ended.                   *)
ModelEndsUnspent(r) ==
  /\ runs[r].phase = "model" /\ Idle(r)
  /\ runs[r].calls < MaxCalls
  /\ failures' = 0
  /\ Commit(r)
  /\ UNCHANGED <<clock, claims, drafts, minted, life, faults>>

(* The model answers without calls, or the budget is spent.  A quiet       *)
(* signal (pre_gate) ends the run in the same way.                         *)
ModelEnds(r) ==
  /\ runs[r].phase = "model" /\ Idle(r)
  /\ failures' = 0
  /\ Commit(r)
  /\ UNCHANGED <<clock, claims, drafts, minted, life, faults>>

(* The model raises or times out: all its results are dropped.             *)
ModelFails(r) ==
  /\ runs[r].phase = "model" /\ Idle(r)
  /\ runs[r].calls < MaxCalls
  /\ failures' = failures + 1
  /\ Become(r, [Over(runs[r], "listing") EXCEPT !.rules = TRUE])
  /\ UNCHANGED <<clock, claims, drafts, queue, life, faults>>

(* The rules list what to draft for; the request may raise.                *)
ListLow(r) ==
  /\ runs[r].phase = "listing"
  /\ \/ /\ \E low \in SUBSET Targets :
             Become(r, [runs[r] EXCEPT !.phase = "rule", !.asked = Once(low), !.low = low])
        /\ UNCHANGED faults
     \/ /\ faults < MaxFaults /\ faults' = faults + 1
        /\ Become(r, Over(runs[r], "error"))
  /\ UNCHANGED <<clock, claims, failures, drafts, queue, life>>

(* Mutant: the rules do not ask whether the key is claimed.                *)
RuleVisitUnguarded(r) ==
  /\ runs[r].phase = "rule" /\ runs[r].posting = {}
  /\ \E t \in Asked(r) :
       /\ Become(r, [runs[r] EXCEPT !.asked = Without(@, t), !.posting = {Key(t)}])
       /\ Claim(Key(t))
  /\ UNCHANGED <<clock, failures, drafts, queue, life, faults>>

(* The rules visit the next target: skip it when it is claimed, or post.   *)
RuleVisit(r) ==
  /\ runs[r].phase = "rule" /\ runs[r].posting = {}
  /\ \E t \in Asked(r) :
       LET k == Key(t)
           visited == [runs[r] EXCEPT !.asked = Without(@, t)]
       IN  IF RulesClaim /\ Claimed(k)
           THEN Become(r, visited) /\ UNCHANGED claims
           ELSE /\ Become(r, [visited EXCEPT !.posting = {k}])
                /\ IF RulesClaim THEN Claim(k) ELSE UNCHANGED claims
  /\ UNCHANGED <<clock, failures, drafts, queue, life, faults>>

(* Mutant: the rules go on after an exception.                             *)
RulePostedSwallowing(r) ==
  /\ runs[r].phase = "rule"
  /\ \E k \in runs[r].posting, o \in Outcome :
       LET made == RulesCard(o.answer) /\ o.answer # "raised" IN
       /\ Faulty(o) /\ Place(k, o.placed, RulesClaim) /\ Mint(r, k, made)
       /\ Become(r, [runs[r] EXCEPT !.posting = {},
                       !.placed = IF o.placed THEN @ \cup {k} ELSE @,
                       !.cards = @ \cup MintedNow(made)])
  /\ UNCHANGED <<clock, claims, failures, saved, open, life>>

(* The rules get an answer.  An exception ends the run without its tail:   *)
(* the drafts are there, their cards are not.                              *)
RulePosted(r) ==
  /\ runs[r].phase = "rule"
  /\ \E k \in runs[r].posting, o \in Outcome :
       LET made == RulesCard(o.answer) /\ o.answer # "raised"
           told == [runs[r] EXCEPT !.posting = {},
                       !.placed = IF o.placed THEN @ \cup {k} ELSE @,
                       !.cards = @ \cup MintedNow(made)]
       IN
       /\ Faulty(o) /\ Place(k, o.placed, RulesClaim) /\ Mint(r, k, made)
       /\ Become(r, IF o.answer = "raised" THEN Over(told, "error") ELSE told)
  /\ UNCHANGED <<clock, claims, failures, saved, open, life>>

RuleEnds(r) ==
  /\ runs[r].phase = "rule" /\ Idle(r)
  /\ Commit(r)
  /\ UNCHANGED <<clock, claims, failures, drafts, minted, life, faults>>

-----------------------------------------------------------------------------
(* Around the runs                                                         *)

(* A manager decides a card, or the expiry closes it.                      *)
Decide ==
  /\ \E i \in open : open' = open \ {i}
  /\ UNCHANGED <<clock, claims, failures, drafts, minted, saved, runs, life, faults>>

Tick ==
  /\ now < MaxNow
  /\ now' = now + 1
  /\ began' = IF now + 1 = began + Window THEN now + 1 ELSE began
  /\ UNCHANGED <<claims, failures, drafts, queue, runs, life, faults>>

(* Claims, circuit and runs are in memory; cards are on file, and requests *)
(* already sent may still be carried out.                                  *)
Posts(r, k) == k \in runs[r].posting /\ (runs[r].phase = "model" \/ RulesClaim)

Restart ==
  /\ life < MaxRestarts
  /\ life' = life + 1
  /\ claims' = [k \in Keys |-> 0] /\ failures' = 0
  /\ \E S \in SUBSET Keys :
       /\ \A k \in S : \E r \in Runs : Posts(r, k)
       /\ drafts' = [drafts EXCEPT ![life] =
                       [k \in Keys |-> drafts[life][k] + IF k \in S THEN 1 ELSE 0]]
  /\ runs' = [r \in Runs |->
                IF runs[r].phase \in Ended \cup {"new"} THEN runs[r]
                ELSE Over(runs[r], "lost")]
  /\ UNCHANGED <<clock, queue, faults>>

-----------------------------------------------------------------------------
(* The specification                                                       *)

RunStep(r) ==
  \/ ModelCalls(r) \/ BeginCall(r) \/ EndCall(r) \/ ModelEnds(r) \/ ModelFails(r)
  \/ ListLow(r) \/ RuleVisit(r) \/ RulePosted(r) \/ RuleEnds(r)

Next ==
  \/ \E r \in Runs : StartRun(r) \/ RunStep(r)
  \/ Decide \/ Tick \/ Restart

Spec == Init /\ [][Next]_vars

-----------------------------------------------------------------------------
(* Properties                                                              *)

(* Every variable keeps its type, and no run counts more calls than the    *)
(* one that made it stop (while calls < max_calls ... if calls > max).     *)
TypeOK ==
  /\ now \in Ticks /\ began \in Ticks /\ life \in Lives /\ faults \in 0 .. MaxFaults
  /\ claims \in [Keys -> Nat] /\ failures \in Nat
  /\ drafts \in [Lives -> [Keys -> Nat]]
  /\ runs \in [Runs -> Run]
  /\ \A r \in Runs : runs[r].calls <= MaxCalls + 1
  /\ minted \in Seq([run : Runs, key : Keys, life : Lives])
  /\ saved \subseteq DOMAIN minted /\ open \subseteq saved

(* While the process lives, at most one draft is placed under a key,       *)
(* whichever runs and paths compete for it: check_or_claim comes before    *)
(* the request, on both paths.                                             *)
OneDraftPerKey == \A l \in Lives, k \in Keys : drafts[l][k] <= 1

(* No two open cards stand for one key: a duplicate is answered with a     *)
(* card that exists, and a run saves a card once.                          *)
NoTwinCards ==
  \A i, j \in open : i # j => \/ minted[i].key # minted[j].key
                              \/ minted[i].life # minted[j].life

(* A run that ended on the rules without an error has put a card in the    *)
(* queue for every draft the rules placed.                                 *)
FallbackDraftsHaveCards ==
  \A r \in Runs : runs[r].phase = "done" =>
    \A k \in runs[r].placed : \E i \in saved : minted[i].run = r /\ minted[i].key = k

(* Once the circuit is open and no model call is under way, no run tries   *)
(* the model again until the process restarts: nothing else clears it.     *)
ModelInUse == \E r \in Runs : runs[r].phase = "model"
Tripped    == ~AllowModel /\ ~ModelInUse
CircuitStaysOpen == [][Tripped => Tripped' \/ life' # life]_vars

(* What changes a run brings its end nearer, and nothing takes it back:    *)
(* the phases follow one another, the budget bounds the turns of the       *)
(* model, and within a turn there is a call less to begin or an answer     *)
(* less to wait for.  The order is well-founded, as TypeOK bounds calls.   *)
Ahead(phase) == CASE phase = "new"     -> 4
                  [] phase = "model"   -> 3
                  [] phase = "listing" -> 2
                  [] phase = "rule"    -> 1
                  [] OTHER             -> 0

Nearer(was, is) ==
  \/ Ahead(is.phase) < Ahead(was.phase)
  \/ /\ is.phase = was.phase
     /\ \/ is.calls > was.calls
        \/ /\ is.calls = was.calls
           /\ \/ /\ is.asked # was.asked
                 /\ \A t \in Targets : is.asked[t] <= was.asked[t]
              \/ /\ is.asked = was.asked
                 /\ is.posting # was.posting /\ is.posting \subseteq was.posting

RunsAdvance ==
  [][\A r \in Runs : runs'[r] # runs[r] => Nearer(runs[r], runs'[r])]_vars

(* A run that started and is not over can take a step, whatever the others *)
(* do: with the time limit of every await (45 s for the model, 20 or 30 s  *)
(* for a request) and RunsAdvance, it ends.                                *)
NoRunHangs == \A r \in Runs :
  runs[r].phase \in {"model", "listing", "rule"} => ENABLED RunStep(r)

(* What docs/AGENT_PLATFORM.md says of a model failure, "rule fallback     *)
(* always runs (never blank ops)": a run that ended on the rules has, for  *)
(* all it found low, a card that reached the queue.                        *)
FallbackIsNeverBlank ==
  \A r \in Runs : runs[r].phase = "done" /\ runs[r].rules =>
    \A t \in runs[r].low : \E i \in saved : minted[i].key.target = t
=============================================================================
