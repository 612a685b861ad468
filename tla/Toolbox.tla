------------------------------ MODULE Toolbox -------------------------------
(***************************************************************************)
(* What the tool loop does with the calls of a model in one run of an ops  *)
(* agent: the policy, the cache of reads, the arguments filled in from     *)
(* earlier reads (hydrate_propose_args), the drafts skipped for want of    *)
(* rows (skip_incomplete_propose), and the evidence put on the cards.      *)
(*                                                                         *)
(* The calls of one turn run concurrently: they begin in order, end in any *)
(* order, and see the results of the turns before.  A row is what a read   *)
(* lists and a draft is made of: an item low in stock, a guest, a day of   *)
(* orders, a figure of the kitchen, a member of staff, a menu item.        *)
(* Abstracted: quantities, texts, and the card of another run that answers *)
(* a duplicate (AgentRun).                                                 *)
(***************************************************************************)
EXTENDS Integers, FiniteSets, Sequences

CONSTANTS
  Rows,        (* what reads may list                                      *)
  Phrases,     (* ways to word the arguments of one read                   *)
  Outside,     (* tools a model asks for that are not its agent's          *)
  NoCard,      (* the result of a call carries no card                     *)
  MaxCalls,    (* the budget of the run                                    *)
  MaxTurn      (* bound: calls asked for in one turn                       *)

ASSUME ToolboxAssumption == 1 \in Phrases /\ NoCard \notin Nat /\ MaxCalls \in Nat /\ MaxTurn \in Nat

Cached  == {"low", "churn", "metrics", "top", "slow", "staff"}     (* DEDUP_TOOLS *)
Reads   == Cached \cup {"wma"}
Drafts  == {"order", "campaign", "forecast", "brief", "price", "roster", "reply"}
Blocked == {"execute"}        (* RiskTier.EXECUTE                          *)
Worded  == Cached \cup {"order", "price"}
Itemised == {"order", "campaign", "roster"}    (* their rows are checked   *)
Tools   == Reads \cup Drafts \cup {"notify"} \cup Blocked

Allowed ==
  [inventory |-> {"low", "order", "notify"},
   churn     |-> {"churn", "top", "campaign", "notify"},
   demand    |-> {"wma", "forecast", "notify"},
   reviews   |-> {"reply", "notify"},
   shifts    |-> {"staff", "roster", "notify"},
   kitchen   |-> {"metrics", "brief", "notify"},
   pricing   |-> {"top", "slow", "price", "notify"}]
Agents == DOMAIN Allowed

VARIABLES
  agent,     (* whose run it is                                            *)
  planned,   (* its calls come from a plan, not from the model             *)
  world,     (* what each read would list now                              *)
  turn,      (* the calls of the turn under way                            *)
  results,   (* tool_results: of the turns before, in the order asked      *)
  cache,     (* dedup_cache                                                *)
  claimed,   (* idempotency keys taken                                     *)
  placed,    (* drafts on the platform                                     *)
  cards,     (* the cards the tools made                                   *)
  asked,     (* calls asked for                                            *)
  seen       (* what reads of this run listed: history, for checking       *)

vars == <<agent, planned, world, turn, results, cache, claimed, placed, cards, asked, seen>>

(* own: the rows the model named; junk: it gave a list, of nothing that    *)
(* the tool keeps; way: the phrase of a read, the supplier of an order or  *)
(* the direction of a price.                                               *)
Call   == [tool : Tools, own : SUBSET Rows, junk : BOOLEAN, way : Phrases]
Result == [tool : Tools, status : {"ok", "empty", "failed", "skipped", "refused"},
           rows : SUBSET Rows, card : Nat \cup {NoCard}]
Stage  == {"asked", "running", "done"}
Card   == [kind : Drafts, rows : SUBSET Rows, attached : SUBSET Rows]

Answer(tool, status, S, card) == [tool |-> tool, status |-> status, rows |-> S, card |-> card]
Blank(tool) == Answer(tool, "failed", {}, NoCard)

(* Only reads that an agent may call matter to its run.                    *)
Worlds(a) == [Reads \cap Allowed[a] -> SUBSET Rows]

Init ==
  /\ agent \in Agents /\ planned \in BOOLEAN
  /\ world \in Worlds(agent)
  /\ turn = <<>> /\ results = <<>>
  /\ cache = [k \in {} |-> Blank("low")]
  /\ claimed = {} /\ placed = {} /\ cards = <<>> /\ asked = 0 /\ seen = {}

-----------------------------------------------------------------------------
(* Policy                                                                  *)

MayCall(tool) == tool \in Allowed[agent] \ Blocked

-----------------------------------------------------------------------------
(* Arguments from earlier reads                                            *)

Sources(call) ==
  CASE call.tool = "order"    -> {"low"}
    [] call.tool = "campaign" -> {"churn"}
    [] call.tool = "forecast" -> {"wma"}
    [] call.tool = "brief"    -> {"metrics"}
    [] call.tool = "price"    -> IF call.way = 1 THEN {"top"} ELSE {"top", "slow"}
    [] OTHER                  -> {}

LastOf(S) == IF S = {} THEN {} ELSE results[CHOOSE i \in S : \A j \in S : j <= i].rows
Of(tools) == {i \in DOMAIN results : results[i].tool \in tools}

(* compute_wma_forecast answers 0.0 when it finds no orders or cannot ask. *)
Computed == {i \in Of({"wma"}) : results[i].status # "failed"}

(* An order or a brief takes the last read as it is, failed and empty ones *)
(* included; a forecast the last one computed; the others the last read    *)
(* that listed something.  Nothing is filled in for a roster or a reply,   *)
(* nor where the model gave a list.                                        *)
Hydrated(call) ==
  IF call.own # {} \/ call.junk THEN call.own
  ELSE IF call.tool \in {"order", "brief"} THEN LastOf(Of(Sources(call)))
  ELSE IF call.tool = "forecast" THEN LastOf(Computed)
  ELSE LastOf({i \in Of(Sources(call)) : results[i].rows # {}})

(* The run looked for guests, and its last look found none or failed.      *)
ChurnEmpty == Of({"churn"}) # {} /\ LastOf(Of({"churn"})) = {}

(* Mutant: a draft without rows is placed all the same.                    *)
SkippedForGuestsOnly(call, S) == call.tool \in {"campaign", "notify"} /\ ChurnEmpty

(* The tools that place orders and rosters see that a list is there, and   *)
(* drop what they cannot use of it later; the campaign tool does so first. *)
Skipped(call, S) ==
  \/ call.tool \in {"order", "roster"} /\ S = {} /\ ~call.junk
  \/ call.tool = "campaign" /\ S = {}
  \/ call.tool = "forecast" /\ call.own = {} /\ Computed = {}
  \/ call.tool \in {"campaign", "notify"} /\ ChurnEmpty

-----------------------------------------------------------------------------
(* A turn                                                                  *)

(* Mutant: the call that crosses the budget is still run.                  *)
WithinLate(n) == IF asked + n <= MaxCalls + 1 THEN n ELSE MaxCalls + 1 - asked

(* Calls over the budget are counted and dropped.                          *)
Within(n) == IF asked + n <= MaxCalls THEN n ELSE MaxCalls - asked

(* A call names rows that were read or made up, or leaves them out.        *)
Asked(calls) ==
  /\ \A i \in DOMAIN calls : /\ calls[i].tool \in Allowed[agent] \cup Outside
                             /\ calls[i].own # {} => calls[i].tool \in Drafts
                             /\ calls[i].way # 1 => calls[i].tool \in Worded
                             /\ calls[i].junk => /\ calls[i].own = {}
                                                 /\ calls[i].tool \in Itemised
  /\ asked' = asked + Len(calls)
  /\ turn' = [i \in 1 .. Within(Len(calls)) |->
                [call |-> calls[i], stage |-> "asked", rows |-> {},
                 result |-> Blank(calls[i].tool)]]
  /\ UNCHANGED <<agent, planned, world, results, cache, claimed, placed, cards, seen>>

Ask ==
  /\ ~planned /\ turn = <<>> /\ asked < MaxCalls
  /\ \E n \in 1 .. MaxTurn : \E calls \in [1 .. n -> Call] : Asked(calls)

(* run_scripted_tool_loop: the next call of the plan.                      *)
AskPlanned ==
  /\ planned /\ turn = <<>> /\ asked < MaxCalls
  /\ \E call \in Call : Asked(<<call>>)

Key(call) == [tool |-> call.tool, way |-> call.way]
Done(i, result) == turn' = [turn EXCEPT ![i].stage = "done", ![i].result = result]

(* A keyed draft takes its key before it is placed.                        *)
Keyed == {"order", "campaign", "roster", "price"}

Begin(i) ==
  LET call == turn[i].call
      S    == Hydrated(call)
  IN
  /\ turn[i].stage = "asked"
  /\ \A j \in 1 .. i - 1 : turn[j].stage # "asked"
  /\ \/ /\ Key(call) \in DOMAIN cache
        /\ Done(i, cache[Key(call)])
        /\ UNCHANGED claimed
     \/ /\ Key(call) \notin DOMAIN cache /\ ~MayCall(call.tool)
        /\ Done(i, Answer(call.tool, "refused", {}, NoCard))
        /\ UNCHANGED claimed
     \/ /\ Key(call) \notin DOMAIN cache /\ MayCall(call.tool)
        /\ \/ /\ Skipped(call, S) \/ Key(call) \in claimed
              /\ Done(i, Answer(call.tool, "skipped", {}, NoCard))
              /\ UNCHANGED claimed
           \/ /\ ~Skipped(call, S) /\ Key(call) \notin claimed
              /\ turn' = [turn EXCEPT ![i].stage = "running", ![i].rows = S]
              /\ claimed' = IF call.tool \in Keyed THEN claimed \cup {Key(call)} ELSE claimed
  /\ UNCHANGED <<agent, planned, world, results, cache, placed, cards, asked, seen>>

Listed(tool) == Answer(tool, IF tool = "wma" /\ world[tool] = {} THEN "empty" ELSE "ok",
                       world[tool], NoCard)
Failures(tool) == {Blank(tool)} \cup
                  IF tool = "wma" THEN {Answer(tool, "empty", {}, NoCard)} ELSE {}

(* A read lists what there is, or fails; either answer is kept for the     *)
(* rest of the run, but for a computation's.                               *)
EndRead(i) ==
  LET call == turn[i].call IN
  /\ turn[i].stage = "running" /\ call.tool \in Reads
  /\ \E answer \in {Listed(call.tool)} \cup Failures(call.tool) :
       /\ Done(i, answer)
       /\ cache' = [k \in DOMAIN cache \cup {c \in {Key(call)} : c.tool \in Cached /\ ~planned} |->
                      IF k = Key(call) THEN answer ELSE cache[k]]
       /\ seen' = seen \cup answer.rows
  /\ UNCHANGED <<agent, planned, world, results, claimed, placed, cards, asked>>

(* A draft is placed or refused by the platform, with a card either way;   *)
(* or the request raises, placed or not, and there is no card.  The order  *)
(* tool attaches its own evidence: the rows it was called with; when it    *)
(* keeps none of them it gives up, its key taken.                          *)
EndDraft(i) ==
  LET call == turn[i].call
      card == [kind |-> call.tool, rows |-> turn[i].rows,
               attached |-> IF call.tool = "order" THEN turn[i].rows ELSE {}]
  IN
  /\ turn[i].stage = "running" /\ call.tool \in Drafts
  /\ \E there \in BOOLEAN, answered \in BOOLEAN :
       /\ call.tool = "order" /\ turn[i].rows = {} => ~there /\ ~answered
       /\ placed' = IF there
                    THEN placed \cup {[kind |-> call.tool, own |-> call.own,
                                       junk |-> call.junk, rows |-> turn[i].rows]}
                    ELSE placed
       /\ IF answered
          THEN /\ cards' = Append(cards, card)
               /\ Done(i, Answer(call.tool, IF there THEN "ok" ELSE "failed", {}, Len(cards) + 1))
          ELSE Done(i, Blank(call.tool)) /\ UNCHANGED cards
  /\ UNCHANGED <<agent, planned, world, results, cache, claimed, asked, seen>>

EndNotify(i) ==
  /\ turn[i].stage = "running" /\ turn[i].call.tool \notin Reads \cup Drafts
  /\ \E status \in {"ok", "failed"} : Done(i, Answer(turn[i].call.tool, status, {}, NoCard))
  /\ UNCHANGED <<agent, planned, world, results, cache, claimed, placed, cards, asked, seen>>

EndTurn ==
  /\ turn # <<>> /\ \A i \in DOMAIN turn : turn[i].stage = "done"
  /\ results' = results \o [i \in DOMAIN turn |-> turn[i].result]
  /\ turn' = <<>>
  /\ UNCHANGED <<agent, planned, world, cache, claimed, placed, cards, asked, seen>>

(* Stock comes in, guests come back, tickets close.                        *)
Elsewhere ==
  /\ \E i \in DOMAIN turn : turn[i].stage = "running" /\ turn[i].call.tool \in Reads
  /\ world' \in Worlds(agent)
  /\ UNCHANGED <<agent, planned, turn, results, cache, claimed, placed, cards, asked, seen>>

Next ==
  \/ Ask \/ AskPlanned \/ EndTurn \/ Elsewhere
  \/ \E i \in DOMAIN turn : Begin(i) \/ EndRead(i) \/ EndDraft(i) \/ EndNotify(i)

Spec == Init /\ [][Next]_vars

-----------------------------------------------------------------------------
(* The cards as the run hands them on                                      *)

(* Mutant: an order keeps the evidence its tool attached.                  *)
EvidenceAttached(i) == cards[results[i].card].attached

(* The evidence of an order is what reads before it listed of its rows:    *)
(* what the tool attached is replaced, or dropped.                         *)
Evidence(i) ==
  IF cards[results[i].card].kind # "order" THEN {}
  ELSE cards[results[i].card].rows
       \cap UNION {results[j].rows : j \in {k \in 1 .. i - 1 : results[k].tool = "low"}}

-----------------------------------------------------------------------------
(* Properties                                                              *)

(* Every variable keeps its type, and the run stays within its budget.     *)
TypeOK ==
  /\ agent \in Agents /\ planned \in BOOLEAN /\ world \in Worlds(agent)
  /\ \A i \in DOMAIN turn : /\ turn[i].call \in Call /\ turn[i].stage \in Stage
                            /\ turn[i].rows \subseteq Rows /\ turn[i].result \in Result
  /\ \A i \in DOMAIN results : results[i] \in Result /\ results[i].card \in DOMAIN cards \cup {NoCard}
  /\ \A k \in DOMAIN cache : cache[k] \in Result
  /\ \A i \in DOMAIN cards : cards[i] \in Card
  /\ Len(results) + Len(turn) <= MaxCalls /\ seen \subseteq Rows

(* No order or campaign without rows reaches the platform, also when the   *)
(* read it was to be filled from failed, was empty or ran in the same      *)
(* turn, and when the tool keeps nothing of the list the model gave; nor   *)
(* does a roster, but in that last case.  (A price suggestion without      *)
(* items does, and a forecast of no orders at all.)                        *)
NothingEmptyIsPlaced ==
  \A d \in placed : /\ d.kind \in {"order", "campaign"} => d.rows # {}
                    /\ d.kind = "roster" => d.rows # {} \/ d.junk

(* What a draft holds, the model named or a read of this run listed; and   *)
(* the evidence on an order was listed by a read, whatever the model named *)
(* and the tool attached.                                                  *)
DraftsStandOnReads ==
  /\ \A d \in placed : d.rows \subseteq d.own \cup seen
  /\ \A i \in DOMAIN results :
       results[i].card # NoCard => Evidence(i) \subseteq seen
=============================================================================
