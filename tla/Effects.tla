------------------------------- MODULE Effects ------------------------------
(***************************************************************************)
(* What agents and managers do to the platform when DEMO_MODE is on: runs  *)
(* place drafts on it (demo_backend.post) and put cards in the queue; the  *)
(* decision on a card is applied to the drafts, the roster and the menu    *)
(* (proposal_apply), over HTTP or in the manager's chat.                   *)
(*                                                                         *)
(* Requests to the demo platform do not suspend: a run on the rules is one *)
(* step, except the inventory rules, which are one per supplier with turn  *)
(* held.  A run of the model is suspended after every call.  Abstracted:   *)
(* the lines of an order, the customers of a campaign, notifications, the  *)
(* claims (their hour passes), the queue's own steps (ProposalStore), and  *)
(* who holds a copy of a card: any number of chats go on at once.          *)
(***************************************************************************)
EXTENDS Integers, FiniteSets, Sequences

CONSTANTS
  Stores,        (* the stores                                             *)
  Suppliers,     (* whom orders go to                                      *)
  Slots,         (* a person's shifts: date, staff id and start time       *)
  Items,         (* the menu, one catalogue for all stores                 *)
  Percents,      (* percentages a model asks for                           *)
  Catalogue,     (* the price every item starts at                         *)
  Free,          (* nobody holds the turn                                  *)
  MaxRowCards,   (* bound: cards for orders and campaigns                  *)
  MaxCards,      (* bound: cards of the other kinds                        *)
  MaxKinds,      (* bound: kinds of card at once                            *)
  MaxPosts,      (* bound: orders and campaigns posted                     *)
  MaxDays,       (* bound: the last day                                    *)
  MaxDecisions   (* bound: decisions applied, per kind of card             *)

ASSUME EffectsAssumption ==
  /\ Free \notin Stores
  /\ Percents \subseteq Nat /\ Catalogue \in Nat
  /\ MaxRowCards \in Nat /\ MaxCards \in Nat /\ MaxKinds \in Nat
  /\ MaxPosts \in Nat /\ MaxDays \in Nat /\ MaxDecisions \in Nat

VARIABLES
  today,      (* the day, UTC                                              *)
  rows,       (* purchase_orders and campaigns, as created                 *)
  shifts,     (* staff_shifts: DRAFT and CONFIRMED rows of a slot          *)
  menu,       (* menu_items.price                                          *)
  recorded,   (* rows of manager_actions                                   *)
  cards,      (* the cards, as made                                        *)
  copies,     (* cards of which a chat or a run may hold a PENDING copy    *)
  turn,       (* the store whose inventory rules are running               *)
  told,       (* the decisions that were applied: history, for checking    *)
  applied     (* how many, by kind of card: history                        *)

platform == <<rows, shifts, menu, recorded>>
history  == <<told, applied>>
vars     == <<today, platform, cards, copies, turn, history>>

WinBack     == "WIN_BACK"
IncreaseMax == 12
DiscountMax == 15
RowKinds    == {"order", "campaign"}
Kinds       == RowKinds \cup {"roster", "price", "record"}
Directions  == {"increase", "discount", "none"}
Verdicts    == {"approve", "reject"}
NoRow       == 0

Row == [kind : RowKinds, store : Stores, key : Suppliers \cup {WinBack}, day : Nat,
        status : {"DRAFT", "PENDING_APPROVAL", "SCHEDULED", "CANCELLED"}, at : Nat]

(* row: payload.po_id; ids: payload.item_ids; shown: the items its lines   *)
(* name; again: whether it was decided over HTTP, which looks at no status *)
(* before, or was saved from a copy; uses: decisions applied.              *)
Card == [kind : Kinds, store : Stores, path : {"rules", "model"}, row : Nat,
         shown : SUBSET Items, ids : SUBSET Items, direction : Directions,
         percent : Nat,
         status : {"held", "open", "superseded", "approved", "rejected", "lost"},
         again : BOOLEAN, uses : Nat]

Init ==
  /\ today = 0 /\ rows = <<>> /\ recorded = 0
  /\ shifts = [s \in Stores |-> [w \in Slots |-> [draft |-> 0, confirmed |-> 0]]]
  /\ menu = [i \in Items |-> Catalogue]
  /\ cards = <<>> /\ copies = {} /\ turn = Free
  /\ told = {} /\ applied = [k \in Kinds |-> 0]

-----------------------------------------------------------------------------
(* Requests to the platform                                                *)

Ats   == {rows[i].at : i \in DOMAIN rows}
Later == CHOOSE n \in 1 .. MaxPosts + 1 : \A a \in Ats : a < n

(* Mutant: an order that was decided today is taken for the same draft.    *)
SameDraftDecided(k, s, key) ==
  {i \in DOMAIN rows : /\ rows[i].kind = k /\ rows[i].store = s /\ rows[i].key = key
                       /\ rows[i].day = today}

(* Mutant: the draft of another day is not told from today's, nor another  *)
(* supplier's: every post creates a row.                                   *)
SameDraftNever(k, s, key) == {}

(* The draft of the same purpose (order to a supplier, win-back campaign)  *)
(* that the store has from today.                                          *)
SameDraft(k, s, key) ==
  {i \in DOMAIN rows : /\ rows[i].kind = k /\ rows[i].store = s /\ rows[i].key = key
                       /\ rows[i].status = "DRAFT" /\ rows[i].day = today}

(* A draft of the same store and key placed today and still DRAFT is       *)
(* replaced, its created_at too; otherwise a row is created.               *)
Upsert(k, s, key) ==
  /\ \A a \in Ats : a < MaxPosts
  /\ IF SameDraft(k, s, key) # {}
     THEN rows' = [i \in DOMAIN rows |->
                     IF i \in SameDraft(k, s, key) THEN [rows[i] EXCEPT !.at = Later,
                                                                        !.status = "DRAFT"]
                     ELSE rows[i]]
     ELSE rows' = Append(rows, [kind |-> k, store |-> s, key |-> key, day |-> today,
                                status |-> "DRAFT", at |-> Later])
IdOf(k, s, key) ==
  IF SameDraft(k, s, key) # {} THEN CHOOSE i \in SameDraft(k, s, key) : TRUE
  ELSE Len(rows) + 1

PostOrder(s, supplier) == Upsert("order", s, supplier)
PostCampaign(s)        == Upsert("campaign", s, WinBack)

(* Mutant: the rows of a roster are inserted without looking.              *)
PostShiftsBlindly(s, S) ==
  shifts' = [shifts EXCEPT ![s] =
               [w \in Slots |-> IF w \in S THEN [@[w] EXCEPT !.draft = @ + 1] ELSE @[w]]]

(* A row of a roster is inserted unless the slot has a DRAFT row.          *)
PostShifts(s, S) ==
  shifts' = [shifts EXCEPT ![s] =
               [w \in Slots |-> IF w \in S THEN [@[w] EXCEPT !.draft = 1] ELSE @[w]]]

-----------------------------------------------------------------------------
(* Cards                                                                   *)

Plain(k, s, path) ==
  [kind |-> k, store |-> s, path |-> path, row |-> NoRow, shown |-> {}, ids |-> {},
   direction |-> "none", percent |-> 0, status |-> "held", again |-> FALSE, uses |-> 0]

PriceCard(s, path, S, ids, direction, percent) ==
  [Plain("price", s, path) EXCEPT !.shown = S, !.ids = ids, !.direction = direction,
                                  !.percent = percent]

Capped(direction, percent) ==
  LET cap == IF direction = "increase" THEN IncreaseMax ELSE DiscountMax
  IN  IF percent < cap THEN percent ELSE cap

(* The tail of a run with a store: its cards are saved as open ones, every *)
(* other open card of the agent and the store is superseded.               *)
Saved(c, k, s, path) ==
  IF c.kind = k /\ c.store = s /\ c.status = "held" /\ c.path = path
  THEN [c EXCEPT !.status = "open"]
  ELSE IF c.kind = k /\ c.store = s /\ c.status = "open"
  THEN [c EXCEPT !.status = "superseded"] ELSE c
Commit(cs, k, s, path) == [i \in DOMAIN cs |-> Saved(cs[i], k, s, path)]

(* The cards that tool results brought are saved with a run's own, PENDING *)
(* as they were listed, whatever became of them since.                     *)
SaveCopies(cs, C) ==
  [i \in DOMAIN cs |-> IF i \in C THEN [cs[i] EXCEPT !.status = "open", !.again = TRUE]
                       ELSE cs[i]]

Busy == {cards[c].kind : c \in DOMAIN cards} \cup {rows[i].kind : i \in DOMAIN rows}
Room(kind) ==
  /\ Len(cards) < (IF kind \in RowKinds THEN MaxRowCards ELSE MaxCards)
  /\ Cardinality(Busy \cup {kind}) <= MaxKinds

Hold(card) == Room(card.kind) /\ cards' = Append(cards, card)
HoldAndCommit(card) ==
  /\ Room(card.kind)
  /\ cards' = Commit(Append(cards, card), card.kind, card.store, card.path)

-----------------------------------------------------------------------------
(* Runs on the rules                                                       *)

(* The inventory rules draft once per supplier with items low in stock; *)
(* the card carries the order id.                                          *)
RulesOrder(s, supplier) ==
  /\ turn \in {Free, s}
  /\ \A c \in DOMAIN cards : cards[c].status = "held" /\ cards[c].row # NoRow
                              => rows[cards[c].row].key # supplier
  /\ turn' = s
  /\ PostOrder(s, supplier)
  /\ Hold([Plain("order", s, "rules") EXCEPT !.row = IdOf("order", s, supplier)])
  /\ UNCHANGED <<today, shifts, menu, recorded, copies, history>>

RulesOrdersEnd(s) ==
  /\ turn = s
  /\ turn' = Free
  /\ cards' = Commit(cards, "order", s, "rules")
  /\ UNCHANGED <<today, platform, copies, history>>

(* The churn rules draft a campaign and make no card; the tail of the run  *)
(* supersedes the cards there are.                                         *)
RulesCampaign(s) ==
  /\ turn = Free
  /\ Cardinality(Busy \cup {"campaign"}) <= MaxKinds
  /\ PostCampaign(s)
  /\ cards' = Commit(cards, "campaign", s, "rules")
  /\ UNCHANGED <<today, shifts, menu, recorded, copies, turn, history>>

RulesRoster(s) ==
  /\ turn = Free
  /\ \E S \in SUBSET Slots \ {{}} : PostShifts(s, S)
  /\ HoldAndCommit(Plain("roster", s, "rules"))
  /\ UNCHANGED <<today, rows, menu, recorded, copies, turn, history>>

(* The pricing rules name the items in the lines of the card, and put no   *)
(* item_ids in its payload.                                                *)
RulesPrice(s) ==
  /\ turn = Free
  /\ \E S \in SUBSET Items \ {{}}, d \in {"increase", "discount"} :
       HoldAndCommit(PriceCard(s, "rules", S, {}, d,
                               IF d = "increase" THEN IncreaseMax ELSE DiscountMax))
  /\ UNCHANGED <<today, platform, copies, turn, history>>

-----------------------------------------------------------------------------
(* Runs of the model                                                       *)

(* create_draft_po and create_draft_campaign: the card does not carry the  *)
(* id of the draft.                                                        *)
ModelOrder(s) ==
  /\ turn = Free
  /\ \E supplier \in Suppliers : PostOrder(s, supplier)
  /\ Hold(Plain("order", s, "model"))
  /\ UNCHANGED <<today, shifts, menu, recorded, copies, turn, history>>

ModelCampaign(s) ==
  /\ turn = Free
  /\ PostCampaign(s)
  /\ Hold(Plain("campaign", s, "model"))
  /\ UNCHANGED <<today, shifts, menu, recorded, copies, turn, history>>

ModelRoster(s) ==
  /\ turn = Free
  /\ \E S \in SUBSET Slots \ {{}} : PostShifts(s, S)
  /\ Hold(Plain("roster", s, "model"))
  /\ UNCHANGED <<today, rows, menu, recorded, copies, turn, history>>

(* propose_price_suggestion: ids the model named, or hydrated from what it *)
(* read; none when it gave names only.                                     *)
ModelPrice(s) ==
  /\ turn = Free
  /\ \E S \in SUBSET Items \ {{}}, ids \in SUBSET Items,
        d \in {"increase", "discount"}, p \in Percents :
       /\ ids \in {S, {}}
       /\ Hold(PriceCard(s, "model", S, ids, d, Capped(d, p)))
  /\ UNCHANGED <<today, platform, copies, turn, history>>

(* write_forecast, draft_kitchen_brief, submit_review_draft_notification:  *)
(* they leave nothing on the demo platform before the decision.            *)
ModelRecord(s) ==
  /\ turn = Free
  /\ Hold(Plain("record", s, "model"))
  /\ UNCHANGED <<today, platform, copies, turn, history>>

(* A copy is taken by list_pending_proposals, by a draft that was claimed  *)
(* before and is answered with the open card, and by a chat that is handed *)
(* the cards of a specialist.                                              *)
TakeCopy(c) ==
  /\ turn = Free
  /\ cards[c].status = "open"
  /\ copies' = copies \cup {c}
  /\ UNCHANGED <<today, platform, cards, turn, history>>

CopiesOf(k, s) == {c \in copies : cards[c].kind = k /\ cards[c].store = s}

ModelEnds(s, k) ==
  /\ turn = Free
  /\ \E C \in SUBSET CopiesOf(k, s) :
       /\ \/ C # {}
          \/ \E i \in DOMAIN cards : /\ cards[i].kind = k /\ cards[i].store = s
                                     /\ cards[i].status = "held" /\ cards[i].path = "model"
       /\ cards' = SaveCopies(Commit(cards, k, s, "model"), C)
  /\ UNCHANGED <<today, platform, copies, turn, history>>

(* The tail of a chat saves its copies, and supersedes no card of another  *)
(* agent.                                                                  *)
ChatEnds ==
  /\ turn = Free
  /\ \E C \in SUBSET copies \ {{}} : cards' = SaveCopies(cards, C)
  /\ UNCHANGED <<today, platform, copies, turn, history>>

(* A run that has nothing to propose supersedes all the same.              *)
IdleRun(s, k) ==
  /\ turn = Free
  /\ cards' = Commit(cards, k, s, "rules")
  /\ UNCHANGED <<today, platform, copies, turn, history>>

(* The process stops, or the model fails: cards not saved are lost, the    *)
(* drafts they were made for are not.                                      *)
Crash ==
  /\ copies # {} \/ \E i \in DOMAIN cards : cards[i].status = "held"
  /\ cards' = [i \in DOMAIN cards |->
                 IF cards[i].status = "held" THEN [cards[i] EXCEPT !.status = "lost"]
                 ELSE cards[i]]
  /\ turn' = Free /\ copies' \in {copies, {}}
  /\ UNCHANGED <<today, platform, history>>

-----------------------------------------------------------------------------
(* Decisions                                                               *)

Drafts(k, s) ==
  {i \in DOMAIN rows : rows[i].kind = k /\ rows[i].store = s /\ rows[i].status = "DRAFT"}
NewestDraft(k, s) ==
  {i \in Drafts(k, s) : \A j \in Drafts(k, s) : rows[j].at <= rows[i].at}

(* Mutant: every draft of the store.                                       *)
TargetAll(card) ==
  IF card.row # NoRow THEN {card.row} ELSE Drafts(card.kind, card.store)

(* Mutant: the newest draft of any store.                                  *)
TargetFleet(card) ==
  IF card.row # NoRow THEN {card.row}
  ELSE {i \in DOMAIN rows : /\ rows[i].kind = card.kind /\ rows[i].status = "DRAFT"
                            /\ \A j \in DOMAIN rows :
                                 rows[j].kind = card.kind /\ rows[j].status = "DRAFT"
                                   => rows[j].at <= rows[i].at}

(* The row the card names, whatever its status, or the newest draft of the *)
(* store.                                                                  *)
Target(card) == IF card.row # NoRow THEN {card.row} ELSE NewestDraft(card.kind, card.store)

Move(card, status) ==
  rows' = [i \in DOMAIN rows |->
             IF i \in Target(card) THEN [rows[i] EXCEPT !.status = status] ELSE rows[i]]

(* Mutant: a discount is taken off twice.                                  *)
RepricedTwice(price, direction, percent, tie) ==
  IF direction = "increase"
  THEN (price * (100 + Capped(direction, percent)) + tie) \div 100
  ELSE (price * (100 - 2 * Capped(direction, percent)) + tie) \div 100

(* Rounded to the nearest cent; a tie is decided by the error of the       *)
(* floating point product, up with 50 and down with 49.                    *)
Ties == {49, 50}
Repriced(price, direction, percent, tie) ==
  IF direction = "increase"
  THEN (price * (100 + Capped(direction, percent)) + tie) \div 100
  ELSE (price * (100 - Capped(direction, percent)) + tie) \div 100

(* Mutant: confirming adds up the rows a slot had before.                  *)
ConfirmShiftsAgain(s) ==
  shifts' = [shifts EXCEPT ![s] =
               [w \in Slots |-> [draft |-> 0,
                                 confirmed |-> 2 * @[w].confirmed + @[w].draft]]]

(* All DRAFT rows of the store, whichever roster they are from.            *)
ConfirmShifts(s) ==
  shifts' = [shifts EXCEPT ![s] =
               [w \in Slots |-> [draft |-> 0, confirmed |-> @[w].confirmed + @[w].draft]]]
CancelShifts(s) ==
  shifts' = [shifts EXCEPT ![s] = [w \in Slots |-> [@[w] EXCEPT !.draft = 0]]]

ApproveOrder(card) ==
  /\ card.kind = "order" /\ Move(card, "PENDING_APPROVAL")
  /\ UNCHANGED <<shifts, menu, recorded>>
ApproveCampaign(card) ==
  /\ card.kind = "campaign" /\ Move(card, "SCHEDULED")
  /\ UNCHANGED <<shifts, menu, recorded>>
ApproveRoster(card) ==
  /\ card.kind = "roster" /\ ConfirmShifts(card.store)
  /\ UNCHANGED <<rows, menu, recorded>>
ApprovePrice(card) ==
  /\ card.kind = "price"
  /\ \E tie \in [Items -> Ties] :
       menu' = [i \in Items |->
                  IF i \in card.ids
                  THEN Repriced(menu[i], card.direction, card.percent, tie[i]) ELSE menu[i]]
  /\ UNCHANGED <<rows, shifts, recorded>>
ApproveRecord(card) ==
  /\ card.kind = "record" /\ recorded' = recorded + 1
  /\ UNCHANGED <<rows, shifts, menu>>

(* apply_approved_proposal, when it answers TRUE.                          *)
Approve(card) ==
  \/ ApproveOrder(card) \/ ApproveCampaign(card) \/ ApproveRoster(card)
  \/ ApprovePrice(card) \/ ApproveRecord(card)

(* apply_rejected_proposal, when it answers TRUE: a price card changes     *)
(* nothing, and for a record the answer is always FALSE.                   *)
Reject(card) ==
  \/ card.kind \in RowKinds /\ Move(card, "CANCELLED") /\ UNCHANGED <<shifts, menu, recorded>>
  \/ card.kind = "roster" /\ CancelShifts(card.store) /\ UNCHANGED <<rows, menu, recorded>>
  \/ card.kind = "price" /\ UNCHANGED platform

(* The decision is on file, then it is applied in the same step; applying  *)
(* it may fail, or the process stop before it: the platform is unchanged.  *)
Decided(c, verdict, again, uses) ==
  cards' = [cards EXCEPT ![c].status = IF verdict = "approve" THEN "approved" ELSE "rejected",
                         ![c].again = @ \/ again, ![c].uses = @ + uses]

Decide(c, verdict, again) ==
  /\ \/ /\ applied[cards[c].kind] < MaxDecisions
        /\ \/ verdict = "approve" /\ Approve(cards[c])
           \/ verdict = "reject" /\ Reject(cards[c])
        /\ Decided(c, verdict, again, 1)
        /\ told' = told \cup {[card |-> c, verdict |-> verdict]}
        /\ applied' = [applied EXCEPT ![cards[c].kind] = @ + 1]
     \/ Decided(c, verdict, again, 0) /\ UNCHANGED <<platform, told, applied>>
  /\ UNCHANGED <<today, copies, turn>>

(* resolve_action_proposal decides any card on file, decided or not.       *)
HttpResolve(c) ==
  /\ turn = Free
  /\ cards[c].status \notin {"held", "lost"}
  /\ \E v \in Verdicts : Decide(c, v, TRUE)

(* approve_proposal and reject_proposal: only a card that is pending on    *)
(* file, as one that was saved again is.                                   *)
ChatResolve(c) ==
  /\ turn = Free
  /\ cards[c].status = "open"
  /\ \E v \in Verdicts : Decide(c, v, FALSE)

Tomorrow ==
  /\ turn = Free
  /\ today < MaxDays /\ today' = today + 1
  /\ UNCHANGED <<platform, cards, copies, turn, history>>

Next ==
  \/ \E s \in Stores :
       \/ \E supplier \in Suppliers : RulesOrder(s, supplier)
       \/ RulesOrdersEnd(s) \/ RulesCampaign(s) \/ RulesRoster(s) \/ RulesPrice(s)
       \/ ModelOrder(s) \/ ModelCampaign(s) \/ ModelRoster(s) \/ ModelPrice(s)
       \/ ModelRecord(s) \/ \E k \in Kinds : ModelEnds(s, k) \/ IdleRun(s, k)
  \/ \E c \in DOMAIN cards : TakeCopy(c) \/ HttpResolve(c) \/ ChatResolve(c)
  \/ ChatEnds \/ Crash \/ Tomorrow

Spec == Init /\ [][Next]_vars

-----------------------------------------------------------------------------
(* Properties                                                              *)

(* Every variable keeps its type; a card names a row that exists.          *)
TypeOK ==
  /\ today \in 0 .. MaxDays /\ turn \in Stores \cup {Free}
  /\ rows \in Seq(Row) /\ recorded \in Nat
  /\ shifts \in [Stores -> [Slots -> [draft : 0 .. 1, confirmed : Nat]]]
  /\ menu \in [Items -> Nat]
  /\ cards \in Seq(Card) /\ copies \subseteq DOMAIN cards
  /\ \A c \in DOMAIN cards : cards[c].row \in {NoRow} \cup DOMAIN rows
  /\ told \in SUBSET [card : DOMAIN cards, verdict : Verdicts]
  /\ applied \in [Kinds -> 0 .. MaxDecisions]

(* A store never has two orders in draft to one supplier placed on one     *)
(* day, nor two campaigns: whoever posts, by rules or model, replaces the  *)
(* one there is, even after others of the day were decided.                *)
Same(a, b) == a.kind = b.kind /\ a.store = b.store /\ a.key = b.key /\ a.day = b.day
OneDraftPerDay ==
  \A i, j \in DOMAIN rows :
    rows[i].status = "DRAFT" /\ rows[j].status = "DRAFT" /\ Same(rows[i], rows[j]) => i = j

(* The human stays in the loop: nothing leaves draft but by a decision of  *)
(* its direction on a card of its kind and store, and a card that carries  *)
(* the id of an order decides that order alone.                            *)
VerdictOf(row) == IF row.status = "CANCELLED" THEN "reject" ELSE "approve"
Accounts(i, t) ==
  /\ t.verdict = VerdictOf(rows[i])
  /\ cards[t.card].kind = rows[i].kind /\ cards[t.card].store = rows[i].store
  /\ cards[t.card].row \in {NoRow, i}
HumanInTheLoop ==
  \A i \in DOMAIN rows : rows[i].status # "DRAFT" => \E t \in told : Accounts(i, t)

(* One decision moves one draft: no more orders and campaigns have left    *)
(* draft than decisions were applied, also when the card carries no id.    *)
Left == {i \in DOMAIN rows : rows[i].status # "DRAFT"}
OneRowPerDecision == Cardinality(Left) <= applied["order"] + applied["campaign"]

(* Nobody is booked for a slot more often than rosters were approved, in   *)
(* spite of the rows that two rosters of one store propose alike.          *)
BookedByApprovals ==
  \A s \in Stores, w \in Slots : shifts[s][w].confirmed <= applied["roster"]

(* A price is no further from the catalogue than the caps, applied once    *)
(* for each decision on a price card and rounded to the cent each time,    *)
(* would take it: of the cards of all stores together.                     *)
Highest[n \in Nat] == IF n = 0 THEN Catalogue
                      ELSE (Highest[n - 1] * (100 + IncreaseMax) + 50) \div 100
Lowest[n \in Nat]  == IF n = 0 THEN Catalogue
                      ELSE (Lowest[n - 1] * (100 - DiscountMax) + 49) \div 100
PriceWithinApprovals ==
  \A i \in Items : menu[i] \in Lowest[applied["price"]] .. Highest[applied["price"]]

(* A run does not undo a decision: an order or a campaign that has left    *)
(* draft moves again only by a decision on a card that carries its id, and *)
(* only in a store where a card of the kind was decided over HTTP, or was  *)
(* saved from a copy.  Without these two ways, runs that draft the same    *)
(* order anew and decisions in the chat on their cards leave it alone.     *)
DecidedStays ==
  [][\A i \in DOMAIN rows :
       rows[i].status # "DRAFT" /\ rows'[i].status # rows[i].status =>
         /\ \E c \in DOMAIN cards : cards[c].row = i /\ cards'[c].uses > cards[c].uses
         /\ \E c \in DOMAIN cards : /\ cards[c].kind = rows[i].kind
                                    /\ cards[c].store = rows[i].store /\ cards'[c].again]_vars

(* What proposal_apply.py promises, "SUGGEST_PRICE_ADJUSTMENT -> capped    *)
(* menu_items.price updates": approving a price card that shows items at a *)
(* percentage, and answering that it was applied, changes a price.         *)
ApprovedPriceTakesEffect ==
  [][\A c \in DOMAIN cards :
       /\ cards[c].kind = "price" /\ cards[c].percent > 0 /\ cards[c].shown # {}
       /\ cards'[c].status = "approved" /\ cards'[c].uses > cards[c].uses
       => menu' # menu]_vars
=============================================================================
