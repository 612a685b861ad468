--------------------------- MODULE AgentRunProofs ---------------------------
(***************************************************************************)
(* Theorems about AgentRun, for every value of its constants.              *)
(***************************************************************************)
EXTENDS AgentRun, TLAPS

-----------------------------------------------------------------------------
(* Types                                                                   *)

Card == [run : Runs, key : Keys, life : Lives]

ClockType == /\ now \in Ticks /\ began \in Ticks /\ life \in Lives
             /\ faults \in 0 .. MaxFaults
ClaimType == claims \in [Keys -> Nat] /\ failures \in Nat
DraftType == drafts \in [Lives -> [Keys -> Nat]]
QueueType == /\ minted \in Seq(Card)
             /\ saved \subseteq DOMAIN minted /\ open \subseteq saved

(* A run holds cards that were made, and no more calls than one too many.  *)
RunType   == /\ runs \in [Runs -> Run]
             /\ \A r \in Runs : /\ runs[r].calls <= MaxCalls + 1
                                /\ runs[r].cards \subseteq DOMAIN minted

TypeInv == ClockType /\ ClaimType /\ DraftType /\ QueueType /\ RunType

(* The type invariant is the checked one and what the runs hold.           *)
LEMMA TypeInvIsTypeOK == TypeInv => TypeOK
BY DEF TypeInv, ClockType, ClaimType, DraftType, QueueType, RunType, TypeOK, Card

(* A run that changes alone keeps the type of all runs.                    *)
LEMMA BecomeType ==
  ASSUME RunType, NEW r \in Runs, NEW f \in Run, Become(r, f),
         f.calls <= MaxCalls + 1,
         f.cards \subseteq DOMAIN minted',
         DOMAIN minted \subseteq DOMAIN minted'
  PROVE  RunType'
BY DEF RunType, Become

(* What is asked for is a number of calls for each target.                 *)
LEMMA NoneType == None \in [Targets -> Nat]
BY DEF None

LEMMA OnceType ==
  ASSUME NEW S
  PROVE  Once(S) \in [Targets -> Nat]
BY DEF Once

LEMMA WithoutType ==
  ASSUME NEW r \in Runs, runs[r] \in Run, NEW t \in Asked(r)
  PROVE  /\ t \in Targets
         /\ Without(runs[r].asked, t) \in [Targets -> Nat]
<1>1. runs[r].asked \in [Targets -> Nat]
  BY DEF Run
<1>2. t \in Targets /\ runs[r].asked[t] > 0
  BY DEF Asked
<1>3. runs[r].asked[t] - 1 \in Nat
  BY <1>1, <1>2
<1> QED BY <1>1, <1>2, <1>3 DEF Without

(* A run that is over is still a run.                                      *)
LEMMA OverType ==
  ASSUME NEW f \in Run, NEW p \in Phase
  PROVE  /\ Over(f, p) \in Run
         /\ Over(f, p).calls = 0 /\ Over(f, p).asked = None /\ Over(f, p).posting = {}
         /\ Over(f, p).cards = {} /\ Over(f, p).phase = p /\ Over(f, p).placed = f.placed
BY NoneType DEF Over, Run

(* Making a card appends it.                                               *)
LEMMA MintType ==
  ASSUME QueueType, NEW r \in Runs, NEW k \in Keys, NEW made \in BOOLEAN,
         life \in Lives, Mint(r, k, made)
  PROVE  /\ minted' \in Seq(Card)
         /\ DOMAIN minted \subseteq DOMAIN minted'
         /\ MintedNow(made) \subseteq DOMAIN minted'
         /\ \A i \in DOMAIN minted : minted'[i] = minted[i]
         /\ made => /\ Len(minted) + 1 \in MintedNow(made)
                    /\ minted'[Len(minted) + 1].run = r
                    /\ minted'[Len(minted) + 1].key = k
<1> DEFINE card == [run |-> r, key |-> k, life |-> life]
<1>1. card \in Card
  BY DEF Card
<1>2. CASE made
  <2>1. minted' = Append(minted, card)
    BY <1>2 DEF Mint
  <2>2. /\ minted' \in Seq(Card) /\ Len(minted') = Len(minted) + 1
        /\ \A i \in 1 .. Len(minted) : minted'[i] = minted[i]
        /\ minted'[Len(minted) + 1] = card
    BY <1>1, <2>1 DEF QueueType
  <2>3. DOMAIN minted = 1 .. Len(minted) /\ DOMAIN minted' = 1 .. Len(minted')
        /\ Len(minted) \in Nat
    BY <2>2 DEF QueueType
  <2>4. MintedNow(made) = {Len(minted) + 1}
    BY <1>2 DEF MintedNow
  <2>5. Len(minted) + 1 \in DOMAIN minted' /\ DOMAIN minted \subseteq DOMAIN minted'
    BY <2>2, <2>3
  <2>6. card.run = r /\ card.key = k
    OBVIOUS
  <2> HIDE DEF card
  <2>7. \A i \in DOMAIN minted : minted'[i] = minted[i]
    BY <2>2, <2>3
  <2>8. Len(minted) + 1 \in MintedNow(made) /\ MintedNow(made) \subseteq DOMAIN minted'
    BY <2>4, <2>5
  <2>9. minted'[Len(minted) + 1].run = r /\ minted'[Len(minted) + 1].key = k
    BY <2>2, <2>6
  <2> QED BY <1>2, <2>2, <2>5, <2>7, <2>8, <2>9
<1>3. CASE ~made
  BY <1>3 DEF Mint, MintedNow, QueueType
<1> QED BY <1>2, <1>3

(* The key of a target in the current bucket.                              *)
LEMMA KeyType ==
  ASSUME ClockType, NEW t \in Targets
  PROVE  Key(t) \in Keys /\ Key(t).began = began /\ Key(t).target = t
BY DEF ClockType, Key, Keys

(* Claiming a key keeps the type of the claims.                            *)
LEMMA ClaimKeepsType ==
  ASSUME ClockType, ClaimType, NEW k \in Keys, Claim(k)
  PROVE  claims' \in [Keys -> Nat]
BY AgentAssumption DEF ClockType, ClaimType, Claim, Ticks

(* Placing a draft keeps the type of the drafts.                           *)
LEMMA PlaceType ==
  ASSUME ClockType, DraftType, NEW k \in Keys, NEW p \in BOOLEAN, NEW q \in BOOLEAN,
         Place(k, p, q)
  PROVE  DraftType'
<1>1. drafts[life][k] \in Nat
  BY DEF ClockType, DraftType
<1>2. drafts[life][k] + (IF p /\ q THEN 1 ELSE 0) \in Nat
  BY <1>1
<1> QED BY <1>2 DEF ClockType, DraftType, Place

(* Counting a fault keeps the bound on faults.                             *)
LEMMA FaultyType ==
  ASSUME ClockType, NEW o \in Outcome, Faulty(o)
  PROVE  faults' \in 0 .. MaxFaults
BY AgentAssumption DEF ClockType, Faulty

(* Duplicates are answered with cards that were made.                      *)
LEMMA DuplicateType == QueueType => Duplicate \subseteq DOMAIN minted
BY DEF QueueType, Duplicate, LatestOpen

-----------------------------------------------------------------------------
(* The steps keep the types                                                *)

LEMMA StartRunTypes ==
  ASSUME TypeInv, NEW r \in Runs, StartRun(r)
  PROVE  TypeInv'
<1>1. runs[r] \in Run /\ runs[r].calls <= MaxCalls + 1 /\ runs[r].cards \subseteq DOMAIN minted
  BY DEF TypeInv, RunType
<1>2. PICK f \in Run : Become(r, f) /\ f.calls = runs[r].calls /\ f.cards = runs[r].cards
  <2>1. PICK focus \in BOOLEAN :
          \/ Become(r, [runs[r] EXCEPT !.phase = "model", !.focus = focus])
          \/ Become(r, [runs[r] EXCEPT !.phase = "listing", !.focus = focus, !.rules = TRUE])
    BY DEF StartRun
  <2> DEFINE f == [runs[r] EXCEPT !.phase = "model", !.focus = focus]
             g == [runs[r] EXCEPT !.phase = "listing", !.focus = focus, !.rules = TRUE]
  <2>2. f \in Run /\ f.calls = runs[r].calls /\ f.cards = runs[r].cards
    BY <1>1 DEF Run, Phase
  <2>3. g \in Run /\ g.calls = runs[r].calls /\ g.cards = runs[r].cards
    BY <1>1 DEF Run, Phase
  <2>4. Become(r, f) \/ Become(r, g)
    BY <2>1
  <2> HIDE DEF f, g
  <2> QED BY <2>2, <2>3, <2>4
<1>3. UNCHANGED minted
  BY DEF StartRun, queue
<1>4. RunType'
  BY <1>1, <1>2, <1>3, BecomeType DEF TypeInv
<1> QED BY <1>4 DEF TypeInv, StartRun, ClockType, ClaimType, DraftType, QueueType, clock, queue

LEMMA ModelCallsTypes ==
  ASSUME TypeInv, NEW r \in Runs, ModelCalls(r)
  PROVE  TypeInv'
<1>1. runs[r] \in Run /\ runs[r].calls <= MaxCalls + 1 /\ runs[r].cards \subseteq DOMAIN minted
  BY DEF TypeInv, RunType
<1>2. PICK f \in Run : Become(r, f) /\ f.calls <= MaxCalls + 1 /\ f.cards = runs[r].cards
  <2>1. PICK n \in 1 .. MaxCalls + 1 - runs[r].calls, S \in [Targets -> 0 .. MaxCalls] :
          Become(r, [runs[r] EXCEPT !.calls = @ + n, !.asked = S])
    BY DEF ModelCalls
  <2> DEFINE f == [runs[r] EXCEPT !.calls = @ + n, !.asked = S]
  <2>2. runs[r].calls + n \in Nat /\ runs[r].calls + n <= MaxCalls + 1
    BY <1>1, AgentAssumption DEF Run
  <2>3. S \in [Targets -> Nat]
    BY AgentAssumption
  <2>4. f \in Run /\ f.calls = runs[r].calls + n /\ f.cards = runs[r].cards
    BY <1>1, <2>2, <2>3 DEF Run
  <2>5. Become(r, f)
    BY <2>1
  <2> HIDE DEF f
  <2> QED BY <2>2, <2>4, <2>5
<1>3. UNCHANGED minted
  BY DEF ModelCalls, queue
<1>4. RunType'
  BY <1>1, <1>2, <1>3, BecomeType DEF TypeInv
<1> QED BY <1>4 DEF TypeInv, ModelCalls, ClockType, ClaimType, DraftType, QueueType, clock, queue

LEMMA BeginCallTypes ==
  ASSUME TypeInv, NEW r \in Runs, BeginCall(r)
  PROVE  TypeInv'
<1>1. runs[r] \in Run /\ runs[r].calls <= MaxCalls + 1 /\ runs[r].cards \subseteq DOMAIN minted
  BY DEF TypeInv, RunType
<1>2. PICK t \in Asked(r) :
        LET begun == [runs[r] EXCEPT !.asked = Without(@, t)]
        IN  \/ /\ Become(r, [begun EXCEPT !.cards = @ \cup Duplicate])
               /\ UNCHANGED claims
            \/ /\ Become(r, [begun EXCEPT !.posting = @ \cup {Key(t)}])
               /\ Claim(Key(t))
  BY DEF BeginCall
<1> DEFINE begun == [runs[r] EXCEPT !.asked = Without(@, t)]
           f == [begun EXCEPT !.cards = @ \cup Duplicate]
           g == [begun EXCEPT !.posting = @ \cup {Key(t)}]
<1>3. t \in Targets /\ Key(t) \in Keys /\ Without(runs[r].asked, t) \in [Targets -> Nat]
  BY <1>1, KeyType, WithoutType DEF TypeInv
<1>4. Duplicate \subseteq DOMAIN minted /\ DOMAIN minted \subseteq Nat
  BY DuplicateType DEF TypeInv, QueueType
<1>5. begun \in Run /\ begun.calls = runs[r].calls /\ begun.cards = runs[r].cards
  BY <1>1, <1>3 DEF Run
<1> HIDE DEF begun
<1>6. f \in Run /\ f.calls <= MaxCalls + 1 /\ f.cards \subseteq DOMAIN minted
  BY <1>1, <1>4, <1>5 DEF Run
<1>7. g \in Run /\ g.calls <= MaxCalls + 1 /\ g.cards \subseteq DOMAIN minted
  BY <1>1, <1>3, <1>5 DEF Run
<1>8. \/ Become(r, f) /\ UNCHANGED claims
      \/ Become(r, g) /\ Claim(Key(t))
  BY <1>2 DEF begun
<1> HIDE DEF f, g
<1>9. UNCHANGED <<clock, failures, drafts, queue, life, faults>>
  BY DEF BeginCall
<1>10. RunType'
  BY <1>6, <1>7, <1>8, <1>9, BecomeType DEF TypeInv, queue
<1>11. ClaimType'
  BY <1>3, <1>8, <1>9, ClaimKeepsType DEF TypeInv, ClaimType
<1> QED BY <1>9, <1>10, <1>11 DEF TypeInv, ClockType, DraftType, QueueType, clock, queue

LEMMA EndCallTypes ==
  ASSUME TypeInv, NEW r \in Runs, EndCall(r)
  PROVE  TypeInv'
<1>1. runs[r] \in Run /\ runs[r].calls <= MaxCalls + 1 /\ runs[r].cards \subseteq DOMAIN minted
  BY DEF TypeInv, RunType
<1>2. PICK k \in runs[r].posting, o \in Outcome :
        /\ Faulty(o) /\ Place(k, o.placed, TRUE) /\ Mint(r, k, o.answer # "raised")
        /\ Become(r, [runs[r] EXCEPT !.posting = @ \ {k},
                                     !.cards = @ \cup MintedNow(o.answer # "raised")])
  BY DEF EndCall
<1> DEFINE made == o.answer # "raised"
           f == [runs[r] EXCEPT !.posting = @ \ {k}, !.cards = @ \cup MintedNow(made)]
<1>3. k \in Keys /\ made \in BOOLEAN /\ o.placed \in BOOLEAN
  BY <1>1 DEF Run, Outcome
<1>4. Faulty(o) /\ Place(k, o.placed, TRUE) /\ Mint(r, k, made) /\ Become(r, f)
  BY <1>2
<1> HIDE DEF made
<1>5. /\ minted' \in Seq(Card) /\ DOMAIN minted \subseteq DOMAIN minted'
      /\ MintedNow(made) \subseteq DOMAIN minted' /\ DOMAIN minted' \subseteq Nat
  BY <1>3, <1>4, MintType DEF TypeInv, ClockType
<1>6. f \in Run /\ f.calls <= MaxCalls + 1 /\ f.cards \subseteq DOMAIN minted'
  BY <1>1, <1>5 DEF Run
<1> HIDE DEF f
<1>7. RunType'
  BY <1>4, <1>5, <1>6, BecomeType DEF TypeInv
<1>8. DraftType' /\ faults' \in 0 .. MaxFaults
  BY <1>3, <1>4, PlaceType, FaultyType DEF TypeInv
<1>9. QueueType'
  BY <1>5 DEF TypeInv, QueueType, EndCall
<1> QED BY <1>7, <1>8, <1>9 DEF TypeInv, EndCall, ClockType, ClaimType, clock

(* The tail of a run keeps the type of the queue and of the runs.          *)
LEMMA CommitTypes ==
  ASSUME QueueType, RunType, NEW r \in Runs, Commit(r), UNCHANGED minted
  PROVE  QueueType' /\ RunType'
<1>1. runs[r] \in Run /\ runs[r].cards \subseteq DOMAIN minted
  BY DEF RunType
<1>2. QueueType'
  BY <1>1 DEF Commit, QueueType
<1> DEFINE f == Over(runs[r], "done")
<1>3. f \in Run /\ f.calls <= MaxCalls + 1 /\ f.cards \subseteq DOMAIN minted
  BY <1>1, OverType, AgentAssumption DEF Phase, Ended
<1>4. Become(r, f)
  BY DEF Commit
<1> HIDE DEF f
<1> QED BY <1>2, <1>3, <1>4, BecomeType

LEMMA EndsTypes ==
  ASSUME TypeInv, NEW r \in Runs, ModelEnds(r) \/ RuleEnds(r)
  PROVE  TypeInv'
<1>1. Commit(r) /\ UNCHANGED <<clock, claims, drafts, minted, life, faults>>
      /\ (failures' = 0 \/ UNCHANGED failures)
  BY DEF ModelEnds, RuleEnds
<1>2. QueueType' /\ RunType'
  BY <1>1, CommitTypes DEF TypeInv
<1> QED BY <1>1, <1>2 DEF TypeInv, ClockType, ClaimType, DraftType, clock

LEMMA ModelFailsTypes ==
  ASSUME TypeInv, NEW r \in Runs, ModelFails(r)
  PROVE  TypeInv'
<1>1. runs[r] \in Run
  BY DEF TypeInv, RunType
<1> DEFINE g == Over(runs[r], "listing")
           f == [g EXCEPT !.rules = TRUE]
<1>2. g \in Run /\ g.calls = 0 /\ g.cards = {}
  BY <1>1, OverType DEF Phase, Run
<1> HIDE DEF g
<1>3. f \in Run /\ f.calls = 0 /\ f.cards = {}
  BY <1>2 DEF Run
<1>4. Become(r, f)
  BY DEF ModelFails, g
<1> HIDE DEF f
<1>5. UNCHANGED <<clock, claims, drafts, queue, life, faults>> /\ failures' = failures + 1
  BY DEF ModelFails
<1>6. RunType'
  BY <1>3, <1>4, <1>5, BecomeType, AgentAssumption DEF TypeInv, queue
<1> QED BY <1>5, <1>6 DEF TypeInv, ClockType, ClaimType, DraftType, QueueType, clock, queue

LEMMA ListLowTypes ==
  ASSUME TypeInv, NEW r \in Runs, ListLow(r)
  PROVE  TypeInv'
<1>1. runs[r] \in Run /\ runs[r].calls <= MaxCalls + 1 /\ runs[r].cards \subseteq DOMAIN minted
  BY DEF TypeInv, RunType
<1>2. UNCHANGED <<clock, claims, failures, drafts, queue, life>>
  BY DEF ListLow
<1>3. CASE /\ \E low \in SUBSET Targets :
                Become(r, [runs[r] EXCEPT !.phase = "rule", !.asked = Once(low), !.low = low])
           /\ UNCHANGED faults
  <2>1. PICK low \in SUBSET Targets :
          Become(r, [runs[r] EXCEPT !.phase = "rule", !.asked = Once(low), !.low = low])
    BY <1>3
  <2> DEFINE f == [runs[r] EXCEPT !.phase = "rule", !.asked = Once(low), !.low = low]
  <2>2. f \in Run /\ f.calls = runs[r].calls /\ f.cards = runs[r].cards
    BY <1>1, OnceType DEF Run, Phase
  <2>3. Become(r, f)
    BY <2>1
  <2> HIDE DEF f
  <2>4. RunType'
    BY <1>1, <1>2, <2>2, <2>3, BecomeType DEF TypeInv, queue
  <2> QED BY <1>2, <1>3, <2>4
          DEF TypeInv, ClockType, ClaimType, DraftType, QueueType, clock, queue
<1>4. CASE /\ faults < MaxFaults /\ faults' = faults + 1
           /\ Become(r, Over(runs[r], "error"))
  <2> DEFINE f == Over(runs[r], "error")
  <2>1. f \in Run /\ f.calls <= MaxCalls + 1 /\ f.cards = {}
    BY <1>1, OverType, AgentAssumption DEF Phase, Ended
  <2>2. Become(r, f)
    BY <1>4
  <2> HIDE DEF f
  <2>3. RunType'
    BY <1>2, <2>1, <2>2, BecomeType DEF TypeInv, queue
  <2>4. faults' \in 0 .. MaxFaults
    BY <1>4, AgentAssumption DEF TypeInv, ClockType
  <2> QED BY <1>2, <2>3, <2>4
          DEF TypeInv, ClockType, ClaimType, DraftType, QueueType, clock, queue
<1> QED BY <1>3, <1>4 DEF ListLow

LEMMA RuleVisitTypes ==
  ASSUME TypeInv, NEW r \in Runs, RuleVisit(r)
  PROVE  TypeInv'
<1>1. runs[r] \in Run /\ runs[r].calls <= MaxCalls + 1 /\ runs[r].cards \subseteq DOMAIN minted
  BY DEF TypeInv, RunType
<1>2. PICK t \in Asked(r) :
        LET visited == [runs[r] EXCEPT !.asked = Without(@, t)]
        IN  \/ Become(r, visited) /\ UNCHANGED claims
            \/ /\ Become(r, [visited EXCEPT !.posting = {Key(t)}])
               /\ Claim(Key(t)) \/ UNCHANGED claims
  BY DEF RuleVisit
<1> DEFINE f == [runs[r] EXCEPT !.asked = Without(@, t)]
           g == [f EXCEPT !.posting = {Key(t)}]
<1>3. Key(t) \in Keys /\ Without(runs[r].asked, t) \in [Targets -> Nat]
  BY <1>1, KeyType, WithoutType DEF TypeInv
<1>4. f \in Run /\ f.calls = runs[r].calls /\ f.cards = runs[r].cards
  BY <1>1, <1>3 DEF Run
<1>5. Become(r, f) \/ Become(r, g)
  BY <1>2
<1>6. Claim(Key(t)) \/ UNCHANGED claims
  BY <1>2
<1> HIDE DEF f
<1>7. g \in Run /\ g.calls = runs[r].calls /\ g.cards = runs[r].cards
  BY <1>3, <1>4 DEF Run
<1> HIDE DEF g
<1>8. UNCHANGED <<clock, failures, drafts, queue, life, faults>>
  BY DEF RuleVisit
<1>9. RunType'
  BY <1>1, <1>4, <1>5, <1>7, <1>8, BecomeType DEF TypeInv, queue
<1>10. ClaimType'
  BY <1>3, <1>6, <1>8, ClaimKeepsType DEF TypeInv, ClaimType
<1> QED BY <1>8, <1>9, <1>10 DEF TypeInv, ClockType, DraftType, QueueType, clock, queue

(* What a rule run becomes with an answer.                                 *)
Told(r, k, o, made) == [runs[r] EXCEPT !.posting = {},
                          !.placed = IF o.placed THEN @ \cup {k} ELSE @,
                          !.cards = @ \cup MintedNow(made)]

LEMMA RulePostedTypes ==
  ASSUME TypeInv, NEW r \in Runs, RulePosted(r)
  PROVE  TypeInv'
<1>1. runs[r] \in Run /\ runs[r].calls <= MaxCalls + 1 /\ runs[r].cards \subseteq DOMAIN minted
  BY DEF TypeInv, RunType
<1>2. PICK k \in runs[r].posting, o \in Outcome :
        LET made == RulesCard(o.answer) /\ o.answer # "raised" IN
        /\ Faulty(o) /\ Place(k, o.placed, RulesClaim) /\ Mint(r, k, made)
        /\ Become(r, IF o.answer = "raised" THEN Over(Told(r, k, o, made), "error")
                                            ELSE Told(r, k, o, made))
  BY DEF RulePosted, Told
<1> DEFINE made == RulesCard(o.answer) /\ o.answer # "raised"
           f == Told(r, k, o, made)
           g == Over(f, "error")
<1>3. k \in Keys /\ made \in BOOLEAN /\ RulesClaim \in BOOLEAN /\ o.placed \in BOOLEAN
  BY <1>1 DEF Run, Outcome, RulesClaim, RulesCard
<1>4. /\ Faulty(o) /\ Place(k, o.placed, RulesClaim) /\ Mint(r, k, made)
      /\ Become(r, f) \/ Become(r, g)
  BY <1>2
<1> HIDE DEF made
<1>5. /\ minted' \in Seq(Card) /\ DOMAIN minted \subseteq DOMAIN minted'
      /\ MintedNow(made) \subseteq DOMAIN minted' /\ DOMAIN minted' \subseteq Nat
  BY <1>3, <1>4, MintType DEF TypeInv, ClockType
<1>6. f \in Run /\ f.calls <= MaxCalls + 1 /\ f.cards \subseteq DOMAIN minted'
  BY <1>1, <1>3, <1>5 DEF Run, Told
<1> HIDE DEF f
<1>7. g \in Run /\ g.calls <= MaxCalls + 1 /\ g.cards \subseteq DOMAIN minted'
  BY <1>6, OverType, AgentAssumption DEF Phase, Ended
<1> HIDE DEF g
<1>8. RunType'
  BY <1>4, <1>5, <1>6, <1>7, BecomeType DEF TypeInv
<1>9. DraftType' /\ faults' \in 0 .. MaxFaults
  BY <1>3, <1>4, PlaceType, FaultyType DEF TypeInv
<1>10. QueueType'
  BY <1>5 DEF TypeInv, QueueType, RulePosted
<1> QED BY <1>8, <1>9, <1>10 DEF TypeInv, RulePosted, ClockType, ClaimType, clock


LEMMA DecideTypes == TypeInv /\ Decide => TypeInv'
BY DEF TypeInv, Decide, ClockType, ClaimType, DraftType, QueueType, RunType, clock

LEMMA TickTypes == TypeInv /\ Tick => TypeInv'
<1> SUFFICES ASSUME TypeInv, Tick PROVE TypeInv'
  OBVIOUS
<1>1. ClockType'
  BY AgentAssumption DEF TypeInv, Tick, ClockType, Ticks
<1> QED BY <1>1 DEF TypeInv, Tick, ClaimType, DraftType, QueueType, RunType, queue

LEMMA RestartTypes == TypeInv /\ Restart => TypeInv'
<1> SUFFICES ASSUME TypeInv, Restart PROVE TypeInv'
  OBVIOUS
<1>1. ClockType' /\ ClaimType' /\ QueueType'
  BY AgentAssumption DEF TypeInv, Restart, ClockType, ClaimType, QueueType, Lives, clock, queue
<1>2. DraftType'
  <2>1. PICK S \in SUBSET Keys :
          drafts' = [drafts EXCEPT ![life] =
                       [k \in Keys |-> drafts[life][k] + IF k \in S THEN 1 ELSE 0]]
    BY DEF Restart
  <2>2. [k \in Keys |-> drafts[life][k] + IF k \in S THEN 1 ELSE 0] \in [Keys -> Nat]
    BY DEF TypeInv, ClockType, DraftType
  <2> QED BY <2>1, <2>2 DEF TypeInv, DraftType
<1>3. RunType'
  <2> DEFINE after(r) == IF runs[r].phase \in Ended \cup {"new"} THEN runs[r]
                         ELSE Over(runs[r], "lost")
  <2>1. runs' = [r \in Runs |-> after(r)] /\ UNCHANGED minted
    BY DEF Restart, queue
  <2>2. ASSUME NEW r \in Runs
        PROVE  /\ after(r) \in Run /\ after(r).calls <= MaxCalls + 1
               /\ after(r).cards \subseteq DOMAIN minted
    <3>1. runs[r] \in Run /\ runs[r].calls <= MaxCalls + 1
          /\ runs[r].cards \subseteq DOMAIN minted
      BY DEF TypeInv, RunType
    <3>2. Over(runs[r], "lost") \in Run /\ Over(runs[r], "lost").calls = 0
          /\ Over(runs[r], "lost").cards = {}
      BY <3>1, OverType DEF Phase, Ended
    <3> QED BY <3>1, <3>2, AgentAssumption
  <2> HIDE DEF after
  <2> QED BY <2>1, <2>2 DEF RunType
<1> QED BY <1>1, <1>2, <1>3 DEF TypeInv

-----------------------------------------------------------------------------
(* Type correctness                                                        *)

LEMMA InitTypes == Init => TypeInv
<1> SUFFICES ASSUME Init PROVE TypeInv
  OBVIOUS
<1>1. NewRun \in Run /\ NewRun.calls = 0 /\ NewRun.cards = {}
  BY NoneType DEF NewRun, Run, Phase, Ended
<1>2. RunType
  BY <1>1, AgentAssumption DEF Init, RunType
<1>3. QueueType
  BY DEF Init, QueueType
<1> QED BY <1>2, <1>3, AgentAssumption
        DEF Init, TypeInv, ClockType, ClaimType, DraftType, Ticks, Lives

LEMMA NextTypes == TypeInv /\ [Next]_vars => TypeInv'
<1> SUFFICES ASSUME TypeInv, [Next]_vars PROVE TypeInv'
  OBVIOUS
<1>1. ASSUME NEW r \in Runs, StartRun(r) PROVE TypeInv'
  BY <1>1, StartRunTypes
<1>2. ASSUME NEW r \in Runs, RunStep(r) PROVE TypeInv'
  BY <1>2, ModelCallsTypes, BeginCallTypes, EndCallTypes, EndsTypes, ModelFailsTypes,
     ListLowTypes, RuleVisitTypes, RulePostedTypes DEF RunStep
<1>3. CASE Decide \/ Tick \/ Restart
  BY <1>3, DecideTypes, TickTypes, RestartTypes
<1>4. CASE UNCHANGED vars
  BY <1>4 DEF vars, TypeInv, ClockType, ClaimType, DraftType, QueueType, RunType, clock, queue
<1> QED BY <1>1, <1>2, <1>3, <1>4 DEF Next

LEMMA TypeInvHolds == Spec => []TypeInv
BY InitTypes, NextTypes, PTL DEF Spec

(* Every variable of the runtime keeps its type, runs hold only cards that *)
(* were made, and the tool loop never counts past the call that stops it.  *)
THEOREM TypeCorrect == Spec => []TypeOK
BY TypeInvHolds, TypeInvIsTypeOK, PTL

-----------------------------------------------------------------------------
(* The end of a run                                                        *)

(* With a call less to begin, a run is nearer its end.                     *)
LEMMA OneLessToBegin ==
  ASSUME NEW r \in Runs, runs[r] \in Run, NEW t \in Asked(r), NEW f,
         f.phase = runs[r].phase, f.calls = runs[r].calls,
         f.asked = Without(runs[r].asked, t)
  PROVE  Nearer(runs[r], f)
<1>1. runs[r].asked \in [Targets -> Nat] /\ t \in Targets
  BY WithoutType DEF Run
<1>2. f.asked[t] = runs[r].asked[t] - 1 /\ runs[r].asked[t] \in Nat
  BY <1>1 DEF Without
<1>3. \A u \in Targets : f.asked[u] <= runs[r].asked[u]
  BY <1>1 DEF Without
<1> QED BY <1>2, <1>3 DEF Nearer

(* A step of a run brings its end nearer.                                  *)
LEMMA StepAdvances ==
  ASSUME TypeInv, NEW r \in Runs, RunStep(r)
  PROVE  \E f : Become(r, f) /\ Nearer(runs[r], f)
<1>1. runs[r] \in Run /\ runs[r].calls \in Nat
  BY DEF TypeInv, RunType, Run
<1>2. CASE ModelCalls(r)
  <2>1. PICK n \in 1 .. MaxCalls + 1 - runs[r].calls, S \in [Targets -> 0 .. MaxCalls] :
          Become(r, [runs[r] EXCEPT !.calls = @ + n, !.asked = S])
    BY <1>2 DEF ModelCalls
  <2> DEFINE f == [runs[r] EXCEPT !.calls = @ + n, !.asked = S]
  <2>2. f.phase = runs[r].phase /\ f.calls = runs[r].calls + n
    BY <1>1 DEF Run
  <2>3. n \in Int /\ n >= 1
    BY <1>1, AgentAssumption
  <2>4. Become(r, f)
    BY <2>1
  <2> HIDE DEF f
  <2>5. Nearer(runs[r], f)
    BY <1>1, <2>2, <2>3 DEF Nearer
  <2> QED BY <2>4, <2>5
<1>3. CASE BeginCall(r)
  <2>1. PICK t \in Asked(r) :
          \/ Become(r, [[runs[r] EXCEPT !.asked = Without(@, t)]
                          EXCEPT !.cards = @ \cup Duplicate])
          \/ Become(r, [[runs[r] EXCEPT !.asked = Without(@, t)]
                          EXCEPT !.posting = @ \cup {Key(t)}])
    BY <1>3 DEF BeginCall
  <2> DEFINE f == [[runs[r] EXCEPT !.asked = Without(@, t)] EXCEPT !.cards = @ \cup Duplicate]
             g == [[runs[r] EXCEPT !.asked = Without(@, t)] EXCEPT !.posting = @ \cup {Key(t)}]
  <2>2. /\ f.phase = runs[r].phase /\ f.calls = runs[r].calls
        /\ f.asked = Without(runs[r].asked, t)
        /\ g.phase = runs[r].phase /\ g.calls = runs[r].calls
        /\ g.asked = Without(runs[r].asked, t)
    BY <1>1 DEF Run
  <2>3. Become(r, f) \/ Become(r, g)
    BY <2>1
  <2> HIDE DEF f, g
  <2> QED BY <1>1, <2>2, <2>3, OneLessToBegin
<1>4. CASE EndCall(r)
  <2>1. PICK k \in runs[r].posting, o \in Outcome :
          Become(r, [runs[r] EXCEPT !.posting = @ \ {k},
                                    !.cards = @ \cup MintedNow(o.answer # "raised")])
    BY <1>4 DEF EndCall
  <2> DEFINE f == [runs[r] EXCEPT !.posting = @ \ {k},
                                  !.cards = @ \cup MintedNow(o.answer # "raised")]
  <2>2. /\ f.phase = runs[r].phase /\ f.calls = runs[r].calls /\ f.asked = runs[r].asked
        /\ f.posting = runs[r].posting \ {k}
    BY <1>1 DEF Run
  <2>3. Become(r, f)
    BY <2>1
  <2> HIDE DEF f
  <2>4. Nearer(runs[r], f)
    BY <2>2 DEF Nearer
  <2> QED BY <2>3, <2>4
<1>5. CASE ModelEnds(r) \/ RuleEnds(r)
  <2> DEFINE f == Over(runs[r], "done")
  <2>1. f.phase = "done" /\ runs[r].phase \in {"model", "rule"} /\ Become(r, f)
    BY <1>1, <1>5, OverType DEF ModelEnds, RuleEnds, Commit, Phase, Ended
  <2> HIDE DEF f
  <2>2. Nearer(runs[r], f)
    BY <2>1 DEF Nearer, Ahead
  <2> QED BY <2>1, <2>2
<1>6. CASE ModelFails(r)
  <2> DEFINE f == [Over(runs[r], "listing") EXCEPT !.rules = TRUE]
  <2>1. f.phase = "listing" /\ runs[r].phase = "model" /\ Become(r, f)
    BY <1>1, <1>6, OverType DEF ModelFails, Phase, Run
  <2> HIDE DEF f
  <2>2. Nearer(runs[r], f)
    BY <2>1 DEF Nearer, Ahead
  <2> QED BY <2>1, <2>2
<1>7. CASE ListLow(r)
  <2>1. runs[r].phase = "listing"
    BY <1>7 DEF ListLow
  <2>2. Over(runs[r], "error").phase = "error"
    BY <1>1, OverType DEF Phase, Ended
  <2>3. \A low \in SUBSET Targets :
          [runs[r] EXCEPT !.phase = "rule", !.asked = Once(low), !.low = low].phase = "rule"
    BY <1>1 DEF Run
  <2>4. PICK f : Become(r, f) /\ f.phase \in {"rule", "error"}
    BY <1>7, <2>2, <2>3 DEF ListLow
  <2>5. Nearer(runs[r], f)
    BY <2>1, <2>4 DEF Nearer, Ahead
  <2> QED BY <2>4, <2>5
<1>8. CASE RuleVisit(r)
  <2>1. PICK t \in Asked(r) :
          \/ Become(r, [runs[r] EXCEPT !.asked = Without(@, t)])
          \/ Become(r, [[runs[r] EXCEPT !.asked = Without(@, t)] EXCEPT !.posting = {Key(t)}])
    BY <1>8 DEF RuleVisit
  <2> DEFINE f == [runs[r] EXCEPT !.asked = Without(@, t)]
             g == [f EXCEPT !.posting = {Key(t)}]
  <2>2. /\ f.phase = runs[r].phase /\ f.calls = runs[r].calls
        /\ f.asked = Without(runs[r].asked, t)
        /\ g.phase = runs[r].phase /\ g.calls = runs[r].calls
        /\ g.asked = Without(runs[r].asked, t)
    BY <1>1 DEF Run
  <2>3. Become(r, f) \/ Become(r, g)
    BY <2>1
  <2> HIDE DEF f, g
  <2> QED BY <1>1, <2>2, <2>3, OneLessToBegin
<1>9. CASE RulePosted(r)
  <2>1. PICK k \in runs[r].posting, o \in Outcome :
          LET made == RulesCard(o.answer) /\ o.answer # "raised" IN
          Become(r, IF o.answer = "raised" THEN Over(Told(r, k, o, made), "error")
                                           ELSE Told(r, k, o, made))
    BY <1>9 DEF RulePosted, Told
  <2> DEFINE f == Told(r, k, o, RulesCard(o.answer) /\ o.answer # "raised")
  <2>2. runs[r].phase = "rule" /\ k \in runs[r].posting
    BY <1>9, <2>1 DEF RulePosted
  <2>3. /\ f.phase = runs[r].phase /\ f.calls = runs[r].calls /\ f.asked = runs[r].asked
        /\ f.posting = {}
    BY <1>1 DEF Told, Run
  <2>4. Over(f, "error").phase = "error"
    BY <1>1 DEF Over, Told, Run
  <2> HIDE DEF f
  <2>5. Become(r, f) \/ Become(r, Over(f, "error"))
    BY <2>1 DEF f
  <2>6. Nearer(runs[r], f)
    BY <2>2, <2>3 DEF Nearer
  <2>7. Nearer(runs[r], Over(f, "error"))
    BY <2>2, <2>4 DEF Nearer, Ahead
  <2> QED BY <2>5, <2>6, <2>7
<1> QED BY <1>2, <1>3, <1>4, <1>5, <1>6, <1>7, <1>8, <1>9 DEF RunStep

(* Whatever changes a run brings its end nearer: its own steps, by phase,  *)
(* budget, calls to begin and answers to wait for, and a crash.            *)
THEOREM RunsComeToAnEnd == Spec => RunsAdvance
<1> DEFINE Advance == \A r \in Runs : runs'[r] # runs[r] => Nearer(runs[r], runs'[r])
<1>1. ASSUME TypeInv, NEW r \in Runs, NEW f, Become(r, f), Nearer(runs[r], f) PROVE Advance
  BY <1>1 DEF Become, TypeInv, RunType
<1>2. ASSUME TypeInv, [Next]_vars PROVE Advance
  <2>1. ASSUME NEW r \in Runs, StartRun(r) PROVE Advance
    <3>1. runs[r] \in Run /\ runs[r].phase = "new"
      BY <1>2, <2>1 DEF TypeInv, RunType, StartRun
    <3>2. \A focus \in BOOLEAN :
            /\ [runs[r] EXCEPT !.phase = "model", !.focus = focus].phase = "model"
            /\ [runs[r] EXCEPT !.phase = "listing", !.focus = focus, !.rules = TRUE].phase
                 = "listing"
      BY <3>1 DEF Run
    <3>3. PICK f : Become(r, f) /\ f.phase \in {"model", "listing"}
      BY <2>1, <3>2 DEF StartRun
    <3>4. Nearer(runs[r], f)
      BY <3>1, <3>3 DEF Nearer, Ahead
    <3> QED BY <1>1, <1>2, <3>3, <3>4
  <2>2. ASSUME NEW r \in Runs, RunStep(r) PROVE Advance
    BY <1>1, <1>2, <2>2, StepAdvances
  <2>3. CASE Restart
    <3>1. ASSUME NEW r \in Runs, runs'[r] # runs[r] PROVE Nearer(runs[r], runs'[r])
      <4>1. runs[r] \in Run /\ runs[r].phase \in {"model", "listing", "rule"}
            /\ runs'[r] = Over(runs[r], "lost")
        BY <1>2, <2>3, <3>1 DEF Restart, TypeInv, RunType, Run, Phase
      <4>2. runs'[r].phase = "lost"
        BY <4>1, OverType DEF Phase, Ended
      <4> QED BY <4>1, <4>2 DEF Nearer, Ahead
    <3> QED BY <3>1
  <2>4. CASE Decide \/ Tick \/ UNCHANGED vars
    BY <2>4 DEF Decide, Tick, vars
  <2> QED BY <1>2, <2>1, <2>2, <2>3, <2>4 DEF Next
<1> QED BY <1>2, TypeInvHolds, PTL DEF Spec, RunsAdvance

-----------------------------------------------------------------------------
(* The circuit                                                             *)

(* Once the circuit is open and no model call is under way, only a restart *)
(* lets the model be tried again (record_success has no other caller).     *)
THEOREM OpenCircuitSticks == Spec => CircuitStaysOpen
<1>1. ASSUME TypeInv, [Next]_vars, Tripped PROVE Tripped' \/ life' # life
  <2>1. \A r \in Runs : runs[r].phase # "model"
    BY <1>1 DEF Tripped, ModelInUse
  <2>2. ASSUME NEW r \in Runs, NEW f, Become(r, f), f.phase # "model"
        PROVE  \A q \in Runs : runs'[q].phase # "model"
    BY <1>1, <2>1, <2>2 DEF Become, TypeInv, RunType
  <2>3. ASSUME NEW r \in Runs, StartRun(r) PROVE Tripped'
    <3>1. PICK focus \in BOOLEAN :
            Become(r, [runs[r] EXCEPT !.phase = "listing", !.focus = focus, !.rules = TRUE])
      BY <1>1, <2>3 DEF StartRun, Tripped
    <3>2. [runs[r] EXCEPT !.phase = "listing", !.focus = focus, !.rules = TRUE].phase # "model"
      BY <1>1 DEF TypeInv, RunType, Run
    <3> QED BY <1>1, <2>2, <2>3, <3>1, <3>2 DEF StartRun, Tripped, ModelInUse, AllowModel
  <2>4. ASSUME NEW r \in Runs, RunStep(r) PROVE Tripped'
    <3>1. UNCHANGED failures
      BY <2>1, <2>4
         DEF RunStep, ModelCalls, BeginCall, EndCall, ModelEnds, ModelFails, ListLow,
             RuleVisit, RulePosted, RuleEnds
    <3>2. \A q \in Runs : runs'[q].phase # "model"
      <4>1. runs[r] \in Run
        BY <1>1 DEF TypeInv, RunType
      <4>2. CASE ListLow(r)
        <5>1. Over(runs[r], "error").phase # "model"
          BY <4>1, OverType DEF Phase, Ended
        <5>2. \A low \in SUBSET Targets :
                [runs[r] EXCEPT !.phase = "rule", !.asked = Once(low), !.low = low].phase # "model"
          BY <4>1 DEF Run
        <5> QED BY <2>2, <4>2, <5>1, <5>2 DEF ListLow
      <4>3. CASE RuleVisit(r)
        BY <2>2, <4>1, <4>3 DEF RuleVisit, Run
      <4>4. CASE RulePosted(r)
        <5>1. PICK k \in runs[r].posting, o \in Outcome :
                LET made == RulesCard(o.answer) /\ o.answer # "raised" IN
                Become(r, IF o.answer = "raised" THEN Over(Told(r, k, o, made), "error")
                                                 ELSE Told(r, k, o, made))
          BY <4>4 DEF RulePosted, Told
        <5> DEFINE f == Told(r, k, o, RulesCard(o.answer) /\ o.answer # "raised")
        <5>2. f.phase = "rule"
          BY <4>1, <4>4 DEF Told, Run, RulePosted
        <5>3. Over(f, "error").phase = "error"
          BY <4>1 DEF Over, Told, Run
        <5> HIDE DEF f
        <5>4. Become(r, f) \/ Become(r, Over(f, "error"))
          BY <5>1 DEF f
        <5> QED BY <2>2, <5>2, <5>3, <5>4
      <4>5. CASE RuleEnds(r)
        BY <2>2, <4>1, <4>5, OverType DEF RuleEnds, Commit, Phase, Ended
      <4> QED BY <2>1, <2>4, <4>2, <4>3, <4>4, <4>5
              DEF RunStep, ModelCalls, BeginCall, EndCall, ModelEnds, ModelFails
    <3> QED BY <1>1, <3>1, <3>2 DEF Tripped, ModelInUse, AllowModel
  <2>5. CASE Decide \/ Tick
    BY <1>1, <2>5 DEF Decide, Tick, Tripped, ModelInUse, AllowModel
  <2>6. CASE Restart
    BY <1>1, <2>6 DEF Restart, TypeInv, ClockType, Lives
  <2>7. CASE UNCHANGED vars
    BY <1>1, <2>7 DEF vars, Tripped, ModelInUse, AllowModel
  <2> QED BY <1>1, <2>3, <2>4, <2>5, <2>6, <2>7 DEF Next
<1> QED BY <1>1, TypeInvHolds, PTL DEF Spec, CircuitStaysOpen


-----------------------------------------------------------------------------
(* One draft per key                                                       *)

(* A key that is claimed stays claimed until its bucket is over; a request *)
(* under a key is in flight for one run only, after the claim and before   *)
(* the draft.                                                              *)
BucketInv == began <= now /\ now < began + Window
QuietInv  == \A r \in Runs : runs[r].phase \notin {"model", "rule"} => runs[r].posting = {}
PostInv   == /\ \A r \in Runs, k \in Keys :
                  Posts(r, k) => claims[k] # 0 /\ drafts[life][k] = 0
             /\ \A r, s \in Runs, k \in Keys : Posts(r, k) /\ Posts(s, k) => r = s
KeepInv   == /\ \A k \in Keys : claims[k] # 0 => claims[k] >= k.began + Window
             /\ \A k \in Keys : drafts[life][k] # 0 => claims[k] # 0
OnceInv   == /\ \A l \in Lives, k \in Keys : drafts[l][k] <= 1
             /\ \A l \in Lives, k \in Keys : l > life => drafts[l][k] = 0

ClaimInv == BucketInv /\ QuietInv /\ PostInv /\ KeepInv /\ OnceInv

(* A run that changes without a new request disturbs nothing.              *)
LEMMA FrameClaims ==
  ASSUME TypeInv, ClaimInv, NEW r \in Runs, NEW f, Become(r, f),
         UNCHANGED <<clock, claims, drafts, life>>,
         \A k \in Keys : k \in f.posting /\ (f.phase = "model" \/ RulesClaim) => Posts(r, k),
         f.phase \notin {"model", "rule"} => f.posting = {}
  PROVE  ClaimInv'
<1>1. \A q \in Runs : runs'[q] = IF q = r THEN f ELSE runs[q]
  BY DEF Become, TypeInv, RunType
<1>2. \A q \in Runs, k \in Keys : Posts(q, k)' => Posts(q, k)
  BY <1>1 DEF Posts, RulesClaim
<1>3. QuietInv'
  BY <1>1 DEF ClaimInv, QuietInv
<1>4. PostInv'
  BY <1>2 DEF ClaimInv, PostInv
<1> QED BY <1>3, <1>4 DEF ClaimInv, BucketInv, KeepInv, OnceInv, clock

(* A key that is not claimed in its bucket was never claimed in this life. *)
LEMMA FreshKey ==
  ASSUME TypeInv, ClaimInv, NEW t \in Targets, ~Claimed(Key(t))
  PROVE  Key(t) \in Keys /\ claims[Key(t)] = 0
<1> DEFINE key == Key(t)
<1>1. key \in Keys /\ key.began = began
  BY KeyType DEF TypeInv
<1>2. now \in Nat /\ began \in Nat /\ Window \in Nat /\ claims[key] \in Nat
  BY <1>1, AgentAssumption DEF TypeInv, ClockType, ClaimType, Ticks
<1>3. claims[key] = 0
  BY <1>1, <1>2 DEF Claimed, ClaimInv, BucketInv, KeepInv
<1> QED BY <1>1, <1>3

(* A claim that succeeds is the first of its key.                          *)
LEMMA NewClaim ==
  ASSUME Ttl >= Window, TypeInv, ClaimInv, NEW r \in Runs, NEW f, NEW t \in Targets,
         ~Claimed(Key(t)), Claim(Key(t)), Become(r, f),
         UNCHANGED <<clock, drafts, life>>,
         f.phase = runs[r].phase, f.phase \in {"model", "rule"},
         f.posting \subseteq runs[r].posting \cup {Key(t)}
  PROVE  ClaimInv'
<1> DEFINE key == Key(t)
<1>1. key \in Keys /\ key.began = began
  BY KeyType DEF TypeInv
<1>2. /\ now \in Nat /\ began \in Nat /\ Ttl \in Nat /\ Window \in Nat \ {0}
      /\ claims[key] \in Nat /\ life \in Lives
  BY <1>1, AgentAssumption DEF TypeInv, ClockType, ClaimType, Ticks
<1>3. claims[key] = 0
  BY FreshKey
<1>4. /\ claims' = [claims EXCEPT ![key] = now + Ttl]
      /\ \A k \in Keys : claims'[k] = IF k = key THEN now + Ttl ELSE claims[k]
  BY <1>1 DEF Claim, TypeInv, ClaimType
<1>5. now + Ttl # 0 /\ now + Ttl >= key.began + Window
  BY <1>1, <1>2 DEF ClaimInv, BucketInv
<1>6. \A q \in Runs : runs'[q] = IF q = r THEN f ELSE runs[q]
  BY DEF Become, TypeInv, RunType
<1>7. \A q \in Runs : ~Posts(q, key)
  BY <1>1, <1>3 DEF ClaimInv, PostInv
<1>8. drafts[life][key] = 0
  BY <1>1, <1>3 DEF ClaimInv, KeepInv
<1> HIDE DEF key
<1>9. \A q \in Runs, k \in Keys : Posts(q, k)' => Posts(q, k) \/ (k = key /\ q = r)
  BY <1>6 DEF Posts, RulesClaim, key
<1>10. QuietInv'
  BY <1>6 DEF ClaimInv, QuietInv
<1>11. PostInv'
  BY <1>4, <1>5, <1>7, <1>8, <1>9 DEF ClaimInv, PostInv
<1>12. KeepInv'
  BY <1>4, <1>5 DEF ClaimInv, KeepInv
<1> QED BY <1>10, <1>11, <1>12 DEF ClaimInv, BucketInv, OnceInv, clock

(* An answer places at most the one draft of its request.                  *)
LEMMA NewDraft ==
  ASSUME TypeInv, ClaimInv, NEW r \in Runs, NEW f, NEW k \in runs[r].posting,
         NEW placed \in BOOLEAN, NEW keyed \in BOOLEAN, keyed => Posts(r, k),
         Place(k, placed, keyed), Become(r, f), UNCHANGED <<clock, claims, life>>,
         f.posting \subseteq runs[r].posting \ {k},
         f.phase = runs[r].phase \/ f.posting = {}
  PROVE  ClaimInv'
<1>1. k \in Keys /\ life \in Lives
  BY DEF TypeInv, RunType, Run, ClockType
<1>2. \A q \in Runs : runs'[q] = IF q = r THEN f ELSE runs[q]
  BY DEF Become, TypeInv, RunType
<1>3. \A q \in Runs, j \in Keys : Posts(q, j)' => Posts(q, j) /\ (q = r => j # k)
  BY <1>2 DEF Posts, RulesClaim
<1>4. QuietInv'
  BY <1>2 DEF ClaimInv, QuietInv
<1>5. CASE placed /\ keyed
  <2>1. Posts(r, k) /\ claims[k] # 0 /\ drafts[life][k] = 0
    BY <1>1, <1>5 DEF ClaimInv, PostInv
  <2>2. drafts' = [drafts EXCEPT ![life][k] = 1]
    BY <1>5, <2>1 DEF Place
  <2>3. \A l \in Lives, j \in Keys :
          drafts'[l][j] = IF l = life /\ j = k THEN 1 ELSE drafts[l][j]
    BY <1>1, <2>2 DEF TypeInv, DraftType
  <2>4. \A q \in Runs : ~Posts(q, k)'
    BY <1>1, <1>3, <2>1 DEF ClaimInv, PostInv
  <2>5. PostInv'
    BY <1>1, <1>3, <2>3, <2>4 DEF ClaimInv, PostInv
  <2>6. KeepInv' /\ OnceInv'
    BY <1>1, <2>1, <2>3 DEF ClaimInv, KeepInv, OnceInv, TypeInv, ClockType, Lives
  <2> QED BY <1>4, <2>5, <2>6 DEF ClaimInv, BucketInv, clock
<1>6. CASE ~(placed /\ keyed)
  <2>1. \A l \in Lives, j \in Keys : drafts'[l][j] = drafts[l][j]
    BY <1>1, <1>6 DEF Place, TypeInv, DraftType
  <2>2. PostInv'
    BY <1>1, <1>3, <2>1 DEF ClaimInv, PostInv
  <2>3. KeepInv' /\ OnceInv'
    BY <1>1, <2>1 DEF ClaimInv, KeepInv, OnceInv
  <2> QED BY <1>4, <2>2, <2>3 DEF ClaimInv, BucketInv, clock
<1> QED BY <1>5, <1>6


(* Every step of a run keeps the claims.                                   *)
LEMMA RunStepClaims ==
  ASSUME Ttl >= Window, TypeInv, ClaimInv, NEW r \in Runs, StartRun(r) \/ RunStep(r)
  PROVE  ClaimInv'
<1>1. runs[r] \in Run
  BY DEF TypeInv, RunType
<1>2. CASE StartRun(r)
  <2>1. PICK focus \in BOOLEAN :
          \/ Become(r, [runs[r] EXCEPT !.phase = "model", !.focus = focus])
          \/ Become(r, [runs[r] EXCEPT !.phase = "listing", !.focus = focus, !.rules = TRUE])
    BY <1>2 DEF StartRun
  <2> DEFINE f == [runs[r] EXCEPT !.phase = "model", !.focus = focus]
             g == [runs[r] EXCEPT !.phase = "listing", !.focus = focus, !.rules = TRUE]
  <2>2. runs[r].posting = {}
    BY <1>2 DEF StartRun, ClaimInv, QuietInv
  <2>3. f.posting = {} /\ g.posting = {}
    BY <1>1, <2>2 DEF Run
  <2>4. Become(r, f) \/ Become(r, g)
    BY <2>1
  <2> HIDE DEF f, g
  <2> QED BY <1>2, <2>3, <2>4, FrameClaims DEF StartRun
<1>3. CASE ModelCalls(r)
  <2>1. PICK n \in 1 .. MaxCalls + 1 - runs[r].calls, S \in [Targets -> 0 .. MaxCalls] :
          Become(r, [runs[r] EXCEPT !.calls = @ + n, !.asked = S])
    BY <1>3 DEF ModelCalls
  <2> DEFINE f == [runs[r] EXCEPT !.calls = @ + n, !.asked = S]
  <2>2. f.posting = {} /\ f.phase = "model"
    BY <1>1, <1>3 DEF ModelCalls, Idle, Run
  <2> HIDE DEF f
  <2> QED BY <1>3, <2>1, <2>2, FrameClaims DEF ModelCalls, f
<1>4. CASE BeginCall(r)
  <2>1. PICK t \in Asked(r) :
          LET begun == [runs[r] EXCEPT !.asked = Without(@, t)]
          IN  \/ /\ Become(r, [begun EXCEPT !.cards = @ \cup Duplicate])
                 /\ UNCHANGED claims
              \/ /\ ~Claimed(Key(t)) /\ Claim(Key(t))
                 /\ Become(r, [begun EXCEPT !.posting = @ \cup {Key(t)}])
    BY <1>4 DEF BeginCall
  <2> DEFINE f == [[runs[r] EXCEPT !.asked = Without(@, t)] EXCEPT !.cards = @ \cup Duplicate]
             g == [[runs[r] EXCEPT !.asked = Without(@, t)] EXCEPT !.posting = @ \cup {Key(t)}]
  <2>2. t \in Targets
    BY DEF Asked
  <2>3. /\ f.posting = runs[r].posting /\ f.phase = runs[r].phase
        /\ g.posting = runs[r].posting \cup {Key(t)} /\ g.phase = runs[r].phase
    BY <1>1 DEF Run
  <2>4. \/ Become(r, f) /\ UNCHANGED claims
        \/ ~Claimed(Key(t)) /\ Claim(Key(t)) /\ Become(r, g)
    BY <2>1
  <2> HIDE DEF f, g
  <2>5. runs[r].phase = "model" /\ UNCHANGED <<clock, drafts, life>>
    BY <1>4 DEF BeginCall
  <2>6. CASE Become(r, f) /\ UNCHANGED claims
    BY <2>3, <2>5, <2>6, FrameClaims DEF Posts
  <2>7. CASE ~Claimed(Key(t)) /\ Claim(Key(t)) /\ Become(r, g)
    BY <2>2, <2>3, <2>5, <2>7, NewClaim
  <2> QED BY <2>4, <2>6, <2>7
<1>5. CASE EndCall(r)
  <2>1. PICK k \in runs[r].posting, o \in Outcome :
          /\ Place(k, o.placed, TRUE)
          /\ Become(r, [runs[r] EXCEPT !.posting = @ \ {k},
                                       !.cards = @ \cup MintedNow(o.answer # "raised")])
    BY <1>5 DEF EndCall
  <2> DEFINE f == [runs[r] EXCEPT !.posting = @ \ {k},
                                  !.cards = @ \cup MintedNow(o.answer # "raised")]
  <2>2. f.posting = runs[r].posting \ {k} /\ f.phase = runs[r].phase
    BY <1>1 DEF Run
  <2>3. Posts(r, k) /\ o.placed \in BOOLEAN
    BY <1>5 DEF Posts, EndCall, Outcome
  <2>4. Become(r, f)
    BY <2>1
  <2> HIDE DEF f
  <2> QED BY <1>5, <2>1, <2>2, <2>3, <2>4, NewDraft DEF EndCall
<1>6. CASE ModelEnds(r) \/ RuleEnds(r)
  <2> DEFINE f == Over(runs[r], "done")
  <2>1. f.posting = {}
    BY <1>1, OverType DEF Phase, Ended
  <2>2. Become(r, f)
    BY <1>6 DEF ModelEnds, RuleEnds, Commit
  <2> HIDE DEF f
  <2> QED BY <1>6, <2>1, <2>2, FrameClaims DEF ModelEnds, RuleEnds
<1>7. CASE ModelFails(r)
  <2> DEFINE f == [Over(runs[r], "listing") EXCEPT !.rules = TRUE]
  <2>1. f.posting = {}
    BY <1>1, OverType DEF Phase, Run
  <2>2. Become(r, f)
    BY <1>7 DEF ModelFails
  <2> HIDE DEF f
  <2> QED BY <1>7, <2>1, <2>2, FrameClaims DEF ModelFails
<1>8. CASE ListLow(r)
  <2>1. runs[r].posting = {}
    BY <1>8 DEF ListLow, ClaimInv, QuietInv
  <2>2. UNCHANGED <<clock, claims, drafts, life>>
    BY <1>8 DEF ListLow
  <2>3. ASSUME NEW f, Become(r, f), f.posting = {} PROVE ClaimInv'
    BY <2>2, <2>3, FrameClaims
  <2>4. Over(runs[r], "error").posting = {}
    BY <1>1, OverType DEF Phase, Ended
  <2>5. \A low \in SUBSET Targets :
          [runs[r] EXCEPT !.phase = "rule", !.asked = Once(low), !.low = low].posting = {}
    BY <1>1, <2>1 DEF Run
  <2> QED BY <1>8, <2>3, <2>4, <2>5 DEF ListLow
<1>9. CASE RuleVisit(r)
  <2>1. PICK t \in Asked(r) :
          LET visited == [runs[r] EXCEPT !.asked = Without(@, t)]
          IN  \/ Become(r, visited) /\ UNCHANGED claims
              \/ /\ ~RulesClaim /\ UNCHANGED claims
                 /\ Become(r, [visited EXCEPT !.posting = {Key(t)}])
              \/ /\ ~Claimed(Key(t)) /\ Claim(Key(t))
                 /\ Become(r, [visited EXCEPT !.posting = {Key(t)}])
    BY <1>9 DEF RuleVisit
  <2> DEFINE f == [runs[r] EXCEPT !.asked = Without(@, t)]
             g == [f EXCEPT !.posting = {Key(t)}]
  <2>2. t \in Targets
    BY DEF Asked
  <2>3. f.posting = runs[r].posting /\ f.phase = runs[r].phase
        /\ g.posting = {Key(t)} /\ g.phase = runs[r].phase
    BY <1>1 DEF Run
  <2>4. \/ Become(r, f) /\ UNCHANGED claims
        \/ ~RulesClaim /\ UNCHANGED claims /\ Become(r, g)
        \/ ~Claimed(Key(t)) /\ Claim(Key(t)) /\ Become(r, g)
    BY <2>1
  <2> HIDE DEF f, g
  <2>5. runs[r].phase = "rule" /\ UNCHANGED <<clock, drafts, life>>
    BY <1>9 DEF RuleVisit
  <2>6. CASE Become(r, f) /\ UNCHANGED claims
    BY <2>3, <2>5, <2>6, FrameClaims DEF Posts
  <2>7. CASE ~RulesClaim /\ UNCHANGED claims /\ Become(r, g)
    BY <2>3, <2>5, <2>7, FrameClaims
  <2>8. CASE ~Claimed(Key(t)) /\ Claim(Key(t)) /\ Become(r, g)
    BY <2>2, <2>3, <2>5, <2>8, NewClaim
  <2> QED BY <2>4, <2>6, <2>7, <2>8
<1>10. CASE RulePosted(r)
  <2>1. PICK k \in runs[r].posting, o \in Outcome :
          LET made == RulesCard(o.answer) /\ o.answer # "raised" IN
          /\ Place(k, o.placed, RulesClaim)
          /\ Become(r, IF o.answer = "raised" THEN Over(Told(r, k, o, made), "error")
                                              ELSE Told(r, k, o, made))
    BY <1>10 DEF RulePosted, Told
  <2> DEFINE f == Told(r, k, o, RulesCard(o.answer) /\ o.answer # "raised")
             g == Over(f, "error")
  <2>2. f.posting = {} /\ g.posting = {}
    BY <1>1 DEF Told, Over, Run
  <2>3. /\ RulesClaim => Posts(r, k)
        /\ o.placed \in BOOLEAN /\ RulesClaim \in BOOLEAN
    BY DEF Posts, Outcome, RulesClaim
  <2>4. Become(r, f) \/ Become(r, g)
    BY <2>1
  <2> HIDE DEF f, g
  <2> QED BY <1>10, <2>1, <2>2, <2>3, <2>4, NewDraft DEF RulePosted
<1> QED BY <1>2, <1>3, <1>4, <1>5, <1>6, <1>7, <1>8, <1>9, <1>10 DEF RunStep

(* A crash forgets the claims, and starts a life without drafts; requests  *)
(* it leaves in flight place what they would have placed.                  *)
LEMMA RestartClaims == TypeInv /\ ClaimInv /\ Restart => ClaimInv'
<1> SUFFICES ASSUME TypeInv, ClaimInv, Restart PROVE ClaimInv'
  OBVIOUS
<1>1. PICK S \in SUBSET Keys :
        /\ \A k \in S : \E r \in Runs : Posts(r, k)
        /\ drafts' = [drafts EXCEPT ![life] =
                        [k \in Keys |-> drafts[life][k] + IF k \in S THEN 1 ELSE 0]]
  BY DEF Restart
<1>2. life \in Nat /\ life' = life + 1 /\ life \in Lives
  BY DEF Restart, TypeInv, ClockType, Lives
<1>3. \A l \in Lives, k \in Keys :
        drafts'[l][k] = IF l = life /\ k \in S THEN drafts[l][k] + 1 ELSE drafts[l][k]
  BY <1>1, <1>2 DEF TypeInv, DraftType
<1>4. \A k \in S : drafts[life][k] = 0
  BY <1>1 DEF ClaimInv, PostInv
<1>5. \A r \in Runs : runs'[r].posting = {}
  <2>1. ASSUME NEW r \in Runs PROVE runs'[r].posting = {}
    <3>1. CASE runs[r].phase \in Ended \cup {"new"}
      BY <3>1 DEF Restart, ClaimInv, QuietInv, Ended
    <3>2. CASE runs[r].phase \notin Ended \cup {"new"}
      <4>1. runs'[r] = Over(runs[r], "lost")
        BY <3>2 DEF Restart
      <4> QED BY <4>1, OverType DEF TypeInv, RunType, Phase, Ended
    <3> QED BY <3>1, <3>2
  <2> QED BY <2>1
<1>6. OnceInv'
  <2>1. \A l \in Lives, k \in Keys : drafts'[l][k] <= 1
    BY <1>3, <1>4 DEF ClaimInv, OnceInv
  <2>2. \A l \in Lives, k \in Keys : l > life' => drafts'[l][k] = 0
    BY <1>2, <1>3 DEF ClaimInv, OnceInv, Lives
  <2> QED BY <2>1, <2>2 DEF OnceInv
<1>7. KeepInv'
  <2>1. life' \in Lives /\ \A k \in Keys : drafts'[life'][k] = 0
    BY <1>2, <1>3, AgentAssumption DEF ClaimInv, OnceInv, Restart, Lives
  <2> QED BY <2>1 DEF Restart, KeepInv
<1> QED BY <1>5, <1>6, <1>7 DEF ClaimInv, BucketInv, QuietInv, PostInv, Posts, Restart, clock

(* While claims outlast their bucket, claims, requests and drafts agree.   *)
LEMMA ClaimInvHolds ==
  ASSUME Ttl >= Window
  PROVE  Spec => []ClaimInv
<1>1. Init => ClaimInv
  <2> SUFFICES ASSUME Init PROVE ClaimInv
    OBVIOUS
  <2>1. \A r \in Runs : runs[r].posting = {}
    BY DEF Init, NewRun
  <2> QED BY <2>1, AgentAssumption
          DEF Init, ClaimInv, BucketInv, QuietInv, PostInv, KeepInv, OnceInv, Posts, Lives
<1>2. TypeInv /\ ClaimInv /\ [Next]_vars => ClaimInv'
  <2> SUFFICES ASSUME TypeInv, ClaimInv, [Next]_vars PROVE ClaimInv'
    OBVIOUS
  <2>1. ASSUME NEW r \in Runs, StartRun(r) \/ RunStep(r) PROVE ClaimInv'
    BY <2>1, RunStepClaims
  <2>2. CASE Decide
    BY <2>2 DEF Decide, ClaimInv, BucketInv, QuietInv, PostInv, KeepInv, OnceInv, Posts, clock
  <2>3. CASE Tick
    <3>1. BucketInv'
      BY <2>3, AgentAssumption DEF Tick, ClaimInv, BucketInv, TypeInv, ClockType, Ticks
    <3> QED BY <2>3, <3>1 DEF Tick, ClaimInv, QuietInv, PostInv, KeepInv, OnceInv, Posts
  <2>4. CASE Restart
    BY <2>4, RestartClaims
  <2>5. CASE UNCHANGED vars
    BY <2>5 DEF vars, ClaimInv, BucketInv, QuietInv, PostInv, KeepInv, OnceInv, Posts, clock
  <2> QED BY <2>1, <2>2, <2>3, <2>4, <2>5 DEF Next
<1> QED BY <1>1, <1>2, TypeInvHolds, PTL DEF Spec

(* While claims outlast their bucket, the process never places two drafts  *)
(* under one key, whichever runs, turns and paths compete for it.  The     *)
(* assumption holds for the keys by hour (a claim lasts six), not for the  *)
(* keys by date.                                                           *)
THEOREM DraftsAreUnique ==
  ASSUME Ttl >= Window
  PROVE  Spec => []OneDraftPerKey
<1>1. ClaimInv => OneDraftPerKey
  BY DEF ClaimInv, OnceInv, OneDraftPerKey
<1> QED BY <1>1, ClaimInvHolds, PTL


-----------------------------------------------------------------------------
(* Drafts of the rules and their cards                                     *)

Covered(r, k, S) == \E i \in S : minted[i].run = r /\ minted[i].key = k

(* A run on the rules holds a card for what the rules placed, a run that   *)
(* is done has saved it, and before the rules nothing is placed.           *)
CoverInv ==
  \A r \in Runs :
    /\ runs[r].phase = "rule" => \A k \in runs[r].placed : Covered(r, k, runs[r].cards)
    /\ runs[r].phase = "done" => \A k \in runs[r].placed : Covered(r, k, saved)
    /\ runs[r].phase \in {"new", "model", "listing"} => runs[r].placed = {}

(* A run that changes alone needs to be looked at alone.                   *)
LEMMA CoverFrame ==
  ASSUME TypeInv, CoverInv, NEW r \in Runs, NEW f, Become(r, f),
         \A i \in DOMAIN minted : minted'[i] = minted[i],
         saved \subseteq saved',
         f.phase = "rule" => \A k \in f.placed : Covered(r, k, f.cards)',
         f.phase = "done" => \A k \in f.placed : Covered(r, k, saved)',
         f.phase \in {"new", "model", "listing"} => f.placed = {}
  PROVE  CoverInv'
<1>1. \A q \in Runs : runs'[q] = IF q = r THEN f ELSE runs[q]
  BY DEF Become, TypeInv, RunType
<1>2. ASSUME NEW q \in Runs, q # r
      PROVE  /\ runs[q].phase = "rule" =>
                  \A k \in runs[q].placed : Covered(q, k, runs[q].cards)'
             /\ runs[q].phase = "done" => \A k \in runs[q].placed : Covered(q, k, saved)'
             /\ runs[q].phase \in {"new", "model", "listing"} => runs[q].placed = {}
  <2>1. runs[q].cards \subseteq DOMAIN minted /\ saved \subseteq DOMAIN minted
    BY DEF TypeInv, RunType, QueueType
  <2>2. runs'[q] = runs[q]
    BY <1>1, <1>2
  <2> QED BY <2>1, <2>2 DEF CoverInv, Covered
<1> QED BY <1>1, <1>2 DEF CoverInv, Covered


(* Every step of a run keeps its drafts covered.                           *)
LEMMA RunStepCover ==
  ASSUME Agent # "churn_prevention", TypeInv, CoverInv, NEW r \in Runs,
         StartRun(r) \/ RunStep(r)
  PROVE  CoverInv'
<1>1. /\ runs[r] \in Run /\ runs[r].cards \subseteq DOMAIN minted
      /\ minted \in Seq(Card) /\ saved \subseteq DOMAIN minted /\ life \in Lives
  BY DEF TypeInv, RunType, QueueType, ClockType
<1>2. ASSUME NEW f, Become(r, f), UNCHANGED <<minted, saved>>,
             runs[r].phase # "rule" => runs[r].placed = {},
             f.placed = runs[r].placed, f.phase # "done",
             f.phase = "rule" => \/ runs[r].phase = "rule" /\ f.cards = runs[r].cards
                                 \/ f.placed = {},
             f.phase \in {"new", "model", "listing"} => f.placed = {}
      PROVE  CoverInv'
  <2>1. f.phase = "rule" => \A k \in f.placed : Covered(r, k, f.cards)'
    BY <1>2 DEF CoverInv, Covered
  <2> QED BY <1>2, <2>1, CoverFrame
<1>3. CASE StartRun(r)
  <2>1. runs[r].placed = {} /\ runs[r].phase = "new"
    BY <1>3 DEF StartRun, CoverInv
  <2>2. \A focus \in BOOLEAN :
          LET f == [runs[r] EXCEPT !.phase = "model", !.focus = focus]
              g == [runs[r] EXCEPT !.phase = "listing", !.focus = focus, !.rules = TRUE]
          IN  f.placed = {} /\ g.placed = {} /\ f.phase = "model" /\ g.phase = "listing"
    BY <1>1, <2>1 DEF Run
  <2>3. PICK f : Become(r, f) /\ f.placed = {} /\ f.phase \in {"model", "listing"}
    BY <1>3, <2>2 DEF StartRun
  <2> QED BY <1>2, <1>3, <2>1, <2>3 DEF StartRun, queue
<1>4. CASE ModelCalls(r) \/ BeginCall(r)
  <2>1. runs[r].placed = {} /\ runs[r].phase = "model"
    BY <1>4 DEF ModelCalls, BeginCall, CoverInv
  <2>2. PICK f : Become(r, f) /\ f.placed = {} /\ f.phase = "model"
    <3>1. CASE ModelCalls(r)
      <4>1. PICK n \in 1 .. MaxCalls + 1 - runs[r].calls, S \in [Targets -> 0 .. MaxCalls] :
              Become(r, [runs[r] EXCEPT !.calls = @ + n, !.asked = S])
        BY <3>1 DEF ModelCalls
      <4> DEFINE f == [runs[r] EXCEPT !.calls = @ + n, !.asked = S]
      <4>2. f.placed = {} /\ f.phase = "model"
        BY <1>1, <2>1 DEF Run
      <4>3. Become(r, f)
        BY <4>1
      <4> HIDE DEF f
      <4> QED BY <4>2, <4>3
    <3>2. CASE BeginCall(r)
      <4>1. PICK t \in Asked(r) :
              \/ Become(r, [[runs[r] EXCEPT !.asked = Without(@, t)]
                              EXCEPT !.cards = @ \cup Duplicate])
              \/ Become(r, [[runs[r] EXCEPT !.asked = Without(@, t)]
                              EXCEPT !.posting = @ \cup {Key(t)}])
        BY <3>2 DEF BeginCall
      <4> DEFINE f == [[runs[r] EXCEPT !.asked = Without(@, t)] EXCEPT !.cards = @ \cup Duplicate]
                 g == [[runs[r] EXCEPT !.asked = Without(@, t)] EXCEPT !.posting = @ \cup {Key(t)}]
      <4>2. f.placed = {} /\ f.phase = "model" /\ g.placed = {} /\ g.phase = "model"
        BY <1>1, <2>1 DEF Run
      <4>3. Become(r, f) \/ Become(r, g)
        BY <4>1
      <4> HIDE DEF f, g
      <4> QED BY <4>2, <4>3
    <3> QED BY <1>4, <3>1, <3>2
  <2> QED BY <1>2, <1>4, <2>1, <2>2 DEF ModelCalls, BeginCall, queue
<1>5. CASE EndCall(r)
  <2>1. runs[r].placed = {} /\ runs[r].phase = "model"
    BY <1>5 DEF EndCall, CoverInv
  <2>2. PICK k \in runs[r].posting, o \in Outcome :
          /\ Mint(r, k, o.answer # "raised")
          /\ Become(r, [runs[r] EXCEPT !.posting = @ \ {k},
                                       !.cards = @ \cup MintedNow(o.answer # "raised")])
    BY <1>5 DEF EndCall
  <2> DEFINE f == [runs[r] EXCEPT !.posting = @ \ {k},
                                  !.cards = @ \cup MintedNow(o.answer # "raised")]
  <2>3. f.placed = {} /\ f.phase = "model" /\ k \in Keys
    BY <1>1, <2>1 DEF Run
  <2>4. \A i \in DOMAIN minted : minted'[i] = minted[i]
    BY <1>1, <2>2, <2>3, MintType DEF TypeInv
  <2>5. Become(r, f)
    BY <2>2
  <2> HIDE DEF f
  <2> QED BY <1>5, <2>3, <2>4, <2>5, CoverFrame DEF EndCall
<1>6. CASE ModelEnds(r) \/ RuleEnds(r)
  <2> DEFINE f == Over(runs[r], "done")
  <2>1. f.placed = runs[r].placed /\ f.phase = "done"
    BY <1>1, OverType DEF Phase, Ended
  <2>2. Become(r, f) /\ saved' = saved \cup runs[r].cards /\ UNCHANGED minted
    BY <1>6 DEF ModelEnds, RuleEnds, Commit
  <2> HIDE DEF f
  <2>3. \A k \in f.placed : Covered(r, k, saved)'
    BY <1>6, <2>1, <2>2 DEF ModelEnds, RuleEnds, CoverInv, Covered
  <2> QED BY <2>1, <2>2, <2>3, CoverFrame
<1>7. CASE ModelFails(r)
  <2> DEFINE f == [Over(runs[r], "listing") EXCEPT !.rules = TRUE]
  <2>1. runs[r].placed = {} /\ runs[r].phase = "model"
    BY <1>7 DEF ModelFails, CoverInv
  <2>2. f.placed = {} /\ f.phase = "listing"
    BY <1>1, <2>1, OverType DEF Phase, Run
  <2>3. Become(r, f)
    BY <1>7 DEF ModelFails
  <2> HIDE DEF f
  <2> QED BY <1>2, <1>7, <2>1, <2>2, <2>3 DEF ModelFails, queue
<1>8. CASE ListLow(r)
  <2>1. runs[r].placed = {} /\ runs[r].phase = "listing" /\ UNCHANGED <<minted, saved>>
    BY <1>8 DEF ListLow, CoverInv, queue
  <2>2. Over(runs[r], "error").placed = {} /\ Over(runs[r], "error").phase = "error"
    BY <1>1, <2>1, OverType DEF Phase, Ended
  <2>3. \A low \in SUBSET Targets :
          LET f == [runs[r] EXCEPT !.phase = "rule", !.asked = Once(low), !.low = low]
          IN  f.placed = {} /\ f.phase = "rule"
    BY <1>1, <2>1 DEF Run
  <2>4. PICK f : Become(r, f) /\ f.placed = {} /\ f.phase \in {"rule", "error"}
    BY <1>8, <2>2, <2>3 DEF ListLow
  <2> QED BY <1>2, <2>1, <2>4
<1>9. CASE RuleVisit(r)
  <2>1. PICK t \in Asked(r) :
          \/ Become(r, [runs[r] EXCEPT !.asked = Without(@, t)])
          \/ Become(r, [[runs[r] EXCEPT !.asked = Without(@, t)] EXCEPT !.posting = {Key(t)}])
    BY <1>9 DEF RuleVisit
  <2>2. PICK f : /\ Become(r, f) /\ f.placed = runs[r].placed
                 /\ f.phase = runs[r].phase /\ f.cards = runs[r].cards
    <3> DEFINE f == [runs[r] EXCEPT !.asked = Without(@, t)]
               g == [f EXCEPT !.posting = {Key(t)}]
    <3>1. /\ f.placed = runs[r].placed /\ f.phase = runs[r].phase /\ f.cards = runs[r].cards
          /\ g.placed = runs[r].placed /\ g.phase = runs[r].phase /\ g.cards = runs[r].cards
      BY <1>1 DEF Run
    <3>2. Become(r, f) \/ Become(r, g)
      BY <2>1
    <3> HIDE DEF f, g
    <3> QED BY <3>1, <3>2
  <2> QED BY <1>2, <1>9, <2>2 DEF RuleVisit, queue
<1>10. CASE RulePosted(r)
  <2>1. PICK k \in runs[r].posting, o \in Outcome :
          LET made == RulesCard(o.answer) /\ o.answer # "raised" IN
          /\ Mint(r, k, made)
          /\ Become(r, IF o.answer = "raised" THEN Over(Told(r, k, o, made), "error")
                                              ELSE Told(r, k, o, made))
    BY <1>10 DEF RulePosted, Told
  <2> DEFINE made == RulesCard(o.answer) /\ o.answer # "raised"
             f == Told(r, k, o, made)
             g == Over(f, "error")
  <2>2. k \in Keys /\ made \in BOOLEAN /\ runs[r].phase = "rule" /\ UNCHANGED saved
    BY <1>1, <1>10 DEF Run, RulesCard, RulePosted
  <2>3. o.answer # "raised" /\ o.placed => made
    BY AgentAssumption DEF Outcome, RulesCard, Agents
  <2>4. g.phase = "error"
    BY <1>1 DEF Over, Told, Run
  <2>5. /\ f.phase = "rule" /\ f.cards = runs[r].cards \cup MintedNow(made)
        /\ f.placed = IF o.placed THEN runs[r].placed \cup {k} ELSE runs[r].placed
    BY <1>1, <2>2 DEF Told, Run
  <2>6. Mint(r, k, made) /\ Become(r, IF o.answer = "raised" THEN g ELSE f)
    BY <2>1
  <2> HIDE DEF made, f, g
  <2>7. /\ \A i \in DOMAIN minted : minted'[i] = minted[i]
        /\ made => \E i \in MintedNow(made) : minted'[i].run = r /\ minted'[i].key = k
    BY <1>1, <2>2, <2>6, MintType DEF TypeInv
  <2>8. CASE o.answer = "raised"
    BY <2>2, <2>4, <2>6, <2>7, <2>8, CoverFrame
  <2>9. CASE o.answer # "raised"
    <3>1. ASSUME NEW j \in f.placed
          PROVE  \E i \in f.cards : minted'[i].run = r /\ minted'[i].key = j
      <4>1. CASE j \in runs[r].placed
        BY <1>1, <2>2, <2>5, <2>7, <4>1 DEF CoverInv, Covered
      <4>2. CASE j \notin runs[r].placed
        BY <2>3, <2>5, <2>7, <2>9, <3>1, <4>2
      <4> QED BY <4>1, <4>2
    <3>2. PICK h : h = f
      OBVIOUS
    <3>3. \A j \in h.placed : Covered(r, j, h.cards)'
      BY <3>1, <3>2 DEF Covered
    <3>4. Become(r, h) /\ h.phase = "rule"
      BY <2>5, <2>6, <2>9, <3>2
    <3> QED BY <2>2, <2>7, <3>3, <3>4, CoverFrame
  <2> QED BY <2>8, <2>9
<1> QED BY <1>3, <1>4, <1>5, <1>6, <1>7, <1>8, <1>9, <1>10 DEF RunStep


(* A run that ends on the rules without an error leaves a card in the queue *)
(* for every draft the rules placed, for every agent but churn_prevention.  *)
THEOREM RulesLeaveCards ==
  ASSUME Agent # "churn_prevention"
  PROVE  Spec => []FallbackDraftsHaveCards
<1>1. Init => CoverInv
  BY DEF Init, CoverInv, NewRun
<1>2. TypeInv /\ CoverInv /\ [Next]_vars => CoverInv'
  <2> SUFFICES ASSUME TypeInv, CoverInv, [Next]_vars PROVE CoverInv'
    OBVIOUS
  <2>1. ASSUME NEW r \in Runs, StartRun(r) \/ RunStep(r) PROVE CoverInv'
    BY <2>1, RunStepCover
  <2>2. CASE Decide \/ Tick
    BY <2>2 DEF Decide, Tick, CoverInv, Covered, queue
  <2>3. CASE Restart
    <3>1. UNCHANGED <<minted, saved>>
      BY <2>3 DEF Restart, queue
    <3>2. ASSUME NEW r \in Runs
          PROVE  runs'[r] = runs[r] \/ runs'[r].phase = "lost"
      BY <2>3, OverType DEF Restart, TypeInv, RunType, Phase, Ended
    <3> QED BY <3>1, <3>2 DEF CoverInv, Covered
  <2>4. CASE UNCHANGED vars
    BY <2>4 DEF vars, queue, CoverInv, Covered
  <2> QED BY <2>1, <2>2, <2>3, <2>4 DEF Next
<1>3. CoverInv => FallbackDraftsHaveCards
  BY DEF CoverInv, Covered, FallbackDraftsHaveCards
<1> QED BY <1>1, <1>2, <1>3, TypeInvHolds, PTL DEF Spec


-----------------------------------------------------------------------------
(* One card per key                                                        *)

(* A card of this life stands for a key that is claimed and whose request  *)
(* is over; so no other card comes to stand for it.                        *)
TwinInv ==
  /\ \A i \in DOMAIN minted :
       /\ minted[i].life <= life
       /\ minted[i].life = life => /\ claims[minted[i].key] # 0
                                   /\ \A r \in Runs : ~Posts(r, minted[i].key)
  /\ \A i, j \in DOMAIN minted : i # j => \/ minted[i].key # minted[j].key
                                          \/ minted[i].life # minted[j].life

(* What a step of a run does to requests, claims and cards: nothing new; a *)
(* claim that succeeds, for one request; or the answer to one request, and *)
(* at most one card, of a request made under a claim.                      *)
Quietly(r) ==
  /\ UNCHANGED <<claims, minted, life>>
  /\ \A q \in Runs, k \in Keys : Posts(q, k)' => Posts(q, k)

Claims(r) ==
  /\ UNCHANGED <<minted, life>>
  /\ \E t \in Targets :
       /\ ~Claimed(Key(t)) /\ Claim(Key(t))
       /\ \A q \in Runs, k \in Keys : Posts(q, k)' => Posts(q, k) \/ k = Key(t)

Answers(r) ==
  /\ UNCHANGED <<claims, life>>
  /\ \E k \in Keys, made \in BOOLEAN :
       /\ Mint(r, k, made) /\ (made => Posts(r, k))
       /\ \A q \in Runs, j \in Keys : Posts(q, j)' => Posts(q, j) /\ (q = r => j # k)

(* The requests in flight after one run has changed.                       *)
LEMMA PostsOf ==
  ASSUME TypeInv, NEW r \in Runs, NEW f, Become(r, f), NEW q \in Runs, NEW k \in Keys,
         Posts(q, k)'
  PROVE  IF q = r THEN k \in f.posting /\ (f.phase = "model" \/ RulesClaim) ELSE Posts(q, k)
BY DEF Become, TypeInv, RunType, Posts, RulesClaim

(* A run that ends, or turns to the rules, has no request in flight.       *)
LEMMA NoRequest ==
  ASSUME TypeInv, NEW r \in Runs, NEW f, Become(r, f),
         f.posting = {} \/ (f.posting = runs[r].posting /\ f.phase = runs[r].phase),
         UNCHANGED <<claims, minted, life>>
  PROVE  Quietly(r)
BY PostsOf DEF Quietly, Posts

LEMMA StepOnClaims ==
  ASSUME Agent \in {"inventory_reorder", "churn_prevention"},
         TypeInv, ClaimInv, NEW r \in Runs, StartRun(r) \/ RunStep(r)
  PROVE  Quietly(r) \/ Claims(r) \/ Answers(r)
<1>1. runs[r] \in Run
  BY DEF TypeInv, RunType
<1>2. CASE StartRun(r)
  <2>1. PICK focus \in BOOLEAN :
          \/ Become(r, [runs[r] EXCEPT !.phase = "model", !.focus = focus])
          \/ Become(r, [runs[r] EXCEPT !.phase = "listing", !.focus = focus, !.rules = TRUE])
    BY <1>2 DEF StartRun
  <2> DEFINE f == [runs[r] EXCEPT !.phase = "model", !.focus = focus]
             g == [runs[r] EXCEPT !.phase = "listing", !.focus = focus, !.rules = TRUE]
  <2>2. f.posting = {} /\ g.posting = {}
    BY <1>1, <1>2 DEF StartRun, ClaimInv, QuietInv, Run
  <2>3. Become(r, f) \/ Become(r, g)
    BY <2>1
  <2> HIDE DEF f, g
  <2> QED BY <1>2, <2>2, <2>3, NoRequest DEF StartRun, queue
<1>3. CASE ModelCalls(r)
  <2>1. PICK n \in 1 .. MaxCalls + 1 - runs[r].calls, S \in [Targets -> 0 .. MaxCalls] :
          Become(r, [runs[r] EXCEPT !.calls = @ + n, !.asked = S])
    BY <1>3 DEF ModelCalls
  <2> DEFINE f == [runs[r] EXCEPT !.calls = @ + n, !.asked = S]
  <2>2. f.posting = {}
    BY <1>1, <1>3 DEF ModelCalls, Idle, Run
  <2>3. Become(r, f)
    BY <2>1
  <2> HIDE DEF f
  <2> QED BY <1>3, <2>2, <2>3, NoRequest DEF ModelCalls, queue
<1>4. CASE BeginCall(r)
  <2>1. PICK t \in Asked(r) :
          LET begun == [runs[r] EXCEPT !.asked = Without(@, t)]
          IN  \/ /\ Become(r, [begun EXCEPT !.cards = @ \cup Duplicate])
                 /\ UNCHANGED claims
              \/ /\ ~Claimed(Key(t)) /\ Claim(Key(t))
                 /\ Become(r, [begun EXCEPT !.posting = @ \cup {Key(t)}])
    BY <1>4 DEF BeginCall
  <2> DEFINE f == [[runs[r] EXCEPT !.asked = Without(@, t)] EXCEPT !.cards = @ \cup Duplicate]
             g == [[runs[r] EXCEPT !.asked = Without(@, t)] EXCEPT !.posting = @ \cup {Key(t)}]
  <2>2. t \in Targets /\ UNCHANGED <<minted, life>> /\ runs[r].phase = "model"
    BY <1>4 DEF BeginCall, Asked, queue
  <2>3. /\ f.posting = runs[r].posting /\ f.phase = runs[r].phase
        /\ g.posting = runs[r].posting \cup {Key(t)}
    BY <1>1 DEF Run
  <2>4. \/ Become(r, f) /\ UNCHANGED claims
        \/ ~Claimed(Key(t)) /\ Claim(Key(t)) /\ Become(r, g)
    BY <2>1
  <2> HIDE DEF f, g
  <2>5. CASE Become(r, f) /\ UNCHANGED claims
    BY <2>2, <2>3, <2>5, NoRequest
  <2>6. CASE ~Claimed(Key(t)) /\ Claim(Key(t)) /\ Become(r, g)
    <3>1. \A q \in Runs, k \in Keys : Posts(q, k)' => Posts(q, k) \/ k = Key(t)
      BY <2>2, <2>3, <2>6, PostsOf DEF Posts
    <3> QED BY <2>2, <2>6, <3>1 DEF Claims
  <2> QED BY <2>4, <2>5, <2>6
<1>5. CASE EndCall(r)
  <2>1. PICK k \in runs[r].posting, o \in Outcome :
          /\ Mint(r, k, o.answer # "raised")
          /\ Become(r, [runs[r] EXCEPT !.posting = @ \ {k},
                                       !.cards = @ \cup MintedNow(o.answer # "raised")])
    BY <1>5 DEF EndCall
  <2> DEFINE made == o.answer # "raised"
             f == [runs[r] EXCEPT !.posting = @ \ {k}, !.cards = @ \cup MintedNow(made)]
  <2>2. f.posting = runs[r].posting \ {k}
    BY <1>1 DEF Run
  <2>3. Posts(r, k) /\ k \in Keys /\ UNCHANGED <<claims, life>> /\ runs[r].phase = "model"
    BY <1>1, <1>5 DEF Posts, EndCall, Run
  <2>4. Become(r, f) /\ Mint(r, k, made) /\ made \in BOOLEAN
    BY <2>1
  <2> HIDE DEF f, made
  <2>5. \A q \in Runs, j \in Keys : Posts(q, j)' => Posts(q, j) /\ (q = r => j # k)
    BY <2>2, <2>3, <2>4, PostsOf DEF Posts
  <2> QED BY <2>3, <2>4, <2>5 DEF Answers
<1>6. CASE ModelEnds(r) \/ RuleEnds(r)
  <2> DEFINE f == Over(runs[r], "done")
  <2>1. f.posting = {} /\ Become(r, f)
    BY <1>1, <1>6, OverType DEF ModelEnds, RuleEnds, Commit, Phase, Ended
  <2> HIDE DEF f
  <2> QED BY <1>6, <2>1, NoRequest DEF ModelEnds, RuleEnds
<1>7. CASE ModelFails(r)
  <2> DEFINE f == [Over(runs[r], "listing") EXCEPT !.rules = TRUE]
  <2>1. f.posting = {}
    BY <1>1, OverType DEF Phase, Run
  <2>2. Become(r, f)
    BY <1>7 DEF ModelFails
  <2> HIDE DEF f
  <2> QED BY <1>7, <2>1, <2>2, NoRequest DEF ModelFails, queue
<1>8. CASE ListLow(r)
  <2>1. Over(runs[r], "error").posting = {}
    BY <1>1, OverType DEF Phase, Ended
  <2>2. \A low \in SUBSET Targets :
          [runs[r] EXCEPT !.phase = "rule", !.asked = Once(low), !.low = low].posting = {}
    BY <1>1, <1>8 DEF ListLow, ClaimInv, QuietInv, Run
  <2>3. PICK f : Become(r, f) /\ f.posting = {}
    BY <1>8, <2>1, <2>2 DEF ListLow
  <2> QED BY <1>8, <2>3, NoRequest DEF ListLow, queue
<1>9. CASE RuleVisit(r)
  <2>1. PICK t \in Asked(r) :
          LET visited == [runs[r] EXCEPT !.asked = Without(@, t)]
          IN  \/ Become(r, visited) /\ UNCHANGED claims
              \/ /\ ~RulesClaim /\ UNCHANGED claims
                 /\ Become(r, [visited EXCEPT !.posting = {Key(t)}])
              \/ /\ ~Claimed(Key(t)) /\ Claim(Key(t))
                 /\ Become(r, [visited EXCEPT !.posting = {Key(t)}])
    BY <1>9 DEF RuleVisit
  <2> DEFINE f == [runs[r] EXCEPT !.asked = Without(@, t)]
             g == [f EXCEPT !.posting = {Key(t)}]
  <2>2. t \in Targets /\ UNCHANGED <<minted, life>> /\ runs[r].phase = "rule"
    BY <1>9 DEF RuleVisit, Asked, queue
  <2>3. /\ f.posting = runs[r].posting /\ f.phase = runs[r].phase
        /\ g.posting = {Key(t)} /\ g.phase = "rule"
    BY <1>1, <2>2 DEF Run
  <2>4. \/ Become(r, f) /\ UNCHANGED claims
        \/ ~RulesClaim /\ UNCHANGED claims /\ Become(r, g)
        \/ ~Claimed(Key(t)) /\ Claim(Key(t)) /\ Become(r, g)
    BY <2>1
  <2> HIDE DEF f, g
  <2>5. CASE Become(r, f) /\ UNCHANGED claims
    BY <2>2, <2>3, <2>5, NoRequest
  <2>6. CASE ~RulesClaim /\ UNCHANGED claims /\ Become(r, g)
    BY <2>2, <2>3, <2>6, PostsOf DEF Quietly
  <2>7. CASE ~Claimed(Key(t)) /\ Claim(Key(t)) /\ Become(r, g)
    <3>1. \A q \in Runs, k \in Keys : Posts(q, k)' => Posts(q, k) \/ k = Key(t)
      BY <2>3, <2>7, PostsOf
    <3> QED BY <2>2, <2>7, <3>1 DEF Claims
  <2> QED BY <2>4, <2>5, <2>6, <2>7
<1>10. CASE RulePosted(r)
  <2>1. PICK k \in runs[r].posting, o \in Outcome :
          LET made == RulesCard(o.answer) /\ o.answer # "raised" IN
          /\ Mint(r, k, made)
          /\ Become(r, IF o.answer = "raised" THEN Over(Told(r, k, o, made), "error")
                                              ELSE Told(r, k, o, made))
    BY <1>10 DEF RulePosted, Told
  <2> DEFINE made == RulesCard(o.answer) /\ o.answer # "raised"
             f == Told(r, k, o, made)
             g == Over(f, "error")
  <2>2. f.posting = {} /\ g.posting = {}
    BY <1>1 DEF Told, Over, Run
  <2>3. /\ made => RulesClaim
        /\ made \in BOOLEAN
    BY DEF RulesCard, RulesClaim
  <2>4. Mint(r, k, made) /\ (Become(r, f) \/ Become(r, g))
    BY <2>1
  <2> HIDE DEF f, g, made
  <2>5. k \in Keys /\ UNCHANGED <<claims, life>> /\ (made => Posts(r, k))
    BY <1>1, <1>10, <2>3 DEF RulePosted, Run, Posts
  <2>6. \A q \in Runs, j \in Keys : Posts(q, j)' => Posts(q, j) /\ (q = r => j # k)
    BY <2>2, <2>4, PostsOf
  <2> QED BY <2>3, <2>4, <2>5, <2>6 DEF Answers
<1> QED BY <1>2, <1>3, <1>4, <1>5, <1>6, <1>7, <1>8, <1>9, <1>10 DEF RunStep

(* The card made last is the only new one, and of this life.               *)
LEMMA NewCard ==
  ASSUME QueueType, NEW r \in Runs, NEW k \in Keys, life \in Lives, Mint(r, k, TRUE)
  PROVE  /\ DOMAIN minted' = DOMAIN minted \cup {Len(minted) + 1}
         /\ \A i \in DOMAIN minted : minted'[i] = minted[i]
         /\ minted'[Len(minted) + 1] = [run |-> r, key |-> k, life |-> life]
<1> DEFINE card == [run |-> r, key |-> k, life |-> life]
<1>1. minted' = Append(minted, card)
  BY DEF Mint
<1>2. card \in Card /\ minted \in Seq(Card)
  BY DEF Card, QueueType
<1> HIDE DEF card
<1>3. /\ Len(minted) \in Nat /\ DOMAIN minted = 1 .. Len(minted)
      /\ DOMAIN minted' = 1 .. Len(minted) + 1
  BY <1>1, <1>2
<1>4. DOMAIN minted' = DOMAIN minted \cup {Len(minted) + 1}
  BY <1>3
<1>5. /\ \A i \in DOMAIN minted : minted'[i] = minted[i]
      /\ minted'[Len(minted) + 1] = card
  BY <1>1, <1>2
<1> QED BY <1>4, <1>5 DEF card

(* What a run does to requests, claims and cards makes no twin.            *)
LEMMA RunStepTwins ==
  ASSUME TypeInv, ClaimInv, TwinInv, NEW r \in Runs, Quietly(r) \/ Claims(r) \/ Answers(r)
  PROVE  TwinInv'
<1>1. \A i \in DOMAIN minted : minted[i] \in Card
  BY DEF TypeInv, QueueType
<1>2. \A i \in DOMAIN minted : minted[i].key \in Keys
  BY <1>1 DEF Card
<1>3. CASE Quietly(r)
  BY <1>2, <1>3 DEF Quietly, TwinInv
<1>4. CASE Claims(r)
  <2>1. PICK t \in Targets :
          /\ ~Claimed(Key(t)) /\ Claim(Key(t))
          /\ \A q \in Runs, k \in Keys : Posts(q, k)' => Posts(q, k) \/ k = Key(t)
    BY <1>4 DEF Claims
  <2>2. claims[Key(t)] = 0
    BY <2>1, FreshKey
  <2>3. \A k \in Keys : claims[k] # 0 => claims'[k] # 0
    BY <2>1, <2>2 DEF Claim, TypeInv, ClaimType
  <2> QED BY <1>2, <1>4, <2>1, <2>2, <2>3 DEF Claims, TwinInv
<1>5. CASE Answers(r)
  <2>1. PICK k \in Keys, made \in BOOLEAN :
          /\ Mint(r, k, made) /\ (made => Posts(r, k))
          /\ \A q \in Runs, j \in Keys : Posts(q, j)' => Posts(q, j) /\ (q = r => j # k)
    BY <1>5 DEF Answers
  <2>2. UNCHANGED <<claims, life>> /\ life \in Lives
    BY <1>5 DEF Answers, TypeInv, ClockType
  <2>3. CASE ~made
    <3>1. minted' = minted
      BY <2>1, <2>3 DEF Mint
    <3> QED BY <1>2, <2>1, <2>2, <3>1 DEF TwinInv
  <2>4. CASE made
    <3> DEFINE n == Len(minted) + 1
    <3>1. /\ \A i \in DOMAIN minted : minted'[i] = minted[i]
          /\ DOMAIN minted' = DOMAIN minted \cup {n}
          /\ minted'[n].key = k /\ minted'[n].life = life
      <4>1. Mint(r, k, TRUE) /\ QueueType
        BY <2>1, <2>4 DEF TypeInv
      <4>2. /\ DOMAIN minted' = DOMAIN minted \cup {n}
            /\ \A i \in DOMAIN minted : minted'[i] = minted[i]
            /\ minted'[n] = [run |-> r, key |-> k, life |-> life]
        BY <2>2, <4>1, NewCard
      <4> HIDE DEF n
      <4> QED BY <4>2
    <3> HIDE DEF n
    <3>2. claims[k] # 0 /\ \A q \in Runs : ~Posts(q, k)'
      BY <2>1, <2>4 DEF ClaimInv, PostInv
    <3>3. \A i \in DOMAIN minted : minted[i].life = life => minted[i].key # k
      BY <2>1, <2>4 DEF TwinInv
    <3>4. life <= life
      BY <2>2 DEF Lives
    <3> QED BY <1>2, <2>1, <2>2, <3>1, <3>2, <3>3, <3>4 DEF TwinInv
  <2> QED BY <2>3, <2>4
<1> QED BY <1>3, <1>4, <1>5

(* No two cards in the queue are open for one key of one life, whichever   *)
(* runs overlap on it: for the two agents whose rules claim what they make *)
(* a card for, or make none.  The rules of the other two do not claim.     *)
THEOREM NoTwins ==
  ASSUME Ttl >= Window, Agent \in {"inventory_reorder", "churn_prevention"}
  PROVE  Spec => []NoTwinCards
<1>1. Init => TwinInv
  BY DEF Init, TwinInv
<1>2. TypeInv /\ ClaimInv /\ ClaimInv' /\ TwinInv /\ [Next]_vars => TwinInv'
  <2> SUFFICES ASSUME TypeInv, ClaimInv, ClaimInv', TwinInv, [Next]_vars PROVE TwinInv'
    OBVIOUS
  <2>1. ASSUME NEW r \in Runs, StartRun(r) \/ RunStep(r) PROVE TwinInv'
    BY <2>1, StepOnClaims, RunStepTwins
  <2>2. CASE Decide \/ Tick \/ UNCHANGED vars
    <3>1. UNCHANGED <<claims, minted, life, runs>>
      BY <2>2 DEF Decide, Tick, vars, queue
    <3> QED BY <3>1 DEF TwinInv, Posts
  <2>3. CASE Restart
    <3>1. life' = life + 1 /\ life \in Nat /\ UNCHANGED minted
      BY <2>3 DEF Restart, queue, TypeInv, ClockType, Lives
    <3>2. \A i \in DOMAIN minted : minted[i].life \in Nat
      <4>1. \A i \in DOMAIN minted : minted[i] \in Card
        BY DEF TypeInv, QueueType
      <4> QED BY <4>1 DEF Card, Lives
    <3> QED BY <3>1, <3>2 DEF TwinInv
  <2> QED BY <2>1, <2>2, <2>3 DEF Next
<1>3. TypeInv /\ TwinInv => NoTwinCards
  BY DEF TypeInv, QueueType, TwinInv, NoTwinCards
<1> QED BY <1>1, <1>2, <1>3, TypeInvHolds, ClaimInvHolds, PTL DEF Spec

=============================================================================
