--------------------------- MODULE ToolboxProofs ---------------------------
(***************************************************************************)
(* Proofs about Toolbox: the types and the budget of a run, that no empty  *)
(* order or campaign is placed, and a roster only if the model gave a list *)
(* of nothing usable, and that drafts stand on what reads of the run       *)
(* listed, for any rows, any budget and any order of the calls in a turn.  *)
(***************************************************************************)
EXTENDS Toolbox, NaturalSets, SequenceTheorems

-----------------------------------------------------------------------------
(* The calls of a turn, the answers and the cards.                         *)
Slot == [call : Call, stage : Stage, rows : SUBSET Rows, result : Result]

TypeInv ==
  /\ agent \in Agents /\ planned \in BOOLEAN /\ world \in Worlds(agent)
  /\ turn \in Seq(Slot) /\ results \in Seq(Result) /\ cards \in Seq(Card)
  /\ \A k \in DOMAIN cache : cache[k] \in Result
  /\ asked \in Nat /\ seen \in SUBSET Rows

\* Calls over the budget were dropped, and no others
BudgetInv ==
  Len(results) + Len(turn) = IF asked <= MaxCalls THEN asked ELSE MaxCalls

\* A call that runs is one the agent may make
PolicyInv ==
  \A i \in DOMAIN turn : turn[i].stage = "running" => MayCall(turn[i].call.tool)

\* An answer refers to a card of the run
CardsInv ==
  /\ \A i \in DOMAIN results : results[i].card \in DOMAIN cards \cup {NoCard}
  /\ \A i \in DOMAIN turn : turn[i].result.card \in DOMAIN cards \cup {NoCard}
  /\ \A k \in DOMAIN cache : cache[k].card \in DOMAIN cards \cup {NoCard}

\* What answers list was read, and what a call uses was read or named
ReadsInv ==
  /\ \A i \in DOMAIN results : results[i].rows \subseteq seen
  /\ \A i \in DOMAIN turn : turn[i].result.rows \subseteq seen
  /\ \A k \in DOMAIN cache : cache[k].rows \subseteq seen
  /\ \A i \in DOMAIN turn : turn[i].rows \subseteq turn[i].call.own \cup seen
  /\ \A d \in placed : d.rows \subseteq d.own \cup seen

\* A campaign has rows from when it begins, a roster at least a list; an
\* order gives up without them when it is placed
Started(call, S) ==
  /\ call.tool = "campaign" => S # {}
  /\ call.tool = "roster" => S # {} \/ call.junk
NotEmpty(d) ==
  /\ d.kind \in {"order", "campaign"} => d.rows # {}
  /\ d.kind = "roster" => d.rows # {} \/ d.junk
FilledInv ==
  /\ \A i \in DOMAIN turn :
       turn[i].stage = "running" => Started(turn[i].call, turn[i].rows)
  /\ \A d \in placed : NotEmpty(d)

ToolboxInv == TypeInv /\ BudgetInv /\ PolicyInv /\ CardsInv /\ ReadsInv /\ FilledInv

LEMMA Lengths ==
  ASSUME TypeInv
  PROVE  /\ Len(turn) \in Nat /\ DOMAIN turn = 1 .. Len(turn)
         /\ Len(results) \in Nat /\ DOMAIN results = 1 .. Len(results)
         /\ Len(cards) \in Nat /\ DOMAIN cards = 1 .. Len(cards)
         /\ \A i \in DOMAIN turn : turn[i] \in Slot
         /\ \A i \in DOMAIN results : results[i] \in Result
         /\ \A i \in DOMAIN cards : cards[i] \in Card
BY LenProperties, ElementOfSeq DEF TypeInv

LEMMA AnswerType ==
  ASSUME NEW tool \in Tools, NEW S \in SUBSET Rows, NEW card \in Nat \cup {NoCard},
         NEW status \in {"ok", "empty", "failed", "skipped", "refused"}
  PROVE  Answer(tool, status, S, card) \in Result
BY DEF Answer, Result

LEMMA BlankType ==
  ASSUME NEW tool \in Tools
  PROVE  Blank(tool) \in Result /\ Blank(tool).rows = {} /\ Blank(tool).card = NoCard
BY AnswerType DEF Blank, Answer

\* A call that is done differs in its stage and its answer only
LEMMA DoneSlot ==
  ASSUME TypeInv, NEW i \in DOMAIN turn, NEW r \in Result, Done(i, r)
  PROVE  /\ turn' \in Seq(Slot) /\ Len(turn') = Len(turn) /\ DOMAIN turn' = DOMAIN turn
         /\ \A j \in DOMAIN turn : j # i => turn'[j] = turn[j]
         /\ turn'[i].stage = "done" /\ turn'[i].result = r
         /\ turn'[i].call = turn[i].call /\ turn'[i].rows = turn[i].rows
<1>. DEFINE s == [turn[i] EXCEPT !.stage = "done", !.result = r]
<1>1. turn[i] \in Slot  BY Lengths
<1>2. s \in Slot  BY <1>1 DEF Slot, Stage
<1>3. /\ s.stage = "done" /\ s.result = r
      /\ s.call = turn[i].call /\ s.rows = turn[i].rows
  BY <1>1 DEF Slot
<1>4. turn' = [turn EXCEPT ![i] = s]  BY Lengths DEF Done
<1>5. turn \in Seq(Slot) /\ i \in 1 .. Len(turn)  BY Lengths DEF TypeInv
<1>. HIDE DEF s
<1>6. /\ [turn EXCEPT ![i] = s] \in Seq(Slot)
      /\ Len([turn EXCEPT ![i] = s]) = Len(turn)
      /\ \A j \in 1 .. Len(turn) : [turn EXCEPT ![i] = s][j] = IF j = i THEN s ELSE turn[j]
  BY <1>2, <1>5, ExceptSeq
<1>7. /\ turn' \in Seq(Slot) /\ Len(turn') = Len(turn)
      /\ \A j \in 1 .. Len(turn) : turn'[j] = IF j = i THEN s ELSE turn[j]
  BY <1>4, <1>6, Zenon
<1>. QED  BY <1>3, <1>5, <1>7, Lengths, LenProperties

\* A call that starts differs in its stage and its rows only
LEMMA StartedSlot ==
  ASSUME TypeInv, NEW i \in DOMAIN turn, NEW S \in SUBSET Rows,
         turn' = [turn EXCEPT ![i].stage = "running", ![i].rows = S]
  PROVE  /\ turn' \in Seq(Slot) /\ Len(turn') = Len(turn) /\ DOMAIN turn' = DOMAIN turn
         /\ \A j \in DOMAIN turn : j # i => turn'[j] = turn[j]
         /\ turn'[i].stage = "running" /\ turn'[i].rows = S
         /\ turn'[i].call = turn[i].call /\ turn'[i].result = turn[i].result
<1>. DEFINE s == [turn[i] EXCEPT !.stage = "running", !.rows = S]
<1>1. turn[i] \in Slot  BY Lengths
<1>2. s \in Slot  BY <1>1 DEF Slot, Stage
<1>3. /\ s.stage = "running" /\ s.rows = S
      /\ s.call = turn[i].call /\ s.result = turn[i].result
  BY <1>1 DEF Slot
<1>4. turn' = [turn EXCEPT ![i] = s]  BY Lengths
<1>5. turn \in Seq(Slot) /\ i \in 1 .. Len(turn)  BY Lengths DEF TypeInv
<1>. HIDE DEF s
<1>6. /\ [turn EXCEPT ![i] = s] \in Seq(Slot)
      /\ Len([turn EXCEPT ![i] = s]) = Len(turn)
      /\ \A j \in 1 .. Len(turn) : [turn EXCEPT ![i] = s][j] = IF j = i THEN s ELSE turn[j]
  BY <1>2, <1>5, ExceptSeq
<1>7. /\ turn' \in Seq(Slot) /\ Len(turn') = Len(turn)
      /\ \A j \in 1 .. Len(turn) : turn'[j] = IF j = i THEN s ELSE turn[j]
  BY <1>4, <1>6, Zenon
<1>. QED  BY <1>3, <1>5, <1>7, Lengths, LenProperties

\* What is filled in was listed by a read of an earlier turn
LEMMA LastOfSeen ==
  ASSUME TypeInv, ReadsInv, NEW S, S \subseteq DOMAIN results
  PROVE  LastOf(S) \subseteq seen
<1>1. CASE S = {}  BY <1>1 DEF LastOf
<1>2. CASE S # {}
  <2>1. \E i \in S : \A j \in S : j <= i  BY <1>2, Lengths, GreatestIndex
  <2>2. PICK i \in S : LastOf(S) = results[i].rows  BY <1>2, <2>1 DEF LastOf
  <2>. QED  BY <2>2 DEF ReadsInv
<1>. QED  BY <1>1, <1>2

LEMMA HydratedSeen ==
  ASSUME TypeInv, ReadsInv, NEW call \in Call
  PROVE  /\ Hydrated(call) \subseteq call.own \cup seen
         /\ Hydrated(call) \in SUBSET Rows
<1>1. Of(Sources(call)) \subseteq DOMAIN results  BY DEF Of
<1>2. Computed \subseteq DOMAIN results  BY DEF Computed, Of
<1>3. {i \in Of(Sources(call)) : results[i].rows # {}} \subseteq DOMAIN results  BY <1>1
<1>4. Hydrated(call) \subseteq call.own \cup seen
  BY <1>1, <1>2, <1>3, LastOfSeen DEF Hydrated
<1>5. call.own \subseteq Rows /\ seen \subseteq Rows  BY DEF Call, TypeInv
<1>. QED  BY <1>4, <1>5

-----------------------------------------------------------------------------
(* Every action keeps the invariant.                                       *)
LEMMA InitToolboxInv == Init => ToolboxInv
<1>. SUFFICES ASSUME Init PROVE ToolboxInv
  OBVIOUS
<1>1. /\ turn = <<>> /\ results = <<>> /\ cards = <<>> /\ DOMAIN cache = {}
      /\ placed = {} /\ asked = 0 /\ seen = {}
      /\ agent \in Agents /\ planned \in BOOLEAN /\ world \in Worlds(agent)
  BY DEF Init
<1>2. TypeInv  BY <1>1, EmptySeq DEF TypeInv
<1>3. DOMAIN turn = {} /\ DOMAIN results = {} /\ Len(results) + Len(turn) = 0  BY <1>1
<1>4. BudgetInv  BY <1>1, <1>3, ToolboxAssumption DEF BudgetInv
<1>5. PolicyInv /\ CardsInv /\ ReadsInv /\ FilledInv
  BY <1>1, <1>3 DEF PolicyInv, CardsInv, ReadsInv, FilledInv
<1>. QED  BY <1>2, <1>4, <1>5 DEF ToolboxInv

LEMMA AskedStep ==
  ASSUME ToolboxInv, turn = <<>>, asked < MaxCalls,
         NEW calls \in Seq(Call), Len(calls) > 0, Asked(calls)
  PROVE  ToolboxInv'
<1>. DEFINE m == Within(Len(calls))
            slot(i) == [call |-> calls[i], stage |-> "asked", rows |-> {},
                        result |-> Blank(calls[i].tool)]
<1>1. /\ Len(calls) \in Nat /\ DOMAIN calls = 1 .. Len(calls)
      /\ \A i \in 1 .. Len(calls) : calls[i] \in Call
  BY LenProperties, ElementOfSeq
<1>2. asked \in Nat /\ MaxCalls \in Nat  BY ToolboxAssumption DEF ToolboxInv, TypeInv
<1>3. m \in Nat /\ m <= Len(calls)  BY <1>1, <1>2 DEF Within
<1>4. asked' = asked + Len(calls) /\ turn' = [i \in 1 .. m |-> slot(i)]
      /\ UNCHANGED <<agent, planned, world, results, cache, claimed, placed, cards, seen>>
  BY DEF Asked
<1>5. ASSUME NEW i \in 1 .. m
      PROVE  /\ slot(i) \in Slot /\ slot(i).stage = "asked" /\ slot(i).rows = {}
             /\ slot(i).result.rows = {} /\ slot(i).result.card = NoCard
  <2>1. calls[i] \in Call  BY <1>1, <1>3
  <2>2. calls[i].tool \in Tools  BY <2>1 DEF Call
  <2>. QED  BY <2>1, <2>2, BlankType DEF Slot, Stage
<1>6. turn' \in [1 .. m -> Slot] /\ DOMAIN turn' = 1 .. m
      /\ \A i \in 1 .. m : turn'[i] = slot(i)
  BY <1>4, <1>5
<1>7. turn' \in Seq(Slot)  BY <1>3, <1>6, SeqDef
<1>8. Len(turn') = m  BY <1>3, <1>6, <1>7, LenProperties
<1>. HIDE DEF slot
<1>9. TypeInv'  BY <1>1, <1>2, <1>4, <1>7 DEF ToolboxInv, TypeInv
<1>10. BudgetInv'
  <2>1. Len(turn) = 0 /\ Len(results) \in Nat  BY Lengths DEF ToolboxInv
  <2>2. Len(results) = asked  BY <1>2, <2>1 DEF ToolboxInv, BudgetInv
  <2>. QED  BY <1>1, <1>2, <1>4, <1>8, <2>2 DEF BudgetInv, Within
<1>11. PolicyInv'  BY <1>5, <1>6 DEF PolicyInv
<1>12. CardsInv'  BY <1>4, <1>5, <1>6 DEF ToolboxInv, CardsInv
<1>13. ReadsInv'  BY <1>4, <1>5, <1>6 DEF ToolboxInv, ReadsInv
<1>14. FilledInv'  BY <1>4, <1>5, <1>6 DEF ToolboxInv, FilledInv
<1>. QED  BY <1>9, <1>10, <1>11, <1>12, <1>13, <1>14 DEF ToolboxInv

LEMMA AskStep ==
  ASSUME ToolboxInv, Ask \/ AskPlanned
  PROVE  ToolboxInv'
<1>1. CASE Ask
  <2>1. PICK n \in 1 .. MaxTurn : \E calls \in [1 .. n -> Call] : Asked(calls)
    BY <1>1 DEF Ask
  <2>2. PICK calls \in [1 .. n -> Call] : Asked(calls)  BY <2>1
  <2>3. n \in Nat /\ n > 0  BY <2>1
  <2>4. calls \in Seq(Call)  BY <2>2, <2>3, SeqDef
  <2>5. DOMAIN calls = 1 .. n /\ DOMAIN calls = 1 .. Len(calls) /\ Len(calls) \in Nat
    BY <2>2, <2>4, LenProperties
  <2>6. Len(calls) > 0  BY <2>3, <2>5
  <2>7. turn = <<>> /\ asked < MaxCalls  BY <1>1 DEF Ask
  <2>. QED  BY <2>2, <2>4, <2>6, <2>7, AskedStep
<1>2. CASE AskPlanned
  <2>1. PICK call \in Call : Asked(<<call>>)  BY <1>2 DEF AskPlanned
  <2>2. <<call>> \in Seq(Call) /\ Len(<<call>>) > 0  OBVIOUS
  <2>3. turn = <<>> /\ asked < MaxCalls  BY <1>2 DEF AskPlanned
  <2>. QED  BY <2>1, <2>2, <2>3, AskedStep
<1>. QED  BY <1>1, <1>2

\* A call that is done with an answer that refers to what there is
LEMMA DoneStep ==
  ASSUME ToolboxInv, NEW i \in DOMAIN turn, NEW r \in Result, Done(i, r),
         UNCHANGED <<agent, planned, world, results, asked>>,
         cards' \in Seq(Card), DOMAIN cards \subseteq DOMAIN cards',
         r.card \in DOMAIN cards' \cup {NoCard},
         seen \subseteq seen', seen' \in SUBSET Rows, r.rows \subseteq seen',
         \A k \in DOMAIN cache' : \/ cache'[k] = r
                                  \/ k \in DOMAIN cache /\ cache'[k] = cache[k],
         \A d \in placed' : \/ d \in placed
                            \/ /\ d.rows \subseteq d.own \cup seen
                               /\ NotEmpty(d)
  PROVE  ToolboxInv'
<1>1. /\ turn' \in Seq(Slot) /\ Len(turn') = Len(turn) /\ DOMAIN turn' = DOMAIN turn
      /\ \A j \in DOMAIN turn : j # i => turn'[j] = turn[j]
      /\ turn'[i].stage = "done" /\ turn'[i].result = r
      /\ turn'[i].call = turn[i].call /\ turn'[i].rows = turn[i].rows
  BY DoneSlot DEF ToolboxInv
<1>2. TypeInv'  BY <1>1 DEF ToolboxInv, TypeInv
<1>3. BudgetInv'  BY <1>1 DEF ToolboxInv, BudgetInv
<1>4. PolicyInv'  BY <1>1 DEF ToolboxInv, PolicyInv, MayCall
<1>5. CardsInv'
  <2>1. \A j \in DOMAIN results' : results'[j].card \in DOMAIN cards' \cup {NoCard}
    BY DEF ToolboxInv, CardsInv
  <2>2. \A j \in DOMAIN turn' : turn'[j].result.card \in DOMAIN cards' \cup {NoCard}
    BY <1>1 DEF ToolboxInv, CardsInv
  <2>3. \A k \in DOMAIN cache' : cache'[k].card \in DOMAIN cards' \cup {NoCard}
    BY DEF ToolboxInv, CardsInv
  <2>. QED  BY <2>1, <2>2, <2>3 DEF CardsInv
<1>6. ReadsInv'
  <2>1. \A j \in DOMAIN results' : results'[j].rows \subseteq seen'
    BY DEF ToolboxInv, ReadsInv
  <2>2. \A j \in DOMAIN turn' : turn'[j].result.rows \subseteq seen'
    BY <1>1 DEF ToolboxInv, ReadsInv
  <2>3. \A k \in DOMAIN cache' : cache'[k].rows \subseteq seen'
    BY DEF ToolboxInv, ReadsInv
  <2>4. \A j \in DOMAIN turn' : turn'[j].rows \subseteq turn'[j].call.own \cup seen'
    <3>. SUFFICES ASSUME NEW j \in DOMAIN turn
                  PROVE  turn'[j].rows \subseteq turn'[j].call.own \cup seen'
      BY <1>1
    <3>1. turn'[j].rows = turn[j].rows /\ turn'[j].call = turn[j].call
      BY <1>1
    <3>2. turn[j].rows \subseteq turn[j].call.own \cup seen  BY DEF ToolboxInv, ReadsInv
    <3>. QED  BY <3>1, <3>2
  <2>5. \A d \in placed' : d.rows \subseteq d.own \cup seen'
    BY DEF ToolboxInv, ReadsInv
  <2>. QED  BY <2>1, <2>2, <2>3, <2>4, <2>5 DEF ReadsInv
<1>7. FilledInv'
  <2>1. ASSUME NEW j \in DOMAIN turn, turn'[j].stage = "running"
        PROVE  Started(turn'[j].call, turn'[j].rows)
    <3>1. j # i  BY <1>1, <2>1
    <3>2. turn'[j] = turn[j]  BY <1>1, <3>1
    <3>. QED  BY <2>1, <3>2 DEF ToolboxInv, FilledInv
  <2>2. \A d \in placed' : NotEmpty(d)  BY DEF ToolboxInv, FilledInv
  <2>3. DOMAIN turn' = DOMAIN turn  BY <1>1
  <2>. QED  BY <2>1, <2>2, <2>3, Zenon DEF FilledInv, Started, NotEmpty
<1>. QED  BY <1>2, <1>3, <1>4, <1>5, <1>6, <1>7 DEF ToolboxInv

LEMMA BeginStep ==
  ASSUME ToolboxInv, NEW i \in DOMAIN turn, Begin(i)
  PROVE  ToolboxInv'
<1>. DEFINE call == turn[i].call
            S == Hydrated(call)
<1>1. turn[i] \in Slot /\ call \in Call  BY Lengths DEF ToolboxInv, Slot
<1>2. call.tool \in Tools  BY <1>1 DEF Call
<1>3. UNCHANGED <<agent, planned, world, results, cache, placed, cards, asked, seen>>
  BY DEF Begin
<1>4. seen \in SUBSET Rows /\ cards \in Seq(Card)  BY DEF ToolboxInv, TypeInv
<1>5. ASSUME NEW r \in Result, Done(i, r), r.card \in DOMAIN cards \cup {NoCard},
             r.rows \subseteq seen
      PROVE  ToolboxInv'
  BY <1>3, <1>4, <1>5, DoneStep
<1>6. ASSUME NEW status \in {"ok", "empty", "failed", "skipped", "refused"},
             Done(i, Answer(call.tool, status, {}, NoCard))
      PROVE  ToolboxInv'
  <2>1. Answer(call.tool, status, {}, NoCard) \in Result  BY <1>2, AnswerType
  <2>2. /\ Answer(call.tool, status, {}, NoCard).card = NoCard
        /\ Answer(call.tool, status, {}, NoCard).rows = {}
    BY DEF Answer
  <2>. QED  BY <1>5, <1>6, <2>1, <2>2
<1>7. CASE Key(call) \in DOMAIN cache /\ Done(i, cache[Key(call)])
  <2>1. /\ cache[Key(call)] \in Result
        /\ cache[Key(call)].card \in DOMAIN cards \cup {NoCard}
        /\ cache[Key(call)].rows \subseteq seen
    BY <1>7 DEF ToolboxInv, TypeInv, CardsInv, ReadsInv
  <2>. QED  BY <1>5, <1>7, <2>1
<1>8. CASE Done(i, Answer(call.tool, "refused", {}, NoCard))  BY <1>6, <1>8
<1>9. CASE Done(i, Answer(call.tool, "skipped", {}, NoCard))  BY <1>6, <1>9
<1>10. CASE /\ MayCall(call.tool) /\ ~Skipped(call, S)
            /\ turn' = [turn EXCEPT ![i].stage = "running", ![i].rows = S]
  <2>1. S \subseteq call.own \cup seen /\ S \in SUBSET Rows
    BY <1>1, HydratedSeen DEF ToolboxInv
  <2>. HIDE DEF S
  <2>2. /\ turn' \in Seq(Slot) /\ Len(turn') = Len(turn) /\ DOMAIN turn' = DOMAIN turn
        /\ \A j \in DOMAIN turn : j # i => turn'[j] = turn[j]
        /\ turn'[i].stage = "running" /\ turn'[i].rows = S
        /\ turn'[i].call = call /\ turn'[i].result = turn[i].result
    BY <1>10, <2>1, StartedSlot DEF ToolboxInv
  <2>3. TypeInv'  BY <1>3, <2>2 DEF ToolboxInv, TypeInv
  <2>4. BudgetInv'  BY <1>3, <2>2 DEF ToolboxInv, BudgetInv
  <2>5. PolicyInv'  BY <1>3, <1>10, <2>2 DEF ToolboxInv, PolicyInv, MayCall
  <2>6. CardsInv'
    <3>1. \A j \in DOMAIN turn : turn'[j].result = turn[j].result  BY <2>2
    <3>. QED  BY <1>3, <2>2, <3>1 DEF ToolboxInv, CardsInv
  <2>7. ReadsInv'
    <3>1. \A j \in DOMAIN turn : turn'[j].result = turn[j].result  BY <2>2
    <3>2. \A j \in DOMAIN turn : turn'[j].rows \subseteq turn'[j].call.own \cup seen
      BY <2>1, <2>2 DEF ToolboxInv, ReadsInv
    <3>. QED  BY <1>3, <2>2, <3>1, <3>2 DEF ToolboxInv, ReadsInv
  <2>8. FilledInv'
    <3>1. Started(call, S)  BY <1>10 DEF Skipped, Started
    <3>2. \A j \in DOMAIN turn :
            turn'[j].stage = "running" => Started(turn'[j].call, turn'[j].rows)
      BY <2>2, <3>1 DEF ToolboxInv, FilledInv
    <3>. QED  BY <1>3, <2>2, <3>2 DEF ToolboxInv, FilledInv
  <2>. QED  BY <2>3, <2>4, <2>5, <2>6, <2>7, <2>8 DEF ToolboxInv
<1>. QED  BY <1>7, <1>8, <1>9, <1>10 DEF Begin

LEMMA EndReadStep ==
  ASSUME ToolboxInv, NEW i \in DOMAIN turn, EndRead(i)
  PROVE  ToolboxInv'
<1>. DEFINE call == turn[i].call
<1>1. turn[i] \in Slot /\ call \in Call  BY Lengths DEF ToolboxInv, Slot
<1>2. /\ turn[i].stage = "running" /\ call.tool \in Reads /\ call.tool \in Tools
      /\ UNCHANGED <<agent, planned, world, results, placed, cards, asked>>
  BY <1>1 DEF EndRead, Call
<1>3. call.tool \in Allowed[agent]
  BY <1>2 DEF ToolboxInv, PolicyInv, MayCall
<1>4. world[call.tool] \in SUBSET Rows
  BY <1>2, <1>3 DEF ToolboxInv, TypeInv, Worlds
<1>5. PICK r \in {Listed(call.tool)} \cup Failures(call.tool) :
        /\ Done(i, r)
        /\ cache' = [k \in DOMAIN cache \cup {c \in {Key(call)} : c.tool \in Cached /\ ~planned} |->
                       IF k = Key(call) THEN r ELSE cache[k]]
        /\ seen' = seen \cup r.rows
  BY DEF EndRead
<1>6. r \in Result /\ r.card = NoCard
  <2>1. Listed(call.tool) \in Result /\ Listed(call.tool).card = NoCard
    <3>1. \A status \in {"ok", "empty"} :
            /\ Answer(call.tool, status, world[call.tool], NoCard) \in Result
            /\ Answer(call.tool, status, world[call.tool], NoCard).card = NoCard
      BY <1>2, <1>4, AnswerType DEF Answer
    <3>. QED  BY <3>1 DEF Listed
  <2>2. Blank(call.tool) \in Result /\ Blank(call.tool).card = NoCard
    BY <1>2, BlankType
  <2>3. /\ Answer(call.tool, "empty", {}, NoCard) \in Result
        /\ Answer(call.tool, "empty", {}, NoCard).card = NoCard
    BY <1>2, AnswerType DEF Answer
  <2>4. r \in {Listed(call.tool), Blank(call.tool), Answer(call.tool, "empty", {}, NoCard)}
    BY <1>5 DEF Failures
  <2>. QED  BY <2>1, <2>2, <2>3, <2>4
<1>7. r.rows \subseteq Rows  BY <1>6 DEF Result
<1>8. \A k \in DOMAIN cache' : \/ cache'[k] = r
                               \/ k \in DOMAIN cache /\ cache'[k] = cache[k]
  BY <1>5
<1>9. cards' \in Seq(Card) /\ cards' = cards /\ seen \in SUBSET Rows
  BY <1>2 DEF ToolboxInv, TypeInv
<1>. QED
  BY <1>2, <1>5, <1>6, <1>7, <1>8, <1>9, DoneStep

LEMMA EndDraftStep ==
  ASSUME ToolboxInv, NEW i \in DOMAIN turn, EndDraft(i)
  PROVE  ToolboxInv'
<1>. DEFINE call == turn[i].call
            card == [kind |-> call.tool, rows |-> turn[i].rows,
                     attached |-> IF call.tool = "order" THEN turn[i].rows ELSE {}]
            d == [kind |-> call.tool, own |-> call.own, junk |-> call.junk,
                  rows |-> turn[i].rows]
<1>1. turn[i] \in Slot /\ call \in Call  BY Lengths DEF ToolboxInv, Slot
<1>2. /\ turn[i].stage = "running" /\ call.tool \in Drafts /\ call.tool \in Tools
      /\ turn[i].rows \in SUBSET Rows
      /\ UNCHANGED <<agent, planned, world, results, cache, asked, seen>>
  BY <1>1 DEF EndDraft, Call, Slot
<1>3. PICK there \in BOOLEAN, answered \in BOOLEAN :
        /\ call.tool = "order" /\ turn[i].rows = {} => ~there /\ ~answered
        /\ placed' = IF there THEN placed \cup {d} ELSE placed
        /\ IF answered
           THEN /\ cards' = Append(cards, card)
                /\ Done(i, Answer(call.tool, IF there THEN "ok" ELSE "failed", {},
                                  Len(cards) + 1))
           ELSE Done(i, Blank(call.tool)) /\ UNCHANGED cards
  BY DEF EndDraft
<1>4. d.rows \subseteq d.own \cup seen  BY DEF ToolboxInv, ReadsInv
<1>9. there => NotEmpty(d)
  BY <1>2, <1>3 DEF ToolboxInv, FilledInv, Started, NotEmpty
<1>5. \A e \in placed' : \/ e \in placed
                         \/ /\ e.rows \subseteq e.own \cup seen
                            /\ NotEmpty(e)
  BY <1>3, <1>4, <1>9
<1>6. seen \in SUBSET Rows /\ cards \in Seq(Card)  BY DEF ToolboxInv, TypeInv
<1>7. CASE answered
  <2>. DEFINE r == Answer(call.tool, IF there THEN "ok" ELSE "failed", {}, Len(cards) + 1)
  <2>1. card \in Card  BY <1>2 DEF Card
  <2>2. Len(cards) \in Nat  BY Lengths DEF ToolboxInv
  <2>. HIDE DEF card
  <2>3. /\ cards' = Append(cards, card) /\ Done(i, r)  BY <1>3, <1>7
  <2>4. cards' \in Seq(Card) /\ Len(cards') = Len(cards) + 1
    BY <1>6, <2>1, <2>3
  <2>5. DOMAIN cards' = 1 .. Len(cards) + 1 /\ DOMAIN cards = 1 .. Len(cards)
    BY <1>6, <2>4, LenProperties
  <2>6. r \in Result  BY <1>2, <2>2, AnswerType
  <2>7. r.card = Len(cards) + 1 /\ r.rows = {}  BY DEF Answer
  <2>. HIDE DEF r
  <2>8. /\ DOMAIN cards \subseteq DOMAIN cards'
        /\ r.card \in DOMAIN cards' \cup {NoCard}
    BY <2>2, <2>5, <2>7
  <2>. QED  BY <1>2, <1>5, <1>6, <2>3, <2>4, <2>6, <2>7, <2>8, DoneStep
<1>8. CASE ~answered
  <2>1. cards' = cards /\ Done(i, Blank(call.tool))  BY <1>3, <1>8
  <2>2. Blank(call.tool) \in Result /\ Blank(call.tool).rows = {}
        /\ Blank(call.tool).card = NoCard
    BY <1>2, BlankType
  <2>. QED  BY <1>2, <1>5, <1>6, <2>1, <2>2, DoneStep
<1>. QED  BY <1>7, <1>8

LEMMA EndNotifyStep ==
  ASSUME ToolboxInv, NEW i \in DOMAIN turn, EndNotify(i)
  PROVE  ToolboxInv'
<1>. DEFINE tool == turn[i].call.tool
<1>1. turn[i] \in Slot  BY Lengths DEF ToolboxInv
<1>2. tool \in Tools  BY <1>1 DEF Slot, Call
<1>3. PICK status \in {"ok", "failed"} : Done(i, Answer(tool, status, {}, NoCard))
  BY DEF EndNotify
<1>4. UNCHANGED <<agent, planned, world, results, cache, placed, cards, asked, seen>>
  BY DEF EndNotify
<1>5. /\ Answer(tool, status, {}, NoCard) \in Result
      /\ Answer(tool, status, {}, NoCard).rows = {}
      /\ Answer(tool, status, {}, NoCard).card = NoCard
  BY <1>2, AnswerType DEF Answer
<1>6. seen \in SUBSET Rows /\ cards \in Seq(Card)  BY DEF ToolboxInv, TypeInv
<1>. QED  BY <1>3, <1>4, <1>5, <1>6, DoneStep

LEMMA EndTurnStep ==
  ASSUME ToolboxInv, EndTurn
  PROVE  ToolboxInv'
<1>. DEFINE ended == [i \in DOMAIN turn |-> turn[i].result]
<1>1. /\ results' = results \o ended /\ turn' = <<>>
      /\ UNCHANGED <<agent, planned, world, cache, claimed, placed, cards, asked, seen>>
  BY DEF EndTurn
<1>2. /\ Len(turn) \in Nat /\ DOMAIN turn = 1 .. Len(turn)
      /\ Len(results) \in Nat /\ DOMAIN results = 1 .. Len(results)
  BY Lengths DEF ToolboxInv
<1>3. \A i \in DOMAIN turn : turn[i].result \in Result
  BY Lengths DEF ToolboxInv, Slot
<1>4. ended \in [1 .. Len(turn) -> Result]  BY <1>2, <1>3
<1>5. ended \in Seq(Result)  BY <1>2, <1>4, SeqDef
<1>6. Len(ended) = Len(turn)  BY <1>2, <1>4, <1>5, LenProperties
<1>7. results \in Seq(Result)  BY DEF ToolboxInv, TypeInv
<1>8. \A i \in DOMAIN turn : ended[i] = turn[i].result  OBVIOUS
<1>. HIDE DEF ended
<1>9. /\ results' \in Seq(Result) /\ Len(results') = Len(results) + Len(turn)
      /\ \A i \in 1 .. Len(results) + Len(turn) :
           results'[i] = IF i <= Len(results) THEN results[i] ELSE ended[i - Len(results)]
  <2>1. /\ results \o ended \in Seq(Result)
        /\ Len(results \o ended) = Len(results) + Len(ended)
        /\ \A i \in 1 .. Len(results) + Len(ended) :
             (results \o ended)[i] = IF i <= Len(results) THEN results[i]
                                     ELSE ended[i - Len(results)]
    BY <1>5, <1>7, ConcatProperties
  <2>. QED  BY <1>1, <1>6, <2>1
<1>10. DOMAIN results' = 1 .. Len(results) + Len(turn)  BY <1>9, LenProperties
<1>11. ASSUME NEW i \in DOMAIN results'
       PROVE  \/ i \in DOMAIN results /\ results'[i] = results[i]
              \/ \E j \in DOMAIN turn : results'[i] = turn[j].result
  <2>1. i \in 1 .. Len(results) + Len(turn)  BY <1>10
  <2>2. CASE i <= Len(results)  BY <1>2, <1>9, <2>1, <2>2
  <2>3. CASE ~ (i <= Len(results))
    <3>1. i - Len(results) \in DOMAIN turn  BY <1>2, <2>1, <2>3
    <3>2. results'[i] = ended[i - Len(results)]  BY <1>9, <2>1, <2>3
    <3>. QED  BY <1>8, <3>1, <3>2
  <2>. QED  BY <2>2, <2>3
<1>12. turn' \in Seq(Slot) /\ Len(turn') = 0 /\ DOMAIN turn' = {}  BY <1>1
<1>13. TypeInv'  BY <1>1, <1>9, <1>12 DEF ToolboxInv, TypeInv
<1>14. BudgetInv'  BY <1>1, <1>2, <1>9, <1>12 DEF ToolboxInv, BudgetInv
<1>15. PolicyInv'  BY <1>12 DEF PolicyInv
<1>16. CardsInv'  BY <1>1, <1>11, <1>12 DEF ToolboxInv, CardsInv
<1>17. ReadsInv'  BY <1>1, <1>11, <1>12 DEF ToolboxInv, ReadsInv
<1>18. FilledInv'  BY <1>1, <1>12 DEF ToolboxInv, FilledInv
<1>. QED  BY <1>13, <1>14, <1>15, <1>16, <1>17, <1>18 DEF ToolboxInv

LEMMA ToolboxStep == ToolboxInv /\ [Next]_vars => ToolboxInv'
<1>. SUFFICES ASSUME ToolboxInv, [Next]_vars PROVE ToolboxInv'
  OBVIOUS
<1>1. CASE Ask \/ AskPlanned  BY <1>1, AskStep
<1>2. CASE EndTurn  BY <1>2, EndTurnStep
<1>3. CASE Elsewhere
  BY <1>3 DEF Elsewhere, ToolboxInv, TypeInv, BudgetInv, PolicyInv, CardsInv, ReadsInv,
              FilledInv, Started, NotEmpty, MayCall, Worlds
<1>4. ASSUME NEW i \in DOMAIN turn, Begin(i) PROVE ToolboxInv'  BY <1>4, BeginStep
<1>5. ASSUME NEW i \in DOMAIN turn, EndRead(i) PROVE ToolboxInv'  BY <1>5, EndReadStep
<1>6. ASSUME NEW i \in DOMAIN turn, EndDraft(i) PROVE ToolboxInv'  BY <1>6, EndDraftStep
<1>7. ASSUME NEW i \in DOMAIN turn, EndNotify(i) PROVE ToolboxInv'
  BY <1>7, EndNotifyStep
<1>8. CASE UNCHANGED vars
  BY <1>8 DEF vars, ToolboxInv, TypeInv, BudgetInv, PolicyInv, CardsInv, ReadsInv,
              FilledInv, Started, NotEmpty, MayCall
<1>. QED  BY <1>1, <1>2, <1>3, <1>4, <1>5, <1>6, <1>7, <1>8 DEF Next

-----------------------------------------------------------------------------
(* What the runs check, for every value of the constants.                  *)
LEMMA ToolboxInvariant == Spec => []ToolboxInv
<1>. QED  BY InitToolboxInv, ToolboxStep, PTL DEF Spec

(* Every variable keeps its type, answers refer to cards of the run, and   *)
(* the calls that are run never exceed the budget of the run.              *)
THEOREM RunsStayInBudget == Spec => []TypeOK
<1>1. ToolboxInv => TypeOK
  <2>. SUFFICES ASSUME ToolboxInv PROVE TypeOK
    OBVIOUS
  <2>1. \A i \in DOMAIN turn : /\ turn[i].call \in Call /\ turn[i].stage \in Stage
                               /\ turn[i].rows \subseteq Rows /\ turn[i].result \in Result
    BY Lengths DEF ToolboxInv, Slot
  <2>2. Len(results) + Len(turn) <= MaxCalls
    BY ToolboxAssumption DEF ToolboxInv, TypeInv, BudgetInv
  <2>. QED  BY <2>1, <2>2, Lengths DEF ToolboxInv, TypeInv, CardsInv, TypeOK
<1>. QED  BY ToolboxInvariant, <1>1, PTL

(* No order or campaign without rows reaches the platform, and a roster    *)
(* without them only where the model gave a list of nothing usable.        *)
THEOREM EmptyDraftsAreSkipped == Spec => []NothingEmptyIsPlaced
<1>1. ToolboxInv => NothingEmptyIsPlaced
  BY DEF ToolboxInv, FilledInv, NotEmpty, NothingEmptyIsPlaced
<1>. QED  BY ToolboxInvariant, <1>1, PTL

(* Drafts hold what the model named or a read of the run listed, and the   *)
(* evidence put on an order was listed by a read.                          *)
THEOREM DraftsAreGrounded == Spec => []DraftsStandOnReads
<1>1. ToolboxInv => DraftsStandOnReads
  <2>. SUFFICES ASSUME ToolboxInv PROVE DraftsStandOnReads
    OBVIOUS
  <2>1. ASSUME NEW i \in DOMAIN results PROVE Evidence(i) \subseteq seen
    <3>1. \A j \in 1 .. i - 1 : j \in DOMAIN results
      BY Lengths DEF ToolboxInv
    <3>2. UNION {results[j].rows : j \in {k \in 1 .. i - 1 : results[k].tool = "low"}}
            \subseteq seen
      BY <3>1 DEF ToolboxInv, ReadsInv
    <3>. QED  BY <3>2 DEF Evidence
  <2>. QED  BY <2>1 DEF ToolboxInv, ReadsInv, DraftsStandOnReads
<1>. QED  BY ToolboxInvariant, <1>1, PTL
=============================================================================
