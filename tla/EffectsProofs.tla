--------------------------- MODULE EffectsProofs ---------------------------
(***************************************************************************)
(* Proofs about Effects: that a store has one draft of a purpose a day,    *)
(* that a human stands behind whatever leaves draft, one decision behind   *)
(* each, and that a later step does not undo a decision, for any stores,   *)
(* suppliers, slots and items and any number of runs and decisions.        *)
(***************************************************************************)
EXTENDS Effects, NaturalSets, SequenceTheorems

-----------------------------------------------------------------------------
(* Orders and campaigns.                                                   *)
RowsInv ==
  /\ rows \in Seq(Row) /\ today \in Nat
  /\ \A i, j \in DOMAIN rows : rows[i].at = rows[j].at => i = j
  /\ OneDraftPerDay

\* Rows keep what they are for and whether they were decided, and new rows
\* are drafts
RowsExtended ==
  /\ Len(rows) <= Len(rows')
  /\ \A i \in DOMAIN rows : /\ rows'[i].kind = rows[i].kind
                            /\ rows'[i].store = rows[i].store
                            /\ rows'[i].key = rows[i].key
                            /\ rows'[i].status = rows[i].status
  /\ \A i \in DOMAIN rows' : i \in DOMAIN rows \/ rows'[i].status = "DRAFT"

LEMMA RowsDomain ==
  ASSUME RowsInv
  PROVE  /\ Len(rows) \in Nat /\ DOMAIN rows = 1 .. Len(rows)
         /\ \A i \in DOMAIN rows : rows[i] \in Row
BY LenProperties, ElementOfSeq DEF RowsInv

LEMMA LaterThanAll ==
  ASSUME RowsInv, \A a \in Ats : a < MaxPosts
  PROVE  /\ Later \in Nat
         /\ \A i \in DOMAIN rows : rows[i].at < Later
<1>1. MaxPosts \in Nat  BY EffectsAssumption
<1>2. \A a \in Ats : a \in Nat  BY RowsDomain DEF Ats, Row
<1>3. MaxPosts + 1 \in 1 .. MaxPosts + 1 /\ \A a \in Ats : a < MaxPosts + 1
  BY <1>1, <1>2
<1>4. Later \in 1 .. MaxPosts + 1 /\ \A a \in Ats : a < Later
  BY <1>3 DEF Later
<1>5. \A i \in DOMAIN rows : rows[i].at \in Ats  BY DEF Ats
<1>. QED  BY <1>1, <1>4, <1>5

LEMMA SameDraftIsOne ==
  ASSUME RowsInv, NEW k, NEW s, NEW key,
         NEW i \in SameDraft(k, s, key), NEW j \in SameDraft(k, s, key)
  PROVE  i = j
BY DEF SameDraft, RowsInv, OneDraftPerDay, Same

\* The draft there is
LEMMA UpsertReplaces ==
  ASSUME RowsInv, NEW k, NEW s, NEW key, Upsert(k, s, key), UNCHANGED today,
         NEW x \in SameDraft(k, s, key)
  PROVE  /\ RowsInv' /\ RowsExtended /\ IdOf(k, s, key) = x
         /\ DOMAIN rows' = DOMAIN rows
<1>. DEFINE r == [rows[x] EXCEPT !.at = Later, !.status = "DRAFT"]
<1>1. /\ x \in DOMAIN rows /\ rows[x] \in Row /\ rows[x].status = "DRAFT"
      /\ x \in 1 .. Len(rows)
  BY RowsDomain DEF SameDraft
<1>2. SameDraft(k, s, key) = {x}  BY SameDraftIsOne
<1>3. IdOf(k, s, key) = x  BY <1>2 DEF IdOf
<1>4. Later \in Nat /\ \A i \in DOMAIN rows : rows[i].at < Later
  BY LaterThanAll DEF Upsert
<1>5. /\ r \in Row /\ r.kind = rows[x].kind /\ r.store = rows[x].store
      /\ r.key = rows[x].key /\ r.day = rows[x].day /\ r.status = "DRAFT" /\ r.at = Later
  BY <1>1, <1>4 DEF Row
<1>6. rows' = [i \in DOMAIN rows |-> IF i = x THEN r ELSE rows[i]]
  BY <1>2 DEF Upsert
<1>. HIDE DEF r
<1>7. /\ DOMAIN rows' = DOMAIN rows
      /\ rows'[x] = r
      /\ \A i \in DOMAIN rows : i # x => rows'[i] = rows[i]
  BY <1>1, <1>6
<1>8. rows' \in [1 .. Len(rows) -> Row]
  BY <1>5, <1>6, RowsDomain
<1>9. rows' \in Seq(Row) /\ Len(rows) \in Nat
  BY <1>8, RowsDomain, SeqDef
<1>10. Len(rows') = Len(rows)  BY <1>8, <1>9, LenProperties
<1>11. \A i, j \in DOMAIN rows' : rows'[i].at = rows'[j].at => i = j
  <2>. SUFFICES ASSUME NEW i \in DOMAIN rows, NEW j \in DOMAIN rows,
                       rows'[i].at = rows'[j].at
                PROVE  i = j
    BY <1>7
  <2>1. CASE i = x /\ j # x
    <3>1. rows[j].at = Later /\ rows[j].at < Later  BY <1>4, <1>5, <1>7, <2>1
    <3>. QED  BY <1>4, <3>1
  <2>2. CASE i # x /\ j = x
    <3>1. rows[i].at = Later /\ rows[i].at < Later  BY <1>4, <1>5, <1>7, <2>2
    <3>. QED  BY <1>4, <3>1
  <2>3. CASE i # x /\ j # x  BY <1>7, <2>3 DEF RowsInv
  <2>. QED  BY <2>1, <2>2, <2>3
<1>12. \A i \in DOMAIN rows :
         /\ rows'[i].kind = rows[i].kind /\ rows'[i].store = rows[i].store
         /\ rows'[i].key = rows[i].key /\ rows'[i].day = rows[i].day
         /\ rows'[i].status = rows[i].status
  BY <1>1, <1>5, <1>7
<1>13. OneDraftPerDay'
  BY <1>7, <1>12 DEF RowsInv, OneDraftPerDay, Same
<1>14. RowsInv'  BY <1>9, <1>11, <1>13 DEF RowsInv
<1>15. RowsExtended  BY <1>7, <1>9, <1>10, <1>12 DEF RowsExtended
<1>. QED  BY <1>3, <1>7, <1>14, <1>15

\* A new one
LEMMA UpsertAppends ==
  ASSUME RowsInv, NEW k \in RowKinds, NEW s \in Stores,
         NEW key \in Suppliers \cup {WinBack},
         Upsert(k, s, key), UNCHANGED today, SameDraft(k, s, key) = {}
  PROVE  /\ RowsInv' /\ RowsExtended /\ IdOf(k, s, key) = Len(rows) + 1
         /\ DOMAIN rows' = 1 .. Len(rows) + 1
         /\ rows'[Len(rows) + 1].kind = k /\ rows'[Len(rows) + 1].store = s
         /\ rows'[Len(rows) + 1].key = key /\ rows'[Len(rows) + 1].status = "DRAFT"
<1>. DEFINE r == [kind |-> k, store |-> s, key |-> key, day |-> today,
                  status |-> "DRAFT", at |-> Later]
            n == Len(rows) + 1
<1>1. IdOf(k, s, key) = n  BY DEF IdOf
<1>2. Later \in Nat /\ \A i \in DOMAIN rows : rows[i].at < Later
  BY LaterThanAll DEF Upsert
<1>3. r \in Row  BY <1>2 DEF Row, RowsInv
<1>4. /\ r.kind = k /\ r.store = s /\ r.key = key /\ r.day = today
      /\ r.status = "DRAFT" /\ r.at = Later
  OBVIOUS
<1>5. rows' = Append(rows, r) /\ rows \in Seq(Row)  BY DEF Upsert, RowsInv
<1>. HIDE DEF r
<1>6. /\ Len(rows) \in Nat /\ DOMAIN rows = 1 .. Len(rows)
  BY RowsDomain
<1>7. /\ rows' \in Seq(Row) /\ Len(rows') = n
      /\ rows'[n] = r /\ \A i \in 1 .. Len(rows) : rows'[i] = rows[i]
  BY <1>3, <1>5
<1>8. DOMAIN rows' = 1 .. n  BY <1>7, LenProperties
<1>9. \A i \in DOMAIN rows' : i \in DOMAIN rows \/ i = n  BY <1>6, <1>8
<1>10. \A i \in DOMAIN rows : i # n /\ rows'[i] = rows[i]  BY <1>6, <1>7
<1>11. \A i, j \in DOMAIN rows' : rows'[i].at = rows'[j].at => i = j
  <2>. SUFFICES ASSUME NEW i \in DOMAIN rows', NEW j \in DOMAIN rows',
                       rows'[i].at = rows'[j].at
                PROVE  i = j
    OBVIOUS
  <2>1. CASE i = n /\ j # n
    <3>1. j \in DOMAIN rows /\ rows[j].at = Later  BY <1>4, <1>7, <1>9, <1>10, <2>1
    <3>2. rows[j].at < Later  BY <1>2, <3>1
    <3>. QED  BY <1>2, <3>1, <3>2
  <2>2. CASE i # n /\ j = n
    <3>1. i \in DOMAIN rows /\ rows[i].at = Later  BY <1>4, <1>7, <1>9, <1>10, <2>2
    <3>2. rows[i].at < Later  BY <1>2, <3>1
    <3>. QED  BY <1>2, <3>1, <3>2
  <2>3. CASE i # n /\ j # n  BY <1>9, <1>10, <2>3 DEF RowsInv
  <2>. QED  BY <2>1, <2>2, <2>3
<1>12. OneDraftPerDay'
  <2>. SUFFICES ASSUME NEW i \in DOMAIN rows', NEW j \in DOMAIN rows',
                       rows'[i].status = "DRAFT", rows'[j].status = "DRAFT",
                       Same(rows'[i], rows'[j])
                PROVE  i = j
    BY DEF OneDraftPerDay, Same
  <2>1. ASSUME NEW m \in DOMAIN rows, rows[m].status = "DRAFT",
               Same(rows[m], r) \/ Same(r, rows[m])
        PROVE  FALSE
    <3>1. m \in SameDraft(k, s, key)  BY <1>4, <2>1 DEF SameDraft, Same
    <3>. QED  BY <3>1
  <2>2. CASE i \in DOMAIN rows /\ j \in DOMAIN rows
    BY <1>10, <2>2 DEF RowsInv, OneDraftPerDay
  <2>3. CASE i \in DOMAIN rows /\ j = n  BY <1>7, <1>10, <2>1, <2>3
  <2>4. CASE i = n /\ j \in DOMAIN rows  BY <1>7, <1>10, <2>1, <2>4
  <2>. QED  BY <1>9, <2>2, <2>3, <2>4
<1>13. RowsInv'  BY <1>7, <1>11, <1>12 DEF RowsInv
<1>14. RowsExtended  BY <1>4, <1>6, <1>7, <1>9, <1>10 DEF RowsExtended
<1>. QED  BY <1>1, <1>4, <1>7, <1>8, <1>13, <1>14

LEMMA UpsertFacts ==
  ASSUME RowsInv, NEW k \in RowKinds, NEW s \in Stores,
         NEW key \in Suppliers \cup {WinBack},
         Upsert(k, s, key), UNCHANGED today
  PROVE  /\ RowsInv' /\ RowsExtended
         /\ IdOf(k, s, key) \in DOMAIN rows'
         /\ rows'[IdOf(k, s, key)].kind = k /\ rows'[IdOf(k, s, key)].store = s
         /\ rows'[IdOf(k, s, key)].key = key /\ rows'[IdOf(k, s, key)].status = "DRAFT"
<1>1. CASE SameDraft(k, s, key) = {}
  <2>1. Len(rows) + 1 \in 1 .. Len(rows) + 1  BY RowsDomain
  <2>. QED  BY <1>1, <2>1, UpsertAppends
<1>2. CASE SameDraft(k, s, key) # {}
  <2>1. PICK x \in SameDraft(k, s, key) : TRUE  BY <1>2
  <2>2. RowsInv' /\ RowsExtended /\ IdOf(k, s, key) = x /\ DOMAIN rows' = DOMAIN rows
    BY <2>1, UpsertReplaces
  <2>3. /\ x \in DOMAIN rows /\ rows[x].kind = k /\ rows[x].store = s /\ rows[x].key = key
        /\ rows[x].status = "DRAFT"
    BY <2>1 DEF SameDraft
  <2>. QED  BY <2>2, <2>3 DEF RowsExtended
<1>. QED  BY <1>1, <1>2

-----------------------------------------------------------------------------
(* Cards.  cs are cards, rs the rows they carry the ids of, tn the turn.   *)

\* The inventory rules put the id of an order on a card, and nobody else
Linked(rs, cs) ==
  \A c \in DOMAIN cs :
    /\ cs[c].row # NoRow <=> cs[c].kind = "order" /\ cs[c].path = "rules"
    /\ cs[c].row # NoRow => /\ cs[c].row \in DOMAIN rs
                            /\ rs[cs[c].row].kind = cs[c].kind
                            /\ rs[cs[c].row].store = cs[c].store

AgainSeen(cs, k, s) == \E c \in DOMAIN cs : cs[c].kind = k /\ cs[c].store = s /\ cs[c].again

\* The order whose id an open card carries is a draft, unless a decision
\* over HTTP came between, or a card was saved from a copy
Carried(rs, cs, tn) ==
  \A c \in DOMAIN cs : cs[c].row # NoRow =>
    /\ cs[c].status = "held" => tn = cs[c].store /\ rs[cs[c].row].status = "DRAFT"
    /\ cs[c].status = "open" => \/ rs[cs[c].row].status = "DRAFT"
                                \/ AgainSeen(cs, cs[c].kind, cs[c].store)

\* Without those two, cards that can be decided do not carry one order
\* twice, and those of one store and kind were saved by one run
Together(cs, c, d) ==
  \/ cs[c].status = "held" /\ cs[d].status = "held"
  \/ cs[c].status = "open" /\ cs[d].status = "open"
Distinct(cs) ==
  \A c, d \in DOMAIN cs :
    Together(cs, c, d) /\ cs[c].row = cs[d].row /\ cs[c].row # NoRow =>
      c = d \/ AgainSeen(cs, cs[c].kind, cs[c].store)
OnePath(cs) ==
  \A c, d \in DOMAIN cs :
    /\ cs[c].status = "open" /\ cs[d].status = "open"
    /\ cs[c].kind = cs[d].kind /\ cs[c].store = cs[d].store
    => cs[c].path = cs[d].path \/ AgainSeen(cs, cs[c].kind, cs[c].store)

Orderly(rs, cs, tn) ==
  /\ cs \in Seq(Card) /\ Linked(rs, cs) /\ Carried(rs, cs, tn)
  /\ Distinct(cs) /\ OnePath(cs)

\* Cards keep what they are about, and that they may be decided again
Kept(cs, ds) ==
  /\ Len(cs) <= Len(ds)
  /\ \A c \in DOMAIN cs :
       /\ c \in DOMAIN ds
       /\ ds[c].kind = cs[c].kind /\ ds[c].store = cs[c].store
       /\ ds[c].path = cs[c].path /\ ds[c].row = cs[c].row
       /\ cs[c].again => ds[c].again

LEMMA CardsDomain ==
  ASSUME NEW cs \in Seq(Card)
  PROVE  /\ Len(cs) \in Nat /\ DOMAIN cs = 1 .. Len(cs)
         /\ \A c \in DOMAIN cs : cs[c] \in Card
BY LenProperties, ElementOfSeq

LEMMA AgainStays ==
  ASSUME NEW cs, NEW ds, Kept(cs, ds), NEW k, NEW s, AgainSeen(cs, k, s)
  PROVE  AgainSeen(ds, k, s)
BY DEF Kept, AgainSeen

\* Saving a card changes its status only
LEMMA SavedCard ==
  ASSUME NEW card \in Card, NEW k, NEW s, NEW path
  PROVE  /\ Saved(card, k, s, path) \in Card
         /\ Saved(card, k, s, path).kind = card.kind
         /\ Saved(card, k, s, path).store = card.store
         /\ Saved(card, k, s, path).path = card.path
         /\ Saved(card, k, s, path).row = card.row
         /\ Saved(card, k, s, path).again = card.again
         /\ Saved(card, k, s, path).uses = card.uses
         /\ Saved(card, k, s, path).status = "held" =>
              /\ card.status = "held"
              /\ ~ (card.kind = k /\ card.store = s /\ card.path = path)
         /\ Saved(card, k, s, path).status = "open" =>
              \/ /\ card.status = "held"
                 /\ card.kind = k /\ card.store = s /\ card.path = path
              \/ card.status = "open" /\ ~ (card.kind = k /\ card.store = s)
BY DEF Saved, Card

LEMMA CommitFacts ==
  ASSUME NEW cs \in Seq(Card), NEW k, NEW s, NEW path
  PROVE  /\ Commit(cs, k, s, path) \in Seq(Card)
         /\ Len(Commit(cs, k, s, path)) = Len(cs)
         /\ DOMAIN Commit(cs, k, s, path) = DOMAIN cs
         /\ \A c \in DOMAIN cs : Commit(cs, k, s, path)[c] = Saved(cs[c], k, s, path)
         /\ Kept(cs, Commit(cs, k, s, path))
<1>. DEFINE ds == Commit(cs, k, s, path)
<1>1. /\ Len(cs) \in Nat /\ DOMAIN cs = 1 .. Len(cs)
      /\ \A c \in DOMAIN cs : cs[c] \in Card
  BY CardsDomain
<1>2. DOMAIN ds = DOMAIN cs /\ \A c \in DOMAIN cs : ds[c] = Saved(cs[c], k, s, path)
  BY DEF Commit
<1>3. ds \in [1 .. Len(cs) -> Card]
  BY <1>1, SavedCard DEF Commit
<1>4. ds \in Seq(Card)  BY <1>1, <1>3, SeqDef
<1>5. Len(ds) = Len(cs)  BY <1>1, <1>3, <1>4, LenProperties
<1>. HIDE DEF ds
<1>6. Kept(cs, ds)  BY <1>1, <1>2, <1>5, SavedCard DEF Kept
<1>. QED  BY <1>2, <1>4, <1>5, <1>6 DEF ds

LEMMA CommitOrderly ==
  ASSUME NEW rs, NEW cs, NEW tn, Orderly(rs, cs, tn),
         NEW k, NEW s, NEW path, NEW tm,
         tm = tn \/ (k = "order" /\ s = tn /\ path = "rules")
  PROVE  Orderly(rs, Commit(cs, k, s, path), tm)
<1>. DEFINE ds == Commit(cs, k, s, path)
<1>1. /\ cs \in Seq(Card) /\ ds \in Seq(Card) /\ DOMAIN ds = DOMAIN cs
      /\ \A c \in DOMAIN cs : cs[c] \in Card /\ ds[c] = Saved(cs[c], k, s, path)
  BY CommitFacts, CardsDomain DEF Orderly
<1>0. \A j, t : AgainSeen(cs, j, t) => AgainSeen(ds, j, t)
  BY CommitFacts, AgainStays DEF Orderly
<1>. HIDE DEF ds
<1>2. ASSUME NEW c \in DOMAIN cs
      PROVE  /\ ds[c].kind = cs[c].kind /\ ds[c].store = cs[c].store
             /\ ds[c].path = cs[c].path /\ ds[c].row = cs[c].row
             /\ ds[c].again = cs[c].again
             /\ ds[c].status = "held" =>
                  /\ cs[c].status = "held"
                  /\ ~ (cs[c].kind = k /\ cs[c].store = s /\ cs[c].path = path)
             /\ ds[c].status = "open" =>
                  \/ /\ cs[c].status = "held"
                     /\ cs[c].kind = k /\ cs[c].store = s /\ cs[c].path = path
                  \/ cs[c].status = "open" /\ ~ (cs[c].kind = k /\ cs[c].store = s)
  BY <1>1, SavedCard
<1>3. Linked(rs, ds)  BY <1>1, <1>2 DEF Orderly, Linked
<1>4. Carried(rs, ds, tm)
  <2>. SUFFICES ASSUME NEW c \in DOMAIN cs, cs[c].row # NoRow
                PROVE  /\ ds[c].status = "held" =>
                            tm = cs[c].store /\ rs[cs[c].row].status = "DRAFT"
                       /\ ds[c].status = "open" =>
                            \/ rs[cs[c].row].status = "DRAFT"
                            \/ AgainSeen(ds, cs[c].kind, cs[c].store)
    BY <1>1, <1>2 DEF Carried
  <2>1. ASSUME ds[c].status = "held"
        PROVE  tm = cs[c].store /\ rs[cs[c].row].status = "DRAFT"
    <3>1. cs[c].status = "held" /\ tn = cs[c].store /\ rs[cs[c].row].status = "DRAFT"
      BY <1>2, <2>1 DEF Orderly, Carried
    <3>2. cs[c].kind = "order" /\ cs[c].path = "rules"  BY DEF Orderly, Linked
    <3>3. ~ (cs[c].kind = k /\ cs[c].store = s /\ cs[c].path = path)  BY <1>2, <2>1
    <3>. QED  BY <3>1, <3>2, <3>3
  <2>2. ASSUME ds[c].status = "open"
        PROVE  \/ rs[cs[c].row].status = "DRAFT"
               \/ AgainSeen(ds, cs[c].kind, cs[c].store)
    <3>1. CASE cs[c].status = "held"  BY <3>1 DEF Orderly, Carried
    <3>2. CASE cs[c].status = "open"
      <4>1. \/ rs[cs[c].row].status = "DRAFT"
            \/ AgainSeen(cs, cs[c].kind, cs[c].store)
        BY <3>2 DEF Orderly, Carried
      <4>. QED  BY <1>0, <4>1
    <3>. QED  BY <1>2, <2>2, <3>1, <3>2
  <2>. QED  BY <2>1, <2>2
<1>5. Distinct(ds)
  <2>. SUFFICES ASSUME NEW c \in DOMAIN cs, NEW d \in DOMAIN cs, Together(ds, c, d),
                       cs[c].row = cs[d].row, cs[c].row # NoRow
                PROVE  c = d \/ AgainSeen(ds, cs[c].kind, cs[c].store)
    BY <1>1, <1>2 DEF Distinct
  <2>1. cs[c].kind = cs[d].kind /\ cs[c].store = cs[d].store /\ cs[c].path = cs[d].path
    BY DEF Orderly, Linked
  <2>2. Together(cs, c, d)  BY <1>2, <2>1 DEF Together
  <2>. QED  BY <1>0, <2>2 DEF Orderly, Distinct
<1>6. OnePath(ds)
  <2>. SUFFICES ASSUME NEW c \in DOMAIN cs, NEW d \in DOMAIN cs,
                       ds[c].status = "open", ds[d].status = "open",
                       cs[c].kind = cs[d].kind, cs[c].store = cs[d].store
                PROVE  cs[c].path = cs[d].path \/ AgainSeen(ds, cs[c].kind, cs[c].store)
    BY <1>1, <1>2 DEF OnePath
  <2>1. CASE cs[c].kind = k /\ cs[c].store = s  BY <1>2, <2>1
  <2>2. CASE ~ (cs[c].kind = k /\ cs[c].store = s)
    <3>1. cs[c].status = "open" /\ cs[d].status = "open"  BY <1>2, <2>2
    <3>. QED  BY <1>0, <3>1 DEF Orderly, OnePath
  <2>. QED  BY <2>1, <2>2
<1>. QED  BY <1>1, <1>3, <1>4, <1>5, <1>6 DEF Orderly, ds

LEMMA SameTurnOrderly ==
  ASSUME NEW rs, NEW cs, NEW tn, Orderly(rs, cs, tn), NEW k, NEW s, NEW path
  PROVE  Orderly(rs, Commit(cs, k, s, path), tn)
<1>1. tn = tn \/ (k = "order" /\ s = tn /\ path = "rules")  OBVIOUS
<1>. QED  BY <1>1, CommitOrderly, Zenon

\* Saving copies leaves the cards orderly: those saved may be decided again
LEMMA SaveCopiesOrderly ==
  ASSUME NEW rs, NEW cs, NEW tn, Orderly(rs, cs, tn), NEW C
  PROVE  Orderly(rs, SaveCopies(cs, C), tn) /\ Kept(cs, SaveCopies(cs, C))
<1>. DEFINE copied(c) == [cs[c] EXCEPT !.status = "open", !.again = TRUE]
            ds == [c \in DOMAIN cs |-> IF c \in C THEN copied(c) ELSE cs[c]]
<1>1. /\ cs \in Seq(Card) /\ Len(cs) \in Nat /\ DOMAIN cs = 1 .. Len(cs)
      /\ \A c \in DOMAIN cs : cs[c] \in Card
  BY CardsDomain DEF Orderly
<1>2. ASSUME NEW c \in DOMAIN cs
      PROVE  /\ copied(c) \in Card
             /\ copied(c).kind = cs[c].kind /\ copied(c).store = cs[c].store
             /\ copied(c).path = cs[c].path /\ copied(c).row = cs[c].row
             /\ copied(c).status = "open" /\ copied(c).again = TRUE
  BY <1>1 DEF Card
<1>. HIDE DEF copied
<1>3. DOMAIN ds = DOMAIN cs
  OBVIOUS
<1>4. \A c \in DOMAIN cs : ds[c] = IF c \in C THEN copied(c) ELSE cs[c]
  OBVIOUS
<1>5. ds \in [1 .. Len(cs) -> Card]  BY <1>1, <1>2
<1>6. ds \in Seq(Card)  BY <1>1, <1>5, SeqDef
<1>7. Len(ds) = Len(cs)  BY <1>1, <1>5, <1>6, LenProperties
<1>8. SaveCopies(cs, C) = ds  BY DEF SaveCopies, copied
<1>. HIDE DEF ds
<1>9. ASSUME NEW c \in DOMAIN cs
      PROVE  /\ ds[c].kind = cs[c].kind /\ ds[c].store = cs[c].store
             /\ ds[c].path = cs[c].path /\ ds[c].row = cs[c].row
             /\ cs[c].again => ds[c].again
             /\ c \in C => AgainSeen(ds, cs[c].kind, cs[c].store)
             /\ c \in C => ds[c].status = "open"
             /\ c \notin C => ds[c].status = cs[c].status
  BY <1>2, <1>3, <1>4 DEF AgainSeen
<1>10. Kept(cs, ds)  BY <1>1, <1>3, <1>7, <1>9 DEF Kept
<1>11. \A k, s : AgainSeen(cs, k, s) => AgainSeen(ds, k, s)  BY <1>10, AgainStays
<1>12. Linked(rs, ds)  BY <1>3, <1>9 DEF Orderly, Linked
<1>13. Carried(rs, ds, tn)  BY <1>3, <1>9, <1>11 DEF Orderly, Carried
<1>14. Distinct(ds)
  <2>. SUFFICES ASSUME NEW c \in DOMAIN cs, NEW d \in DOMAIN cs, Together(ds, c, d),
                       cs[c].row = cs[d].row, cs[c].row # NoRow
                PROVE  c = d \/ AgainSeen(ds, cs[c].kind, cs[c].store)
    BY <1>3, <1>9 DEF Distinct
  <2>1. cs[c].kind = cs[d].kind /\ cs[c].store = cs[d].store
    BY DEF Orderly, Linked
  <2>2. CASE c \in C \/ d \in C  BY <1>9, <2>1, <2>2
  <2>3. CASE c \notin C /\ d \notin C
    <3>1. Together(cs, c, d)  BY <1>9, <2>3 DEF Together
    <3>. QED  BY <1>11, <3>1 DEF Orderly, Distinct
  <2>. QED  BY <2>2, <2>3
<1>15. OnePath(ds)
  <2>. SUFFICES ASSUME NEW c \in DOMAIN cs, NEW d \in DOMAIN cs,
                       ds[c].status = "open", ds[d].status = "open",
                       cs[c].kind = cs[d].kind, cs[c].store = cs[d].store
                PROVE  cs[c].path = cs[d].path \/ AgainSeen(ds, cs[c].kind, cs[c].store)
    BY <1>3, <1>9 DEF OnePath
  <2>1. CASE c \in C \/ d \in C  BY <1>9, <2>1
  <2>2. CASE c \notin C /\ d \notin C
    <3>1. cs[c].status = "open" /\ cs[d].status = "open"  BY <1>9, <2>2
    <3>. QED  BY <1>11, <3>1 DEF Orderly, OnePath
  <2>. QED  BY <2>1, <2>2
<1>16. Orderly(rs, ds, tn)  BY <1>6, <1>12, <1>13, <1>14, <1>15 DEF Orderly
<1>. QED  BY <1>8, <1>10, <1>16

\* A card is held: the order it carries is in draft and on no other card held
LEMMA HoldOrderly ==
  ASSUME NEW rs, NEW cs, NEW tn, Orderly(rs, cs, tn),
         NEW card \in Card, card.status = "held",
         card.row # NoRow <=> card.kind = "order" /\ card.path = "rules",
         card.row # NoRow =>
           /\ card.row \in DOMAIN rs /\ rs[card.row].kind = card.kind
           /\ rs[card.row].store = card.store /\ rs[card.row].status = "DRAFT"
           /\ tn = card.store
           /\ \A c \in DOMAIN cs : cs[c].status = "held" => cs[c].row # card.row
  PROVE  /\ Orderly(rs, Append(cs, card), tn)
         /\ Kept(cs, Append(cs, card))
         /\ DOMAIN Append(cs, card) = 1 .. Len(cs) + 1
<1>. DEFINE ds == Append(cs, card)
            n  == Len(cs) + 1
<1>1. cs \in Seq(Card) /\ Len(cs) \in Nat /\ DOMAIN cs = 1 .. Len(cs)
  BY CardsDomain DEF Orderly
<1>2. /\ ds \in Seq(Card) /\ Len(ds) = n
      /\ ds[n] = card /\ \A c \in 1 .. Len(cs) : ds[c] = cs[c]
  BY <1>1
<1>3. DOMAIN ds = 1 .. n  BY <1>2, LenProperties
<1>. HIDE DEF ds
<1>4. /\ n \in DOMAIN ds
      /\ \A c \in DOMAIN ds : c \in DOMAIN cs \/ c = n
      /\ \A c \in DOMAIN cs : c \in DOMAIN ds /\ c # n /\ ds[c] = cs[c]
  BY <1>1, <1>2, <1>3
<1>. HIDE DEF n
<1>5. Linked(rs, ds)  BY <1>2, <1>4 DEF Orderly, Linked
<1>10. \A k, s : AgainSeen(cs, k, s) => AgainSeen(ds, k, s)
  BY <1>4 DEF AgainSeen
<1>6. Carried(rs, ds, tn)
  <2>2. ASSUME NEW c \in DOMAIN cs, ds[c].row # NoRow
        PROVE  /\ ds[c].status = "held" =>
                    tn = ds[c].store /\ rs[ds[c].row].status = "DRAFT"
               /\ ds[c].status = "open" => \/ rs[ds[c].row].status = "DRAFT"
                                           \/ AgainSeen(ds, ds[c].kind, ds[c].store)
    <3>1. ds[c] = cs[c]  BY <1>4
    <3>. QED  BY <1>10, <2>2, <3>1 DEF Orderly, Carried
  <2>3. card.status # "open"  OBVIOUS
  <2>. QED  BY <1>2, <1>4, <2>2, <2>3 DEF Carried
<1>7. Distinct(ds)
  <2>. SUFFICES ASSUME NEW c \in DOMAIN ds, NEW d \in DOMAIN ds, Together(ds, c, d),
                       ds[c].row = ds[d].row, ds[c].row # NoRow
                PROVE  c = d \/ AgainSeen(ds, ds[c].kind, ds[c].store)
    BY DEF Distinct
  <2>1. CASE c \in DOMAIN cs /\ d \in DOMAIN cs
    BY <1>4, <1>10, <2>1 DEF Orderly, Distinct, Together
  <2>2. CASE c \in DOMAIN cs /\ d = n
    <3>1. ds[d] = card /\ ds[c] = cs[c]  BY <1>2, <1>4, <2>2
    <3>2. cs[c].status = "held"  BY <3>1 DEF Together
    <3>. QED  BY <2>2, <3>1, <3>2
  <2>3. CASE c = n /\ d \in DOMAIN cs
    <3>1. ds[c] = card /\ ds[d] = cs[d]  BY <1>2, <1>4, <2>3
    <3>2. cs[d].status = "held"  BY <3>1 DEF Together
    <3>. QED  BY <2>3, <3>1, <3>2
  <2>. QED  BY <1>4, <2>1, <2>2, <2>3
<1>8. OnePath(ds)
  <2>1. ds[n].status # "open"  BY <1>2
  <2>. QED  BY <1>4, <1>10, <2>1 DEF Orderly, OnePath
<1>9. Kept(cs, ds)  BY <1>1, <1>2, <1>4 DEF Kept, n
<1>. QED  BY <1>2, <1>3, <1>5, <1>6, <1>7, <1>8, <1>9 DEF Orderly, n, ds

\* Posting changes nothing of it
LEMMA RowsOrderly ==
  ASSUME NEW tn, Orderly(rows, cards, tn), RowsInv, RowsInv', RowsExtended
  PROVE  Orderly(rows', cards, tn)
<1>1. DOMAIN rows = 1 .. Len(rows) /\ Len(rows) \in Nat  BY RowsDomain
<1>2. rows' \in Seq(Row)  BY DEF RowsInv
<1>3. DOMAIN rows' = 1 .. Len(rows') /\ Len(rows') \in Nat  BY <1>2, LenProperties
<1>4. \A i \in DOMAIN rows : i \in DOMAIN rows'  BY <1>1, <1>3 DEF RowsExtended
<1>5. Linked(rows', cards)  BY <1>4 DEF Orderly, Linked, RowsExtended
<1>6. Carried(rows', cards, tn)  BY DEF Orderly, Linked, Carried, RowsExtended
<1>. QED  BY <1>5, <1>6 DEF Orderly

-----------------------------------------------------------------------------
(* The invariant, and the steps that decide nothing.                       *)
PlatformInv ==
  /\ today \in 0 .. MaxDays /\ turn \in Stores \cup {Free} /\ recorded \in Nat
  /\ shifts \in [Stores -> [Slots -> [draft : 0 .. 1, confirmed : Nat]]]
  /\ menu \in [Items -> Nat]
  /\ applied \in [Kinds -> 0 .. MaxDecisions]

ToldInv == told \in SUBSET [card : DOMAIN cards, verdict : Verdicts]
CopiesInv == copies \subseteq DOMAIN cards

EffectsInv ==
  /\ RowsInv /\ PlatformInv /\ ToldInv /\ CopiesInv /\ Orderly(rows, cards, turn)
  /\ HumanInTheLoop /\ OneRowPerDecision /\ BookedByApprovals

LEMMA NoRowIsNoRow ==
  ASSUME RowsInv
  PROVE  NoRow \notin DOMAIN rows
BY RowsDomain DEF NoRow

LEMMA FreeIsNoStore == \A s \in Stores : s # Free
BY EffectsAssumption

LEMMA RowsSame ==
  ASSUME RowsInv, UNCHANGED rows, today' \in Nat
  PROVE  RowsInv' /\ RowsExtended
<1>1. RowsInv'  BY DEF RowsInv, OneDraftPerDay, Same
<1>2. RowsExtended  BY RowsDomain DEF RowsExtended
<1>. QED  BY <1>1, <1>2

LEMMA KeptTransitive ==
  ASSUME NEW a \in Seq(Card), NEW b \in Seq(Card), NEW c \in Seq(Card),
         Kept(a, b), Kept(b, c)
  PROVE  Kept(a, c)
BY CardsDomain DEF Kept

LEMMA KeptSame ==
  ASSUME NEW cs \in Seq(Card)
  PROVE  Kept(cs, cs)
BY CardsDomain DEF Kept

LEMMA Undecided ==
  ASSUME EffectsInv, RowsInv', RowsExtended, Orderly(rows', cards', turn'),
         Kept(cards, cards'), PlatformInv', UNCHANGED history,
         copies' \subseteq copies \cup DOMAIN cards,
         \A s \in Stores, w \in Slots : shifts'[s][w].confirmed = shifts[s][w].confirmed
  PROVE  EffectsInv'
<1>1. told' = told /\ applied' = applied  BY DEF history
<1>2. \A c \in DOMAIN cards : c \in DOMAIN cards'  BY DEF Kept
<1>3. ToldInv'  BY <1>1, <1>2 DEF EffectsInv, ToldInv
<1>4. HumanInTheLoop'
  <2>. SUFFICES ASSUME NEW i \in DOMAIN rows', rows'[i].status # "DRAFT"
                PROVE  \E t \in told : Accounts(i, t)'
    BY <1>1 DEF HumanInTheLoop
  <2>1. i \in DOMAIN rows  BY DEF RowsExtended
  <2>2. rows[i].status # "DRAFT"  BY <2>1 DEF RowsExtended
  <2>3. PICK t \in told : Accounts(i, t)  BY <2>1, <2>2 DEF EffectsInv, HumanInTheLoop
  <2>4. t.card \in DOMAIN cards  BY <2>3 DEF EffectsInv, ToldInv
  <2>5. Accounts(i, t)'  BY <2>1, <2>3, <2>4 DEF Accounts, VerdictOf, RowsExtended, Kept
  <2>. QED  BY <2>5
<1>5. OneRowPerDecision'
  <2>1. \A i \in DOMAIN rows : i \in DOMAIN rows'
    <3>1. rows' \in Seq(Row)  BY DEF RowsInv
    <3>2. DOMAIN rows' = 1 .. Len(rows') /\ Len(rows') \in Nat  BY <3>1, LenProperties
    <3>. QED  BY <3>2, RowsDomain DEF EffectsInv, RowsExtended
  <2>2. Left' = Left  BY <2>1 DEF Left, RowsExtended
  <2>. QED  BY <1>1, <2>2 DEF EffectsInv, OneRowPerDecision
<1>6. BookedByApprovals'  BY <1>1 DEF EffectsInv, BookedByApprovals
<1>7. CopiesInv'  BY <1>2 DEF EffectsInv, CopiesInv
<1>. QED  BY <1>3, <1>4, <1>5, <1>6, <1>7 DEF EffectsInv

LEMMA PostShiftsFacts ==
  ASSUME PlatformInv, NEW s \in Stores, NEW S, PostShifts(s, S)
  PROVE  /\ shifts' \in [Stores -> [Slots -> [draft : 0 .. 1, confirmed : Nat]]]
         /\ \A t \in Stores, w \in Slots : shifts'[t][w].confirmed = shifts[t][w].confirmed
<1>. DEFINE D == [draft : 0 .. 1, confirmed : Nat]
            n == [w \in Slots |-> IF w \in S THEN [shifts[s][w] EXCEPT !.draft = 1]
                                             ELSE shifts[s][w]]
<1>1. shifts \in [Stores -> [Slots -> D]]  BY DEF PlatformInv
<1>2. shifts' = [shifts EXCEPT ![s] = n]  BY DEF PostShifts
<1>3. ASSUME NEW w \in Slots
      PROVE  n[w] \in D /\ n[w].confirmed = shifts[s][w].confirmed
  BY <1>1
<1>4. n \in [Slots -> D]  BY <1>3
<1>. HIDE DEF n
<1>5. shifts' \in [Stores -> [Slots -> D]]  BY <1>1, <1>2, <1>4
<1>6. \A t \in Stores : shifts'[t] = IF t = s THEN n ELSE shifts[t]  BY <1>1, <1>2
<1>. QED  BY <1>3, <1>5, <1>6

LEMMA PlainCard ==
  ASSUME NEW k \in Kinds, NEW s \in Stores, NEW path \in {"rules", "model"}
  PROVE  /\ Plain(k, s, path) \in Card
         /\ Plain(k, s, path).kind = k /\ Plain(k, s, path).store = s
         /\ Plain(k, s, path).path = path /\ Plain(k, s, path).row = NoRow
         /\ Plain(k, s, path).status = "held"
BY DEF Plain, Card, NoRow, Directions

LEMMA PriceCardFacts ==
  ASSUME NEW s \in Stores, NEW path \in {"rules", "model"}, NEW S \in SUBSET Items,
         NEW ids \in SUBSET Items, NEW d \in Directions, NEW p \in Nat
  PROVE  /\ PriceCard(s, path, S, ids, d, p) \in Card
         /\ PriceCard(s, path, S, ids, d, p).kind = "price"
         /\ PriceCard(s, path, S, ids, d, p).store = s
         /\ PriceCard(s, path, S, ids, d, p).path = path
         /\ PriceCard(s, path, S, ids, d, p).row = NoRow
         /\ PriceCard(s, path, S, ids, d, p).status = "held"
<1>1. /\ Plain("price", s, path) \in Card
      /\ Plain("price", s, path).kind = "price" /\ Plain("price", s, path).store = s
      /\ Plain("price", s, path).path = path /\ Plain("price", s, path).row = NoRow
      /\ Plain("price", s, path).status = "held"
  BY PlainCard DEF Kinds
<1>. QED  BY <1>1 DEF PriceCard, Card

LEMMA CappedType ==
  ASSUME NEW d, NEW p \in Nat
  PROVE  Capped(d, p) \in 0 .. 15
BY DEF Capped, IncreaseMax, DiscountMax

\* A card that carries no order is held, and saved in the same step or not
LEMMA HeldOrderly ==
  ASSUME NEW rs, NEW cs, NEW tn, Orderly(rs, cs, tn),
         NEW card \in Card, card.status = "held", card.row = NoRow,
         card.kind # "order" \/ card.path # "rules", NEW k, NEW s, NEW path
  PROVE  /\ Orderly(rs, Append(cs, card), tn)
         /\ Kept(cs, Append(cs, card))
         /\ Orderly(rs, Commit(Append(cs, card), k, s, path), tn)
         /\ Kept(cs, Commit(Append(cs, card), k, s, path))
<1>. DEFINE ds == Append(cs, card)
<1>1. Orderly(rs, ds, tn) /\ Kept(cs, ds)  BY HoldOrderly
<1>2. cs \in Seq(Card) /\ ds \in Seq(Card)  BY <1>1 DEF Orderly
<1>. HIDE DEF ds
<1>3. Commit(ds, k, s, path) \in Seq(Card) /\ Kept(ds, Commit(ds, k, s, path))
  BY <1>2, CommitFacts
<1>4. Orderly(rs, Commit(ds, k, s, path), tn)  BY <1>1, SameTurnOrderly
<1>5. Kept(cs, Commit(ds, k, s, path))  BY <1>1, <1>2, <1>3, KeptTransitive
<1>. QED  BY <1>1, <1>4, <1>5 DEF ds

LEMMA RulesOrderStep ==
  ASSUME EffectsInv, NEW s \in Stores, NEW supplier \in Suppliers, RulesOrder(s, supplier)
  PROVE  EffectsInv'
<1>. DEFINE id == IdOf("order", s, supplier)
            card == [Plain("order", s, "rules") EXCEPT !.row = id]
<1>1. /\ turn \in {Free, s} /\ turn' = s
      /\ \A c \in DOMAIN cards : cards[c].status = "held" /\ cards[c].row # NoRow
                                  => rows[cards[c].row].key # supplier
      /\ Upsert("order", s, supplier)
      /\ cards' = Append(cards, card)
      /\ UNCHANGED <<today, shifts, menu, recorded, copies, history>>
  BY DEF RulesOrder, PostOrder, Hold
<1>2. "order" \in RowKinds /\ supplier \in Suppliers \cup {WinBack}  BY DEF RowKinds
<1>3. RowsInv /\ Orderly(rows, cards, turn) /\ PlatformInv  BY DEF EffectsInv
<1>4. /\ RowsInv' /\ RowsExtended /\ id \in DOMAIN rows'
      /\ rows'[id].kind = "order" /\ rows'[id].store = s
      /\ rows'[id].key = supplier /\ rows'[id].status = "DRAFT"
  BY <1>1, <1>2, <1>3, UpsertFacts
<1>. HIDE DEF id
<1>5. id # NoRow /\ id \in Nat
  <2>1. rows' \in Seq(Row)  BY <1>4 DEF RowsInv
  <2>2. DOMAIN rows' = 1 .. Len(rows') /\ Len(rows') \in Nat  BY <2>1, LenProperties
  <2>. QED  BY <1>4, <2>2 DEF NoRow
<1>6. Plain("order", s, "rules") \in Card  BY PlainCard DEF Kinds, RowKinds
<1>7. /\ card \in Card /\ card.kind = "order" /\ card.store = s /\ card.path = "rules"
      /\ card.row = id /\ card.status = "held"
  <2>1. /\ Plain("order", s, "rules").kind = "order" /\ Plain("order", s, "rules").store = s
        /\ Plain("order", s, "rules").path = "rules"
        /\ Plain("order", s, "rules").status = "held"
    BY PlainCard DEF Kinds, RowKinds
  <2>. QED  BY <1>5, <1>6, <2>1 DEF Card
<1>. HIDE DEF card
<1>8. Orderly(rows, cards, s)
  <2>1. CASE turn = s  BY <1>3, <2>1
  <2>2. CASE turn = Free
    <3>1. \A c \in DOMAIN cards : cards[c].store # Free
      BY <1>3, CardsDomain, FreeIsNoStore DEF Orderly, Card
    <3>2. Carried(rows, cards, s)  BY <1>3, <2>2, <3>1 DEF Orderly, Carried
    <3>. QED  BY <1>3, <3>2 DEF Orderly
  <2>. QED  BY <1>1, <2>1, <2>2
<1>9. Orderly(rows', cards, s)  BY <1>3, <1>4, <1>8, RowsOrderly
<1>10. ASSUME NEW c \in DOMAIN cards, cards[c].status = "held", cards[c].row = id
       PROVE  FALSE
  <2>1. cards[c].row # NoRow  BY <1>5, <1>10
  <2>2. cards[c].row \in DOMAIN rows  BY <1>3, <2>1 DEF Orderly, Linked
  <2>3. rows'[id].key = rows[id].key  BY <1>4, <1>10, <2>2 DEF RowsExtended
  <2>. QED  BY <1>1, <1>4, <1>10, <2>1, <2>3
<1>11. Orderly(rows', Append(cards, card), s) /\ Kept(cards, Append(cards, card))
  BY <1>4, <1>5, <1>7, <1>9, <1>10, HoldOrderly
<1>12. PlatformInv'  BY <1>1, <1>3 DEF PlatformInv, history
<1>. QED  BY <1>1, <1>4, <1>11, <1>12, Undecided

LEMMA ModelOrderStep ==
  ASSUME EffectsInv, NEW s \in Stores, ModelOrder(s) \/ ModelCampaign(s)
  PROVE  EffectsInv'
<1>1. PICK k \in RowKinds, key \in Suppliers \cup {WinBack} :
        /\ Upsert(k, s, key)
        /\ cards' = Append(cards, Plain(k, s, "model"))
        /\ UNCHANGED <<today, shifts, menu, recorded, turn, copies, history>>
  BY DEF ModelOrder, ModelCampaign, PostOrder, PostCampaign, Hold, RowKinds
<1>2. RowsInv /\ Orderly(rows, cards, turn) /\ PlatformInv  BY DEF EffectsInv
<1>3. RowsInv' /\ RowsExtended  BY <1>1, <1>2, UpsertFacts
<1>4. Orderly(rows', cards, turn)  BY <1>2, <1>3, RowsOrderly
<1>5. /\ Plain(k, s, "model") \in Card /\ Plain(k, s, "model").status = "held"
      /\ Plain(k, s, "model").row = NoRow /\ Plain(k, s, "model").path = "model"
  BY PlainCard DEF Kinds
<1>6. Orderly(rows', cards', turn) /\ Kept(cards, cards')
  BY <1>1, <1>4, <1>5, HeldOrderly
<1>7. PlatformInv'  BY <1>1, <1>2 DEF PlatformInv, history
<1>. QED  BY <1>1, <1>3, <1>6, <1>7, Undecided

LEMMA RulesCampaignStep ==
  ASSUME EffectsInv, NEW s \in Stores, RulesCampaign(s)
  PROVE  EffectsInv'
<1>1. /\ Upsert("campaign", s, WinBack)
      /\ cards' = Commit(cards, "campaign", s, "rules")
      /\ UNCHANGED <<today, shifts, menu, recorded, turn, copies, history>>
  BY DEF RulesCampaign, PostCampaign
<1>2. RowsInv /\ Orderly(rows, cards, turn) /\ PlatformInv  BY DEF EffectsInv
<1>3. RowsInv' /\ RowsExtended  BY <1>1, <1>2, UpsertFacts DEF RowKinds
<1>4. Orderly(rows', cards, turn)  BY <1>2, <1>3, RowsOrderly
<1>5. Orderly(rows', cards', turn)  BY <1>1, <1>4, SameTurnOrderly
<1>6. Kept(cards, cards')  BY <1>1, <1>2, CommitFacts DEF Orderly
<1>7. PlatformInv'  BY <1>1, <1>2 DEF PlatformInv, history
<1>. QED  BY <1>1, <1>3, <1>5, <1>6, <1>7, Undecided

\* Steps that post no order and no campaign
LEMMA CardsOnly ==
  ASSUME EffectsInv, UNCHANGED rows, UNCHANGED history, PlatformInv',
         copies' \subseteq copies \cup DOMAIN cards,
         Orderly(rows, cards', turn'), Kept(cards, cards'),
         \A s \in Stores, w \in Slots : shifts'[s][w].confirmed = shifts[s][w].confirmed
  PROVE  EffectsInv'
<1>1. today' \in Nat  BY EffectsAssumption DEF PlatformInv
<1>2. RowsInv' /\ RowsExtended  BY <1>1, RowsSame DEF EffectsInv
<1>3. Orderly(rows', cards', turn')  OBVIOUS
<1>. QED  BY <1>2, <1>3, Undecided

LEMMA RosterStep ==
  ASSUME EffectsInv, NEW s \in Stores, RulesRoster(s) \/ ModelRoster(s)
  PROVE  EffectsInv'
<1>1. PICK path \in {"rules", "model"}, S \in SUBSET Slots :
        /\ PostShifts(s, S)
        /\ \/ cards' = Append(cards, Plain("roster", s, path))
           \/ cards' = Commit(Append(cards, Plain("roster", s, path)),
                              "roster", s, path)
        /\ UNCHANGED <<today, rows, menu, recorded, turn, copies, history>>
  <2>1. /\ Plain("roster", s, "rules").kind = "roster" /\ Plain("roster", s, "rules").store = s
        /\ Plain("roster", s, "rules").path = "rules"
    BY PlainCard DEF Kinds
  <2>2. CASE RulesRoster(s)
    <3>1. PICK S \in SUBSET Slots : PostShifts(s, S)  BY <2>2 DEF RulesRoster
    <3>. QED  BY <2>1, <2>2, <3>1 DEF RulesRoster, HoldAndCommit
  <2>3. CASE ModelRoster(s)
    <3>1. PICK S \in SUBSET Slots : PostShifts(s, S)  BY <2>3 DEF ModelRoster
    <3>. QED  BY <2>3, <3>1 DEF ModelRoster, Hold
  <2>. QED  BY <2>2, <2>3
<1>2. Orderly(rows, cards, turn) /\ PlatformInv  BY DEF EffectsInv
<1>3. /\ Plain("roster", s, path) \in Card /\ Plain("roster", s, path).status = "held"
      /\ Plain("roster", s, path).row = NoRow /\ Plain("roster", s, path).kind # "order"
  BY PlainCard DEF Kinds
<1>4. Orderly(rows, cards', turn) /\ Kept(cards, cards')
  BY <1>1, <1>2, <1>3, HeldOrderly
<1>5. /\ shifts' \in [Stores -> [Slots -> [draft : 0 .. 1, confirmed : Nat]]]
      /\ \A t \in Stores, w \in Slots : shifts'[t][w].confirmed = shifts[t][w].confirmed
  BY <1>1, <1>2, PostShiftsFacts
<1>6. PlatformInv'  BY <1>1, <1>2, <1>5 DEF PlatformInv, history
<1>7. /\ UNCHANGED rows /\ UNCHANGED history /\ turn' = turn
      /\ copies' \subseteq copies \cup DOMAIN cards
  BY <1>1
<1>. QED  BY <1>4, <1>5, <1>6, <1>7, CardsOnly

LEMMA PriceStep ==
  ASSUME EffectsInv, NEW s \in Stores, RulesPrice(s) \/ ModelPrice(s)
  PROVE  EffectsInv'
<1>1. PICK path \in {"rules", "model"}, S \in SUBSET Items, ids \in SUBSET Items,
           d \in Directions, q \in Nat :
        \/ cards' = Append(cards, PriceCard(s, path, S, ids, d, q))
        \/ cards' = Commit(Append(cards, PriceCard(s, path, S, ids, d, q)), "price", s, path)
  <2>1. CASE RulesPrice(s)
    <3>1. PICK S \in SUBSET Items \ {{}}, d \in {"increase", "discount"} :
            HoldAndCommit(PriceCard(s, "rules", S, {}, d,
                                    IF d = "increase" THEN IncreaseMax ELSE DiscountMax))
      BY <2>1 DEF RulesPrice
    <3>. DEFINE q == IF d = "increase" THEN IncreaseMax ELSE DiscountMax
    <3>2. /\ q \in Nat /\ S \in SUBSET Items /\ {} \in SUBSET Items
          /\ d \in Directions /\ "rules" \in {"rules", "model"}
      BY <3>1 DEF IncreaseMax, DiscountMax, Directions
    <3>. HIDE DEF q
    <3>3. HoldAndCommit(PriceCard(s, "rules", S, {}, d, q))  BY <3>1 DEF q
    <3>4. cards' = Commit(Append(cards, PriceCard(s, "rules", S, {}, d, q)),
                          "price", s, "rules")
      BY <3>2, <3>3, PriceCardFacts DEF HoldAndCommit
    <3>. QED  BY <3>2, <3>4
  <2>2. CASE ModelPrice(s)
    <3>1. PICK S \in SUBSET Items \ {{}}, ids \in SUBSET Items,
               d \in {"increase", "discount"}, p \in Percents :
            Hold(PriceCard(s, "model", S, ids, d, Capped(d, p)))
      BY <2>2 DEF ModelPrice
    <3>2. Capped(d, p) \in 0 .. 15  BY CappedType, EffectsAssumption
    <3>3. Capped(d, p) \in Nat /\ d \in Directions  BY <3>2 DEF Directions
    <3>. QED  BY <3>1, <3>3 DEF Hold
  <2>. QED  BY <2>1, <2>2
<1>2. Orderly(rows, cards, turn) /\ PlatformInv  BY DEF EffectsInv
<1>3. /\ PriceCard(s, path, S, ids, d, q) \in Card
      /\ PriceCard(s, path, S, ids, d, q).status = "held"
      /\ PriceCard(s, path, S, ids, d, q).row = NoRow
      /\ PriceCard(s, path, S, ids, d, q).kind # "order"
  BY PriceCardFacts
<1>4. Orderly(rows, cards', turn) /\ Kept(cards, cards')
  BY <1>1, <1>2, <1>3, HeldOrderly
<1>5. UNCHANGED <<today, rows, shifts, menu, recorded, turn, copies, history>>
  BY DEF RulesPrice, ModelPrice, platform
<1>6. PlatformInv'  BY <1>2, <1>5 DEF PlatformInv, history
<1>. QED  BY <1>4, <1>5, <1>6, CardsOnly

LEMMA ModelRecordStep ==
  ASSUME EffectsInv, NEW s \in Stores, ModelRecord(s)
  PROVE  EffectsInv'
<1>1. /\ cards' = Append(cards, Plain("record", s, "model"))
      /\ UNCHANGED <<today, rows, shifts, menu, recorded, turn, copies, history>>
  BY DEF ModelRecord, Hold, platform
<1>2. Orderly(rows, cards, turn) /\ PlatformInv  BY DEF EffectsInv
<1>3. /\ Plain("record", s, "model") \in Card /\ Plain("record", s, "model").status = "held"
      /\ Plain("record", s, "model").row = NoRow /\ Plain("record", s, "model").kind # "order"
  BY PlainCard DEF Kinds
<1>4. Orderly(rows, cards', turn) /\ Kept(cards, cards')
  BY <1>1, <1>2, <1>3, HeldOrderly
<1>5. PlatformInv'  BY <1>1, <1>2 DEF PlatformInv, history
<1>. QED  BY <1>1, <1>4, <1>5, CardsOnly

\* Runs that end
LEMMA CommitStep ==
  ASSUME EffectsInv, NEW s \in Stores,
         RulesOrdersEnd(s) \/ \E k \in Kinds : IdleRun(s, k)
  PROVE  EffectsInv'
<1>1. PICK k, path :
        /\ cards' = Commit(cards, k, s, path)
        /\ turn' = turn \/ (k = "order" /\ s = turn /\ path = "rules" /\ turn' = Free)
        /\ UNCHANGED <<today, rows, shifts, menu, recorded, copies, history>>
  BY DEF RulesOrdersEnd, IdleRun, platform
<1>2. Orderly(rows, cards, turn) /\ PlatformInv  BY DEF EffectsInv
<1>3. turn' = turn \/ (k = "order" /\ s = turn /\ path = "rules")  BY <1>1
<1>4. Orderly(rows, cards', turn')  BY <1>1, <1>2, <1>3, CommitOrderly
<1>5. Kept(cards, cards')  BY <1>1, <1>2, CommitFacts DEF Orderly
<1>6. PlatformInv'  BY <1>1, <1>2 DEF PlatformInv, history
<1>. QED  BY <1>1, <1>4, <1>5, <1>6, CardsOnly

LEMMA CopiesSavedStep ==
  ASSUME EffectsInv, ChatEnds \/ \E s \in Stores, k \in Kinds : ModelEnds(s, k)
  PROVE  EffectsInv'
<1>1. PICK cs, C :
        /\ cs = cards \/ \E k, s : cs = Commit(cards, k, s, "model")
        /\ cards' = SaveCopies(cs, C)
        /\ UNCHANGED <<today, rows, shifts, menu, recorded, copies, turn, history>>
  BY DEF ChatEnds, ModelEnds, platform
<1>2. Orderly(rows, cards, turn) /\ PlatformInv  BY DEF EffectsInv
<1>3. Orderly(rows, cs, turn) /\ Kept(cards, cs)
  <2>1. CASE cs = cards  BY <1>2, <2>1, KeptSame DEF Orderly
  <2>2. CASE \E k, s : cs = Commit(cards, k, s, "model")
    BY <1>2, <2>2, SameTurnOrderly, CommitFacts DEF Orderly
  <2>. QED  BY <1>1, <2>1, <2>2
<1>4. Orderly(rows, cards', turn) /\ Kept(cs, cards')  BY <1>1, <1>3, SaveCopiesOrderly
<1>5. Kept(cards, cards')
  <2>1. cards \in Seq(Card) /\ cs \in Seq(Card) /\ cards' \in Seq(Card)
    BY <1>2, <1>3, <1>4 DEF Orderly
  <2>. QED  BY <1>3, <1>4, <2>1, KeptTransitive
<1>6. Orderly(rows, cards', turn')  BY <1>1, <1>4
<1>7. PlatformInv'  BY <1>1, <1>2 DEF PlatformInv, history
<1>. QED  BY <1>1, <1>5, <1>6, <1>7, CardsOnly

LEMMA TakeCopyStep ==
  ASSUME EffectsInv, NEW c \in DOMAIN cards, TakeCopy(c)
  PROVE  EffectsInv'
<1>1. /\ copies' \subseteq copies \cup DOMAIN cards
      /\ UNCHANGED <<today, rows, shifts, menu, recorded, cards, turn, history>>
  BY DEF TakeCopy, platform
<1>2. Orderly(rows, cards, turn) /\ PlatformInv  BY DEF EffectsInv
<1>3. Orderly(rows, cards', turn') /\ Kept(cards, cards')
  BY <1>1, <1>2, KeptSame DEF Orderly
<1>4. PlatformInv'  BY <1>1, <1>2 DEF PlatformInv, history
<1>. QED  BY <1>1, <1>3, <1>4, CardsOnly

LEMMA CrashStep ==
  ASSUME EffectsInv, Crash
  PROVE  EffectsInv'
<1>. DEFINE lost(c) == IF cards[c].status = "held" THEN [cards[c] EXCEPT !.status = "lost"]
                       ELSE cards[c]
<1>1. /\ cards' = [c \in DOMAIN cards |-> lost(c)] /\ turn' = Free
      /\ UNCHANGED <<today, rows, shifts, menu, recorded, history>>
      /\ copies' \subseteq copies \cup DOMAIN cards
  BY DEF Crash, platform
<1>2. Orderly(rows, cards, turn) /\ PlatformInv  BY DEF EffectsInv
<1>3. /\ cards \in Seq(Card) /\ Len(cards) \in Nat /\ DOMAIN cards = 1 .. Len(cards)
      /\ \A c \in DOMAIN cards : cards[c] \in Card
  BY <1>2, CardsDomain DEF Orderly
<1>4. ASSUME NEW c \in DOMAIN cards
      PROVE  /\ lost(c) \in Card
             /\ lost(c).kind = cards[c].kind /\ lost(c).store = cards[c].store
             /\ lost(c).path = cards[c].path /\ lost(c).row = cards[c].row
             /\ lost(c).again = cards[c].again
             /\ lost(c).status # "held"
             /\ lost(c).status = "open" => cards[c].status = "open"
  BY <1>3 DEF Card
<1>5. cards' \in [1 .. Len(cards) -> Card]  BY <1>1, <1>3, <1>4
<1>6. cards' \in Seq(Card)  BY <1>3, <1>5, SeqDef
<1>7. Len(cards') = Len(cards)  BY <1>3, <1>5, <1>6, LenProperties
<1>8. DOMAIN cards' = DOMAIN cards /\ \A c \in DOMAIN cards : cards'[c] = lost(c)
  BY <1>1
<1>. HIDE DEF lost
<1>9. Kept(cards, cards')  BY <1>3, <1>4, <1>7, <1>8 DEF Kept
<1>10. Linked(rows, cards')  BY <1>2, <1>4, <1>8 DEF Orderly, Linked
<1>16. \A k, s : AgainSeen(cards, k, s) => AgainSeen(cards', k, s)
  BY <1>9, AgainStays
<1>11. Carried(rows, cards', Free)
  BY <1>2, <1>4, <1>8, <1>16 DEF Orderly, Carried
<1>12. Distinct(cards')  BY <1>2, <1>4, <1>8, <1>16 DEF Orderly, Distinct, Together
<1>13. OnePath(cards')  BY <1>2, <1>4, <1>8, <1>16 DEF Orderly, OnePath
<1>14. Orderly(rows, cards', turn')
  BY <1>1, <1>6, <1>10, <1>11, <1>12, <1>13 DEF Orderly
<1>15. PlatformInv'  BY <1>1, <1>2 DEF PlatformInv, history
<1>. QED  BY <1>1, <1>9, <1>14, <1>15, CardsOnly

LEMMA TomorrowStep ==
  ASSUME EffectsInv, Tomorrow
  PROVE  EffectsInv'
<1>1. /\ today < MaxDays /\ today' = today + 1
      /\ UNCHANGED <<rows, shifts, menu, recorded, cards, turn, copies, history>>
  BY DEF Tomorrow, platform
<1>2. Orderly(rows, cards, turn) /\ PlatformInv  BY DEF EffectsInv
<1>3. Orderly(rows, cards', turn') /\ Kept(cards, cards')
  BY <1>1, <1>2, KeptSame DEF Orderly
<1>4. PlatformInv'  BY <1>1, <1>2, EffectsAssumption DEF PlatformInv, history
<1>. QED  BY <1>1, <1>3, <1>4, CardsOnly

-----------------------------------------------------------------------------
(* The steps that decide.                                                  *)

\* The rows in T have left draft, or moved again, by a verdict on a card
Moved(T, card, verdict) ==
  /\ T \subseteq DOMAIN rows
  /\ \A i, j \in T : i = j
  /\ T # {} => card.kind \in RowKinds
  /\ rows' \in Seq(Row) /\ DOMAIN rows' = DOMAIN rows
  /\ \A i \in DOMAIN rows :
       /\ rows'[i].kind = rows[i].kind /\ rows'[i].store = rows[i].store
       /\ rows'[i].key = rows[i].key /\ rows'[i].day = rows[i].day
       /\ rows'[i].at = rows[i].at
       /\ i \notin T => rows'[i].status = rows[i].status
  /\ \A i \in T : /\ rows'[i].status # "DRAFT" /\ VerdictOf(rows'[i]) = verdict
                  /\ rows[i].kind = card.kind /\ rows[i].store = card.store
                  /\ card.row \in {NoRow, i}
                  /\ card.row = NoRow => rows[i].status = "DRAFT"

\* A card names one row, or the one newest draft of its store
LEMMA TargetFacts ==
  ASSUME RowsInv, NEW c \in DOMAIN cards, Orderly(rows, cards, turn)
  PROVE  /\ Target(cards[c]) \subseteq DOMAIN rows
         /\ \A i, j \in Target(cards[c]) : i = j
         /\ \A i \in Target(cards[c]) :
              /\ rows[i].kind = cards[c].kind /\ rows[i].store = cards[c].store
              /\ cards[c].row \in {NoRow, i}
              /\ cards[c].row = NoRow => rows[i].status = "DRAFT"
<1>1. CASE cards[c].row # NoRow
  <2>1. Target(cards[c]) = {cards[c].row}  BY <1>1 DEF Target
  <2>. QED  BY <1>1, <2>1 DEF Orderly, Linked
<1>2. CASE cards[c].row = NoRow
  <2>. DEFINE k == cards[c].kind
              s == cards[c].store
  <2>1. Target(cards[c]) = NewestDraft(k, s)  BY <1>2 DEF Target
  <2>2. \A i \in NewestDraft(k, s) :
          /\ i \in DOMAIN rows /\ rows[i].kind = k /\ rows[i].store = s
          /\ rows[i].status = "DRAFT"
    BY DEF NewestDraft, Drafts
  <2>3. ASSUME NEW i \in NewestDraft(k, s), NEW j \in NewestDraft(k, s) PROVE i = j
    <3>1. rows[i].at <= rows[j].at /\ rows[j].at <= rows[i].at  BY DEF NewestDraft
    <3>2. rows[i].at \in Nat /\ rows[j].at \in Nat  BY <2>2, RowsDomain DEF Row
    <3>3. rows[i].at = rows[j].at  BY <3>1, <3>2
    <3>. QED  BY <2>2, <3>3 DEF RowsInv
  <2>. QED  BY <1>2, <2>1, <2>2, <2>3
<1>. QED  BY <1>1, <1>2

LEMMA MoveFacts ==
  ASSUME RowsInv, NEW c \in DOMAIN cards, Orderly(rows, cards, turn),
         cards[c].kind \in RowKinds,
         NEW status \in {"PENDING_APPROVAL", "SCHEDULED", "CANCELLED"},
         Move(cards[c], status),
         NEW verdict, verdict = IF status = "CANCELLED" THEN "reject" ELSE "approve"
  PROVE  Moved(Target(cards[c]), cards[c], verdict)
<1>. DEFINE T == Target(cards[c])
            r(i) == IF i \in T THEN [rows[i] EXCEPT !.status = status] ELSE rows[i]
<1>1. /\ T \subseteq DOMAIN rows /\ \A i, j \in T : i = j
      /\ \A i \in T : /\ rows[i].kind = cards[c].kind /\ rows[i].store = cards[c].store
                      /\ cards[c].row \in {NoRow, i}
                      /\ cards[c].row = NoRow => rows[i].status = "DRAFT"
  BY TargetFacts
<1>2. rows' = [i \in DOMAIN rows |-> r(i)]  BY DEF Move
<1>. HIDE DEF T
<1>3. ASSUME NEW i \in DOMAIN rows
      PROVE  /\ r(i) \in Row
             /\ r(i).kind = rows[i].kind /\ r(i).store = rows[i].store
             /\ r(i).key = rows[i].key /\ r(i).day = rows[i].day /\ r(i).at = rows[i].at
             /\ i \notin T => r(i).status = rows[i].status
             /\ i \in T => r(i).status = status
  <2>1. rows[i] \in Row  BY RowsDomain
  <2>. QED  BY <2>1 DEF Row
<1>4. DOMAIN rows' = DOMAIN rows /\ \A i \in DOMAIN rows : rows'[i] = r(i)
  BY <1>2
<1>5. rows' \in [1 .. Len(rows) -> Row] /\ Len(rows) \in Nat
  BY <1>2, <1>3, RowsDomain
<1>6. rows' \in Seq(Row)  BY <1>5, SeqDef
<1>. HIDE DEF r
<1>7. \A i \in T : /\ rows'[i].status # "DRAFT" /\ VerdictOf(rows'[i]) = verdict
  BY <1>1, <1>3, <1>4 DEF VerdictOf
<1>. QED  BY <1>1, <1>3, <1>4, <1>6, <1>7 DEF Moved, T

LEMMA NothingMoved ==
  ASSUME RowsInv, UNCHANGED rows, NEW card, NEW verdict
  PROVE  Moved({}, card, verdict)
BY DEF Moved, RowsInv

\* The invariant of the rows is about what a move keeps
LEMMA MovedRowsInv ==
  ASSUME RowsInv, NEW T, NEW card, NEW verdict, Moved(T, card, verdict), UNCHANGED today
  PROVE  RowsInv'
<1>1. \A i \in DOMAIN rows : rows'[i].status = "DRAFT" => rows[i].status = "DRAFT"
  BY DEF Moved
<1>2. OneDraftPerDay'  BY <1>1 DEF RowsInv, OneDraftPerDay, Same, Moved
<1>. QED  BY <1>2 DEF RowsInv, Moved

LEMMA RepricedType ==
  ASSUME NEW price \in Nat, NEW d, NEW p \in Nat, NEW tie \in Ties
  PROVE  Repriced(price, d, p, tie) \in Nat
<1>. DEFINE q == Capped(d, p)
<1>1. q \in 0 .. 15  BY CappedType
<1>. HIDE DEF q
<1>2. 100 + q \in Nat /\ 100 - q \in Nat  BY <1>1
<1>3. \A m, n \in Nat : m * n \in Nat  OBVIOUS
<1>4. price * (100 + q) \in Nat /\ price * (100 - q) \in Nat  BY <1>2, <1>3
<1>5. \A m \in Nat : (m + tie) \div 100 \in Nat  BY DEF Ties
<1>. QED  BY <1>4, <1>5 DEF Repriced, q

LEMMA ConfirmFacts ==
  ASSUME PlatformInv, NEW s \in Stores, ConfirmShifts(s) \/ CancelShifts(s)
  PROVE  /\ shifts' \in [Stores -> [Slots -> [draft : 0 .. 1, confirmed : Nat]]]
         /\ \A t \in Stores, w \in Slots :
              \/ shifts'[t][w].confirmed = shifts[t][w].confirmed
              \/ /\ ConfirmShifts(s)
                 /\ shifts'[t][w].confirmed = shifts[t][w].confirmed + 1
<1>. DEFINE D == [draft : 0 .. 1, confirmed : Nat]
            yes == [w \in Slots |-> [draft |-> 0,
                       confirmed |-> shifts[s][w].confirmed + shifts[s][w].draft]]
            no == [w \in Slots |-> [shifts[s][w] EXCEPT !.draft = 0]]
<1>1. shifts \in [Stores -> [Slots -> D]]  BY DEF PlatformInv
<1>2. ASSUME NEW w \in Slots
      PROVE  /\ yes[w] \in D /\ no[w] \in D /\ no[w].confirmed = shifts[s][w].confirmed
             /\ \/ yes[w].confirmed = shifts[s][w].confirmed
                \/ yes[w].confirmed = shifts[s][w].confirmed + 1
  BY <1>1
<1>3. yes \in [Slots -> D] /\ no \in [Slots -> D]  BY <1>2
<1>4. /\ ConfirmShifts(s) => shifts' = [shifts EXCEPT ![s] = yes]
      /\ CancelShifts(s) => shifts' = [shifts EXCEPT ![s] = no]
  BY DEF ConfirmShifts, CancelShifts
<1>. HIDE DEF yes, no
<1>5. CASE ConfirmShifts(s)
  <2>1. /\ shifts' \in [Stores -> [Slots -> D]]
        /\ \A t \in Stores : shifts'[t] = IF t = s THEN yes ELSE shifts[t]
    BY <1>1, <1>3, <1>4, <1>5
  <2>. QED  BY <1>2, <1>5, <2>1
<1>6. CASE CancelShifts(s)
  <2>1. /\ shifts' \in [Stores -> [Slots -> D]]
        /\ \A t \in Stores : shifts'[t] = IF t = s THEN no ELSE shifts[t]
    BY <1>1, <1>3, <1>4, <1>6
  <2>. QED  BY <1>2, <2>1
<1>. QED  BY <1>5, <1>6

\* What applying a decision does to the platform
LEMMA AppliedFacts ==
  ASSUME EffectsInv, NEW c \in DOMAIN cards, NEW verdict \in Verdicts,
         UNCHANGED today,
         \/ verdict = "approve" /\ Approve(cards[c])
         \/ verdict = "reject" /\ Reject(cards[c])
  PROVE  /\ \E T : Moved(T, cards[c], verdict)
         /\ recorded' \in Nat /\ menu' \in [Items -> Nat]
         /\ shifts' \in [Stores -> [Slots -> [draft : 0 .. 1, confirmed : Nat]]]
         /\ \A t \in Stores, w \in Slots :
              \/ shifts'[t][w].confirmed = shifts[t][w].confirmed
              \/ /\ cards[c].kind = "roster"
                 /\ shifts'[t][w].confirmed = shifts[t][w].confirmed + 1
<1>. DEFINE card == cards[c]
<1>1. RowsInv /\ PlatformInv /\ Orderly(rows, cards, turn)  BY DEF EffectsInv
<1>2. card \in Card /\ card.store \in Stores  BY <1>1, CardsDomain DEF Orderly, Card
<1>3. /\ recorded \in Nat /\ menu \in [Items -> Nat]
      /\ shifts \in [Stores -> [Slots -> [draft : 0 .. 1, confirmed : Nat]]]
  BY <1>1 DEF PlatformInv
<1>4. CASE /\ card.kind \in RowKinds /\ UNCHANGED <<shifts, menu, recorded>>
           /\ \E status \in {"PENDING_APPROVAL", "SCHEDULED", "CANCELLED"} :
                /\ Move(card, status)
                /\ verdict = IF status = "CANCELLED" THEN "reject" ELSE "approve"
  <2>1. PICK status \in {"PENDING_APPROVAL", "SCHEDULED", "CANCELLED"} :
          /\ Move(card, status)
          /\ verdict = IF status = "CANCELLED" THEN "reject" ELSE "approve"
    BY <1>4
  <2>2. Moved(Target(card), card, verdict)  BY <1>1, <1>4, <2>1, MoveFacts
  <2>. QED  BY <1>3, <1>4, <2>2
<1>5. CASE /\ card.kind = "roster" /\ UNCHANGED <<rows, menu, recorded>>
           /\ ConfirmShifts(card.store) \/ CancelShifts(card.store)
  <2>1. Moved({}, card, verdict)  BY <1>1, <1>5, NothingMoved
  <2>. QED  BY <1>1, <1>2, <1>3, <1>5, <2>1, ConfirmFacts
<1>6. CASE ApprovePrice(card)
  <2>1. Moved({}, card, verdict)  BY <1>1, <1>6, NothingMoved DEF ApprovePrice
  <2>2. card.percent \in Nat  BY <1>2 DEF Card
  <2>3. ASSUME NEW i \in Items, NEW tie \in Ties
        PROVE  Repriced(menu[i], card.direction, card.percent, tie) \in Nat
    BY <1>3, <2>2, RepricedType
  <2>4. PICK tie \in [Items -> Ties] :
          menu' = [i \in Items |->
                     IF i \in card.ids
                     THEN Repriced(menu[i], card.direction, card.percent, tie[i]) ELSE menu[i]]
    BY <1>6 DEF ApprovePrice
  <2>5. menu' \in [Items -> Nat]  BY <1>3, <2>3, <2>4
  <2>. QED  BY <1>3, <1>6, <2>1, <2>5 DEF ApprovePrice
<1>7. CASE UNCHANGED <<rows, shifts, menu>> /\ recorded' \in {recorded, recorded + 1}
  <2>1. Moved({}, card, verdict)  BY <1>1, <1>7, NothingMoved
  <2>. QED  BY <1>3, <1>7, <2>1
<1>8. CASE verdict = "approve" /\ Approve(card)
  <2>1. CASE ApproveOrder(card)  BY <1>4, <1>8, <2>1 DEF ApproveOrder, RowKinds
  <2>2. CASE ApproveCampaign(card)  BY <1>4, <1>8, <2>2 DEF ApproveCampaign, RowKinds
  <2>3. CASE ApproveRoster(card)  BY <1>5, <2>3 DEF ApproveRoster
  <2>4. CASE ApproveRecord(card)  BY <1>7, <2>4 DEF ApproveRecord
  <2>. QED  BY <1>6, <1>8, <2>1, <2>2, <2>3, <2>4 DEF Approve
<1>9. CASE verdict = "reject" /\ Reject(card)
  BY <1>4, <1>5, <1>7, <1>9 DEF Reject, platform
<1>. QED  BY <1>8, <1>9

\* A card that was decided
LEMMA DecidedFacts ==
  ASSUME NEW c \in DOMAIN cards, cards \in Seq(Card), NEW verdict, NEW again \in BOOLEAN,
         NEW uses \in Nat, Decided(c, verdict, again, uses)
  PROVE  /\ cards' \in Seq(Card) /\ DOMAIN cards' = DOMAIN cards /\ Kept(cards, cards')
         /\ \A d \in DOMAIN cards : d # c => cards'[d] = cards[d]
         /\ cards'[c].status \in {"approved", "rejected"}
         /\ again => cards'[c].again
         /\ cards'[c].uses = cards[c].uses + uses
<1>. DEFINE status == IF verdict = "approve" THEN "approved" ELSE "rejected"
            k == [cards[c] EXCEPT !.status = status, !.again = cards[c].again \/ again,
                                  !.uses = cards[c].uses + uses]
<1>1. /\ Len(cards) \in Nat /\ DOMAIN cards = 1 .. Len(cards) /\ cards[c] \in Card
      /\ c \in 1 .. Len(cards)
  BY CardsDomain
<1>2. cards[c].again \in BOOLEAN /\ cards[c].uses \in Nat  BY <1>1 DEF Card
<1>3. (cards[c].again \/ again) \in BOOLEAN /\ cards[c].uses + uses \in Nat  BY <1>2
<1>4. k \in Card  BY <1>1, <1>3 DEF Card
<1>5. /\ k.kind = cards[c].kind /\ k.store = cards[c].store
      /\ k.path = cards[c].path /\ k.row = cards[c].row
      /\ k.status = status /\ k.uses = cards[c].uses + uses
  BY <1>1 DEF Card
<1>6. k.again = (cards[c].again \/ again)  BY <1>1 DEF Card
<1>7. cards' = [cards EXCEPT ![c] = k]  BY <1>1 DEF Decided
<1>8. status \in {"approved", "rejected"}  OBVIOUS
<1>. HIDE DEF k, status
<1>9. /\ [cards EXCEPT ![c] = k] \in Seq(Card)
      /\ Len([cards EXCEPT ![c] = k]) = Len(cards)
      /\ \A d \in 1 .. Len(cards) : [cards EXCEPT ![c] = k][d] = IF d = c THEN k ELSE cards[d]
  BY <1>1, <1>4, ExceptSeq
<1>10. /\ cards' \in Seq(Card) /\ Len(cards') = Len(cards)
       /\ \A d \in 1 .. Len(cards) : cards'[d] = IF d = c THEN k ELSE cards[d]
  BY <1>7, <1>9, Zenon
<1>11. DOMAIN cards' = DOMAIN cards  BY <1>1, <1>10, LenProperties
<1>12. Kept(cards, cards')
  <2>1. \A d \in DOMAIN cards : cards[d].again => cards'[d].again
    BY <1>1, <1>6, <1>10
  <2>. QED  BY <1>1, <1>5, <1>10, <1>11, <2>1 DEF Kept
<1>13. again => cards'[c].again  BY <1>1, <1>6, <1>10
<1>. QED  BY <1>1, <1>5, <1>8, <1>10, <1>11, <1>12, <1>13

\* What a decision leaves of the other cards
LEMMA DecidedOrderly ==
  ASSUME EffectsInv, turn = Free, turn' = turn,
         NEW c \in DOMAIN cards, NEW verdict \in Verdicts, NEW again \in BOOLEAN,
         NEW uses \in Nat, Decided(c, verdict, again, uses),
         ~again => cards[c].status = "open",
         NEW T, Moved(T, cards[c], verdict)
  PROVE  Orderly(rows', cards', turn')
<1>1. Orderly(rows, cards, turn)  BY DEF EffectsInv
<1>2. cards \in Seq(Card) /\ \A d \in DOMAIN cards : cards[d].store \in Stores
  BY <1>1, CardsDomain DEF Orderly, Card
<1>3. /\ cards' \in Seq(Card) /\ DOMAIN cards' = DOMAIN cards /\ Kept(cards, cards')
      /\ \A d \in DOMAIN cards : d # c => cards'[d] = cards[d]
      /\ cards'[c].status \in {"approved", "rejected"}
      /\ again => cards'[c].again
  BY <1>2, DecidedFacts
<1>4. \A d \in DOMAIN cards :
        /\ cards'[d].kind = cards[d].kind /\ cards'[d].store = cards[d].store
        /\ cards'[d].path = cards[d].path /\ cards'[d].row = cards[d].row
        /\ cards'[d].status \in {"held", "open"} => d # c /\ cards'[d].status = cards[d].status
  BY <1>3 DEF Kept
<1>5. Linked(rows', cards')
  <2>1. /\ DOMAIN rows' = DOMAIN rows
        /\ \A i \in DOMAIN rows : rows'[i].kind = rows[i].kind /\ rows'[i].store = rows[i].store
    BY DEF Moved
  <2>2. Linked(rows, cards)  BY <1>1 DEF Orderly
  <2>. QED  BY <1>3, <1>4, <2>1, <2>2 DEF Linked
<1>6. Carried(rows', cards', turn')
  <2>. SUFFICES ASSUME NEW d \in DOMAIN cards, cards[d].row # NoRow
                PROVE  /\ cards'[d].status # "held"
                       /\ cards'[d].status = "open" =>
                            \/ rows'[cards[d].row].status = "DRAFT"
                            \/ AgainSeen(cards', cards[d].kind, cards[d].store)
    BY <1>3, <1>4 DEF Carried
  <2>. DEFINE j == cards[d].row
  <2>1. /\ j \in DOMAIN rows /\ rows[j].kind = cards[d].kind /\ rows[j].store = cards[d].store
        /\ cards[d].kind = "order" /\ cards[d].path = "rules"
    BY <1>1 DEF Orderly, Linked
  <2>2. cards'[d].status # "held"
    <3>1. cards[d].store # Free  BY <1>2, FreeIsNoStore
    <3>. QED  BY <1>1, <1>4, <3>1 DEF Orderly, Carried
  <2>3. ASSUME cards'[d].status = "open"
        PROVE  \/ rows'[j].status = "DRAFT"
               \/ AgainSeen(cards', cards[d].kind, cards[d].store)
    <3>1. d # c /\ cards[d].status = "open"  BY <1>4, <2>3
    <3>2. CASE AgainSeen(cards, cards[d].kind, cards[d].store)
      BY <1>3, <3>2 DEF AgainSeen, Kept
    <3>3. CASE rows[j].status = "DRAFT" /\ j \notin T
      BY <2>1, <3>3 DEF Moved
    <3>4. CASE j \in T
      <4>1. /\ cards[c].kind = cards[d].kind /\ cards[c].store = cards[d].store
            /\ cards[c].row \in {NoRow, j}
        BY <2>1, <3>4 DEF Moved
      <4>2. CASE again  BY <1>3, <1>4, <4>1, <4>2 DEF AgainSeen
      <4>3. CASE ~again
        <5>1. cards[c].status = "open"  BY <4>3
        <5>2. CASE AgainSeen(cards, cards[d].kind, cards[d].store)
          BY <1>3, <5>2, AgainStays
        <5>3. CASE ~ AgainSeen(cards, cards[d].kind, cards[d].store)
          <6>1. j # NoRow /\ cards[c].row # j
            BY <1>1, <3>1, <4>1, <5>1, <5>3 DEF Orderly, Distinct, Together
          <6>2. cards[c].path = cards[d].path
            BY <1>1, <3>1, <4>1, <5>1, <5>3 DEF Orderly, OnePath
          <6>. QED  BY <1>1, <2>1, <4>1, <6>1, <6>2 DEF Orderly, Linked
        <5>. QED  BY <5>2, <5>3
      <4>. QED  BY <4>2, <4>3
    <3>5. \/ rows[j].status = "DRAFT"
          \/ AgainSeen(cards, cards[d].kind, cards[d].store)
      BY <1>1, <3>1 DEF Orderly, Carried
    <3>. QED  BY <3>2, <3>3, <3>4, <3>5
  <2>. QED  BY <2>2, <2>3
<1>9. \A k, s : AgainSeen(cards, k, s) => AgainSeen(cards', k, s)
  BY <1>3, AgainStays
<1>7. Distinct(cards')  BY <1>1, <1>3, <1>4, <1>9 DEF Orderly, Distinct, Together
<1>8. OnePath(cards')  BY <1>1, <1>3, <1>4, <1>9 DEF Orderly, OnePath
<1>. QED  BY <1>3, <1>5, <1>6, <1>7, <1>8 DEF Orderly

\* A decision that was applied
LEMMA AppliedStep ==
  ASSUME EffectsInv, turn = Free, UNCHANGED <<today, copies, turn>>,
         NEW c \in DOMAIN cards, NEW verdict \in Verdicts, NEW again \in BOOLEAN,
         ~again => cards[c].status = "open",
         applied[cards[c].kind] < MaxDecisions,
         \/ verdict = "approve" /\ Approve(cards[c])
         \/ verdict = "reject" /\ Reject(cards[c]),
         Decided(c, verdict, again, 1),
         told' = told \cup {[card |-> c, verdict |-> verdict]},
         applied' = [applied EXCEPT ![cards[c].kind] = @ + 1]
  PROVE  EffectsInv'
<1>. DEFINE k == cards[c].kind
<1>1. RowsInv /\ PlatformInv /\ ToldInv /\ Orderly(rows, cards, turn)  BY DEF EffectsInv
<1>2. cards \in Seq(Card) /\ k \in Kinds
  BY <1>1, CardsDomain DEF Orderly, Card
<1>3. /\ \E T : Moved(T, cards[c], verdict)
      /\ recorded' \in Nat /\ menu' \in [Items -> Nat]
      /\ shifts' \in [Stores -> [Slots -> [draft : 0 .. 1, confirmed : Nat]]]
      /\ \A t \in Stores, w \in Slots :
           \/ shifts'[t][w].confirmed = shifts[t][w].confirmed
           \/ /\ cards[c].kind = "roster"
              /\ shifts'[t][w].confirmed = shifts[t][w].confirmed + 1
  BY AppliedFacts
<1>4. PICK T : Moved(T, cards[c], verdict)  BY <1>3
<1>5. /\ cards' \in Seq(Card) /\ DOMAIN cards' = DOMAIN cards /\ Kept(cards, cards')
  BY <1>2, DecidedFacts
<1>6. Orderly(rows', cards', turn')  BY <1>4, DecidedOrderly
<1>7. RowsInv'  BY <1>1, <1>4, MovedRowsInv
<1>8. applied \in [Kinds -> 0 .. MaxDecisions]  BY <1>1 DEF PlatformInv
<1>9. /\ applied' \in [Kinds -> 0 .. MaxDecisions]
      /\ applied'[k] = applied[k] + 1
      /\ \A m \in Kinds : applied[m] \in Nat /\ applied'[m] \in Nat /\ applied[m] <= applied'[m]
  BY <1>2, <1>8, EffectsAssumption
<1>10. PlatformInv'  BY <1>1, <1>3, <1>9 DEF PlatformInv
<1>11. ToldInv' /\ CopiesInv'  BY <1>1, <1>5 DEF EffectsInv, ToldInv, CopiesInv
<1>12. HumanInTheLoop'
  <2>. SUFFICES ASSUME NEW i \in DOMAIN rows, rows'[i].status # "DRAFT"
                PROVE  \E t \in told' : Accounts(i, t)'
    BY <1>4 DEF HumanInTheLoop, Moved
  <2>1. CASE i \in T
    <3>. DEFINE t == [card |-> c, verdict |-> verdict]
    <3>1. Accounts(i, t)'  BY <1>4, <1>5, <2>1 DEF Accounts, Moved, Kept
    <3>2. t \in told'  OBVIOUS
    <3>. QED  BY <3>1, <3>2
  <2>2. CASE i \notin T
    <3>1. rows[i].status # "DRAFT" /\ rows'[i].status = rows[i].status
          /\ rows'[i].kind = rows[i].kind /\ rows'[i].store = rows[i].store
      BY <1>4, <2>2 DEF Moved
    <3>2. PICK t \in told : Accounts(i, t)  BY <3>1 DEF EffectsInv, HumanInTheLoop
    <3>3. t.card \in DOMAIN cards  BY <1>1, <3>2 DEF ToldInv
    <3>4. Accounts(i, t)'  BY <1>5, <3>1, <3>2, <3>3 DEF Accounts, VerdictOf, Kept
    <3>. QED  BY <3>2, <3>4
  <2>. QED  BY <2>1, <2>2
<1>13. OneRowPerDecision'
  <2>1. IsFiniteSet(DOMAIN rows)  BY <1>1, RowsDomain, FS_Interval
  <2>2. IsFiniteSet(Left) /\ Cardinality(Left) \in Nat
    BY <2>1, FS_Subset, FS_CardinalityType DEF Left
  <2>3. Left' \subseteq Left \cup T  BY <1>4 DEF Left, Moved
  <2>4. "order" \in Kinds /\ "campaign" \in Kinds  BY DEF Kinds, RowKinds
  <2>5. Cardinality(Left) <= applied["order"] + applied["campaign"]
    BY DEF EffectsInv, OneRowPerDecision
  <2>6. CASE T = {}
    <3>1. Cardinality(Left') <= Cardinality(Left) /\ Cardinality(Left') \in Nat
      BY <2>2, <2>3, <2>6, FS_Subset, FS_CardinalityType
    <3>. QED  BY <1>9, <2>2, <2>4, <2>5, <3>1 DEF OneRowPerDecision
  <2>7. CASE T # {}
    <3>1. PICK x \in T : T = {x}  BY <1>4, <2>7 DEF Moved
    <3>2. IsFiniteSet(Left \cup {x}) /\ Cardinality(Left \cup {x}) \in Nat
          /\ Cardinality(Left \cup {x}) <= Cardinality(Left) + 1
      <4>. DEFINE L == Left
      <4>1. IsFiniteSet(L) /\ Cardinality(L) \in Nat  BY <2>2
      <4>. HIDE DEF L
      <4>2. IsFiniteSet(L \cup {x}) /\ Cardinality(L \cup {x}) \in Nat
        BY <4>1, FS_AddElement, FS_CardinalityType
      <4>3. Cardinality(L \cup {x}) \in {Cardinality(L), Cardinality(L) + 1}
        BY <4>1, FS_AddElement, SMTT(30)
      <4>4. Cardinality(L \cup {x}) <= Cardinality(L) + 1  BY <4>1, <4>2, <4>3
      <4>. QED  BY <4>2, <4>4 DEF L
    <3>3. Cardinality(Left') <= Cardinality(Left \cup {x}) /\ Cardinality(Left') \in Nat
      BY <2>3, <3>1, <3>2, FS_Subset, FS_CardinalityType
    <3>4. k \in {"order", "campaign"}  BY <1>4, <2>7 DEF Moved, RowKinds
    <3>5. applied'["order"] + applied'["campaign"] >= applied["order"] + applied["campaign"] + 1
      BY <1>9, <2>4, <3>4
    <3>. QED  BY <1>9, <2>2, <2>4, <2>5, <3>2, <3>3, <3>5 DEF OneRowPerDecision
  <2>. QED  BY <2>6, <2>7
<1>14. BookedByApprovals'
  <2>. SUFFICES ASSUME NEW s \in Stores, NEW w \in Slots
                PROVE  shifts'[s][w].confirmed <= applied'["roster"]
    BY DEF BookedByApprovals
  <2>1. shifts[s][w].confirmed <= applied["roster"]  BY DEF EffectsInv, BookedByApprovals
  <2>2. shifts[s][w].confirmed \in Nat  BY <1>1 DEF PlatformInv
  <2>3. "roster" \in Kinds  BY DEF Kinds
  <2>4. CASE shifts'[s][w].confirmed = shifts[s][w].confirmed
    BY <1>9, <2>1, <2>2, <2>3, <2>4
  <2>5. CASE k = "roster" /\ shifts'[s][w].confirmed = shifts[s][w].confirmed + 1
    BY <1>9, <2>1, <2>2, <2>3, <2>5
  <2>. QED  BY <1>3, <2>4, <2>5
<1>. QED  BY <1>6, <1>7, <1>10, <1>11, <1>12, <1>13, <1>14 DEF EffectsInv

LEMMA DecideStep ==
  ASSUME EffectsInv, turn = Free,
         NEW c \in DOMAIN cards, NEW verdict \in Verdicts, NEW again \in BOOLEAN,
         ~again => cards[c].status = "open", Decide(c, verdict, again)
  PROVE  EffectsInv'
<1>1. UNCHANGED <<today, copies, turn>>  BY DEF Decide
<1>2. CASE /\ Decided(c, verdict, again, 0)
           /\ UNCHANGED <<platform, told, applied>>
  <2>1. RowsInv /\ PlatformInv /\ Orderly(rows, cards, turn)  BY DEF EffectsInv
  <2>2. Moved({}, cards[c], verdict)  BY <1>2, <2>1, NothingMoved DEF platform
  <2>3. Orderly(rows', cards', turn')  BY <1>1, <1>2, <2>2, DecidedOrderly
  <2>4. Kept(cards, cards')  BY <1>2, <2>1, DecidedFacts DEF Orderly
  <2>5. PlatformInv'  BY <1>1, <1>2, <2>1 DEF PlatformInv, platform
  <2>6. UNCHANGED <<rows, shifts, history>> /\ copies' \subseteq copies \cup DOMAIN cards
    BY <1>1, <1>2 DEF platform, history
  <2>7. UNCHANGED rows /\ UNCHANGED history /\ Orderly(rows, cards', turn')
    BY <2>3, <2>6
  <2>. QED  BY <2>4, <2>5, <2>6, <2>7, CardsOnly
<1>3. CASE ~ (Decided(c, verdict, again, 0) /\ UNCHANGED <<platform, told, applied>>)
  <2>1. /\ applied[cards[c].kind] < MaxDecisions
        /\ \/ verdict = "approve" /\ Approve(cards[c])
           \/ verdict = "reject" /\ Reject(cards[c])
        /\ Decided(c, verdict, again, 1)
        /\ told' = told \cup {[card |-> c, verdict |-> verdict]}
        /\ applied' = [applied EXCEPT ![cards[c].kind] = @ + 1]
    BY <1>3 DEF Decide
  <2>. QED  BY <1>1, <2>1, AppliedStep
<1>. QED  BY <1>2, <1>3

LEMMA ResolveStep ==
  ASSUME EffectsInv, NEW c \in DOMAIN cards, HttpResolve(c) \/ ChatResolve(c)
  PROVE  EffectsInv'
<1>1. CASE HttpResolve(c)
  <2>1. turn = Free /\ \E v \in Verdicts : Decide(c, v, TRUE)  BY <1>1 DEF HttpResolve
  <2>. QED  BY <2>1, DecideStep
<1>2. CASE ChatResolve(c)
  <2>1. /\ turn = Free /\ cards[c].status = "open"
        /\ \E v \in Verdicts : Decide(c, v, FALSE)
    BY <1>2 DEF ChatResolve
  <2>. QED  BY <2>1, DecideStep
<1>. QED  BY <1>1, <1>2

-----------------------------------------------------------------------------
(* What the runs check, for every value of the constants.                  *)
LEMMA InitEffectsInv == Init => EffectsInv
<1>. SUFFICES ASSUME Init PROVE EffectsInv
  OBVIOUS
<1>1. /\ rows = <<>> /\ cards = <<>> /\ copies = {} /\ DOMAIN rows = {} /\ DOMAIN cards = {}
      /\ today = 0 /\ recorded = 0 /\ turn = Free /\ told = {}
      /\ shifts = [s \in Stores |-> [w \in Slots |-> [draft |-> 0, confirmed |-> 0]]]
      /\ menu = [i \in Items |-> Catalogue]
      /\ applied = [k \in Kinds |-> 0]
  BY DEF Init
<1>2. RowsInv  BY <1>1, EmptySeq DEF RowsInv, OneDraftPerDay
<1>3. PlatformInv
  <2>1. /\ today \in 0 .. MaxDays /\ turn \in Stores \cup {Free} /\ recorded \in Nat
        /\ menu \in [Items -> Nat] /\ applied \in [Kinds -> 0 .. MaxDecisions]
    BY <1>1, EffectsAssumption
  <2>2. [draft |-> 0, confirmed |-> 0] \in [draft : 0 .. 1, confirmed : Nat]  OBVIOUS
  <2>3. [w \in Slots |-> [draft |-> 0, confirmed |-> 0]]
          \in [Slots -> [draft : 0 .. 1, confirmed : Nat]]
    BY <2>2
  <2>4. shifts \in [Stores -> [Slots -> [draft : 0 .. 1, confirmed : Nat]]]
    BY <1>1, <2>3
  <2>. QED  BY <2>1, <2>4 DEF PlatformInv
<1>4. ToldInv /\ CopiesInv  BY <1>1 DEF ToldInv, CopiesInv
<1>5. cards \in Seq(Card)  BY <1>1, EmptySeq
<1>6. Orderly(rows, cards, turn)
  BY <1>1, <1>5 DEF Orderly, Linked, Carried, Distinct, OnePath
<1>7. HumanInTheLoop  BY <1>1 DEF HumanInTheLoop
<1>8. OneRowPerDecision
  <2>1. Left = {}  BY <1>1 DEF Left
  <2>2. applied["order"] = 0 /\ applied["campaign"] = 0  BY <1>1 DEF Kinds, RowKinds
  <2>. QED  BY <2>1, <2>2, FS_EmptySet DEF OneRowPerDecision
<1>9. BookedByApprovals
  <2>1. applied["roster"] = 0  BY <1>1 DEF Kinds
  <2>. QED  BY <1>1, <2>1 DEF BookedByApprovals
<1>. QED  BY <1>2, <1>3, <1>4, <1>6, <1>7, <1>8, <1>9 DEF EffectsInv

LEMMA StutterStep ==
  ASSUME EffectsInv, UNCHANGED vars
  PROVE  EffectsInv'
<1>1. UNCHANGED <<today, rows, shifts, menu, recorded, cards, turn, copies, history>>
  BY DEF vars, platform
<1>2. Orderly(rows, cards, turn) /\ PlatformInv  BY DEF EffectsInv
<1>3. Orderly(rows, cards', turn') /\ Kept(cards, cards')
  BY <1>1, <1>2, KeptSame DEF Orderly
<1>4. PlatformInv'  BY <1>1, <1>2 DEF PlatformInv, history
<1>. QED  BY <1>1, <1>3, <1>4, CardsOnly

LEMMA EffectsStep == EffectsInv /\ [Next]_vars => EffectsInv'
<1>. SUFFICES ASSUME EffectsInv, [Next]_vars PROVE EffectsInv'
  OBVIOUS
<1>1. ASSUME NEW s \in Stores, NEW supplier \in Suppliers, RulesOrder(s, supplier)
      PROVE  EffectsInv'
  BY <1>1, RulesOrderStep
<1>2. ASSUME NEW s \in Stores,
             RulesOrdersEnd(s) \/ \E k \in Kinds : IdleRun(s, k)
      PROVE  EffectsInv'
  BY <1>2, CommitStep
<1>3. ASSUME NEW s \in Stores, RulesCampaign(s) PROVE EffectsInv'
  BY <1>3, RulesCampaignStep
<1>4. ASSUME NEW s \in Stores, RulesRoster(s) \/ ModelRoster(s) PROVE EffectsInv'
  BY <1>4, RosterStep
<1>5. ASSUME NEW s \in Stores, RulesPrice(s) \/ ModelPrice(s) PROVE EffectsInv'
  BY <1>5, PriceStep
<1>6. ASSUME NEW s \in Stores, ModelOrder(s) \/ ModelCampaign(s) PROVE EffectsInv'
  BY <1>6, ModelOrderStep
<1>7. ASSUME NEW s \in Stores, ModelRecord(s) PROVE EffectsInv'
  BY <1>7, ModelRecordStep
<1>8. ASSUME NEW c \in DOMAIN cards, HttpResolve(c) \/ ChatResolve(c) PROVE EffectsInv'
  BY <1>8, ResolveStep
<1>9. CASE Crash  BY <1>9, CrashStep
<1>10. CASE Tomorrow  BY <1>10, TomorrowStep
<1>11. CASE UNCHANGED vars  BY <1>11, StutterStep
<1>12. CASE ChatEnds \/ \E s \in Stores, k \in Kinds : ModelEnds(s, k)
  BY <1>12, CopiesSavedStep
<1>13. ASSUME NEW c \in DOMAIN cards, TakeCopy(c) PROVE EffectsInv'
  BY <1>13, TakeCopyStep
<1>. QED
  BY <1>1, <1>2, <1>3, <1>4, <1>5, <1>6, <1>7, <1>8, <1>9, <1>10, <1>11, <1>12, <1>13
  DEF Next

LEMMA EffectsInvariant == Spec => []EffectsInv
<1>. QED  BY InitEffectsInv, EffectsStep, PTL DEF Spec

(* Every variable keeps its type, and a card names a row that exists.      *)
THEOREM EffectsTypeCorrect == Spec => []TypeOK
<1>1. EffectsInv => TypeOK
  <2>. SUFFICES ASSUME EffectsInv PROVE TypeOK
    OBVIOUS
  <2>1. \A c \in DOMAIN cards : cards[c].row \in {NoRow} \cup DOMAIN rows
    BY DEF EffectsInv, Orderly, Linked
  <2>. QED  BY <2>1 DEF EffectsInv, RowsInv, PlatformInv, ToldInv, CopiesInv, Orderly, TypeOK
<1>. QED  BY EffectsInvariant, <1>1, PTL

(* A store never has two drafts of one purpose placed on one day.          *)
THEOREM DraftsAreReplaced == Spec => []OneDraftPerDay
<1>1. EffectsInv => OneDraftPerDay  BY DEF EffectsInv, RowsInv
<1>. QED  BY EffectsInvariant, <1>1, PTL

(* Nothing leaves draft but by a decision of its direction on a card of    *)
(* its kind and store, and a card that carries an id decides that alone.   *)
THEOREM HumansDecide == Spec => []HumanInTheLoop
<1>1. EffectsInv => HumanInTheLoop  BY DEF EffectsInv
<1>. QED  BY EffectsInvariant, <1>1, PTL

(* One decision moves at most one order or campaign.                       *)
THEOREM DecisionsMoveOneRow == Spec => []OneRowPerDecision
<1>1. EffectsInv => OneRowPerDecision  BY DEF EffectsInv
<1>. QED  BY EffectsInvariant, <1>1, PTL

(* Nobody is booked for a slot more often than rosters were approved.      *)
THEOREM BookingsAreApproved == Spec => []BookedByApprovals
<1>1. EffectsInv => BookedByApprovals  BY DEF EffectsInv
<1>. QED  BY EffectsInvariant, <1>1, PTL

\* Posting moves nothing that has left draft, nor does anything else a run does
LEMMA OnlyDecisionsMove ==
  ASSUME EffectsInv, [Next]_vars, NEW i \in DOMAIN rows,
         rows'[i].status # rows[i].status
  PROVE  \E c \in DOMAIN cards : HttpResolve(c) \/ ChatResolve(c)
<1>1. ASSUME NEW k \in RowKinds, NEW s \in Stores, NEW key \in Suppliers \cup {WinBack},
             Upsert(k, s, key), UNCHANGED today
      PROVE  FALSE
  <2>1. RowsExtended  BY <1>1, UpsertFacts DEF EffectsInv
  <2>. QED  BY <2>1 DEF RowsExtended
<1>2. ASSUME NEW s \in Stores, NEW supplier \in Suppliers, RulesOrder(s, supplier)
      PROVE  FALSE
  BY <1>1, <1>2 DEF RulesOrder, PostOrder, RowKinds
<1>3. ASSUME NEW s \in Stores, RulesCampaign(s) PROVE FALSE
  BY <1>1, <1>3 DEF RulesCampaign, PostCampaign, RowKinds
<1>4. ASSUME NEW s \in Stores, ModelOrder(s) \/ ModelCampaign(s) PROVE FALSE
  BY <1>1, <1>4 DEF ModelOrder, ModelCampaign, PostOrder, PostCampaign, RowKinds
<1>5. UNCHANGED rows => FALSE  OBVIOUS
<1>6. ASSUME NEW s \in Stores,
             \/ RulesOrdersEnd(s) \/ \E k \in Kinds : ModelEnds(s, k) \/ IdleRun(s, k)
      PROVE  FALSE
  BY <1>5, <1>6 DEF RulesOrdersEnd, ModelEnds, IdleRun, platform
<1>7. ASSUME NEW s \in Stores,
             \/ RulesRoster(s) \/ ModelRoster(s) \/ RulesPrice(s) \/ ModelPrice(s)
             \/ ModelRecord(s)
      PROVE  FALSE
  BY <1>5, <1>7 DEF RulesRoster, ModelRoster, RulesPrice, ModelPrice, ModelRecord, platform
<1>8. CASE Crash \/ Tomorrow \/ ChatEnds \/ UNCHANGED vars
  BY <1>5, <1>8 DEF Crash, Tomorrow, ChatEnds, platform, vars
<1>9. ASSUME NEW c \in DOMAIN cards, TakeCopy(c) PROVE FALSE
  BY <1>5, <1>9 DEF TakeCopy, platform
<1>. QED  BY <1>2, <1>3, <1>4, <1>6, <1>7, <1>8, <1>9 DEF Next

\* The decision that moves a row names it, if the row has left draft
LEMMA DecisionNames ==
  ASSUME EffectsInv, NEW c \in DOMAIN cards, NEW v \in Verdicts, NEW again \in BOOLEAN,
         Decide(c, v, again), NEW i \in DOMAIN rows,
         rows[i].status # "DRAFT", rows'[i].status # rows[i].status
  PROVE  /\ cards[c].row = i /\ cards'[c].uses > cards[c].uses
         /\ cards[c].kind = rows[i].kind /\ cards[c].store = rows[i].store
         /\ again => cards'[c].again
         /\ Kept(cards, cards')
<1>1. cards \in Seq(Card) /\ cards[c].uses \in Nat
  BY CardsDomain DEF EffectsInv, Orderly, Card
<1>2. ~ UNCHANGED rows  OBVIOUS
<1>3. /\ \/ v = "approve" /\ Approve(cards[c])
         \/ v = "reject" /\ Reject(cards[c])
      /\ Decided(c, v, again, 1) /\ UNCHANGED today
  BY <1>2 DEF Decide, platform
<1>4. PICK T : Moved(T, cards[c], v)  BY <1>3, AppliedFacts
<1>5. i \in T  BY <1>4 DEF Moved
<1>6. /\ cards[c].row = i
      /\ cards[c].kind = rows[i].kind /\ cards[c].store = rows[i].store
  BY <1>4, <1>5 DEF Moved
<1>7. /\ Kept(cards, cards')
      /\ again => cards'[c].again
      /\ cards'[c].uses = cards[c].uses + 1
  <2>1. Decided(c, v, again, 1) /\ 1 \in Nat  BY <1>3
  <2>. QED  BY <1>1, <2>1, DecidedFacts
<1>. QED  BY <1>1, <1>6, <1>7

LEMMA DecidedStaysStep ==
  ASSUME EffectsInv, [Next]_vars, NEW i \in DOMAIN rows,
         rows[i].status # "DRAFT", rows'[i].status # rows[i].status
  PROVE  /\ \E c \in DOMAIN cards : cards[c].row = i /\ cards'[c].uses > cards[c].uses
         /\ \E c \in DOMAIN cards : /\ cards[c].kind = rows[i].kind
                                    /\ cards[c].store = rows[i].store /\ cards'[c].again
<1>1. PICK c \in DOMAIN cards : HttpResolve(c) \/ ChatResolve(c)  BY OnlyDecisionsMove
<1>2. CASE HttpResolve(c)
  <2>1. PICK v \in Verdicts : Decide(c, v, TRUE)  BY <1>2 DEF HttpResolve
  <2>. QED  BY <2>1, DecisionNames
<1>3. CASE ChatResolve(c)
  <2>1. PICK v \in Verdicts : Decide(c, v, FALSE)  BY <1>3 DEF ChatResolve
  <2>2. /\ cards[c].row = i /\ cards'[c].uses > cards[c].uses
        /\ cards[c].kind = rows[i].kind /\ cards[c].store = rows[i].store
        /\ Kept(cards, cards')
    BY <2>1, DecisionNames
  <2>3. cards[c].status = "open"  BY <1>3 DEF ChatResolve
  <2>4. i # NoRow  BY NoRowIsNoRow DEF EffectsInv
  <2>5. AgainSeen(cards, cards[c].kind, cards[c].store)
    BY <2>2, <2>3, <2>4 DEF EffectsInv, Orderly, Carried
  <2>6. \E d \in DOMAIN cards : /\ cards[d].kind = rows[i].kind
                                /\ cards[d].store = rows[i].store /\ cards'[d].again
    BY <2>2, <2>5 DEF AgainSeen, Kept
  <2>. QED  BY <2>2, <2>6
<1>. QED  BY <1>1, <1>2, <1>3

(* An order or a campaign that has left draft moves again only by a        *)
(* decision on a card that carries its id, in a store where a card of the  *)
(* kind was decided over HTTP or saved from a copy.                        *)
THEOREM DecisionsStand == Spec => DecidedStays
<1>1. EffectsInv /\ [Next]_vars =>
        [\A i \in DOMAIN rows :
           rows[i].status # "DRAFT" /\ rows'[i].status # rows[i].status =>
             /\ \E c \in DOMAIN cards : cards[c].row = i /\ cards'[c].uses > cards[c].uses
             /\ \E c \in DOMAIN cards : /\ cards[c].kind = rows[i].kind
                                        /\ cards[c].store = rows[i].store /\ cards'[c].again]_vars
  BY DecidedStaysStep
<1>. QED  BY EffectsInvariant, <1>1, PTL DEF Spec, DecidedStays

-----------------------------------------------------------------------------
(* Prices.                                                                 *)

Raised(price)  == (price * (100 + IncreaseMax) + 50) \div 100
Lowered(price) == (price * (100 - DiscountMax) + 49) \div 100

LEMMA RaisedLowered ==
  ASSUME NEW price \in Nat
  PROVE  /\ Raised(price) \in Nat /\ Lowered(price) \in Nat
         /\ price <= Raised(price) /\ Lowered(price) <= price
BY DEF Raised, Lowered, IncreaseMax, DiscountMax

(* The bounds are what their definitions say they are.                     *)
LEMMA HighestIs ==
  /\ Highest \in [Nat -> Nat] /\ Highest[0] = Catalogue
  /\ \A n \in Nat : Highest[n + 1] = Raised(Highest[n])
<1>. DEFINE g == [x \in Nat |-> Raised(x)]
            F(f) == [n \in Nat |-> IF n = 0 THEN Catalogue ELSE Raised(f[n - 1])]
<1>1. g \in [Nat -> Nat] /\ Catalogue \in Nat  BY RaisedLowered, EffectsAssumption
<1>2. PICK f \in [Nat -> Nat] : f[0] = Catalogue /\ \A n \in Nat : f[n + 1] = Raised(f[n])
  <2>1. \A x \in Nat : g[x] = Raised(x)  OBVIOUS
  <2>. HIDE DEF g
  <2>2. Repeatable(Nat, Catalogue, g)  BY <1>1, Iteration
  <2>. QED  BY <2>1, <2>2 DEF Repeatable
<1>3. f = F(f)
  <2>1. ASSUME NEW n \in Nat PROVE f[n] = IF n = 0 THEN Catalogue ELSE Raised(f[n - 1])
    <3>1. CASE n = 0  BY <1>2, <3>1
    <3>2. CASE n # 0
      <4>1. n - 1 \in Nat /\ (n - 1) + 1 = n  BY <3>2
      <4>2. f[(n - 1) + 1] = Raised(f[n - 1])  BY <1>2, <4>1
      <4>. QED  BY <3>2, <4>1, <4>2
    <3>. QED  BY <3>1, <3>2
  <2>. QED  BY <1>2, <2>1
<1>4. Highest = CHOOSE h : h = F(h)  BY DEF Highest, Raised
<1>5. Highest = F(Highest)
  <2>. HIDE DEF F
  <2>. QED  BY <1>3, <1>4
<1>6. Highest[0] = Catalogue /\ \A n \in Nat : Highest[n + 1] = Raised(Highest[n])
  <2>1. \A n \in Nat : n + 1 \in Nat /\ n + 1 # 0 /\ (n + 1) - 1 = n  OBVIOUS
  <2>2. \A n \in Nat : Highest[n] = IF n = 0 THEN Catalogue ELSE Raised(Highest[n - 1])
    BY <1>5
  <2>. QED  BY <2>1, <2>2
<1>7. \A n \in Nat : Highest[n] \in Nat  BY <1>1, <1>6, RaisedLowered, IterationStays
<1>8. Highest = [n \in Nat |-> Highest[n]]
  <2>1. DOMAIN F(Highest) = Nat /\ F(Highest) = [n \in DOMAIN F(Highest) |-> F(Highest)[n]]
    OBVIOUS
  <2>. HIDE DEF F
  <2>. QED  BY <1>5, <2>1
<1>. QED  BY <1>6, <1>7, <1>8

LEMMA LowestIs ==
  /\ Lowest \in [Nat -> Nat] /\ Lowest[0] = Catalogue
  /\ \A n \in Nat : Lowest[n + 1] = Lowered(Lowest[n])
<1>. DEFINE g == [x \in Nat |-> Lowered(x)]
            F(f) == [n \in Nat |-> IF n = 0 THEN Catalogue ELSE Lowered(f[n - 1])]
<1>1. g \in [Nat -> Nat] /\ Catalogue \in Nat  BY RaisedLowered, EffectsAssumption
<1>2. PICK f \in [Nat -> Nat] : f[0] = Catalogue /\ \A n \in Nat : f[n + 1] = Lowered(f[n])
  <2>1. \A x \in Nat : g[x] = Lowered(x)  OBVIOUS
  <2>. HIDE DEF g
  <2>2. Repeatable(Nat, Catalogue, g)  BY <1>1, Iteration
  <2>. QED  BY <2>1, <2>2 DEF Repeatable
<1>3. f = F(f)
  <2>1. ASSUME NEW n \in Nat PROVE f[n] = IF n = 0 THEN Catalogue ELSE Lowered(f[n - 1])
    <3>1. CASE n = 0  BY <1>2, <3>1
    <3>2. CASE n # 0
      <4>1. n - 1 \in Nat /\ (n - 1) + 1 = n  BY <3>2
      <4>2. f[(n - 1) + 1] = Lowered(f[n - 1])  BY <1>2, <4>1
      <4>. QED  BY <3>2, <4>1, <4>2
    <3>. QED  BY <3>1, <3>2
  <2>. QED  BY <1>2, <2>1
<1>4. Lowest = CHOOSE h : h = F(h)  BY DEF Lowest, Lowered
<1>5. Lowest = F(Lowest)
  <2>. HIDE DEF F
  <2>. QED  BY <1>3, <1>4
<1>6. Lowest[0] = Catalogue /\ \A n \in Nat : Lowest[n + 1] = Lowered(Lowest[n])
  <2>1. \A n \in Nat : n + 1 \in Nat /\ n + 1 # 0 /\ (n + 1) - 1 = n  OBVIOUS
  <2>2. \A n \in Nat : Lowest[n] = IF n = 0 THEN Catalogue ELSE Lowered(Lowest[n - 1])
    BY <1>5
  <2>. QED  BY <2>1, <2>2
<1>7. \A n \in Nat : Lowest[n] \in Nat  BY <1>1, <1>6, RaisedLowered, IterationStays
<1>8. Lowest = [n \in Nat |-> Lowest[n]]
  <2>1. DOMAIN F(Lowest) = Nat /\ F(Lowest) = [n \in DOMAIN F(Lowest) |-> F(Lowest)[n]]
    OBVIOUS
  <2>. HIDE DEF F
  <2>. QED  BY <1>5, <2>1
<1>. QED  BY <1>6, <1>7, <1>8

(* One decision takes a price between two bounds no further than the caps  *)
(* take the bounds, and no decision takes them closer.                     *)
LEMMA RepricedWithin ==
  ASSUME NEW price \in Nat, NEW low \in Nat, NEW high \in Nat, low <= price, price <= high,
         NEW d, NEW p \in Nat, NEW tie \in Ties
  PROVE  /\ Lowered(low) <= Repriced(price, d, p, tie)
         /\ Repriced(price, d, p, tie) <= Raised(high)
<1>. DEFINE q == Capped(d, p)
<1>1. q \in 0 .. 15 /\ (d = "increase" => q <= 12)
  BY CappedType DEF Capped, IncreaseMax
<1>2. tie \in Nat /\ 49 <= tie /\ tie <= 50  BY DEF Ties
<1>3. \A a, b, c \in Nat : b <= c => a * b <= a * c /\ a * b \in Nat /\ a * c \in Nat
  OBVIOUS
<1>4. \A a, b \in Nat : a <= b => a \div 100 <= b \div 100  OBVIOUS
<1>. HIDE DEF q
<1>5. CASE d = "increase"
  <2>. DEFINE x == price * (100 + q)
  <2>1. /\ x \in Nat /\ price * 100 <= x /\ x <= price * 112
    BY <1>1, <1>3, <1>5
  <2>. HIDE DEF x
  <2>2. low * 85 + 49 <= x + tie /\ x + tie <= high * 112 + 50  BY <1>2, <2>1
  <2>3. /\ (low * 85 + 49) \div 100 <= (x + tie) \div 100
        /\ (x + tie) \div 100 <= (high * 112 + 50) \div 100
    BY <1>2, <1>4, <2>1, <2>2
  <2>4. Repriced(price, d, p, tie) = (x + tie) \div 100  BY <1>5 DEF Repriced, x, q
  <2>. QED  BY <2>3, <2>4 DEF Raised, Lowered, IncreaseMax, DiscountMax
<1>6. CASE d # "increase"
  <2>. DEFINE x == price * (100 - q)
  <2>1. /\ x \in Nat /\ price * 85 <= x /\ x <= price * 100
    <3>1. 100 - q \in Nat /\ 85 <= 100 - q /\ 100 - q <= 100  BY <1>1
    <3>. QED  BY <1>3, <3>1
  <2>. HIDE DEF x
  <2>2. low * 85 + 49 <= x + tie /\ x + tie <= high * 112 + 50  BY <1>2, <2>1
  <2>3. /\ (low * 85 + 49) \div 100 <= (x + tie) \div 100
        /\ (x + tie) \div 100 <= (high * 112 + 50) \div 100
    BY <1>2, <1>4, <2>1, <2>2
  <2>4. Repriced(price, d, p, tie) = (x + tie) \div 100  BY <1>6 DEF Repriced, x, q
  <2>. QED  BY <2>3, <2>4 DEF Raised, Lowered, IncreaseMax, DiscountMax
<1>. QED  BY <1>5, <1>6

\* Whatever is not a decision leaves the prices and the counts as they are
LEMMA OnlyDecisionsReprice ==
  ASSUME [Next]_vars, ~ UNCHANGED <<menu, applied>>
  PROVE  \E c \in DOMAIN cards : HttpResolve(c) \/ ChatResolve(c)
<1>1. ASSUME NEW s \in Stores, NEW supplier \in Suppliers, RulesOrder(s, supplier)
      PROVE  FALSE
  BY <1>1 DEF RulesOrder, history
<1>2. ASSUME NEW s \in Stores,
             \/ RulesOrdersEnd(s) \/ RulesCampaign(s) \/ RulesRoster(s) \/ RulesPrice(s)
             \/ \E k \in Kinds : ModelEnds(s, k) \/ IdleRun(s, k)
      PROVE  FALSE
  BY <1>2 DEF RulesOrdersEnd, RulesCampaign, RulesRoster, RulesPrice, ModelEnds, IdleRun,
              platform, history
<1>3. ASSUME NEW s \in Stores,
             \/ ModelOrder(s) \/ ModelCampaign(s) \/ ModelRoster(s) \/ ModelPrice(s)
             \/ ModelRecord(s)
      PROVE  FALSE
  BY <1>3 DEF ModelOrder, ModelCampaign, ModelRoster, ModelPrice, ModelRecord, platform, history
<1>4. CASE Crash \/ Tomorrow \/ ChatEnds \/ UNCHANGED vars
  BY <1>4 DEF Crash, Tomorrow, ChatEnds, platform, history, vars
<1>5. ASSUME NEW c \in DOMAIN cards, TakeCopy(c) PROVE FALSE
  BY <1>5 DEF TakeCopy, platform, history
<1>. QED  BY <1>1, <1>2, <1>3, <1>4, <1>5 DEF Next

LEMMA DecidedPrices ==
  ASSUME EffectsInv, PriceWithinApprovals, NEW c \in DOMAIN cards, NEW v \in Verdicts,
         NEW again \in BOOLEAN, Decide(c, v, again)
  PROVE  PriceWithinApprovals'
<1>. DEFINE n == applied["price"]
<1>1. /\ menu \in [Items -> Nat] /\ applied \in [Kinds -> 0 .. MaxDecisions]
      /\ "price" \in Kinds /\ n \in Nat
  BY EffectsAssumption DEF EffectsInv, PlatformInv, Kinds
<1>2. cards[c] \in Card  BY CardsDomain DEF EffectsInv, Orderly
<1>3. \A i \in Items : menu[i] \in Nat /\ Lowest[n] <= menu[i] /\ menu[i] <= Highest[n]
  BY <1>1, HighestIs, LowestIs DEF PriceWithinApprovals
<1>4. /\ Lowest[n] \in Nat /\ Highest[n] \in Nat
      /\ Lowest[n + 1] = Lowered(Lowest[n]) /\ Highest[n + 1] = Raised(Highest[n])
  BY <1>1, HighestIs, LowestIs
<1>5. Lowest' = Lowest /\ Highest' = Highest  BY DEF Lowest, Highest
<1>6. CASE UNCHANGED <<menu, applied>>  BY <1>5, <1>6 DEF PriceWithinApprovals
<1>7. CASE ~ UNCHANGED <<menu, applied>>
  <2>1. /\ \/ v = "approve" /\ Approve(cards[c])
           \/ v = "reject" /\ Reject(cards[c])
        /\ applied' = [applied EXCEPT ![cards[c].kind] = @ + 1]
    BY <1>7 DEF Decide, platform
  <2>2. cards[c].kind \in Kinds  BY <1>2 DEF Card
  <2>3. applied'["price"] = IF cards[c].kind = "price" THEN n + 1 ELSE n
    BY <1>1, <2>1, <2>2
  <2>4. CASE UNCHANGED menu
    <3>1. \A i \in Items : Lowest[n + 1] <= menu[i] /\ menu[i] <= Highest[n + 1]
      <4>1. /\ Lowest[n + 1] <= Lowest[n] /\ Lowest[n + 1] \in Nat
            /\ Highest[n] <= Highest[n + 1] /\ Highest[n + 1] \in Nat
        BY <1>4, RaisedLowered
      <4>. HIDE DEF n
      <4>. QED  BY <1>3, <1>4, <4>1
    <3>2. \A i \in Items : menu[i] \in Lowest[n + 1] .. Highest[n + 1]
      BY <1>1, <1>3, <1>4, <3>1, RaisedLowered
    <3>. QED  BY <1>5, <2>3, <2>4, <3>2 DEF PriceWithinApprovals
  <2>5. CASE ~ UNCHANGED menu
    <3>1. ApprovePrice(cards[c])
      BY <2>1, <2>5 DEF Approve, Reject, ApproveOrder, ApproveCampaign, ApproveRoster,
                        ApproveRecord, platform
    <3>2. PICK tie \in [Items -> Ties] :
            menu' = [i \in Items |->
                       IF i \in cards[c].ids
                       THEN Repriced(menu[i], cards[c].direction, cards[c].percent, tie[i])
                       ELSE menu[i]]
      BY <3>1 DEF ApprovePrice
    <3>3. cards[c].kind = "price" /\ cards[c].percent \in Nat  BY <1>2, <3>1 DEF ApprovePrice, Card
    <3>4. ASSUME NEW i \in Items
          PROVE  /\ menu'[i] \in Nat
                 /\ Lowest[n + 1] <= menu'[i] /\ menu'[i] <= Highest[n + 1]
      <4>1. CASE i \in cards[c].ids
        <5>. DEFINE x == Repriced(menu[i], cards[c].direction, cards[c].percent, tie[i])
        <5>1. menu'[i] = x  BY <3>2, <4>1
        <5>2. x \in Nat  BY <1>3, <3>3, RepricedType
        <5>3. Lowered(Lowest[n]) <= x /\ x <= Raised(Highest[n])
          BY <1>3, <1>4, <3>3, RepricedWithin
        <5>. QED  BY <1>4, <5>1, <5>2, <5>3
      <4>2. CASE i \notin cards[c].ids
        <5>1. menu'[i] = menu[i]  BY <3>2, <4>2
        <5>2. /\ Lowest[n + 1] <= Lowest[n] /\ Lowest[n + 1] \in Nat
              /\ Highest[n] <= Highest[n + 1] /\ Highest[n + 1] \in Nat
          BY <1>4, RaisedLowered
        <5>. HIDE DEF n
        <5>. QED  BY <1>3, <1>4, <5>1, <5>2
      <4>. QED  BY <4>1, <4>2
    <3>5. Lowest[n + 1] \in Nat /\ Highest[n + 1] \in Nat  BY <1>4, RaisedLowered
    <3>6. \A i \in Items : menu'[i] \in Lowest[n + 1] .. Highest[n + 1]
      BY <3>4, <3>5
    <3>. QED  BY <1>5, <2>3, <3>3, <3>6 DEF PriceWithinApprovals
  <2>. QED  BY <2>4, <2>5
<1>. QED  BY <1>6, <1>7

LEMMA PriceStepWithin ==
  EffectsInv /\ PriceWithinApprovals /\ [Next]_vars => PriceWithinApprovals'
<1>. SUFFICES ASSUME EffectsInv, PriceWithinApprovals, [Next]_vars PROVE PriceWithinApprovals'
  OBVIOUS
<1>1. CASE UNCHANGED <<menu, applied>>
  <2>1. Lowest' = Lowest /\ Highest' = Highest  BY DEF Lowest, Highest
  <2>. QED  BY <1>1, <2>1 DEF PriceWithinApprovals
<1>2. CASE ~ UNCHANGED <<menu, applied>>
  <2>1. PICK c \in DOMAIN cards : HttpResolve(c) \/ ChatResolve(c)
    BY <1>2, OnlyDecisionsReprice
  <2>2. PICK v \in Verdicts, again \in BOOLEAN : Decide(c, v, again)
    BY <2>1 DEF HttpResolve, ChatResolve
  <2>. QED  BY <2>2, DecidedPrices
<1>. QED  BY <1>1, <1>2

(* A price is no further from the catalogue than the caps, applied once    *)
(* for each decision on a price card and rounded to the cent each time,    *)
(* would take it: for any number of items, cards and decisions, whatever   *)
(* percentages a model asks for.                                           *)
THEOREM PricesAreCapped == Spec => []PriceWithinApprovals
<1>1. Init => PriceWithinApprovals
  <2>. SUFFICES ASSUME Init PROVE PriceWithinApprovals
    OBVIOUS
  <2>1. applied["price"] = 0  BY DEF Init, Kinds
  <2>2. menu = [i \in Items |-> Catalogue]  BY DEF Init
  <2>3. Catalogue \in Catalogue .. Catalogue  BY EffectsAssumption
  <2>. QED  BY <2>1, <2>2, <2>3, HighestIs, LowestIs DEF PriceWithinApprovals
<1>. QED  BY <1>1, EffectsInvariant, PriceStepWithin, PTL DEF Spec
=============================================================================
