---------------------------- MODULE FrontProofs ----------------------------
(***************************************************************************)
(* Proofs about Front: the bound of the rate limiter on every window, that *)
(* nobody is refused before having used it up, the verdicts on store ids,  *)
(* and what a run is told of its session.                                  *)
(*                                                                         *)
(* The queue of a client is the end of the list of all its admitted        *)
(* requests, and what comes before that end is a full window old: Accounts *)
(* says so, and the bound follows from it whenever a request is admitted.  *)
(***************************************************************************)
EXTENDS Front, FiniteSetTheorems, SequenceTheorems, TLAPS

Accounts(h, a, t) ==
  /\ Len(h) <= Len(a)
  /\ \A i \in 1 .. Len(h) : h[i] = a[Len(a) - Len(h) + i]
  /\ \A i \in 1 .. Len(a) - Len(h) : t - a[i] >= Window
  /\ \A i \in 1 .. Len(a) : a[i] <= t
  /\ \A i, j \in 1 .. Len(a) : i <= j => a[i] <= a[j]

Spaced(a) == \A i \in 1 .. (Len(a) - Budget) : a[i + Budget] - a[i] >= Window

LimiterTypeOK ==
  /\ now \in Nat
  /\ hits \in [Clients -> Seq(Nat)]
  /\ admitted \in [Clients -> Seq(Nat)]

LimiterInv ==
  /\ LimiterTypeOK
  /\ \A c \in Clients : Accounts(hits[c], admitted[c], now) /\ Spaced(admitted[c])

-----------------------------------------------------------------------------
(* Dropping the hits a window old keeps the account.                       *)
LEMMA DropAccounts ==
  ASSUME now \in Nat, NEW h \in Seq(Nat), NEW a \in Seq(Nat), Accounts(h, a, now),
         NEW k \in Dropped(h)
  PROVE  LET q == SubSeq(h, k + 1, Len(h))
         IN q \in Seq(Nat) /\ Len(q) = Len(h) - k /\ Accounts(q, a, now)
<1>. DEFINE q == SubSeq(h, k + 1, Len(h))
<1>0. Len(h) \in Nat /\ Len(a) \in Nat  BY LenProperties
<1>1. k \in 0 .. Len(h) /\ \A i \in 1 .. k : now - h[i] >= Window  BY DEF Dropped
<1>2. \A i \in k + 1 .. Len(h) : h[i] \in Nat  BY <1>0, <1>1, ElementOfSeq
<1>3. q \in Seq(Nat) /\ Len(q) = Len(h) - k
      /\ \A i \in 1 .. Len(h) - k : q[i] = h[k + i]
  <2>1. /\ q \in Seq(Nat)
        /\ Len(q) = IF k + 1 <= Len(h) THEN Len(h) - (k + 1) + 1 ELSE 0
        /\ \A i \in 1 .. Len(h) - (k + 1) + 1 : q[i] = h[k + 1 + i - 1]
    BY <1>0, <1>1, <1>2, SubSeqProperties
  <2>. QED  BY <2>1, <1>0, <1>1
<1>. HIDE DEF q
<1>4. \A i \in 1 .. Len(a) - Len(q) : now - a[i] >= Window
  <2>. SUFFICES ASSUME NEW i \in 1 .. Len(a) - Len(q) PROVE now - a[i] >= Window
    OBVIOUS
  <2>1. CASE i <= Len(a) - Len(h)
    BY <2>1, <1>0, <1>1, <1>3 DEF Accounts
  <2>2. CASE i > Len(a) - Len(h)
    <3>. DEFINE j == i - (Len(a) - Len(h))
    <3>1. j \in 1 .. k /\ j \in 1 .. Len(h) /\ i = Len(a) - Len(h) + j
      BY SMTT(30), <2>2, <1>0, <1>1, <1>3
    <3>2. h[j] = a[i]  BY <3>1 DEF Accounts
    <3>. QED  BY <3>1, <3>2, <1>1
  <2>. QED  BY <2>1, <2>2, <1>0, <1>3
<1>5. \A i \in 1 .. Len(q) : q[i] = a[Len(a) - Len(q) + i]
  <2>. SUFFICES ASSUME NEW i \in 1 .. Len(q) PROVE q[i] = a[Len(a) - Len(q) + i]
    OBVIOUS
  <2>1. k + i \in 1 .. Len(h) /\ q[i] = h[k + i]  BY <1>0, <1>1, <1>3
  <2>2. h[k + i] = a[Len(a) - Len(h) + (k + i)]  BY <2>1 DEF Accounts
  <2>3. Len(a) - Len(h) + (k + i) = Len(a) - Len(q) + i  BY <1>0, <1>1, <1>3
  <2>. QED  BY <2>1, <2>2, <2>3
<1>6. Accounts(q, a, now)
  BY <1>0, <1>1, <1>3, <1>4, <1>5 DEF Accounts
<1>. QED  BY <1>3, <1>6 DEF q

(* So does admitting a request, and where there is room it keeps the bound. *)
LEMMA AppendAccounts ==
  ASSUME NEW t \in Nat, NEW q \in Seq(Nat), NEW a \in Seq(Nat), Accounts(q, a, t)
  PROVE  /\ Accounts(Append(q, t), Append(a, t), t)
         /\ Spaced(a) /\ Len(q) < Budget => Spaced(Append(a, t))
<1>. DEFINE n == Len(a)  b == Append(a, t)  p == Append(q, t)
<1>0. n \in Nat /\ Len(q) \in Nat  BY LenProperties
<1>1. /\ Len(b) = n + 1 /\ b[n + 1] = t
      /\ \A i \in 1 .. n : b[i] = a[i]
      /\ Len(p) = Len(q) + 1 /\ p[Len(q) + 1] = t
      /\ \A i \in 1 .. Len(q) : p[i] = q[i]
  BY <1>0
<1>2. \A i \in 1 .. n : a[i] \in Nat  BY <1>0, ElementOfSeq
<1>. HIDE DEF b, p, n
<1>3. Accounts(p, b, t)
  <2>1. Len(p) <= Len(b)  BY <1>0, <1>1 DEF Accounts, n
  <2>2. \A i \in 1 .. Len(p) : p[i] = b[Len(b) - Len(p) + i]
    <3>. SUFFICES ASSUME NEW i \in 1 .. Len(p) PROVE p[i] = b[Len(b) - Len(p) + i]
      OBVIOUS
    <3>1. CASE i = Len(q) + 1  BY <3>1, <1>0, <1>1
    <3>2. CASE i # Len(q) + 1
      <4>1. i \in 1 .. Len(q)  BY <3>2, <1>0, <1>1
      <4>2. n - Len(q) + i \in 1 .. n  BY <4>1, <1>0 DEF Accounts, n
      <4>3. q[i] = a[n - Len(q) + i]  BY <4>1 DEF Accounts, n
      <4>. QED  BY SMTT(30), <4>1, <4>2, <4>3, <1>0, <1>1
    <3>. QED  BY <3>1, <3>2
  <2>3. \A i \in 1 .. Len(b) - Len(p) : t - b[i] >= Window
    <3>. SUFFICES ASSUME NEW i \in 1 .. Len(b) - Len(p) PROVE t - b[i] >= Window
      OBVIOUS
    <3>1. i \in 1 .. n - Len(q) /\ i \in 1 .. n  BY <1>0, <1>1
    <3>2. t - a[i] >= Window  BY <3>1 DEF Accounts, n
    <3>. QED  BY <3>1, <3>2, <1>1
  <2>4. \A i \in 1 .. Len(b) : b[i] <= t
    <3>1. \A i \in 1 .. n : a[i] <= t  BY DEF Accounts, n
    <3>2. \A i \in 1 .. Len(b) : i = n + 1 \/ i \in 1 .. n  BY <1>0, <1>1
    <3>. QED  BY SMTT(30), <3>1, <3>2, <1>0, <1>1
  <2>5. \A i, j \in 1 .. Len(b) : i <= j => b[i] <= b[j]
    <3>. SUFFICES ASSUME NEW i \in 1 .. Len(b), NEW j \in 1 .. Len(b), i <= j PROVE b[i] <= b[j]
      OBVIOUS
    <3>1. CASE j = n + 1  BY <3>1, <2>4, <1>1
    <3>2. CASE j # n + 1
      <4>1. i \in 1 .. n /\ j \in 1 .. n  BY <3>2, <1>0, <1>1
      <4>. QED  BY <4>1, <1>1 DEF Accounts, n
    <3>. QED  BY <3>1, <3>2
  <2>. QED  BY <2>1, <2>2, <2>3, <2>4, <2>5 DEF Accounts
<1>4. ASSUME Spaced(a), Len(q) < Budget PROVE Spaced(b)
  <2>. SUFFICES ASSUME NEW i \in 1 .. Len(b) - Budget PROVE b[i + Budget] - b[i] >= Window
    BY DEF Spaced
  <2>0. Budget \in Nat \ {0}  BY FrontAssumption
  <2>1. i \in 1 .. n /\ i \in Nat  BY <2>0, <1>0, <1>1
  <2>2. CASE i = n + 1 - Budget
    <3>1. i \in 1 .. Len(a) - Len(q)  BY <2>0, <2>1, <2>2, <1>0, <1>4 DEF n
    <3>2. t - a[i] >= Window  BY <3>1 DEF Accounts
    <3>3. b[i + Budget] = t  BY <2>0, <2>1, <2>2, <1>0, <1>1
    <3>. QED  BY <3>2, <3>3, <2>1, <1>1
  <2>3. CASE i # n + 1 - Budget
    <3>1. i \in 1 .. n - Budget /\ i + Budget \in 1 .. n  BY <2>0, <2>1, <2>3, <1>0, <1>1
    <3>2. a[i + Budget] - a[i] >= Window  BY <3>1, <1>4 DEF Spaced, n
    <3>. QED  BY <3>1, <3>2, <2>1, <1>1
  <2>. QED  BY <2>2, <2>3
<1>. QED  BY <1>3, <1>4 DEF b, p

(* Time passing keeps the account.                                         *)
LEMMA TickAccounts ==
  ASSUME NEW t \in Nat, NEW h \in Seq(Nat), NEW a \in Seq(Nat), Accounts(h, a, t)
  PROVE  Accounts(h, a, t + 1)
<1>1. \A i \in 1 .. Len(a) : a[i] \in Nat  BY ElementOfSeq
<1>2. Len(h) \in Nat /\ Len(a) \in Nat  BY LenProperties
<1>3. \A i \in 1 .. Len(a) - Len(h) : i \in 1 .. Len(a)  BY <1>2
<1>4. Window \in Nat  BY FrontAssumption
<1>. DEFINE u == t + 1
<1>5. \A i \in 1 .. Len(a) - Len(h) : u - a[i] >= Window
  BY <1>1, <1>3, <1>4 DEF Accounts
<1>6. \A i \in 1 .. Len(a) : a[i] <= u
  BY <1>1 DEF Accounts
<1>7. /\ Len(h) <= Len(a)
      /\ \A i \in 1 .. Len(h) : h[i] = a[Len(a) - Len(h) + i]
      /\ \A i, j \in 1 .. Len(a) : i <= j => a[i] <= a[j]
  BY DEF Accounts
<1>. HIDE DEF u
<1>8. Accounts(h, a, u)  BY <1>5, <1>6, <1>7 DEF Accounts
<1>. QED  BY <1>8 DEF u

-----------------------------------------------------------------------------
LEMMA EmptyAccounts ==
  ASSUME NEW t \in Nat PROVE << >> \in Seq(Nat) /\ Accounts(<< >>, << >>, t) /\ Spaced(<< >>)
<1>1. Budget \in Nat \ {0}  BY FrontAssumption
<1>2. << >> \in Seq(Nat) /\ Len(<< >>) = 0  BY EmptySeq
<1>. QED  BY <1>1, <1>2 DEF Accounts, Spaced

LEMMA InitLimiterInv == Init => LimiterInv
BY EmptyAccounts DEF Init, LimiterInv, LimiterTypeOK

LEMMA ArriveLimiterInv ==
  ASSUME LimiterInv, NEW r \in Requests, NEW c \in Clients, NEW s \in Stores, Arrive(r, c, s)
  PROVE  LimiterInv'
<1>. USE DEF LimiterInv, LimiterTypeOK
<1>1. now' = now  BY DEF Arrive
<1>2. PICK k \in Dropped(hits[c]) :
        LET q == SubSeq(hits[c], k + 1, Len(hits[c]))
        IN /\ hits' = [hits EXCEPT ![c] = Hits(q)]
           /\ IF Admits(q) THEN admitted' = [admitted EXCEPT ![c] = Append(@, now)]
                           ELSE UNCHANGED admitted
  BY DEF Arrive
<1>. DEFINE q == SubSeq(hits[c], k + 1, Len(hits[c]))
<1>3. hits[c] \in Seq(Nat) /\ admitted[c] \in Seq(Nat) /\ now \in Nat  OBVIOUS
<1>4. q \in Seq(Nat) /\ Accounts(q, admitted[c], now)
  BY <1>3, DropAccounts
<1>. HIDE DEF q
<1>5. CASE Admits(q)
  <2>1. hits' = [hits EXCEPT ![c] = Append(q, now)]
        /\ admitted' = [admitted EXCEPT ![c] = Append(admitted[c], now)]
    BY <1>2, <1>5 DEF Hits, q
  <2>2. /\ Accounts(Append(q, now), Append(admitted[c], now), now)
        /\ Spaced(Append(admitted[c], now))
    BY <1>3, <1>4, <1>5, AppendAccounts DEF Admits
  <2>3. Append(q, now) \in Seq(Nat) /\ Append(admitted[c], now) \in Seq(Nat)
    BY <1>3, <1>4
  <2>4. LimiterTypeOK'  BY <2>1, <2>3, <1>1
  <2>5. ASSUME NEW d \in Clients
        PROVE  Accounts(hits'[d], admitted'[d], now') /\ Spaced(admitted'[d])
    BY <2>1, <2>2, <1>1
  <2>. QED  BY <2>4, <2>5
<1>6. CASE ~ Admits(q)
  <2>1. hits' = [hits EXCEPT ![c] = q] /\ admitted' = admitted
    BY <1>2, <1>6 DEF Hits, q
  <2>2. LimiterTypeOK'  BY <2>1, <1>1, <1>4
  <2>3. ASSUME NEW d \in Clients
        PROVE  Accounts(hits'[d], admitted'[d], now') /\ Spaced(admitted'[d])
    BY <2>1, <1>1, <1>4
  <2>. QED  BY <2>2, <2>3
<1>. QED  BY <1>5, <1>6

LEMMA NextLimiterInv == LimiterInv /\ [Next]_vars => LimiterInv'
<1>. SUFFICES ASSUME LimiterInv, [Next]_vars PROVE LimiterInv'
  OBVIOUS
<1>1. ASSUME UNCHANGED <<now, limiterVars>> PROVE LimiterInv'
  BY <1>1 DEF LimiterInv, LimiterTypeOK, limiterVars
<1>2. CASE UNCHANGED vars  BY <1>1, <1>2 DEF vars
<1>3. ASSUME NEW r \in Requests, NEW c \in Clients, NEW s \in Stores, Arrive(r, c, s)
      PROVE  LimiterInv'
  BY <1>3, ArriveLimiterInv
<1>4. ASSUME NEW r \in Requests,
             \/ CheckCached(r) \/ AskCatalogue(r) \/ EndFetch(r) \/ LoadHistory(r)
             \/ TurnAway(r) \/ EndRun(r) \/ FailRun(r)
      PROVE  LimiterInv'
  BY <1>1, <1>4 DEF CheckCached, AskCatalogue, EndFetch, LoadHistory, TurnAway, EndRun, FailRun
<1>5. ASSUME NEW s \in NewStores, OpenStore(s) PROVE LimiterInv'
  BY <1>1, <1>5 DEF OpenStore
<1>6. CASE Restart
  BY <1>6, EmptyAccounts DEF Restart, LimiterInv, LimiterTypeOK
<1>7. CASE Tick
  <2>1. now' = now + 1 /\ hits' = hits /\ admitted' = admitted
    BY <1>7 DEF Tick, limiterVars
  <2>2. now' \in Nat  BY <2>1 DEF LimiterInv, LimiterTypeOK
  <2>. QED  BY <2>1, <2>2, TickAccounts DEF LimiterInv, LimiterTypeOK
<1>. QED  BY <1>2, <1>3, <1>4, <1>5, <1>6, <1>7 DEF Next

(* The queue of a client is the end of its admitted requests, and the rest *)
(* is out of the window.                                                   *)
THEOREM LimiterInvariant == Spec => []LimiterInv
<1>. QED  BY InitLimiterInv, NextLimiterInv, PTL DEF Spec

(* While the process lives no stretch shorter than the window holds more   *)
(* admitted requests of a client than the budget.                          *)
THEOREM WindowBoundHolds == Spec => []WindowBound
<1>1. LimiterInv => WindowBound
  BY DEF LimiterInv, WindowBound, Spaced
<1>. QED  BY <1>1, LimiterInvariant, PTL

-----------------------------------------------------------------------------
(* Type correctness.                                                       *)
Known == OldStores \cup NewStores
Stages == {"new", "arrived", "limited", "fetching", "admitted", "unknown", "running",
           "answered", "over"}
Request == [stage : Stages, store : Stores \cup {"none"}, ids : SUBSET Known,
            asked : Nat, blind : BOOLEAN, hist : Seq(Nat)]
Entry == [turns : Seq(Nat), until : Nat]
Talk == [said : Nat, spoke : Nat, lapsed : BOOLEAN, outage : BOOLEAN]

FrontTypeOK ==
  /\ now \in Nat
  /\ cache \in [ids : SUBSET Known, at : Int]
  /\ catalogue \in SUBSET Known /\ fetched \in BOOLEAN
  /\ req \in [Requests -> Request]
  /\ mem \in Seq(Nat) /\ redisOn \in BOOLEAN
  /\ redis \in Entry /\ talk \in Talk

LEMMA NewRequestType ==
  /\ NewRequest \in Request
  /\ \A stage \in Stages : [NewRequest EXCEPT !.stage = stage] \in Request
<1>1. << >> \in Seq(Nat)  OBVIOUS
<1>. QED  BY <1>1 DEF NewRequest, Request, Stages

LEMMA LastTurnsType ==
  ASSUME NEW turns \in Seq(Nat)
  PROVE  LastTurns(turns) \in Seq(Nat)
<1>1. Len(turns) \in Nat /\ Keep \in Nat  BY LenProperties, FrontAssumption
<1>2. CASE Len(turns) <= Keep  BY <1>2 DEF LastTurns
<1>3. CASE ~ Len(turns) <= Keep
  <2>1. \A i \in Len(turns) - Keep + 1 .. Len(turns) : i \in 1 .. Len(turns)  BY <1>1, <1>3
  <2>2. \A i \in Len(turns) - Keep + 1 .. Len(turns) : turns[i] \in Nat
    BY <2>1, ElementOfSeq
  <2>3. SubSeq(turns, Len(turns) - Keep + 1, Len(turns)) \in Seq(Nat)
    BY <1>1, <2>2, SubSeqProperties
  <2>. QED  BY <1>3, <2>3 DEF LastTurns
<1>. QED  BY <1>2, <1>3

LEMMA AppendTurnType ==
  ASSUME FrontTypeOK, NEW entry \in Entry, NEW turn \in Nat, NEW fails
  PROVE  AppendTurn(entry, turn, fails) \in Entry
<1>1. entry.turns \in Seq(Nat)  BY DEF Entry
<1>2. LastTurns(Append(entry.turns, turn)) \in Seq(Nat)
  <2>1. Append(entry.turns, turn) \in Seq(Nat)  BY <1>1
  <2>. QED  BY <2>1, LastTurnsType
<1>3. now + SessionTTL \in Nat  BY FrontAssumption DEF FrontTypeOK
<1>. QED  BY <1>2, <1>3 DEF AppendTurn, Entry

LEMMA EnsureSessionType ==
  ASSUME FrontTypeOK, NEW fails
  PROVE  EnsureSession(fails) \in Entry
<1>1. now + SessionTTL \in Nat /\ << >> \in Seq(Nat)  BY FrontAssumption DEF FrontTypeOK
<1>. QED  BY <1>1 DEF EnsureSession, Entry, FrontTypeOK

LEMMA DecideType ==
  ASSUME FrontTypeOK, NEW r \in Requests, NEW ids, NEW ok \in BOOLEAN, Decide(r, ids, ok)
  PROVE  req' \in [Requests -> Request]
<1>1. req[r] \in Request  BY DEF FrontTypeOK
<1>2. [req[r] EXCEPT !.stage = "admitted", !.blind = ~ok, !.ids = {}] \in Request
  BY <1>1 DEF Request, Stages
<1>3. [req[r] EXCEPT !.stage = "unknown", !.ids = {}] \in Request
  BY <1>1 DEF Request, Stages
<1>. QED  BY <1>2, <1>3 DEF Decide, FrontTypeOK

LEMMA GoesType ==
  ASSUME FrontTypeOK, NEW r \in Requests, NEW stage \in Stages, Goes(r, stage)
  PROVE  req' \in [Requests -> Request]
BY NewRequestType DEF Goes, FrontTypeOK

LEMMA FetchType ==
  ASSUME FrontTypeOK, NEW r \in Requests, NEW fetch \in Fetches(r)
  PROVE  fetch.ids \in SUBSET Known /\ fetch.ok \in BOOLEAN
<1>1. req[r] \in Request  BY DEF FrontTypeOK
<1>2. /\ req[r].ids \in SUBSET Known /\ cache.ids \in SUBSET Known
      /\ catalogue \in SUBSET Known /\ (cache.ids # {}) \in BOOLEAN
  BY <1>1 DEF Request, FrontTypeOK
<1>3. CASE fetch = [ids |-> req[r].ids, ok |-> TRUE]  BY <1>2, <1>3
<1>4. CASE fetch = [ids |-> catalogue, ok |-> TRUE]  BY <1>2, <1>4
<1>5. CASE fetch = [ids |-> cache.ids, ok |-> FALSE]  BY <1>2, <1>5
<1>6. CASE fetch = [ids |-> cache.ids, ok |-> cache.ids # {}]  BY <1>2, <1>6
<1>. QED  BY <1>3, <1>4, <1>5, <1>6 DEF Fetches

LEMMA InitType == Init => FrontTypeOK
<1>. SUFFICES ASSUME Init PROVE FrontTypeOK
  OBVIOUS
<1>1. CacheTTL \in Nat /\ OldStores \in SUBSET Known  BY FrontAssumption DEF Known
<1>2. << >> \in Seq(Nat)  OBVIOUS
<1>3. NoEntry \in Entry  BY <1>2 DEF NoEntry, Entry
<1>4. talk \in Talk  BY DEF Init, Talk
<1>5. fetched \in BOOLEAN /\ redisOn \in BOOLEAN  BY DEF Init
<1>. QED  BY <1>1, <1>2, <1>3, <1>4, <1>5, NewRequestType DEF Init, FrontTypeOK

LEMMA NextType == FrontTypeOK /\ [Next]_vars => FrontTypeOK'
<1>. SUFFICES ASSUME FrontTypeOK, [Next]_vars PROVE FrontTypeOK'
  OBVIOUS
<1>. USE DEF FrontTypeOK
<1>1. CASE UNCHANGED vars
  BY <1>1 DEF vars, storeVars, sessionVars
<1>2. ASSUME NEW r \in Requests, NEW c \in Clients, NEW s \in Stores, Arrive(r, c, s)
      PROVE  FrontTypeOK'
  <2>1. UNCHANGED <<now, storeVars, sessionVars>>  BY <1>2 DEF Arrive
  <2>2. \/ req' = [req EXCEPT ![r] = [NewRequest EXCEPT !.stage = "arrived", !.store = s]]
        \/ Goes(r, "limited")
    BY <1>2 DEF Arrive
  <2>3. [NewRequest EXCEPT !.stage = "arrived", !.store = s] \in Request
    <3>1. << >> \in Seq(Nat)  OBVIOUS
    <3>. QED  BY <3>1 DEF NewRequest, Request, Stages
  <2>4. req' \in [Requests -> Request]
    BY <2>2, <2>3, GoesType DEF Stages
  <2>. QED  BY <2>1, <2>4 DEF storeVars, sessionVars
<1>3. ASSUME NEW r \in Requests, CheckCached(r) PROVE FrontTypeOK'
  <2>1. req' \in [Requests -> Request]  BY <1>3, DecideType DEF CheckCached
  <2>. QED  BY <1>3, <2>1 DEF CheckCached, storeVars, sessionVars
<1>4. ASSUME NEW r \in Requests, AskCatalogue(r) PROVE FrontTypeOK'
  <2>1. req[r] \in Request  OBVIOUS
  <2>2. [req[r] EXCEPT !.stage = "fetching", !.asked = now, !.ids = catalogue] \in Request
    BY <2>1 DEF Request, Stages
  <2>. QED  BY <1>4, <2>2 DEF AskCatalogue, storeVars, sessionVars
<1>5. ASSUME NEW r \in Requests, EndFetch(r) PROVE FrontTypeOK'
  <2>1. req[r] \in Request  OBVIOUS
  <2>2. PICK fetch \in Fetches(r) :
          /\ cache' = [ids |-> CacheAfter(fetch), at |-> req[r].asked]
          /\ Decide(r, cache'.ids, fetch.ok)
          /\ fetched' = (fetched \/ fetch.ok)
    BY <1>5 DEF EndFetch
  <2>3. fetch.ids \in SUBSET Known /\ fetch.ok \in BOOLEAN
    BY <2>2, FetchType
  <2>4. cache' \in [ids : SUBSET Known, at : Int]
    BY <2>1, <2>2, <2>3 DEF Request, CacheAfter
  <2>5. req' \in [Requests -> Request] /\ fetched' \in BOOLEAN
    BY <2>2, <2>3, DecideType
  <2>. QED  BY <1>5, <2>4, <2>5 DEF EndFetch, sessionVars
<1>6. ASSUME NEW r \in Requests, LoadHistory(r) PROVE FrontTypeOK'
  <2>1. LastTurns(redis.turns) \in Seq(Nat)  BY LastTurnsType DEF Entry
  <2>2. PICK fails \in BOOLEAN :
          LET found == redisOn /\ ~fails /\ Stored(redis) /\ redis.turns # << >>
              hist == IF found THEN LastTurns(redis.turns) ELSE mem
          IN /\ mem' = hist
             /\ req' = [req EXCEPT ![r] = [NewRequest EXCEPT !.stage = "running",
                                                             !.hist = hist]]
             /\ talk' = [talk EXCEPT !.outage = talk.outage \/ fails]
    BY <1>6 DEF LoadHistory
  <2>. DEFINE found == redisOn /\ ~fails /\ Stored(redis) /\ redis.turns # << >>
              hist == IF found THEN LastTurns(redis.turns) ELSE mem
  <2>3. hist \in Seq(Nat)  BY <2>1, <2>2
  <2>4. [NewRequest EXCEPT !.stage = "running", !.hist = hist] \in Request
    BY <2>3 DEF NewRequest, Request, Stages
  <2>5. talk' \in Talk  BY <2>2 DEF Talk
  <2>. QED  BY <1>6, <2>2, <2>3, <2>4, <2>5 DEF LoadHistory, storeVars
<1>7. ASSUME NEW r \in Requests, TurnAway(r) PROVE FrontTypeOK'
  <2>1. req' \in [Requests -> Request]  BY <1>7, GoesType DEF TurnAway, Stages
  <2>. QED  BY <1>7, <2>1 DEF TurnAway, storeVars, sessionVars
<1>8. ASSUME NEW r \in Requests, EndRun(r) PROVE FrontTypeOK'
  <2>. DEFINE user == talk.said + 1  reply == talk.said + 2
  <2>1. user \in Nat /\ reply \in Nat  BY DEF Talk
  <2>2. PICK fails :
          /\ mem' = LastTurns(Append(LastTurns(Append(mem, user)), reply))
          /\ redis' = IF ~redisOn \/ "connect" \in fails THEN redis
                      ELSE AppendTurn(
                             AppendTurn(EnsureSession(fails), user, "user" \in fails),
                             reply, "reply" \in fails)
          /\ talk' = [talk EXCEPT !.said = reply, !.spoke = now,
                                  !.outage = talk.outage \/ fails # {}]
    BY <1>8 DEF EndRun
  <2>3. req' \in [Requests -> Request]  BY <1>8, GoesType DEF EndRun, Stages
  <2>. HIDE DEF user, reply
  <2>4. mem' \in Seq(Nat)
    <3>1. Append(mem, user) \in Seq(Nat)  BY <2>1
    <3>2. LastTurns(Append(mem, user)) \in Seq(Nat)  BY <3>1, LastTurnsType
    <3>3. Append(LastTurns(Append(mem, user)), reply) \in Seq(Nat)  BY <2>1, <3>2
    <3>. QED  BY <2>2, <3>3, LastTurnsType
  <2>5. redis' \in Entry
    <3>1. AppendTurn(EnsureSession(fails), user, "user" \in fails) \in Entry
      BY <2>1, EnsureSessionType, AppendTurnType
    <3>2. AppendTurn(AppendTurn(EnsureSession(fails), user, "user" \in fails),
                     reply, "reply" \in fails) \in Entry
      BY <2>1, <3>1, AppendTurnType
    <3>. QED  BY <2>2, <3>2
  <2>6. talk' \in Talk  BY <2>1, <2>2 DEF Talk
  <2>. QED  BY <1>8, <2>3, <2>4, <2>5, <2>6 DEF EndRun, storeVars
<1>9. ASSUME NEW r \in Requests, FailRun(r) PROVE FrontTypeOK'
  <2>1. req' \in [Requests -> Request]  BY <1>9, GoesType DEF FailRun, Stages
  <2>. QED  BY <1>9, <2>1 DEF FailRun, storeVars, sessionVars
<1>10. ASSUME NEW s \in NewStores, OpenStore(s) PROVE FrontTypeOK'
  BY <1>10 DEF OpenStore, Known, sessionVars
<1>11. CASE Restart
  <2>1. CacheTTL \in Nat /\ << >> \in Seq(Nat)  BY FrontAssumption
  <2>2. req' \in [Requests -> Request]  BY <1>11, NewRequestType DEF Restart, Stages
  <2>3. fetched' \in BOOLEAN  BY <1>11 DEF Restart
  <2>4. cache' \in [ids : SUBSET Known, at : Int] /\ mem' \in Seq(Nat)
    BY <1>11, <2>1 DEF Restart
  <2>5. UNCHANGED <<now, catalogue, redisOn, redis, talk>>  BY <1>11 DEF Restart
  <2>. QED  BY <2>2, <2>3, <2>4, <2>5
<1>12. CASE Tick
  <2>1. talk' \in Talk  BY <1>12 DEF Tick, Talk
  <2>. QED  BY <1>12, <2>1 DEF Tick, storeVars
<1>. QED
  BY <1>1, <1>2, <1>3, <1>4, <1>5, <1>6, <1>7, <1>8, <1>9, <1>10, <1>11, <1>12 DEF Next

(* Every variable keeps its type.                                          *)
THEOREM FrontTypeCorrect == Spec => []FrontTypeOK
<1>. QED  BY InitType, NextType, PTL DEF Spec

-----------------------------------------------------------------------------
(* Refusals.                                                               *)
LEMMA RefusedIsFull ==
  ASSUME now \in Nat, NEW h \in Seq(Nat), NEW a \in Seq(Nat), Accounts(h, a, now),
         NEW k \in Dropped(h), ~ Admits(SubSeq(h, k + 1, Len(h)))
  PROVE  Cardinality({i \in DOMAIN a : now - a[i] < Window}) >= Budget
<1>. DEFINE q == SubSeq(h, k + 1, Len(h))
            recent == {i \in DOMAIN a : now - a[i] < Window}
            first == Len(a) - Len(q) + 1
<1>0. /\ Len(h) \in Nat /\ Len(a) \in Nat /\ DOMAIN a = 1 .. Len(a)
      /\ Budget \in Nat \ {0} /\ Window \in Nat
  BY LenProperties, FrontAssumption
<1>1. q \in Seq(Nat) /\ Len(q) = Len(h) - k /\ Accounts(q, a, now)
  BY DropAccounts
<1>2. k \in 0 .. Len(h) /\ (k < Len(h) => now - h[k + 1] < Window)  BY DEF Dropped
<1>3. Len(q) >= Budget  BY <1>0, <1>1, <1>2 DEF Admits
<1>4. k < Len(h) /\ q[1] = h[k + 1]
  <2>1. k < Len(h)  BY <1>0, <1>1, <1>2, <1>3
  <2>2. \A i \in k + 1 .. Len(h) : h[i] \in Nat  BY <1>0, <1>2, ElementOfSeq
  <2>3. q[1] = h[k + 1 + 1 - 1]  BY <1>0, <1>2, <2>1, <2>2, SubSeqProperties
  <2>. QED  BY <2>1, <2>3, <1>2
<1>. HIDE DEF q
<1>5. Len(q) <= Len(a) /\ Len(q) \in Nat /\ first \in 1 .. Len(a)
  BY <1>0, <1>1, <1>3, LenProperties DEF Accounts
<1>6. a[first] = q[1]  BY <1>0, <1>1, <1>3, <1>5 DEF Accounts
<1>7. first .. Len(a) \subseteq recent
  <2>. SUFFICES ASSUME NEW j \in first .. Len(a) PROVE j \in recent
    OBVIOUS
  <2>1. j \in 1 .. Len(a) /\ first <= j  BY <1>0, <1>5
  <2>2. a[first] <= a[j]  BY <2>1, <1>1, <1>5 DEF Accounts
  <2>3. a[first] \in Nat /\ a[j] \in Nat  BY <2>1, <1>5, ElementOfSeq
  <2>4. now - a[first] < Window  BY <1>2, <1>4, <1>6
  <2>5. now - a[j] < Window  BY SMTT(30), <2>2, <2>3, <2>4, <1>0
  <2>. QED  BY <2>1, <2>5, <1>0
<1>8. IsFiniteSet(recent)
  <2>1. IsFiniteSet(1 .. Len(a))  BY <1>0, FS_Interval
  <2>2. recent \subseteq 1 .. Len(a)  BY <1>0
  <2>. QED  BY <2>1, <2>2, FS_Subset
<1>9. Cardinality(first .. Len(a)) = Len(q)
  <2>1. first \in Int /\ Len(a) \in Int /\ ~ first > Len(a)  BY <1>0, <1>5
  <2>2. Cardinality(first .. Len(a)) = Len(a) - first + 1  BY <2>1, FS_Interval
  <2>. QED  BY <2>2, <1>0, <1>5
<1>10. Cardinality(first .. Len(a)) <= Cardinality(recent)
  BY <1>7, <1>8, FS_Subset
<1>11. Cardinality(recent) \in Nat  BY <1>8, FS_CardinalityType
<1>. QED  BY <1>0, <1>3, <1>5, <1>9, <1>10, <1>11

(* Whoever is refused had Budget requests admitted in the window.          *)
THEOREM RefusalsAreDeserved == Spec => RefusalsDeserved
<1>. DEFINE Deserved == \A r \in Requests, c \in Clients, s \in Stores :
         Arrive(r, c, s) /\ req'[r].stage = "limited" =>
            Cardinality({i \in DOMAIN admitted[c] : now - admitted[c][i] < Window}) >= Budget
<1>1. LimiterInv /\ FrontTypeOK => Deserved
  <2>. SUFFICES ASSUME LimiterInv, FrontTypeOK,
                       NEW r \in Requests, NEW c \in Clients, NEW s \in Stores,
                       Arrive(r, c, s), req'[r].stage = "limited"
                PROVE  Cardinality({i \in DOMAIN admitted[c] :
                                      now - admitted[c][i] < Window}) >= Budget
    OBVIOUS
  <2>1. now \in Nat /\ hits[c] \in Seq(Nat) /\ admitted[c] \in Seq(Nat)
        /\ Accounts(hits[c], admitted[c], now)
    BY DEF LimiterInv, LimiterTypeOK
  <2>2. PICK k \in Dropped(hits[c]) :
          Admits(SubSeq(hits[c], k + 1, Len(hits[c]))) =>
            req' = [req EXCEPT ![r] = [NewRequest EXCEPT !.stage = "arrived", !.store = s]]
    BY DEF Arrive
  <2>3. DOMAIN req = Requests  BY DEF FrontTypeOK
  <2>4. ~ Admits(SubSeq(hits[c], k + 1, Len(hits[c])))
    BY <2>2, <2>3 DEF NewRequest
  <2>. QED  BY <2>1, <2>4, RefusedIsFull
<1>. QED
  BY <1>1, LimiterInvariant, FrontTypeCorrect, PTL DEF RefusalsDeserved

-----------------------------------------------------------------------------
(* The check of a store.  What is cached or on its way is always a         *)
(* catalogue of some earlier time, or nothing at all.                      *)
Catalogue(ids) == OldStores \subseteq ids /\ ids \subseteq catalogue

StoreInv ==
  /\ FrontTypeOK
  /\ Catalogue(catalogue)
  /\ cache.ids = {} \/ Catalogue(cache.ids)
  /\ fetched => cache.ids # {}
  /\ \A r \in Requests : req[r].stage = "fetching" => Catalogue(req[r].ids)

LEMMA InitStoreInv == Init => StoreInv
BY InitType DEF Init, StoreInv, Catalogue, NewRequest

LEMMA FetchedIsCatalogue ==
  ASSUME StoreInv, NEW r \in Requests, req[r].stage = "fetching", NEW fetch \in Fetches(r)
  PROVE  /\ fetch.ids = {} \/ Catalogue(fetch.ids)
         /\ fetch.ok => fetch.ids # {}
<1>1. /\ Catalogue(req[r].ids) /\ Catalogue(catalogue) /\ OldStores # {}
      /\ cache.ids = {} \/ Catalogue(cache.ids)
  BY FrontAssumption DEF StoreInv
<1>2. req[r].ids # {} /\ catalogue # {}  BY <1>1 DEF Catalogue
<1>3. CASE fetch = [ids |-> req[r].ids, ok |-> TRUE]  BY <1>1, <1>2, <1>3
<1>4. CASE fetch = [ids |-> catalogue, ok |-> TRUE]  BY <1>1, <1>2, <1>4
<1>5. CASE fetch = [ids |-> cache.ids, ok |-> FALSE]  BY <1>1, <1>5
<1>6. CASE fetch = [ids |-> cache.ids, ok |-> cache.ids # {}]  BY <1>1, <1>6
<1>. QED  BY <1>3, <1>4, <1>5, <1>6 DEF Fetches

LEMMA DecideEffect ==
  ASSUME FrontTypeOK, NEW r \in Requests, NEW ids, NEW ok \in BOOLEAN, Decide(r, ids, ok)
  PROVE  /\ \A x \in Requests \ {r} : req'[x] = req[x]
         /\ req'[r].stage \in {"admitted", "unknown"}
         /\ req'[r].stage = "admitted" <=> (~ok \/ req[r].store \in ids)
         /\ req'[r].stage = "admitted" => req'[r].blind = ~ok
<1>1. req \in [Requests -> Request] /\ req[r] \in Request  BY DEF FrontTypeOK
<1>2. CASE StoreAllowed(req[r].store, ids, ok)
  BY <1>1, <1>2 DEF Decide, StoreAllowed, Request
<1>3. CASE ~ StoreAllowed(req[r].store, ids, ok)
  BY <1>1, <1>3 DEF Decide, StoreAllowed, Request
<1>. QED  BY <1>2, <1>3

LEMMA StoreStep ==
  StoreInv /\ [Next]_vars =>
    /\ StoreInv'
    /\ \A r \in Requests : req[r].stage \in {"arrived", "fetching"} /\ fetched' =>
         /\ ~(req'[r].stage = "unknown" /\ req[r].store \in OldStores)
         /\ req'[r].stage = "admitted" /\ req[r].store \notin catalogue => req'[r].blind
<1>. DEFINE Verdict(x) == req[x].stage \in {"arrived", "fetching"} /\ fetched' =>
         /\ ~(req'[x].stage = "unknown" /\ req[x].store \in OldStores)
         /\ req'[x].stage = "admitted" /\ req[x].store \notin catalogue => req'[x].blind
            Fetching(x) == req'[x].stage = "fetching" => Catalogue(req'[x].ids)
<1>. SUFFICES ASSUME StoreInv, [Next]_vars
              PROVE  StoreInv' /\ \A x \in Requests : Verdict(x)
  OBVIOUS
<1>. USE DEF StoreInv
<1>0. FrontTypeOK'  BY NextType
<1>1. req \in [Requests -> Request]  BY DEF FrontTypeOK
\* Most steps leave the catalogues alone and put no request into a verdict.
<1>2. ASSUME UNCHANGED storeVars,
             \A x \in Requests : \/ req'[x] = req[x]
                                 \/ req'[x].stage \notin {"fetching", "admitted", "unknown"}
      PROVE  StoreInv' /\ \A x \in Requests : Verdict(x)
  BY <1>0, <1>2 DEF storeVars, Catalogue
<1>3. ASSUME NEW r \in Requests, NEW stage \in {"limited", "answered"}, Goes(r, stage)
      PROVE  \A x \in Requests : req'[x] = req[x] \/ req'[x].stage = stage
  BY <1>1, <1>3 DEF Goes, NewRequest
<1>4. CASE UNCHANGED vars  BY <1>2, <1>4 DEF vars
<1>5. ASSUME NEW r \in Requests, NEW c \in Clients, NEW s \in Stores, Arrive(r, c, s)
      PROVE  StoreInv' /\ \A x \in Requests : Verdict(x)
  <2>1. \/ req' = [req EXCEPT ![r] = [NewRequest EXCEPT !.stage = "arrived", !.store = s]]
        \/ Goes(r, "limited")
    BY <1>5 DEF Arrive
  <2>2. \A x \in Requests : \/ req'[x] = req[x]
                            \/ req'[x].stage \notin {"fetching", "admitted", "unknown"}
    BY <2>1, <1>1, <1>3 DEF NewRequest
  <2>. QED  BY <1>2, <1>5, <2>2 DEF Arrive
<1>6. ASSUME NEW r \in Requests, CheckCached(r)
      PROVE  StoreInv' /\ \A x \in Requests : Verdict(x)
  <2>1. Decide(r, cache.ids, TRUE) /\ UNCHANGED storeVars  BY <1>6 DEF CheckCached
  <2>2. /\ \A x \in Requests \ {r} : req'[x] = req[x]
        /\ req'[r].stage \in {"admitted", "unknown"}
        /\ req'[r].stage = "admitted" <=> req[r].store \in cache.ids
    BY <2>1, DecideEffect
  <2>3. Verdict(r)
    BY <2>1, <2>2 DEF storeVars, Catalogue
  <2>4. \A x \in Requests \ {r} : Verdict(x)  BY <2>2
  <2>. QED  BY <1>0, <2>1, <2>2, <2>3, <2>4 DEF storeVars, Catalogue
<1>7. ASSUME NEW r \in Requests, AskCatalogue(r)
      PROVE  StoreInv' /\ \A x \in Requests : Verdict(x)
  <2>1. /\ req' = [req EXCEPT ![r].stage = "fetching", ![r].asked = now, ![r].ids = catalogue]
        /\ UNCHANGED storeVars
    BY <1>7 DEF AskCatalogue
  <2>2. /\ \A x \in Requests \ {r} : req'[x] = req[x]
        /\ req'[r].stage = "fetching" /\ req'[r].ids = catalogue
    BY <1>1, <2>1 DEF Request
  <2>3. \A x \in Requests : Verdict(x)  BY <2>2
  <2>. QED  BY <1>0, <2>1, <2>2, <2>3 DEF storeVars, Catalogue
<1>8. ASSUME NEW r \in Requests, EndFetch(r)
      PROVE  StoreInv' /\ \A x \in Requests : Verdict(x)
  <2>1. PICK fetch \in Fetches(r) :
          /\ cache' = [ids |-> CacheAfter(fetch), at |-> req[r].asked]
          /\ Decide(r, cache'.ids, fetch.ok)
          /\ fetched' = (fetched \/ fetch.ok)
    BY <1>8 DEF EndFetch
  <2>2. catalogue' = catalogue /\ req[r].stage = "fetching"  BY <1>8 DEF EndFetch
  <2>3. /\ fetch.ids = {} \/ Catalogue(fetch.ids)
        /\ fetch.ok => fetch.ids # {}
        /\ fetch.ok \in BOOLEAN
    <3>1. fetch.ok \in BOOLEAN  BY FetchType
    <3>. QED  BY <2>2, <3>1, FetchedIsCatalogue
  <2>4. cache'.ids = IF fetch.ids = {} THEN cache.ids ELSE fetch.ids
    BY <2>1 DEF CacheAfter
  <2>5. /\ cache'.ids = {} \/ Catalogue(cache'.ids)
        /\ fetched' => cache'.ids # {}
    BY <2>1, <2>3, <2>4
  <2>6. /\ \A x \in Requests \ {r} : req'[x] = req[x]
        /\ req'[r].stage \in {"admitted", "unknown"}
        /\ req'[r].stage = "admitted" <=> (~fetch.ok \/ req[r].store \in cache'.ids)
        /\ req'[r].stage = "admitted" => req'[r].blind = ~fetch.ok
    BY <2>1, <2>3, DecideEffect
  <2>7. Verdict(r)
    <3>1. CASE fetch.ok
      BY <3>1, <2>3, <2>4, <2>5, <2>6 DEF Catalogue
    <3>2. CASE ~ fetch.ok
      BY <3>2, <2>6
    <3>. QED  BY <3>1, <3>2
  <2>8. \A x \in Requests \ {r} : Verdict(x)  BY <2>6
  <2>. QED  BY <1>0, <2>2, <2>5, <2>6, <2>7, <2>8 DEF Catalogue
<1>9. ASSUME NEW r \in Requests, LoadHistory(r)
      PROVE  StoreInv' /\ \A x \in Requests : Verdict(x)
  <2>1. PICK hist :
          req' = [req EXCEPT ![r] = [NewRequest EXCEPT !.stage = "running", !.hist = hist]]
    BY <1>9 DEF LoadHistory
  <2>2. \A x \in Requests : req'[x] = req[x] \/ req'[x].stage = "running"
    BY <1>1, <2>1 DEF NewRequest
  <2>. QED  BY <1>2, <1>9, <2>2 DEF LoadHistory
<1>10. ASSUME NEW r \in Requests, TurnAway(r) \/ EndRun(r) \/ FailRun(r)
       PROVE  StoreInv' /\ \A x \in Requests : Verdict(x)
  <2>1. Goes(r, "answered") /\ UNCHANGED storeVars
    BY <1>10 DEF TurnAway, EndRun, FailRun
  <2>2. \A x \in Requests : req'[x] = req[x] \/ req'[x].stage = "answered"
    BY <2>1, <1>3
  <2>. QED  BY <1>2, <2>1, <2>2
<1>11. ASSUME NEW s \in NewStores, OpenStore(s)
       PROVE  StoreInv' /\ \A x \in Requests : Verdict(x)
  BY <1>0, <1>11 DEF OpenStore, Catalogue
<1>12. CASE Restart
  <2>1. /\ cache'.ids = {} /\ catalogue' = catalogue /\ fetched' = FALSE
        /\ \A x \in Requests : \/ req'[x] = req[x]
                               \/ req'[x].stage = "over"
    BY <1>12 DEF Restart, NewRequest
  <2>. QED  BY <1>0, <2>1 DEF Catalogue
<1>13. CASE Tick  BY <1>2, <1>13 DEF Tick
<1>. QED
  BY <1>4, <1>5, <1>6, <1>7, <1>8, <1>9, <1>10, <1>11, <1>12, <1>13 DEF Next

(* Once the catalogue has been fetched, a store that was always there is   *)
(* not refused and one that does not exist is admitted only by a request   *)
(* whose own fetch failed, for every catalogue and every overlap of        *)
(* fetches: what is cached is never empty again before a restart.          *)
THEOREM VerdictsHoldOnceFetched == Spec => VerdictsOnceFetched
<1>. QED  BY InitStoreInv, StoreStep, PTL DEF Spec, VerdictsOnceFetched

-----------------------------------------------------------------------------
(* The session.  What memory and Redis hold are turns said so far, in the  *)
(* order they were said.  While no call to Redis has failed they are the   *)
(* latest ones, and while the session has not lapsed the entry in Redis    *)
(* has all that are kept.                                                  *)
Turns(s, n) ==
  /\ s \in Seq(Nat)
  /\ Len(s) <= Keep
  /\ \A i \in 1 .. Len(s) : s[i] \in 1 .. n
  /\ \A i \in 1 .. (Len(s) - 1) : s[i] < s[i + 1]

Latest(s, n) == \A i \in 1 .. Len(s) : s[i] = n - Len(s) + i

Full(n) == IF n < Keep THEN n ELSE Keep

TalkInv ==
  /\ FrontTypeOK
  /\ Turns(mem, talk.said)
  /\ Turns(redis.turns, talk.said)
  /\ ~talk.outage => Latest(mem, talk.said)
  /\ redisOn /\ ~talk.outage => Latest(redis.turns, talk.said)
  /\ redisOn /\ ~talk.outage /\ ~talk.lapsed /\ talk.said > 0 =>
       /\ now < talk.spoke + SessionTTL
       /\ redis.until = talk.spoke + SessionTTL
       /\ Len(redis.turns) = Full(talk.said)

LEMMA NoTurns ==
  ASSUME NEW n \in Nat
  PROVE  Turns(<< >>, n) /\ Latest(<< >>, n) /\ Len(<< >>) = 0
<1>1. << >> \in Seq(Nat) /\ Len(<< >>) = 0 /\ Keep \in Nat  BY EmptySeq, FrontAssumption
<1>. QED  BY <1>1 DEF Turns, Latest

LEMMA NothingSaid ==
  ASSUME NEW s, Turns(s, 0)
  PROVE  Len(s) = Full(0)
<1>1. s \in Seq(Nat) /\ \A i \in 1 .. Len(s) : s[i] \in 1 .. 0  BY DEF Turns
<1>2. Len(s) \in Nat  BY <1>1, LenProperties
<1>3. Len(s) = 0  BY <1>1, <1>2
<1>4. Full(0) = 0  BY FrontAssumption DEF Full
<1>. QED  BY <1>3, <1>4

LEMMA TurnsLater ==
  ASSUME NEW n \in Nat, NEW m \in Nat, n <= m, NEW s, Turns(s, n)
  PROVE  Turns(s, m)
BY DEF Turns

LEMMA TurnSaid ==
  ASSUME NEW n \in Nat, NEW s, Turns(s, n)
  PROVE  LET t == LastTurns(Append(s, n + 1))
         IN /\ Turns(t, n + 1)
            /\ Latest(s, n) => Latest(t, n + 1)
            /\ Len(s) = Full(n) => Len(t) = Full(n + 1)
<1>. DEFINE a == Append(s, n + 1)  t == LastTurns(a)
<1>1. s \in Seq(Nat) /\ Len(s) \in Nat /\ Keep \in Nat \ {0} /\ Len(s) <= Keep
  BY FrontAssumption, LenProperties DEF Turns
<1>2. a \in Seq(Nat) /\ Len(a) = Len(s) + 1
      /\ a[Len(s) + 1] = n + 1 /\ \A i \in 1 .. Len(s) : a[i] = s[i]
  BY <1>1, AppendProperties
<1>3. \A i \in 1 .. Len(a) : a[i] \in 1 .. n + 1
  BY <1>1, <1>2 DEF Turns
<1>4. \A i \in 1 .. (Len(a) - 1) : a[i] < a[i + 1]
  <2>. SUFFICES ASSUME NEW i \in 1 .. Len(s) PROVE a[i] < a[i + 1]
    BY SMTT(30), <1>1, <1>2
  <2>1. s[i] \in 1 .. n  BY DEF Turns
  <2>2. CASE i = Len(s)  BY <1>1, <1>2, <2>1, <2>2
  <2>3. CASE i < Len(s)  BY <1>1, <1>2, <2>3 DEF Turns
  <2>. QED  BY <1>1, <2>2, <2>3
<1>5. Latest(s, n) => Latest(a, n + 1)
  BY <1>1, <1>2 DEF Latest
<1>. HIDE DEF a
<1>6. CASE Len(s) < Keep
  <2>1. t = a  BY <1>1, <1>2, <1>6 DEF LastTurns
  <2>2. Turns(t, n + 1)  BY <2>1, <1>1, <1>2, <1>3, <1>4, <1>6 DEF Turns
  <2>3. Latest(s, n) => Latest(t, n + 1)  BY <2>1, <1>5
  <2>4. Len(s) = Full(n) => Len(t) = Full(n + 1)
    BY <2>1, <1>1, <1>2, <1>6 DEF Full
  <2>. QED  BY <2>2, <2>3, <2>4 DEF a
<1>7. CASE Len(s) = Keep
  <2>1. t = SubSeq(a, 2, Len(a))
    BY <1>1, <1>2, <1>7 DEF LastTurns
  <2>2. \A i \in 2 .. Len(a) : a[i] \in Nat  BY <1>1, <1>2, ElementOfSeq
  <2>3. /\ t \in Seq(Nat) /\ Len(t) = Keep
        /\ \A i \in 1 .. Keep : t[i] = a[i + 1]
    <3>1. /\ t \in Seq(Nat)
          /\ Len(t) = IF 2 <= Len(a) THEN Len(a) - 2 + 1 ELSE 0
          /\ \A i \in 1 .. Len(a) - 2 + 1 : t[i] = a[2 + i - 1]
      BY <1>1, <1>2, <2>1, <2>2, SubSeqProperties
    <3>. QED  BY <3>1, <1>1, <1>2, <1>7
  <2>. HIDE DEF t
  <2>4. Turns(t, n + 1)
    <3>1. \A i \in 1 .. Keep : t[i] \in 1 .. n + 1  BY <1>1, <1>2, <1>3, <1>7, <2>3
    <3>2. \A i \in 1 .. (Keep - 1) : t[i] < t[i + 1]
      <4>. SUFFICES ASSUME NEW i \in 1 .. (Keep - 1) PROVE t[i] < t[i + 1]
        OBVIOUS
      <4>1. t[i] = a[i + 1] /\ t[i + 1] = a[i + 1 + 1]  BY SMTT(30), <1>1, <2>3
      <4>2. i + 1 \in 1 .. (Len(a) - 1)  BY <1>1, <1>2, <1>7
      <4>3. a[i + 1] < a[i + 1 + 1]  BY <4>2, <1>4
      <4>. QED  BY <4>1, <4>3
    <3>. QED  BY <2>3, <3>1, <3>2, <1>1 DEF Turns
  <2>5. Latest(s, n) => Latest(t, n + 1)
    <3>. SUFFICES ASSUME Latest(s, n), NEW i \in 1 .. Keep
                  PROVE  t[i] = n + 1 - Keep + i
      BY <2>3 DEF Latest
    <3>1. i + 1 \in 1 .. Len(a)  BY <1>1, <1>2, <1>7
    <3>2. a[i + 1] = n + 1 - Len(a) + (i + 1)  BY <3>1, <1>5 DEF Latest
    <3>. QED  BY <3>2, <2>3, <1>1, <1>2, <1>7
  <2>6. Len(s) = Full(n) => Len(t) = Full(n + 1)
    BY <1>1, <1>7, <2>3 DEF Full
  <2>. QED  BY <2>4, <2>5, <2>6 DEF t, a
<1>. QED  BY <1>1, <1>6, <1>7

LEMMA InitTalkInv == Init => TalkInv
<1>. SUFFICES ASSUME Init PROVE TalkInv
  OBVIOUS
<1>1. FrontTypeOK  BY InitType
<1>2. talk.said = 0 /\ mem = << >> /\ redis.turns = << >>  BY DEF Init, NoEntry
<1>. QED  BY <1>1, <1>2, NoTurns DEF TalkInv

LEMMA EndRunTalkInv ==
  ASSUME TalkInv, NEW r \in Requests, EndRun(r)
  PROVE  TalkInv'
<1>. DEFINE said == talk.said
<1>. USE DEF TalkInv
<1>0. /\ FrontTypeOK' /\ said \in Nat /\ now \in Nat /\ talk \in Talk /\ redis \in Entry
      /\ SessionTTL \in Nat \ {0}
  <2>1. FrontTypeOK'
    <3>1. [Next]_vars  BY DEF Next
    <3>. QED  BY <3>1, NextType
  <2>. QED  BY <2>1, FrontAssumption DEF FrontTypeOK, Talk
<1>1. PICK fails :
        /\ mem' = LastTurns(Append(LastTurns(Append(mem, said + 1)), said + 2))
        /\ redis' = IF ~redisOn \/ "connect" \in fails THEN redis
                    ELSE AppendTurn(
                           AppendTurn(EnsureSession(fails), said + 1, "user" \in fails),
                           said + 2, "reply" \in fails)
        /\ talk' = [talk EXCEPT !.said = said + 2, !.spoke = now,
                                !.outage = talk.outage \/ fails # {}]
  BY DEF EndRun
<1>2. now' = now /\ redisOn' = redisOn  BY DEF EndRun
<1>3. /\ talk'.said = said + 2 /\ talk'.spoke = now /\ talk'.lapsed = talk.lapsed
      /\ talk'.outage <=> (talk.outage \/ fails # {})
  BY <1>0, <1>1 DEF Talk
<1>. HIDE DEF said
\* What a turn does to a sequence, twice.
<1>4. ASSUME NEW s, Turns(s, said)
      PROVE  LET t == LastTurns(Append(LastTurns(Append(s, said + 1)), said + 2))
             IN /\ Turns(t, said + 2)
                /\ Latest(s, said) => Latest(t, said + 2)
                /\ Len(s) = Full(said) => Len(t) = Full(said + 2)
  <2>. DEFINE u == LastTurns(Append(s, said + 1))
  <2>1. /\ Turns(u, said + 1)
        /\ Latest(s, said) => Latest(u, said + 1)
        /\ Len(s) = Full(said) => Len(u) = Full(said + 1)
    BY <1>0, <1>4, TurnSaid
  <2>. HIDE DEF u
  <2>2. said + 1 \in Nat /\ said + 1 + 1 = said + 2  BY <1>0
  <2>3. /\ Turns(LastTurns(Append(u, said + 1 + 1)), said + 1 + 1)
        /\ Latest(u, said + 1) => Latest(LastTurns(Append(u, said + 1 + 1)), said + 1 + 1)
        /\ Len(u) = Full(said + 1) =>
             Len(LastTurns(Append(u, said + 1 + 1))) = Full(said + 1 + 1)
    BY <2>1, <2>2, TurnSaid
  <2>. QED  BY <2>1, <2>2, <2>3 DEF u
<1>5. Turns(mem', said + 2) /\ (Latest(mem, said) => Latest(mem', said + 2))
  <2>1. Turns(mem, said)  BY DEF said
  <2>. QED  BY <1>1, <1>4, <2>1
<1>. DEFINE e0 == EnsureSession(fails)
            e1 == AppendTurn(e0, said + 1, "user" \in fails)
            e2 == AppendTurn(e1, said + 2, "reply" \in fails)
<1>6. Turns(redis.turns, said)  BY DEF said
<1>7. Turns(redis'.turns, said + 2)
  <2>1. Turns(e0.turns, said)
    BY <1>0, <1>6, NoTurns DEF EnsureSession
  <2>2. Turns(e1.turns, said + 1)
    <3>1. CASE e1 = e0  BY <1>0, <2>1, <3>1, TurnsLater
    <3>2. CASE e1 = [turns |-> LastTurns(Append(e0.turns, said + 1)), until |-> now + SessionTTL]
      BY <1>0, <2>1, <3>2, TurnSaid
    <3>. QED  BY <3>1, <3>2 DEF AppendTurn
  <2>3. Turns(e2.turns, said + 2)
    <3>1. CASE e2 = e1  BY <1>0, <2>2, <3>1, TurnsLater
    <3>2. CASE e2 = [turns |-> LastTurns(Append(e1.turns, said + 2)), until |-> now + SessionTTL]
      <4>1. said + 1 \in Nat /\ said + 1 + 1 = said + 2  BY <1>0
      <4>2. Turns(LastTurns(Append(e1.turns, said + 1 + 1)), said + 1 + 1)
        BY <4>1, <2>2, TurnSaid
      <4>. QED  BY <4>1, <4>2, <3>2
    <3>. QED  BY <3>1, <3>2 DEF AppendTurn
  <2>4. Turns(redis.turns, said + 2)  BY <1>0, <1>6, TurnsLater
  <2>. QED  BY <1>1, <2>3, <2>4
\* Without a failed call both turns are appended to what is there.
<1>8. ASSUME redisOn, ~talk'.outage
      PROVE  /\ Latest(redis'.turns, said + 2)
             /\ ~talk.lapsed =>
                  redis'.until = now + SessionTTL /\ Len(redis'.turns) = Full(said + 2)
  <2>1. ~talk.outage /\ fails = {}  BY <1>3, <1>8
  <2>2. redis' = e2  BY <1>1, <1>8, <2>1
  <2>3. e0 = IF Stored(redis) THEN redis ELSE [turns |-> << >>, until |-> now + SessionTTL]
    BY <2>1 DEF EnsureSession
  <2>4. Stored(e0)  BY <2>3, <1>0 DEF Stored
  <2>5. e1 = [turns |-> LastTurns(Append(e0.turns, said + 1)), until |-> now + SessionTTL]
    BY <2>1, <2>4 DEF AppendTurn
  <2>6. Stored(e1)  BY <2>5, <1>0 DEF Stored
  <2>7. e2 = [turns |-> LastTurns(Append(e1.turns, said + 2)), until |-> now + SessionTTL]
    BY <2>1, <2>6 DEF AppendTurn
  <2>8. /\ redis'.turns = LastTurns(Append(LastTurns(Append(e0.turns, said + 1)), said + 2))
        /\ redis'.until = now + SessionTTL
    BY <2>2, <2>5, <2>7
  <2>9. Turns(e0.turns, said) /\ Latest(e0.turns, said)
    <3>1. Latest(redis.turns, said)  BY <1>8, <2>1 DEF said
    <3>. QED  BY <2>3, <3>1, <1>0, <1>6, NoTurns
  <2>10. ~talk.lapsed => Len(e0.turns) = Full(said)
    <3>1. CASE said = 0  BY <2>9, <3>1, NothingSaid
    <3>2. CASE said > 0
      <4>. SUFFICES ASSUME ~talk.lapsed PROVE Len(e0.turns) = Full(said)
        OBVIOUS
      <4>1. /\ now < talk.spoke + SessionTTL /\ redis.until = talk.spoke + SessionTTL
            /\ Len(redis.turns) = Full(said)
        BY <1>8, <2>1, <3>2 DEF said
      <4>2. Stored(redis)  BY <4>1 DEF Stored
      <4>. QED  BY <2>3, <4>1, <4>2
    <3>. QED  BY <3>1, <3>2, <1>0
  <2>. HIDE DEF e0, e1, e2
  <2>. QED  BY <2>8, <2>9, <2>10, <1>4
<1>9. ~talk'.outage => Latest(mem', said + 2)
  BY <1>3, <1>5 DEF said
<1>10. now < now + SessionTTL  BY <1>0
<1>. HIDE DEF e0, e1, e2
<1>. QED  BY <1>0, <1>2, <1>3, <1>5, <1>7, <1>8, <1>9, <1>10

LEMMA TalkStep ==
  TalkInv /\ [Next]_vars =>
    /\ TalkInv'
    /\ \A r \in Requests :
         req[r].stage = "admitted" /\ req'[r].stage = "running" =>
           LET h == req'[r].hist
               n == Len(h)
           IN /\ \A i \in 1..(n - 1) : h[i] < h[i + 1]
              /\ n <= Keep
              /\ ~talk'.outage =>
                    \A i \in 1..n : h[i] = talk.said - n + i
              /\ redisOn /\ ~talk'.outage /\ ~talk.lapsed =>
                    n = IF talk.said < Keep THEN talk.said ELSE Keep
<1>. DEFINE Told(x) == req[x].stage = "admitted" /\ req'[x].stage = "running" =>
           LET h == req'[x].hist
               n == Len(h)
           IN /\ \A i \in 1..(n - 1) : h[i] < h[i + 1]
              /\ n <= Keep
              /\ ~talk'.outage =>
                    \A i \in 1..n : h[i] = talk.said - n + i
              /\ redisOn /\ ~talk'.outage /\ ~talk.lapsed =>
                    n = IF talk.said < Keep THEN talk.said ELSE Keep
<1>. SUFFICES ASSUME TalkInv, [Next]_vars
              PROVE  TalkInv' /\ \A x \in Requests : Told(x)
  OBVIOUS
<1>. USE DEF TalkInv
<1>0. FrontTypeOK'  BY NextType
<1>1. req \in [Requests -> Request]  BY DEF FrontTypeOK
\* Most steps leave the session alone and begin no run.
<1>2. ASSUME UNCHANGED <<now, sessionVars>>,
             \A x \in Requests : req'[x] = req[x] \/ req'[x].stage # "running"
      PROVE  TalkInv' /\ \A x \in Requests : Told(x)
  <2>1. TalkInv'  BY <1>0, <1>2 DEF sessionVars
  <2>. QED  BY <1>2, <2>1
<1>3. CASE UNCHANGED vars  BY <1>2, <1>3 DEF vars
<1>4. ASSUME NEW r \in Requests,
             \/ \E c \in Clients, s \in Stores : Arrive(r, c, s)
             \/ CheckCached(r) \/ AskCatalogue(r) \/ EndFetch(r) \/ TurnAway(r) \/ FailRun(r)
      PROVE  TalkInv' /\ \A x \in Requests : Told(x)
  <2>1. UNCHANGED <<now, sessionVars>>
    BY <1>4 DEF Arrive, CheckCached, AskCatalogue, EndFetch, TurnAway, FailRun
  <2>2. \A x \in Requests : req'[x] = req[x] \/ req'[x].stage # "running"
    <3>1. \A x \in Requests \ {r} : req'[x] = req[x]
      BY <1>1, <1>4 DEF Arrive, CheckCached, AskCatalogue, EndFetch, TurnAway, FailRun,
                        Goes, Decide
    <3>2. req'[r].stage # "running"
      <4>1. ASSUME NEW c \in Clients, NEW s \in Stores, Arrive(r, c, s)
            PROVE  req'[r].stage # "running"
        BY <1>1, <4>1 DEF Arrive, Goes, NewRequest
      <4>2. CASE CheckCached(r)
        <5>1. req'[r].stage \in {"admitted", "unknown"}
          BY <4>2, DecideEffect DEF CheckCached
        <5>. QED  BY <5>1
      <4>3. CASE AskCatalogue(r)  BY <1>1, <4>3 DEF AskCatalogue, Request
      <4>4. CASE EndFetch(r)
        <5>1. PICK fetch \in Fetches(r) : Decide(r, cache'.ids, fetch.ok)
          BY <4>4 DEF EndFetch
        <5>2. fetch.ok \in BOOLEAN  BY FetchType
        <5>3. req'[r].stage \in {"admitted", "unknown"}
          BY <5>1, <5>2, DecideEffect
        <5>. QED  BY <5>3
      <4>5. CASE TurnAway(r) \/ FailRun(r)
        BY <1>1, <4>5 DEF TurnAway, FailRun, Goes, NewRequest
      <4>. QED  BY <1>4, <4>1, <4>2, <4>3, <4>4, <4>5
    <3>. QED  BY <3>1, <3>2
  <2>. QED  BY <1>2, <2>1, <2>2
<1>5. ASSUME NEW r \in Requests, LoadHistory(r)
      PROVE  TalkInv' /\ \A x \in Requests : Told(x)
  <2>1. PICK fails \in BOOLEAN :
          LET found == redisOn /\ ~fails /\ Stored(redis) /\ redis.turns # << >>
              hist == IF found THEN LastTurns(redis.turns) ELSE mem
          IN /\ mem' = hist
             /\ req' = [req EXCEPT ![r] = [NewRequest EXCEPT !.stage = "running",
                                                             !.hist = hist]]
             /\ talk' = [talk EXCEPT !.outage = talk.outage \/ fails]
    BY <1>5 DEF LoadHistory
  <2>. DEFINE found == redisOn /\ ~fails /\ Stored(redis) /\ redis.turns # << >>
              hist == IF found THEN LastTurns(redis.turns) ELSE mem
              said == talk.said
  <2>2. UNCHANGED <<now, redisOn, redis>>  BY <1>5 DEF LoadHistory
  <2>3. talk \in Talk /\ said \in Nat  BY DEF FrontTypeOK, Talk
  <2>4. /\ talk'.said = said /\ talk'.spoke = talk.spoke /\ talk'.lapsed = talk.lapsed
        /\ talk'.outage <=> (talk.outage \/ fails)
    BY <2>1, <2>3 DEF Talk
  <2>5. LastTurns(redis.turns) = redis.turns  BY DEF LastTurns, Turns
  <2>6. hist = IF found THEN redis.turns ELSE mem  BY <2>5
  <2>7. Turns(hist, said) /\ (~talk'.outage => Latest(hist, said))
    BY <2>4, <2>6
  <2>8. ASSUME redisOn, ~talk'.outage, ~talk.lapsed
        PROVE  Len(hist) = Full(said)
    <3>1. ~talk.outage /\ ~fails  BY <2>4, <2>8
    <3>2. CASE said = 0  BY <2>7, <3>2, NothingSaid
    <3>3. CASE said > 0
      <4>1. Stored(redis) /\ Len(redis.turns) = Full(said)
        BY <2>8, <3>1, <3>3 DEF Stored
      <4>2. Full(said) > 0  BY <3>3, <2>3, FrontAssumption DEF Full
      <4>3. redis.turns # << >>
        <5>1. Len(<< >>) = 0  BY EmptySeq
        <5>. QED  BY <4>1, <4>2, <5>1
      <4>. QED  BY <2>6, <2>8, <3>1, <4>1, <4>3
    <3>. QED  BY <2>3, <3>2, <3>3
  <2>9. mem' = hist /\ req' = [req EXCEPT ![r] = [NewRequest EXCEPT !.stage = "running",
                                                                    !.hist = hist]]
    BY <2>1
  <2>. HIDE DEF hist, found, said
  <2>10. TalkInv'
    BY <1>0, <2>2, <2>4, <2>7, <2>9 DEF said
  <2>11. \A x \in Requests \ {r} : Told(x)  BY <1>1, <2>9
  <2>12. Told(r)
    <3>1. req'[r].hist = hist  BY <1>1, <2>9 DEF NewRequest
    <3>2. /\ \A i \in 1 .. (Len(hist) - 1) : hist[i] < hist[i + 1]
          /\ Len(hist) <= Keep
          /\ ~talk'.outage => \A i \in 1 .. Len(hist) : hist[i] = said - Len(hist) + i
      BY <2>7 DEF Turns, Latest
    <3>3. redisOn /\ ~talk'.outage /\ ~talk.lapsed =>
            Len(hist) = IF said < Keep THEN said ELSE Keep
      BY <2>8 DEF Full
    <3>. QED  BY <3>1, <3>2, <3>3 DEF said
  <2>. QED  BY <2>10, <2>11, <2>12
<1>6. ASSUME NEW r \in Requests, EndRun(r)
      PROVE  TalkInv' /\ \A x \in Requests : Told(x)
  <2>1. TalkInv'  BY <1>6, EndRunTalkInv
  <2>2. \A x \in Requests : req'[x] = req[x] \/ req'[x].stage = "answered"
    BY <1>1, <1>6 DEF EndRun, Goes, NewRequest
  <2>3. \A x \in Requests : ~ (req[x].stage = "admitted" /\ req'[x].stage = "running")
    BY <2>2
  <2>. QED  BY <2>1, <2>3
<1>7. ASSUME NEW s \in NewStores, OpenStore(s)
      PROVE  TalkInv' /\ \A x \in Requests : Told(x)
  BY <1>2, <1>7 DEF OpenStore
<1>8. CASE Restart
  <2>1. \A x \in Requests : req'[x] = req[x] \/ req'[x].stage = "over"
    BY <1>8 DEF Restart, NewRequest
  <2>2. mem' = << >> /\ UNCHANGED <<now, redisOn, redis, talk>>  BY <1>8 DEF Restart
  <2>3. talk.said \in Nat  BY DEF FrontTypeOK, Talk
  <2>4. TalkInv'  BY <1>0, <2>2, <2>3, NoTurns
  <2>. QED  BY <2>1, <2>4
<1>9. CASE Tick
  <2>1. /\ UNCHANGED <<req, mem, redisOn, redis>> /\ now' = now + 1
        /\ talk' = [talk EXCEPT !.lapsed = \/ talk.lapsed
                                           \/ talk.said > 0 /\ now + 1 >= talk.spoke + SessionTTL]
    BY <1>9 DEF Tick
  <2>2. talk \in Talk /\ now \in Nat /\ SessionTTL \in Nat
    BY FrontAssumption DEF FrontTypeOK
  <2>3. /\ talk'.said = talk.said /\ talk'.spoke = talk.spoke /\ talk'.outage = talk.outage
        /\ talk'.lapsed <=> \/ talk.lapsed
                            \/ talk.said > 0 /\ now + 1 >= talk.spoke + SessionTTL
    BY <2>1, <2>2 DEF Talk
  <2>4. talk.spoke \in Nat  BY <2>2 DEF Talk
  <2>5. TalkInv'  BY <1>0, <2>1, <2>2, <2>3, <2>4
  <2>. QED  BY <2>1, <2>5
<1>. QED
  BY <1>3, <1>4, <1>5, <1>6, <1>7, <1>8, <1>9 DEF Next

(* The model is told the latest turns of its session in the order they     *)
(* were said, and all that are kept while the session lives.               *)
THEOREM HistoryIsTheTalk == Spec => HistoryFollowsTalk
<1>. QED  BY InitTalkInv, TalkStep, PTL DEF Spec, HistoryFollowsTalk
=============================================================================
