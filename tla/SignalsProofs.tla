--------------------------- MODULE SignalsProofs ---------------------------
(***************************************************************************)
(* Proofs about Signals: that a discount meets a quiet kitchen, where the  *)
(* two ways of picking a churn segment may part, that a brief is never     *)
(* blank, that a discount spares the best sellers, that a roster is fair,  *)
(* that the backend's series accounts for every order and that a forecast  *)
(* stays within its series, for every number of orders, every length of    *)
(* the history and every value of the thresholds and the weights.          *)
(***************************************************************************)
EXTENDS Signals, NaturalSets, SequenceTheorems

-----------------------------------------------------------------------------
(* Sets of orders.                                                         *)
LEMMA OrdersFinite ==
  ASSUME NEW os, NEW n \in Nat, DOMAIN os = 1 .. n, NEW S, S \subseteq DOMAIN os
  PROVE  /\ IsFiniteSet(S)
         /\ Cardinality(S) \in Nat
         /\ S # {} => Cardinality(S) > 0
<1>1. IsFiniteSet(1 .. n)  BY FS_Interval
<1>2. IsFiniteSet(S)  BY <1>1, FS_Subset
<1>. QED  BY <1>2, FS_CardinalityType, FS_EmptySet

LEMMA SubsetCount ==
  ASSUME NEW S, IsFiniteSet(S), NEW T, T \subseteq S
  PROVE  /\ IsFiniteSet(T) /\ Cardinality(T) \in Nat /\ Cardinality(S) \in Nat
         /\ Cardinality(T) <= Cardinality(S)
BY FS_Subset, FS_CardinalityType

-----------------------------------------------------------------------------
(* The orders, the clock and the evaluation.                               *)
Run == [stage : {"idle", "started", "counted"}, path : {"rules", "gate"}, hour : Int,
        active : Nat, failed : BOOLEAN, since : Nat]

SignalsTypeOK ==
  /\ demo \in BOOLEAN
  /\ now \in Nat
  /\ orders \in Seq(Orders)
  /\ run \in Run

\* The live orders placed before the first read
Older == {i \in With(orders, "live") : orders[i].at < run.since}

QuietInv ==
  /\ SignalsTypeOK
  /\ run.stage = "counted" =>
       /\ run.since <= now /\ now <= run.since + 1
       /\ ~run.failed => IF demo THEN Cardinality(With(orders, "live")) <= run.active
                                 ELSE Cardinality(Older) <= run.active
  /\ DiscountMeansQuiet

LEMMA OrdersDomain ==
  ASSUME SignalsTypeOK
  PROVE  /\ Len(orders) \in Nat /\ DOMAIN orders = 1 .. Len(orders)
         /\ \A i \in DOMAIN orders : orders[i] \in Orders
BY LenProperties, ElementOfSeq DEF SignalsTypeOK

LEMMA RefreshedOrders ==
  ASSUME SignalsTypeOK
  PROVE  /\ Refreshed \in Seq(Orders)
         /\ DOMAIN Refreshed = DOMAIN orders
         /\ \A i \in DOMAIN orders : Refreshed[i].status = orders[i].status
         /\ With(Refreshed, "live") = With(orders, "live")
         /\ ~demo => Refreshed = orders
<1>. DEFINE live == With(orders, "live")
            before(i) == Cardinality({j \in live : Newer(orders, j, i)})
            dated(i) == IF i \notin live THEN orders[i]
                        ELSE [orders[i] EXCEPT !.at = IF before(i) < Fit THEN now
                                                                         ELSE now - 2]
<1>1. CASE ~demo  BY <1>1 DEF Refreshed, SignalsTypeOK
<1>2. CASE demo
  <2>1. Refreshed = [i \in DOMAIN orders |-> dated(i)]  BY <1>2 DEF Refreshed
  <2>2. ASSUME NEW i \in DOMAIN orders
        PROVE  /\ dated(i) \in Orders /\ dated(i).status = orders[i].status
               /\ dated(i).here = orders[i].here
    <3>1. orders[i] \in Orders  BY OrdersDomain
    <3>2. now \in Int /\ now - 2 \in Int  BY DEF SignalsTypeOK
    <3>. QED  BY <3>1, <3>2 DEF Orders
  <2>3. Refreshed \in [1 .. Len(orders) -> Orders]  BY <2>1, <2>2, OrdersDomain
  <2>4. Refreshed \in Seq(Orders)  BY <2>3, OrdersDomain, SeqDef
  <2>5. DOMAIN Refreshed = DOMAIN orders
        /\ \A i \in DOMAIN orders : /\ Refreshed[i].status = orders[i].status
                                     /\ Refreshed[i].here = orders[i].here
    BY <2>1, <2>2
  <2>6. With(Refreshed, "live") = With(orders, "live")  BY <2>5 DEF With
  <2>. QED  BY <2>4, <2>5, <2>6, <1>2
<1>. QED  BY <1>1, <1>2 DEF SignalsTypeOK

LEMMA HourType == now \in Nat => HourOf(now) \in Int
BY TimeAssumption DEF HourOf

LEMMA InitQuietInv == Init => QuietInv
<1>. SUFFICES ASSUME Init PROVE QuietInv
  OBVIOUS
<1>1. PICK n \in 0 .. MaxSeed : orders \in History(n)  BY DEF Init
<1>2. orders \in [1 .. n -> Orders] /\ n \in Nat
  <2>. DEFINE past == [guest : Guests, at : Past, status : Statuses, here : Sites]
  <2>1. orders \in [1 .. n -> past]
    <3>1. {o \in past : o.here \/ o.status = "closed"} \subseteq past  OBVIOUS
    <3>2. orders \in [1 .. n -> {o \in past : o.here \/ o.status = "closed"}]
      BY <1>1 DEF History
    <3>. HIDE DEF past
    <3>. QED  BY <3>1, <3>2
  <2>2. Past \subseteq Int /\ Sites \subseteq BOOLEAN  BY TimeAssumption, BoundAssumption
  <2>3. past \subseteq Orders  BY <2>2 DEF Orders
  <2>. HIDE DEF past
  <2>. QED  BY <2>1, <2>3, BoundAssumption
<1>3. orders \in Seq(Orders)  BY <1>2, SeqDef
<1>4. run \in Run /\ run.stage = "idle"  BY DEF Init, NoRun, Run
<1>5. decided.signal = "none"  BY DEF Init, NoDecision
<1>6. SignalsTypeOK  BY <1>3, <1>4, TimeAssumption DEF Init, SignalsTypeOK
<1>. QED  BY <1>4, <1>5, <1>6 DEF QuietInv, DiscountMeansQuiet

LEMMA SameCounts ==
  ASSUME QuietInv, UNCHANGED <<demo, orders, run, decided>>, now' = now \/ run.stage # "counted",
         now' \in Nat
  PROVE  QuietInv'
BY DEF QuietInv, SignalsTypeOK, DiscountMeansQuiet, Older, With

LEMMA CountActiveStep ==
  ASSUME QuietInv, CountActive
  PROVE  QuietInv'
<1>. USE DEF QuietInv
<1>1. PICK fails \in BOOLEAN :
        run' = [run EXCEPT !.stage = "counted", !.since = now, !.failed = fails,
                           !.active = IF fails THEN 0 ELSE ActiveCount]
  BY DEF CountActive, ReadFails
<1>2. orders' = Refreshed /\ UNCHANGED <<demo, now, decided>>  BY DEF CountActive
<1>3. /\ orders' \in Seq(Orders) /\ DOMAIN orders' = DOMAIN orders
      /\ With(orders', "live") = With(orders, "live")
  BY <1>2, RefreshedOrders
<1>4. /\ IsFiniteSet(With(orders, "live")) /\ ActiveCount \in Nat
      /\ Cardinality(With(orders, "live")) = ActiveCount
  BY OrdersDomain, OrdersFinite DEF With, ActiveCount
<1>5. run \in Run /\ now \in Nat  BY DEF SignalsTypeOK
<1>6. /\ run' \in Run /\ run'.stage = "counted" /\ run'.since = now /\ run'.failed = fails
      /\ ~fails => run'.active = ActiveCount
  BY <1>1, <1>4, <1>5 DEF Run
<1>7. Cardinality(Older') <= Cardinality(With(orders, "live"))
  <2>1. Older' \subseteq With(orders', "live")  BY DEF Older
  <2>. QED  BY <2>1, <1>3, <1>4, SubsetCount
<1>8. SignalsTypeOK'  BY <1>2, <1>3, <1>6 DEF SignalsTypeOK
<1>9. DiscountMeansQuiet'  BY <1>2 DEF DiscountMeansQuiet
<1>10. Cardinality(With(orders', "live")) = ActiveCount  BY <1>3, <1>4
<1>. QED  BY <1>2, <1>4, <1>5, <1>6, <1>7, <1>8, <1>9, <1>10

LEMMA CountRecentStep ==
  ASSUME QuietInv, CountRecent
  PROVE  QuietInv'
<1>. USE DEF QuietInv
<1>1. PICK fails \in BOOLEAN :
        LET recent == IF fails THEN 0 ELSE RecentCount
            hour == IF run.path = "rules" THEN run.hour ELSE HourOf(now)
        IN decided' = [signal |-> PricingSignal(run.active, recent, hour),
                       failed |-> run.failed \/ fails,
                       tickets |-> ActiveCount]
  BY DEF CountRecent, ReadFails
<1>2. /\ orders' = Refreshed /\ run' = NoRun /\ UNCHANGED <<demo, now>>
      /\ run.stage = "counted"
  BY DEF CountRecent
<1>3. run \in Run /\ now \in Nat /\ Underload \in Nat
  BY ThresholdAssumption DEF SignalsTypeOK
<1>4. SignalsTypeOK'
  <2>1. orders' \in Seq(Orders)  BY <1>2, RefreshedOrders
  <2>2. run' \in Run  BY <1>2 DEF NoRun, Run
  <2>. QED  BY <1>2, <2>1, <2>2 DEF SignalsTypeOK
<1>5. DiscountMeansQuiet'
  <2>. SUFFICES ASSUME decided'.signal = "underload", ~decided'.failed
                PROVE  decided'.tickets <= 2 * (Underload - 1)
    BY DEF DiscountMeansQuiet
  <2>1. ~run.failed /\ ~fails  BY <1>1
  <2>. DEFINE hour == IF run.path = "rules" THEN run.hour ELSE HourOf(now)
  <2>2. /\ decided'.signal = PricingSignal(run.active, RecentCount, hour)
        /\ decided'.tickets = ActiveCount
    BY <1>1, <2>1
  <2>. HIDE DEF hour
  <2>3. RecentCount < Underload /\ run.active < Underload
    BY <2>2 DEF PricingSignal
  <2>4. /\ IsFiniteSet(With(orders, "live")) /\ ActiveCount \in Nat
        /\ Cardinality(With(orders, "live")) = ActiveCount
    BY OrdersDomain, OrdersFinite DEF With, ActiveCount
  <2>5. run.active \in Nat  BY <1>3 DEF Run
  <2>6. CASE demo
    <3>1. ActiveCount <= run.active  BY <1>2, <2>1, <2>4, <2>6
    <3>. QED  BY <1>3, <2>2, <2>3, <2>4, <2>5, <3>1
  <2>7. CASE ~demo
    <3>. DEFINE newer == Since(orders, now - 1)
    <3>1. Refreshed = orders /\ RecentCount = Cardinality(newer)
      BY <2>7, RefreshedOrders DEF RecentCount
    <3>2. IsFiniteSet(newer) /\ Cardinality(newer) \in Nat
      BY OrdersDomain, OrdersFinite DEF Since
    <3>3. IsFiniteSet(Older) /\ Cardinality(Older) \in Nat
      BY OrdersDomain, OrdersFinite DEF Older, With
    <3>4. With(orders, "live") \subseteq Older \cup newer
      <4>. SUFFICES ASSUME NEW i \in With(orders, "live"), i \notin Older PROVE i \in newer
        OBVIOUS
      <4>1. i \in DOMAIN orders /\ orders[i] \in Orders /\ orders[i].here
        BY OrdersDomain DEF With
      <4>2. orders[i].at \in Int /\ run.since \in Nat  BY <4>1, <1>3 DEF Orders, Run
      <4>3. orders[i].at >= run.since  BY <4>2 DEF Older
      <4>4. run.since >= now - 1  BY <1>2, <1>3, <4>2
      <4>5. orders[i].at >= now - 1  BY <1>3, <4>2, <4>3, <4>4
      <4>. QED  BY <4>1, <4>5 DEF Since
    <3>. HIDE DEF newer
    <3>5. IsFiniteSet(Older \cup newer) /\ IsFiniteSet(Older \cap newer)
      BY <3>2, <3>3, FS_Union, FS_Subset
    <3>6. /\ Cardinality(Older \cup newer)
               = Cardinality(Older) + Cardinality(newer) - Cardinality(Older \cap newer)
          /\ Cardinality(Older \cap newer) \in Nat
      BY <3>2, <3>3, <3>5, FS_Union, FS_CardinalityType
    <3>7. ActiveCount <= Cardinality(Older \cup newer)
      BY <2>4, <3>4, <3>5, SubsetCount
    <3>8. Cardinality(Older) <= run.active  BY <1>2, <2>1, <2>7
    <3>. QED  BY <1>3, <2>2, <2>3, <2>4, <2>5, <3>1, <3>2, <3>3, <3>6, <3>7, <3>8
  <2>. QED  BY <2>6, <2>7
<1>6. run'.stage = "idle"  BY <1>2 DEF NoRun
<1>. QED  BY <1>4, <1>5, <1>6

LEMMA ArriveStep ==
  ASSUME QuietInv, Arrive \/ ArriveElsewhere
  PROVE  QuietInv'
<1>. USE DEF QuietInv
<1>1. PICK g \in Guests, status \in {"live", "closed"}, here \in BOOLEAN :
        orders' = Append(orders, [guest |-> g, at |-> now, status |-> status, here |-> here])
  <2>1. CASE Arrive  BY <2>1 DEF Arrive
  <2>2. CASE ArriveElsewhere  BY <2>2 DEF ArriveElsewhere
  <2>. QED  BY <2>1, <2>2
<1>2. ~demo /\ UNCHANGED <<demo, now, run, decided>>  BY DEF Arrive, ArriveElsewhere
<1>3. [guest |-> g, at |-> now, status |-> status, here |-> here] \in Orders
  BY DEF Orders, Statuses, SignalsTypeOK
<1>4. /\ orders' \in Seq(Orders) /\ DOMAIN orders' = 1 .. Len(orders) + 1
      /\ \A i \in 1 .. Len(orders) : orders'[i] = orders[i]
      /\ orders'[Len(orders) + 1].at = now
  BY <1>1, <1>3, AppendProperties, LenProperties DEF SignalsTypeOK
<1>5. SignalsTypeOK'  BY <1>2, <1>4 DEF SignalsTypeOK
<1>6. ASSUME run.stage = "counted" PROVE Older' = Older
  <2>1. Len(orders) \in Nat /\ DOMAIN orders = 1 .. Len(orders)  BY OrdersDomain
  <2>2. run.since \in Nat /\ now \in Nat /\ ~ (now < run.since)
    BY <1>6 DEF SignalsTypeOK, Run
  <2>3. ASSUME NEW i \in DOMAIN orders' PROVE i \in Older' <=> i \in Older
    <3>1. CASE i \in 1 .. Len(orders)
      BY <1>2, <1>4, <2>1, <3>1 DEF Older, With
    <3>2. CASE i = Len(orders) + 1
      <4>1. i \notin Older'  BY <1>2, <1>4, <2>2, <3>2 DEF Older
      <4>2. i \notin Older  BY <2>1, <3>2 DEF Older, With
      <4>. QED  BY <4>1, <4>2
    <3>. QED  BY <1>4, <2>1, <3>1, <3>2
  <2>4. Older' \subseteq DOMAIN orders'  BY DEF Older, With
  <2>5. Older \subseteq DOMAIN orders'  BY <1>4, <2>1 DEF Older, With
  <2>. QED  BY <2>3, <2>4, <2>5
<1>. QED  BY <1>2, <1>5, <1>6 DEF DiscountMeansQuiet

LEMMA LeaveStep ==
  ASSUME QuietInv, NEW i \in DOMAIN orders, NEW status \in {"closed", "other"}, Leave(i, status)
  PROVE  QuietInv'
<1>. USE DEF QuietInv
<1>1. /\ ~demo /\ orders[i].status = "live"
      /\ orders' = [orders EXCEPT ![i].status = status]
      /\ UNCHANGED <<demo, now, run, decided>>
  BY DEF Leave
<1>2. /\ orders[i] \in Orders /\ Len(orders) \in Nat /\ DOMAIN orders = 1 .. Len(orders)
      /\ IsFiniteSet(Older)
  BY OrdersDomain, OrdersFinite DEF Older, With
<1>3. [orders[i] EXCEPT !.status = status] \in Orders
  BY <1>2 DEF Orders, Statuses
<1>4. orders' = [orders EXCEPT ![i] = [orders[i] EXCEPT !.status = status]]  BY <1>1
<1>5. orders' \in Seq(Orders)
  BY <1>2, <1>3, <1>4, ExceptSeq DEF SignalsTypeOK
<1>6. SignalsTypeOK'  BY <1>1, <1>5 DEF SignalsTypeOK
<1>7. Older' \subseteq Older
  <2>. SUFFICES ASSUME NEW j \in Older' PROVE j \in Older
    OBVIOUS
  <2>1. j \in DOMAIN orders /\ orders'[j].status = "live" /\ orders'[j].at < run.since
    BY <1>1 DEF Older, With
  <2>2. j # i  BY <1>2, <1>4, <2>1 DEF Orders
  <2>3. orders'[j] = orders[j]  BY <1>4, <2>1, <2>2
  <2>. QED  BY <2>1, <2>3 DEF Older, With
<1>8. Cardinality(Older') <= Cardinality(Older) /\ Cardinality(Older') \in Nat
      /\ Cardinality(Older) \in Nat
  BY <1>2, <1>7, SubsetCount
<1>9. run \in Run /\ run.active \in Nat  BY DEF SignalsTypeOK, Run
<1>. QED  BY <1>1, <1>6, <1>8, <1>9 DEF DiscountMeansQuiet

LEMMA NextQuietInv == QuietInv /\ [Next]_vars => QuietInv'
<1>. SUFFICES ASSUME QuietInv, [Next]_vars PROVE QuietInv'
  OBVIOUS
<1>. USE DEF QuietInv
<1>1. CASE UNCHANGED vars
  BY <1>1, SameCounts DEF vars, SignalsTypeOK
<1>2. ASSUME NEW path \in Paths, StartPricing(path) PROVE QuietInv'
  <2>0. path \in {"rules", "gate"}  BY BoundAssumption
  <2>1. /\ run' = [NoRun EXCEPT !.stage = "started", !.path = path, !.hour = HourOf(now)]
        /\ decided' = NoDecision /\ UNCHANGED <<demo, now, orders>>
    BY <1>2 DEF StartPricing
  <2>2. HourOf(now) \in Int  BY HourType DEF SignalsTypeOK
  <2>3. run' \in Run /\ run'.stage = "started"  BY <2>0, <2>1, <2>2 DEF NoRun, Run
  <2>4. SignalsTypeOK'  BY <2>1, <2>3 DEF SignalsTypeOK
  <2>5. DiscountMeansQuiet'  BY <2>1 DEF DiscountMeansQuiet, NoDecision
  <2>. QED  BY <2>3, <2>4, <2>5
<1>3. CASE CountActive  BY <1>3, CountActiveStep
<1>4. CASE CountRecent  BY <1>4, CountRecentStep
<1>5. CASE Abort
  <2>1. run' = NoRun /\ UNCHANGED <<demo, now, orders, decided>>  BY <1>5 DEF Abort
  <2>2. run' \in Run /\ run'.stage = "idle"  BY <2>1 DEF NoRun, Run
  <2>. QED  BY <2>1, <2>2 DEF SignalsTypeOK, DiscountMeansQuiet
<1>6. CASE Arrive \/ ArriveElsewhere  BY <1>6, ArriveStep
<1>7. ASSUME NEW i \in DOMAIN orders, NEW status \in {"closed", "other"}, Leave(i, status)
      PROVE  QuietInv'
  BY <1>7, LeaveStep
<1>8. CASE LookAround
  <2>1. demo /\ orders' = Refreshed /\ UNCHANGED <<demo, now, run, decided>>
    BY <1>8 DEF LookAround
  <2>2. orders' \in Seq(Orders) /\ With(orders', "live") = With(orders, "live")
    BY <2>1, RefreshedOrders
  <2>. QED  BY <2>1, <2>2 DEF SignalsTypeOK, DiscountMeansQuiet
<1>9. CASE Tick
  <2>1. /\ now' = now + 1 /\ UNCHANGED <<demo, orders, run, decided>>
        /\ run.stage = "counted" => now = run.since
    BY <1>9 DEF Tick
  <2>2. now \in Nat /\ now' \in Nat  BY <2>1 DEF SignalsTypeOK
  <2>3. Older' = Older /\ With(orders', "live") = With(orders, "live")
    BY <2>1 DEF Older, With
  <2>4. SignalsTypeOK' /\ DiscountMeansQuiet'
    BY <2>1, <2>2 DEF SignalsTypeOK, DiscountMeansQuiet
  <2>5. run.stage = "counted" => run'.since <= now' /\ now' <= run'.since + 1
    BY <2>1, <2>2
  <2>. QED  BY <2>1, <2>3, <2>4, <2>5
<1>. QED
  BY <1>1, <1>2, <1>3, <1>4, <1>5, <1>6, <1>7, <1>8, <1>9 DEF Next

(* What the first read counted still bounds the older live tickets when    *)
(* the second read is made.                                                *)
THEOREM QuietInvariant == Spec => []QuietInv
<1>. QED  BY InitQuietInv, NextQuietInv, PTL DEF Spec

(* A discount is suggested to a quiet kitchen only, however the orders     *)
(* change between the two reads.                                           *)
THEOREM DiscountIsQuiet == Spec => []DiscountMeansQuiet
<1>1. QuietInv => DiscountMeansQuiet  BY DEF QuietInv
<1>. QED  BY <1>1, QuietInvariant, PTL

-----------------------------------------------------------------------------
LEMMA QualifiedFinite ==
  ASSUME SignalsTypeOK
  PROVE  IsFiniteSet(Qualified)
<1>. DEFINE D == DOMAIN orders
            guest == [i \in D |-> orders[i].guest]
            ordering == {guest[i] : i \in D}
<1>1. IsFiniteSet(D)  BY OrdersDomain, OrdersFinite
<1>2. Qualified \subseteq ordering
  <2>. SUFFICES ASSUME NEW g \in Qualified PROVE g \in ordering
    OBVIOUS
  <2>1. Cardinality(ClosedHere(g)) >= MinOrders /\ MinOrders \in Nat \ {0}
    BY TimeAssumption DEF Qualified
  <2>2. ClosedHere(g) # {}  BY <2>1, FS_EmptySet
  <2>3. PICK i \in ClosedHere(g) : TRUE  BY <2>2
  <2>4. i \in D /\ orders[i].guest = g  BY <2>3 DEF ClosedHere, Closed
  <2>. QED  BY <2>4
<1>3. guest \in Surjection(D, ordering)
  <2>1. guest \in [D -> ordering] /\ \A g \in ordering : \E i \in D : guest[i] = g
    OBVIOUS
  <2>. HIDE DEF guest, ordering, D
  <2>. QED  BY <2>1 DEF Surjection
<1>. HIDE DEF guest, ordering, D
<1>4. IsFiniteSet(ordering)  BY <1>1, <1>3, FS_Surjection
<1>. QED  BY <1>2, <1>4, FS_Subset

(* The segments: nobody with a closed order here of late is picked, and    *)
(* whom one way picks and the other leaves out is told from the orders at  *)
(* both sites, the limit of the query and the requests that failed.        *)
THEOREM SegmentsDoAgree == Spec => []SegmentsAgree
<1>1. SignalsTypeOK => SegmentsAgree
  <2>. SUFFICES ASSUME SignalsTypeOK, NEW sql \in SqlSegments, NEW unread \in SUBSET Guests
                PROVE  LET paged == PagedSegment(unread) IN
                       /\ \A g \in sql \cup paged : Stale(ClosedHere(g))
                       /\ \A g \in paged \ sql : \/ Cardinality(ClosedHere(g)) < MinOrders
                                                 \/ g \in Qualified /\ Cardinality(sql) = SqlLimit
                       /\ \A g \in sql \ paged : \/ g \in unread
                                                 \/ Cardinality(InLookback(g)) < MinOrders
                                                 \/ ~Stale(InLookback(g) \ ClosedHere(g))
    BY DEF SegmentsAgree
  <2>. DEFINE paged == PagedSegment(unread)
  <2>0. /\ Inactive \in Nat /\ Lookback \in Nat /\ Inactive <= Lookback
        /\ MinOrders \in Nat \ {0} /\ now \in Nat
    BY TimeAssumption DEF SignalsTypeOK
  <2>1. ASSUME NEW g
        PROVE  /\ Cardinality(ClosedHere(g)) \in Nat /\ Cardinality(InLookback(g)) \in Nat
               /\ \A i \in Closed(g) : orders[i].at \in Int
    <3>1. ClosedHere(g) \subseteq DOMAIN orders /\ InLookback(g) \subseteq DOMAIN orders
      BY DEF ClosedHere, InLookback, Closed
    <3>2. \A i \in Closed(g) : orders[i].at \in Int  BY OrdersDomain DEF Closed, Orders
    <3>. QED  BY <3>1, <3>2, OrdersDomain, OrdersFinite
  <2>2. /\ sql \subseteq Qualified
        /\ Cardinality(sql) = IF Cardinality(Qualified) < SqlLimit
                              THEN Cardinality(Qualified) ELSE SqlLimit
    BY DEF SqlSegments
  \* an order before the lookback is before the time of inactivity, too
  <2>3. ASSUME NEW g \in paged PROVE Stale(Closed(g)) /\ Stale(ClosedHere(g))
    <3>1. Stale(InLookback(g))  BY <2>3 DEF PagedSegment
    <3>2. ASSUME NEW i \in Closed(g) PROVE orders[i].at < now - Inactive
      <4>1. orders[i].at \in Int  BY <2>1
      <4>2. CASE i \in InLookback(g)  BY <3>1, <4>2 DEF Stale
      <4>3. CASE i \notin InLookback(g)
        <5>1. orders[i].at < now - Lookback  BY <2>0, <4>1, <4>3 DEF InLookback
        <5>. QED  BY <2>0, <4>1, <5>1
      <4>. QED  BY <4>2, <4>3
    <3>. QED  BY <3>2 DEF Stale, ClosedHere
  <2>4. \A g \in Qualified : Stale(ClosedHere(g))  BY DEF Qualified
  <2>5. ASSUME NEW g \in paged \ sql, ~ (Cardinality(ClosedHere(g)) < MinOrders)
        PROVE  g \in Qualified /\ Cardinality(sql) = SqlLimit
    <3>1. g \in Guests /\ Stale(ClosedHere(g))  BY <2>3, <2>5 DEF PagedSegment
    <3>2. Cardinality(ClosedHere(g)) >= MinOrders  BY <2>0, <2>1, <2>5
    <3>3. g \in Qualified  BY <3>1, <3>2 DEF Qualified
    \* a segment as large as all that qualify is all of them
    <3>4. ASSUME Cardinality(Qualified) < SqlLimit PROVE FALSE
      <4>1. Cardinality(sql) = Cardinality(Qualified)  BY <2>2, <3>4
      <4>2. IsFiniteSet(Qualified)  BY QualifiedFinite
      <4>3. sql = Qualified  BY <2>2, <4>1, <4>2, FS_Subset
      <4>. QED  BY <2>5, <3>3, <4>3
    <3>. QED  BY <2>2, <3>3, <3>4
  <2>6. ASSUME NEW g \in sql \ paged, g \notin unread,
               ~ (Cardinality(InLookback(g)) < MinOrders)
        PROVE  ~Stale(InLookback(g) \ ClosedHere(g))
    <3>1. g \in Guests /\ Stale(ClosedHere(g))  BY <2>2, <2>6 DEF Qualified
    <3>2. Cardinality(InLookback(g)) >= MinOrders  BY <2>0, <2>1, <2>6
    <3>3. InLookback(g) # {}  BY <2>0, <3>2, FS_EmptySet
    <3>4. ~Stale(InLookback(g))  BY <2>6, <3>1, <3>2, <3>3 DEF PagedSegment
    <3>5. PICK i \in InLookback(g) : ~ (orders[i].at < now - Inactive)  BY <3>4 DEF Stale
    <3>6. i \notin ClosedHere(g)  BY <3>1, <3>5 DEF Stale
    <3>. QED  BY <3>5, <3>6 DEF Stale
  <2>. QED  BY <2>2, <2>3, <2>4, <2>5, <2>6
<1>2. QuietInv => SignalsTypeOK  BY DEF QuietInv
<1>. QED  BY <1>1, <1>2, QuietInvariant, PTL

-----------------------------------------------------------------------------
(* The brief.                                                              *)
LEMMA LastDayIsOne ==
  ASSUME SignalsTypeOK, Left # {}
  PROVE  \E i \in Left : DayOf(orders[i].at) = LastDay
<1>. DEFINE day == [i \in DOMAIN orders |-> DayOf(orders[i].at)]
            days == {DayOf(orders[i].at) : i \in Left}
<1>1. Len(orders) \in Nat /\ DOMAIN orders = 1 .. Len(orders)
      /\ \A i \in DOMAIN orders : orders[i] \in Orders
  BY OrdersDomain
<1>2. Left \subseteq 1 .. Len(orders)  BY <1>1 DEF Left
<1>3. \A i \in Left : day[i] \in Int
  <2>. SUFFICES ASSUME NEW i \in Left PROVE day[i] \in Int
    OBVIOUS
  <2>1. orders[i].at \in Int /\ PerDay \in Nat \ {0}
    BY <1>1, <1>2, TimeAssumption DEF Orders
  <2>2. orders[i].at \div PerDay \in Int  BY <2>1
  <2>. QED  BY <1>1, <1>2, <2>2 DEF DayOf
<1>4. \A i \in Left : day[i] = DayOf(orders[i].at)  BY <1>1, <1>2
<1>. HIDE DEF day
<1>5. PICK i \in Left : \A j \in Left : day[j] <= day[i]
  BY <1>1, <1>2, <1>3, GreatestValue
<1>6. DayOf(orders[i].at) \in days /\ \A e \in days : e <= DayOf(orders[i].at)
  BY <1>4, <1>5
<1>7. LastDay = CHOOSE d \in days : \A e \in days : e <= d  BY DEF LastDay
<1>8. LastDay \in days
  <2>. HIDE DEF days
  <2>. QED  BY <1>6, <1>7
<1>. QED  BY <1>8

(* A brief is about a day with tickets as soon as one left the kitchen.    *)
THEOREM BriefHasTickets == Spec => []BriefIsNeverBlank
<1>1. SignalsTypeOK => BriefIsNeverBlank
  <2>. SUFFICES ASSUME SignalsTypeOK, Left # {} PROVE Tickets > 0
    BY DEF BriefIsNeverBlank
  <2>1. \E i \in Left : DayOf(orders[i].at) = PeriodDay
    <3>1. CASE LeftOn(DayOf(now)) # {}
      BY <3>1 DEF PeriodDay, LeftOn
    <3>2. CASE LeftOn(DayOf(now)) = {}
      BY <3>2, LastDayIsOne DEF PeriodDay
    <3>. QED  BY <3>1, <3>2
  <2>2. {i \in DOMAIN orders : orders[i].here /\ DayOf(orders[i].at) = PeriodDay} # {}
    BY <2>1 DEF Left
  <2>. QED  BY <2>2, OrdersDomain, OrdersFinite DEF Tickets
<1>2. QuietInv => SignalsTypeOK  BY DEF QuietInv
<1>. QED  BY <1>1, <1>2, QuietInvariant, PTL

-----------------------------------------------------------------------------
(* The items of a discount: whatever was sold, none of them outsells an    *)
(* item of the report that keeps its price.                                *)
THEOREM SellersAreSpared == Spec => []DiscountSparesSellers
<1>1. ASSUME NEW sold \in [Items -> 0 .. MaxSold] PROVE Spares(sold)
  <2>. SUFFICES ASSUME NEW top \in TopSets(sold), NEW slow \in SlowSets(sold, top),
                       NEW i \in slow, NEW j \in top \ slow
                PROVE  sold[i] <= sold[j]
    BY DEF Spares
  <2>1. i \in Items /\ j \in Items /\ top \subseteq {x \in Items : sold[x] > 0}
    BY DEF TopSets, SlowSets
  <2>2. SeenSold(sold, top, i) <= sold[j]
    BY <2>1 DEF SlowSets, SeenSold
  <2>3. sold[i] \in Nat /\ sold[j] \in Nat  BY <2>1, BoundAssumption
  <2>4. CASE i \in top  BY <2>2, <2>4 DEF SeenSold
  \* an item the report leaves out was not sold, or not more than any listed
  <2>5. CASE i \notin top /\ sold[i] > 0
    BY <2>1, <2>5 DEF TopSets
  <2>6. CASE i \notin top /\ ~ (sold[i] > 0)
    BY <2>3, <2>6
  <2>. QED  BY <2>4, <2>5, <2>6
<1>2. DiscountSparesSellers  BY <1>1 DEF DiscountSparesSellers
<1>. QED  BY <1>2, PTL

-----------------------------------------------------------------------------
(* Whole numbers.                                                          *)
LEMMA Euclid ==
  ASSUME NEW n \in Nat, n > 0, NEW m \in Nat
  PROVE  /\ m = n * (m \div n) + (m % n)
         /\ m \div n \in Nat /\ m % n \in Nat /\ m % n < n
<1>. DEFINE x == n * (m \div n)
            y == m % n
<1>1. y = m - x  OBVIOUS
<1>2. m \div n \in Nat /\ y \in Nat /\ y < n  OBVIOUS
<1>3. x \in Nat  BY <1>2
<1>4. m = x + y
  <2>. HIDE DEF x, y
  <2>. QED  BY <1>1, <1>2, <1>3
<1>. HIDE DEF x, y
<1>5. m = x + y /\ m \div n \in Nat /\ y \in Nat /\ y < n  BY <1>2, <1>4
<1>. QED  BY Zenon, <1>5 DEF x, y

\* A multiple and a remainder are those of their sum
LEMMA Residue ==
  ASSUME NEW n \in Nat, n > 0, NEW q \in Nat, NEW f \in Nat, f < n
  PROVE  n * q + f \in Nat /\ (n * q + f) % n = f
<1>. DEFINE m == n * q + f
            a == m \div n
            b == m % n
<1>1. m \in Nat /\ m = n * q + f  OBVIOUS
<1>. HIDE DEF m
<1>2. n * q + f = n * a + b /\ a \in Nat /\ b \in Nat /\ b < n  BY <1>1, Euclid
<1>. HIDE DEF a, b
<1>3. ~ (a < q)
  <2>. SUFFICES ASSUME a < q PROVE FALSE
    OBVIOUS
  <2>1. PICK k \in Nat : q = a + 1 + k  BY <1>2
  <2>2. n * q = n * a + n + n * k /\ n * k \in Nat  BY <1>2, <2>1
  <2>. QED  BY <1>2, <2>2
<1>4. ~ (q < a)
  <2>. SUFFICES ASSUME q < a PROVE FALSE
    OBVIOUS
  <2>1. PICK k \in Nat : a = q + 1 + k  BY <1>2
  <2>2. n * a = n * q + n + n * k /\ n * k \in Nat  BY <1>2, <2>1
  <2>. QED  BY <1>2, <2>2
<1>5. a = q  BY <1>2, <1>3, <1>4
<1>. QED  BY <1>1, <1>2, <1>5 DEF b, m

-----------------------------------------------------------------------------
(* The roster.  A post is a slot and a place in it; people take the posts  *)
(* in turn, and the turn of a post tells it from the others.               *)
Posts(busy)   == {w \in Slots \X (1 .. 2) : w[2] <= Cover(busy, w[1])}
Turn(busy, w) == TurnsBefore(busy, w[1]) + w[2] - 1

LEMMA BusyFinite ==
  ASSUME NEW busy, busy \subseteq Slots, NEW P, P \subseteq busy
  PROVE  IsFiniteSet(P) /\ Cardinality(P) \in Nat
<1>1. IsFiniteSet(Slots)  BY FS_Interval, BoundAssumption DEF Slots
<1>2. P \in SUBSET Slots  OBVIOUS
<1>3. IsFiniteSet(P)  BY <1>1, <1>2, FS_Subset
<1>. QED  BY <1>3, FS_CardinalityType

LEMMA TurnsStep ==
  ASSUME NEW busy, busy \subseteq Slots, NEW s \in Nat
  PROVE  /\ TurnsBefore(busy, s) \in Nat /\ Cover(busy, s) \in 1 .. 2
         /\ TurnsBefore(busy, s + 1) = TurnsBefore(busy, s) + Cover(busy, s)
<1>. DEFINE P == {r \in busy : r < s}
            Q == {r \in busy : r < s + 1}
<1>0. \A r \in busy : r \in Nat
  <2>1. \A r \in Slots : r \in Nat  BY BoundAssumption DEF Slots
  <2>. QED  BY <2>1
<1>1. IsFiniteSet(P) /\ Cardinality(P) \in Nat  BY BusyFinite
<1>2. \A r \in busy : r < s + 1 <=> r < s \/ r = s  BY <1>0
<1>3. CASE s \in busy
  <2>0. s \notin P  BY <1>0
  <2>1. Q = P \cup {s}
    <3>1. \A r : r \in Q <=> r \in P \/ r = s  BY <1>2, <1>3
    <3>. QED  BY <3>1
  <2>. HIDE DEF P, Q
  <2>2. Cardinality(Q) = Cardinality(P) + 1  BY <1>1, <2>0, <2>1, FS_AddElement
  <2>. QED  BY <1>1, <1>3, <2>2 DEF TurnsBefore, Cover, P, Q
<1>4. CASE s \notin busy
  <2>1. Q = P  BY <1>2, <1>4
  <2>. QED  BY <1>1, <1>4, <2>1 DEF TurnsBefore, Cover
<1>. QED  BY <1>3, <1>4

\* The turns of a later slot come after those of an earlier one
LEMMA TurnsGrow ==
  ASSUME NEW busy, busy \subseteq Slots, NEW s \in Nat, NEW t \in Nat, s < t
  PROVE  TurnsBefore(busy, s) + Cover(busy, s) <= TurnsBefore(busy, t)
<1>. DEFINE P == {r \in busy : r < s + 1}
            Q == {r \in busy : r < t}
<1>0. \A r \in busy : r \in Nat
  <2>1. \A r \in Slots : r \in Nat  BY BoundAssumption DEF Slots
  <2>. QED  BY <2>1
<1>1. \A r \in busy : r < s + 1 => r < t  BY <1>0
<1>2. P \subseteq Q /\ IsFiniteSet(Q)  BY <1>1, BusyFinite
<1>3. Cardinality(P) <= Cardinality(Q) /\ Cardinality(P) \in Nat /\ Cardinality(Q) \in Nat
  <2>. HIDE DEF P, Q
  <2>. QED  BY <1>2, SubsetCount
<1>4. TurnsBefore(busy, s + 1) <= TurnsBefore(busy, t)
  <2>1. TurnsBefore(busy, s + 1) = s + 1 + Cardinality(P)
        /\ TurnsBefore(busy, t) = t + Cardinality(Q)
    BY DEF TurnsBefore
  <2>. HIDE DEF P, Q
  <2>. QED  BY <1>3, <2>1
<1>. QED  BY <1>4, TurnsStep

LEMMA PostFacts ==
  ASSUME NEW busy, busy \subseteq Slots, NEW w \in Posts(busy)
  PROVE  /\ w[1] \in Slots /\ w[1] \in Nat /\ w[2] \in 1 .. 2
         /\ w[2] <= Cover(busy, w[1]) /\ w = <<w[1], w[2]>>
         /\ TurnsBefore(busy, w[1]) \in Nat /\ Cover(busy, w[1]) \in 1 .. 2
         /\ Turn(busy, w) \in Nat
         /\ TurnsBefore(busy, w[1]) <= Turn(busy, w)
         /\ Turn(busy, w) < TurnsBefore(busy, w[1]) + Cover(busy, w[1])
<1>1. /\ w \in Slots \X (1 .. 2) /\ w[2] <= Cover(busy, w[1])  BY DEF Posts
<1>2. w[1] \in Slots /\ w[2] \in 1 .. 2 /\ w = <<w[1], w[2]>>  BY <1>1
<1>3. w[1] \in Nat  BY <1>2, BoundAssumption DEF Slots
<1>4. TurnsBefore(busy, w[1]) \in Nat /\ Cover(busy, w[1]) \in 1 .. 2  BY <1>3, TurnsStep
<1>. QED  BY <1>1, <1>2, <1>3, <1>4 DEF Turn

LEMMA TurnUnique ==
  ASSUME NEW busy, busy \subseteq Slots, NEW w \in Posts(busy), NEW v \in Posts(busy),
         Turn(busy, w) = Turn(busy, v)
  PROVE  w = v
<1>1. ASSUME NEW a \in Posts(busy), NEW b \in Posts(busy), a[1] < b[1]
      PROVE  Turn(busy, a) < Turn(busy, b)
  <2>1. TurnsBefore(busy, a[1]) + Cover(busy, a[1]) <= TurnsBefore(busy, b[1])
    BY <1>1, PostFacts, TurnsGrow
  <2>. QED  BY <2>1, PostFacts
<1>2. w[1] \in Nat /\ v[1] \in Nat /\ Turn(busy, w) \in Nat  BY PostFacts
<1>3. w[1] = v[1]  BY <1>1, <1>2
<1>4. w[2] = v[2]  BY <1>3, PostFacts DEF Turn
<1>. QED  BY <1>3, <1>4, PostFacts

\* No turn is left out
LEMMA TurnReached ==
  ASSUME NEW busy, busy \subseteq Slots, NEW w \in Posts(busy),
         NEW n \in Nat, n <= Turn(busy, w)
  PROVE  \E v \in Posts(busy) : Turn(busy, v) = n
<1>. DEFINE T == {s \in Nat : n < TurnsBefore(busy, s)}
<1>1. w[1] \in Nat /\ w[1] + 1 \in T
  <2>1. w[1] \in Nat /\ w[1] + 1 \in Nat  BY PostFacts
  <2>2. n < TurnsBefore(busy, w[1] + 1)  BY <2>1, PostFacts, TurnsStep
  <2>. QED  BY <2>1, <2>2
<1>2. PICK t \in T : \A k \in T : t <= k
  <2>1. T \subseteq Nat /\ T # {}  BY <1>1
  <2>. HIDE DEF T
  <2>. QED  BY <2>1, LeastNatural
<1>3. t \in Nat /\ n < TurnsBefore(busy, t) /\ t <= w[1] + 1
  <2>1. t \in Nat /\ n < TurnsBefore(busy, t)  OBVIOUS
  <2>. HIDE DEF T
  <2>. QED  BY <1>1, <1>2, <2>1
<1>4. t # 0
  <2>1. {r \in busy : r < 0} = {}
    <3>1. \A r \in Slots : ~ (r < 0)  BY BoundAssumption DEF Slots
    <3>. QED  BY <3>1
  <2>2. TurnsBefore(busy, 0) = 0  BY <2>1, FS_EmptySet DEF TurnsBefore
  <2>. QED  BY <1>3, <2>2
<1>. DEFINE s == t - 1
<1>5. s \in Nat /\ s + 1 = t /\ ~ (t <= s) /\ s <= w[1]  BY <1>1, <1>3, <1>4
<1>. HIDE DEF s
<1>6. /\ TurnsBefore(busy, s) \in Nat /\ Cover(busy, s) \in 1 .. 2
      /\ n < TurnsBefore(busy, s) + Cover(busy, s)
  BY <1>3, <1>5, TurnsStep
<1>7. TurnsBefore(busy, s) <= n
  <2>1. s \notin T
    <3>. HIDE DEF T
    <3>. QED  BY <1>2, <1>5
  <2>. QED  BY <1>5, <1>6, <2>1
<1>. DEFINE v == <<s, n - TurnsBefore(busy, s) + 1>>
<1>8. s \in Slots
  <2>1. w[1] \in Slots  BY PostFacts
  <2>. QED  BY <1>5, <2>1, BoundAssumption DEF Slots
<1>9. v \in Posts(busy)  BY <1>6, <1>7, <1>8 DEF Posts
<1>10. Turn(busy, v) = n  BY <1>6 DEF Turn
<1>. QED  BY <1>9, <1>10

\* Who is on shift is told by the turn
LEMMA ShiftsAre ==
  ASSUME NEW busy, busy \subseteq Slots, NEW staff \in Nat, staff > 0, NEW e
  PROVE  /\ ShiftsOf(staff, busy, e) = {w \in Posts(busy) : Turn(busy, w) % staff = e}
         /\ IsFiniteSet(ShiftsOf(staff, busy, e))
<1>1. ASSUME NEW w \in Posts(busy)
      PROVE  OnShift(staff, busy, w[1])[w[2]] = Turn(busy, w) % staff
  <2>1. w[2] \in 1 .. Cover(busy, w[1])  BY PostFacts
  <2>. QED  BY <2>1 DEF OnShift, Turn
<1>2. ShiftsOf(staff, busy, e) = {w \in Posts(busy) : OnShift(staff, busy, w[1])[w[2]] = e}
  BY DEF ShiftsOf, Posts
<1>3. ShiftsOf(staff, busy, e) = {w \in Posts(busy) : Turn(busy, w) % staff = e}
  BY <1>1, <1>2
<1>4. IsFiniteSet(Slots \X (1 .. 2))
  <2>1. IsFiniteSet(Slots)
    <3>1. 0 \in Int /\ MaxSlots - 1 \in Int  BY BoundAssumption
    <3>. QED  BY <3>1, FS_Interval DEF Slots
  <2>2. IsFiniteSet(1 .. 2)
    <3>1. 1 \in Int /\ 2 \in Int  OBVIOUS
    <3>. QED  BY <3>1, FS_Interval
  <2>. QED  BY <2>1, <2>2, FS_Product
<1>5. ShiftsOf(staff, busy, e) \in SUBSET (Slots \X (1 .. 2))  BY DEF ShiftsOf
<1>. QED  BY <1>3, <1>4, <1>5, FS_Subset

LEMMA ShiftsEven ==
  ASSUME NEW busy, busy \subseteq Slots, NEW staff \in Nat, staff > 0
  PROVE  SharedEvenly(staff, busy)
<1>. SUFFICES ASSUME NEW e \in 0 .. (staff - 1), NEW f \in 0 .. (staff - 1)
              PROVE  Cardinality(ShiftsOf(staff, busy, e))
                       <= Cardinality(ShiftsOf(staff, busy, f)) + 1
  BY DEF SharedEvenly
<1>. DEFINE A == ShiftsOf(staff, busy, e)
            B == ShiftsOf(staff, busy, f)
            A1 == {w \in A : staff <= Turn(busy, w)}
<1>1. /\ A = {w \in Posts(busy) : Turn(busy, w) % staff = e}
      /\ B = {w \in Posts(busy) : Turn(busy, w) % staff = f}
      /\ IsFiniteSet(A) /\ IsFiniteSet(B)
  BY ShiftsAre
<1>. HIDE DEF A, B
<1>2. \A w \in A : /\ w \in Posts(busy) /\ Turn(busy, w) \in Nat
                   /\ Turn(busy, w) % staff = e
  BY <1>1, PostFacts
\* at most one shift of e comes before f has had a turn
<1>3. \A w, v \in A \ A1 : w = v
  <2>1. \A w \in A \ A1 : Turn(busy, w) = e
    <3>. SUFFICES ASSUME NEW w \in A \ A1 PROVE Turn(busy, w) = e
      OBVIOUS
    <3>1. Turn(busy, w) \in Nat /\ Turn(busy, w) < staff /\ Turn(busy, w) % staff = e
      BY <1>2
    <3>2. \A m \in Nat : m < staff => m % staff = m  OBVIOUS
    <3>. QED  BY <3>1, <3>2
  <2>. QED  BY <1>2, <2>1, TurnUnique
\* f is on shift between two shifts of e
<1>4. \A w \in A1 : \E v \in B : Turn(busy, v) = staff * ((Turn(busy, w) \div staff) - 1) + f
  <2>. SUFFICES ASSUME NEW w \in A1
                PROVE  \E v \in B : Turn(busy, v) = staff * ((Turn(busy, w) \div staff) - 1) + f
    OBVIOUS
  <2>. DEFINE m == Turn(busy, w)
              q == m \div staff
              k == staff * (q - 1) + f
  <2>1. m \in Nat /\ staff <= m /\ w \in Posts(busy) /\ f \in Nat /\ f < staff
    BY <1>2
  <2>2. m = staff * q + (m % staff) /\ q \in Nat /\ m % staff \in Nat /\ m % staff < staff
    BY <2>1, Euclid
  <2>3. q # 0  BY <2>1, <2>2
  <2>. HIDE DEF q
  <2>4. q - 1 \in Nat /\ staff * q = staff * (q - 1) + staff  BY <2>2, <2>3
  <2>5. k \in Nat /\ k % staff = f  BY <2>1, <2>4, Residue
  <2>6. k <= m
    <3>. DEFINE y == staff * (q - 1)
    <3>1. y \in Nat  BY <2>4
    <3>. HIDE DEF y
    <3>. QED  BY <2>1, <2>2, <2>4, <3>1 DEF y
  <2>. HIDE DEF k
  <2>7. PICK v \in Posts(busy) : Turn(busy, v) = k  BY <2>1, <2>5, <2>6, TurnReached
  <2>8. v \in B  BY <1>1, <2>5, <2>7
  <2>. QED  BY <2>7, <2>8 DEF k, q
<1>. DEFINE g == [w \in A1 |->
                    CHOOSE v \in B : Turn(busy, v) = staff * ((Turn(busy, w) \div staff) - 1) + f]
<1>5. \A w \in A1 : /\ g[w] \in B
                    /\ Turn(busy, g[w]) = staff * ((Turn(busy, w) \div staff) - 1) + f
  BY <1>4
<1>. HIDE DEF g
<1>6. ASSUME NEW w \in A1, NEW v \in A1, g[w] = g[v] PROVE w = v
  <2>. DEFINE p == Turn(busy, w) \div staff
              q == Turn(busy, v) \div staff
  <2>1. /\ Turn(busy, w) = staff * p + e /\ Turn(busy, v) = staff * q + e
        /\ p \in Nat /\ q \in Nat
    <3>1. ASSUME NEW x \in A1
          PROVE  /\ Turn(busy, x) = staff * (Turn(busy, x) \div staff) + e
                 /\ Turn(busy, x) \div staff \in Nat
      <4>1. Turn(busy, x) \in Nat /\ Turn(busy, x) % staff = e  BY <1>2
      <4>. QED  BY <4>1, Euclid
    <3>. QED  BY <3>1
  <2>2. staff * (p - 1) + f = staff * (q - 1) + f  BY <1>5, <1>6
  <2>. HIDE DEF p, q
  <2>3. staff * (p - 1) = staff * p - staff /\ staff * (q - 1) = staff * q - staff
        /\ staff * p \in Nat /\ staff * q \in Nat
        /\ staff * (p - 1) \in Int /\ staff * (q - 1) \in Int
    BY <2>1
  <2>4. staff * p = staff * q
    <3>1. staff * (p - 1) = staff * (q - 1)  BY <2>2, <2>3
    <3>. QED  BY <2>3, <3>1
  <2>. QED  BY <1>2, <2>1, <2>4, TurnUnique
<1>7. g \in [A1 -> B]
  <2>1. g = [w \in A1 |-> g[w]]  BY DEF g
  <2>. QED  BY <1>5, <2>1
<1>8. g \in Injection(A1, B)  BY <1>6, <1>7 DEF Injection, IsInjective
<1>9. /\ IsFiniteSet(A1) /\ Cardinality(A1) <= Cardinality(B)
      /\ Cardinality(A1) \in Nat /\ Cardinality(B) \in Nat
  <2>. HIDE DEF A1
  <2>. QED  BY <1>1, <1>8, FS_Injection, FS_CardinalityType
<1>10. Cardinality(A) <= Cardinality(A1) + 1
  <2>1. CASE A \ A1 = {}
    <3>1. A = A1  BY <2>1
    <3>. QED  BY <1>9, <3>1
  <2>2. CASE A \ A1 # {}
    <3>1. PICK w \in A \ A1 : TRUE  BY <2>2
    <3>2. A = A1 \cup {w}  BY <1>3, <3>1
    <3>3. w \notin A1  BY <3>1
    <3>. HIDE DEF A1
    <3>4. Cardinality(A) = Cardinality(A1) + 1  BY <1>9, <3>2, <3>3, FS_AddElement
    <3>. QED  BY <1>9, <3>4
  <2>. QED  BY <2>1, <2>2
<1>11. Cardinality(A) \in Nat  BY <1>1, FS_CardinalityType
<1>. HIDE DEF A1
<1>12. Cardinality(A) <= Cardinality(B) + 1  BY <1>9, <1>10, <1>11
<1>. QED  BY <1>12 DEF A, B

\* Numbers less than n apart leave different remainders
LEMMA NearResidues ==
  ASSUME NEW n \in Nat \ {0}, NEW m \in Nat, NEW d \in 1 .. (n - 1)
  PROVE  m % n # (m + d) % n
<1>. SUFFICES ASSUME m % n = (m + d) % n PROVE FALSE
  OBVIOUS
<1>. DEFINE k == m + d
            p == m \div n
            q == k \div n
            r == m % n
<1>1. n \in Nat /\ n > 0 /\ k \in Nat /\ k = m + d  OBVIOUS
<1>. HIDE DEF k
<1>2. m = n * p + r /\ p \in Nat /\ r \in Nat  BY <1>1, Euclid
<1>3. k = n * q + r /\ q \in Nat
  <2>1. r = k % n  BY DEF k
  <2>. QED  BY <1>1, <2>1, Euclid
<1>. HIDE DEF p, q, r
<1>4. n * p \in Nat /\ n * q \in Nat /\ n * q = n * p + d
  <2>1. n * p \in Nat /\ n * q \in Nat  BY <1>2, <1>3
  <2>. QED  BY <1>1, <1>2, <1>3, <2>1
<1>5. CASE q <= p
  <2>1. PICK j \in Nat : p = q + j  BY <1>2, <1>3, <1>5
  <2>2. n * p = n * q + n * j /\ n * j \in Nat  BY <1>3, <2>1
  <2>. QED  BY <1>4, <2>2
<1>6. CASE p < q
  <2>1. PICK j \in Nat : q = p + 1 + j  BY <1>2, <1>3, <1>6
  <2>2. n * q = n * p + n + n * j /\ n * j \in Nat  BY <1>2, <2>1
  <2>. QED  BY <1>4, <2>2
<1>. QED  BY <1>2, <1>3, <1>5, <1>6

LEMMA NoDoubleBooking ==
  ASSUME NEW busy, busy \subseteq Slots, NEW staff \in Nat, staff >= 4
  PROVE  ~ DoubleBooked(staff, busy)
<1>. SUFFICES ASSUME NEW e, NEW a \in ShiftsOf(staff, busy, e),
                     NEW b \in ShiftsOf(staff, busy, e), a # b,
                     a[1] - b[1] \in {-1, 0, 1}
              PROVE  FALSE
  BY DEF DoubleBooked
<1>1. /\ a \in Posts(busy) /\ b \in Posts(busy)
      /\ Turn(busy, a) % staff = Turn(busy, b) % staff
  BY ShiftsAre
\* the turns of two posts of one slot, or of two in a row, are near
<1>2. ASSUME NEW w \in Posts(busy), NEW v \in Posts(busy),
             v[1] = w[1] \/ v[1] = w[1] + 1, Turn(busy, w) < Turn(busy, v)
      PROVE  Turn(busy, v) <= Turn(busy, w) + 3
  BY <1>2, PostFacts, TurnsStep DEF Turn
<1>3. ASSUME NEW w \in Posts(busy), NEW v \in Posts(busy), w[1] < v[1]
      PROVE  Turn(busy, w) < Turn(busy, v)
  <2>1. TurnsBefore(busy, w[1]) + Cover(busy, w[1]) <= TurnsBefore(busy, v[1])
    BY <1>3, PostFacts, TurnsGrow
  <2>. QED  BY <2>1, PostFacts
<1>4. ASSUME NEW w \in Posts(busy), NEW v \in Posts(busy),
             v[1] = w[1] \/ v[1] = w[1] + 1, Turn(busy, w) < Turn(busy, v)
      PROVE  Turn(busy, w) % staff # Turn(busy, v) % staff
  <2>1. Turn(busy, w) \in Nat /\ Turn(busy, v) \in Nat  BY PostFacts
  <2>. DEFINE d == Turn(busy, v) - Turn(busy, w)
  <2>3. d \in 1 .. (staff - 1) /\ Turn(busy, v) = Turn(busy, w) + d
    BY <1>2, <1>4, <2>1
  <2>. HIDE DEF d
  <2>4. staff \in Nat \ {0}  OBVIOUS
  <2>. QED  BY <2>1, <2>3, <2>4, NearResidues
<1>5. /\ a[1] \in Nat /\ b[1] \in Nat
      /\ Turn(busy, a) \in Nat /\ Turn(busy, b) \in Nat /\ Turn(busy, a) # Turn(busy, b)
  BY <1>1, PostFacts, TurnUnique
<1>6. a[1] = b[1] \/ a[1] = b[1] + 1 \/ b[1] = a[1] + 1  BY <1>5
<1>. QED  BY <1>1, <1>3, <1>4, <1>5, <1>6

(* Whatever slots are busy, however many slots there are and people in the *)
(* pool, two people differ by one shift at most, and of four or more       *)
(* nobody is on two overlapping shifts.                                    *)
THEOREM RostersAreFair == Spec => []RostersFair
<1>1. RostersFair
  <2>. SUFFICES ASSUME NEW busy \in BusySlots, NEW staff \in 1 .. MaxStaff
                PROVE  SharedEvenly(staff, busy) /\ (staff >= 4 => ~DoubleBooked(staff, busy))
    BY DEF RostersFair
  <2>1. busy \subseteq Slots  BY DEF BusySlots
  <2>2. staff \in Nat /\ staff > 0  BY BoundAssumption
  <2>. QED  BY <2>1, <2>2, ShiftsEven, NoDoubleBooking
<1>. QED  BY <1>1, PTL

-----------------------------------------------------------------------------
(* The series.                                                             *)
LEMMA DaysAreInts ==
  ASSUME SignalsTypeOK
  PROVE  /\ \A i \in DOMAIN orders : DayOf(orders[i].at) \in Int
         /\ IsFiniteSet(DOMAIN orders)
<1>1. ASSUME NEW i \in DOMAIN orders PROVE DayOf(orders[i].at) \in Int
  <2>1. orders[i].at \in Int /\ PerDay \in Nat \ {0}
    BY OrdersDomain, TimeAssumption DEF Orders
  <2>. QED  BY <2>1 DEF DayOf
<1>2. IsFiniteSet(DOMAIN orders)  BY OrdersDomain, OrdersFinite
<1>. QED  BY <1>1, <1>2

LEMMA SeriesIs ==
  ASSUME SignalsTypeOK, Left # {}
  PROVE  /\ LastDay \in Int
         /\ \A i \in Left : DayOf(orders[i].at) <= LastDay
         /\ DailyCounts = [k \in 1 .. Days |-> Cardinality(LeftOn(LastDay - Days + k))]
         /\ DailyCounts \in [1 .. Days -> Nat]
<1>1. Left \subseteq DOMAIN orders  BY DEF Left
<1>2. LastDay \in Int  BY <1>1, LastDayIsOne, DaysAreInts
<1>3. \A i \in Left : DayOf(orders[i].at) <= LastDay
  <2>. DEFINE day == [i \in DOMAIN orders |-> DayOf(orders[i].at)]
              days == {DayOf(orders[i].at) : i \in Left}
  <2>1. \A i \in Left : day[i] \in Int /\ day[i] = DayOf(orders[i].at)
    BY <1>1, DaysAreInts
  <2>2. Len(orders) \in Nat /\ Left \subseteq 1 .. Len(orders)  BY <1>1, OrdersDomain
  <2>3. PICK i \in Left : \A j \in Left : day[j] <= day[i]
    <3>. HIDE DEF day
    <3>. QED  BY <2>1, <2>2, GreatestValue
  <2>4. DayOf(orders[i].at) \in days /\ \A e \in days : e <= DayOf(orders[i].at)
    <3>. HIDE DEF day
    <3>. QED  BY <2>1, <2>3
  <2>5. LastDay = CHOOSE d \in days : \A e \in days : e <= d  BY DEF LastDay
  <2>6. \A e \in days : e <= LastDay
    <3>. HIDE DEF days
    <3>. QED  BY <2>4, <2>5
  <2>. QED  BY <2>6
<1>4. DailyCounts = [k \in 1 .. Days |-> Cardinality(LeftOn(LastDay - Days + k))]
  BY DEF DailyCounts
<1>5. ASSUME NEW d PROVE Cardinality(LeftOn(d)) \in Nat
  <2>1. LeftOn(d) \in SUBSET DOMAIN orders  BY <1>1 DEF LeftOn
  <2>. QED  BY <2>1, DaysAreInts, FS_Subset, FS_CardinalityType
<1>. QED  BY <1>2, <1>3, <1>4, <1>5

\* The days of the series account for every order since its first day
LEMMA DaysAddUp ==
  ASSUME SignalsTypeOK, Left # {}
  PROVE  MapThenSumSet(LAMBDA k : DailyCounts[k], 1 .. Days)
           = Cardinality({i \in Left : DayOf(orders[i].at) > LastDay - Days})
<1>. DEFINE f == DailyCounts
            K == 1 .. Days
            R == {i \in Left : DayOf(orders[i].at) > LastDay - Days}
            nth == [i \in R |-> DayOf(orders[i].at) - LastDay + Days]
            Is(it) == it = [s \in SUBSET K |->
                              IF s = {} THEN 0 ELSE f[OneOf(s)] + it[s \ {OneOf(s)}]]
            fold == CHOOSE it : Is(it)
<1>1. Left \subseteq DOMAIN orders  BY DEF Left
<1>2. IsFiniteSet(R) /\ IsFiniteSet(K)
  <2>1. R \in SUBSET DOMAIN orders  BY <1>1
  <2>2. 1 \in Int /\ Days \in Int  BY BoundAssumption
  <2>. QED  BY <2>1, <2>2, DaysAreInts, FS_Subset, FS_Interval
<1>3. \A i \in R : nth[i] \in K
  <2>. SUFFICES ASSUME NEW i \in R PROVE nth[i] \in K
    OBVIOUS
  <2>1. DayOf(orders[i].at) \in Int /\ LastDay \in Int /\ Days \in Nat
        /\ DayOf(orders[i].at) <= LastDay /\ DayOf(orders[i].at) > LastDay - Days
    BY <1>1, SeriesIs, DaysAreInts, BoundAssumption
  <2>. QED  BY <2>1
<1>4. \A k \in K : f[k] = Cardinality({i \in R : nth[i] = k})
  <2>. SUFFICES ASSUME NEW k \in K PROVE f[k] = Cardinality({i \in R : nth[i] = k})
    OBVIOUS
  <2>1. LastDay \in Int /\ Days \in Nat /\ k \in Nat /\ k >= 1
    BY SeriesIs, BoundAssumption
  <2>2. ASSUME NEW i \in Left
        PROVE  DayOf(orders[i].at) = LastDay - Days + k <=> i \in R /\ nth[i] = k
    <3>1. DayOf(orders[i].at) \in Int  BY <1>1, DaysAreInts
    <3>. QED  BY <2>1, <3>1
  <2>3. LeftOn(LastDay - Days + k) = {i \in R : nth[i] = k}
    <3>. HIDE DEF nth
    <3>. QED  BY <2>2 DEF LeftOn
  <2>4. f[k] = Cardinality(LeftOn(LastDay - Days + k))  BY SeriesIs
  <2>. HIDE DEF f, R, nth
  <2>. QED  BY <2>3, <2>4
<1>5. \A it : Sums(f, K, it) <=> Is(it)  BY DEF Sums
<1>6. MapThenSumSet(LAMBDA k : DailyCounts[k], 1 .. Days) = fold[K]
  BY DEF MapThenSumSet, MapThenFoldSet, OneOf
<1>7. {i \in R : nth[i] \in K} = R
  <2>. HIDE DEF R, nth, K
  <2>. QED  BY <1>3
<1>. HIDE DEF f, K, R, nth
<1>8. Sums(f, K, fold)
  <2>1. \E it : Is(it)
    <3>1. PICK it : Sums(f, K, it)  BY <1>2, Summation DEF Summable
    <3>. HIDE DEF Is
    <3>. QED  BY <1>5, <3>1
  <2>2. Is(fold)
    <3>. HIDE DEF Is
    <3>. QED  BY <2>1
  <2>. HIDE DEF fold
  <2>. QED  BY <1>5, <2>2
<1>. HIDE DEF fold
<1>9. fold[K] = Cardinality(WithKeyIn(R, nth, K))
  <2>1. K \in SUBSET K  OBVIOUS
  <2>2. Counts(f, K, R, nth)  BY <1>4 DEF Counts
  <2>. QED  BY <1>2, <1>8, <2>1, <2>2, SumOfCounts
<1>. QED  BY <1>6, <1>7, <1>9 DEF R, WithKeyIn

LEMMA Quotient ==
  ASSUME NEW w \in Nat, w > 0, NEW t \in Nat, NEW c \in Nat
  PROVE  /\ t \div w \in Nat
         /\ c * w <= t => c <= t \div w
         /\ t <= c * w => t \div w <= c
OBVIOUS

\* The weighted mean of a series lies between two of its days, unless every
\* weight is zero
LEMMA MeanBetween ==
  ASSUME NEW n \in Nat, n > 0, NEW day \in [1 .. n -> Nat],
         NEW w \in [1 .. n -> Nat], NEW heavy \in 1 .. n, w[heavy] > 0
  PROVE  /\ \E k \in 1 .. n : day[k] <= Mean(day, w)
         /\ \E k \in 1 .. n : day[k] >= Mean(day, w)
<1>. DEFINE K == 1 .. n
            f == [k \in K |-> w[k] * day[k]]
            g == w
            Is(it) == it = [s \in SUBSET K |->
                              IF s = {} THEN 0
                              ELSE w[OneOf(s)] * day[OneOf(s)] + it[s \ {OneOf(s)}]]
            Js(it) == it = [s \in SUBSET K |->
                              IF s = {} THEN 0 ELSE w[OneOf(s)] + it[s \ {OneOf(s)}]]
            it == CHOOSE h : Is(h)
            jt == CHOOSE h : Js(h)
<1>1. IsFiniteSet(K)
  <2>1. 1 \in Int /\ n \in Int  OBVIOUS
  <2>. QED  BY <2>1, FS_Interval
<1>2. \A s \in SUBSET K : s # {} => OneOf(s) \in K  BY DEF OneOf
<1>3. ASSUME NEW h PROVE (Sums(f, K, h) <=> Is(h)) /\ (Sums(g, K, h) <=> Js(h))
  <2>. HIDE DEF K
  <2>1. \A s \in SUBSET K : s # {} => f[OneOf(s)] = w[OneOf(s)] * day[OneOf(s)]
    BY <1>2
  <2>. HIDE DEF f, g
  <2>2. [s \in SUBSET K |-> IF s = {} THEN 0 ELSE f[OneOf(s)] + h[s \ {OneOf(s)}]]
        = [s \in SUBSET K |-> IF s = {} THEN 0
                              ELSE w[OneOf(s)] * day[OneOf(s)] + h[s \ {OneOf(s)}]]
    BY <2>1
  <2>3. [s \in SUBSET K |-> IF s = {} THEN 0 ELSE g[OneOf(s)] + h[s \ {OneOf(s)}]]
        = [s \in SUBSET K |-> IF s = {} THEN 0 ELSE w[OneOf(s)] + h[s \ {OneOf(s)}]]
    BY DEF g
  <2>. QED  BY <2>2, <2>3 DEF Sums
<1>4. Sums(f, K, it) /\ Sums(g, K, jt)
  <2>. HIDE DEF f, g, K
  <2>1. PICK h : Sums(f, K, h)  BY <1>1, Summation DEF Summable
  <2>2. PICK e : Sums(g, K, e)  BY <1>1, Summation DEF Summable
  <2>3. Is(h) /\ Js(e)
    <3>. HIDE DEF Is, Js
    <3>. QED  BY <1>3, <2>1, <2>2
  <2>4. Is(it) /\ Js(jt)
    <3>. HIDE DEF Is, Js
    <3>. QED  BY <2>3
  <2>. HIDE DEF it, jt, Is, Js
  <2>. QED  BY <1>3, <2>4
<1>5. Mean(day, w) = it[K] \div (IF jt[K] = 0 THEN 1 ELSE jt[K])
  <2>1. DOMAIN day = K  OBVIOUS
  <2>2. MapThenSumSet(LAMBDA k : w[k] * day[k], K) = it[K]
    BY DEF MapThenSumSet, MapThenFoldSet, OneOf
  <2>3. MapThenSumSet(LAMBDA k : w[k], K) = jt[K]
    BY DEF MapThenSumSet, MapThenFoldSet, OneOf
  <2>. HIDE DEF it, jt, K
  <2>. QED  BY <2>1, <2>2, <2>3 DEF Mean
<1>. HIDE DEF it, jt
<1>6. PICK m \in 1 .. n : \A k \in 1 .. n : day[k] <= day[m]
  <2>1. 1 .. n # {}  OBVIOUS
  <2>2. \A k \in 1 .. n : day[k] \in Int  OBVIOUS
  <2>. QED  BY <2>1, <2>2, GreatestValue
<1>7. PICK l \in 1 .. n : \A k \in 1 .. n : day[l] <= day[k]
  <2>. DEFINE neg == [k \in 1 .. n |-> 0 - day[k]]
  <2>1. 1 .. n # {} /\ \A k \in 1 .. n : neg[k] \in Int
    <3>1. ASSUME NEW k \in 1 .. n PROVE neg[k] \in Int
      <4>1. day[k] \in Nat  OBVIOUS
      <4>2. 0 - day[k] \in Int  BY <4>1
      <4>. QED  BY <4>2, Zenon
    <3>2. 1 .. n # {}  OBVIOUS
    <3>. QED  BY <3>1, <3>2, Zenon
  <2>2. PICK l \in 1 .. n : \A k \in 1 .. n : neg[k] <= neg[l]
    <3>. HIDE DEF neg
    <3>. QED  BY <2>1, GreatestValue
  <2>3. \A k \in 1 .. n : day[l] <= day[k]  BY <2>2
  <2>. QED  BY <2>3
<1>8. day[m] \in Nat /\ day[l] \in Nat /\ K \in SUBSET K  OBVIOUS
<1>9. Ordered(1, f, day[m], g, K) /\ Ordered(day[l], g, 1, f, K)
  <2>. SUFFICES ASSUME NEW k \in K
                PROVE  /\ f[k] \in Nat /\ g[k] \in Nat
                       /\ 1 * f[k] <= day[m] * g[k] /\ day[l] * g[k] <= 1 * f[k]
    BY DEF Ordered
  <2>. DEFINE a == day[k]
              b == day[m]
              c == day[l]
              v == w[k]
  <2>1. a \in Nat /\ b \in Nat /\ c \in Nat /\ a <= b /\ c <= a /\ v \in Nat
        /\ f[k] = v * a /\ g[k] = v
    BY <1>6, <1>7
  <2>. HIDE DEF a, b, c, f, g, v
  <2>2. PICK i \in Nat, j \in Nat : b = a + i /\ a = c + j
    <3>1. b - a \in Nat /\ a - c \in Nat /\ b = a + (b - a) /\ a = c + (a - c)  BY <2>1
    <3>. QED  BY <3>1
  <2>3. b * v = v * a + i * v /\ v * a = c * v + j * v /\ i * v \in Nat /\ j * v \in Nat
        /\ v * a \in Nat /\ c * v \in Nat /\ b * v \in Nat
    BY <2>1, <2>2
  <2>. QED  BY SMTT(30), <2>1, <2>3 DEF b, c
<1>10. /\ it[K] \in Nat /\ jt[K] \in Nat
       /\ 1 * it[K] <= day[m] * jt[K] /\ day[l] * jt[K] <= 1 * it[K]
  <2>. HIDE DEF f, g, K
  <2>1. 1 \in Nat  OBVIOUS
  <2>2. Ordered(1, it, day[m], jt, SUBSET K)
    BY <1>1, <1>4, <1>8, <1>9, <2>1, SumsOrdered
  <2>3. Ordered(day[l], jt, 1, it, SUBSET K)
    BY <1>1, <1>4, <1>8, <1>9, <2>1, SumsOrdered
  <2>. QED  BY <1>8, <2>2, <2>3 DEF Ordered
<1>11. jt[K] > 0
  \* the sum is at least the weight that is not zero
  <2>. DEFINE e == [k \in K |-> IF k = heavy THEN 1 ELSE 0]
              one == [k \in {heavy} |-> heavy]
  <2>1. PICK h : Sums(e, K, h)
    <3>. HIDE DEF e, K
    <3>. QED  BY <1>1, Summation DEF Summable
  <2>2. Ordered(1, e, 1, g, K)
    <3>. SUFFICES ASSUME NEW k \in K
                  PROVE  e[k] \in Nat /\ g[k] \in Nat /\ 1 * e[k] <= 1 * g[k]
      BY DEF Ordered
    <3>1. e[k] \in {0, 1} /\ (k # heavy => e[k] = 0) /\ g[k] \in Nat
      OBVIOUS
    <3>2. k = heavy => g[k] > 0  OBVIOUS
    <3>. HIDE DEF e, g
    <3>. QED  BY <3>1, <3>2
  <2>3. Counts(e, K, {heavy}, one)
    <3>. SUFFICES ASSUME NEW k \in K
                  PROVE  e[k] = Cardinality({r \in {heavy} : one[r] = k})
      BY DEF Counts
    <3>1. CASE k = heavy
      <4>1. {r \in {heavy} : one[r] = k} = {heavy}  BY <3>1
      <4>. QED  BY <3>1, <4>1, FS_Singleton
    <3>2. CASE k # heavy
      <4>1. {r \in {heavy} : one[r] = k} = {}  BY <3>2
      <4>. QED  BY <3>2, <4>1, FS_EmptySet
    <3>. QED  BY <3>1, <3>2
  <2>4. WithKeyIn({heavy}, one, K) = {heavy} /\ IsFiniteSet({heavy})
        /\ Cardinality({heavy}) = 1
    BY FS_Singleton DEF WithKeyIn
  <2>. HIDE DEF e, one, g, K
  <2>5. h[K] = 1
    <3>1. \A s \in SUBSET K : h[s] = Cardinality(WithKeyIn({heavy}, one, s))
      BY <1>1, <2>1, <2>3, <2>4, SumOfCounts
    <3>2. h[K] = Cardinality(WithKeyIn({heavy}, one, K))  BY <1>8, <3>1
    <3>. QED  BY <2>4, <3>2
  <2>6. 1 \in Nat  OBVIOUS
  <2>7. Ordered(1, h, 1, jt, SUBSET K)
    BY <1>1, <1>4, <2>1, <2>2, <2>6, SumsOrdered
  <2>8. 1 * h[K] <= 1 * jt[K] /\ jt[K] \in Nat  BY <1>8, <2>7 DEF Ordered
  <2>. QED  BY <2>5, <2>8
<1>. DEFINE t == it[K]
            u == jt[K]
            b == day[m]
            c == day[l]
<1>12. t \in Nat /\ u \in Nat /\ u > 0 /\ b \in Nat /\ c \in Nat /\ t <= b * u /\ c * u <= t
  <2>1. 1 * t = t  BY <1>10
  <2>. QED  BY <1>8, <1>10, <1>11, <2>1
<1>13. Mean(day, w) = t \div u
  <2>1. u # 0  BY <1>12
  <2>. QED  BY <1>5, <2>1
<1>. HIDE DEF t, u, b, c
<1>14. c <= Mean(day, w) /\ Mean(day, w) <= b /\ Mean(day, w) \in Nat
  BY <1>12, <1>13, Quotient
<1>15. day[l] <= Mean(day, w) /\ day[m] >= Mean(day, w)  BY <1>12, <1>14 DEF b, c
<1>. QED  BY <1>15

\* The weights of a forecast: those of the caller, or the default
LEMMA WmaBetween ==
  ASSUME NEW day \in [1 .. Days -> Nat], NEW weights \in Weights, Weighing(weights)
  PROVE  /\ \E k \in 1 .. Days : day[k] <= Wma(day, weights)
         /\ \E k \in 1 .. Days : day[k] >= Wma(day, weights)
<1>1. Days \in Nat /\ Days > 0 /\ MaxWeight \in Nat  BY BoundAssumption
<1>2. DOMAIN day = 1 .. Days /\ 1 \in 1 .. Days  BY <1>1
<1>3. CASE DOMAIN weights = 1 .. Days
  <2>1. weights \in [1 .. Days -> Nat]
    <3>1. CASE weights = << >>
      <4>1. DOMAIN weights = {}  BY <3>1
      <4>. QED  BY <1>2, <1>3, <4>1
    <3>2. CASE weights \in [1 .. Days -> 0 .. MaxWeight]  BY <1>1, <3>2
    <3>. QED  BY <3>1, <3>2 DEF Weights
  <2>2. PICK k \in 1 .. Days : weights[k] > 0  BY <1>3 DEF Weighing
  <2>3. Wma(day, weights) = Mean(day, weights)  BY <1>2, <1>3 DEF Wma, WeightsFor
  <2>. QED  BY <1>1, <2>1, <2>2, <2>3, MeanBetween
<1>4. CASE DOMAIN weights # 1 .. Days
  <2>. DEFINE w == [k \in 1 .. Days |-> k]
  <2>1. w \in [1 .. Days -> Nat] /\ w[1] > 0  BY <1>2
  <2>2. Wma(day, weights) = Mean(day, w)  BY <1>2, <1>4 DEF Wma, WeightsFor
  <2>. HIDE DEF w
  <2>. QED  BY <1>1, <1>2, <2>1, <2>2, MeanBetween
<1>. QED  BY <1>3, <1>4

(* However many days the backend's series has: it accounts for every order *)
(* that left the kitchen in them, its last day has one, and the forecast   *)
(* lies between its least and its greatest day, whatever weights, not all  *)
(* zero, it is computed with.                                              *)
THEOREM SeriesAreComplete == Spec => []SeriesAccounts
<1>1. SignalsTypeOK => SeriesAccounts
  <2>. SUFFICES ASSUME SignalsTypeOK PROVE SeriesAccounts
    OBVIOUS
  <2>1. ASSUME Left # {}
        PROVE  /\ DailyCounts[Days] > 0
               /\ \A weights \in Weights : Weighing(weights) =>
                    /\ \E k \in 1 .. Days : DailyCounts[k] <= Wma(DailyCounts, weights)
                    /\ \E k \in 1 .. Days : DailyCounts[k] >= Wma(DailyCounts, weights)
    <3>1. Days \in Nat /\ Days > 0  BY BoundAssumption
    <3>2. DailyCounts[Days] = Cardinality(LeftOn(LastDay))
      <4>1. LastDay - Days + Days = LastDay  BY <2>1, <3>1, SeriesIs
      <4>2. Days \in 1 .. Days  BY <3>1
      <4>3. DailyCounts[Days] = Cardinality(LeftOn(LastDay - Days + Days))
        BY <2>1, <4>2, SeriesIs
      <4>. QED  BY <4>1, <4>3
    <3>3. LeftOn(LastDay) # {} /\ LeftOn(LastDay) \subseteq DOMAIN orders
      BY <2>1, LastDayIsOne DEF LeftOn, Left
    <3>4. Cardinality(LeftOn(LastDay)) > 0  BY <3>3, OrdersDomain, OrdersFinite
    <3>5. DailyCounts \in [1 .. Days -> Nat]  BY <2>1, SeriesIs
    <3>. HIDE DEF DailyCounts
    <3>. QED  BY <3>1, <3>2, <3>4, <3>5, WmaBetween
  <2>. QED  BY <2>1, DaysAddUp DEF SeriesAccounts
<1>2. QuietInv => SignalsTypeOK  BY DEF QuietInv
<1>. QED  BY <1>1, <1>2, QuietInvariant, PTL
=============================================================================
