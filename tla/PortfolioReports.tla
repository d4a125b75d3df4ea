--------------------------- MODULE PortfolioReports ---------------------------
(***************************************************************************)
(* What the portfolio reports of any day (build_portfolio in               *)
(* portfolio/service.py) and the promises of Portfolio that the reports    *)
(* rest on.  Reports are reads: they add no step to Portfolio.             *)
(*                                                                         *)
(* Names, percentages and the order of the items are left out.             *)
(***************************************************************************)
EXTENDS Portfolio, FiniteSetsExt

\* What a report shows of an asset that has a valuation
HoldingRow == [quantity : Quantity \cup {None}, cost : Cost \cup {None}, value : Nat]

ASSUME HoldingAssumption == None \notin HoldingRow

Acquired(day) == {a \in AssetId : Exists(a) /\ assets[a].acquired <= day}

\* fault: an archived asset is left out of every report
HeldIfActive(a, day) == assets[a].acquired <= day /\ assets[a].active

HeldOn(a, day) ==
  assets[a].acquired <= day /\ (assets[a].archivedOn = None \/ day < assets[a].archivedOn)

\* A quoted security whose value is still what was paid for it has no price.
IsUnpricedSecurity(a, v) ==
  /\ assets[a].kind = "SECURITY" /\ assets[a].quote # None
  /\ v.source = "MANUAL" /\ v.cost # None /\ v.value = v.cost

\* The valuation a report of a day shows for an asset, or None
Shown(a, day) == LET i == LatestOn(a, day) IN IF i = 0 THEN None ELSE valuations[i]

Covered(a, v) == v # None /\ v.cost # None /\ ~IsUnpricedSecurity(a, v)

\* checked_minor_sum, None over nothing
SumOrNone(S, amount(_)) == IF S = {} THEN None ELSE MapThenSumSet(amount, S)

\* The headline figures of build_portfolio
Report(day) ==
  LET held == {a \in Acquired(day) : HeldOn(a, day)}
      missing == {a \in held : Shown(a, day) = None}
      eligible == {a \in held : assets[a].kind # "CASH"}
      covered == {a \in eligible : Covered(a, Shown(a, day))}
  IN [date |-> day,
      complete |-> missing = {},
      known |-> MapThenSumSet(LAMBDA a : Shown(a, day).value, held \ missing),
      cost |-> SumOrNone(covered, LAMBDA a : Shown(a, day).cost),
      value |-> SumOrNone(covered, LAMBDA a : Shown(a, day).value),
      eligible |-> Cardinality(eligible),
      pnlAssets |-> Cardinality(covered)]

Holding(a, day) ==
  LET v == Shown(a, day)
  IN IF v = None THEN None ELSE [quantity |-> v.quantity, cost |-> v.cost, value |-> v.value]

HoldingsOn(day) ==
  [a \in AssetId |-> IF Exists(a) /\ HeldOn(a, day) THEN Holding(a, day) ELSE None]

AllocationByType(day) ==
  LET valued == {a \in AssetId : HoldingsOn(day)[a] # None}
  IN [k \in {assets[a].kind : a \in valued} |->
        MapThenSumSet(LAMBDA a : HoldingsOn(day)[a].value, {a \in valued : assets[a].kind = k})]

\* _latest_before: the rows loaded for the report, walked by date until one
\* lies after the point
LatestBefore(a, asOf, point) ==
  LET loaded == {i \in ValuationsOf(a) : valuations[i].valuedAt <= asOf}
      walked == {i \in loaded : valuations[i].valuedAt <= point}
  IN IF walked = {} THEN None
     ELSE valuations[CHOOSE i \in walked : \A j \in walked : Supersedes(i, j)]

PointDates(asOf) ==
  {m \in MonthEnd : m <= asOf /\ \E a \in Acquired(asOf) : assets[a].acquired <= m} \cup {asOf}

\* fault: history counts every asset acquired, archived or not
HistoryPointOfAll(asOf, point) ==
  LET current == [a \in {b \in Acquired(asOf) : assets[b].acquired <= point} |->
                    LatestBefore(a, asOf, point)]
      valued == {a \in DOMAIN current : current[a] # None}
      eligible == {a \in DOMAIN current : assets[a].kind # "CASH"}
      covered == {a \in eligible : Covered(a, current[a])}
  IN [date |-> point,
      complete |-> valued = DOMAIN current,
      known |-> MapThenSumSet(LAMBDA a : current[a].value, valued),
      cost |-> SumOrNone(covered, LAMBDA a : current[a].cost),
      value |-> SumOrNone(covered, LAMBDA a : current[a].value),
      eligible |-> Cardinality(eligible),
      pnlAssets |-> Cardinality(covered)]

\* One point of _history, in the report of asOf
HistoryPoint(asOf, point) ==
  LET current == [a \in {b \in Acquired(asOf) : HeldOn(b, point)} |->
                    LatestBefore(a, asOf, point)]
      valued == {a \in DOMAIN current : current[a] # None}
      eligible == {a \in DOMAIN current : assets[a].kind # "CASH"}
      covered == {a \in eligible : Covered(a, current[a])}
  IN [date |-> point,
      complete |-> valued = DOMAIN current,
      known |-> MapThenSumSet(LAMBDA a : current[a].value, valued),
      cost |-> SumOrNone(covered, LAMBDA a : current[a].cost),
      value |-> SumOrNone(covered, LAMBDA a : current[a].value),
      eligible |-> Cardinality(eligible),
      pnlAssets |-> Cardinality(covered)]

History(asOf) ==
  IF Acquired(asOf) = {} THEN {} ELSE {HistoryPoint(asOf, p) : p \in PointDates(asOf)}

-----------------------------------------------------------------------------
(* Properties *)

EventsOf(a) == {e \in events : e.asset = a}

\* What the audit events say the position was on a day: the creation, then
\* every change effective by then, in the order of the revisions.
ReplayedPosition(a, day) ==
  [f \in PositionFields |->
     LET applied == {e \in EventsOf(a) : /\ e.effectiveAt # None /\ e.effectiveAt <= day
                                         /\ e.new[f] # Unset}
     IN IF applied = {} THEN drawers[a][f]
        ELSE (CHOOSE e \in applied : \A o \in applied :
                e.previousRevision >= o.previousRevision).new[f]]

\* Whatever order edits, corrections of the past and quotes come in, the
\* report of any day shows the quantity and the cost that the audit events say
\* were in effect on that day (patch_asset, add_manual_valuation,
\* persist_quote_snapshots and _position_at against latest_valuation).
ReportsShowThePositionOfTheDay ==
  \A a \in AssetId, day \in Day :
    Exists(a) /\ Shown(a, day) # None =>
      [f \in PositionFields |-> Shown(a, day)[f]] = ReplayedPosition(a, day)

\* The events of an asset number its revisions without a gap, and each starts
\* from the values the one before it left: undoing them all leads back to what
\* the client created (patch_asset).
AuditTrailIsComplete ==
  \A a \in AssetId : Exists(a) =>
    /\ {e.previousRevision : e \in EventsOf(a)} = 1..(assets[a].revision - 1)
    /\ Cardinality(EventsOf(a)) = assets[a].revision - 1
    /\ \A f \in {"name", "quantity", "cost", "quote"} :
         LET touched == {e \in EventsOf(a) : e.new[f] # Unset}
             values == <<drawers[a][f]>> \o
                         [r \in 1..(assets[a].revision - 1) |->
                            LET e == CHOOSE e \in EventsOf(a) : e.previousRevision = r
                            IN e.new[f]]
         IN \A e \in touched :
              LET earlier == {r \in 1..e.previousRevision : values[r] # Unset}
              IN e.previous[f] = values[Max(earlier)]
    /\ (\E e \in EventsOf(a) : e.archived) <=> ~assets[a].active

\* A quote previewed at the asset's current revision describes the asset as it
\* is: no edit escapes the revision that persist_quote_snapshots compares.
PreviewsMatchTheirRevision ==
  \A p \in previews :
    assets[p.asset].revision = p.revision =>
      /\ assets[p.asset].quantity = p.quantity /\ assets[p.asset].quote = p.quote
      /\ assets[p.asset].active

\* A client that lost the answer to its creation request and repeats it gets
\* its purchase back, made once, however many valuations and quotes others
\* recorded meanwhile; it is refused only when the asset was edited, or when its
\* body leaves the FX fields to the server (post_asset, _idempotent_asset_read
\* and _manual_fx).
RetryReturnsThePurchase ==
  \A a \in AssetId :
    Exists(a) /\ EventsOf(a) = {} /\ drawers[a].fx # None => IsRetryOf(a, drawers[a])

\* Every point of the history agrees with the report of its own date, the last
\* one with the report it belongs to, and the allocation adds up to the known
\* value: the two computations of build_portfolio never diverge.
HistoryAgreesWithReports ==
  \A asOf \in Day :
    /\ \A point \in History(asOf) : point = Report(point.date)
    /\ Report(asOf).known =
         MapThenSumSet(LAMBDA k : AllocationByType(asOf)[k], DOMAIN AllocationByType(asOf))

\* When a request stores quotes, however long the previews were held and
\* whatever was stored and edited meanwhile, the report of each of their dates
\* shows one of them: of the instrument and the quantity that the asset has, and
\* not older than any quote that an earlier request stored.  Of two items of one
\* request and one date the later one is shown, which may be the older quote
\* (persist_quote_snapshots against latest_valuation).
RefreshReachesTheReport ==
  [][\A a \in AssetId, day \in Day :
       (\E j \in DOMAIN valuations' \ DOMAIN valuations :
          /\ valuations'[j].asset = a /\ valuations'[j].valuedAt = day
          /\ valuations'[j].source # "MANUAL")
       => LET shown == Shown(a, day)'
          IN /\ shown # None
             /\ shown.source # "MANUAL" /\ shown.valuedAt = day
             /\ shown.quote = assets[a].quote /\ shown.quantity = assets[a].quantity
             /\ \A i \in QuotesOf(a) : valuations[i].fetchedAt <= shown.fetchedAt]_vars

\* A change of position leaves the reports of the days before its effective
\* date as they were, an archival those before the day of archival.  Edits of
\* the quote configuration are exempt: whether a past valuation counts as a
\* price is decided by the present configuration (_is_unpriced_security).
PastReportsStay ==
  [][\A e \in events' \ events : \A day \in Day :
       /\ e.effectiveAt # None => day < e.effectiveAt
       /\ e.archived => day < Today
       /\ e.new.quote = Unset
       => HoldingsOn(day)' = HoldingsOn(day) /\ Report(day)' = Report(day)]_vars
=============================================================================
