--------------------------- MODULE PortfolioProofs ---------------------------
(***************************************************************************)
(* Proofs about Portfolio, for any assets, bodies, amounts, dates and      *)
(* bounds that the assumptions of the module allow.                        *)
(***************************************************************************)
EXTENDS PortfolioReports, SequenceTheorems, WellFoundedInduction, TLAPS

-----------------------------------------------------------------------------
(* Helpers *)

\* A set of naturals that is not empty has a least element.
LEMMA LeastNatural ==
  ASSUME NEW T, T \subseteq Nat, T # {}
  PROVE  \E x \in T : \A y \in T : x <= y
<1> DEFINE Below == OpToRel(<, Nat)
<1>1. IsWellFoundedOn(Below, Nat)
  BY NatLessThanWellFounded
<1>2. \A x, y \in Nat : y < x => <<y, x>> \in Below
  BY DEF OpToRel
<1> HIDE DEF Below
<1>3. PICK x \in T : \A y \in T : <<y, x>> \notin Below
  BY <1>1, WFMin, Zenon
<1>4. \A y \in T : ~(y < x)
  BY <1>2, <1>3
<1>5. QED
  BY <1>3, <1>4

\* What an edit makes of an asset: a well-typed one, one revision on, with the
\* fields that the patch leaves out as they were.
LEMMA PatchedType ==
  ASSUME TypeOK, NEW asset \in Asset, NEW patch \in Patch
  PROVE  /\ Patched(asset, patch) \in Asset
         /\ Patched(asset, patch).revision = asset.revision + 1
         /\ Patched(asset, patch).kind = asset.kind
         /\ Patched(asset, patch).acquired = asset.acquired
<1>1. DateOf[now] \in Day
  BY TimeAssumption DEF TypeOK
<1>2. DOMAIN patch = {"name", "quantity", "cost", "quote", "active"}
  BY DEF Patch
<1>3. DOMAIN asset = {"kind", "name", "acquired", "quantity", "cost", "quote", "active",
                      "archivedOn", "revision"}
  BY DEF Asset
<1>4. \A f \in DOMAIN asset : f \in SetFields(patch) <=> f \in DOMAIN patch /\ patch[f] # Unset
  BY DEF SetFields
<1>5. QED
  BY <1>1, <1>2, <1>3, <1>4 DEF Patched, Today, Asset, Patch

\* The values an event keeps
LEMMA BeforeType ==
  ASSUME NEW asset \in Asset, NEW patch \in Patch
  PROVE  Before(asset, patch) \in Patch
<1>1. DOMAIN patch = {"name", "quantity", "cost", "quote", "active"}
  BY DEF Patch
<1>2. QED
  BY <1>1 DEF Before, Asset, Patch

LEMMA RecordedType ==
  ASSUME TypeOK, NEW a \in AssetId, Exists(a), NEW patch \in Patch,
         NEW effectiveAt \in Day \cup {None}
  PROVE  Recorded(a, patch, effectiveAt) \in Event
<1>1. assets[a] \in Asset
  BY DEF TypeOK, Exists
<1>2. Before(assets[a], patch) \in Patch
  BY <1>1, BeforeType
<1>3. assets[a].revision \in Nat
  BY <1>1 DEF Asset
<1>4. QED
  BY <1>2, <1>3 DEF Recorded, Event

\* The position of any day is a position: of the events that are undone, the
\* oldest that changed a field is there to be found.
LEMMA PositionType ==
  ASSUME TypeOK, NEW a \in AssetId, Exists(a), NEW day \in Day
  PROVE  /\ PositionAt(a, day).quantity \in Quantity \cup {None}
         /\ PositionAt(a, day).cost \in Cost \cup {None}
<1>1. assets[a] \in Asset
  BY DEF TypeOK, Exists
<1>2. ASSUME NEW f \in PositionFields
      PROVE  \/ PositionAt(a, day)[f] = assets[a][f]
             \/ \E e \in events : /\ e.previous[f] # Unset
                                  /\ PositionAt(a, day)[f] = e.previous[f]
  <2> DEFINE later == {e \in events : /\ e.asset = a /\ e.effectiveAt # None
                                      /\ e.effectiveAt > day /\ e.previous[f] # Unset}
  <2>1. CASE later = {}
    BY <2>1 DEF PositionAt
  <2>2. CASE later # {}
    <3> DEFINE Numbers == {e.previousRevision : e \in later}
    <3>1. Numbers \subseteq Nat /\ Numbers # {}
      BY <2>2 DEF TypeOK, Event
    <3>2. PICK n \in Numbers : \A k \in Numbers : n <= k
      BY <3>1, LeastNatural
    <3>3. PICK e \in later : e.previousRevision = n
      BY <3>2
    <3>4. \A o \in later : e.previousRevision <= o.previousRevision
      BY <3>2, <3>3
    <3> DEFINE c == CHOOSE d \in later : \A o \in later :
                      d.previousRevision <= o.previousRevision
    <3>5. c \in later
      BY <3>4
    <3>6. PositionAt(a, day)[f] = c.previous[f]
      BY <2>2 DEF PositionAt
    <3> HIDE DEF c
    <3>7. QED
      BY <3>5, <3>6
  <2>3. QED
    BY <2>1, <2>2
<1>3. QED
  BY <1>1, <1>2 DEF PositionFields, Asset, TypeOK, Event, Patch

\* The row of a user's valuation
LEMMA ManualRowType ==
  ASSUME NEW a \in AssetId, NEW position, position.quantity \in Quantity \cup {None},
         position.cost \in Cost \cup {None}, NEW valuedAt \in Day, NEW value \in Value,
         NEW price \in Price \cup {None}
  PROVE  ManualRow(a, position, valuedAt, value, price) \in Valuation
  BY NumberAssumption DEF ManualRow, Valuation

\* The row of a stored quote
LEMMA QuoteRowType ==
  ASSUME TypeOK, NEW p \in previews, Exists(p.asset)
  PROVE  QuoteRow(p) \in Valuation
<1>1. p \in Preview /\ assets[p.asset] \in Asset
  BY DEF TypeOK, Exists, Preview
<1>2. p.quantity \in Nat /\ p.price \in Nat
  BY <1>1, NumberAssumption DEF Preview
<1>3. \A q, r \in Nat : q * r \in Nat
  OBVIOUS
<1>4. /\ assets[p.asset].quantity \in Quantity \cup {None}
      /\ assets[p.asset].cost \in Cost \cup {None}
  BY <1>1 DEF Asset
<1>5. QED
  BY <1>1, <1>2, <1>3, <1>4 DEF QuoteRow, Valuation, Preview

-----------------------------------------------------------------------------
(* The inductive invariant *)

\* _validate_state_values holds of every asset.
AssetsAreValid == \A a \in AssetId : Exists(a) => StateIsValid(assets[a])

\* A preview was signed at the asset's revision or an earlier one.
PreviewsFit ==
  \A p \in previews :
    /\ Exists(p.asset)
    /\ p.revision <= assets[p.asset].revision
    /\ assets[p.asset].revision = p.revision =>
         /\ assets[p.asset].quantity = p.quantity /\ assets[p.asset].quote = p.quote
         /\ assets[p.asset].active

\* The first valuation is the one of the creation, with the identity rate.
OriginIs(a, i) ==
  /\ i \in ValuationsOf(a) /\ \A j \in ValuationsOf(a) : i <= j
  /\ drawers[a] \in Purchase /\ valuations[i].fx = "IDENTITY"
  /\ \A f \in {"valuedAt", "value", "price"} : valuations[i][f] = drawers[a][f]

OriginsFit ==
  \A a \in AssetId :
    /\ ~Exists(a) => ValuationsOf(a) = {} /\ EventsOf(a) = {}
    /\ Exists(a) => \E i \in DOMAIN valuations : OriginIs(a, i)
    /\ Exists(a) /\ EventsOf(a) = {} =>
         \A f \in {"kind", "name", "acquired", "quantity", "cost", "quote"} :
           assets[a][f] = drawers[a][f]

IInv == TypeOK /\ AssetsAreValid /\ PreviewsFit /\ OriginsFit

LEMMA InitHolds == Init => IInv
<1> SUFFICES ASSUME Init PROVE IInv
  OBVIOUS
<1>1. TypeOK
  BY TimeAssumption DEF Init, TypeOK
<1>2. AssetsAreValid /\ PreviewsFit
  BY DEF Init, AssetsAreValid, PreviewsFit, Exists
<1>3. OriginsFit
  BY DEF Init, OriginsFit, Exists, ValuationsOf, EventsOf
<1>4. QED
  BY <1>1, <1>2, <1>3 DEF IInv

\* A signed preview
LEMMA SignedType ==
  ASSUME IInv, NEW a \in AssetId, Quotable(a), NEW interval \in {"LIVE", "MONTHLY"},
         NEW valuedAt \in Day, NEW price \in Price
  PROVE  /\ Signed(a, interval, valuedAt, price) \in Preview
         /\ Signed(a, interval, valuedAt, price).asset = a
         /\ Signed(a, interval, valuedAt, price).revision = assets[a].revision
         /\ Signed(a, interval, valuedAt, price).quantity = assets[a].quantity
         /\ Signed(a, interval, valuedAt, price).quote = assets[a].quote
<1>1. assets[a] \in Asset /\ now \in Instant
  BY DEF IInv, TypeOK, Quotable, Exists
<1>2. assets[a].quantity \in Quantity /\ assets[a].quote \in Symbol /\ assets[a].revision \in Nat
  BY <1>1 DEF IInv, AssetsAreValid, Quotable, StateIsValid, Asset
<1>3. QED
  BY <1>1, <1>2 DEF Signed, Preview

\* The rows of a quote request, in the order of its items
StoredRows(items) == valuations \o [i \in DOMAIN items |-> QuoteRow(items[i])]

LEMMA StoredRowsType ==
  ASSUME IInv, NEW n \in 1..MaxRequest, NEW items \in [1..n -> previews]
  PROVE  /\ StoredRows(items) \in Seq(Valuation)
         /\ Len(StoredRows(items)) = Len(valuations) + n
         /\ \A i \in 1..Len(valuations) : StoredRows(items)[i] = valuations[i]
         /\ \A k \in 1..n : StoredRows(items)[Len(valuations) + k] = QuoteRow(items[k])
<1> DEFINE rows == [i \in 1..n |-> QuoteRow(items[i])]
<1>1. DOMAIN items = 1..n /\ n \in Nat
  OBVIOUS
<1>2. \A i \in 1..n : QuoteRow(items[i]) \in Valuation
  BY QuoteRowType DEF IInv, PreviewsFit
<1>3. rows \in Seq(Valuation) /\ Len(rows) = n
  BY <1>1, <1>2
<1>4. valuations \in Seq(Valuation) /\ Len(valuations) \in Nat
  BY DEF IInv, TypeOK
<1>5. \A k \in 1..n : rows[k] = QuoteRow(items[k])
  OBVIOUS
<1>6. StoredRows(items) = valuations \o rows
  BY <1>1 DEF StoredRows
<1> HIDE DEF rows
<1>7. /\ valuations \o rows \in Seq(Valuation)
      /\ Len(valuations \o rows) = Len(valuations) + Len(rows)
      /\ \A i \in 1..Len(valuations) + Len(rows) : (valuations \o rows)[i] =
           IF i <= Len(valuations) THEN valuations[i] ELSE rows[i - Len(valuations)]
  BY <1>3, <1>4, ConcatProperties, Zenon
<1>8. /\ StoredRows(items) \in Seq(Valuation)
      /\ Len(StoredRows(items)) = Len(valuations) + n
      /\ \A i \in 1..Len(valuations) + n : StoredRows(items)[i] =
           IF i <= Len(valuations) THEN valuations[i] ELSE rows[i - Len(valuations)]
  BY <1>3, <1>6, <1>7, Zenon
<1>9. \A i \in 1..Len(valuations) : StoredRows(items)[i] = valuations[i]
  <2>1. \A i \in 1..Len(valuations) : i \in 1..Len(valuations) + n /\ i <= Len(valuations)
    BY <1>1, <1>4
  <2>2. QED
    BY <1>8, <2>1
<1>10. ASSUME NEW k \in 1..n PROVE StoredRows(items)[Len(valuations) + k] = QuoteRow(items[k])
  <2>1. /\ Len(valuations) + k \in 1..Len(valuations) + n
        /\ ~(Len(valuations) + k <= Len(valuations))
        /\ Len(valuations) + k - Len(valuations) = k
    BY <1>1, <1>4
  <2>2. StoredRows(items)[Len(valuations) + k] = rows[k]
    BY <1>8, <2>1
  <2>3. QED
    BY <1>5, <2>2
<1>11. QED
  BY <1>8, <1>9, <1>10

-----------------------------------------------------------------------------
(* The invariant is kept *)

\* The rows of every step: those there were, and new ones behind them.
LEMMA RowsGrow ==
  ASSUME IInv, [Next]_vars
  PROVE  /\ valuations' \in Seq(Valuation) /\ Len(valuations) <= Len(valuations')
         /\ \A i \in 1..Len(valuations) : valuations'[i] = valuations[i]
<1>1. valuations \in Seq(Valuation)
  BY DEF IInv, TypeOK
<1>2. ASSUME NEW row \in Valuation, valuations' = Append(valuations, row)
      PROVE  /\ valuations' \in Seq(Valuation) /\ Len(valuations) <= Len(valuations')
             /\ \A i \in 1..Len(valuations) : valuations'[i] = valuations[i]
  BY <1>1, <1>2, AppendProperties
<1>3. ASSUME NEW a \in AssetId, NEW body \in Purchases, PostAsset(a, body)
      PROVE  /\ valuations' \in Seq(Valuation) /\ Len(valuations) <= Len(valuations')
             /\ \A i \in 1..Len(valuations) : valuations'[i] = valuations[i]
  <2>1. ManualRow(a, body, body.valuedAt, body.value, body.price) \in Valuation
    BY PurchaseAssumption, ManualRowType DEF Purchase
  <2>2. QED
    BY <1>2, <1>3, <2>1 DEF PostAsset
<1>4. ASSUME NEW a \in AssetId, NEW expected, NEW patch \in Patches, NEW effectiveAt \in Day,
             NEW value \in Value, NEW price \in Price \cup {None},
             PatchPosition(a, expected, patch, effectiveAt, value, price)
      PROVE  /\ valuations' \in Seq(Valuation) /\ Len(valuations) <= Len(valuations')
             /\ \A i \in 1..Len(valuations) : valuations'[i] = valuations[i]
  <2>1. assets[a] \in Asset
    BY <1>4 DEF IInv, TypeOK, PatchPosition, MayEdit, Exists
  <2>2. Patched(assets[a], patch) \in Asset
    BY <2>1, PatchedType, PatchAssumption DEF IInv
  <2>3. ManualRow(a, Patched(assets[a], patch), effectiveAt, value, price) \in Valuation
    BY <2>2, ManualRowType DEF Asset
  <2>4. QED
    BY <1>2, <1>4, <2>3 DEF PatchPosition
<1>5. ASSUME NEW a \in AssetId, NEW expected, NEW valuedAt \in Day,
             NEW value \in Value, NEW price \in Price \cup {None},
             AddValuation(a, expected, valuedAt, value, price)
      PROVE  /\ valuations' \in Seq(Valuation) /\ Len(valuations) <= Len(valuations')
             /\ \A i \in 1..Len(valuations) : valuations'[i] = valuations[i]
  <2>1. Exists(a)
    BY <1>5 DEF AddValuation, MayEdit
  <2>2. ManualRow(a, PositionAt(a, valuedAt), valuedAt, value, price) \in Valuation
    BY <2>1, PositionType, ManualRowType DEF IInv
  <2>3. QED
    BY <1>2, <1>5, <2>2 DEF AddValuation
<1>6. ASSUME NEW n \in 1..MaxRequest, NEW items \in [1..n -> previews], PersistQuotes(items)
      PROVE  /\ valuations' \in Seq(Valuation) /\ Len(valuations) <= Len(valuations')
             /\ \A i \in 1..Len(valuations) : valuations'[i] = valuations[i]
  <2>1. valuations' = StoredRows(items)
    BY <1>6 DEF PersistQuotes, StoredRows
  <2>2. Len(valuations) \in Nat /\ n \in Nat
    BY <1>1
  <2>3. QED
    BY <2>1, <2>2, StoredRowsType
<1>7. CASE UNCHANGED valuations
  BY <1>1, <1>7
<1>8. QED
  BY <1>3, <1>4, <1>5, <1>6, <1>7
  DEF Next, vars, Requests, PatchIdentity, PreviewQuotes, PreviewHistory, Forget, Tick

\* Every step keeps the domains.
LEMMA TypeKept == IInv /\ [Next]_vars => TypeOK'
<1> SUFFICES ASSUME IInv, [Next]_vars PROVE TypeOK'
  OBVIOUS
<1>0. TypeOK /\ valuations' \in Seq(Valuation)
  BY RowsGrow DEF IInv
<1>1. ASSUME NEW a \in AssetId, NEW body \in Purchases, PostAsset(a, body) PROVE TypeOK'
  <2>1. Created(body) \in Asset
    BY PurchaseAssumption DEF Created, Asset, Purchase
  <2>2. body \in Purchase
    BY PurchaseAssumption
  <2>3. QED
    BY <1>0, <1>1, <2>1, <2>2 DEF PostAsset, TypeOK
<1>2. ASSUME NEW a \in AssetId, NEW expected, NEW patch \in Patches,
             PatchIdentity(a, expected, patch)
      PROVE  TypeOK'
  <2>1. Exists(a) /\ patch \in Patch /\ assets[a] \in Asset
    BY <1>0, <1>2, PatchAssumption DEF PatchIdentity, MayEdit, Exists, TypeOK
  <2>2. Patched(assets[a], patch) \in Asset /\ Recorded(a, patch, None) \in Event
    BY <1>0, <2>1, PatchedType, RecordedType
  <2>3. QED
    BY <1>0, <1>2, <2>2 DEF PatchIdentity, TypeOK
<1>3. ASSUME NEW a \in AssetId, NEW expected, NEW patch \in Patches, NEW effectiveAt \in Day,
             NEW value \in Value, NEW price \in Price \cup {None},
             PatchPosition(a, expected, patch, effectiveAt, value, price)
      PROVE  TypeOK'
  <2>1. Exists(a) /\ patch \in Patch /\ assets[a] \in Asset
    BY <1>0, <1>3, PatchAssumption DEF PatchPosition, MayEdit, Exists, TypeOK
  <2>2. Patched(assets[a], patch) \in Asset /\ Recorded(a, patch, effectiveAt) \in Event
    BY <1>0, <2>1, PatchedType, RecordedType
  <2>3. QED
    BY <1>0, <1>3, <2>2 DEF PatchPosition, TypeOK
<1>4. ASSUME NEW a \in AssetId, NEW expected, NEW valuedAt \in Day,
             NEW value \in Value, NEW price \in Price \cup {None},
             AddValuation(a, expected, valuedAt, value, price)
      PROVE  TypeOK'
  BY <1>0, <1>4 DEF AddValuation, TypeOK
<1>5. ASSUME NEW ids \in SUBSET AssetId, NEW valuedAt \in [Symbol -> Day],
             NEW price \in [Symbol -> Price], PreviewQuotes(ids, valuedAt, price)
      PROVE  TypeOK'
  <2>1. ASSUME NEW a \in ids
        PROVE  Signed(a, "LIVE", valuedAt[assets[a].quote], price[assets[a].quote]) \in Preview
    <3>1. Quotable(a) /\ a \in AssetId
      BY <1>5 DEF PreviewQuotes
    <3>2. assets[a].quote \in Symbol
      BY <1>0, <3>1 DEF Quotable, Exists, TypeOK, Asset
    <3>3. QED
      BY <3>1, <3>2, SignedType
  <2>2. QED
    BY <1>0, <1>5, <2>1 DEF PreviewQuotes, TypeOK
<1>6. ASSUME NEW a \in AssetId, NEW months \in SUBSET MonthEnd, NEW price \in Price,
             PreviewHistory(a, months, price)
      PROVE  TypeOK'
  <2>1. ASSUME NEW m \in months PROVE Signed(a, "MONTHLY", m, price) \in Preview
    BY <1>6, SignedType, TimeAssumption DEF PreviewHistory
  <2>2. QED
    BY <1>0, <1>6, <2>1 DEF PreviewHistory, TypeOK
<1>7. ASSUME NEW items, PersistQuotes(items) PROVE TypeOK'
  BY <1>0, <1>7 DEF PersistQuotes, TypeOK
<1>8. CASE Forget \/ Tick \/ UNCHANGED vars
  BY <1>0, <1>8 DEF Forget, Tick, vars, TypeOK
<1>9. QED
  BY <1>1, <1>2, <1>3, <1>4, <1>5, <1>6, <1>7, <1>8 DEF Next

\* What a step does to the assets: nothing, or one is created, or one is edited
\* by a patch that its event records.
LEMMA AssetSteps ==
  ASSUME IInv, [Next]_vars
  PROVE  \/ UNCHANGED <<assets, events, drawers>>
         \/ \E a \in AssetId, body \in Purchases : PostAsset(a, body)
         \/ \E a \in AssetId, patch \in Patches, effectiveAt \in Day \cup {None} :
              /\ Exists(a) /\ StateIsValid(Patched(assets[a], patch))
              /\ assets' = [assets EXCEPT ![a] = Patched(@, patch)]
              /\ events' = events \cup {Recorded(a, patch, effectiveAt)}
              /\ UNCHANGED <<drawers, previews>>
<1>1. ASSUME NEW a \in AssetId, NEW expected, NEW patch \in Patches,
             PatchIdentity(a, expected, patch)
      PROVE  /\ Exists(a) /\ StateIsValid(Patched(assets[a], patch))
             /\ assets' = [assets EXCEPT ![a] = Patched(@, patch)]
             /\ events' = events \cup {Recorded(a, patch, None)}
             /\ UNCHANGED <<drawers, previews>>
  BY <1>1 DEF PatchIdentity, MayEdit
<1>2. ASSUME NEW a \in AssetId, NEW expected, NEW patch \in Patches, NEW effectiveAt \in Day,
             NEW value, NEW price, PatchPosition(a, expected, patch, effectiveAt, value, price)
      PROVE  /\ Exists(a) /\ StateIsValid(Patched(assets[a], patch))
             /\ assets' = [assets EXCEPT ![a] = Patched(@, patch)]
             /\ events' = events \cup {Recorded(a, patch, effectiveAt)}
             /\ UNCHANGED <<drawers, previews>>
  BY <1>2 DEF PatchPosition, MayEdit
<1>3. ASSUME NEW a, NEW expected, NEW day, NEW value, NEW price,
             AddValuation(a, expected, day, value, price)
      PROVE  UNCHANGED <<assets, events, drawers>>
  BY <1>3 DEF AddValuation
<1>4. ASSUME NEW ids, NEW days, NEW price, PreviewQuotes(ids, days, price)
      PROVE  UNCHANGED <<assets, events, drawers>>
  BY <1>4 DEF PreviewQuotes
<1>5. ASSUME NEW a, NEW months, NEW price, PreviewHistory(a, months, price)
      PROVE  UNCHANGED <<assets, events, drawers>>
  BY <1>5 DEF PreviewHistory
<1>6. ASSUME NEW items, PersistQuotes(items) PROVE UNCHANGED <<assets, events, drawers>>
  BY <1>6 DEF PersistQuotes
<1>7. CASE Forget \/ Tick \/ UNCHANGED vars
  BY <1>7 DEF Forget, Tick, vars
<1>8. CASE \E a \in AssetId, body \in Purchases : PostAsset(a, body)
  BY <1>8
<1>9. CASE \E a \in AssetId, expected \in 1..MaxRows, patch \in Patches :
             PatchIdentity(a, expected, patch)
  BY <1>1, <1>9
<1>10. CASE \E a \in AssetId, expected \in 1..MaxRows, patch \in Patches, effectiveAt \in Day,
               value \in Value, price \in Price \cup {None} :
              PatchPosition(a, expected, patch, effectiveAt, value, price)
  BY <1>2, <1>10
<1>11. CASE \/ \E a \in AssetId, expected \in 1..MaxRows, valuedAt \in Day, value \in Value,
                  price \in Price \cup {None} : AddValuation(a, expected, valuedAt, value, price)
            \/ \E ids \in SUBSET AssetId \ {{}}, valuedAt \in [Symbol -> Day],
                  price \in [Symbol -> Price] : PreviewQuotes(ids, valuedAt, price)
            \/ \E a \in AssetId, months \in SUBSET MonthEnd \ {{}}, price \in Price :
                  PreviewHistory(a, months, price)
            \/ \E items \in Requests : PersistQuotes(items)
  BY <1>3, <1>4, <1>5, <1>6, <1>11
<1>12. QED
  BY <1>7, <1>8, <1>9, <1>10, <1>11 DEF Next

LEMMA AssetsKept == IInv /\ [Next]_vars => AssetsAreValid'
<1> SUFFICES ASSUME IInv, [Next]_vars, NEW b \in AssetId, Exists(b)'
             PROVE  StateIsValid(assets'[b])
  BY DEF AssetsAreValid, StateIsValid
<1>0. assets \in [AssetId -> Asset \cup {None}] /\ (Exists(b) => StateIsValid(assets[b]))
  BY DEF IInv, TypeOK, AssetsAreValid
<1>1. CASE UNCHANGED <<assets, events, drawers>>
  BY <1>0, <1>1 DEF Exists
<1>2. ASSUME NEW a \in AssetId, NEW body \in Purchases, PostAsset(a, body)
      PROVE  StateIsValid(assets'[b])
  BY <1>0, <1>2 DEF PostAsset, StateIsValid, Created, Exists
<1>3. ASSUME NEW a \in AssetId, NEW patch \in Patches, StateIsValid(Patched(assets[a], patch)),
             assets' = [assets EXCEPT ![a] = Patched(@, patch)]
      PROVE  StateIsValid(assets'[b])
  BY <1>0, <1>3 DEF Exists
<1>4. QED
  BY <1>1, <1>2, <1>3, AssetSteps

\* An edit leaves every preview of the asset at a revision that is past.
LEMMA PreviewsKept == IInv /\ [Next]_vars => PreviewsFit'
<1> SUFFICES ASSUME IInv, [Next]_vars PROVE PreviewsFit'
  OBVIOUS
<1>0. /\ assets \in [AssetId -> Asset \cup {None}] /\ previews \subseteq Preview
      /\ \A a \in AssetId : Exists(a) => assets[a] \in Asset /\ assets[a].revision \in Nat
      /\ \A p \in Preview : p.asset \in AssetId /\ p.revision \in Nat
  BY DEF IInv, TypeOK, Exists, Asset, Preview
<1>1. ASSUME UNCHANGED assets, previews' \subseteq previews PROVE PreviewsFit'
  BY <1>1 DEF IInv, PreviewsFit, Exists
<1>2. ASSUME NEW a \in AssetId, NEW body \in Purchases, PostAsset(a, body) PROVE PreviewsFit'
  BY <1>0, <1>2 DEF PostAsset, IInv, PreviewsFit, Exists
<1>3. ASSUME NEW a \in AssetId, NEW patch \in Patches, Exists(a),
             assets' = [assets EXCEPT ![a] = Patched(@, patch)], UNCHANGED previews
      PROVE  PreviewsFit'
  <2>1. /\ Patched(assets[a], patch) \in Asset
        /\ Patched(assets[a], patch).revision = assets[a].revision + 1
    BY <1>0, <1>3, PatchedType, PatchAssumption DEF IInv
  <2>2. ASSUME NEW p \in previews, p.asset = a
        PROVE  Exists(a)' /\ p.revision < assets'[a].revision /\ p.revision \in Nat
    BY <1>0, <1>3, <2>1, <2>2, SentinelAssumption DEF IInv, PreviewsFit, Exists
  <2>3. ASSUME NEW p \in previews, p.asset # a PROVE assets'[p.asset] = assets[p.asset]
    BY <1>3, <2>3
  <2>4. /\ assets'[a].revision \in Nat
    BY <1>0, <1>3, <2>1
  <2>5. QED
    BY <1>3, <2>2, <2>3, <2>4 DEF IInv, PreviewsFit, Exists
<1>4. ASSUME NEW a \in AssetId, Quotable(a), NEW interval \in {"LIVE", "MONTHLY"},
             NEW valuedAt \in Day, NEW price \in Price
      PROVE  LET p == Signed(a, interval, valuedAt, price)
             IN /\ Exists(p.asset) /\ p.revision <= assets[p.asset].revision
                /\ assets[p.asset].quantity = p.quantity /\ assets[p.asset].quote = p.quote
                /\ assets[p.asset].active
  BY <1>0, <1>4, SignedType DEF Quotable
<1>5. ASSUME NEW ids \in SUBSET AssetId, NEW valuedAt \in [Symbol -> Day],
             NEW price \in [Symbol -> Price], PreviewQuotes(ids, valuedAt, price)
      PROVE  PreviewsFit'
  <2>1. ASSUME NEW a \in ids
        PROVE  Quotable(a) /\ a \in AssetId /\ assets[a].quote \in Symbol
    BY <1>0, <1>5 DEF PreviewQuotes, Quotable, Asset
  <2>2. QED
    BY <1>4, <1>5, <2>1 DEF PreviewQuotes, IInv, PreviewsFit, Exists
<1>6. ASSUME NEW a \in AssetId, NEW months \in SUBSET MonthEnd, NEW price \in Price,
             PreviewHistory(a, months, price)
      PROVE  PreviewsFit'
  BY <1>4, <1>6, TimeAssumption DEF PreviewHistory, IInv, PreviewsFit, Exists
<1>7. QED
  <2> DEFINE Reads ==
        \/ \E ids \in SUBSET AssetId, valuedAt \in [Symbol -> Day], price \in [Symbol -> Price] :
             PreviewQuotes(ids, valuedAt, price)
        \/ \E a \in AssetId, months \in SUBSET MonthEnd, price \in Price :
             PreviewHistory(a, months, price)
  <2>1. CASE Reads
    BY <1>5, <1>6, <2>1
  <2>2. Reads \/ previews' \subseteq previews
    <3>1. Forget => previews' \subseteq previews
      BY DEF Forget
    <3>2. ASSUME NEW ids \in SUBSET AssetId \ {{}}, NEW valuedAt \in [Symbol -> Day],
                 NEW price \in [Symbol -> Price], PreviewQuotes(ids, valuedAt, price)
          PROVE  Reads
      BY <3>2
    <3>3. ASSUME NEW a \in AssetId, NEW months \in SUBSET MonthEnd \ {{}}, NEW price \in Price,
                 PreviewHistory(a, months, price)
          PROVE  Reads
      BY <3>3
    <3> HIDE DEF Reads
    <3>4. /\ \A a, body : PostAsset(a, body) => previews' = previews
          /\ \A a, expected, patch : PatchIdentity(a, expected, patch) => previews' = previews
      BY DEF PostAsset, PatchIdentity
    <3>5. \A a, expected, patch, effectiveAt, value, price :
            PatchPosition(a, expected, patch, effectiveAt, value, price) => previews' = previews
      BY DEF PatchPosition
    <3>6. \A a, expected, valuedAt, value, price :
            AddValuation(a, expected, valuedAt, value, price) => previews' = previews
      BY DEF AddValuation
    <3>7. /\ \A items : PersistQuotes(items) => previews' = previews
          /\ Tick => previews' = previews
      BY DEF PersistQuotes, Tick
    <3>8. QED
      BY <3>1, <3>2, <3>3, <3>4, <3>5, <3>6, <3>7 DEF Next, vars
  <2> HIDE DEF Reads
  <2>3. QED
    BY <1>1, <1>2, <1>3, <2>1, <2>2, AssetSteps

\* A new row is one of an asset that exists, or the first of one that is created.
LEMMA NewRows ==
  ASSUME IInv, [Next]_vars,
         NEW j \in DOMAIN valuations', j \notin DOMAIN valuations
  PROVE  LET a == valuations'[j].asset
         IN a \in AssetId /\ (Exists(a) \/ \E body \in Purchases : PostAsset(a, body))
<1>0. /\ valuations \in Seq(Valuation) /\ valuations' \in Seq(Valuation)
      /\ Len(valuations) \in Nat /\ Len(valuations') \in Nat
      /\ j \in 1..Len(valuations') /\ j > Len(valuations)
  BY RowsGrow DEF IInv, TypeOK
<1>1. valuations'[j].asset \in AssetId
  <2>1. valuations'[j] \in Valuation
    BY <1>0
  <2>2. QED
    BY <2>1 DEF Valuation
<1>2. ASSUME NEW a, NEW position, NEW valuedAt, NEW value, NEW price,
             valuations' = Append(valuations, ManualRow(a, position, valuedAt, value, price))
      PROVE  valuations'[j].asset = a
  <2>1. j = Len(valuations) + 1
    BY <1>0, <1>2
  <2>2. valuations'[j] = ManualRow(a, position, valuedAt, value, price)
    BY <1>0, <1>2, <2>1
  <2>3. QED
    BY <2>2 DEF ManualRow
<1>3. ASSUME NEW a \in AssetId, NEW body \in Purchases, PostAsset(a, body)
      PROVE  valuations'[j].asset = a
  BY <1>2, <1>3 DEF PostAsset
<1>4. ASSUME NEW a \in AssetId, NEW expected, NEW patch, NEW effectiveAt, NEW value, NEW price,
             PatchPosition(a, expected, patch, effectiveAt, value, price)
      PROVE  valuations'[j].asset = a /\ Exists(a)
  BY <1>2, <1>4 DEF PatchPosition, MayEdit
<1>5. ASSUME NEW a \in AssetId, NEW expected, NEW valuedAt, NEW value, NEW price,
             AddValuation(a, expected, valuedAt, value, price)
      PROVE  valuations'[j].asset = a /\ Exists(a)
  BY <1>2, <1>5 DEF AddValuation, MayEdit
<1>6. ASSUME NEW n \in 1..MaxRequest, NEW items \in [1..n -> previews], PersistQuotes(items)
      PROVE  Exists(valuations'[j].asset)
  <2>1. valuations' = StoredRows(items) /\ n \in Nat
    BY <1>6 DEF PersistQuotes, StoredRows
  <2>2. Len(valuations') = Len(valuations) + n
    BY <2>1, StoredRowsType
  <2> DEFINE k == j - Len(valuations)
  <2>3. k \in 1..n /\ j = Len(valuations) + k
    BY <1>0, <2>1, <2>2
  <2> HIDE DEF k
  <2>4. valuations'[j] = QuoteRow(items[k])
    BY <2>1, <2>3, StoredRowsType
  <2>5. valuations'[j].asset = items[k].asset
    BY <2>4 DEF QuoteRow
  <2>6. QED
    BY <2>3, <2>5 DEF IInv, PreviewsFit
<1>7. valuations' # valuations
  BY <1>0
<1>8. QED
  BY <1>1, <1>3, <1>4, <1>5, <1>6, <1>7
  DEF Next, vars, Requests, PatchIdentity, PreviewQuotes, PreviewHistory, Forget, Tick

\* The first valuation of an asset stays the first, and an asset without events
\* stays as it was created.
LEMMA OriginsKept == IInv /\ [Next]_vars => OriginsFit'
<1> SUFFICES ASSUME IInv, [Next]_vars PROVE OriginsFit'
  OBVIOUS
<1> DEFINE Same(a) == \A f \in {"kind", "name", "acquired", "quantity", "cost", "quote"} :
                        assets[a][f] = drawers[a][f]
<1>0. /\ valuations \in Seq(Valuation) /\ valuations' \in Seq(Valuation)
      /\ Len(valuations) \in Nat /\ Len(valuations') \in Nat
      /\ Len(valuations) <= Len(valuations')
      /\ \A i \in 1..Len(valuations) : valuations'[i] = valuations[i]
      /\ assets \in [AssetId -> Asset \cup {None}] /\ drawers \in [AssetId -> Purchase \cup {None}]
  BY RowsGrow DEF IInv, TypeOK
<1>1. ASSUME NEW a \in AssetId, NEW i \in DOMAIN valuations, OriginIs(a, i),
             drawers'[a] = drawers[a]
      PROVE  i \in DOMAIN valuations' /\ OriginIs(a, i)'
  <2>1. i \in 1..Len(valuations) /\ i \in 1..Len(valuations') /\ valuations'[i] = valuations[i]
    BY <1>0, <1>1
  <2>2. ASSUME NEW j \in 1..Len(valuations'), valuations'[j].asset = a PROVE i <= j
    <3>1. CASE j <= Len(valuations)
      BY <1>0, <1>1, <2>2, <3>1 DEF OriginIs, ValuationsOf
    <3>2. CASE j > Len(valuations)
      BY <1>0, <2>1, <3>2
    <3>3. QED
      BY <1>0, <3>1, <3>2
  <2>3. QED
    BY <1>0, <1>1, <2>1, <2>2 DEF OriginIs, ValuationsOf
<1>2. ASSUME NEW a \in AssetId, Exists(a), drawers'[a] = drawers[a]
      PROVE  \E i \in DOMAIN valuations' : OriginIs(a, i)'
  <2>1. PICK i \in DOMAIN valuations : OriginIs(a, i)
    BY <1>2 DEF IInv, OriginsFit
  <2>2. QED
    BY <1>1, <1>2, <2>1
<1>3. ASSUME NEW a \in AssetId, ~Exists(a), ~\E body \in Purchases : PostAsset(a, body)
      PROVE  ValuationsOf(a)' = {}
  <2>1. ASSUME NEW j \in DOMAIN valuations', valuations'[j].asset = a PROVE FALSE
    <3>1. CASE j \in DOMAIN valuations
      BY <1>0, <1>3, <2>1, <3>1 DEF IInv, OriginsFit, ValuationsOf
    <3>2. CASE j \notin DOMAIN valuations
      BY <1>3, <2>1, <3>2, NewRows
    <3>3. QED
      BY <3>1, <3>2
  <2>2. QED
    BY <2>1 DEF ValuationsOf
<1>4. ASSUME NEW a \in AssetId, UNCHANGED <<assets[a], drawers[a], EventsOf(a)>>,
             ~\E body \in Purchases : PostAsset(a, body)
      PROVE  /\ ~Exists(a)' => ValuationsOf(a)' = {} /\ EventsOf(a)' = {}
             /\ Exists(a)' => \E i \in DOMAIN valuations' : OriginIs(a, i)'
             /\ Exists(a)' /\ EventsOf(a)' = {} => Same(a)'
  BY <1>2, <1>3, <1>4 DEF IInv, OriginsFit, Exists
<1>5. ASSUME NEW a \in AssetId, NEW body \in Purchases, PostAsset(a, body)
      PROVE  OriginsFit'
  <2> DEFINE row == ManualRow(a, body, body.valuedAt, body.value, body.price)
  <2>1. /\ assets'[a] = Created(body) /\ drawers'[a] = body
        /\ valuations' = Append(valuations, row) /\ UNCHANGED events
        /\ \A b \in AssetId : b # a => assets'[b] = assets[b] /\ drawers'[b] = drawers[b]
    BY <1>0, <1>5 DEF PostAsset
  <2>2. ~Exists(a) /\ ValuationsOf(a) = {} /\ EventsOf(a)' = {}
    BY <1>5, <2>1 DEF PostAsset, IInv, OriginsFit, EventsOf
  <2>3. Same(a)'
    BY <2>1 DEF Created
  <2>4. Exists(a)'
    <3>1. body \in Purchase
      BY PurchaseAssumption
    <3>2. Created(body) \in Asset
      BY <3>1 DEF Created, Asset, Purchase
    <3>3. QED
      BY <2>1, <3>2, SentinelAssumption DEF Exists
  <2>5. \E n \in DOMAIN valuations' : OriginIs(a, n)'
    <3>1. valuations'[Len(valuations) + 1] = row /\ Len(valuations') = Len(valuations) + 1
      BY <1>0, <2>1
    <3>2. /\ row.asset = a /\ row.valuedAt = body.valuedAt /\ row.value = body.value
          /\ row.price = body.price /\ row.fx = "IDENTITY"
      BY DEF ManualRow
    <3> HIDE DEF row
    <3>3. \A j \in 1..Len(valuations) : valuations'[j].asset # a
      BY <1>0, <2>2 DEF ValuationsOf
    <3> PICK n \in Nat : n = Len(valuations) + 1
      BY <1>0
    <3>4. n \in DOMAIN valuations' /\ n \in ValuationsOf(a)'
      BY <1>0, <3>1, <3>2 DEF ValuationsOf
    <3>5. ASSUME NEW j \in ValuationsOf(a)' PROVE n <= j
      BY <1>0, <3>1, <3>3, <3>5 DEF ValuationsOf
    <3>6. \A f \in {"valuedAt", "value", "price"} : valuations'[n][f] = drawers'[a][f]
      BY <2>1, <3>1, <3>2
    <3>7. drawers'[a] \in Purchase /\ valuations'[n].fx = "IDENTITY"
      BY <2>1, <3>1, <3>2, PurchaseAssumption
    <3>8. QED
      BY <3>4, <3>5, <3>6, <3>7 DEF OriginIs
  <2>6. ASSUME NEW b \in AssetId, b # a, NEW other \in Purchases, PostAsset(b, other)
        PROVE  FALSE
    <3>1. Len(valuations) + 1 \in DOMAIN valuations' /\ valuations'[Len(valuations) + 1] = row
      BY <1>0, <2>1
    <3>2. valuations'[Len(valuations) + 1]
            = ManualRow(b, other, other.valuedAt, other.value, other.price)
      BY <1>0, <2>6 DEF PostAsset
    <3>3. QED
      BY <2>6, <3>1, <3>2 DEF ManualRow
  <2>7. ASSUME NEW b \in AssetId, b # a
        PROVE  /\ ~Exists(b)' => ValuationsOf(b)' = {} /\ EventsOf(b)' = {}
               /\ Exists(b)' => \E i \in DOMAIN valuations' : OriginIs(b, i)'
               /\ Exists(b)' /\ EventsOf(b)' = {} => Same(b)'
    BY <1>4, <2>1, <2>6, <2>7 DEF EventsOf
  <2> HIDE DEF row
  <2>8. ASSUME NEW b \in AssetId
        PROVE  /\ ~Exists(b)' => ValuationsOf(b)' = {} /\ EventsOf(b)' = {}
               /\ Exists(b)' => \E i \in DOMAIN valuations' : OriginIs(b, i)'
               /\ Exists(b)' /\ EventsOf(b)' = {} => Same(b)'
    <3>1. CASE b = a
      BY <2>3, <2>4, <2>5, <3>1
    <3>2. CASE b # a
      BY <2>7, <3>2
    <3>3. QED
      BY <3>1, <3>2
  <2>9. QED
    BY <2>8 DEF OriginsFit
<1>6. ASSUME NEW a \in AssetId, Exists(a), NEW patch \in Patches,
             NEW effectiveAt \in Day \cup {None},
             assets' = [assets EXCEPT ![a] = Patched(@, patch)],
             events' = events \cup {Recorded(a, patch, effectiveAt)}, UNCHANGED drawers
      PROVE  OriginsFit'
  <2>1. Recorded(a, patch, effectiveAt).asset = a
    BY DEF Recorded
  <2>2. Exists(a)' /\ EventsOf(a)' # {}
    <3>1. Patched(assets[a], patch) \in Asset
      BY <1>0, <1>6, PatchedType, PatchAssumption DEF IInv, Exists
    <3>2. QED
      BY <1>0, <1>6, <2>1, <3>1, SentinelAssumption DEF Exists, EventsOf
  <2>3. ASSUME NEW b \in AssetId, b # a
        PROVE  UNCHANGED <<assets[b], drawers[b], EventsOf(b)>>
    BY <1>6, <2>1, <2>3 DEF EventsOf
  <2>4. ASSUME NEW b \in AssetId, NEW body \in Purchases, PostAsset(b, body) PROVE OriginsFit'
    BY <1>5, <2>4
  <2>5. CASE \A b \in AssetId : ~\E body \in Purchases : PostAsset(b, body)
    BY <1>2, <1>4, <1>6, <2>2, <2>3, <2>5 DEF OriginsFit
  <2>6. QED
    BY <2>4, <2>5
<1>7. CASE UNCHANGED <<assets, events, drawers>>
  <2>1. CASE \A b \in AssetId : ~\E body \in Purchases : PostAsset(b, body)
    BY <1>4, <1>7, <2>1 DEF OriginsFit, EventsOf
  <2>2. QED
    BY <1>5, <2>1
<1>8. QED
  BY <1>5, <1>6, <1>7, AssetSteps

-----------------------------------------------------------------------------
(* The theorems *)

\* Whatever edits, valuations, previews and quotes follow each other: rows,
\* events and previews fit together in the way the properties need.
THEOREM Inductive == Spec => []IInv
<1>1. Init => IInv
  BY InitHolds
<1>2. IInv /\ [Next]_vars => IInv'
  BY TypeKept, AssetsKept, PreviewsKept, OriginsKept DEF IInv
<1>3. QED
  BY <1>1, <1>2, PTL DEF Spec

\* Assets, valuations, events and previews keep their domains: in particular
\* the position recorded with every valuation is a position.
THEOREM TypeCorrect == Spec => []TypeOK
<1>1. IInv => TypeOK
  BY DEF IInv
<1>2. QED
  BY <1>1, Inductive, PTL

\* A preview that still carries the asset's revision describes the asset as it
\* is: comparing revisions is enough (persist_quote_snapshots).
THEOREM PreviewsAreCurrent == Spec => []PreviewsMatchTheirRevision
<1>1. IInv => PreviewsMatchTheirRevision
  BY DEF IInv, PreviewsFit, PreviewsMatchTheirRevision
<1>2. QED
  BY <1>1, Inductive, PTL

\* A repeated creation request that states its FX fields gets the purchase back
\* as long as the asset was not edited, whatever was valued and quoted meanwhile
\* (post_asset, _idempotent_asset_read and _manual_fx).
THEOREM RetriesAreAnswered == Spec => []RetryReturnsThePurchase
<1>1. ASSUME IInv, NEW a \in AssetId, Exists(a), EventsOf(a) = {}, drawers[a].fx # None
      PROVE  IsRetryOf(a, drawers[a])
  <2>1. PICK i \in DOMAIN valuations : OriginIs(a, i)
    BY <1>1 DEF IInv, OriginsFit
  <2>2. \A j \in ValuationsOf(a) : (\A k \in ValuationsOf(a) : j <= k) => j = i
    <3>1. valuations \in Seq(Valuation)
      BY <1>1 DEF IInv, TypeOK
    <3>2. ValuationsOf(a) \subseteq Nat
      BY <3>1 DEF ValuationsOf
    <3>3. QED
      BY <2>1, <3>2 DEF OriginIs
  <2>3. First(a) = i
    BY <2>1, <2>2 DEF First, OriginIs
  <2>4. drawers[a].fx = "IDENTITY"
    BY <1>1, <2>1 DEF OriginIs, Purchase
  <2>5. valuations[i].fx = drawers[a].fx
    BY <2>1, <2>4 DEF OriginIs
  <2>6. /\ \A f \in {"kind", "name", "acquired", "quantity", "cost", "quote"} :
             assets[a][f] = drawers[a][f]
        /\ \A f \in {"valuedAt", "value", "price"} : valuations[i][f] = drawers[a][f]
    BY <1>1, <2>1 DEF OriginIs, IInv, OriginsFit
  <2>7. \A f \in {"valuedAt", "value", "price", "fx"} : valuations[i][f] = drawers[a][f]
    BY <2>5, <2>6
  <2>8. QED
    BY <2>3, <2>6, <2>7 DEF IsRetryOf
<1>2. IInv => RetryReturnsThePurchase
  BY <1>1 DEF RetryReturnsThePurchase
<1>3. QED
  BY <1>2, Inductive, PTL

=============================================================================
