------------------------------ MODULE Portfolio ------------------------------
(***************************************************************************)
(* The assets of the portfolio, their dated valuations and the audit       *)
(* events of their edits, as portfolio/service.py keeps them, with the     *)
(* requests of api/assets.py and api/portfolio.py: creation with retries,  *)
(* edits, manual valuations, and market quotes that one request previews   *)
(* and signs and a later one persists.                                     *)
(*                                                                         *)
(* Amounts are EUR, and the conversion of other currencies is left out.    *)
(* The FX source, rate and date of a user's valuation are one field: a     *)
(* body may leave them out, a stored row has the identity.  A quote's      *)
(* value is quantity times price.                                          *)
(***************************************************************************)
EXTENDS Naturals, Sequences, FiniteSets

CONSTANTS
  AssetId,     (* ids that clients generate, one for each purchase          *)
  Kind,        (* the groups of AssetType that the code tells apart         *)
  Name, Quantity, Cost, Symbol,   (* values of the asset's columns          *)
  Value, Price,                   (* amounts that users and providers give  *)
  Day,         (* calendar dates                                            *)
  Instant,     (* moments of the server's clock                             *)
  DateOf,      (* the date of each instant                                  *)
  MonthEnd,    (* the dates that end a month                                *)
  Purchases,   (* bodies of POST requests                                   *)
  Patches,     (* bodies of PATCH requests                                  *)
  MaxAge,      (* quote_preview_max_age_hours, in instants                  *)
  MaxRows,     (* bound on valuations, events and previews together         *)
  MaxRequest,  (* bound on the items of one quote request                   *)
  None,        (* SQL NULL, or an absent row                                *)
  Unset        (* a field that a PATCH body leaves out                      *)

ASSUME KindAssumption == Kind \subseteq {"CASH", "SECURITY", "OTHER"}
ASSUME NumberAssumption ==
  /\ Quantity \subseteq Nat \ {0} /\ Cost \subseteq Nat /\ Value \subseteq Nat
  /\ Price \subseteq Nat \ {0}
ASSUME TimeAssumption ==
  /\ Day \subseteq Nat /\ Instant \subseteq Nat /\ 1 \in Instant /\ MonthEnd \subseteq Day
  /\ DateOf \in [Instant -> Day]
  /\ \A i, j \in Instant : i <= j => DateOf[i] <= DateOf[j]

PositionFields == {"quantity", "cost"}
Position == [quantity : Quantity \cup {None}, cost : Cost \cup {None}]

Asset == [kind : Kind, name : Name, acquired : Day,
          quantity : Quantity \cup {None}, cost : Cost \cup {None}, quote : Symbol \cup {None},
          active : BOOLEAN, archivedOn : Day \cup {None}, revision : Nat]

Patch == [name : Name \cup {Unset}, quantity : Quantity \cup {None, Unset},
          cost : Cost \cup {None, Unset}, quote : Symbol \cup {None, Unset},
          active : BOOLEAN \cup {Unset}]

ASSUME PatchAssumption == Patches \subseteq Patch

\* The body of a creation request
Purchase == [kind : Kind, name : Name, acquired : Day,
             quantity : Quantity \cup {None}, cost : Cost \cup {None},
             quote : Symbol \cup {None},
             valuedAt : Day, value : Value, price : Price \cup {None},
             fx : {"IDENTITY", None}]

ASSUME PurchaseAssumption == Purchases \subseteq Purchase

Valuation == [asset : AssetId, valuedAt : Day, value : Nat, price : Price \cup {None},
              quantity : Quantity \cup {None}, cost : Cost \cup {None}, fx : {"IDENTITY"},
              source : {"MANUAL", "LIVE", "MONTHLY"}, quote : Symbol \cup {None},
              fetchedAt : Instant \cup {None}]

ASSUME SentinelAssumption ==
  /\ None \notin Asset \cup Valuation
  /\ None \notin Quantity \cup Cost \cup Price \cup Day \cup Instant \cup Symbol
  /\ Unset \notin Name \cup Symbol \cup {None}
  /\ Unset \notin Quantity \cup Cost /\ Unset \notin BOOLEAN

Event == [asset : AssetId, archived : BOOLEAN, previousRevision : Nat,
          effectiveAt : Day \cup {None}, previous : Patch, new : Patch]

Preview == [asset : AssetId, revision : Nat, quantity : Quantity, quote : Symbol,
            valuedAt : Day, price : Price, interval : {"LIVE", "MONTHLY"},
            fetchedAt : Instant]

VARIABLES
  assets,      \* the Asset rows
  valuations,  \* the AssetValuation rows, in the order of created_at
  events,      \* the AssetEvent rows
  drawers,     \* what the creating clients sent, and send again without an answer
  previews,    \* previews that clients hold, signed with the server's current key
  now          \* the clock

vars == <<assets, valuations, events, drawers, previews, now>>

TypeOK ==
  /\ assets \in [AssetId -> Asset \cup {None}]
  /\ valuations \in Seq(Valuation)
  /\ events \subseteq Event
  /\ drawers \in [AssetId -> Purchase \cup {None}]
  /\ previews \subseteq Preview
  /\ now \in Instant

Init ==
  /\ assets = [a \in AssetId |-> None]
  /\ valuations = <<>>
  /\ events = {}
  /\ drawers = [a \in AssetId |-> None]
  /\ previews = {}
  /\ now = 1

Today == DateOf[now]

\* The bound of the model on what clients and the database hold: a change of
\* position counts once, as its valuation
Room(more) ==
  Len(valuations) + Cardinality({e \in events : e.effectiveAt = None})
    + Cardinality(previews) + more <= MaxRows

Exists(a) == assets[a] # None

-----------------------------------------------------------------------------
(* Valuations *)

ValuationsOf(a) == {i \in DOMAIN valuations : valuations[i].asset = a}

\* order_by(valued_at.desc(), created_at.desc()): the later row wins a day
Supersedes(i, j) ==
  \/ valuations[i].valuedAt > valuations[j].valuedAt
  \/ valuations[i].valuedAt = valuations[j].valuedAt /\ i >= j

\* latest_valuation among the rows dated on or before a day; 0 if there is none
LatestOn(a, day) ==
  LET rows == {i \in ValuationsOf(a) : valuations[i].valuedAt <= day}
  IN IF rows = {} THEN 0 ELSE CHOOSE i \in rows : \A j \in rows : Supersedes(i, j)

Latest(a) ==
  LET rows == ValuationsOf(a)
  IN IF rows = {} THEN 0 ELSE CHOOSE i \in rows : \A j \in rows : Supersedes(i, j)

\* fault: the events are undone oldest first
PositionAtAscending(a, day) ==
  [f \in PositionFields |->
     LET later == {e \in events : /\ e.asset = a /\ e.effectiveAt # None
                                  /\ e.effectiveAt > day /\ e.previous[f] # Unset}
     IN IF later = {} THEN assets[a][f]
        ELSE (CHOOSE e \in later : \A o \in later :
                e.previousRevision >= o.previousRevision).previous[f]]

\* _position_at undoes the events effective after the day, newest first, so
\* that of the events that changed a field the oldest one decides.
PositionAt(a, day) ==
  [f \in PositionFields |->
     LET later == {e \in events : /\ e.asset = a /\ e.effectiveAt # None
                                  /\ e.effectiveAt > day /\ e.previous[f] # Unset}
     IN IF later = {} THEN assets[a][f]
        ELSE (CHOOSE e \in later : \A o \in later :
                e.previousRevision <= o.previousRevision).previous[f]]

\* _manual_valuation: what a user's valuation needs, and the row it makes, with
\* the rate of _manual_fx whether the body states it or not
ManualIsValid(acquired, position, valuedAt, value, price) ==
  /\ valuedAt >= acquired
  /\ price # None => position.quantity # None /\ value = position.quantity * price

ManualRow(a, position, valuedAt, value, price) ==
  [asset |-> a, valuedAt |-> valuedAt, value |-> value, price |-> price,
   quantity |-> position.quantity, cost |-> position.cost, fx |-> "IDENTITY",
   source |-> "MANUAL", quote |-> None, fetchedAt |-> None]

-----------------------------------------------------------------------------
(* Assets *)

\* _validate_state_values, for an asset or the body that creates one
StateIsValid(asset) ==
  /\ asset.kind = "CASH" => asset.cost = None
  /\ asset.quote # None => asset.kind = "SECURITY" /\ asset.quantity # None

Created(body) ==
  [kind |-> body.kind, name |-> body.name, acquired |-> body.acquired,
   quantity |-> body.quantity, cost |-> body.cost, quote |-> body.quote,
   active |-> TRUE, archivedOn |-> None, revision |-> 1]

First(a) == CHOOSE i \in ValuationsOf(a) : \A j \in ValuationsOf(a) : i <= j

\* fault: the payload is compared with the latest valuation, not the first
IsRetryOfLatest(a, body) ==
  /\ \A f \in {"kind", "name", "acquired", "quantity", "cost", "quote"} : assets[a][f] = body[f]
  /\ \A f \in {"valuedAt", "value", "price", "fx"} : valuations[Latest(a)][f] = body[f]

\* _idempotent_asset_read compares the asset as it is now with the payload, and
\* the FX fields that were stored with those that the payload states.
IsRetryOf(a, body) ==
  /\ \A f \in {"kind", "name", "acquired", "quantity", "cost", "quote"} : assets[a][f] = body[f]
  /\ \A f \in {"valuedAt", "value", "price", "fx"} : valuations[First(a)][f] = body[f]

\* POST /assets under the id of the client's drawer.  Once the asset exists a
\* retry changes nothing: IsRetryOf decides between the asset and a 409.
PostAsset(a, body) ==
  /\ ~Exists(a)
  /\ StateIsValid(body)
  /\ ManualIsValid(body.acquired, body, body.valuedAt, body.value, body.price)
  /\ Room(1)
  /\ assets' = [assets EXCEPT ![a] = Created(body)]
  /\ valuations' = Append(valuations, ManualRow(a, body, body.valuedAt, body.value, body.price))
  /\ drawers' = [drawers EXCEPT ![a] = body]
  /\ UNCHANGED <<events, previews, now>>

MayEdit(a, expected) == Exists(a) /\ assets[a].active /\ assets[a].revision = expected

SetFields(patch) == {f \in DOMAIN patch : patch[f] # Unset}
ChangesPosition(patch) == SetFields(patch) \cap PositionFields # {}

\* fault: an edit that is not a change of position keeps the revision
PatchedQuietly(asset, patch) ==
  [f \in DOMAIN asset |->
     IF f \in SetFields(patch) THEN patch[f]
     ELSE IF f = "revision" /\ ChangesPosition(patch) THEN asset.revision + 1
     ELSE IF f = "archivedOn" /\ patch.active = FALSE THEN Today
     ELSE asset[f]]

Patched(asset, patch) ==
  [f \in DOMAIN asset |->
     IF f \in SetFields(patch) THEN patch[f]
     ELSE IF f = "revision" THEN asset.revision + 1
     ELSE IF f = "archivedOn" /\ patch.active = FALSE THEN Today
     ELSE asset[f]]

\* fault: an event keeps the whole asset
BeforeAll(asset, patch) == asset

\* The previous values of an event
Before(asset, patch) ==
  [f \in DOMAIN patch |-> IF patch[f] = Unset THEN Unset ELSE asset[f]]

\* A change of position may not precede a valuation that is already recorded.
EffectiveDateIsValid(a, effectiveAt) ==
  Latest(a) # 0 => effectiveAt >= valuations[Latest(a)].valuedAt

\* The event's values of the fields in the patch
Recorded(a, patch, effectiveAt) ==
  [asset |-> a, archived |-> patch.active = FALSE,
   previousRevision |-> assets[a].revision, effectiveAt |-> effectiveAt,
   previous |-> Before(assets[a], patch), new |-> patch]

\* PATCH /assets/{id} that leaves the position alone: it has no date.
PatchIdentity(a, expected, patch) ==
  /\ MayEdit(a, expected)
  /\ SetFields(patch) # {} /\ ~ChangesPosition(patch)
  /\ Room(1)
  /\ StateIsValid(Patched(assets[a], patch))
  /\ assets' = [assets EXCEPT ![a] = Patched(@, patch)]
  /\ events' = events \cup {Recorded(a, patch, None)}
  /\ UNCHANGED <<valuations, drawers, previews, now>>

\* A change of position comes with the valuation of its effective date.
PatchPosition(a, expected, patch, effectiveAt, value, price) ==
  /\ MayEdit(a, expected)
  /\ ChangesPosition(patch) /\ assets[a].kind # "SECURITY"
  /\ Room(1)
  /\ EffectiveDateIsValid(a, effectiveAt)
  /\ LET asset == Patched(assets[a], patch)
     IN /\ StateIsValid(asset)
        /\ ManualIsValid(asset.acquired, asset, effectiveAt, value, price)
        /\ assets' = [assets EXCEPT ![a] = asset]
        /\ valuations' = Append(valuations, ManualRow(a, asset, effectiveAt, value, price))
  /\ events' = events \cup {Recorded(a, patch, effectiveAt)}
  /\ UNCHANGED <<drawers, previews, now>>

\* POST /assets/{id}/valuations, for any date since the acquisition; the
\* revision stays.
AddValuation(a, expected, valuedAt, value, price) ==
  /\ MayEdit(a, expected)
  /\ Room(1)
  /\ LET position == PositionAt(a, valuedAt)
     IN /\ ManualIsValid(assets[a].acquired, position, valuedAt, value, price)
        /\ valuations' = Append(valuations, ManualRow(a, position, valuedAt, value, price))
  /\ UNCHANGED <<assets, events, drawers, previews, now>>

-----------------------------------------------------------------------------
(* Market quotes *)

Quotable(a) == Exists(a) /\ assets[a].active /\ assets[a].quote # None

Signed(a, interval, valuedAt, price) ==
  [asset |-> a, revision |-> assets[a].revision, quantity |-> assets[a].quantity,
   quote |-> assets[a].quote, valuedAt |-> valuedAt, price |-> price,
   interval |-> interval, fetchedAt |-> now]

\* A read that holds no lock.  Assets of one instrument share the quote the
\* client cached for the request; the assets left out are those that failed.
PreviewQuotes(ids, valuedAt, price) ==
  /\ \A a \in ids : Quotable(a)
  /\ Room(Cardinality(ids))
  /\ \A s \in Symbol : valuedAt[s] <= Today
  /\ previews' = previews \cup
       {Signed(a, "LIVE", valuedAt[assets[a].quote], price[assets[a].quote]) : a \in ids}
  /\ UNCHANGED <<assets, valuations, events, drawers, now>>

StoredMonths(a) ==
  {valuations[i].valuedAt : i \in {j \in ValuationsOf(a) : valuations[j].source = "MONTHLY"}}

\* The completed months since the acquisition that are not stored yet, as far
\* as the provider has a close for them
PreviewHistory(a, months, price) ==
  /\ Quotable(a)
  /\ Room(Cardinality(months))
  /\ months \subseteq {m \in MonthEnd \ StoredMonths(a) : assets[a].acquired <= m /\ m < Today}
  /\ previews' = previews \cup {Signed(a, "MONTHLY", m, price) : m \in months}
  /\ UNCHANGED <<assets, valuations, events, drawers, now>>

QuotesOf(a) == {i \in ValuationsOf(a) : valuations[i].source # "MANUAL"}

\* fault: the fetch of a quote may precede that of a stored one
PersistableUnordered(p) ==
  LET asset == assets[p.asset]
  IN /\ MayEdit(p.asset, p.revision)
     /\ asset.kind = "SECURITY" /\ asset.quote = p.quote /\ asset.quantity = p.quantity
     /\ asset.acquired <= p.valuedAt /\ p.valuedAt <= Today
     /\ now <= p.fetchedAt + MaxAge
     /\ \A i \in QuotesOf(p.asset) :
          <<valuations[i].fetchedAt, valuations[i].valuedAt>> # <<p.fetchedAt, p.valuedAt>>

\* What persist_quote_snapshots and _validate_quote_snapshot ask of each item
Persistable(p) ==
  LET asset == assets[p.asset]
  IN /\ MayEdit(p.asset, p.revision)
     /\ asset.kind = "SECURITY" /\ asset.quote = p.quote /\ asset.quantity = p.quantity
     /\ asset.acquired <= p.valuedAt /\ p.valuedAt <= Today
     /\ now <= p.fetchedAt + MaxAge
     /\ \A i \in QuotesOf(p.asset) :
          /\ <<valuations[i].fetchedAt, valuations[i].valuedAt>> # <<p.fetchedAt, p.valuedAt>>
          /\ p.fetchedAt >= valuations[i].fetchedAt

QuoteRow(p) ==
  [asset |-> p.asset, valuedAt |-> p.valuedAt, value |-> p.quantity * p.price,
   price |-> p.price, quantity |-> p.quantity, cost |-> assets[p.asset].cost,
   fx |-> "IDENTITY", source |-> p.interval, quote |-> p.quote, fetchedAt |-> p.fetchedAt]

\* uq_asset_valuation_monthly over the rows after the insertion
MonthsUnique(rows) ==
  \A i, j \in DOMAIN rows :
    /\ rows[i].source = "MONTHLY" /\ rows[j].source = "MONTHLY"
    /\ rows[i].asset = rows[j].asset /\ rows[i].valuedAt = rows[j].valuedAt
    => i = j

\* POST /portfolio/quote-snapshots: all items are stored, or none
PersistQuotes(items) ==
  /\ items # <<>> /\ Room(Len(items))
  /\ \A i, j \in DOMAIN items :
       /\ items[i].asset = items[j].asset /\ items[i].fetchedAt = items[j].fetchedAt
       /\ items[i].valuedAt = items[j].valuedAt
       => i = j
  /\ \A i \in DOMAIN items : Persistable(items[i])
  /\ LET rows == valuations \o [i \in DOMAIN items |-> QuoteRow(items[i])]
     IN MonthsUnique(rows) /\ valuations' = rows
  /\ UNCHANGED <<assets, events, drawers, previews, now>>

\* A page drops the previews it shows; or the server restarts, and no preview
\* out there verifies any more, since create_app draws a new signing key.
Forget ==
  \E kept \in SUBSET previews :
    /\ kept # previews
    /\ previews' = kept
    /\ UNCHANGED <<assets, valuations, events, drawers, now>>

Tick ==
  /\ now + 1 \in Instant
  /\ now' = now + 1
  /\ UNCHANGED <<assets, valuations, events, drawers, previews>>

-----------------------------------------------------------------------------
Requests == UNION {[1..n -> previews] : n \in 1..MaxRequest}

Next ==
  \/ \E a \in AssetId, body \in Purchases : PostAsset(a, body)
  \/ \E a \in AssetId, expected \in 1..MaxRows, patch \in Patches :
       \/ PatchIdentity(a, expected, patch)
       \/ \E effectiveAt \in Day, value \in Value, price \in Price \cup {None} :
            PatchPosition(a, expected, patch, effectiveAt, value, price)
  \/ \E a \in AssetId, expected \in 1..MaxRows,
        valuedAt \in Day, value \in Value, price \in Price \cup {None} :
       AddValuation(a, expected, valuedAt, value, price)
  \/ \E ids \in SUBSET AssetId \ {{}}, valuedAt \in [Symbol -> Day], price \in [Symbol -> Price] :
       PreviewQuotes(ids, valuedAt, price)
  \/ \E a \in AssetId, months \in SUBSET MonthEnd \ {{}}, price \in Price :
       PreviewHistory(a, months, price)
  \/ \E items \in Requests : PersistQuotes(items)
  \/ Forget
  \/ Tick

Spec == Init /\ [][Next]_vars
=============================================================================
