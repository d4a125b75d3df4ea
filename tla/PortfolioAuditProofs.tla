------------------------ MODULE PortfolioAuditProofs ------------------------
(***************************************************************************)
(* Proofs about the audit events of an asset: that they number and explain *)
(* its edits without a gap, that the report of any day shows the position  *)
(* they say was in effect and is not changed by later ones, that quotes    *)
(* reach the reports, and that the history and the allocation agree with   *)
(* them, for any assets, dates and bounds.                                 *)
(*                                                                         *)
(* What an asset's events say is stated for a set of events E, so that the *)
(* lemmas about one more event mention no step.                            *)
(***************************************************************************)
EXTENDS PortfolioProofs, FiniteSums

-----------------------------------------------------------------------------
(* The inductive invariant of the trail and of the rows *)

Audited == {"name", "quantity", "cost", "quote"}

\* Of a set of changes of a field, the last one leaves v; none leave the start.
Leaves(changes, f, start, v) ==
  \/ changes = {} /\ v = start
  \/ \E last \in changes :
       /\ \A e \in changes : e.previousRevision <= last.previousRevision
       /\ v = last.new[f]

ChangesBefore(E, f, n) == {e \in E : e.new[f] # Unset /\ e.previousRevision < n}
ChangesBy(E, f, day) ==
  {e \in E : e.effectiveAt # None /\ e.effectiveAt <= day /\ e.new[f] # Unset}

\* The events number the revisions before n.
Numbered(E, n) ==
  /\ n \in Nat /\ n >= 1
  /\ IsFiniteSet(E) /\ Cardinality(E) = n - 1
  /\ \A e \in E : e.previousRevision \in 1..(n - 1)
  /\ \A r \in 1..(n - 1) : \E e \in E : e.previousRevision = r
  /\ \A e, o \in E : e.previousRevision = o.previousRevision => e = o

\* Each event follows from those before it, and the asset from all of them.
Followed(asset, origin, E) ==
  /\ origin \in Purchase
  /\ \A e \in E, f \in Audited :
       /\ e.new[f] # Unset <=> e.previous[f] # Unset
       /\ e.new[f] # Unset =>
            Leaves(ChangesBefore(E, f, e.previousRevision), f, origin[f], e.previous[f])
  /\ \A f \in Audited : Leaves(ChangesBefore(E, f, asset.revision), f, origin[f], asset[f])
  /\ (\E e \in E : e.archived) <=> ~asset.active

\* Positions change in the order of their effective dates, each on a day that
\* has a valuation, and never for a security.
Dated(kind, E, days) ==
  /\ \A e \in E : e.effectiveAt # None => kind # "SECURITY" /\ e.effectiveAt \in days
  /\ \A e \in E, f \in PositionFields : e.new[f] # Unset => e.effectiveAt # None
  /\ \A e, o \in E :
       /\ e.effectiveAt # None /\ o.effectiveAt # None
       /\ e.previousRevision < o.previousRevision
       => e.effectiveAt <= o.effectiveAt

DaysOf(a) == {valuations[i].valuedAt : i \in ValuationsOf(a)}

TrailsFit ==
  \A a \in AssetId : Exists(a) =>
    /\ Numbered(EventsOf(a), assets[a].revision)
    /\ Followed(assets[a], drawers[a], EventsOf(a))
    /\ Dated(assets[a].kind, EventsOf(a), DaysOf(a))

\* The last valuation of a day has the position of the day.
LastOfDay(a, i) ==
  \A j \in ValuationsOf(a) : valuations[j].valuedAt = valuations[i].valuedAt => j <= i

WasOn(E, origin, day, row) ==
  \A f \in PositionFields : Leaves(ChangesBy(E, f, day), f, origin[f], row[f])

RowsFit ==
  \A a \in AssetId : \A i \in ValuationsOf(a) :
    LastOfDay(a, i) => WasOn(EventsOf(a), drawers[a], valuations[i].valuedAt, valuations[i])

AuditInv == TrailsFit /\ RowsFit
-----------------------------------------------------------------------------
(* One more event *)

\* An edit at revision n adds the event numbered n.
LEMMA NumbersGrow ==
  ASSUME NEW E, NEW n, Numbered(E, n), NEW e, e.previousRevision = n
  PROVE  Numbered(E \cup {e}, n + 1)
<1>1. n \in Nat /\ n >= 1 /\ (n + 1) - 1 = n
  BY DEF Numbered
<1>2. e \notin E
  BY <1>1 DEF Numbered
<1>3. IsFiniteSet(E \cup {e}) /\ Cardinality(E \cup {e}) = (n - 1) + 1
  BY <1>2, FS_AddElement DEF Numbered
<1>4. \A o \in E \cup {e} : o.previousRevision \in 1..n
  BY <1>1 DEF Numbered
<1>5. \A r \in 1..n : \E o \in E \cup {e} : o.previousRevision = r
  BY <1>1 DEF Numbered
<1>6. \A o, p \in E \cup {e} : o.previousRevision = p.previousRevision => o = p
  BY <1>1 DEF Numbered
<1>7. (n - 1) + 1 = n /\ n + 1 \in Nat /\ n + 1 >= 1
  BY <1>1
<1>8. QED
  BY <1>1, <1>3, <1>4, <1>5, <1>6, <1>7 DEF Numbered

\* It follows what the others left, and leaves what it sets.
LEMMA ChangesGrow ==
  ASSUME NEW E, NEW n, Numbered(E, n), NEW e, e.previousRevision = n, NEW f
  PROVE  /\ \A m \in 1..n : ChangesBefore(E \cup {e}, f, m) = ChangesBefore(E, f, m)
         /\ \A start, v : Leaves(ChangesBefore(E, f, n), f, start, v) =>
              Leaves(ChangesBefore(E \cup {e}, f, n + 1), f, start,
                     IF e.new[f] # Unset THEN e.new[f] ELSE v)
<1>1. n \in Nat /\ n >= 1 /\ \A o \in E : o.previousRevision \in Nat /\ o.previousRevision < n
  BY DEF Numbered
<1>2. ASSUME NEW m \in 1..n PROVE ChangesBefore(E \cup {e}, f, m) = ChangesBefore(E, f, m)
  BY <1>1 DEF ChangesBefore
<1>3. CASE e.new[f] # Unset
  <2>1. e \in ChangesBefore(E \cup {e}, f, n + 1)
    BY <1>1, <1>3 DEF ChangesBefore
  <2>2. \A o \in ChangesBefore(E \cup {e}, f, n + 1) : o.previousRevision <= e.previousRevision
    BY <1>1 DEF ChangesBefore
  <2>3. QED
    BY <1>2, <1>3, <2>1, <2>2 DEF Leaves
<1>4. CASE e.new[f] = Unset
  <2>1. ChangesBefore(E \cup {e}, f, n + 1) = ChangesBefore(E, f, n)
    BY <1>1, <1>4 DEF ChangesBefore
  <2>2. QED
    BY <1>2, <1>4, <2>1
<1>5. QED
  BY <1>3, <1>4

\* An edit of an asset goes on with its trail.
LEMMA TrailGrows ==
  ASSUME NEW asset, NEW next, NEW origin, NEW E, NEW e,
         Numbered(E, asset.revision), Followed(asset, origin, E), asset.active,
         e.previousRevision = asset.revision, next.revision = asset.revision + 1,
         \A f \in Audited :
           /\ next[f] = IF e.new[f] # Unset THEN e.new[f] ELSE asset[f]
           /\ asset[f] # Unset
           /\ e.previous[f] = IF e.new[f] # Unset THEN asset[f] ELSE Unset,
         next.active <=> ~e.archived
  PROVE  Followed(next, origin, E \cup {e})
<1> DEFINE n == asset.revision
<1>1. /\ n \in Nat /\ n \in 1..n /\ Numbered(E, n) /\ e.previousRevision = n
      /\ next.revision = n + 1 /\ \A o \in E : o.previousRevision \in 1..n
  BY DEF Numbered
<1>2. /\ origin \in Purchase
      /\ \A o \in E, f \in Audited :
           /\ o.new[f] # Unset <=> o.previous[f] # Unset
           /\ o.new[f] # Unset =>
                Leaves(ChangesBefore(E, f, o.previousRevision), f, origin[f], o.previous[f])
      /\ \A f \in Audited : Leaves(ChangesBefore(E, f, n), f, origin[f], asset[f])
      /\ \A o \in E : ~o.archived
  BY DEF Followed
<1> HIDE DEF n
<1>3. \A f \in Audited, m \in 1..n :
        ChangesBefore(E \cup {e}, f, m) = ChangesBefore(E, f, m)
  BY <1>1, ChangesGrow
<1>4. \A f \in Audited : Leaves(ChangesBefore(E \cup {e}, f, n + 1), f, origin[f], next[f])
  BY <1>1, <1>2, ChangesGrow
<1>5. ASSUME NEW o \in E \cup {e}, NEW f \in Audited
      PROVE  /\ o.new[f] # Unset <=> o.previous[f] # Unset
             /\ o.new[f] # Unset =>
                  Leaves(ChangesBefore(E \cup {e}, f, o.previousRevision), f,
                         origin[f], o.previous[f])
  <2>1. CASE o \in E
    BY <1>1, <1>2, <1>3, <2>1
  <2>2. CASE o = e
    BY <1>1, <1>2, <1>3, <2>2
  <2>3. QED
    BY <2>1, <2>2
<1>6. (\E o \in E \cup {e} : o.archived) <=> ~next.active
  BY <1>2
<1>7. QED
  BY <1>1, <1>2, <1>4, <1>5, <1>6 DEF Followed

\* Every change of position by a day, and none after it: the asset's position
\* is the position of the day.
LEMMA PresentPosition ==
  ASSUME NEW kind, NEW E, NEW days, NEW n, NEW day, NEW f \in PositionFields,
         Numbered(E, n), Dated(kind, E, days),
         \A e \in E : e.effectiveAt # None /\ e.new[f] # Unset => e.effectiveAt <= day
  PROVE  ChangesBy(E, f, day) = ChangesBefore(E, f, n)
<1>1. \A e \in E : e.previousRevision < n
  BY DEF Numbered
<1>2. QED
  BY <1>1 DEF ChangesBy, ChangesBefore, Dated

\* Undoing the later changes, newest first, leads to the position of the day.
LEMMA UndoneTo ==
  ASSUME NEW kind, NEW E, NEW days, NEW n, NEW day \in Nat, NEW f \in PositionFields,
         Numbered(E, n), Dated(kind, E, days), E \subseteq Event,
         NEW c \in E, c.effectiveAt # None, c.effectiveAt > day,
         \A o \in E : o.effectiveAt # None /\ o.effectiveAt > day /\ o.new[f] # Unset
                        => c.previousRevision <= o.previousRevision
  PROVE  ChangesBy(E, f, day) = ChangesBefore(E, f, c.previousRevision)
<1>1. \A e \in E : /\ e.previousRevision \in Nat
                   /\ e.effectiveAt # None => e.effectiveAt \in Nat
  BY TimeAssumption DEF Event
<1>2. ASSUME NEW e \in ChangesBy(E, f, day) PROVE e.previousRevision < c.previousRevision
  <2>1. e \in E /\ e.effectiveAt # None /\ e.effectiveAt <= day /\ e.new[f] # Unset
    BY <1>2 DEF ChangesBy
  <2>2. e # c
    BY <1>1, <2>1
  <2>3. e.previousRevision # c.previousRevision
    BY <2>1, <2>2 DEF Numbered
  <2>4. ~(c.previousRevision < e.previousRevision)
    BY <1>1, <2>1 DEF Dated
  <2>5. QED
    BY <1>1, <2>1, <2>3, <2>4
<1>3. ASSUME NEW e \in ChangesBefore(E, f, c.previousRevision)
      PROVE  e \in ChangesBy(E, f, day)
  <2>1. e \in E /\ e.new[f] # Unset /\ e.previousRevision < c.previousRevision
    BY <1>3 DEF ChangesBefore
  <2>2. e.effectiveAt # None
    BY <2>1 DEF Dated
  <2>3. ~(e.effectiveAt > day)
    BY <1>1, <2>1, <2>2
  <2>4. QED
    BY <1>1, <2>1, <2>2, <2>3 DEF ChangesBy
<1>4. QED
  BY <1>2, <1>3 DEF ChangesBy, ChangesBefore

\* A dated edit comes on or after every day that has a valuation.
LEMMA DatesGrow ==
  ASSUME NEW kind, NEW E, NEW n, NEW days, NEW more, Numbered(E, n), Dated(kind, E, days),
         E \subseteq Event, days \subseteq Nat, days \subseteq more,
         NEW e, e.previousRevision = n,
         e.effectiveAt = None => \A f \in PositionFields : e.new[f] = Unset,
         e.effectiveAt # None =>
           /\ kind # "SECURITY" /\ e.effectiveAt \in more /\ e.effectiveAt \in Nat
           /\ \A d \in days : d <= e.effectiveAt
  PROVE  Dated(kind, E \cup {e}, more)
<1>1. n \in Nat /\ \A o \in E : o.previousRevision \in Nat /\ o.previousRevision < n
  BY DEF Numbered
<1>2. /\ \A o \in E : o.effectiveAt # None => kind # "SECURITY" /\ o.effectiveAt \in days
      /\ \A o \in E, f \in PositionFields : o.new[f] # Unset => o.effectiveAt # None
  BY DEF Dated
<1>3. ASSUME NEW o \in E \cup {e}, NEW p \in E \cup {e},
             o.effectiveAt # None, p.effectiveAt # None, o.previousRevision < p.previousRevision
      PROVE  o.effectiveAt <= p.effectiveAt
  <2>1. CASE o \in E /\ p \in E
    BY <1>3, <2>1 DEF Dated
  <2>2. CASE o \in E /\ p = e
    BY <1>2, <1>3, <2>2
  <2>3. CASE o = e
    BY <1>1, <1>3, <2>3
  <2>4. QED
    BY <2>1, <2>2, <2>3
<1>4. \A o \in E \cup {e} : o.effectiveAt # None => kind # "SECURITY" /\ o.effectiveAt \in more
  BY <1>2
<1>5. \A o \in E \cup {e}, f \in PositionFields : o.new[f] # Unset => o.effectiveAt # None
  BY <1>2
<1>6. QED
  BY <1>3, <1>4, <1>5 DEF Dated

\* The new event changes the position of no earlier day.
LEMMA EarlierDaysStay ==
  ASSUME NEW E, NEW e, NEW f, NEW day \in Nat,
         \/ e.new[f] = Unset
         \/ e.effectiveAt \in Nat /\ day < e.effectiveAt
  PROVE  ChangesBy(E \cup {e}, f, day) = ChangesBy(E, f, day)
BY DEF ChangesBy

\* What the last of the changes left is what the events replay to.
LEMMA LeavesOne ==
  ASSUME NEW E, NEW n, Numbered(E, n), NEW changes, changes \subseteq E, NEW f, NEW start, NEW v,
         Leaves(changes, f, start, v)
  PROVE  v = IF changes = {} THEN start
             ELSE (CHOOSE e \in changes : \A o \in changes :
                     e.previousRevision >= o.previousRevision).new[f]
<1>1. CASE changes = {}
  BY <1>1 DEF Leaves
<1>2. CASE changes # {}
  <2>1. PICK last \in changes :
          (\A e \in changes : e.previousRevision <= last.previousRevision) /\ v = last.new[f]
    BY <1>2 DEF Leaves
  <2>2. \A e \in changes : e.previousRevision \in Nat
    BY DEF Numbered
  <2>3. ASSUME NEW e \in changes, \A o \in changes : e.previousRevision >= o.previousRevision
        PROVE  e = last
    <3>1. e.previousRevision = last.previousRevision
      BY <2>1, <2>2, <2>3
    <3>2. QED
      BY <3>1 DEF Numbered
  <2>4. \A o \in changes : last.previousRevision >= o.previousRevision
    BY <2>1, <2>2
  <2> DEFINE c == CHOOSE e \in changes : \A o \in changes :
                    e.previousRevision >= o.previousRevision
  <2>5. c \in changes /\ \A o \in changes : c.previousRevision >= o.previousRevision
    BY <2>4
  <2> HIDE DEF c
  <2>6. v = c.new[f]
    BY <2>1, <2>3, <2>5
  <2>7. v = (CHOOSE e \in changes : \A o \in changes :
               e.previousRevision >= o.previousRevision).new[f]
    BY <2>6 DEF c
  <2>8. QED
    BY <1>2, <2>7
<1>3. QED
  BY <1>1, <1>2

\* PositionAt undoes an asset's events to the position of the day.
LEMMA PositionIs ==
  ASSUME TypeOK, TrailsFit, NEW a \in AssetId, Exists(a), NEW day \in Day
  PROVE  WasOn(EventsOf(a), drawers[a], day, PositionAt(a, day))
<1> DEFINE E == EventsOf(a)
           n == assets[a].revision
<1>1. /\ Numbered(E, n) /\ Followed(assets[a], drawers[a], E)
      /\ Dated(assets[a].kind, E, DaysOf(a)) /\ E \subseteq Event
      /\ \A e \in E : e \in events /\ e.asset = a
      /\ \A e \in events : e.asset = a => e \in E
  BY DEF TrailsFit, TypeOK, EventsOf
<1>2. /\ \A f \in PositionFields : Leaves(ChangesBefore(E, f, n), f, drawers[a][f], assets[a][f])
      /\ \A e \in E, f \in PositionFields :
           /\ e.new[f] # Unset <=> e.previous[f] # Unset
           /\ e.new[f] # Unset =>
                Leaves(ChangesBefore(E, f, e.previousRevision), f, drawers[a][f], e.previous[f])
  BY <1>1 DEF Followed, Audited, PositionFields
<1>3. day \in Nat
  BY TimeAssumption
<1> HIDE DEF E, n
<1>4. ASSUME NEW f \in PositionFields
      PROVE  Leaves(ChangesBy(E, f, day), f, drawers[a][f], PositionAt(a, day)[f])
  <2> DEFINE later == {e \in events : /\ e.asset = a /\ e.effectiveAt # None
                                      /\ e.effectiveAt > day /\ e.previous[f] # Unset}
  <2>0. \A e : e \in later <=> /\ e \in E /\ e.effectiveAt # None /\ e.effectiveAt > day
                               /\ e.new[f] # Unset
    BY <1>1, <1>2
  <2>1. CASE later = {}
    <3>1. PositionAt(a, day)[f] = assets[a][f]
      BY <2>1 DEF PositionAt
    <3> HIDE DEF later
    <3>2. \A e \in E : e.effectiveAt # None /\ e.new[f] # Unset => e.effectiveAt <= day
      <4>1. \A e \in E : e.effectiveAt # None => e.effectiveAt \in Nat
        BY <1>1, TimeAssumption DEF Event
      <4>2. QED
        BY <1>3, <2>0, <2>1, <4>1
    <3>3. ChangesBy(E, f, day) = ChangesBefore(E, f, n)
      BY <1>1, <3>2, PresentPosition
    <3>4. QED
      BY <1>2, <3>1, <3>3
  <2>2. CASE later # {}
    <3> DEFINE Numbers == {e.previousRevision : e \in later}
    <3>1. Numbers \subseteq Nat /\ Numbers # {}
      BY <2>2 DEF TypeOK, Event
    <3>2. PICK least \in Numbers : \A k \in Numbers : least <= k
      BY <3>1, LeastNatural
    <3>3. PICK e \in later : e.previousRevision = least
      BY <3>2
    <3>4. \A o \in later : e.previousRevision <= o.previousRevision
      BY <3>2, <3>3
    <3> DEFINE c == CHOOSE d \in later : \A o \in later :
                      d.previousRevision <= o.previousRevision
    <3>5. c \in later /\ \A o \in later : c.previousRevision <= o.previousRevision
      BY <3>4
    <3>6. PositionAt(a, day)[f] = c.previous[f]
      BY <2>2 DEF PositionAt
    <3> HIDE DEF c, later
    <3>7. c \in E /\ c.effectiveAt # None /\ c.effectiveAt > day /\ c.new[f] # Unset
      BY <2>0, <3>5
    <3>8. ChangesBy(E, f, day) = ChangesBefore(E, f, c.previousRevision)
      BY <1>1, <1>3, <2>0, <3>5, <3>7, UndoneTo
    <3>9. QED
      BY <1>2, <3>6, <3>7, <3>8
  <2>3. QED
    BY <2>1, <2>2
<1>5. QED
  BY <1>4 DEF WasOn, E
-----------------------------------------------------------------------------
(* Rows *)

LEMMA RowDates ==
  ASSUME TypeOK
  PROVE  /\ Len(valuations) \in Nat /\ DOMAIN valuations = 1..Len(valuations)
         /\ \A j \in DOMAIN valuations :
              valuations[j] \in Valuation /\ valuations[j].valuedAt \in Nat /\ j \in Nat /\ j # 0
<1>1. valuations \in Seq(Valuation)
  BY DEF TypeOK
<1>2. \A j \in DOMAIN valuations : valuations[j] \in Valuation
  BY <1>1
<1>3. \A v \in Valuation : v.valuedAt \in Nat
  BY TimeAssumption DEF Valuation
<1>4. Len(valuations) \in Nat /\ DOMAIN valuations = 1..Len(valuations)
  BY <1>1
<1>5. \A j \in DOMAIN valuations : j \in Nat /\ j # 0
  BY <1>4
<1>6. QED
  BY <1>2, <1>3, <1>4, <1>5

\* Of any rows there is one that supersedes them all.
LEMMA SupersedingRow ==
  ASSUME TypeOK, NEW rows, rows \subseteq DOMAIN valuations, rows # {}
  PROVE  \E i \in rows : \A j \in rows : Supersedes(i, j)
<1>1. Len(valuations) \in Nat /\ DOMAIN valuations = 1..Len(valuations)
  BY RowDates
<1>2. \A i \in rows : i \in Nat /\ i <= Len(valuations)
  BY <1>1
<1>0. \A i \in rows : valuations[i].valuedAt \in Nat
  BY RowDates
<1> DEFINE Best(S) == \E i \in S : \A j \in S : Supersedes(i, j)
           UpTo(n) == {i \in rows : i <= n}
           Bad == {n \in 0..Len(valuations) : UpTo(n) # {} /\ ~Best(UpTo(n))}
<1>3. /\ \A n, i : i \in UpTo(n) <=> i \in rows /\ i <= n
      /\ \A n : n \in Bad <=> n \in 0..Len(valuations) /\ UpTo(n) # {} /\ ~Best(UpTo(n))
  OBVIOUS
<1> HIDE DEF Best, UpTo, Bad
<1>4. Bad = {}
  <2> SUFFICES ASSUME Bad # {} PROVE FALSE
    OBVIOUS
  <2>1. Bad \subseteq Nat
    BY <1>1, <1>3
  <2>2. PICK n \in Bad : \A m \in Bad : n <= m
    BY <2>1, LeastNatural
  <2>3. n \in 0..Len(valuations) /\ UpTo(n) # {} /\ ~Best(UpTo(n))
    BY <1>3
  <2>4. n \in Nat /\ n # 0
    BY <1>1, <1>2, <1>3, <2>3
  <2>5. UpTo(n - 1) = {} \/ Best(UpTo(n - 1))
    BY <1>1, <1>3, <2>2, <2>3, <2>4
  <2>6. /\ \A j \in UpTo(n) : j = n \/ j \in UpTo(n - 1)
        /\ \A j \in UpTo(n - 1) : j \in rows /\ j \in Nat /\ j < n
    BY <1>2, <1>3, <2>4
  <2>7. n \in rows
    <3>1. CASE n \notin rows
      <4>1. \A i \in rows : i <= n <=> i <= n - 1
        BY <1>2, <2>4, <3>1
      <4>2. UpTo(n) = UpTo(n - 1)
        BY <4>1 DEF UpTo
      <4>3. QED
        BY <2>3, <2>5, <4>2
    <3>2. QED
      BY <3>1
  <2>8. n \in UpTo(n) /\ Supersedes(n, n)
    BY <1>3, <2>4, <2>7 DEF Supersedes
  <2>9. CASE UpTo(n - 1) = {}
    <3>1. \A j \in UpTo(n) : Supersedes(n, j)
      BY <2>6, <2>8, <2>9
    <3>2. QED
      BY <2>3, <2>8, <3>1 DEF Best
  <2>10. CASE Best(UpTo(n - 1))
    <3>1. PICK i \in UpTo(n - 1) : \A j \in UpTo(n - 1) : Supersedes(i, j)
      BY <2>10 DEF Best
    <3>2. i \in UpTo(n) /\ i < n /\ i \in rows
      BY <1>2, <1>3, <2>4, <2>6
    <3>3. CASE valuations[i].valuedAt > valuations[n].valuedAt
      <4>1. Supersedes(i, n)
        BY <3>3 DEF Supersedes
      <4>2. \A j \in UpTo(n) : Supersedes(i, j)
        BY <2>6, <3>1, <4>1
      <4>3. QED
        BY <2>3, <3>2, <4>2 DEF Best
    <3>4. CASE valuations[i].valuedAt <= valuations[n].valuedAt
      <4>1. ASSUME NEW j \in UpTo(n - 1) PROVE Supersedes(n, j)
        <5>1. Supersedes(i, j) /\ j \in rows /\ j \in Nat /\ j < n
          BY <2>6, <3>1, <4>1
        <5>2. valuations[j].valuedAt <= valuations[i].valuedAt
          BY <1>0, <3>2, <5>1 DEF Supersedes
        <5>3. valuations[j].valuedAt <= valuations[n].valuedAt
          BY <1>0, <2>7, <3>2, <3>4, <5>1, <5>2
        <5>4. QED
          BY <1>0, <2>4, <2>7, <5>1, <5>3 DEF Supersedes
      <4>2. \A j \in UpTo(n) : Supersedes(n, j)
        BY <2>6, <2>8, <4>1
      <4>3. QED
        BY <2>3, <2>8, <4>2 DEF Best
    <3>5. QED
      BY <1>0, <2>7, <3>2, <3>3, <3>4
  <2>11. QED
    BY <2>5, <2>9, <2>10
<1>5. UpTo(Len(valuations)) = rows
  BY <1>2 DEF UpTo
<1>6. Len(valuations) \in 0..Len(valuations)
  BY <1>1
<1>7. QED
  BY <1>3, <1>4, <1>5, <1>6 DEF Best

\* No row of an asset is dated after its latest valuation.
LEMMA LatestIs ==
  ASSUME TypeOK, NEW a \in AssetId, ValuationsOf(a) # {}
  PROVE  /\ Latest(a) \in ValuationsOf(a) /\ Latest(a) # 0
         /\ \A j \in ValuationsOf(a) : valuations[j].valuedAt <= valuations[Latest(a)].valuedAt
<1> DEFINE i == CHOOSE i \in ValuationsOf(a) : \A j \in ValuationsOf(a) : Supersedes(i, j)
<1>1. /\ ValuationsOf(a) \subseteq DOMAIN valuations
      /\ \A j \in ValuationsOf(a) : valuations[j].valuedAt \in Nat /\ j \in Nat /\ j # 0
  BY RowDates DEF ValuationsOf
<1>2. \E k \in ValuationsOf(a) : \A j \in ValuationsOf(a) : Supersedes(k, j)
  BY <1>1, SupersedingRow
<1>3. i \in ValuationsOf(a) /\ \A j \in ValuationsOf(a) : Supersedes(i, j)
  BY <1>2
<1>4. Latest(a) = i
  BY DEF Latest
<1> HIDE DEF i
<1>5. \A j \in ValuationsOf(a) : valuations[j].valuedAt <= valuations[i].valuedAt
  BY <1>1, <1>3 DEF Supersedes
<1>6. QED
  BY <1>1, <1>3, <1>4, <1>5

\* The row a report shows is the last of its day, and none that counts by the
\* day of the report is dated later.
LEMMA LatestOnIs ==
  ASSUME TypeOK, NEW a \in AssetId, NEW day \in Day, LatestOn(a, day) # 0
  PROVE  LET i == LatestOn(a, day)
         IN /\ i \in ValuationsOf(a) /\ valuations[i].valuedAt <= day /\ LastOfDay(a, i)
            /\ \A j \in ValuationsOf(a) :
                 valuations[j].valuedAt <= day =>
                   valuations[j].valuedAt <= valuations[i].valuedAt
<1> DEFINE rows == {i \in ValuationsOf(a) : valuations[i].valuedAt <= day}
           i == CHOOSE i \in rows : \A j \in rows : Supersedes(i, j)
<1>1. /\ ValuationsOf(a) \subseteq DOMAIN valuations
      /\ \A j \in ValuationsOf(a) : valuations[j].valuedAt \in Nat /\ j \in Nat /\ j # 0
  BY RowDates DEF ValuationsOf
<1>2. rows # {} /\ rows \subseteq DOMAIN valuations
  BY <1>1 DEF LatestOn
<1>3. \E k \in rows : \A j \in rows : Supersedes(k, j)
  BY <1>2, SupersedingRow
<1>4. i \in rows /\ \A j \in rows : Supersedes(i, j)
  BY <1>3
<1>5. LatestOn(a, day) = i
  BY <1>2 DEF LatestOn
<1> HIDE DEF i
<1>6. /\ i \in ValuationsOf(a) /\ valuations[i].valuedAt <= day
      /\ \A j \in ValuationsOf(a) : valuations[j].valuedAt <= day => Supersedes(i, j)
  BY <1>4
<1>7. \A j \in ValuationsOf(a) :
        valuations[j].valuedAt <= day => valuations[j].valuedAt <= valuations[i].valuedAt
  BY <1>1, <1>6 DEF Supersedes
<1>8. LastOfDay(a, i)
  <2> SUFFICES ASSUME NEW j \in ValuationsOf(a), valuations[j].valuedAt = valuations[i].valuedAt
               PROVE  j <= i
    BY DEF LastOfDay
  <2>1. Supersedes(i, j)
    BY <1>6
  <2>2. QED
    BY <1>1, <1>6, <2>1 DEF Supersedes
<1>9. QED
  BY <1>5, <1>6, <1>7, <1>8

\* The rows of an asset stay, and the last of a day was the last before.
LEMMA RowsStay ==
  ASSUME IInv, [Next]_vars, NEW a \in AssetId
  PROVE  /\ ValuationsOf(a) \subseteq ValuationsOf(a)'
         /\ DaysOf(a) \subseteq DaysOf(a)' /\ DaysOf(a) \subseteq Nat
         /\ \A i \in ValuationsOf(a) :
              valuations'[i] = valuations[i] /\ (LastOfDay(a, i)' => LastOfDay(a, i))
<1>1. /\ valuations \in Seq(Valuation) /\ valuations' \in Seq(Valuation)
      /\ Len(valuations) \in Nat /\ Len(valuations') \in Nat
      /\ Len(valuations) <= Len(valuations')
      /\ \A i \in 1..Len(valuations) : valuations'[i] = valuations[i]
  BY RowsGrow DEF IInv, TypeOK
<1>2. \A i \in ValuationsOf(a) : i \in ValuationsOf(a)' /\ valuations'[i] = valuations[i]
  BY <1>1 DEF ValuationsOf
<1>3. \A i \in ValuationsOf(a) : LastOfDay(a, i)' => LastOfDay(a, i)
  BY <1>2 DEF LastOfDay
<1>4. DaysOf(a) \subseteq DaysOf(a)'
  BY <1>2 DEF DaysOf
<1>5. DaysOf(a) \subseteq Nat
  BY RowDates DEF DaysOf, ValuationsOf, IInv
<1>6. QED
  BY <1>2, <1>3, <1>4, <1>5
-----------------------------------------------------------------------------
(* Edits *)

\* An edit of the identity has no date; one of the position comes with the row
\* of its date.
Edits(a, patch, effectiveAt) ==
  /\ Exists(a) /\ assets[a].active
  /\ assets' = [assets EXCEPT ![a] = Patched(@, patch)]
  /\ events' = events \cup {Recorded(a, patch, effectiveAt)}
  /\ UNCHANGED drawers
  /\ IF effectiveAt = None THEN ~ChangesPosition(patch) /\ UNCHANGED valuations
     ELSE /\ assets[a].kind # "SECURITY" /\ EffectiveDateIsValid(a, effectiveAt)
          /\ \E value, price :
               valuations' = Append(valuations, ManualRow(a, Patched(assets[a], patch),
                                                          effectiveAt, value, price))

LEMMA IdentityEdits ==
  ASSUME NEW a \in AssetId, NEW expected, NEW patch \in Patches,
         PatchIdentity(a, expected, patch)
  PROVE  Edits(a, patch, None)
BY DEF PatchIdentity, MayEdit, Edits

LEMMA PositionEdits ==
  ASSUME NEW a \in AssetId, NEW expected, NEW patch \in Patches, NEW effectiveAt \in Day,
         NEW value, NEW price, PatchPosition(a, expected, patch, effectiveAt, value, price)
  PROVE  Edits(a, patch, effectiveAt)
<1>1. effectiveAt # None
  BY SentinelAssumption
<1>2. assets' = [assets EXCEPT ![a] = Patched(@, patch)]
  BY DEF PatchPosition
<1>3. QED
  BY <1>1, <1>2 DEF PatchPosition, MayEdit, Edits

LEMMA EditSteps ==
  ASSUME IInv, [Next]_vars
  PROVE  \/ UNCHANGED <<assets, events, drawers>>
         \/ \E a \in AssetId, body \in Purchases : PostAsset(a, body)
         \/ \E a \in AssetId, patch \in Patches, effectiveAt \in Day \cup {None} :
              Edits(a, patch, effectiveAt)
<1>1. CASE UNCHANGED <<assets, events, drawers>>
  BY <1>1
<1>2. QED
  BY <1>1, IdentityEdits, PositionEdits
  DEF Next, vars, AddValuation, PreviewQuotes, PreviewHistory, PersistQuotes, Forget, Tick

\* What an edit makes of the asset, and the event it adds.
LEMMA EditIs ==
  ASSUME IInv, NEW a \in AssetId, NEW patch \in Patches, NEW effectiveAt \in Day \cup {None},
         Edits(a, patch, effectiveAt), NEW e, e = Recorded(a, patch, effectiveAt)
  PROVE  /\ assets[a] \in Asset /\ assets'[a] = Patched(assets[a], patch)
         /\ assets'[a] \in Asset
         /\ assets'[a].revision = assets[a].revision + 1
         /\ assets'[a].kind = assets[a].kind
         /\ assets'[a].active <=> ~e.archived
         /\ \A f \in Audited :
              /\ assets'[a][f] = IF e.new[f] # Unset THEN e.new[f] ELSE assets[a][f]
              /\ assets[a][f] # Unset
              /\ e.previous[f] = IF e.new[f] # Unset THEN assets[a][f] ELSE Unset
         /\ e.previousRevision = assets[a].revision
         /\ e.effectiveAt = effectiveAt
         /\ effectiveAt = None => \A f \in PositionFields : e.new[f] = Unset
         /\ EventsOf(a)' = EventsOf(a) \cup {e}
         /\ drawers' = drawers
         /\ \A b \in AssetId : b # a =>
              assets'[b] = assets[b] /\ EventsOf(b)' = EventsOf(b)
<1>1. /\ assets \in [AssetId -> Asset \cup {None}] /\ assets[a] \in Asset
      /\ assets[a].revision \in Nat /\ assets[a].active = TRUE
  BY DEF IInv, TypeOK, Edits, Exists, Asset
<1>2. patch \in Patch
  BY PatchAssumption
<1>3. /\ Patched(assets[a], patch) \in Asset
      /\ Patched(assets[a], patch).revision = assets[a].revision + 1
      /\ Patched(assets[a], patch).kind = assets[a].kind
  BY <1>1, <1>2, PatchedType DEF IInv
<1>4. assets'[a] = Patched(assets[a], patch) /\ \A b \in AssetId : b # a => assets'[b] = assets[b]
  BY <1>1 DEF Edits
<1>5. DOMAIN patch = {"name", "quantity", "cost", "quote", "active"}
  BY <1>2 DEF Patch
<1>6. DOMAIN assets[a] = {"kind", "name", "acquired", "quantity", "cost", "quote", "active",
                          "archivedOn", "revision"}
  BY <1>1 DEF Asset
<1>7. \A f \in Audited : assets[a][f] # Unset
  BY <1>1, SentinelAssumption DEF Asset, Audited
<1>8. /\ \A f \in Audited :
           Patched(assets[a], patch)[f] = IF patch[f] # Unset THEN patch[f] ELSE assets[a][f]
      /\ Patched(assets[a], patch).active = IF patch.active # Unset THEN patch.active ELSE TRUE
  BY <1>1, <1>5, <1>6 DEF Patched, SetFields, Audited
<1>9. /\ e.asset = a /\ e.previousRevision = assets[a].revision
      /\ e.effectiveAt = effectiveAt /\ e.archived = (patch.active = FALSE)
      /\ e.new = patch /\ e.previous = Before(assets[a], patch)
  BY DEF Recorded
<1>10. \A f \in Audited : e.previous[f] = IF patch[f] # Unset THEN assets[a][f] ELSE Unset
  BY <1>5, <1>9 DEF Before, Audited
<1>11. events' = events \cup {e} /\ drawers' = drawers
  BY DEF Edits
<1>12. /\ EventsOf(a)' = EventsOf(a) \cup {e}
       /\ \A b \in AssetId : b # a => EventsOf(b)' = EventsOf(b)
  BY <1>9, <1>11 DEF EventsOf
<1>13. effectiveAt = None => \A f \in PositionFields : patch[f] = Unset
  BY <1>5 DEF Edits, ChangesPosition, SetFields, PositionFields
<1>14. (IF patch.active # Unset THEN patch.active ELSE TRUE) <=> ~(patch.active = FALSE)
  BY <1>2, SentinelAssumption DEF Patch
<1>15. assets'[a].active <=> ~e.archived
  BY <1>4, <1>8, <1>9, <1>14
<1>16. QED
  BY <1>1, <1>3, <1>4, <1>7, <1>8, <1>9, <1>10, <1>11, <1>12, <1>13, <1>15

\* The row a dated edit appends, on or after the day of every other row.
LEMMA DatedEdit ==
  ASSUME IInv, NEW a \in AssetId, NEW patch \in Patches, NEW effectiveAt \in Day,
         Edits(a, patch, effectiveAt)
  PROVE  /\ assets[a].kind # "SECURITY" /\ effectiveAt \in Nat
         /\ \A day \in DaysOf(a) : day <= effectiveAt
         /\ \E value, price :
              valuations' = Append(valuations, ManualRow(a, Patched(assets[a], patch),
                                                         effectiveAt, value, price))
<1>1. effectiveAt # None /\ effectiveAt \in Nat
  BY SentinelAssumption, TimeAssumption
<1>2. TypeOK
  BY DEF IInv
<1>3. ASSUME NEW day \in DaysOf(a) PROVE day <= effectiveAt
  <2>1. PICK j \in ValuationsOf(a) : day = valuations[j].valuedAt
    BY <1>3 DEF DaysOf
  <2>2. /\ Latest(a) \in ValuationsOf(a) /\ Latest(a) # 0
        /\ valuations[j].valuedAt <= valuations[Latest(a)].valuedAt
    BY <1>2, <2>1, LatestIs
  <2>3. effectiveAt >= valuations[Latest(a)].valuedAt
    BY <1>1, <2>2 DEF Edits, EffectiveDateIsValid
  <2>4. valuations[j].valuedAt \in Nat /\ valuations[Latest(a)].valuedAt \in Nat
    BY <1>2, <2>2, RowDates DEF ValuationsOf
  <2>5. QED
    BY <1>1, <2>1, <2>2, <2>3, <2>4
<1>4. QED
  BY <1>1, <1>3 DEF Edits

LEMMA AppendedRow ==
  ASSUME IInv, NEW row, valuations' = Append(valuations, row)
  PROVE  /\ Len(valuations) + 1 \in ValuationsOf(row.asset)'
         /\ valuations'[Len(valuations) + 1] = row
         /\ \A i \in 1..Len(valuations) : valuations'[i] = valuations[i]
         /\ \A a : \A i \in ValuationsOf(a)' :
              i \in ValuationsOf(a) \/ (i = Len(valuations) + 1 /\ a = row.asset)
<1>1. valuations \in Seq(Valuation)
  BY DEF IInv, TypeOK
<1> PICK n : n = Len(valuations) + 1
  OBVIOUS
<1>2. /\ Len(valuations) \in Nat /\ DOMAIN valuations' = 1..n /\ valuations'[n] = row
      /\ \A i \in 1..Len(valuations) : valuations'[i] = valuations[i]
      /\ DOMAIN valuations = 1..Len(valuations)
  BY <1>1
<1>3. n \in DOMAIN valuations'
  BY <1>2
<1>4. \A i \in DOMAIN valuations' :
        i = n \/ (i \in DOMAIN valuations /\ valuations'[i] = valuations[i])
  BY <1>2
<1>5. ASSUME NEW a, NEW i \in ValuationsOf(a)', i # n PROVE i \in ValuationsOf(a)
  BY <1>4, <1>5 DEF ValuationsOf
<1>6. ASSUME NEW a, n \in ValuationsOf(a)' PROVE a = row.asset
  BY <1>2, <1>6 DEF ValuationsOf
<1>7. n \in ValuationsOf(row.asset)'
  BY <1>2, <1>3 DEF ValuationsOf
<1>8. \A a : \A i \in ValuationsOf(a)' : i \in ValuationsOf(a) \/ (i = n /\ a = row.asset)
  BY <1>5, <1>6
<1>9. QED
  BY <1>2, <1>7, <1>8

-----------------------------------------------------------------------------
(* The trail is kept *)

LEMMA TrailsKept == IInv /\ TrailsFit /\ [Next]_vars => TrailsFit'
<1> SUFFICES ASSUME IInv, TrailsFit, [Next]_vars PROVE TrailsFit'
  OBVIOUS
<1> DEFINE Fits(a) == /\ Numbered(EventsOf(a), assets[a].revision)
                      /\ Followed(assets[a], drawers[a], EventsOf(a))
                      /\ Dated(assets[a].kind, EventsOf(a), DaysOf(a))
<1>0. TypeOK /\ \A a \in AssetId : EventsOf(a) \subseteq Event
  BY DEF IInv, TypeOK, EventsOf
<1>1. ASSUME NEW a \in AssetId, Exists(a),
             UNCHANGED <<assets[a], drawers[a], EventsOf(a)>>
      PROVE  Fits(a)'
  <2>1. DaysOf(a) \subseteq DaysOf(a)'
    BY RowsStay
  <2>2. Dated(assets[a].kind, EventsOf(a), DaysOf(a)')
    BY <1>1, <2>1 DEF TrailsFit, Dated
  <2>3. QED
    BY <1>1, <2>2 DEF TrailsFit
<1>2. CASE UNCHANGED <<assets, events, drawers>>
  <2>1. \A a \in AssetId : Exists(a)' => Exists(a) /\ UNCHANGED <<assets[a], drawers[a], EventsOf(a)>>
    BY <1>2 DEF Exists, EventsOf
  <2>2. QED
    BY <1>1, <2>1 DEF TrailsFit
<1>3. ASSUME NEW a \in AssetId, NEW body \in Purchases, PostAsset(a, body)
      PROVE  TrailsFit'
  <2>1. /\ assets'[a] = Created(body) /\ EventsOf(a)' = {}
        /\ drawers'[a] = body /\ body \in Purchase
    BY <1>3, PurchaseAssumption DEF PostAsset, IInv, TypeOK, OriginsFit, EventsOf
  <2>2. \A b \in AssetId : b # a => UNCHANGED <<assets[b], drawers[b], EventsOf(b)>>
    BY <1>3 DEF PostAsset, IInv, TypeOK, EventsOf
  <2>3. Numbered({}, 1)
    <3>1. IsFiniteSet({}) /\ Cardinality({}) = 0
      BY FS_EmptySet
    <3>2. QED
      BY <3>1 DEF Numbered
  <2>4. Created(body).revision = 1 /\ Created(body).active = TRUE
    BY DEF Created
  <2>5. \A f \in Audited : Created(body)[f] = body[f]
    BY DEF Created, Audited
  <2>6. Followed(Created(body), body, {})
    BY <2>1, <2>4, <2>5 DEF Followed, Leaves, ChangesBefore
  <2>7. Dated(Created(body).kind, {}, DaysOf(a)')
    BY DEF Dated
  <2>8. Fits(a)'
    BY <2>1, <2>3, <2>4, <2>6, <2>7
  <2>9. \A b \in AssetId : b # a /\ Exists(b)' => Exists(b)
    BY <2>2 DEF Exists
  <2>10. QED
    BY <1>1, <2>2, <2>8, <2>9 DEF TrailsFit
<1>4. ASSUME NEW a \in AssetId, NEW patch \in Patches, NEW effectiveAt \in Day \cup {None},
             Edits(a, patch, effectiveAt)
      PROVE  TrailsFit'
  <2> PICK e : e = Recorded(a, patch, effectiveAt)
    OBVIOUS
  <2>1. /\ assets'[a].revision = assets[a].revision + 1
        /\ assets'[a].kind = assets[a].kind
        /\ assets'[a].active <=> ~e.archived
        /\ \A f \in Audited :
             /\ assets'[a][f] = IF e.new[f] # Unset THEN e.new[f] ELSE assets[a][f]
             /\ assets[a][f] # Unset
             /\ e.previous[f] = IF e.new[f] # Unset THEN assets[a][f] ELSE Unset
        /\ e.previousRevision = assets[a].revision
        /\ e.effectiveAt = effectiveAt
        /\ effectiveAt = None => \A f \in PositionFields : e.new[f] = Unset
        /\ EventsOf(a)' = EventsOf(a) \cup {e}
        /\ drawers' = drawers
    BY <1>4, EditIs
  <2>2. \A b \in AssetId : b # a => UNCHANGED <<assets[b], drawers[b], EventsOf(b)>>
    BY <1>4, EditIs
  <2>3. Exists(a) /\ assets[a].active /\ Fits(a)
    BY <1>4 DEF Edits, TrailsFit
  <2>4. Numbered(EventsOf(a)', assets'[a].revision)
    BY <2>1, <2>3, NumbersGrow
  <2>5. Followed(assets'[a], drawers'[a], EventsOf(a)')
    <3>1. Followed(assets'[a], drawers[a], EventsOf(a) \cup {e})
      BY <2>1, <2>3, TrailGrows
    <3>2. QED
      BY <2>1, <3>1
  <2>6. Dated(assets'[a].kind, EventsOf(a)', DaysOf(a)')
    <3> PICK kind, E, n, days, more :
          /\ kind = assets[a].kind /\ E = EventsOf(a) /\ n = assets[a].revision
          /\ days = DaysOf(a) /\ more = DaysOf(a)'
      OBVIOUS
    <3>0. /\ Numbered(E, n) /\ Dated(kind, E, days) /\ E \subseteq Event
          /\ e.previousRevision = n
      BY <1>0, <2>1, <2>3
    <3>1. days \subseteq more /\ days \subseteq Nat
      BY RowsStay
    <3>2. CASE effectiveAt = None
      <4>1. Dated(kind, E \cup {e}, more)
        BY <2>1, <3>0, <3>1, <3>2, DatesGrow
      <4>2. QED
        BY <2>1, <4>1
    <3>3. CASE effectiveAt # None
      <4>1. /\ assets[a].kind # "SECURITY" /\ effectiveAt \in Nat
            /\ \A day \in DaysOf(a) : day <= effectiveAt
        BY <1>4, <3>3, DatedEdit
      <4>2. PICK value, price :
              valuations' = Append(valuations, ManualRow(a, Patched(assets[a], patch),
                                                         effectiveAt, value, price))
        BY <1>4, <3>3, DatedEdit
      <4>3. effectiveAt \in DaysOf(a)'
        <5> DEFINE added == Len(valuations) + 1
        <5>1. added \in DOMAIN valuations'
          BY <1>0, <4>2 DEF TypeOK
        <5>2. valuations'[added] = ManualRow(a, Patched(assets[a], patch), effectiveAt, value, price)
          BY <1>0, <4>2 DEF TypeOK
        <5> HIDE DEF added
        <5>3. valuations'[added].asset = a /\ valuations'[added].valuedAt = effectiveAt
          BY <5>2 DEF ManualRow
        <5>4. QED
          BY <5>1, <5>3 DEF DaysOf, ValuationsOf
      <4>4. QED
        <5>1. /\ e.effectiveAt = effectiveAt /\ kind # "SECURITY" /\ e.effectiveAt \in more
              /\ e.effectiveAt \in Nat /\ \A d \in days : d <= e.effectiveAt
          BY <2>1, <4>1, <4>3
        <5>2. Dated(kind, E \cup {e}, more)
          BY <3>0, <3>1, <3>3, <5>1, DatesGrow
        <5>3. QED
          BY <2>1, <5>2
    <3>4. QED
      BY <3>2, <3>3
  <2>7. \A b \in AssetId : b # a /\ Exists(b)' => Exists(b)
    BY <2>2 DEF Exists
  <2>8. Fits(a)'
    BY <2>4, <2>5, <2>6
  <2>9. QED
    BY <1>1, <2>2, <2>7, <2>8 DEF TrailsFit
<1>5. QED
  BY <1>2, <1>3, <1>4, EditSteps
-----------------------------------------------------------------------------
(* The rows are kept *)

LEMMA RowsFitOn == IInv /\ TrailsFit /\ RowsFit /\ [Next]_vars => RowsFit'
<1> SUFFICES ASSUME IInv, TrailsFit, RowsFit, [Next]_vars PROVE RowsFit'
  OBVIOUS
<1> DEFINE Fits(a, i) ==
      LastOfDay(a, i) => WasOn(EventsOf(a), drawers[a], valuations[i].valuedAt, valuations[i])
<1>0. /\ TypeOK
      /\ assets \in [AssetId -> Asset \cup {None}] /\ drawers \in [AssetId -> Purchase \cup {None}]
      /\ \A b \in AssetId : \A i \in ValuationsOf(b) :
           Exists(b) /\ valuations[i].valuedAt \in Nat /\ valuations[i].valuedAt \in DaysOf(b)
  BY RowDates DEF IInv, TypeOK, OriginsFit, ValuationsOf, DaysOf
\* A row stays right as long as no event is added for its day.
<1>1. ASSUME NEW b \in AssetId, NEW i \in ValuationsOf(b), drawers'[b] = drawers[b],
             \A f \in PositionFields : ChangesBy(EventsOf(b)', f, valuations[i].valuedAt)
                                         = ChangesBy(EventsOf(b), f, valuations[i].valuedAt)
      PROVE  Fits(b, i)'
  <2> SUFFICES ASSUME LastOfDay(b, i)'
               PROVE  WasOn(EventsOf(b)', drawers'[b], valuations'[i].valuedAt, valuations'[i])
    OBVIOUS
  <2>1. valuations'[i] = valuations[i] /\ LastOfDay(b, i)
    BY RowsStay
  <2>2. WasOn(EventsOf(b), drawers[b], valuations[i].valuedAt, valuations[i])
    BY <2>1 DEF RowsFit
  <2>3. WasOn(EventsOf(b)', drawers'[b], valuations[i].valuedAt, valuations[i])
    BY <1>1, <2>2 DEF WasOn
  <2>4. QED
    BY <2>1, <2>3
<1>2. ASSUME NEW b \in AssetId, NEW i \in ValuationsOf(b), UNCHANGED <<drawers[b], EventsOf(b)>>
      PROVE  Fits(b, i)'
  BY <1>1, <1>2
<1>3. ASSUME UNCHANGED <<valuations, events, drawers>> PROVE RowsFit'
  <2>1. \A b \in AssetId : /\ ValuationsOf(b)' = ValuationsOf(b)
                           /\ UNCHANGED <<drawers[b], EventsOf(b)>>
    BY <1>3 DEF ValuationsOf, EventsOf
  <2>2. QED
    BY <1>2, <2>1 DEF RowsFit
<1>4. ASSUME NEW a \in AssetId, NEW body \in Purchases, PostAsset(a, body)
      PROVE  RowsFit'
  <2> DEFINE row == ManualRow(a, body, body.valuedAt, body.value, body.price)
  <2>1. valuations' = Append(valuations, row) /\ row.asset = a
    BY <1>4 DEF PostAsset, ManualRow
  <2>2. \A f \in PositionFields : row[f] = body[f]
    BY DEF ManualRow, PositionFields
  <2>3. drawers'[a] = body /\ EventsOf(a)' = {} /\ ValuationsOf(a) = {}
    BY <1>0, <1>4 DEF PostAsset, IInv, OriginsFit, EventsOf
  <2>4. \A b \in AssetId : b # a => UNCHANGED <<drawers[b], EventsOf(b)>>
    BY <1>0, <1>4 DEF PostAsset, EventsOf
  <2> HIDE DEF row
  <2>5. /\ valuations'[Len(valuations) + 1] = row
        /\ \A b : \A i \in ValuationsOf(b)' :
             i \in ValuationsOf(b) \/ (i = Len(valuations) + 1 /\ b = a)
    BY <2>1, AppendedRow
  <2>6. \A day : WasOn({}, body, day, row)
    BY <2>2 DEF WasOn, Leaves, ChangesBy
  <2>7. ASSUME NEW b \in AssetId, NEW i \in ValuationsOf(b)' PROVE Fits(b, i)'
    <3>1. CASE b = a
      <4>1. i = Len(valuations) + 1
        BY <2>3, <2>5, <3>1
      <4>2. QED
        BY <2>3, <2>5, <2>6, <3>1, <4>1
    <3>2. CASE b # a
      BY <1>2, <2>4, <2>5, <3>2
    <3>3. QED
      BY <3>1, <3>2
  <2>8. QED
    BY <2>7 DEF RowsFit
<1>5. ASSUME NEW a \in AssetId, NEW patch \in Patches, NEW effectiveAt \in Day \cup {None},
             Edits(a, patch, effectiveAt)
      PROVE  RowsFit'
  <2> PICK e : e = Recorded(a, patch, effectiveAt)
    OBVIOUS
  <2>1. /\ assets'[a] \in Asset /\ assets'[a] = Patched(assets[a], patch)
        /\ assets'[a].revision = assets[a].revision + 1
        /\ \A f \in Audited :
             assets'[a][f] = IF e.new[f] # Unset THEN e.new[f] ELSE assets[a][f]
        /\ e.previousRevision = assets[a].revision
        /\ e.effectiveAt = effectiveAt
        /\ effectiveAt = None => \A f \in PositionFields : e.new[f] = Unset
        /\ EventsOf(a)' = EventsOf(a) \cup {e}
        /\ drawers' = drawers
    BY <1>5, EditIs
  <2>2. \A b \in AssetId : b # a => UNCHANGED <<drawers[b], EventsOf(b)>>
    BY <1>5, EditIs
  <2>3. CASE effectiveAt = None
    <3>1. valuations' = valuations
      BY <1>5, <2>3 DEF Edits
    <3>2. \A b \in AssetId : ValuationsOf(b)' = ValuationsOf(b)
      BY <3>1 DEF ValuationsOf
    <3>3. ASSUME NEW i \in ValuationsOf(a) PROVE Fits(a, i)'
      <4>1. \A f \in PositionFields : ChangesBy(EventsOf(a) \cup {e}, f, valuations[i].valuedAt)
                                        = ChangesBy(EventsOf(a), f, valuations[i].valuedAt)
        <5> PICK E, day : E = EventsOf(a) /\ day = valuations[i].valuedAt
          OBVIOUS
        <5>1. \A f \in PositionFields : ChangesBy(E \cup {e}, f, day) = ChangesBy(E, f, day)
          <6>1. day \in Nat /\ \A f \in PositionFields : e.new[f] = Unset
            BY <1>0, <2>1, <2>3
          <6>2. TAKE f \in PositionFields
          <6>3. e.new[f] = Unset
            BY <6>1
          <6>4. QED
            BY <6>1, <6>3, EarlierDaysStay
        <5>2. QED
          BY <5>1
      <4>2. QED
        BY <1>1, <2>1, <4>1
    <3>4. QED
      BY <1>2, <2>2, <3>2, <3>3 DEF RowsFit
  <2>4. CASE effectiveAt # None
    <3>1. /\ effectiveAt \in Nat /\ \A day \in DaysOf(a) : day <= effectiveAt
      BY <1>5, <2>4, DatedEdit
    <3>2. PICK value, price :
            valuations' = Append(valuations, ManualRow(a, assets'[a], effectiveAt, value, price))
      BY <1>5, <2>1, <2>4, DatedEdit
    <3> DEFINE row == ManualRow(a, assets'[a], effectiveAt, value, price)
    <3>3. row.asset = a /\ row.valuedAt = effectiveAt
      BY DEF ManualRow
    <3>4. \A f \in PositionFields : row[f] = assets'[a][f]
      BY DEF ManualRow, PositionFields
    <3> HIDE DEF row
    <3> PICK k : k = Len(valuations) + 1
      OBVIOUS
    <3>5. /\ k \in ValuationsOf(a)' /\ valuations'[k] = row
          /\ \A b : \A i \in ValuationsOf(b)' : i \in ValuationsOf(b) \/ (i = k /\ b = a)
      BY <3>2, <3>3, AppendedRow DEF row
    <3>6. /\ Numbered(EventsOf(a), assets[a].revision)
          /\ Followed(assets[a], drawers[a], EventsOf(a))
          /\ Numbered(EventsOf(a)', assets'[a].revision)
          /\ Dated(assets'[a].kind, EventsOf(a)', DaysOf(a)')
      <4>1. TrailsFit'
        BY TrailsKept
      <4>2. Exists(a) /\ Exists(a)'
        BY <1>5, <2>1, SentinelAssumption DEF Edits, Exists
      <4>3. QED
        BY <4>1, <4>2 DEF TrailsFit
    \* The new row has the position that the edit leaves.
    <3>7. WasOn(EventsOf(a)', drawers'[a], effectiveAt, row)
      <4> SUFFICES ASSUME NEW f \in PositionFields
                   PROVE  Leaves(ChangesBy(EventsOf(a)', f, effectiveAt), f, drawers'[a][f], row[f])
        BY DEF WasOn
      <4>1. f \in Audited
        BY DEF PositionFields, Audited
      <4>2. Leaves(ChangesBefore(EventsOf(a), f, assets[a].revision), f, drawers[a][f], assets[a][f])
        BY <3>6, <4>1 DEF Followed
      <4> PICK E, n : E = EventsOf(a) /\ n = assets[a].revision
        OBVIOUS
      <4>3. Leaves(ChangesBefore(E \cup {e}, f, n + 1), f, drawers[a][f],
                   IF e.new[f] # Unset THEN e.new[f] ELSE assets[a][f])
        BY <2>1, <3>6, <4>2, ChangesGrow
      <4>4. \A o \in E \cup {e} : o.effectiveAt # None => o.effectiveAt <= effectiveAt
        BY <1>5, <2>1, <3>1, <3>6 DEF TrailsFit, Dated, Edits
      <4>5. ChangesBy(EventsOf(a)', f, effectiveAt)
              = ChangesBefore(EventsOf(a)', f, assets'[a].revision)
        BY <2>1, <3>6, <4>4, PresentPosition
      <4>6. QED
        BY <2>1, <3>4, <4>1, <4>3, <4>5
    <3>8. ASSUME NEW i \in ValuationsOf(a)' PROVE Fits(a, i)'
      <4>1. CASE i = k
        BY <3>3, <3>5, <3>7, <4>1
      <4>2. CASE i # k /\ valuations[i].valuedAt = effectiveAt
        <5>1. i \in ValuationsOf(a) /\ valuations'[i] = valuations[i]
          BY <3>5, <4>2, RowsStay
        <5>2. i \in Nat /\ k \in Nat /\ i < k
          BY <1>0, <5>1, RowDates DEF ValuationsOf
        <5>3. ~LastOfDay(a, i)'
          <6>1. ASSUME LastOfDay(a, i)' PROVE k <= i
            BY <3>3, <3>5, <4>2, <5>1, <6>1 DEF LastOfDay
          <6>2. QED
            BY <5>2, <6>1
        <5>4. QED
          BY <5>3
      <4>3. CASE i # k /\ valuations[i].valuedAt # effectiveAt
        <5>1. i \in ValuationsOf(a)
          BY <3>5, <4>3
        <5>2. valuations[i].valuedAt \in Nat /\ valuations[i].valuedAt < effectiveAt
          BY <1>0, <3>1, <4>3, <5>1
        <5>3. \A f \in PositionFields : ChangesBy(EventsOf(a) \cup {e}, f, valuations[i].valuedAt)
                                          = ChangesBy(EventsOf(a), f, valuations[i].valuedAt)
          <6> PICK E, day : E = EventsOf(a) /\ day = valuations[i].valuedAt
            OBVIOUS
          <6>1. \A f \in PositionFields : ChangesBy(E \cup {e}, f, day) = ChangesBy(E, f, day)
            <7>1. day \in Nat /\ e.effectiveAt \in Nat /\ day < e.effectiveAt
              BY <2>1, <3>1, <5>2
            <7>2. QED
              BY <7>1 DEF ChangesBy
          <6>2. QED
            BY <6>1
        <5>4. QED
          BY <1>1, <2>1, <5>1, <5>3
      <4>4. QED
        BY <4>1, <4>2, <4>3
    <3>9. ASSUME NEW b \in AssetId, b # a, NEW i \in ValuationsOf(b)' PROVE Fits(b, i)'
      BY <1>2, <2>2, <3>5, <3>9
    <3>10. QED
      BY <3>8, <3>9 DEF RowsFit
  <2>5. QED
    BY <2>3, <2>4
<1>6. ASSUME NEW a \in AssetId, NEW expected, NEW valuedAt \in Day, NEW value, NEW price,
             AddValuation(a, expected, valuedAt, value, price)
      PROVE  RowsFit'
  <2> DEFINE position == PositionAt(a, valuedAt)
             row == ManualRow(a, position, valuedAt, value, price)
  <2>1. /\ valuations' = Append(valuations, row) /\ Exists(a)
        /\ row.asset = a /\ row.valuedAt = valuedAt
    BY <1>6 DEF AddValuation, MayEdit, ManualRow
  <2>2. \A f \in PositionFields : row[f] = position[f]
    BY DEF ManualRow, PositionFields
  <2>3. \A b \in AssetId : UNCHANGED <<drawers[b], EventsOf(b)>>
    BY <1>6 DEF AddValuation, EventsOf
  <2>4. WasOn(EventsOf(a), drawers[a], valuedAt, position)
    BY <1>0, <2>1, PositionIs
  <2> HIDE DEF position, row
  <2>5. WasOn(EventsOf(a), drawers[a], valuedAt, row)
    BY <2>2, <2>4 DEF WasOn
  <2>6. /\ valuations'[Len(valuations) + 1] = row
        /\ \A b : \A i \in ValuationsOf(b)' :
             i \in ValuationsOf(b) \/ (i = Len(valuations) + 1 /\ b = a)
    BY <2>1, AppendedRow
  <2>7. ASSUME NEW b \in AssetId, NEW i \in ValuationsOf(b)' PROVE Fits(b, i)'
    <3>1. CASE i \in ValuationsOf(b)
      BY <1>2, <2>3, <3>1
    <3>2. CASE i = Len(valuations) + 1 /\ b = a
      BY <2>1, <2>3, <2>5, <2>6, <3>2
    <3>3. QED
      BY <2>6, <3>1, <3>2
  <2>8. QED
    BY <2>7 DEF RowsFit
\* The position of a security never changes.
<1>7. ASSUME NEW n \in 1..MaxRequest, NEW items \in [1..n -> previews], PersistQuotes(items)
      PROVE  RowsFit'
  <2>1. valuations' = StoredRows(items) /\ n \in Nat
    BY <1>7 DEF PersistQuotes, StoredRows
  <2>2. /\ Len(valuations') = Len(valuations) + n /\ Len(valuations) \in Nat
        /\ DOMAIN valuations' = 1..Len(valuations) + n
        /\ \A k \in 1..n : valuations'[Len(valuations) + k] = QuoteRow(items[k])
    <3>1. /\ StoredRows(items) \in Seq(Valuation)
          /\ Len(StoredRows(items)) = Len(valuations) + n
          /\ \A k \in 1..n : StoredRows(items)[Len(valuations) + k] = QuoteRow(items[k])
      BY StoredRowsType
    <3>2. DOMAIN valuations' = 1..Len(valuations')
      BY <2>1, <3>1
    <3>3. QED
      BY <1>0, <2>1, <3>1, <3>2, RowDates
  <2>3. \A b \in AssetId : UNCHANGED <<drawers[b], EventsOf(b)>>
    BY <1>7 DEF PersistQuotes, EventsOf
  <2>4. ASSUME NEW k \in 1..n, NEW day
        PROVE  LET p == items[k]
               IN p.asset \in AssetId /\ WasOn(EventsOf(p.asset), drawers[p.asset], day, QuoteRow(p))
    <3> PICK p \in previews : p = items[k]
      OBVIOUS
    <3>1. p \in Preview /\ p.asset \in AssetId
      BY <1>0 DEF TypeOK, Preview
    <3>2. /\ Exists(p.asset) /\ assets[p.asset].kind = "SECURITY"
          /\ assets[p.asset].quantity = p.quantity
      BY <1>7 DEF PersistQuotes, Persistable, MayEdit
    <3> PICK a \in AssetId : a = p.asset
      BY <3>1
    <3>3. /\ Followed(assets[a], drawers[a], EventsOf(a))
          /\ Dated(assets[a].kind, EventsOf(a), DaysOf(a))
      BY <3>2 DEF TrailsFit
    <3>4. \A e \in EventsOf(a), f \in PositionFields : e.new[f] = Unset
      BY <3>2, <3>3 DEF Dated
    <3>5. \A f \in PositionFields : assets[a][f] = drawers[a][f]
      <4> SUFFICES ASSUME NEW f \in PositionFields PROVE assets[a][f] = drawers[a][f]
        OBVIOUS
      <4>1. ChangesBefore(EventsOf(a), f, assets[a].revision) = {}
        BY <3>4 DEF ChangesBefore
      <4>2. Leaves(ChangesBefore(EventsOf(a), f, assets[a].revision), f,
                   drawers[a][f], assets[a][f])
        BY <3>3 DEF Followed, PositionFields, Audited
      <4>3. QED
        BY <4>1, <4>2 DEF Leaves
    <3>6. \A f \in PositionFields : QuoteRow(p)[f] = assets[a][f]
      BY <3>2 DEF QuoteRow, PositionFields
    <3>7. \A f \in PositionFields : ChangesBy(EventsOf(a), f, day) = {}
      BY <3>4 DEF ChangesBy
    <3>8. WasOn(EventsOf(a), drawers[a], day, QuoteRow(p))
      BY <3>5, <3>6, <3>7 DEF WasOn, Leaves
    <3>9. QED
      BY <3>8
  <2>5. ASSUME NEW b \in AssetId, NEW i \in ValuationsOf(b)' PROVE Fits(b, i)'
    <3>1. CASE i \in ValuationsOf(b)
      BY <1>2, <2>3, <3>1
    <3>2. CASE i \notin ValuationsOf(b)
      <4>1. i \in 1..Len(valuations) + n /\ valuations'[i].asset = b
        BY <2>2 DEF ValuationsOf
      <4>2. i > Len(valuations)
        <5>1. CASE i \in 1..Len(valuations)
          BY <1>0, <3>2, <4>1, <5>1, RowsGrow, RowDates DEF ValuationsOf
        <5>2. QED
          BY <2>2, <4>1, <5>1
      <4> DEFINE k == i - Len(valuations)
      <4>3. k \in 1..n /\ i = Len(valuations) + k
        BY <2>1, <2>2, <4>1, <4>2
      <4> HIDE DEF k
      <4>4. valuations'[i] = QuoteRow(items[k])
        BY <2>2, <4>3
      <4>5. items[k].asset = b
        BY <4>1, <4>4 DEF QuoteRow
      <4>6. WasOn(EventsOf(b), drawers[b], valuations'[i].valuedAt, valuations'[i])
        BY <2>4, <4>3, <4>4, <4>5
      <4>7. QED
        BY <2>3, <4>6
    <3>3. QED
      BY <3>1, <3>2
  <2>6. QED
    BY <2>5 DEF RowsFit
<1>8. QED
  BY <1>3, <1>4, <1>5, <1>6, <1>7, IdentityEdits, PositionEdits
  DEF Next, vars, Requests, PreviewQuotes, PreviewHistory, Forget, Tick
-----------------------------------------------------------------------------
(* The theorems *)

\* Whatever edits, corrections of the past and quotes follow each other, the
\* events tell how each asset came to be what it is, and the last valuation of
\* each day has the position that the events say it had.
THEOREM AuditInductive == Spec => []AuditInv
<1>1. Init => AuditInv
  BY DEF Init, AuditInv, TrailsFit, RowsFit, Exists, ValuationsOf
<1>2. IInv /\ AuditInv /\ [Next]_vars => AuditInv'
  BY TrailsKept, RowsFitOn DEF AuditInv
<1>3. QED
  BY <1>1, <1>2, Inductive, PTL DEF Spec

\* The report of any day shows the position that the audit events say was in
\* effect on that day: no order of edits, valuations and quotes tells them apart
\* (patch_asset, add_manual_valuation, persist_quote_snapshots, _position_at).
THEOREM ReportsAreAudited == Spec => []ReportsShowThePositionOfTheDay
<1>1. ASSUME IInv, AuditInv, NEW a \in AssetId, NEW day \in Day, Exists(a), Shown(a, day) # None
      PROVE  [f \in PositionFields |-> Shown(a, day)[f]] = ReplayedPosition(a, day)
  <2> PICK i : i = LatestOn(a, day)
    OBVIOUS
  <2>0. TypeOK /\ EventsOf(a) \subseteq Event
    BY <1>1 DEF IInv, TypeOK, EventsOf
  <2>1. i # 0 /\ Shown(a, day) = valuations[i]
    BY <1>1 DEF Shown
  <2>2. /\ i \in ValuationsOf(a) /\ valuations[i].valuedAt <= day /\ LastOfDay(a, i)
        /\ \A j \in ValuationsOf(a) :
             valuations[j].valuedAt <= day => valuations[j].valuedAt <= valuations[i].valuedAt
    BY <2>0, <2>1, LatestOnIs
  <2>3. /\ Numbered(EventsOf(a), assets[a].revision)
        /\ Dated(assets[a].kind, EventsOf(a), DaysOf(a))
        /\ WasOn(EventsOf(a), drawers[a], valuations[i].valuedAt, valuations[i])
    BY <1>1, <2>2 DEF AuditInv, TrailsFit, RowsFit
  <2>4. valuations[i].valuedAt \in Nat /\ day \in Nat
    BY <2>0, <2>2, RowDates, TimeAssumption DEF ValuationsOf
  \* A change between the row and the day of the report would have its own row.
  <2>5. ASSUME NEW f \in PositionFields
        PROVE  ChangesBy(EventsOf(a), f, day) = ChangesBy(EventsOf(a), f, valuations[i].valuedAt)
    <3>1. ASSUME NEW e \in EventsOf(a), e.effectiveAt # None, e.effectiveAt <= day
          PROVE  e.effectiveAt <= valuations[i].valuedAt
      BY <2>2, <2>3, <3>1 DEF Dated, DaysOf
    <3>2. ASSUME NEW e \in EventsOf(a), e.effectiveAt # None,
                 e.effectiveAt <= valuations[i].valuedAt
          PROVE  e.effectiveAt <= day
      <4>1. e.effectiveAt \in Nat
        BY <2>0, <3>2, TimeAssumption DEF Event
      <4>2. QED
        BY <2>2, <2>4, <3>2, <4>1
    <3>3. QED
      BY <3>1, <3>2 DEF ChangesBy
  <2>6. ASSUME NEW f \in PositionFields
        PROVE  valuations[i][f] = ReplayedPosition(a, day)[f]
    <3> DEFINE applied == {e \in EventsOf(a) : /\ e.effectiveAt # None /\ e.effectiveAt <= day
                                               /\ e.new[f] # Unset}
    <3>1. applied = ChangesBy(EventsOf(a), f, day)
      BY DEF ChangesBy
    <3>2. Leaves(applied, f, drawers[a][f], valuations[i][f])
      BY <2>3, <2>5, <3>1 DEF WasOn
    <3>3. ReplayedPosition(a, day)[f] =
            IF applied = {} THEN drawers[a][f]
            ELSE (CHOOSE e \in applied : \A o \in applied :
                    e.previousRevision >= o.previousRevision).new[f]
      BY DEF ReplayedPosition
    <3>4. applied \subseteq EventsOf(a)
      OBVIOUS
    <3> HIDE DEF applied
    <3>5. valuations[i][f] =
            IF applied = {} THEN drawers[a][f]
            ELSE (CHOOSE e \in applied : \A o \in applied :
                    e.previousRevision >= o.previousRevision).new[f]
      BY <2>3, <3>2, <3>4, LeavesOne
    <3>6. QED
      BY <3>3, <3>5
  <2>7. QED
    BY <2>1, <2>6 DEF ReplayedPosition
<1>2. IInv /\ AuditInv => ReportsShowThePositionOfTheDay
  BY <1>1 DEF ReportsShowThePositionOfTheDay
<1>3. QED
  BY <1>2, Inductive, AuditInductive, PTL

\* No two events share a number, so CHOOSE finds the one of a number.
LEMMA EventOfNumber ==
  ASSUME NEW E, NEW n, Numbered(E, n), NEW e \in E
  PROVE  (CHOOSE o \in E : o.previousRevision = e.previousRevision) = e
<1> DEFINE c == CHOOSE o \in E : o.previousRevision = e.previousRevision
<1>1. c \in E /\ c.previousRevision = e.previousRevision
  OBVIOUS
<1> HIDE DEF c
<1>2. c = e
  BY <1>1 DEF Numbered
<1>3. QED
  BY <1>2 DEF c

LEMMA MaxIs ==
  ASSUME NEW S, S \subseteq Nat, NEW x \in S, \A y \in S : y <= x
  PROVE  Max(S) = x
<1>1. PICK m : m = Max(S)
  OBVIOUS
<1>2. \A y \in S : x >= y
  OBVIOUS
<1>3. m \in S /\ \A y \in S : m >= y
  BY <1>1, <1>2 DEF Max
<1>4. m \in Nat /\ x \in Nat /\ m >= x /\ m <= x
  BY <1>3
<1>5. QED
  BY <1>1, <1>4

\* The values a field had: what the client sent, then what each event set.
Values(E, n, f, start) ==
  <<start>> \o [r \in 1..(n - 1) |-> LET e == CHOOSE e \in E : e.previousRevision = r
                                      IN e.new[f]]

LEMMA ValuesAre ==
  ASSUME NEW E, NEW n, Numbered(E, n), NEW f, NEW start
  PROVE  /\ Values(E, n, f, start)[1] = start
         /\ \A e \in E : Values(E, n, f, start)[e.previousRevision + 1] = e.new[f]
         /\ \A k \in 2..n : \E e \in E : k = e.previousRevision + 1
<1> DEFINE rest == [r \in 1..(n - 1) |-> LET e == CHOOSE e \in E : e.previousRevision = r
                                           IN e.new[f]]
           T == {e.new[f] : e \in E} \cup {start}
<1>1. n \in Nat /\ n >= 1 /\ n - 1 \in Nat
  BY DEF Numbered
<1>2. ASSUME NEW r \in 1..(n - 1)
      PROVE  (CHOOSE e \in E : e.previousRevision = r) \in E
  BY DEF Numbered
<1>3. rest \in [1..(n - 1) -> T]
  BY <1>2
<1>4. \A e \in E : e.previousRevision \in 1..(n - 1) /\ rest[e.previousRevision] = e.new[f]
  <2> SUFFICES ASSUME NEW e \in E
               PROVE  e.previousRevision \in 1..(n - 1) /\ rest[e.previousRevision] = e.new[f]
    OBVIOUS
  <2>1. e.previousRevision \in 1..(n - 1)
    BY DEF Numbered
  <2>2. (CHOOSE o \in E : o.previousRevision = e.previousRevision) = e
    BY EventOfNumber
  <2>3. QED
    BY <2>1, <2>2
<1>5. Values(E, n, f, start) = <<start>> \o rest
  BY DEF Values
<1>6. <<start>> \in Seq(T) /\ Len(<<start>>) = 1 /\ <<start>>[1] = start
  OBVIOUS
<1> HIDE DEF rest, T
<1>7. rest \in Seq(T) /\ Len(rest) = n - 1
  BY <1>1, <1>3
<1>8. \A i \in 1..Len(<<start>>) + Len(rest) : (<<start>> \o rest)[i] =
        IF i <= Len(<<start>>) THEN <<start>>[i] ELSE rest[i - Len(<<start>>)]
  BY <1>6, <1>7, ConcatProperties, Zenon
<1>9. \A i \in 1..n : Values(E, n, f, start)[i] = IF i <= 1 THEN start ELSE rest[i - 1]
  BY <1>1, <1>5, <1>6, <1>7, <1>8
<1>10. Values(E, n, f, start)[1] = start
  BY <1>1, <1>9
<1>11. ASSUME NEW e \in E
       PROVE  Values(E, n, f, start)[e.previousRevision + 1] = e.new[f]
  <2> PICK k : k = e.previousRevision + 1
    OBVIOUS
  <2>1. k \in 1..n /\ ~(k <= 1) /\ k - 1 = e.previousRevision
    BY <1>1, <1>4
  <2>2. QED
    BY <1>4, <1>9, <2>1
<1>12. ASSUME NEW k \in 2..n
       PROVE  \E e \in E : k = e.previousRevision + 1
  <2>1. k - 1 \in 1..(n - 1)
    BY <1>1
  <2>2. PICK e \in E : e.previousRevision = k - 1
    BY <2>1 DEF Numbered
  <2>3. QED
    BY <1>1, <2>2
<1>13. QED
  BY <1>10, <1>11, <1>12

\* Undoing events leads back, value by value, to what the client created.
THEOREM TrailIsComplete == Spec => []AuditTrailIsComplete
<1>1. ASSUME IInv, AuditInv, NEW a \in AssetId, Exists(a), NEW f \in Audited,
             NEW e \in EventsOf(a), e.new[f] # Unset,
             NEW values, values = Values(EventsOf(a), assets[a].revision, f, drawers[a][f])
      PROVE  e.previous[f] = values[Max({r \in 1..e.previousRevision : values[r] # Unset})]
  <2> PICK E, n, start : E = EventsOf(a) /\ n = assets[a].revision /\ start = drawers[a][f]
    OBVIOUS
  <2>1. Numbered(E, n) /\ Followed(assets[a], drawers[a], E)
    BY <1>1 DEF AuditInv, TrailsFit
  <2>2. /\ n \in Nat /\ e.previousRevision \in 1..(n - 1)
        /\ \A o \in E : o.previousRevision \in 1..(n - 1)
    BY <1>1, <2>1 DEF Numbered
  <2>3. /\ values[1] = start
        /\ \A o \in E : values[o.previousRevision + 1] = o.new[f]
        /\ \A k \in 2..n : \E o \in E : k = o.previousRevision + 1
    BY <1>1, <2>1, ValuesAre
  <2>4. start # Unset
    BY <2>1, SentinelAssumption DEF Followed, Purchase, Audited
  <2>5. Leaves(ChangesBefore(E, f, e.previousRevision), f, start, e.previous[f])
    BY <1>1, <2>1 DEF Followed
  <2> DEFINE earlier == {r \in 1..e.previousRevision : values[r] # Unset}
  <2>6. earlier \subseteq Nat /\ 1 \in earlier
    BY <2>2, <2>3, <2>4
  <2>7. ASSUME NEW k \in earlier, k # 1
        PROVE  \E o \in ChangesBefore(E, f, e.previousRevision) : k = o.previousRevision + 1
    <3>1. k \in 2..n /\ k <= e.previousRevision
      BY <2>2, <2>7
    <3>2. PICK o \in E : k = o.previousRevision + 1
      BY <2>3, <3>1
    <3>3. o.new[f] # Unset
      BY <2>3, <2>7, <3>2
    <3>4. o.previousRevision < e.previousRevision
      BY <2>2, <3>1, <3>2
    <3>5. QED
      BY <3>2, <3>3, <3>4 DEF ChangesBefore
  <2>8. CASE ChangesBefore(E, f, e.previousRevision) = {}
    <3>1. \A k \in earlier : k <= 1
      BY <2>7, <2>8
    <3> HIDE DEF earlier
    <3>2. Max(earlier) = 1
      BY <2>6, <3>1, MaxIs
    <3>3. e.previous[f] = start
      BY <2>5, <2>8 DEF Leaves
    <3>4. QED
      BY <2>3, <3>2, <3>3 DEF earlier
  <2>9. CASE ChangesBefore(E, f, e.previousRevision) # {}
    <3>1. PICK last \in ChangesBefore(E, f, e.previousRevision) :
            /\ \A o \in ChangesBefore(E, f, e.previousRevision) :
                 o.previousRevision <= last.previousRevision
            /\ e.previous[f] = last.new[f]
      BY <2>5, <2>9 DEF Leaves
    <3>2. /\ last \in E /\ last.new[f] # Unset /\ last.previousRevision < e.previousRevision
          /\ \A o \in ChangesBefore(E, f, e.previousRevision) : o \in E
      BY DEF ChangesBefore
    <3> PICK m : m = last.previousRevision + 1
      OBVIOUS
    <3>3. m \in 1..e.previousRevision /\ values[m] = last.new[f] /\ m \in Nat /\ m >= 1
      BY <2>2, <2>3, <3>2
    <3>4. m \in earlier
      BY <3>2, <3>3
    <3>5. ASSUME NEW k \in earlier PROVE k <= m
      <4>1. CASE k = 1
        BY <3>3, <4>1
      <4>2. CASE k # 1
        BY <2>2, <2>7, <3>1, <3>2, <4>2
      <4>3. QED
        BY <4>1, <4>2
    <3> HIDE DEF earlier
    <3>6. Max(earlier) = m
      BY <2>6, <3>4, <3>5, MaxIs
    <3>7. QED
      BY <3>1, <3>3, <3>6 DEF earlier
  <2>10. QED
    BY <2>8, <2>9
<1>2. ASSUME IInv, AuditInv, NEW a \in AssetId, Exists(a)
      PROVE  /\ {e.previousRevision : e \in EventsOf(a)} = 1..(assets[a].revision - 1)
             /\ Cardinality(EventsOf(a)) = assets[a].revision - 1
             /\ (\E e \in EventsOf(a) : e.archived) <=> ~assets[a].active
  BY <1>2 DEF AuditInv, TrailsFit, Numbered, Followed
<1>3. ASSUME IInv, AuditInv, NEW a \in AssetId, Exists(a),
             NEW f \in {"name", "quantity", "cost", "quote"}
      PROVE  LET touched == {e \in EventsOf(a) : e.new[f] # Unset}
                 values == <<drawers[a][f]>> \o
                             [r \in 1..(assets[a].revision - 1) |->
                                LET e == CHOOSE e \in EventsOf(a) : e.previousRevision = r
                                IN e.new[f]]
             IN \A e \in touched :
                  LET earlier == {r \in 1..e.previousRevision : values[r] # Unset}
                  IN e.previous[f] = values[Max(earlier)]
  <2> DEFINE values == <<drawers[a][f]>> \o
                         [r \in 1..(assets[a].revision - 1) |->
                            LET e == CHOOSE e \in EventsOf(a) : e.previousRevision = r
                            IN e.new[f]]
  <2>1. values = Values(EventsOf(a), assets[a].revision, f, drawers[a][f])
    BY DEF Values
  <2>2. f \in Audited
    BY DEF Audited
  <2> HIDE DEF values
  <2>3. \A e \in EventsOf(a) : e.new[f] # Unset =>
          e.previous[f] = values[Max({r \in 1..e.previousRevision : values[r] # Unset})]
    BY <1>1, <1>3, <2>1, <2>2
  <2>4. QED
    BY <2>3 DEF values
<1>4. IInv /\ AuditInv => AuditTrailIsComplete
  BY <1>2, <1>3 DEF AuditTrailIsComplete
<1>5. QED
  BY <1>4, Inductive, AuditInductive, PTL
-----------------------------------------------------------------------------
(* Reports as sums *)

HeldAssets(day) == {a \in Acquired(day) : HeldOn(a, day)}

ValuedAssets(day) == {a \in HeldAssets(day) : Shown(a, day) # None}

EligibleAssets(day) == {a \in HeldAssets(day) : assets[a].kind # "CASH"}

CoveredAssets(day) == {a \in EligibleAssets(day) : Covered(a, Shown(a, day))}

ShownValues(day) == [a \in AssetId |-> Shown(a, day).value]

ShownCosts(day) == [a \in AssetId |-> Shown(a, day).cost]

TotalOrNone(f, S) == IF S = {} THEN None ELSE Total(f, S)

LEMMA ValueSums ==
  \A day, S : S \subseteq AssetId =>
    MapThenSumSet(LAMBDA a : Shown(a, day).value, S) = Total(ShownValues(day), S)
<1> SUFFICES ASSUME NEW day, NEW S, S \subseteq AssetId
             PROVE  MapThenSumSet(LAMBDA a : Shown(a, day).value, S) = Total(ShownValues(day), S)
  OBVIOUS
<1> DEFINE F(h) == [s \in SUBSET S |-> IF s = {} THEN 0
                      ELSE Shown(CHOOSE x \in s : TRUE, day).value
                             + h[s \ {CHOOSE x \in s : TRUE}]]
<1>1. ASSUME NEW h PROVE h = F(h) <=> Sums(ShownValues(day), S, h)
  <2>1. \A s \in SUBSET S : s # {} =>
          ShownValues(day)[Some(s)] = Shown(CHOOSE x \in s : TRUE, day).value
    BY SomeIs DEF ShownValues, Some
  <2>2. F(h) = [s \in SUBSET S |-> IF s = {} THEN 0
                  ELSE ShownValues(day)[Some(s)] + h[s \ {Some(s)}]]
    BY <2>1 DEF Some
  <2>3. QED
    BY <2>2 DEF Sums
<1>2. MapThenSumSet(LAMBDA a : Shown(a, day).value, S) = (CHOOSE h : h = F(h))[S]
  BY DEF MapThenSumSet, MapThenFoldSet
<1> HIDE DEF F
<1>3. (CHOOSE h : h = F(h)) = (CHOOSE h : Sums(ShownValues(day), S, h))
  BY <1>1, Zenon
<1>4. QED
  BY <1>2, <1>3, TotalIs

LEMMA CostSums ==
  \A day, S : S \subseteq AssetId =>
    MapThenSumSet(LAMBDA a : Shown(a, day).cost, S) = Total(ShownCosts(day), S)
<1> SUFFICES ASSUME NEW day, NEW S, S \subseteq AssetId
             PROVE  MapThenSumSet(LAMBDA a : Shown(a, day).cost, S) = Total(ShownCosts(day), S)
  OBVIOUS
<1> DEFINE F(h) == [s \in SUBSET S |-> IF s = {} THEN 0
                      ELSE Shown(CHOOSE x \in s : TRUE, day).cost
                             + h[s \ {CHOOSE x \in s : TRUE}]]
<1>1. ASSUME NEW h PROVE h = F(h) <=> Sums(ShownCosts(day), S, h)
  <2>1. \A s \in SUBSET S : s # {} =>
          ShownCosts(day)[Some(s)] = Shown(CHOOSE x \in s : TRUE, day).cost
    BY SomeIs DEF ShownCosts, Some
  <2>2. F(h) = [s \in SUBSET S |-> IF s = {} THEN 0
                  ELSE ShownCosts(day)[Some(s)] + h[s \ {Some(s)}]]
    BY <2>1 DEF Some
  <2>3. QED
    BY <2>2 DEF Sums
<1>2. MapThenSumSet(LAMBDA a : Shown(a, day).cost, S) = (CHOOSE h : h = F(h))[S]
  BY DEF MapThenSumSet, MapThenFoldSet
<1> HIDE DEF F
<1>3. (CHOOSE h : h = F(h)) = (CHOOSE h : Sums(ShownCosts(day), S, h))
  BY <1>1, Zenon
<1>4. QED
  BY <1>2, <1>3, TotalIs

LEMMA ReportIs ==
  \A day : Report(day) =
    [date |-> day,
     complete |-> HeldAssets(day) = ValuedAssets(day),
     known |-> Total(ShownValues(day), ValuedAssets(day)),
     cost |-> TotalOrNone(ShownCosts(day), CoveredAssets(day)),
     value |-> TotalOrNone(ShownValues(day), CoveredAssets(day)),
     eligible |-> Cardinality(EligibleAssets(day)),
     pnlAssets |-> Cardinality(CoveredAssets(day))]
<1> SUFFICES ASSUME NEW day
    PROVE Report(day) =
      [date |-> day,
       complete |-> HeldAssets(day) = ValuedAssets(day),
       known |-> Total(ShownValues(day), ValuedAssets(day)),
       cost |-> TotalOrNone(ShownCosts(day), CoveredAssets(day)),
       value |-> TotalOrNone(ShownValues(day), CoveredAssets(day)),
       eligible |-> Cardinality(EligibleAssets(day)),
       pnlAssets |-> Cardinality(CoveredAssets(day))]
  OBVIOUS
<1> DEFINE held == {a \in Acquired(day) : HeldOn(a, day)}
           missing == {a \in held : Shown(a, day) = None}
           eligible == {a \in held : assets[a].kind # "CASH"}
           covered == {a \in eligible : Covered(a, Shown(a, day))}
<1>1. /\ held = HeldAssets(day) /\ eligible = EligibleAssets(day)
      /\ covered = CoveredAssets(day) /\ held \ missing = ValuedAssets(day)
      /\ missing = {} <=> HeldAssets(day) = ValuedAssets(day)
  BY DEF HeldAssets, EligibleAssets, CoveredAssets, ValuedAssets
<1>2. ValuedAssets(day) \subseteq AssetId /\ CoveredAssets(day) \subseteq AssetId
  BY DEF HeldAssets, ValuedAssets, EligibleAssets, CoveredAssets, Acquired
<1>3. Report(day) =
        [date |-> day, complete |-> missing = {},
         known |-> MapThenSumSet(LAMBDA a : Shown(a, day).value, held \ missing),
         cost |-> IF covered = {} THEN None
                  ELSE MapThenSumSet(LAMBDA a : Shown(a, day).cost, covered),
         value |-> IF covered = {} THEN None
                   ELSE MapThenSumSet(LAMBDA a : Shown(a, day).value, covered),
         eligible |-> Cardinality(eligible), pnlAssets |-> Cardinality(covered)]
  BY DEF Report, SumOrNone
<1> HIDE DEF held, missing, eligible, covered
<1>4. /\ MapThenSumSet(LAMBDA a : Shown(a, day).value, held \ missing)
           = Total(ShownValues(day), ValuedAssets(day))
      /\ MapThenSumSet(LAMBDA a : Shown(a, day).value, covered)
           = Total(ShownValues(day), CoveredAssets(day))
      /\ MapThenSumSet(LAMBDA a : Shown(a, day).cost, covered)
           = Total(ShownCosts(day), CoveredAssets(day))
  BY <1>1, <1>2, ValueSums, CostSums
<1>5. QED
  BY <1>1, <1>3, <1>4 DEF TotalOrNone

LEMMA RowValueSums ==
  \A c, S : MapThenSumSet(LAMBDA a : c[a].value, S) = Total([a \in S |-> c[a].value], S)
<1> SUFFICES ASSUME NEW c, NEW S
             PROVE  MapThenSumSet(LAMBDA a : c[a].value, S) = Total([a \in S |-> c[a].value], S)
  OBVIOUS
<1> DEFINE F(h) == [s \in SUBSET S |-> IF s = {} THEN 0
                      ELSE c[CHOOSE x \in s : TRUE].value + h[s \ {CHOOSE x \in s : TRUE}]]
           f == [a \in S |-> c[a].value]
<1>1. ASSUME NEW h PROVE h = F(h) <=> Sums(f, S, h)
  <2>1. \A s \in SUBSET S : s # {} => f[Some(s)] = c[CHOOSE x \in s : TRUE].value
    BY SomeIs DEF Some
  <2> HIDE DEF f
  <2>2. F(h) = [s \in SUBSET S |-> IF s = {} THEN 0 ELSE f[Some(s)] + h[s \ {Some(s)}]]
    BY <2>1 DEF Some
  <2>3. QED
    BY <2>2 DEF Sums
<1>2. MapThenSumSet(LAMBDA a : c[a].value, S) = (CHOOSE h : h = F(h))[S]
  BY DEF MapThenSumSet, MapThenFoldSet
<1> HIDE DEF F, f
<1>3. (CHOOSE h : h = F(h)) = (CHOOSE h : Sums(f, S, h))
  BY <1>1, Zenon
<1>4. QED
  BY <1>2, <1>3, TotalIs DEF f

LEMMA RowCostSums ==
  \A c, S : MapThenSumSet(LAMBDA a : c[a].cost, S) = Total([a \in S |-> c[a].cost], S)
<1> SUFFICES ASSUME NEW c, NEW S
             PROVE  MapThenSumSet(LAMBDA a : c[a].cost, S) = Total([a \in S |-> c[a].cost], S)
  OBVIOUS
<1> DEFINE F(h) == [s \in SUBSET S |-> IF s = {} THEN 0
                      ELSE c[CHOOSE x \in s : TRUE].cost + h[s \ {CHOOSE x \in s : TRUE}]]
           f == [a \in S |-> c[a].cost]
<1>1. ASSUME NEW h PROVE h = F(h) <=> Sums(f, S, h)
  <2>1. \A s \in SUBSET S : s # {} => f[Some(s)] = c[CHOOSE x \in s : TRUE].cost
    BY SomeIs DEF Some
  <2> HIDE DEF f
  <2>2. F(h) = [s \in SUBSET S |-> IF s = {} THEN 0 ELSE f[Some(s)] + h[s \ {Some(s)}]]
    BY <2>1 DEF Some
  <2>3. QED
    BY <2>2 DEF Sums
<1>2. MapThenSumSet(LAMBDA a : c[a].cost, S) = (CHOOSE h : h = F(h))[S]
  BY DEF MapThenSumSet, MapThenFoldSet
<1> HIDE DEF F, f
<1>3. (CHOOSE h : h = F(h)) = (CHOOSE h : Sums(f, S, h))
  BY <1>1, Zenon
<1>4. QED
  BY <1>2, <1>3, TotalIs DEF f

\* The walk over the rows loaded for a report finds the valuation of the day.
LEMMA WalkFindsShown ==
  ASSUME TypeOK, NEW a, NEW asOf \in Nat, NEW day \in Nat, day <= asOf
  PROVE  LatestBefore(a, asOf, day) = Shown(a, day)
<1> DEFINE rows == {i \in ValuationsOf(a) : valuations[i].valuedAt <= day}
<1>1. {i \in {j \in ValuationsOf(a) : valuations[j].valuedAt <= asOf} :
         valuations[i].valuedAt <= day} = rows
  BY RowDates DEF ValuationsOf
<1>2. rows \subseteq DOMAIN valuations
  BY DEF ValuationsOf
<1> HIDE DEF rows
<1>3. CASE rows = {}
  BY <1>1, <1>3 DEF LatestBefore, Shown, LatestOn, rows
<1>4. CASE rows # {}
  <2>1. (CHOOSE i \in rows : \A j \in rows : Supersedes(i, j)) \in rows
    BY <1>2, <1>4, SupersedingRow
  <2>2. (CHOOSE i \in rows : \A j \in rows : Supersedes(i, j)) # 0
    BY <1>2, <2>1, RowDates
  <2>3. LatestOn(a, day) = CHOOSE i \in rows : \A j \in rows : Supersedes(i, j)
    BY <1>4 DEF LatestOn, rows
  <2>4. LatestBefore(a, asOf, day)
          = valuations[CHOOSE i \in rows : \A j \in rows : Supersedes(i, j)]
    BY <1>1, <1>4 DEF LatestBefore
  <2>5. QED
    BY <2>2, <2>3, <2>4 DEF Shown
<1>5. QED
  BY <1>3, <1>4

\* A point of the history is the report of its day.
LEMMA PointIsReport ==
  ASSUME TypeOK, NEW asOf \in Day, NEW day \in Day, day <= asOf
  PROVE  HistoryPoint(asOf, day) = Report(day)
<1> DEFINE D == {b \in Acquired(asOf) : HeldOn(b, day)}
           c == [a \in D |-> LatestBefore(a, asOf, day)]
           valued == {a \in DOMAIN c : c[a] # None}
           eligible == {a \in DOMAIN c : assets[a].kind # "CASH"}
           covered == {a \in eligible : Covered(a, c[a])}
<1>1. Day \subseteq Nat
  BY TimeAssumption
<1>2. D = HeldAssets(day)
  <2>1. \A a \in AssetId : Exists(a) => assets[a].acquired \in Nat
    BY <1>1 DEF TypeOK, Exists, Asset
  <2>2. QED
    BY <1>1, <2>1 DEF HeldAssets, Acquired, HeldOn
<1>3. DOMAIN c = HeldAssets(day) /\ \A a \in HeldAssets(day) : c[a] = Shown(a, day)
  BY <1>1, <1>2, WalkFindsShown
<1>4. HistoryPoint(asOf, day) =
        [date |-> day, complete |-> valued = DOMAIN c,
         known |-> MapThenSumSet(LAMBDA a : c[a].value, valued),
         cost |-> IF covered = {} THEN None ELSE MapThenSumSet(LAMBDA a : c[a].cost, covered),
         value |-> IF covered = {} THEN None ELSE MapThenSumSet(LAMBDA a : c[a].value, covered),
         eligible |-> Cardinality(eligible), pnlAssets |-> Cardinality(covered)]
  BY DEF HistoryPoint, SumOrNone
<1> HIDE DEF c
<1>5. /\ valued = ValuedAssets(day) /\ eligible = EligibleAssets(day)
      /\ covered = CoveredAssets(day)
  BY <1>3 DEF ValuedAssets, EligibleAssets, CoveredAssets
<1>6. /\ ValuedAssets(day) \subseteq HeldAssets(day) /\ CoveredAssets(day) \subseteq HeldAssets(day)
      /\ HeldAssets(day) \subseteq AssetId
  BY DEF ValuedAssets, EligibleAssets, CoveredAssets, HeldAssets, Acquired
<1>7. ASSUME NEW S, S \subseteq HeldAssets(day)
      PROVE  /\ MapThenSumSet(LAMBDA a : c[a].value, S) = Total(ShownValues(day), S)
             /\ MapThenSumSet(LAMBDA a : c[a].cost, S) = Total(ShownCosts(day), S)
  <2>1. \A a \in S : /\ [b \in S |-> c[b].value][a] = ShownValues(day)[a]
                     /\ [b \in S |-> c[b].cost][a] = ShownCosts(day)[a]
    BY <1>3, <1>6, <1>7 DEF ShownValues, ShownCosts
  <2>2. /\ Total([b \in S |-> c[b].value], S) = Total(ShownValues(day), S)
        /\ Total([b \in S |-> c[b].cost], S) = Total(ShownCosts(day), S)
    BY <2>1, TotalSame
  <2>3. QED
    BY <2>2, RowValueSums, RowCostSums
<1> HIDE DEF valued, eligible, covered
<1>8. /\ MapThenSumSet(LAMBDA a : c[a].value, valued) = Total(ShownValues(day), valued)
      /\ MapThenSumSet(LAMBDA a : c[a].value, covered) = Total(ShownValues(day), covered)
      /\ MapThenSumSet(LAMBDA a : c[a].cost, covered) = Total(ShownCosts(day), covered)
  BY <1>5, <1>6, <1>7
<1>9. QED
  BY <1>3, <1>4, <1>5, <1>8, ReportIs DEF TotalOrNone

LEMMA ShownIs ==
  ASSUME TypeOK, NEW a \in AssetId, NEW day \in Day, Shown(a, day) # None
  PROVE  /\ Shown(a, day) \in Valuation /\ Shown(a, day).asset = a
         /\ \E i \in DOMAIN valuations : Shown(a, day) = valuations[i]
<1>1. LatestOn(a, day) # 0 /\ Shown(a, day) = valuations[LatestOn(a, day)]
  BY DEF Shown
<1>2. LatestOn(a, day) \in ValuationsOf(a)
  BY <1>1, LatestOnIs
<1>3. QED
  BY <1>1, <1>2, RowDates DEF ValuationsOf

LEMMA ValuedAreFinite ==
  ASSUME TypeOK, NEW day \in Day
  PROVE  IsFiniteSet(ValuedAssets(day))
<1> DEFINE g == [i \in 1..Len(valuations) |-> valuations[i].asset]
           T == {g[i] : i \in 1..Len(valuations)}
<1>1. Len(valuations) \in Nat /\ DOMAIN valuations = 1..Len(valuations)
  BY RowDates
<1>2. IsFiniteSet(1..Len(valuations))
  BY <1>1, FS_Interval
<1>3. g \in Surjection(1..Len(valuations), T)
  BY DEF Surjection
<1>4. IsFiniteSet(T)
  BY <1>2, <1>3, FS_Surjection
<1>5. ASSUME NEW a \in ValuedAssets(day) PROVE a \in T
  <2>1. a \in AssetId /\ Shown(a, day) # None
    BY DEF ValuedAssets, HeldAssets, Acquired
  <2>2. PICK i \in DOMAIN valuations : Shown(a, day) = valuations[i]
    BY <2>1, ShownIs
  <2>3. valuations[i].asset = a
    BY <2>1, <2>2, ShownIs
  <2>4. QED
    BY <1>1, <2>3
<1> HIDE DEF T
<1>6. ValuedAssets(day) \in SUBSET T
  BY <1>5
<1>7. QED
  BY <1>4, <1>6, FS_Subset

\* The groups of the allocation are the subtotals of the known value.
LEMMA AllocationIs ==
  ASSUME TypeOK, NEW day \in Day, NEW kind, kind = [a \in AssetId |-> assets[a].kind]
  PROVE  AllocationByType(day) = Subtotals(ShownValues(day), kind, ValuedAssets(day))
<1> DEFINE c == HoldingsOn(day)
           V == {a \in AssetId : c[a] # None}
<1>1. ASSUME NEW a \in AssetId
      PROVE  /\ c[a] # None <=> a \in ValuedAssets(day)
             /\ c[a] # None => c[a].value = ShownValues(day)[a]
  <2>1. c[a] = IF Exists(a) /\ HeldOn(a, day) THEN Holding(a, day) ELSE None
    BY DEF HoldingsOn
  <2>2. Exists(a) /\ HeldOn(a, day) <=> a \in HeldAssets(day)
    BY DEF HeldAssets, Acquired, HeldOn
  <2>3. CASE Shown(a, day) = None
    BY <2>1, <2>3 DEF Holding, ValuedAssets
  <2>4. CASE Shown(a, day) # None
    <3>1. Holding(a, day) = [quantity |-> Shown(a, day).quantity,
                             cost |-> Shown(a, day).cost, value |-> Shown(a, day).value]
      BY <2>4 DEF Holding
    <3>2. Shown(a, day) \in Valuation
      BY <2>4, ShownIs
    <3>3. Holding(a, day) \in HoldingRow
      BY <3>1, <3>2 DEF HoldingRow, Valuation
    <3>4. QED
      BY <2>1, <2>2, <2>4, <3>1, <3>3, HoldingAssumption DEF ValuedAssets, ShownValues
  <2>5. QED
    BY <2>3, <2>4
<1>2. ValuedAssets(day) \subseteq AssetId
  BY DEF ValuedAssets, HeldAssets, Acquired
<1>3. AllocationByType(day) =
        [k \in {assets[a].kind : a \in V} |->
           MapThenSumSet(LAMBDA a : c[a].value, {a \in V : assets[a].kind = k})]
  BY DEF AllocationByType
<1> HIDE DEF c
<1>4. V = ValuedAssets(day)
  BY <1>1, <1>2
<1>5. /\ {assets[a].kind : a \in V} = Groups(kind, ValuedAssets(day))
      /\ \A k : {a \in V : assets[a].kind = k} = OfGroup(kind, ValuedAssets(day), k)
  BY <1>2, <1>4 DEF Groups, OfGroup
<1> HIDE DEF V
<1>6. ASSUME NEW k
      PROVE  MapThenSumSet(LAMBDA a : c[a].value, {a \in V : assets[a].kind = k})
               = Total(ShownValues(day), OfGroup(kind, ValuedAssets(day), k))
  <2> DEFINE S == OfGroup(kind, ValuedAssets(day), k)
  <2>1. S \subseteq ValuedAssets(day)
    BY DEF OfGroup
  <2>2. \A a \in S : [b \in S |-> c[b].value][a] = ShownValues(day)[a]
    BY <1>1, <1>2, <2>1
  <2> HIDE DEF S
  <2>3. Total([b \in S |-> c[b].value], S) = Total(ShownValues(day), S)
    BY <2>2, TotalSame
  <2>4. MapThenSumSet(LAMBDA a : c[a].value, S) = Total([b \in S |-> c[b].value], S)
    BY RowValueSums
  <2>5. QED
    BY <1>5, <2>3, <2>4 DEF S
<1>7. QED
  BY <1>3, <1>5, <1>6 DEF Subtotals

LEMMA AllocationAddsUp ==
  ASSUME TypeOK, NEW day \in Day
  PROVE  Report(day).known =
           MapThenSumSet(LAMBDA k : AllocationByType(day)[k], DOMAIN AllocationByType(day))
<1> DEFINE kind == [a \in AssetId |-> assets[a].kind]
           V == ValuedAssets(day)
           A == AllocationByType(day)
<1>1. A = Subtotals(ShownValues(day), kind, V)
  BY AllocationIs
<1>2. DOMAIN A = Groups(kind, V)
  BY <1>1 DEF Subtotals
<1>3. \A a \in V : ShownValues(day)[a] \in Nat
  BY ShownIs DEF ValuedAssets, HeldAssets, Acquired, ShownValues, Valuation
<1>4. MapThenSumSet(LAMBDA k : A[k], DOMAIN A) = Total(A, DOMAIN A)
  BY DEF Total
<1>5. Report(day).known = Total(ShownValues(day), V)
  BY ReportIs
<1> HIDE DEF kind, V, A
<1>6. Total(ShownValues(day), V) = Total(A, DOMAIN A)
  BY <1>1, <1>2, <1>3, ValuedAreFinite, TotalByGroup DEF V
<1>7. QED
  BY <1>4, <1>5, <1>6 DEF A

\* The history and the allocation agree with the reports, whatever assets and
\* valuations there are (build_portfolio and _history).
THEOREM ReportsAgreeWithHistory == Spec => []HistoryAgreesWithReports
<1>1. ASSUME TypeOK, NEW asOf \in Day, NEW point \in History(asOf)
      PROVE  point = Report(point.date)
  <2>1. PICK day \in PointDates(asOf) : point = HistoryPoint(asOf, day)
    BY DEF History
  <2>2. day \in Day /\ day <= asOf
    BY TimeAssumption DEF PointDates
  <2>3. point = Report(day)
    BY <1>1, <2>1, <2>2, PointIsReport
  <2>4. point.date = day
    BY <2>3, ReportIs
  <2>5. QED
    BY <2>3, <2>4
<1>2. TypeOK => HistoryAgreesWithReports
  BY <1>1, AllocationAddsUp DEF HistoryAgreesWithReports
<1>3. QED
  BY <1>2, TypeCorrect, PTL
-----------------------------------------------------------------------------
(* The reports of the past *)

LEMMA ReportBecomes ==
  (\A day : Report(day) =
     [date |-> day,
      complete |-> HeldAssets(day) = ValuedAssets(day),
      known |-> Total(ShownValues(day), ValuedAssets(day)),
      cost |-> TotalOrNone(ShownCosts(day), CoveredAssets(day)),
      value |-> TotalOrNone(ShownValues(day), CoveredAssets(day)),
      eligible |-> Cardinality(EligibleAssets(day)),
      pnlAssets |-> Cardinality(CoveredAssets(day))])'
  BY ReportIs, PTL

\* Only an asset that is not active has a day of archival.
ArchivalsFit ==
  \A a \in AssetId : Exists(a) /\ assets[a].active => assets[a].archivedOn = None

\* What an edit leaves of the rest of the asset
LEMMA EditKeeps ==
  ASSUME IInv, NEW a \in AssetId, NEW patch \in Patches, NEW effectiveAt \in Day \cup {None},
         Edits(a, patch, effectiveAt)
  PROVE  /\ assets'[a].acquired = assets[a].acquired
         /\ assets'[a].archivedOn = IF patch.active = FALSE THEN Today ELSE assets[a].archivedOn
<1>1. assets[a] \in Asset /\ patch \in Patch /\ assets'[a] = Patched(assets[a], patch)
  BY PatchAssumption DEF IInv, TypeOK, Edits, Exists
<1>2. /\ DOMAIN patch = {"name", "quantity", "cost", "quote", "active"}
      /\ "acquired" \in DOMAIN assets[a] /\ "archivedOn" \in DOMAIN assets[a]
  BY <1>1 DEF Patch, Asset
<1>3. QED
  BY <1>1, <1>2 DEF Patched, SetFields

LEMMA ArchivalsKept == IInv /\ ArchivalsFit /\ [Next]_vars => ArchivalsFit'
<1> SUFFICES ASSUME IInv, ArchivalsFit, [Next]_vars PROVE ArchivalsFit'
  OBVIOUS
<1>1. CASE UNCHANGED <<assets, events, drawers>>
  BY <1>1 DEF ArchivalsFit, Exists
<1>2. ASSUME NEW a \in AssetId, NEW body \in Purchases, PostAsset(a, body)
      PROVE  ArchivalsFit'
  <2>1. /\ assets'[a] = Created(body)
        /\ \A b \in AssetId : b # a => assets'[b] = assets[b]
    BY <1>2 DEF PostAsset, IInv, TypeOK
  <2>2. QED
    BY <2>1 DEF ArchivalsFit, Exists, Created
<1>3. ASSUME NEW a \in AssetId, NEW patch \in Patches, NEW effectiveAt \in Day \cup {None},
             Edits(a, patch, effectiveAt)
      PROVE  ArchivalsFit'
  <2>1. PICK e : e = Recorded(a, patch, effectiveAt)
    OBVIOUS
  <2>2. /\ assets'[a].active <=> ~e.archived
        /\ \A b \in AssetId : b # a => assets'[b] = assets[b]
    BY <1>3, <2>1, EditIs
  <2>3. e.archived = (patch.active = FALSE)
    BY <2>1 DEF Recorded
  <2>4. Exists(a) /\ assets[a].active
    BY <1>3 DEF Edits
  <2>5. assets'[a].active => assets'[a].archivedOn = None
    BY <1>3, <2>2, <2>3, <2>4, EditKeeps DEF ArchivalsFit
  <2>6. QED
    BY <2>2, <2>5 DEF ArchivalsFit, Exists
<1>4. QED
  BY <1>1, <1>2, <1>3, EditSteps

\* A row of a later date changes nothing of what the day shows.
LEMMA EarlierShown ==
  ASSUME IInv, NEW a \in AssetId, NEW patch \in Patches, NEW effectiveAt \in Day \cup {None},
         Edits(a, patch, effectiveAt), NEW day \in Day, effectiveAt # None => day < effectiveAt,
         NEW b \in AssetId
  PROVE  Shown(b, day)' = Shown(b, day)
<1>1. CASE effectiveAt = None
  BY <1>1 DEF Edits, Shown, LatestOn, ValuationsOf, Supersedes
<1>2. CASE effectiveAt # None
  <2>1. effectiveAt \in Day /\ effectiveAt \in Nat /\ day \in Nat /\ day < effectiveAt
    BY <1>2, TimeAssumption
  <2>2. PICK value, price : valuations' = Append(valuations,
                              ManualRow(a, Patched(assets[a], patch), effectiveAt, value, price))
    BY <1>2 DEF Edits
  <2>3. PICK row : row = ManualRow(a, Patched(assets[a], patch), effectiveAt, value, price)
    OBVIOUS
  <2>4. row.asset = a /\ row.valuedAt = effectiveAt
    BY <2>3 DEF ManualRow
  <2>5. /\ valuations'[Len(valuations) + 1] = row
        /\ \A i \in 1..Len(valuations) : valuations'[i] = valuations[i]
        /\ \A i \in ValuationsOf(b)' : i \in ValuationsOf(b) \/ i = Len(valuations) + 1
    BY <2>2, <2>3, <2>4, AppendedRow
  <2>6. DOMAIN valuations = 1..Len(valuations) /\ Len(valuations) \in Nat
    BY RowDates DEF IInv
  <2>7. ValuationsOf(b) \subseteq ValuationsOf(b)'
    BY <2>2, <2>5, <2>6 DEF ValuationsOf, IInv, TypeOK
  <2> DEFINE rows == {i \in ValuationsOf(b) : valuations[i].valuedAt <= day}
             later == {i \in ValuationsOf(b)' : valuations'[i].valuedAt <= day}
  <2>8. later = rows
    <3>1. \A i \in ValuationsOf(b) : valuations'[i] = valuations[i]
      BY <2>5, <2>6 DEF ValuationsOf
    <3>2. ~(valuations'[Len(valuations) + 1].valuedAt <= day)
      BY <2>1, <2>5, <2>4
    <3>3. QED
      BY <2>5, <2>7, <3>1, <3>2
  <2>9. \A i, j \in rows : Supersedes(i, j)' <=> Supersedes(i, j)
    BY <2>5, <2>6 DEF Supersedes, ValuationsOf
  <2>10. \A i \in rows : valuations'[i] = valuations[i]
    BY <2>5, <2>6 DEF ValuationsOf
  <2>11. rows \subseteq DOMAIN valuations /\ 0 \notin rows
    BY <2>6 DEF ValuationsOf
  <2>12. TypeOK
    BY DEF IInv
  <2> DEFINE newest == CHOOSE i \in rows : \A j \in rows : Supersedes(i, j)
             newestLater == CHOOSE i \in later : \A j \in later : Supersedes(i, j)'
  <2>13. LatestOn(b, day) = IF rows = {} THEN 0 ELSE newest
    BY DEF LatestOn
  <2>14. LatestOn(b, day)' = IF later = {} THEN 0 ELSE newestLater
    BY DEF LatestOn
  <2> HIDE DEF rows, later
  <2>15. newestLater = newest
    BY <2>8, <2>9
  <2>16. newest \in rows \/ rows = {}
    BY <2>11, <2>12, SupersedingRow
  <2> HIDE DEF newest, newestLater
  <2>17. LatestOn(b, day)' = LatestOn(b, day)
    BY <2>8, <2>13, <2>14, <2>15
  <2>18. LatestOn(b, day) = 0 \/ LatestOn(b, day) \in rows
    BY <2>13, <2>16
  <2>19. QED
    BY <2>10, <2>17, <2>18 DEF Shown
<1>3. QED
  BY <1>1, <1>2

\* An edit leaves the reports of the days before it as they were.
LEMMA PastStays ==
  ASSUME IInv, ArchivalsFit, NEW a \in AssetId, NEW patch \in Patches,
         NEW effectiveAt \in Day \cup {None}, Edits(a, patch, effectiveAt), NEW day \in Day,
         effectiveAt # None => day < effectiveAt, patch.active = FALSE => day < Today,
         patch.quote = Unset
  PROVE  HoldingsOn(day)' = HoldingsOn(day) /\ Report(day)' = Report(day)
<1>1. \A b \in AssetId : Shown(b, day)' = Shown(b, day)
  BY EarlierShown
<1>2. PICK e : e = Recorded(a, patch, effectiveAt)
  OBVIOUS
<1>3. /\ assets[a] \in Asset /\ assets'[a] \in Asset /\ assets'[a].kind = assets[a].kind
      /\ assets'[a].quote = assets[a].quote
      /\ \A b \in AssetId : b # a => assets'[b] = assets[b]
  <2>1. e.new = patch /\ "quote" \in Audited
    BY <1>2 DEF Recorded, Audited
  <2>2. QED
    BY <1>2, <2>1, EditIs
<1>4. /\ assets'[a].acquired = assets[a].acquired
      /\ assets'[a].archivedOn = IF patch.active = FALSE THEN Today ELSE assets[a].archivedOn
      /\ assets[a].archivedOn = None
  BY EditKeeps DEF ArchivalsFit, Edits
<1>5. \A b \in AssetId :
        /\ Exists(b)' <=> Exists(b)
        /\ assets'[b].kind = assets[b].kind /\ assets'[b].quote = assets[b].quote
        /\ assets'[b].acquired = assets[b].acquired
        /\ HeldOn(b, day)' <=> HeldOn(b, day)
  <2>1. Exists(a)' /\ Exists(a)
    BY <1>3, SentinelAssumption DEF Exists
  <2>2. HeldOn(a, day)' <=> HeldOn(a, day)
    BY <1>4 DEF HeldOn
  <2>3. QED
    BY <1>3, <1>4, <2>1, <2>2 DEF Exists, HeldOn
<1>6. HoldingsOn(day)' = HoldingsOn(day)
  BY <1>1, <1>5 DEF HoldingsOn, Holding
<1>7. HeldAssets(day)' = HeldAssets(day)
  BY <1>5 DEF HeldAssets, Acquired
<1>8. HeldAssets(day) \subseteq AssetId
  BY DEF HeldAssets, Acquired
<1>9. /\ ValuedAssets(day)' = ValuedAssets(day) /\ EligibleAssets(day)' = EligibleAssets(day)
  BY <1>1, <1>5, <1>7, <1>8 DEF ValuedAssets, EligibleAssets
<1>10. CoveredAssets(day)' = CoveredAssets(day)
  <2>1. EligibleAssets(day) \subseteq AssetId
    BY <1>8 DEF EligibleAssets
  <2>2. \A b \in EligibleAssets(day) :
          Covered(b, Shown(b, day))' <=> Covered(b, Shown(b, day))
    BY <1>1, <1>5, <2>1 DEF Covered, IsUnpricedSecurity
  <2>3. QED
    BY <1>9, <2>2 DEF CoveredAssets
<1>11. ShownValues(day)' = ShownValues(day) /\ ShownCosts(day)' = ShownCosts(day)
  BY <1>1 DEF ShownValues, ShownCosts
<1>12. QED
  BY <1>6, <1>7, <1>9, <1>10, <1>11, ReportIs, ReportBecomes DEF TotalOrNone

\* A change of position leaves the reports of the days before its effective
\* date as they were, an archival those before the day of archival, whatever
\* else the portfolio holds (patch_asset against build_portfolio).
THEOREM ThePastIsKept == Spec => PastReportsStay
<1>1. Init => ArchivalsFit
  BY DEF Init, ArchivalsFit, Exists
<1>2. ASSUME IInv, ArchivalsFit, [Next]_vars, NEW e \in events' \ events, NEW day \in Day,
             e.effectiveAt # None => day < e.effectiveAt, e.archived => day < Today,
             e.new.quote = Unset
      PROVE  HoldingsOn(day)' = HoldingsOn(day) /\ Report(day)' = Report(day)
  <2>1. \E a \in AssetId, patch \in Patches, effectiveAt \in Day \cup {None} :
          Edits(a, patch, effectiveAt)
    BY <1>2, EditSteps DEF PostAsset
  <2>2. PICK a \in AssetId, patch \in Patches, effectiveAt \in Day \cup {None} :
          Edits(a, patch, effectiveAt)
    BY <2>1
  <2>3. e = Recorded(a, patch, effectiveAt)
    BY <1>2, <2>2 DEF Edits
  <2>4. /\ e.effectiveAt = effectiveAt /\ e.archived = (patch.active = FALSE)
        /\ e.new = patch
    BY <2>3 DEF Recorded
  <2>5. QED
    BY <1>2, <2>2, <2>4, PastStays
<1>3. IInv /\ ArchivalsFit /\ [Next]_vars =>
        [\A e \in events' \ events : \A day \in Day :
           /\ e.effectiveAt # None => day < e.effectiveAt
           /\ e.archived => day < Today
           /\ e.new.quote = Unset
           => HoldingsOn(day)' = HoldingsOn(day) /\ Report(day)' = Report(day)]_vars
  BY <1>2
<1>4. IInv /\ ArchivalsFit /\ [Next]_vars => ArchivalsFit'
  BY ArchivalsKept
<1>5. QED
  BY <1>1, <1>3, <1>4, Inductive, PTL DEF Spec, PastReportsStay

-----------------------------------------------------------------------------
(* The rows of a quote request *)

\* A day that has a row of an asset shows the last of that day.
DaysAreShown ==
  \A a \in AssetId, day \in Day : \A j \in ValuationsOf(a) :
    valuations[j].valuedAt = day =>
      LET i == LatestOn(a, day)
      IN i # 0 /\ i \in ValuationsOf(a) /\ valuations[i].valuedAt = day /\ j <= i

LEMMA DaysShown == TypeOK => DaysAreShown
<1> SUFFICES ASSUME TypeOK, NEW a \in AssetId, NEW day \in Day, NEW j \in ValuationsOf(a),
                    valuations[j].valuedAt = day
             PROVE  LET i == LatestOn(a, day)
                    IN i # 0 /\ i \in ValuationsOf(a) /\ valuations[i].valuedAt = day /\ j <= i
  BY DEF DaysAreShown
<1> DEFINE rows == {i \in ValuationsOf(a) : valuations[i].valuedAt <= day}
<1>1. /\ \A i \in ValuationsOf(a) : i \in Nat /\ i # 0 /\ valuations[i].valuedAt \in Nat
      /\ day \in Nat
  BY RowDates, TimeAssumption DEF ValuationsOf
<1>2. j \in rows /\ rows \subseteq DOMAIN valuations
  BY <1>1 DEF ValuationsOf
<1>3. \E i \in rows : \A k \in rows : Supersedes(i, k)
  BY <1>2, SupersedingRow
<1>4. LatestOn(a, day) \in rows
  BY <1>2, <1>3 DEF LatestOn
<1>5. LatestOn(a, day) # 0
  BY <1>1, <1>4
<1> PICK i : i = LatestOn(a, day)
  OBVIOUS
<1>6. /\ i \in ValuationsOf(a) /\ valuations[i].valuedAt <= day /\ LastOfDay(a, i)
      /\ valuations[j].valuedAt <= valuations[i].valuedAt
  BY <1>1, <1>5, LatestOnIs
<1>7. valuations[i].valuedAt = day
  BY <1>1, <1>6
<1>8. QED
  BY <1>5, <1>6, <1>7 DEF LastOfDay

\* A step with a new row that is a quote stores the items of a quote request,
\* one row for each, behind the rows that there were.
LEMMA QuotesAreItems ==
  ASSUME IInv, [Next]_vars, NEW j \in DOMAIN valuations' \ DOMAIN valuations,
         valuations'[j].source # "MANUAL"
  PROVE  \A i \in DOMAIN valuations' :
           i >= j => \E p \in previews : Persistable(p) /\ valuations'[i] = QuoteRow(p)
<1>0. /\ valuations \in Seq(Valuation) /\ valuations' \in Seq(Valuation)
      /\ Len(valuations) \in Nat /\ Len(valuations') \in Nat
      /\ j \in 1..Len(valuations') /\ j > Len(valuations)
  BY RowsGrow DEF IInv, TypeOK
<1>1. ASSUME NEW b, NEW position, NEW valuedAt, NEW value, NEW price,
             valuations' = Append(valuations, ManualRow(b, position, valuedAt, value, price))
      PROVE  FALSE
  <2>1. valuations'[j] = ManualRow(b, position, valuedAt, value, price)
    BY <1>0, <1>1
  <2>2. QED
    BY <2>1 DEF ManualRow
<1>2. ASSUME NEW n \in 1..MaxRequest, NEW items \in [1..n -> previews], PersistQuotes(items),
             NEW i \in DOMAIN valuations', i >= j
      PROVE  \E p \in previews : Persistable(p) /\ valuations'[i] = QuoteRow(p)
  <2>1. valuations' = StoredRows(items) /\ n \in Nat
    BY <1>2 DEF PersistQuotes, StoredRows
  <2>2. Len(valuations') = Len(valuations) + n
    BY <2>1, StoredRowsType
  <2> DEFINE k == i - Len(valuations)
  <2>3. k \in 1..n /\ i = Len(valuations) + k
    BY <1>0, <1>2, <2>1, <2>2
  <2> HIDE DEF k
  <2>4. valuations'[i] = QuoteRow(items[k])
    BY <2>1, <2>3, StoredRowsType
  <2>5. items[k] \in previews /\ Persistable(items[k])
    BY <1>2, <2>3 DEF PersistQuotes
  <2>6. QED
    BY <2>4, <2>5
<1>3. valuations' # valuations
  BY <1>0
<1>4. QED
  BY <1>1, <1>2, <1>3
  DEF Next, vars, Requests, PostAsset, PatchPosition, AddValuation,
      PatchIdentity, PreviewQuotes, PreviewHistory, Forget, Tick

\* Whatever was stored, edited and valued while a client held its previews, the
\* quotes it stores are what the reports of their dates show: of the asset's
\* present instrument and quantity, and not older than what earlier requests
\* stored (persist_quote_snapshots against latest_valuation).
THEOREM RefreshesAreShown == Spec => RefreshReachesTheReport
<1>1. TypeOK' => DaysAreShown'
  BY DaysShown, PTL
<1>2. ASSUME IInv, [Next]_vars, NEW a \in AssetId, NEW day \in Day,
             NEW j \in DOMAIN valuations' \ DOMAIN valuations,
             valuations'[j].asset = a, valuations'[j].valuedAt = day,
             valuations'[j].source # "MANUAL"
      PROVE  LET shown == Shown(a, day)'
             IN /\ shown # None
                /\ shown.source # "MANUAL" /\ shown.valuedAt = day
                /\ shown.quote = assets[a].quote /\ shown.quantity = assets[a].quantity
                /\ \A i \in QuotesOf(a) : valuations[i].fetchedAt <= shown.fetchedAt
  <2>1. DaysAreShown' /\ valuations' \in Seq(Valuation)
    BY <1>1, <1>2, TypeKept DEF TypeOK
  <2> PICK i : i = LatestOn(a, day)'
    OBVIOUS
  <2>2. /\ i # 0 /\ i \in DOMAIN valuations' /\ valuations'[i].asset = a
        /\ valuations'[i].valuedAt = day /\ j <= i
    BY <1>2, <2>1 DEF DaysAreShown, ValuationsOf
  <2>3. Shown(a, day)' = valuations'[i] /\ valuations'[i] \in Valuation
    BY <2>1, <2>2 DEF Shown
  <2>4. PICK p \in previews : Persistable(p) /\ valuations'[i] = QuoteRow(p)
    BY <1>2, <2>2, QuotesAreItems
  <2>5. p \in Preview /\ p.asset = a /\ p.interval # "MANUAL"
    BY <1>2, <2>2, <2>4 DEF QuoteRow, IInv, TypeOK, Preview
  <2>6. /\ assets[a].quote = p.quote /\ assets[a].quantity = p.quantity
        /\ \A k \in QuotesOf(a) : valuations[k].fetchedAt <= p.fetchedAt
    BY <2>4, <2>5 DEF Persistable
  <2>7. Shown(a, day)' # None
    BY <2>3, SentinelAssumption
  <2>8. QED
    BY <2>2, <2>3, <2>4, <2>5, <2>6, <2>7 DEF QuoteRow
<1>3. IInv /\ [Next]_vars =>
        [\A a \in AssetId, day \in Day :
           (\E j \in DOMAIN valuations' \ DOMAIN valuations :
              /\ valuations'[j].asset = a /\ valuations'[j].valuedAt = day
              /\ valuations'[j].source # "MANUAL")
           => LET shown == Shown(a, day)'
              IN /\ shown # None
                 /\ shown.source # "MANUAL" /\ shown.valuedAt = day
                 /\ shown.quote = assets[a].quote /\ shown.quantity = assets[a].quantity
                 /\ \A i \in QuotesOf(a) : valuations[i].fetchedAt <= shown.fetchedAt]_vars
  BY <1>2
<1>4. QED
  BY <1>3, Inductive, PTL DEF Spec, RefreshReachesTheReport
=============================================================================
