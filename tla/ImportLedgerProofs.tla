------------------------- MODULE ImportLedgerProofs -------------------------
(***************************************************************************)
(* Proofs about ImportLedger, for any batches and rows, any mapping        *)
(* results and any similarity of descriptions: that a row which a commit    *)
(* accepts is a transaction made once, and, at the end, what the rows of   *)
(* drafts claim and what their verdicts name.                              *)
(***************************************************************************)
EXTENDS ImportLedger, TLAPS

-----------------------------------------------------------------------------
(* Domains *)

\* A verdict on a duplicate names no duplicate or a row position.
LEMMA VerdictType ==
  ASSUME NEW rows, NEW r \in Row, NEW checkStaged \in BOOLEAN,
         NEW verdict \in Verdicts(rows, r, checkStaged)
  PROVE  verdict.dup \in Duplicate /\ verdict.cand \in Row \cup {None}
<1> DEFINE Resembling == {t \in Row : InLedger(t) /\ Resembles(ledger[t].look, rows[r].look)}
<1>1. ASSUME NEW booked \in SUBSET Row, NEW drafted, NEW v \in Matches(booked, drafted)
      PROVE  v.dup \in Duplicate /\ v.cand \in Row \cup {None}
  BY <1>1 DEF Matches, Exact, Duplicate
<1>2. ASSUME NEW v \in ExactVerdicts(rows, r, checkStaged)
      PROVE  v.dup \in Duplicate /\ v.cand \in Row \cup {None}
  BY <1>1, <1>2 DEF ExactVerdicts
<1>3. ASSUME NEW v \in LikelyVerdicts(rows, r, checkStaged)
      PROVE  v.dup \in Duplicate /\ v.cand \in Row \cup {None}
  <2>1. v \in {Likely(t) : t \in Resembling} \cup {Likely(None), NoDuplicate}
    BY <1>3 DEF LikelyVerdicts
  <2>2. QED
    BY <2>1 DEF Likely, NoDuplicate, Duplicate
<1>4. QED
  BY <1>2, <1>3 DEF Verdicts

\* A staged row is well typed and is not COMMITTED.
LEMMA StagedRowType ==
  ASSUME NEW reading \in Reading, NEW category \in BOOLEAN, NEW verdict,
         verdict.dup \in Duplicate, verdict.cand \in Row \cup {None}
  PROVE  /\ StagedRow(reading, category, verdict) \in Staged
         /\ StagedRow(reading, category, verdict).disp # "COMMITTED"
<1> DEFINE x == [look |-> reading.look, native |-> reading.native,
                 filtered |-> reading.filtered, category |-> category,
                 dup |-> verdict.dup, cand |-> verdict.cand, disp |-> "PENDING"]
<1>1. x \in Staged
  BY DEF Reading, Staged, Disposition
<1>2. InitialDisposition(x) \in Disposition /\ InitialDisposition(x) # "COMMITTED"
  BY DEF InitialDisposition, Disposition
<1>3. StagedRow(reading, category, verdict) = [x EXCEPT !.disp = InitialDisposition(x)]
  BY DEF StagedRow
<1> HIDE DEF x
<1>4. QED
  BY <1>1, <1>2, <1>3 DEF Staged

\* The disposition a review gives is a disposition.
LEMMA ReviewType ==
  ASSUME NEW x \in Staged, NEW choice \in Choice \cup {None}
  PROVE  ReviewedDisposition(x, choice) \in Disposition
  BY ChoiceAssumption DEF ReviewedDisposition, Disposition, Staged

LEMMA RefreshedType ==
  ASSUME NEW rows, NEW b
  PROVE  Refreshed(rows, b) \in {"NEEDS_REVIEW", "READY"}
  BY DEF Refreshed

\* A status refreshed from rows depends on the rows of that batch only.
LEMMA RefreshedSame ==
  ASSUME NEW rows, NEW other, NEW b, \A r \in RowsOf(b) : rows[r] = other[r]
  PROVE  Refreshed(rows, b) = Refreshed(other, b)
  BY DEF Refreshed

LEMMA NameableType ==
  ASSUME NEW verdict \in Nameable
  PROVE  verdict.dup \in Duplicate /\ verdict.cand \in Row \cup {None}
<1>1. verdict \in {NoDuplicate} \cup {Exact(t) : t \in Row \cup {None}}
                   \cup {Likely(t) : t \in Row \cup {None}}
  BY DEF Nameable
<1>2. QED
  BY <1>1 DEF Exact, Likely, NoDuplicate, Duplicate

-----------------------------------------------------------------------------
(* The inductive invariant *)

LEMMA InitHolds == Init => LedgerInv
<1> SUFFICES ASSUME Init PROVE LedgerInv
  OBVIOUS
<1> USE NoneAssumption, EntryAssumption DEF Init
<1>1. TypeOK
  BY DEF TypeOK, Draft
<1>2. RowsTogether /\ CommittedRowsAreKnown /\ StatusFollowsRows
  BY RowAssumption DEF RowsTogether, CommittedRowsAreKnown, StatusFollowsRows
<1>3. CommittedIsWhole /\ IgnoredStaysExcluded
  BY RowAssumption DEF CommittedIsWhole, IgnoredStaysExcluded, InLedger
<1>4. QED
  BY <1>1, <1>2, <1>3 DEF LedgerInv

\* Whatever happens to the rows of one batch before its commit keeps the
\* invariant, when its rows stay together and those that are COMMITTED are
\* declared so.
LEMMA DraftStep ==
  ASSUME LedgerInv, NEW b \in Batch, status[b] \in Draft \cup {"ABSENT"},
         NEW s \in Draft \cup {"DELETED"},
         status' = [status EXCEPT ![b] = s],
         row' \in [Row -> Staged \cup {None}],
         declared' \subseteq Row,
         \A r \in Row \ RowsOf(b) :
           row'[r] = row[r] /\ (r \in declared' <=> r \in declared),
         \A r \in RowsOf(b) :
           r \in declared' <=> row'[r] # None /\ row'[r].disp = "COMMITTED",
         \A r, d \in RowsOf(b) : row'[r] = None <=> row'[d] = None,
         s \in {"NEEDS_REVIEW", "READY"} =>
           s = Refreshed(row', b) /\ \A r \in RowsOf(b) : row'[r] # None,
         UNCHANGED <<ledger, tombstones>>
  PROVE  LedgerInv'
<1> USE RowAssumption DEF LedgerInv
<1>1. TypeOK'
  BY DEF TypeOK, Entry, Fingerprint
<1>2. RowsTogether'
  <2> SUFFICES ASSUME NEW r \in Row
               PROVE  /\ \A d \in Row : BatchOf[d] = BatchOf[r]
                                         => (row'[d] = None <=> row'[r] = None)
                      /\ status'[BatchOf[r]] \in {"NEEDS_REVIEW", "READY", "COMMITTED"}
                           => row'[r] # None
    BY DEF RowsTogether
  <2>1. CASE BatchOf[r] = b
    BY <2>1 DEF RowsOf, TypeOK, Draft
  <2>2. CASE BatchOf[r] # b
    BY <2>2 DEF RowsOf, TypeOK, RowsTogether
  <2>3. QED
    BY <2>1, <2>2
<1>3. CommittedRowsAreKnown'
  BY DEF CommittedRowsAreKnown, RowsOf, TypeOK
<1>4. StatusFollowsRows'
  <2> SUFFICES ASSUME NEW c \in Batch, status'[c] \in {"READY", "NEEDS_REVIEW"}
               PROVE  status'[c] = Refreshed(row', c)
    BY DEF StatusFollowsRows
  <2>1. CASE c = b
    BY <2>1 DEF TypeOK
  <2>2. CASE c # b
    <3>1. \A r \in RowsOf(c) : row'[r] = row[r]
      BY <2>2 DEF RowsOf
    <3>2. status'[c] = status[c] /\ status[c] = Refreshed(row, c)
      BY <2>2 DEF TypeOK, StatusFollowsRows
    <3>3. QED
      BY <3>1, <3>2, RefreshedSame
  <2>3. QED
    BY <2>1, <2>2
<1>5. CommittedIsWhole'
  BY DEF CommittedIsWhole, InLedger, RowsOf, TypeOK, Draft
<1>6. IgnoredStaysExcluded'
  BY DEF IgnoredStaysExcluded, InLedger, RowsOf, TypeOK, Draft
<1>7. QED
  BY <1>1, <1>2, <1>3, <1>4, <1>5, <1>6

LEMMA StatusSteps ==
  ASSUME LedgerInv, NEW b \in Batch, Upload(b) \/ Reopen(b) \/ Discard(b) \/ DeleteBatch(b)
  PROVE  LedgerInv'
<1>1. TypeOK /\ RowsTogether /\ CommittedRowsAreKnown /\ status[b] \in Draft \cup {"ABSENT"}
  BY DEF LedgerInv, Upload, Reopen, Discard, DeleteBatch
<1>2. /\ declared \subseteq Row
      /\ \A r \in RowsOf(b) :
           r \in declared <=> row[r] # None /\ row[r].disp = "COMMITTED"
  BY <1>1 DEF TypeOK, CommittedRowsAreKnown, RowsOf, Draft
<1>3. \A r, d \in RowsOf(b) : row[r] = None <=> row[d] = None
  BY <1>1 DEF RowsTogether, RowsOf
<1>4. row \in [Row -> Staged \cup {None}]
  BY <1>1 DEF TypeOK
<1>5. CASE Discard(b)
  <2>1. row' \in [Row -> Staged \cup {None}]
    BY <1>4, <1>5 DEF Discard
  <2>2. \A r \in RowsOf(b) : row'[r] = None
    BY <1>5 DEF Discard, RowsOf
  <2>3. /\ declared' \subseteq Row /\ \A r \in RowsOf(b) : r \notin declared'
        /\ \A r \in Row \ RowsOf(b) :
             row'[r] = row[r] /\ (r \in declared' <=> r \in declared)
    BY <1>2, <1>5 DEF Discard, RowsOf
  <2>4. /\ status' = [status EXCEPT ![b] = "AWAITING_MAPPING"]
        /\ UNCHANGED <<ledger, tombstones>>
    BY <1>5 DEF Discard
  <2>5. "AWAITING_MAPPING" \in Draft \cup {"DELETED"}
    BY DEF Draft
  <2>6. QED
    BY <1>1, <2>1, <2>2, <2>3, <2>4, <2>5, DraftStep
<1>6. CASE Upload(b) \/ Reopen(b) \/ DeleteBatch(b)
  <2>1. PICK s \in {"AWAITING_MAPPING", "DELETED"} :
          /\ status' = [status EXCEPT ![b] = s]
          /\ UNCHANGED <<row, ledger, tombstones, declared>>
    BY <1>6 DEF Upload, Reopen, DeleteBatch
  <2>2. s \in Draft \cup {"DELETED"} /\ s \notin {"NEEDS_REVIEW", "READY"}
    BY DEF Draft
  <2>3. QED
    BY <1>1, <1>2, <1>3, <1>4, <2>1, <2>2, DraftStep
<1>7. QED
  BY <1>5, <1>6

LEMMA StagingStep ==
  ASSUME LedgerInv, NEW b \in Batch, CreateManual(b) \/ Stage(b)
  PROVE  LedgerInv'
<1>1. /\ TypeOK /\ status[b] \in Draft \cup {"ABSENT"}
      /\ StageRows(b) /\ UNCHANGED <<ledger, tombstones>>
  BY DEF LedgerInv, CreateManual, Stage
<1>2. PICK reading \in Readings, category \in [RowsOf(b) -> BOOLEAN],
           verdict \in [RowsOf(b) -> Nameable] :
        /\ row' = [d \in Row |-> IF BatchOf[d] = b
                                 THEN StagedRow(reading[d], category[d], verdict[d])
                                 ELSE row[d]]
        /\ status' = [status EXCEPT ![b] = Refreshed(row', b)]
  BY <1>1, Zenon DEF StageRows
<1>d. declared' = declared \ RowsOf(b)
  BY <1>1, Zenon DEF StageRows
<1>3. ASSUME NEW d \in RowsOf(b)
      PROVE  row'[d] \in Staged /\ row'[d].disp # "COMMITTED"
  <2>1. d \in Row /\ reading[d] \in Reading /\ category[d] \in BOOLEAN
        /\ verdict[d] \in Nameable
    BY ReadingsAssumption DEF RowsOf
  <2>2. row'[d] = StagedRow(reading[d], category[d], verdict[d])
    BY <1>2 DEF RowsOf
  <2>3. QED
    BY <2>1, <2>2, NameableType, StagedRowType
<1>4. /\ \A d \in Row \ RowsOf(b) : row'[d] = row[d] /\ (d \in declared' <=> d \in declared)
      /\ declared' \subseteq Row /\ \A d \in RowsOf(b) : d \notin declared'
  BY <1>1, <1>2, <1>d DEF RowsOf, TypeOK
<1>5. row' \in [Row -> Staged \cup {None}]
  <2>1. row' = [d \in Row |-> row'[d]]
    BY <1>2
  <2>2. \A d \in Row : row'[d] \in Staged \cup {None}
    BY <1>1, <1>3, <1>4 DEF TypeOK
  <2>3. QED
    BY <2>1, <2>2
<1>6. Refreshed(row', b) \in Draft
  BY RefreshedType DEF Draft
<1>7. \A d \in RowsOf(b) : row'[d] # None
  BY <1>3, NoneAssumption
<1>8. QED
  BY <1>1, <1>2, <1>3, <1>4, <1>5, <1>6, <1>7, DraftStep

LEMMA PatchRowStep ==
  ASSUME LedgerInv, NEW r \in Row, NEW look, NEW category \in BOOLEAN,
         NEW choice \in Choice \cup {None}, PatchRow(r, look, category, choice)
  PROVE  LedgerInv'
<1> DEFINE b == BatchOf[r]
           edited == [row[r] EXCEPT !.look = look, !.category = category]
           rows == [row EXCEPT ![r] = edited]
           judged(verdict) == [edited EXCEPT !.dup = verdict.dup, !.cand = verdict.cand]
<1>1. /\ TypeOK /\ RowsTogether /\ CommittedRowsAreKnown /\ status[b] \in Draft
      /\ row[r] # None /\ UNCHANGED <<ledger, tombstones>>
      /\ look = row[r].look \/ look \in Look
  BY DEF LedgerInv, PatchRow
<1>2. b \in Batch /\ row[r] \in Staged /\ row \in [Row -> Staged \cup {None}]
  BY <1>1, RowAssumption DEF TypeOK
<1>3. edited \in Staged
  BY <1>1, <1>2 DEF Staged
<1>5. PICK verdict \in Verdicts(rows, r, TRUE) :
        /\ row' = [row EXCEPT ![r] = [judged(verdict) EXCEPT
                                       !.disp = ReviewedDisposition(judged(verdict), choice)]]
        /\ status' = [status EXCEPT ![b] = Refreshed(row', b)]
        /\ declared' = Declared(r, row'[r].disp)
  BY Zenon DEF PatchRow
<1>6. verdict.dup \in Duplicate /\ verdict.cand \in Row \cup {None}
  BY <1>5, VerdictType
<1> HIDE DEF edited, rows
<1>7. judged(verdict) \in Staged
  BY <1>3, <1>6 DEF Staged
<1> HIDE DEF judged
<1>8. ReviewedDisposition(judged(verdict), choice) \in Disposition
  BY <1>7, ReviewType
<1>9. row'[r] \in Staged
  BY <1>2, <1>5, <1>7, <1>8 DEF Staged
<1>10. \A d \in Row \ {r} : row'[d] = row[d]
  BY <1>2, <1>5
<1>11. row' \in [Row -> Staged \cup {None}]
  BY <1>2, <1>5, <1>9
<1>12. \A d \in RowsOf(b) : row'[d] # None
  BY <1>1, <1>9, <1>10, NoneAssumption DEF RowsTogether, RowsOf
<1>13. /\ declared' \subseteq Row
       /\ r \in declared' <=> row'[r].disp = "COMMITTED"
       /\ \A d \in Row \ {r} : d \in declared' <=> d \in declared
  BY <1>1, <1>5 DEF Declared, TypeOK
<1>14. \A d \in RowsOf(b) : d \in declared' <=> row'[d].disp = "COMMITTED"
  BY <1>1, <1>10, <1>12, <1>13 DEF CommittedRowsAreKnown, RowsOf, Draft
<1>15. \A d \in Row \ RowsOf(b) : row'[d] = row[d] /\ (d \in declared' <=> d \in declared)
  BY <1>10, <1>13 DEF RowsOf
<1>16. Refreshed(row', b) \in Draft
  BY RefreshedType DEF Draft
<1> HIDE DEF b
<1>17. QED
  BY <1>1, <1>2, <1>5, <1>11, <1>12, <1>13, <1>14, <1>15, <1>16, DraftStep

\* A row of a batch before its commit, with the verdict of the preflight.
LEMMA JudgedType ==
  ASSUME LedgerInv, NEW b \in Batch, status[b] = "READY",
         NEW verdict \in [Chosen(b, "INCLUDE") -> Nameable], NEW r \in RowsOf(b)
  PROVE  /\ row[r] \in Staged /\ (r \in declared <=> row[r].disp = "COMMITTED")
         /\ Judged(b, verdict, r) \in Staged
         /\ Judged(b, verdict, r).disp = row[r].disp
<1>1. TypeOK /\ RowsTogether /\ CommittedRowsAreKnown /\ r \in Row /\ BatchOf[r] = b
  BY DEF LedgerInv, RowsOf
<1>2. row[r] \in Staged /\ (r \in declared <=> row[r].disp = "COMMITTED")
  BY <1>1, NoneAssumption DEF TypeOK, RowsTogether, CommittedRowsAreKnown
<1>3. CASE r \in Chosen(b, "INCLUDE")
  <2>1. verdict[r].dup \in Duplicate /\ verdict[r].cand \in Row \cup {None}
    BY <1>3, NameableType
  <2>2. QED
    BY <1>2, <1>3, <2>1 DEF Judged, Staged
<1>4. CASE r \notin Chosen(b, "INCLUDE")
  BY <1>2, <1>4 DEF Judged
<1>5. QED
  BY <1>2, <1>3, <1>4

LEMMA CommitFindsDuplicateStep ==
  ASSUME LedgerInv, NEW b \in Batch, CommitFindsDuplicate(b)
  PROVE  LedgerInv'
<1>1. /\ TypeOK /\ RowsTogether /\ status[b] = "READY"
      /\ UNCHANGED <<ledger, tombstones, declared>>
  BY DEF LedgerInv, CommitFindsDuplicate, Committable
<1>2. PICK verdict \in [Chosen(b, "INCLUDE") -> Nameable] :
        /\ row' = [r \in Row |->
                     IF r \notin Discovered(b, verdict) THEN Judged(b, verdict, r)
                     ELSE [Judged(b, verdict, r) EXCEPT !.disp =
                             IF verdict[r].dup = "EXACT" THEN "BLOCKED" ELSE "PENDING"]]
        /\ status' = [status EXCEPT ![b] = Refreshed(row', b)]
  BY Zenon DEF CommitFindsDuplicate
<1>3. ASSUME NEW r \in RowsOf(b)
      PROVE  row'[r] \in Staged /\ (r \in declared <=> row'[r].disp = "COMMITTED")
  <2>1. /\ Judged(b, verdict, r) \in Staged /\ r \in Row
        /\ Judged(b, verdict, r).disp = row[r].disp
        /\ r \in declared <=> row[r].disp = "COMMITTED"
    BY <1>1, JudgedType DEF RowsOf
  <2>2. r \in Discovered(b, verdict) => row[r].disp = "INCLUDE"
    BY DEF Discovered, Chosen
  <2>3. QED
    BY <1>2, <2>1, <2>2 DEF Staged, Disposition
<1>4. ASSUME NEW r \in Row \ RowsOf(b) PROVE row'[r] = row[r]
  <2>1. r \notin Chosen(b, "INCLUDE") /\ r \notin Discovered(b, verdict)
    BY DEF Chosen, Discovered
  <2>2. QED
    BY <1>2, <2>1 DEF Judged
<1>5. row' \in [Row -> Staged \cup {None}]
  <2>1. row' = [r \in Row |-> row'[r]]
    BY <1>2
  <2>2. \A r \in Row : row'[r] \in Staged \cup {None}
    BY <1>1, <1>3, <1>4 DEF TypeOK
  <2>3. QED
    BY <2>1, <2>2
<1>6. Refreshed(row', b) \in Draft
  BY RefreshedType DEF Draft
<1>7. \A r \in RowsOf(b) : row'[r] # None
  BY <1>3, NoneAssumption
<1>8. status[b] \in Draft
  BY <1>1 DEF Draft
<1>9. /\ declared' \subseteq Row
      /\ \A r \in Row \ RowsOf(b) : row'[r] = row[r] /\ (r \in declared' <=> r \in declared)
      /\ \A r \in RowsOf(b) : r \in declared' <=> row'[r] # None /\ row'[r].disp = "COMMITTED"
  BY <1>1, <1>3, <1>4, <1>7 DEF TypeOK
<1>10. QED
  BY <1>1, <1>2, <1>5, <1>6, <1>7, <1>8, <1>9, DraftStep

LEMMA CommitStep ==
  ASSUME LedgerInv, NEW b \in Batch, Commit(b)
  PROVE  LedgerInv'
<1>1. /\ TypeOK /\ RowsTogether /\ CommittedRowsAreKnown /\ StatusFollowsRows
      /\ CommittedIsWhole /\ IgnoredStaysExcluded
      /\ status[b] = "READY" /\ Chosen(b, "PENDING") = {} /\ Complete(b)
      /\ ledger' = [r \in Row |-> IF r \in ToInsert(b) THEN EntryFor(r) ELSE ledger[r]]
      /\ status' = [status EXCEPT ![b] = "COMMITTED"]
      /\ UNCHANGED <<tombstones, declared>>
  BY DEF LedgerInv, Commit, Committable
<1>2. PICK verdict \in [Chosen(b, "INCLUDE") -> Nameable] :
        row' = [r \in Row |-> IF r \notin Chosen(b, "INCLUDE") THEN row[r]
                              ELSE [Judged(b, verdict, r) EXCEPT !.disp = "COMMITTED"]]
  BY Zenon DEF Commit
<1>3. \A r \in RowsOf(b) : /\ r \in Row /\ BatchOf[r] = b
                            /\ row[r] # None /\ row[r] \in Staged
  BY <1>1, NoneAssumption DEF RowsOf, RowsTogether, TypeOK
<1>d. \A r \in RowsOf(b) : r \in declared <=> row[r].disp = "COMMITTED"
  BY <1>1, <1>3 DEF CommittedRowsAreKnown
<1>4. \A r \in Row \ RowsOf(b) :
        BatchOf[r] # b /\ row'[r] = row[r] /\ ledger'[r] = ledger[r]
  BY <1>1, <1>2 DEF RowsOf, Chosen, ToInsert
<1>5. ASSUME NEW r \in Chosen(b, "INCLUDE")
      PROVE  row'[r] \in Staged /\ row'[r].disp = "COMMITTED"
  <2>1. r \in RowsOf(b)
    BY DEF Chosen
  <2>2. Judged(b, verdict, r) \in Staged /\ r \in Row
    BY <1>1, <2>1, JudgedType DEF RowsOf
  <2>3. QED
    BY <1>2, <2>2 DEF Staged, Disposition
<1>6. \A r \in RowsOf(b) \ Chosen(b, "INCLUDE") : row'[r] = row[r]
  BY <1>2, <1>3
<1>7. row' \in [Row -> Staged \cup {None}]
  <2>1. row' = [r \in Row |-> row'[r]]
    BY <1>2
  <2>2. \A r \in Row : row'[r] \in Staged \cup {None}
    BY <1>1, <1>3, <1>4, <1>5, <1>6 DEF TypeOK
  <2>3. QED
    BY <2>1, <2>2
<1>8. ASSUME NEW r \in ToInsert(b)
      PROVE  /\ r \in RowsOf(b) /\ ledger'[r] = EntryFor(r) /\ EntryFor(r) \in Entry
             /\ ledger'[r] # None /\ r \notin tombstones /\ r \notin declared
  <2>1. r \in RowsOf(b) /\ ~HasIssue(row[r])
    BY <1>1 DEF ToInsert, Chosen, Complete
  <2>2. row[r].look \in Look /\ row[r].native \in Native \cup {None} /\ r \in Row
    BY <1>3, <2>1 DEF HasIssue, Staged
  <2>3. EntryFor(r) \in Entry
    BY <2>2 DEF EntryFor, Entry
  <2>4. r \notin tombstones /\ r \notin declared
    BY <1>1, <1>3, <1>d, <2>1 DEF CommittedIsWhole, ToInsert, Chosen
  <2>5. QED
    BY <1>1, <2>1, <2>2, <2>3, <2>4, EntryAssumption
<1>9. TypeOK'
  <2>1. ledger' \in [Row -> Entry \cup {None}]
    BY <1>1, <1>8 DEF TypeOK
  <2>2. QED
    BY <1>1, <1>7, <2>1 DEF TypeOK, Entry, Fingerprint
<1>10. RowsTogether'
  <2>1. \A r \in Row : row'[r] = None <=> row[r] = None
    BY <1>3, <1>4, <1>5, <1>6, NoneAssumption
  <2>2. QED
    BY <1>1, <1>3, <1>4, <2>1, RowAssumption DEF RowsTogether, TypeOK
<1>11. CommittedRowsAreKnown'
  <2> SUFFICES ASSUME NEW r \in Row
               PROVE  /\ row'[r] # None /\ row'[r].disp = "COMMITTED" =>
                           status'[BatchOf[r]] = "COMMITTED" \/ r \in declared
                      /\ r \in declared => row'[r] # None /\ row'[r].disp = "COMMITTED"
    BY <1>1 DEF CommittedRowsAreKnown
  <2>1. CASE r \in RowsOf(b)
    BY <1>1, <1>3, <1>d, <1>5, <1>6, <2>1, NoneAssumption DEF TypeOK
  <2>2. CASE r \notin RowsOf(b)
    BY <1>1, <1>4, <2>2, RowAssumption DEF CommittedRowsAreKnown, TypeOK
  <2>3. QED
    BY <2>1, <2>2
<1>12. StatusFollowsRows'
  <2> SUFFICES ASSUME NEW c \in Batch, status'[c] \in {"READY", "NEEDS_REVIEW"}
               PROVE  status'[c] = Refreshed(row', c)
    BY DEF StatusFollowsRows
  <2>1. c # b /\ status'[c] = status[c]
    BY <1>1 DEF TypeOK
  <2>2. \A r \in RowsOf(c) : row'[r] = row[r]
    BY <1>4, <2>1 DEF RowsOf
  <2>3. QED
    BY <1>1, <2>1, <2>2, RefreshedSame DEF StatusFollowsRows
<1>13. CommittedIsWhole'
  <2>1. ASSUME NEW r \in RowsOf(b)
        PROVE  /\ row'[r] # None /\ row'[r].disp # "INCLUDE"
               /\ row'[r].disp = "COMMITTED" =>
                    r \in declared \/ (ledger'[r] # None /\ r \notin tombstones)
    <3>1. CASE r \in Chosen(b, "INCLUDE")
      BY <1>5, <1>8, <3>1, NoneAssumption DEF ToInsert
    <3>2. CASE r \notin Chosen(b, "INCLUDE")
      BY <1>3, <1>d, <1>6, <3>2 DEF Chosen
    <3>3. QED
      BY <3>1, <3>2
  <2>2. ASSUME NEW t \in RowsOf(b), ledger'[t] # None \/ t \in tombstones
        PROVE  row'[t].disp \in {"COMMITTED", "IGNORE"} /\ t \notin declared
    <3>1. ledger[t] = None /\ t \notin tombstones
      BY <1>1, <1>3 DEF CommittedIsWhole, InLedger
    <3>2. t \in ToInsert(b)
      BY <1>1, <1>3, <2>2, <3>1
    <3>3. QED
      BY <1>5, <1>6, <1>8, <3>2 DEF ToInsert, Chosen
  <2>3. status'[b] = "COMMITTED" /\ \A c \in Batch \ {b} : status'[c] = status[c]
    BY <1>1 DEF TypeOK
  <2>4. ASSUME NEW r \in Row PROVE r \in RowsOf(b) <=> BatchOf[r] = b
    BY DEF RowsOf
  <2>5. \A r \in Row \ RowsOf(b) :
          /\ BatchOf[r] # b /\ BatchOf[r] \in Batch
          /\ row'[r] = row[r] /\ ledger'[r] = ledger[r]
          /\ status'[BatchOf[r]] = status[BatchOf[r]]
    BY <1>4, <2>3, RowAssumption
  <2>6. ASSUME NEW r \in Row, status'[BatchOf[r]] = "COMMITTED"
        PROVE  /\ row'[r] # None /\ row'[r].disp # "INCLUDE"
               /\ row'[r].disp = "COMMITTED" =>
                    r \in declared \/ ((ledger'[r] # None) # (r \in tombstones))
    <3>1. CASE r \in RowsOf(b)
      BY <1>1, <1>3, <2>1, <3>1
    <3>2. CASE r \notin RowsOf(b)
      BY <1>1, <2>5, <2>6, <3>2 DEF CommittedIsWhole, InLedger
    <3>3. QED
      BY <3>1, <3>2
  <2>7. ASSUME NEW t \in Row, ledger'[t] # None \/ t \in tombstones
        PROVE  /\ status'[BatchOf[t]] = "COMMITTED"
               /\ row'[t].disp \in {"COMMITTED", "IGNORE"} /\ t \notin declared
    <3>1. CASE t \in RowsOf(b)
      BY <2>2, <2>3, <2>4, <2>7, <3>1
    <3>2. CASE t \notin RowsOf(b)
      BY <1>1, <2>5, <2>7, <3>2 DEF CommittedIsWhole, InLedger
    <3>3. QED
      BY <3>1, <3>2
  <2>8. tombstones' = tombstones /\ declared' = declared
    BY <1>1
  <2>9. QED
    BY <2>6, <2>7, <2>8 DEF CommittedIsWhole, InLedger
<1>14. IgnoredStaysExcluded'
  <2>1. ASSUME NEW r \in RowsOf(b), row'[r].disp = "IGNORE"
        PROVE  ledger'[r] # None /\ ledger'[r].excluded
    <3>1. r \in Chosen(b, "IGNORE")
      BY <1>3, <1>5, <1>6, <2>1 DEF Chosen
    <3>2. ledger'[r] = EntryFor(r) /\ ledger'[r] # None /\ row[r].disp = "IGNORE"
      BY <1>8, <3>1 DEF ToInsert, Chosen
    <3>3. EntryFor(r).excluded = (row[r].disp = "IGNORE")
      BY Zenon DEF EntryFor
    <3>4. EntryFor(r).excluded
      BY <3>2, <3>3, Zenon
    <3>5. QED
      BY <3>2, <3>4, Zenon
  <2>2. \A r \in Row \ RowsOf(b) : status'[BatchOf[r]] = status[BatchOf[r]]
    BY <1>1, <1>4, RowAssumption DEF TypeOK
  <2>3. QED
    BY <1>1, <1>4, <2>1, <2>2 DEF IgnoredStaysExcluded, InLedger
<1>15. QED
  BY <1>9, <1>10, <1>11, <1>12, <1>13, <1>14 DEF LedgerInv

LEMMA PatchTransactionStep ==
  ASSUME LedgerInv, NEW t \in Row, NEW look \in Look, NEW excluded \in BOOLEAN,
         PatchTransaction(t, look, excluded)
  PROVE  LedgerInv'
<1> DEFINE patched == [ledger[t] EXCEPT !.look = look, !.excluded = excluded]
<1>1. /\ TypeOK /\ RowsTogether /\ CommittedRowsAreKnown /\ StatusFollowsRows
      /\ CommittedIsWhole /\ IgnoredStaysExcluded
      /\ ledger[t] # None /\ row[t].disp # "IGNORE"
      /\ ledger' = [ledger EXCEPT ![t] = patched]
      /\ UNCHANGED <<status, row, tombstones, declared>>
  BY DEF LedgerInv, PatchTransaction, Visible, InLedger
<1>2. patched \in Entry
  <2> DEFINE identities == {Fingerprint(r, k) : r \in Row, k \in Look}
             entries == [look : Look, native : Native \cup {None},
                         fingerprint : identities, excluded : BOOLEAN]
  <2>1. Entry = entries
    BY DEF Entry
  <2>2. ledger[t] \in entries
    BY <1>1, <2>1 DEF TypeOK
  <2> HIDE DEF identities
  <2>3. patched \in entries
    BY <2>2
  <2>4. QED
    BY <2>1, <2>3
<1> HIDE DEF patched
<1>3. /\ ledger' \in [Row -> Entry \cup {None}] /\ ledger'[t] # None
      /\ \A r \in Row \ {t} : ledger'[r] = ledger[r]
  BY <1>1, <1>2, EntryAssumption DEF TypeOK
<1>4. TypeOK'
  BY <1>1, <1>3 DEF TypeOK, Entry, Fingerprint
<1>5. RowsTogether' /\ CommittedRowsAreKnown'
  BY <1>1 DEF RowsTogether, CommittedRowsAreKnown
<1>6. StatusFollowsRows'
  BY <1>1 DEF StatusFollowsRows, Refreshed
<1>7. CommittedIsWhole'
  BY <1>1, <1>3 DEF CommittedIsWhole, InLedger
<1>8. IgnoredStaysExcluded'
  <2> SUFFICES ASSUME NEW r \in Row, row[r] # None, status[BatchOf[r]] = "COMMITTED",
                      row[r].disp = "IGNORE"
               PROVE  ledger'[r] # None /\ ledger'[r].excluded
    BY <1>1, Zenon DEF IgnoredStaysExcluded, InLedger
  <2>1. r # t
    BY <1>1
  <2>2. ledger'[r] = ledger[r]
    BY <1>3, <2>1
  <2>3. ledger[r] # None /\ ledger[r].excluded
    BY <1>1, Zenon DEF IgnoredStaysExcluded, InLedger
  <2>4. QED
    BY <2>2, <2>3, Zenon
<1>9. QED
  BY <1>4, <1>5, <1>6, <1>7, <1>8 DEF LedgerInv

LEMMA DeleteTransactionStep ==
  ASSUME LedgerInv, NEW t \in Row, DeleteTransaction(t)
  PROVE  LedgerInv'
<1> DEFINE named == {r \in Row : row[r] # None /\ row[r].cand = t}
           freed(x) == [x EXCEPT !.dup = "NONE", !.cand = None,
                          !.disp = IF @ = "BLOCKED" THEN "PENDING" ELSE @]
<1>1. /\ TypeOK /\ RowsTogether /\ CommittedRowsAreKnown /\ StatusFollowsRows
      /\ CommittedIsWhole /\ IgnoredStaysExcluded
      /\ ledger[t] # None /\ row[t].disp # "IGNORE"
      /\ ledger' = [ledger EXCEPT ![t] = None]
      /\ tombstones' = tombstones \cup {t} /\ UNCHANGED declared
  BY DEF LedgerInv, DeleteTransaction, Visible, InLedger
<1>2. /\ row' = [r \in Row |-> IF r \notin named THEN row[r] ELSE freed(row[r])]
      /\ status' = [b \in Batch |->
                      IF /\ named \cap RowsOf(b) # {}
                         /\ status[b] \notin {"COMMITTED", "DELETED"}
                      THEN Refreshed(row', b) ELSE status[b]]
  BY Zenon DEF DeleteTransaction
<1>3. ASSUME NEW r \in named
      PROVE  /\ r \in Row /\ row[r] # None /\ row'[r] \in Staged
             /\ row'[r].disp = IF row[r].disp = "BLOCKED" THEN "PENDING" ELSE row[r].disp
  <2>1. r \in Row /\ row[r] # None /\ row[r] \in Staged
    BY <1>1 DEF TypeOK
  <2>2. row'[r] = freed(row[r])
    BY <1>2, <2>1
  <2>3. freed(row[r]) \in Staged /\ freed(row[r]).disp =
          IF row[r].disp = "BLOCKED" THEN "PENDING" ELSE row[r].disp
    BY <2>1 DEF Staged, Duplicate, Disposition
  <2>4. QED
    BY <2>1, <2>2, <2>3
<1>4. \A r \in Row \ named : row'[r] = row[r]
  BY <1>2
<1> HIDE DEF named, freed
<1>5. ASSUME NEW r \in Row
      PROVE  /\ row'[r] \in Staged \cup {None}
             /\ row'[r] = None <=> row[r] = None
             /\ row[r] # None /\ row[r].disp # "BLOCKED" => row'[r].disp = row[r].disp
             /\ row'[r] # None /\ row[r].disp = "BLOCKED" =>
                  row'[r].disp \in {"BLOCKED", "PENDING"}
  BY <1>1, <1>3, <1>4, NoneAssumption DEF TypeOK
<1>6. ASSUME NEW b \in Batch
      PROVE  /\ status[b] \in {"COMMITTED", "DELETED"} => status'[b] = status[b]
             /\ status'[b] \in {"COMMITTED", "DELETED"} => status'[b] = status[b]
             /\ status'[b] = status[b] \/ status'[b] = Refreshed(row', b)
  BY <1>2, RefreshedType
<1>7. TypeOK'
  <2>1. row' \in [Row -> Staged \cup {None}]
    BY <1>2, <1>5
  <2>2. status' \in [Batch -> Draft \cup {"ABSENT", "COMMITTED", "DELETED"}]
    BY <1>1, <1>2, RefreshedType DEF TypeOK, Draft
  <2>3. ledger' \in [Row -> Entry \cup {None}] /\ tombstones' \subseteq Row
        /\ declared' \subseteq Row
    BY <1>1 DEF TypeOK
  <2>4. QED
    BY <2>1, <2>2, <2>3 DEF TypeOK, Entry, Fingerprint
<1>8. RowsTogether'
  <2>1. ASSUME NEW r \in Row,
               status'[BatchOf[r]] \in {"NEEDS_REVIEW", "READY", "COMMITTED"}
        PROVE  row'[r] # None
    <3>1. CASE named \cap RowsOf(BatchOf[r]) = {}
      <4>1. status'[BatchOf[r]] = status[BatchOf[r]]
        BY <1>2, <3>1, RowAssumption
      <4>2. QED
        BY <1>1, <1>5, <2>1, <4>1 DEF RowsTogether
    <3>2. CASE named \cap RowsOf(BatchOf[r]) # {}
      <4>1. PICK d \in Row : BatchOf[d] = BatchOf[r] /\ row[d] # None
        BY <1>3, <3>2 DEF RowsOf
      <4>2. QED
        BY <1>1, <1>5, <4>1 DEF RowsTogether
    <3>3. QED
      BY <3>1, <3>2
  <2>2. QED
    BY <1>1, <1>5, <2>1 DEF RowsTogether
<1>9. CommittedRowsAreKnown'
  BY <1>1, <1>5, <1>6, RowAssumption DEF CommittedRowsAreKnown
<1>10. StatusFollowsRows'
  <2> SUFFICES ASSUME NEW b \in Batch, status'[b] \in {"READY", "NEEDS_REVIEW"},
                      status'[b] # Refreshed(row', b)
               PROVE  FALSE
    BY DEF StatusFollowsRows
  <2>1. status'[b] = status[b] /\ named \cap RowsOf(b) = {}
    BY <1>2, <1>6
  <2>2. \A r \in RowsOf(b) : row'[r] = row[r]
    BY <1>4, <2>1 DEF RowsOf
  <2>3. QED
    BY <1>1, <2>1, <2>2, RefreshedSame DEF StatusFollowsRows
<1>11. CommittedIsWhole'
  <2>1. ASSUME NEW r \in Row, status'[BatchOf[r]] = "COMMITTED"
        PROVE  /\ row'[r] # None /\ row'[r].disp # "INCLUDE"
               /\ row'[r].disp = "COMMITTED" =>
                    r \in declared' \/ (ledger'[r] # None) # (r \in tombstones')
    <3>1. /\ status[BatchOf[r]] = "COMMITTED" /\ row[r] # None
          /\ row[r].disp # "INCLUDE" /\ row'[r] # None
      BY <1>1, <1>5, <1>6, <2>1, RowAssumption DEF CommittedIsWhole
    <3>2. row'[r].disp # "INCLUDE"
      BY <1>5, <3>1
    <3>3. ASSUME row'[r].disp = "COMMITTED", r \notin declared'
          PROVE  (ledger'[r] # None) # (r \in tombstones')
      <4>1. row[r].disp = "COMMITTED"
        BY <1>5, <3>1, <3>3
      <4>2. (ledger[r] # None) # (r \in tombstones)
        BY <1>1, <3>1, <3>3, <4>1 DEF CommittedIsWhole, InLedger
      <4>3. CASE r = t
        BY <1>1, <4>3 DEF TypeOK
      <4>4. CASE r # t
        <5>1. ledger'[r] = ledger[r] /\ (r \in tombstones' <=> r \in tombstones)
          BY <1>1, <4>4 DEF TypeOK
        <5>2. QED
          BY <4>2, <5>1
      <4>5. QED
        BY <4>3, <4>4
    <3>4. QED
      BY <3>1, <3>2, <3>3
  <2>2. ASSUME NEW r \in Row, ledger'[r] # None \/ r \in tombstones'
        PROVE  /\ status'[BatchOf[r]] = "COMMITTED"
               /\ row'[r].disp \in {"COMMITTED", "IGNORE"} /\ r \notin declared'
    <3>1. ledger[r] # None \/ r \in tombstones
      BY <1>1, <2>2 DEF TypeOK
    <3>2. /\ status[BatchOf[r]] = "COMMITTED" /\ row[r].disp \in {"COMMITTED", "IGNORE"}
          /\ row[r] # None /\ r \notin declared'
      BY <1>1, <3>1 DEF CommittedIsWhole, InLedger
    <3>3. QED
      BY <1>5, <1>6, <3>2, RowAssumption
  <2>3. QED
    BY <2>1, <2>2, Zenon DEF CommittedIsWhole, InLedger
<1>12. IgnoredStaysExcluded'
  <2> SUFFICES ASSUME NEW r \in Row, row'[r] # None, status'[BatchOf[r]] = "COMMITTED",
                      row'[r].disp = "IGNORE"
               PROVE  ledger'[r] # None /\ ledger'[r].excluded
    BY Zenon DEF IgnoredStaysExcluded, InLedger
  <2>1. /\ row[r] # None /\ row[r].disp = "IGNORE" /\ status[BatchOf[r]] = "COMMITTED"
    BY <1>5, <1>6, RowAssumption
  <2>2. r # t /\ ledger'[r] = ledger[r]
    BY <1>1, <2>1 DEF TypeOK
  <2>3. ledger[r] # None /\ ledger[r].excluded
    BY <1>1, <2>1, Zenon DEF IgnoredStaysExcluded, InLedger
  <2>4. QED
    BY <2>2, <2>3, Zenon
<1>13. QED
  BY <1>7, <1>8, <1>9, <1>10, <1>11, <1>12 DEF LedgerInv

-----------------------------------------------------------------------------
(* Theorems *)

\* Every reachable state satisfies the invariant: staging, review, commit and
\* the deletion of transactions, in any order, keep rows and ledger together.
THEOREM Inductive == Spec => []LedgerInv
<1>1. LedgerInv /\ [Next]_vars => LedgerInv'
  <2> SUFFICES ASSUME LedgerInv, [Next]_vars PROVE LedgerInv'
    OBVIOUS
  <2>1. ASSUME NEW b \in Batch,
               Upload(b) \/ Reopen(b) \/ Discard(b) \/ DeleteBatch(b)
        PROVE  LedgerInv'
    BY <2>1, StatusSteps
  <2>2. ASSUME NEW b \in Batch, CreateManual(b) \/ Stage(b) PROVE LedgerInv'
    BY <2>2, StagingStep
  <2>3. ASSUME NEW b \in Batch, CommitFindsDuplicate(b) PROVE LedgerInv'
    BY <2>3, CommitFindsDuplicateStep
  <2>4. ASSUME NEW b \in Batch, Commit(b) PROVE LedgerInv'
    BY <2>4, CommitStep
  <2>5. ASSUME NEW r \in Row, NEW look \in Look \cup {None}, NEW category \in BOOLEAN,
               NEW choice \in Choice \cup {None}, PatchRow(r, look, category, choice)
        PROVE  LedgerInv'
    BY <2>5, PatchRowStep
  <2>6. ASSUME NEW t \in Row, NEW look \in Look, NEW excluded \in BOOLEAN,
               PatchTransaction(t, look, excluded)
        PROVE  LedgerInv'
    BY <2>6, PatchTransactionStep
  <2>7. ASSUME NEW t \in Row, DeleteTransaction(t) PROVE LedgerInv'
    BY <2>7, DeleteTransactionStep
  <2>8. CASE UNCHANGED vars
    BY <2>8, Zenon DEF vars, LedgerInv, TypeOK, RowsTogether, CommittedRowsAreKnown,
       StatusFollowsRows, CommittedIsWhole, IgnoredStaysExcluded, InLedger, Refreshed
  <2>9. QED
    BY <2>1, <2>2, <2>3, <2>4, <2>5, <2>6, <2>7, <2>8 DEF Next
<1>2. QED
  BY InitHolds, <1>1, PTL DEF Spec

\* The variables keep their domains: rows are staged or absent, transactions
\* are ledger entries or absent, batches have one of the code's statuses.
THEOREM TypeCorrect == Spec => []TypeOK
<1>1. LedgerInv => TypeOK
  BY DEF LedgerInv
<1>2. QED
  BY <1>1, Inductive, PTL

\* The review status of a batch tells whether one of its rows is PENDING.
THEOREM ReviewStatusFollows == Spec => []StatusFollowsRows
<1>1. LedgerInv => StatusFollowsRows
  BY DEF LedgerInv
<1>2. QED
  BY <1>1, Inductive, PTL

\* Whatever dispositions clients ask for: a committed batch has each row it
\* accepted in the ledger or among the deleted transactions, a row declared
\* COMMITTED in neither, and every transaction comes from a row of a committed
\* batch.
THEOREM CommitIsWhole == Spec => []CommittedIsWhole
<1>1. LedgerInv => CommittedIsWhole
  BY DEF LedgerInv
<1>2. QED
  BY <1>1, Inductive, PTL

\* The transaction of an ignored row stays in the ledger, excluded from totals.
THEOREM IgnoredForGood == Spec => []IgnoredStaysExcluded
<1>1. LedgerInv => IgnoredStaysExcluded
  BY DEF LedgerInv
<1>2. QED
  BY <1>1, Inductive, PTL

-----------------------------------------------------------------------------
(* Claims: who may import what, and what verdicts name *)

\* Rows exist from the first staging on: an upload finds none.
AbsentIsBlank ==
  \A r \in Row : status[BatchOf[r]] = "ABSENT" => row[r] = None

ClaimInv == AbsentIsBlank /\ DraftsClaimOnce /\ TwinExists

\* Two rows would claim one transaction
Same(x, r, y, d) ==
  \/ Fingerprint(r, x.look) = Fingerprint(d, y.look)
  \/ x.native # None /\ x.native = y.native

\* A row that is to be imported
Claims(rows, r) == rows[r] # None /\ rows[r].disp = "INCLUDE"

\* Verdict v names an existing transaction, an exact one that of the row
Names(book, v, x, r) ==
  v.cand # None =>
    /\ book[v.cand] # None
    /\ v.dup = "EXACT" =>
         \/ book[v.cand].fingerprint = Fingerprint(r, x.look)
         \/ x.native # None /\ book[v.cand].native = x.native

\* The two properties in these terms, before and after a step
LEMMA ClaimForms ==
  /\ DraftsClaimOnce <=>
       \A r, d \in Row :
         /\ r # d /\ Claims(row, r) /\ Claims(row, d)
         /\ status[BatchOf[r]] \in Draft /\ status[BatchOf[d]] \in Draft
         => ~Same(row[r], r, row[d], d)
  /\ DraftsClaimOnce' <=>
       \A r, d \in Row :
         /\ r # d /\ Claims(row', r) /\ Claims(row', d)
         /\ status'[BatchOf[r]] \in Draft /\ status'[BatchOf[d]] \in Draft
         => ~Same(row'[r], r, row'[d], d)
  /\ TwinExists <=> \A r \in Row : row[r] # None => Names(ledger, row[r], row[r], r)
  /\ TwinExists' <=> \A r \in Row : row'[r] # None => Names(ledger', row'[r], row'[r], r)
<1>1. ASSUME NEW r \in Row, NEW d \in Row
      PROVE  /\ Clash(EntryFor(r), EntryFor(d)) <=> Same(row[r], r, row[d], d)
             /\ Clash(EntryFor(r), EntryFor(d))' <=> Same(row'[r], r, row'[d], d)
  BY DEF Clash, EntryFor, Same, Fingerprint
<1>2. QED
  BY <1>1 DEF DraftsClaimOnce, TwinExists, Claims, Names, InLedger, Fingerprint

LEMMA SameIsSymmetric ==
  ASSUME NEW x, NEW r, NEW y, NEW d
  PROVE  Same(x, r, y, d) <=> Same(y, d, x, r)
  BY DEF Same

\* A verdict other than EXACT was given to a row that claims what no other one
\* claims, and a verdict names what there is.
LEMMA VerdictMeaning ==
  ASSUME NEW rows, NEW r \in Row, NEW checkStaged \in BOOLEAN,
         NEW verdict \in Verdicts(rows, r, checkStaged)
  PROVE  /\ verdict.dup # "EXACT" /\ checkStaged =>
              \A d \in Contenders(rows, r) : ~Same(rows[r], r, rows[d], d)
         /\ Names(ledger, verdict, rows[r], r)
<1> DEFINE me == rows[r]
           others == IF checkStaged THEN Contenders(rows, r) ELSE {}
           bookedNative == {t \in Row : InLedger(t) /\ ledger[t].native = me.native}
           othersNative == {d \in others : rows[d].native = me.native}
           bookedPrint == {t \in Row : InLedger(t)
                             /\ ledger[t].fingerprint = Fingerprint(r, me.look)}
           othersPrint == {d \in others : Fingerprint(d, rows[d].look)
                                            = Fingerprint(r, me.look)}
           byNative == IF me.native = None THEN {} ELSE Matches(bookedNative, othersNative)
           byPrint == Matches(bookedPrint, othersPrint)
<1>1. ExactVerdicts(rows, r, checkStaged) = IF byNative # {} THEN byNative ELSE byPrint
  BY Zenon DEF ExactVerdicts
<1>2. ASSUME NEW booked, NEW drafted, NEW v \in Matches(booked, drafted)
      PROVE  v.dup = "EXACT" /\ (v.cand # None => v.cand \in booked)
  BY <1>2 DEF Matches, Exact
<1>3. ASSUME NEW booked, NEW drafted, Matches(booked, drafted) = {}
      PROVE  drafted = {}
  BY <1>3 DEF Matches, Exact
<1>4. CASE ExactVerdicts(rows, r, checkStaged) # {}
  <2>1. verdict \in byNative \/ verdict \in byPrint
    BY <1>1, <1>4 DEF Verdicts
  <2>2. CASE verdict \in byNative
    <3>1. me.native # None /\ verdict \in Matches(bookedNative, othersNative)
      BY <2>2
    <3>2. verdict.dup = "EXACT" /\ (verdict.cand # None => verdict.cand \in bookedNative)
      BY <1>2, <3>1
    <3>3. QED
      BY <3>1, <3>2 DEF Names, InLedger
  <2>3. CASE verdict \in byPrint
    <3>1. verdict.dup = "EXACT" /\ (verdict.cand # None => verdict.cand \in bookedPrint)
      BY <1>2, <2>3
    <3>2. QED
      BY <3>1 DEF Names, InLedger
  <2>4. QED
    BY <2>1, <2>2, <2>3
<1>5. CASE ExactVerdicts(rows, r, checkStaged) = {}
  <2>1. verdict \in LikelyVerdicts(rows, r, checkStaged)
    BY <1>5 DEF Verdicts
  <2> DEFINE resembling == {t \in Row : InLedger(t) /\ Resembles(ledger[t].look, rows[r].look)}
  <2>2. verdict \in {Likely(t) : t \in resembling} \cup {Likely(None), NoDuplicate}
    BY <2>1 DEF LikelyVerdicts
  <2>3. verdict.dup # "EXACT" /\ (verdict.cand # None => verdict.cand \in resembling)
    BY <2>2 DEF Likely, NoDuplicate
  <2>4. othersPrint = {} /\ (me.native # None => othersNative = {})
    BY <1>1, <1>3, <1>5
  <2>5. ASSUME checkStaged, NEW d \in Contenders(rows, r)
        PROVE  ~Same(rows[r], r, rows[d], d)
    BY <2>4, <2>5 DEF Same
  <2>6. QED
    BY <2>3, <2>5 DEF Names, InLedger
<1>6. QED
  BY <1>4, <1>5

\* A step that lets no row claim what it did not claim before keeps the claims
\* apart.
LEMMA OldClaims ==
  ASSUME DraftsClaimOnce,
         \A r \in Row : Claims(row', r) /\ status'[BatchOf[r]] \in Draft =>
           /\ Claims(row, r) /\ status[BatchOf[r]] \in Draft
           /\ row'[r].look = row[r].look /\ row'[r].native = row[r].native
  PROVE  DraftsClaimOnce'
<1> SUFFICES ASSUME NEW r \in Row, NEW d \in Row, r # d, Claims(row', r), Claims(row', d),
                    status'[BatchOf[r]] \in Draft, status'[BatchOf[d]] \in Draft
             PROVE  ~Same(row'[r], r, row'[d], d)
  BY ClaimForms
<1>1. ~Same(row[r], r, row[d], d)
  BY ClaimForms
<1>2. QED
  BY <1>1 DEF Same

\* A step that keeps the rows' verdicts and identities, and the transactions
\* they name, keeps the verdicts true.
LEMMA OldVerdicts ==
  ASSUME TwinExists,
         \A r \in Row : row'[r] # None =>
           \/ row'[r].cand = None
           \/ Names(ledger', row'[r], row'[r], r)
           \/ /\ row[r] # None /\ row'[r].cand = row[r].cand /\ row'[r].dup = row[r].dup
              /\ row'[r].look = row[r].look /\ row'[r].native = row[r].native
              /\ ledger[row[r].cand] # None =>
                   /\ ledger'[row[r].cand] # None
                   /\ ledger'[row[r].cand].fingerprint = ledger[row[r].cand].fingerprint
                   /\ ledger'[row[r].cand].native = ledger[row[r].cand].native
  PROVE  TwinExists'
<1> SUFFICES ASSUME NEW r \in Row, row'[r] # None, row'[r].cand # None
             PROVE  Names(ledger', row'[r], row'[r], r)
  BY ClaimForms DEF Names
<1>1. row[r] # None => Names(ledger, row[r], row[r], r)
  BY ClaimForms
<1>2. QED
  BY <1>1 DEF Names

LEMMA StatusClaims ==
  ASSUME LedgerInv, ClaimInv, NEW b \in Batch,
         Upload(b) \/ Reopen(b) \/ Discard(b) \/ DeleteBatch(b)
  PROVE  ClaimInv'
<1>1. /\ TypeOK /\ AbsentIsBlank /\ DraftsClaimOnce /\ TwinExists /\ UNCHANGED ledger
      /\ \A r \in Row : row'[r] = row[r] \/ row'[r] = None
      /\ \E s \in {"AWAITING_MAPPING", "DELETED"} : status' = [status EXCEPT ![b] = s]
      /\ status[b] \in Draft \/ (status[b] = "ABSENT" /\ UNCHANGED row)
  BY DEF LedgerInv, ClaimInv, Upload, Reopen, Discard, DeleteBatch
<1>2. \A r \in Row : status[BatchOf[r]] = "ABSENT" => row'[r] = None
  BY <1>1 DEF AbsentIsBlank
<1>3. \A c \in Batch \ {b} : status'[c] = status[c]
  BY <1>1 DEF TypeOK
<1>4. \A r \in Row : status'[BatchOf[r]] = "ABSENT" => status[BatchOf[r]] = "ABSENT"
  BY <1>1, RowAssumption DEF TypeOK
<1>5. AbsentIsBlank'
  BY <1>2, <1>4 DEF AbsentIsBlank
<1>6. DraftsClaimOnce'
  <2>1. ASSUME NEW r \in Row, Claims(row', r), status'[BatchOf[r]] \in Draft
        PROVE  Claims(row, r) /\ status[BatchOf[r]] \in Draft /\ row'[r] = row[r]
    BY <1>1, <1>2, <1>3, <2>1, RowAssumption DEF Claims
  <2>2. QED
    BY <1>1, <2>1, OldClaims
<1>7. TwinExists'
  BY <1>1, OldVerdicts
<1>8. QED
  BY <1>5, <1>6, <1>7 DEF ClaimInv

\* A staged row that claims a transaction was not an exact duplicate.
LEMMA StagedClaim ==
  ASSUME NEW reading \in Reading, NEW category, NEW verdict
  PROVE  LET x == StagedRow(reading, category, verdict)
         IN /\ x.look = reading.look /\ x.native = reading.native
            /\ x.dup = verdict.dup /\ x.cand = verdict.cand
            /\ x.disp = "INCLUDE" => verdict.dup # "EXACT"
<1> DEFINE x == [look |-> reading.look, native |-> reading.native,
                 filtered |-> reading.filtered, category |-> category,
                 dup |-> verdict.dup, cand |-> verdict.cand, disp |-> "PENDING"]
<1>1. InitialDisposition(x) = "INCLUDE" => verdict.dup # "EXACT"
  BY DEF InitialDisposition
<1>2. StagedRow(reading, category, verdict) = [x EXCEPT !.disp = InitialDisposition(x)]
  BY DEF StagedRow
<1>3. QED
  BY <1>1, <1>2

LEMMA StagingClaims ==
  ASSUME LedgerInv, ClaimInv, NEW b \in Batch, CreateManual(b) \/ Stage(b)
  PROVE  ClaimInv'
<1>1. /\ TypeOK /\ AbsentIsBlank /\ DraftsClaimOnce /\ TwinExists
      /\ StageRows(b) /\ UNCHANGED ledger
  BY DEF LedgerInv, ClaimInv, CreateManual, Stage
<1> DEFINE new(reading, category, verdict) ==
             [d \in Row |-> IF BatchOf[d] = b
                            THEN StagedRow(reading[d], category[d], verdict[d])
                            ELSE row[d]]
           before(rows, r) == [d \in Row |-> IF BatchOf[d] = b /\ d > r THEN None ELSE rows[d]]
           upTo(r) == before(row', r)
<1>a. PICK reading \in Readings, category \in [RowsOf(b) -> BOOLEAN],
           verdict \in [RowsOf(b) -> Nameable] :
        /\ \A r \in RowsOf(b) :
             verdict[r] \in Verdicts(before(new(reading, category, verdict), r), r, TRUE)
        /\ row' = new(reading, category, verdict)
        /\ status' = [status EXCEPT ![b] = Refreshed(new(reading, category, verdict), b)]
  BY <1>1, ZenonT(60) DEF StageRows
<1>2. /\ row' = new(reading, category, verdict)
      /\ \A r \in RowsOf(b) : verdict[r] \in Verdicts(upTo(r), r, TRUE)
      /\ status' = [status EXCEPT ![b] = Refreshed(row', b)]
  BY <1>a, Zenon
<1>3. ASSUME NEW r \in RowsOf(b)
      PROVE  /\ row'[r].dup = verdict[r].dup /\ row'[r].cand = verdict[r].cand
             /\ row'[r].disp = "INCLUDE" => verdict[r].dup # "EXACT"
             /\ upTo(r)[r] = row'[r]
             /\ r \in Row /\ BatchOf[r] = b
  <2>1. r \in Row /\ BatchOf[r] = b /\ reading[r] \in Reading
    BY ReadingsAssumption DEF RowsOf
  <2>2. row'[r] = StagedRow(reading[r], category[r], verdict[r])
    BY <1>2, <2>1
  <2>3. upTo(r)[r] = row'[r]
    BY <2>1, RowAssumption
  <2> HIDE DEF upTo
  <2>4. QED
    BY <2>1, <2>2, <2>3, StagedClaim
<1>4. \A d \in Row \ RowsOf(b) : row'[d] = row[d] /\ BatchOf[d] # b
  BY <1>2 DEF RowsOf
<1>5. /\ \A c \in Batch \ {b} : status'[c] = status[c]
      /\ status'[b] \in {"NEEDS_REVIEW", "READY"}
  BY <1>1, <1>2, RefreshedType DEF TypeOK
<1>6. AbsentIsBlank'
  BY <1>1, <1>4, <1>5, RowAssumption DEF AbsentIsBlank, RowsOf
<1>7. TwinExists'
  <2>1. ASSUME NEW r \in RowsOf(b) PROVE Names(ledger', row'[r], row'[r], r)
    <3>1. Names(ledger, verdict[r], upTo(r)[r], r)
      BY <1>2, <1>3, VerdictMeaning
    <3> HIDE DEF upTo
    <3>2. QED
      BY <1>1, <1>3, <3>1 DEF Names
  <2>2. QED
    BY <1>1, <1>4, <2>1, OldVerdicts
<1>8. DraftsClaimOnce'
  <2>1. ASSUME NEW r \in RowsOf(b), NEW d \in Row, Claims(row', r), Claims(row', d),
               status'[BatchOf[d]] \in Draft, BatchOf[d] = b => d < r, r # d
        PROVE  ~Same(row'[r], r, row'[d], d)
    <3>1. r \in Nat /\ d \in Nat
      BY <1>3, RowAssumption
    <3>2. upTo(r)[d] = row'[d]
      BY <2>1, <3>1
    <3>3. BatchOf[d] = BatchOf[r] \/ status[BatchOf[d]] \in Draft
      BY <1>3, <1>5, <2>1, RowAssumption
    <3>4. verdict[r] \in Verdicts(upTo(r), r, TRUE) /\ verdict[r].dup # "EXACT"
      BY <1>2, <1>3, <2>1 DEF Claims
    <3>5. upTo(r)[r] = row'[r]
      BY <1>3
    <3> HIDE DEF upTo
    <3>6. d \in Contenders(upTo(r), r)
      BY <2>1, <3>2, <3>3 DEF Contenders, Claims
    <3>7. ~Same(upTo(r)[r], r, upTo(r)[d], d)
      BY <1>3, <3>4, <3>6, VerdictMeaning
    <3>8. QED
      BY <3>2, <3>5, <3>7
  <2> SUFFICES ASSUME NEW r \in Row, NEW d \in Row, r # d, Claims(row', r), Claims(row', d),
                      status'[BatchOf[r]] \in Draft, status'[BatchOf[d]] \in Draft
               PROVE  ~Same(row'[r], r, row'[d], d)
    BY ClaimForms
  <2>2. CASE r \in RowsOf(b) /\ (BatchOf[d] = b => d < r)
    BY <2>1, <2>2
  <2>3. CASE d \in RowsOf(b) /\ (BatchOf[r] = b => r < d)
    BY <2>1, <2>3, SameIsSymmetric
  <2>4. CASE r \notin RowsOf(b) /\ d \notin RowsOf(b)
    <3>1. row'[r] = row[r] /\ row'[d] = row[d]
          /\ status'[BatchOf[r]] = status[BatchOf[r]]
          /\ status'[BatchOf[d]] = status[BatchOf[d]]
      BY <1>4, <1>5, <2>4, RowAssumption
    <3>2. QED
      BY <1>1, <3>1, ClaimForms DEF Claims
  <2>5. QED
    <3>1. r \in Nat /\ d \in Nat
      BY RowAssumption
    <3>2. QED
      BY <2>2, <2>3, <2>4, <3>1 DEF RowsOf
<1>9. QED
  BY <1>6, <1>7, <1>8 DEF ClaimInv

LEMMA PatchRowClaims ==
  ASSUME LedgerInv, ClaimInv, NEW r \in Row, NEW look, NEW category \in BOOLEAN,
         NEW choice \in Choice \cup {None}, PatchRow(r, look, category, choice)
  PROVE  ClaimInv'
<1> DEFINE b == BatchOf[r]
           edited == [row[r] EXCEPT !.look = look, !.category = category]
           rows == [row EXCEPT ![r] = edited]
           judged(verdict) == [edited EXCEPT !.dup = verdict.dup, !.cand = verdict.cand]
<1>1. /\ TypeOK /\ AbsentIsBlank /\ DraftsClaimOnce /\ TwinExists /\ status[b] \in Draft
      /\ row[r] # None /\ UNCHANGED ledger
  BY DEF LedgerInv, ClaimInv, PatchRow
<1>2. b \in Batch /\ row[r] \in Staged /\ row \in [Row -> Staged \cup {None}]
  BY <1>1, RowAssumption DEF TypeOK
<1>3. PICK verdict \in Verdicts(rows, r, TRUE) :
        /\ row' = [row EXCEPT ![r] = [judged(verdict) EXCEPT
                                       !.disp = ReviewedDisposition(judged(verdict), choice)]]
        /\ status' = [status EXCEPT ![b] = Refreshed(row', b)]
  BY Zenon DEF PatchRow
<1>4. /\ rows[r] = edited /\ edited.look = look /\ edited.native = row[r].native
      /\ \A d \in Row \ {r} : rows[d] = row[d]
  BY <1>2 DEF Staged
<1>5. /\ judged(verdict).look = edited.look /\ judged(verdict).native = edited.native
      /\ judged(verdict).dup = verdict.dup /\ judged(verdict).cand = verdict.cand
      /\ DOMAIN judged(verdict) = DOMAIN row[r]
  BY <1>2 DEF Staged
<1>6. ReviewedDisposition(judged(verdict), choice) = "INCLUDE" => verdict.dup # "EXACT"
  <2> HIDE DEF judged
  <2>1. QED
    BY <1>5 DEF ReviewedDisposition
<1> HIDE DEF edited, rows
<1>7. /\ row'[r].look = look /\ row'[r].native = row[r].native
      /\ row'[r].dup = verdict.dup /\ row'[r].cand = verdict.cand
      /\ row'[r].disp = "INCLUDE" => verdict.dup # "EXACT"
  <2>1. row'[r] = [judged(verdict) EXCEPT
                     !.disp = ReviewedDisposition(judged(verdict), choice)]
    BY <1>2, <1>3
  <2>2. "disp" \in DOMAIN judged(verdict)
    BY <1>2, <1>5 DEF Staged
  <2> HIDE DEF judged
  <2>3. QED
    BY <1>4, <1>5, <1>6, <2>1, <2>2
<1>8. \A d \in Row \ {r} : row'[d] = row[d]
  BY <1>2, <1>3
<1>9. /\ \A c \in Batch \ {b} : status'[c] = status[c]
      /\ status'[b] \in {"NEEDS_REVIEW", "READY"}
  BY <1>1, <1>2, <1>3, RefreshedType DEF TypeOK
<1> HIDE DEF judged
<1>10. AbsentIsBlank'
  BY <1>1, <1>8, <1>9, RowAssumption DEF AbsentIsBlank
<1>11. TwinExists'
  <2>1. Names(ledger, verdict, rows[r], r)
    BY <1>3, VerdictMeaning
  <2>2. Names(ledger', row'[r], row'[r], r)
    BY <1>1, <1>4, <1>7, <2>1 DEF Names
  <2>3. QED
    BY <1>1, <1>8, <2>2, OldVerdicts
<1>12. DraftsClaimOnce'
  <2>1. ASSUME NEW d \in Row \ {r}, Claims(row', r), Claims(row', d),
               status'[BatchOf[d]] \in Draft
        PROVE  ~Same(row'[r], r, row'[d], d)
    <3>1. rows[d] = row[d] /\ row'[d] = row[d]
      BY <1>4, <1>8
    <3>2. BatchOf[d] = BatchOf[r] \/ status[BatchOf[d]] \in Draft
      BY <1>9, <2>1, RowAssumption
    <3>3. d \in Contenders(rows, r)
      BY <2>1, <3>1, <3>2 DEF Contenders, Claims
    <3>4. verdict.dup # "EXACT"
      BY <1>7, <2>1 DEF Claims
    <3>5. ~Same(rows[r], r, rows[d], d)
      BY <1>3, <3>3, <3>4, VerdictMeaning
    <3>6. QED
      BY <1>4, <1>7, <3>1, <3>5 DEF Same
  <2> SUFFICES ASSUME NEW c \in Row, NEW d \in Row, c # d, Claims(row', c), Claims(row', d),
                      status'[BatchOf[c]] \in Draft, status'[BatchOf[d]] \in Draft
               PROVE  ~Same(row'[c], c, row'[d], d)
    BY ClaimForms
  <2>2. CASE c = r
    BY <2>1, <2>2
  <2>3. CASE d = r
    BY <2>1, <2>3, SameIsSymmetric
  <2>4. CASE c # r /\ d # r
    <3>1. status[BatchOf[c]] \in Draft /\ status[BatchOf[d]] \in Draft
      BY <1>1, <1>9, RowAssumption
    <3>2. QED
      BY <1>1, <1>8, <2>4, <3>1, ClaimForms DEF Claims
  <2>5. QED
    BY <2>2, <2>3, <2>4
<1>13. QED
  BY <1>10, <1>11, <1>12 DEF ClaimInv

\* A row with the verdict of the preflight keeps its identity.
LEMMA JudgedClaims ==
  ASSUME LedgerInv, NEW b \in Batch, status[b] = "READY",
         NEW verdict \in [Chosen(b, "INCLUDE") -> Nameable], Preflight(b, verdict),
         NEW r \in RowsOf(b)
  PROVE  LET x == Judged(b, verdict, r)
         IN /\ x.look = row[r].look /\ x.native = row[r].native /\ x.disp = row[r].disp
            /\ r \in Chosen(b, "INCLUDE") =>
                 x.cand = verdict[r].cand /\ Names(ledger, x, x, r)
            /\ r \notin Chosen(b, "INCLUDE") => x = row[r]
<1>1. row[r] \in Staged /\ r \in Row
  BY JudgedType DEF RowsOf
<1>2. CASE r \notin Chosen(b, "INCLUDE")
  BY <1>2 DEF Judged
<1>3. CASE r \in Chosen(b, "INCLUDE")
  <2> DEFINE x == [row[r] EXCEPT !.dup = verdict[r].dup, !.cand = verdict[r].cand]
  <2>1. Judged(b, verdict, r) = x
    BY <1>3 DEF Judged
  <2>2. /\ x.look = row[r].look /\ x.native = row[r].native /\ x.disp = row[r].disp
        /\ x.dup = verdict[r].dup /\ x.cand = verdict[r].cand
    BY <1>1 DEF Staged
  <2>3. Names(ledger, verdict[r], row[r], r)
    BY <1>1, <1>3, VerdictMeaning DEF Preflight
  <2> HIDE DEF x
  <2>4. Names(ledger, x, x, r)
    BY <2>2, <2>3 DEF Names
  <2>5. QED
    BY <1>3, <2>1, <2>2, <2>4
<1>4. QED
  BY <1>2, <1>3

LEMMA CommitFindsDuplicateClaims ==
  ASSUME LedgerInv, ClaimInv, NEW b \in Batch, CommitFindsDuplicate(b)
  PROVE  ClaimInv'
<1>1. /\ TypeOK /\ AbsentIsBlank /\ DraftsClaimOnce /\ TwinExists /\ status[b] = "READY"
      /\ UNCHANGED ledger
  BY DEF LedgerInv, ClaimInv, CommitFindsDuplicate, Committable
<1>2. PICK verdict \in [Chosen(b, "INCLUDE") -> Nameable] :
        /\ Preflight(b, verdict)
        /\ row' = [r \in Row |->
                     IF r \notin Discovered(b, verdict) THEN Judged(b, verdict, r)
                     ELSE [Judged(b, verdict, r) EXCEPT !.disp =
                             IF verdict[r].dup = "EXACT" THEN "BLOCKED" ELSE "PENDING"]]
        /\ status' = [status EXCEPT ![b] = Refreshed(row', b)]
  BY Zenon DEF CommitFindsDuplicate
<1>3. ASSUME NEW r \in RowsOf(b)
      PROVE  /\ row[r] # None
             /\ row'[r].look = row[r].look /\ row'[r].native = row[r].native
             /\ row'[r].disp = "INCLUDE" => row[r].disp = "INCLUDE"
             /\ row'[r] = row[r] \/ Names(ledger, row'[r], row'[r], r)
  <2> DEFINE x == Judged(b, verdict, r)
  <2>1. /\ x.look = row[r].look /\ x.native = row[r].native /\ x.disp = row[r].disp
        /\ x = row[r] \/ Names(ledger, x, x, r)
        /\ x \in Staged /\ row[r] \in Staged /\ r \in Row
    BY <1>1, <1>2, JudgedClaims, JudgedType DEF RowsOf
  <2>2. row[r] # None
    BY <2>1, NoneAssumption
  <2>3. CASE r \notin Discovered(b, verdict)
    BY <1>2, <2>1, <2>2, <2>3
  <2>4. CASE r \in Discovered(b, verdict)
    <3>1. r \in Chosen(b, "INCLUDE")
      BY <2>4 DEF Discovered
    <3>2. Names(ledger, x, x, r)
      BY <1>1, <1>2, <3>1, JudgedClaims
    <3>3. PICK disp \in {"BLOCKED", "PENDING"} : row'[r] = [x EXCEPT !.disp = disp]
      BY <1>2, <2>1, <2>4
    <3> HIDE DEF x
    <3>4. /\ row'[r].look = x.look /\ row'[r].native = x.native /\ row'[r].disp = disp
          /\ row'[r].dup = x.dup /\ row'[r].cand = x.cand
      BY <2>1, <3>3 DEF Staged
    <3>5. QED
      BY <2>1, <2>2, <3>2, <3>4 DEF Names
  <2>5. QED
    BY <2>3, <2>4
<1>4. ASSUME NEW r \in Row \ RowsOf(b) PROVE row'[r] = row[r] /\ BatchOf[r] # b
  <2>1. r \notin Chosen(b, "INCLUDE") /\ r \notin Discovered(b, verdict) /\ BatchOf[r] # b
    BY DEF Chosen, Discovered, RowsOf
  <2>2. QED
    BY <1>2, <2>1 DEF Judged
<1>5. /\ \A c \in Batch \ {b} : status'[c] = status[c]
      /\ status'[b] \in {"NEEDS_REVIEW", "READY"}
  BY <1>1, <1>2, RefreshedType DEF TypeOK
<1>6. AbsentIsBlank'
  BY <1>1, <1>4, <1>5, RowAssumption DEF AbsentIsBlank, RowsOf
<1>7. DraftsClaimOnce'
  <2>1. ASSUME NEW r \in Row, Claims(row', r), status'[BatchOf[r]] \in Draft
        PROVE  /\ Claims(row, r) /\ status[BatchOf[r]] \in Draft
               /\ row'[r].look = row[r].look /\ row'[r].native = row[r].native
    BY <1>1, <1>3, <1>4, <1>5, <2>1, RowAssumption DEF Claims, Draft, RowsOf
  <2>2. QED
    BY <1>1, <2>1, OldClaims
<1>8. TwinExists'
  BY <1>1, <1>3, <1>4, OldVerdicts
<1>9. QED
  BY <1>6, <1>7, <1>8 DEF ClaimInv

LEMMA CommitClaims ==
  ASSUME LedgerInv, ClaimInv, NEW b \in Batch, Commit(b)
  PROVE  ClaimInv'
<1>1. /\ TypeOK /\ CommittedIsWhole /\ AbsentIsBlank /\ DraftsClaimOnce /\ TwinExists
      /\ status[b] = "READY"
      /\ ledger' = [r \in Row |-> IF r \in ToInsert(b) THEN EntryFor(r) ELSE ledger[r]]
      /\ status' = [status EXCEPT ![b] = "COMMITTED"]
  BY DEF LedgerInv, ClaimInv, Commit, Committable
<1>2. PICK verdict \in [Chosen(b, "INCLUDE") -> Nameable] :
        /\ Preflight(b, verdict)
        /\ row' = [r \in Row |-> IF r \notin Chosen(b, "INCLUDE") THEN row[r]
                                 ELSE [Judged(b, verdict, r) EXCEPT !.disp = "COMMITTED"]]
  BY Zenon DEF Commit
<1>3. \A t \in Row : ledger[t] # None => ledger'[t] = ledger[t]
  BY <1>1 DEF CommittedIsWhole, InLedger, ToInsert, Chosen, RowsOf
<1>4. ASSUME NEW r \in Chosen(b, "INCLUDE")
      PROVE  Names(ledger', row'[r], row'[r], r) /\ r \in RowsOf(b) /\ r \in Row
  <2> DEFINE x == Judged(b, verdict, r)
  <2>1. r \in RowsOf(b) /\ r \in Row
    BY DEF Chosen, RowsOf
  <2>2. Names(ledger, x, x, r) /\ x \in Staged
    BY <1>1, <1>2, <2>1, JudgedClaims, JudgedType
  <2>3. row'[r] = [x EXCEPT !.disp = "COMMITTED"]
    BY <1>2, <2>1
  <2> HIDE DEF x
  <2>4. /\ row'[r].look = x.look /\ row'[r].native = x.native
        /\ row'[r].dup = x.dup /\ row'[r].cand = x.cand
    BY <2>2, <2>3 DEF Staged
  <2>5. x.cand \in Row \cup {None}
    BY <2>2 DEF Staged
  <2>6. QED
    BY <1>3, <2>1, <2>2, <2>4, <2>5 DEF Names
<1>5. \A r \in Row \ Chosen(b, "INCLUDE") : row'[r] = row[r]
  BY <1>2
<1>6. status'[b] = "COMMITTED" /\ \A c \in Batch \ {b} : status'[c] = status[c]
  BY <1>1 DEF TypeOK
<1>7. AbsentIsBlank'
  BY <1>1, <1>4, <1>5, <1>6, RowAssumption DEF AbsentIsBlank, RowsOf
<1>8. DraftsClaimOnce'
  <2>1. ASSUME NEW r \in Row, Claims(row', r), status'[BatchOf[r]] \in Draft
        PROVE  Claims(row, r) /\ status[BatchOf[r]] \in Draft /\ row'[r] = row[r]
    BY <1>4, <1>5, <1>6, <2>1, RowAssumption DEF Claims, Draft, RowsOf
  <2>2. QED
    BY <1>1, <2>1, OldClaims
<1>9. TwinExists'
  <2>1. \A r \in Row : row[r] # None => row[r].cand \in Row \cup {None}
    BY <1>1 DEF TypeOK, Staged
  <2>2. QED
    BY <1>1, <1>3, <1>4, <1>5, <2>1, OldVerdicts
<1>10. QED
  BY <1>7, <1>8, <1>9 DEF ClaimInv

LEMMA PatchTransactionClaims ==
  ASSUME LedgerInv, ClaimInv, NEW t \in Row, NEW look \in Look, NEW excluded \in BOOLEAN,
         PatchTransaction(t, look, excluded)
  PROVE  ClaimInv'
<1>1. /\ TypeOK /\ AbsentIsBlank /\ DraftsClaimOnce /\ TwinExists /\ ledger[t] # None
      /\ ledger' = [ledger EXCEPT ![t].look = look, ![t].excluded = excluded]
      /\ UNCHANGED <<status, row>>
  BY DEF LedgerInv, ClaimInv, PatchTransaction, Visible, InLedger
<1>2. ledger[t] \in Entry /\ ledger \in [Row -> Entry \cup {None}]
  BY <1>1 DEF TypeOK
<1>3. /\ ledger'[t].fingerprint = ledger[t].fingerprint
      /\ ledger'[t].native = ledger[t].native
      /\ ledger'[t] \in Entry
      /\ \A d \in Row \ {t} : ledger'[d] = ledger[d]
  <2> DEFINE identities == {Fingerprint(r, k) : r \in Row, k \in Look}
             entries == [look : Look, native : Native \cup {None},
                         fingerprint : identities, excluded : BOOLEAN]
             patched == [[ledger[t] EXCEPT !.look = look] EXCEPT !.excluded = excluded]
  <2>1. Entry = entries /\ ledger[t] \in entries
    BY <1>2 DEF Entry
  <2> HIDE DEF identities
  <2>2. /\ patched \in entries /\ patched.fingerprint = ledger[t].fingerprint
        /\ patched.native = ledger[t].native
    BY <2>1
  <2>3. ledger'[t] = patched /\ \A d \in Row \ {t} : ledger'[d] = ledger[d]
    BY <1>1, <1>2
  <2> HIDE DEF entries, patched
  <2>4. QED
    BY <2>1, <2>2, <2>3
<1>4. ASSUME NEW d \in Row, ledger[d] # None
      PROVE  /\ ledger'[d] # None /\ ledger'[d].fingerprint = ledger[d].fingerprint
             /\ ledger'[d].native = ledger[d].native
  BY <1>3, <1>4, EntryAssumption
<1>5. AbsentIsBlank'
  BY <1>1 DEF AbsentIsBlank
<1>6. DraftsClaimOnce'
  BY <1>1, OldClaims
<1>7. TwinExists'
  <2>1. \A r \in Row : row[r] # None => row[r].cand \in Row \cup {None}
    BY <1>1 DEF TypeOK, Staged
  <2>2. QED
    BY <1>1, <1>4, <2>1, OldVerdicts
<1>8. QED
  BY <1>5, <1>6, <1>7 DEF ClaimInv

LEMMA DeleteTransactionClaims ==
  ASSUME LedgerInv, ClaimInv, NEW t \in Row, DeleteTransaction(t)
  PROVE  ClaimInv'
<1> DEFINE named == {r \in Row : row[r] # None /\ row[r].cand = t}
           freed(x) == [x EXCEPT !.dup = "NONE", !.cand = None,
                          !.disp = IF @ = "BLOCKED" THEN "PENDING" ELSE @]
<1>1. /\ TypeOK /\ AbsentIsBlank /\ DraftsClaimOnce /\ TwinExists
      /\ ledger' = [ledger EXCEPT ![t] = None]
  BY DEF LedgerInv, ClaimInv, DeleteTransaction
<1>2. /\ row' = [r \in Row |-> IF r \notin named THEN row[r] ELSE freed(row[r])]
      /\ status' = [b \in Batch |->
                      IF /\ named \cap RowsOf(b) # {}
                         /\ status[b] \notin {"COMMITTED", "DELETED"}
                      THEN Refreshed(row', b) ELSE status[b]]
  BY Zenon DEF DeleteTransaction
<1>3. ASSUME NEW r \in named
      PROVE  /\ r \in Row /\ row[r] # None /\ row'[r].cand = None
             /\ row'[r].look = row[r].look /\ row'[r].native = row[r].native
             /\ row'[r].disp = "INCLUDE" => row[r].disp = "INCLUDE"
  <2>1. r \in Row /\ row[r] # None /\ row[r] \in Staged
    BY <1>1 DEF TypeOK
  <2>2. row'[r] = freed(row[r])
    BY <1>2, <2>1
  <2>3. /\ freed(row[r]).cand = None /\ freed(row[r]).look = row[r].look
        /\ freed(row[r]).native = row[r].native
        /\ freed(row[r]).disp = IF row[r].disp = "BLOCKED" THEN "PENDING" ELSE row[r].disp
    BY <2>1 DEF Staged
  <2> HIDE DEF freed
  <2>4. QED
    BY <2>1, <2>2, <2>3
<1>4. \A r \in Row \ named : row'[r] = row[r] /\ (row[r] # None => row[r].cand # t)
  BY <1>2
<1>5. \A b \in Batch : \/ status'[b] = status[b]
                       \/ /\ status'[b] \in {"NEEDS_REVIEW", "READY"}
                          /\ status[b] \notin {"COMMITTED", "DELETED"}
                          /\ named \cap RowsOf(b) # {}
  BY <1>2, RefreshedType
<1>6. ASSUME NEW r \in Row, NEW d \in Row, BatchOf[d] = BatchOf[r], row[d] # None
      PROVE  status'[BatchOf[r]] \in Draft => status[BatchOf[r]] \in Draft
  BY <1>1, <1>5, <1>6, RowAssumption DEF AbsentIsBlank, TypeOK, Draft
<1> HIDE DEF named, freed
<1>7. AbsentIsBlank'
  <2> SUFFICES ASSUME NEW r \in Row, status'[BatchOf[r]] = "ABSENT" PROVE row'[r] = None
    BY DEF AbsentIsBlank
  <2>1. status[BatchOf[r]] = "ABSENT"
    BY <1>5, RowAssumption
  <2>2. QED
    BY <1>1, <1>3, <1>4, <2>1 DEF AbsentIsBlank
<1>8. DraftsClaimOnce'
  <2>1. ASSUME NEW r \in Row, Claims(row', r), status'[BatchOf[r]] \in Draft
        PROVE  /\ Claims(row, r) /\ status[BatchOf[r]] \in Draft
               /\ row'[r].look = row[r].look /\ row'[r].native = row[r].native
    BY <1>3, <1>4, <1>6, <2>1 DEF Claims
  <2>2. QED
    BY <1>1, <2>1, OldClaims
<1>9. TwinExists'
  <2>1. ASSUME NEW r \in Row \ named, row[r] # None
        PROVE  ledger'[row[r].cand] = ledger[row[r].cand] \/ row[r].cand = None
    <3>1. row[r].cand \in (Row \ {t}) \cup {None}
      BY <1>1, <1>4, <2>1 DEF TypeOK, Staged
    <3>2. QED
      BY <1>1, <3>1 DEF TypeOK
  <2>2. QED
    BY <1>1, <1>3, <1>4, <2>1, OldVerdicts
<1>10. QED
  BY <1>7, <1>8, <1>9 DEF ClaimInv

-----------------------------------------------------------------------------
(* Theorems *)

LEMMA ClaimInit == Init => ClaimInv
<1> SUFFICES ASSUME Init PROVE ClaimInv
  OBVIOUS
<1>1. \A r \in Row : row[r] = None
  BY DEF Init
<1>2. QED
  BY <1>1 DEF ClaimInv, AbsentIsBlank, DraftsClaimOnce, TwinExists

\* No staging, edit, commit or deletion, in any order, makes two rows claim one
\* transaction, and no verdict outlives the transaction it names.
THEOREM ClaimsInductive == Spec => []ClaimInv
<1>1. LedgerInv /\ ClaimInv /\ [Next]_vars => ClaimInv'
  <2> SUFFICES ASSUME LedgerInv, ClaimInv, [Next]_vars PROVE ClaimInv'
    OBVIOUS
  <2>1. ASSUME NEW b \in Batch,
               Upload(b) \/ Reopen(b) \/ Discard(b) \/ DeleteBatch(b)
        PROVE  ClaimInv'
    BY <2>1, StatusClaims
  <2>2. ASSUME NEW b \in Batch, CreateManual(b) \/ Stage(b) PROVE ClaimInv'
    BY <2>2, StagingClaims
  <2>3. ASSUME NEW b \in Batch, CommitFindsDuplicate(b) PROVE ClaimInv'
    BY <2>3, CommitFindsDuplicateClaims
  <2>4. ASSUME NEW b \in Batch, Commit(b) PROVE ClaimInv'
    BY <2>4, CommitClaims
  <2>5. ASSUME NEW r \in Row, NEW look \in Look \cup {None}, NEW category \in BOOLEAN,
               NEW choice \in Choice \cup {None}, PatchRow(r, look, category, choice)
        PROVE  ClaimInv'
    BY <2>5, PatchRowClaims
  <2>6. ASSUME NEW t \in Row, NEW look \in Look, NEW excluded \in BOOLEAN,
               PatchTransaction(t, look, excluded)
        PROVE  ClaimInv'
    BY <2>6, PatchTransactionClaims
  <2>7. ASSUME NEW t \in Row, DeleteTransaction(t) PROVE ClaimInv'
    BY <2>7, DeleteTransactionClaims
  <2>8. CASE UNCHANGED vars
    <3>1. UNCHANGED <<status, row, ledger>>
      BY <2>8 DEF vars
    <3>2. QED
      BY <3>1, ClaimForms DEF ClaimInv, AbsentIsBlank
  <2>9. QED
    BY <2>1, <2>2, <2>3, <2>4, <2>5, <2>6, <2>7, <2>8 DEF Next
<1>2. QED
  BY ClaimInit, Inductive, <1>1, PTL DEF Spec

\* Two rows of drafts that are to be imported never claim one transaction.
THEOREM ClaimsAreApart == Spec => []DraftsClaimOnce
<1>1. ClaimInv => DraftsClaimOnce
  BY DEF ClaimInv
<1>2. QED
  BY <1>1, ClaimsInductive, PTL

\* The duplicate a row names is in the ledger and, if exact, has its identity.
THEOREM VerdictsNameTwins == Spec => []TwinExists
<1>1. ClaimInv => TwinExists
  BY DEF ClaimInv
<1>2. QED
  BY <1>1, ClaimsInductive, PTL

=============================================================================
