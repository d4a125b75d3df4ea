---------------------------- MODULE ImportLedger ----------------------------
(***************************************************************************)
(* The rows of the import batches of one account and the ledger they end   *)
(* in: staging with duplicate classification, review, commit with its      *)
(* preflight, and the deletion and correction of ledger transactions, as   *)
(* ImportService (imports/service.py), duplicates/service.py and           *)
(* api/transactions.py perform them.                                       *)
(*                                                                         *)
(* Every action is one database transaction under the write lock.  The     *)
(* STAGING interval, in which no other request writes, and the revisions   *)
(* that reject stale requests belong to ImportLifecycle.                   *)
(***************************************************************************)
EXTENDS Naturals

CONSTANTS
  Batch,     (* batches that may be created                                *)
  Manual,    (* the batches entered by hand; the others are files          *)
  Row,       (* row positions over all batches, in the order of row_number *)
  BatchOf,   (* the batch of each row                                      *)
  Raw,       (* the source cells of each row: equal cells, equal hash      *)
  Readings,  (* what mapping plans may make of the rows: [Row -> Reading]  *)
  Look,      (* date, amount, currency and description of a row            *)
  Alike,     (* pairs of looks close enough for a likely duplicate         *)
  Native,    (* provider-native transaction ids                            *)
  Choice,    (* dispositions a client asks for                             *)
  None       (* SQL NULL, or an absent row or field                        *)

Disposition == {"PENDING", "INCLUDE", "IGNORE", "BLOCKED", "AUDIT_ONLY", "COMMITTED"}
Duplicate == {"NONE", "EXACT", "LIKELY"}
Reading == [look : Look \cup {None}, native : Native \cup {None}, filtered : BOOLEAN]
Staged == [look : Look \cup {None}, native : Native \cup {None}, filtered : BOOLEAN,
           category : BOOLEAN,
           dup : Duplicate, cand : Row \cup {None}, disp : Disposition]

Draft == {"UPLOADED", "AWAITING_MAPPING", "NEEDS_REVIEW", "READY"}

ASSUME RowAssumption == Row \subseteq Nat /\ BatchOf \in [Row -> Batch]
ASSUME ManualAssumption == Manual \subseteq Batch
ASSUME ReadingsAssumption ==
  /\ Readings \subseteq [Row -> Reading]
  /\ \A reading \in Readings, r \in Row :
       /\ reading[r].filtered => reading[r].look = None
       /\ BatchOf[r] \in Manual =>
            reading[r].look # None /\ reading[r].native = None
ASSUME AlikeAssumption ==
  /\ Alike \subseteq Look \X Look
  /\ \A k \in Look : <<k, k>> \in Alike
  /\ \A k, l \in Look : <<k, l>> \in Alike => <<l, k>> \in Alike
ASSUME ChoiceAssumption == Choice \subseteq Disposition
ASSUME NoneAssumption ==
  /\ None \notin Look /\ None \notin Native /\ None \notin Row
  /\ None \notin Staged /\ None \notin Disposition

VARIABLES
  status,      \* ImportBatch.status, "ABSENT" before the batch exists
  row,         \* the StagedTransaction at each position
  ledger,      \* the Transaction made from each row
  tombstones,  \* rows whose Transaction has a TransactionDeletion
  declared     \* history: rows that a review request made COMMITTED

vars == <<status, row, ledger, tombstones, declared>>

RowsOf(b) == {r \in Row : BatchOf[r] = b}

\* _generic_fingerprint covers the canonical fields too and follows their
\* edits; generic_row_fingerprint covers the source cells only.
Fingerprint(r, look) == IF BatchOf[r] \in Manual THEN <<Raw[r], look>> ELSE <<Raw[r]>>

Entry == [look : Look, native : Native \cup {None},
          fingerprint : {Fingerprint(r, k) : r \in Row, k \in Look}, excluded : BOOLEAN]

ASSUME EntryAssumption == None \notin Entry

TypeOK ==
  /\ status \in [Batch -> Draft \cup {"ABSENT", "COMMITTED", "DELETED"}]
  /\ row \in [Row -> Staged \cup {None}]
  /\ ledger \in [Row -> Entry \cup {None}]
  /\ tombstones \subseteq Row
  /\ declared \subseteq Row

Init ==
  /\ status = [b \in Batch |-> "ABSENT"]
  /\ row = [r \in Row |-> None]
  /\ ledger = [r \in Row |-> None]
  /\ tombstones = {}
  /\ declared = {}

-----------------------------------------------------------------------------
(* classify_duplicate: row r among the given rows and the ledger *)

InLedger(t) == ledger[t] # None

\* fault: a row is compared with the rows of its own batch only
ContendersInBatch(rows, r) ==
  {d \in Row \ {r} : /\ rows[d] # None
                     /\ BatchOf[d] = BatchOf[r]
                     /\ rows[d].disp \in {"PENDING", "INCLUDE"}}

\* Other rows of drafts that are still to be imported
Contenders(rows, r) ==
  {d \in Row \ {r} : /\ rows[d] # None
                     /\ BatchOf[d] = BatchOf[r] \/ status[BatchOf[d]] \in Draft
                     /\ rows[d].disp \in {"PENDING", "INCLUDE"}}

Exact(cand) == [dup |-> "EXACT", cand |-> cand]
Likely(cand) == [dup |-> "LIKELY", cand |-> cand]
NoDuplicate == [dup |-> "NONE", cand |-> None]

\* One strong identity: the ledger is searched first, then the drafts.
Matches(booked, drafted) ==
  IF booked # {} THEN {Exact(t) : t \in booked}
  ELSE IF drafted # {} THEN {Exact(None)}
  ELSE {}

\* The provider's id takes precedence over the fingerprint.
ExactVerdicts(rows, r, checkStaged) ==
  LET me == rows[r]
      others == IF checkStaged THEN Contenders(rows, r) ELSE {}
      byNative ==
        IF me.native = None THEN {}
        ELSE Matches({t \in Row : InLedger(t) /\ ledger[t].native = me.native},
                     {d \in others : rows[d].native = me.native})
      byFingerprint ==
        Matches({t \in Row : InLedger(t) /\ ledger[t].fingerprint = Fingerprint(r, me.look)},
                {d \in others : Fingerprint(d, rows[d].look) = Fingerprint(r, me.look)})
  IN IF byNative # {} THEN byNative ELSE byFingerprint

Resembles(look, other) == look # None /\ other # None /\ <<look, other>> \in Alike

\* The code prefers the best-scoring transaction: here any that qualifies.
LikelyVerdicts(rows, r, checkStaged) ==
  LET others == IF checkStaged THEN Contenders(rows, r) ELSE {}
      booked == {t \in Row : InLedger(t) /\ Resembles(ledger[t].look, rows[r].look)}
  IN IF booked # {} THEN {Likely(t) : t \in booked}
     ELSE IF \E d \in others : Resembles(rows[d].look, rows[r].look) THEN {Likely(None)}
     ELSE {NoDuplicate}

Verdicts(rows, r, checkStaged) ==
  LET exact == ExactVerdicts(rows, r, checkStaged)
  IN IF exact # {} THEN exact ELSE LikelyVerdicts(rows, r, checkStaged)

\* All verdicts there can be about the present ledger
Nameable ==
  LET named == {t \in Row : InLedger(t)} \cup {None}
  IN {NoDuplicate} \cup {Exact(t) : t \in named} \cup {Likely(t) : t \in named}

-----------------------------------------------------------------------------
(* Staging *)

\* A row that failed to parse has no look; a filtered one is kept for audit.
HasIssueFiltered(x) == x.filtered   \* fault: a failed row passes
HasIssue(x) == x.look = None \/ x.filtered

\* _refresh_batch_status
Refreshed(rows, b) ==
  IF \E r \in RowsOf(b) : rows[r] # None /\ rows[r].disp = "PENDING"
  THEN "NEEDS_REVIEW" ELSE "READY"

InitialDisposition(x) ==
  IF x.filtered THEN "AUDIT_ONLY"
  ELSE IF HasIssue(x) THEN "PENDING"
  ELSE IF x.dup = "EXACT" THEN "BLOCKED"
  ELSE IF x.dup = "LIKELY" \/ ~x.category THEN "PENDING"
  ELSE "INCLUDE"

StagedRow(reading, category, verdict) ==
  LET x == [look |-> reading.look, native |-> reading.native,
            filtered |-> reading.filtered, category |-> category,
            dup |-> verdict.dup, cand |-> verdict.cand, disp |-> "PENDING"]
  IN [x EXCEPT !.disp = InitialDisposition(x)]

\* _stage_rows: rows are classified in their order, each among the earlier
\* ones of its own batch; tagging gives a category or none.
StageRows(b) ==
  \E reading \in Readings, category \in [RowsOf(b) -> BOOLEAN],
     verdict \in [RowsOf(b) -> Nameable] :
    LET new == [d \in Row |-> IF BatchOf[d] = b
                              THEN StagedRow(reading[d], category[d], verdict[d])
                              ELSE row[d]]
        upTo(r) == [d \in Row |-> IF BatchOf[d] = b /\ d > r THEN None ELSE new[d]]
    IN /\ \E r \in RowsOf(b) : ~HasIssue(reading[r])
       /\ \A r \in RowsOf(b) : verdict[r] \in Verdicts(upTo(r), r, TRUE)
       /\ row' = new
       /\ status' = [status EXCEPT ![b] = Refreshed(new, b)]
       /\ declared' = declared \ RowsOf(b)

Upload(b) ==
  /\ b \notin Manual
  /\ status[b] = "ABSENT"
  /\ status' = [status EXCEPT ![b] = "AWAITING_MAPPING"]
  /\ UNCHANGED <<row, ledger, tombstones, declared>>

CreateManual(b) ==
  /\ b \in Manual
  /\ status[b] = "ABSENT"
  /\ StageRows(b)
  /\ UNCHANGED <<ledger, tombstones>>

Stage(b) ==
  /\ b \notin Manual
  /\ status[b] \in Draft
  /\ StageRows(b)
  /\ UNCHANGED <<ledger, tombstones>>

\* confirm_mapping on a staged batch, and stage() when it fails
Reopen(b) ==
  /\ b \notin Manual
  /\ status[b] \in Draft
  /\ status' = [status EXCEPT ![b] = "AWAITING_MAPPING"]
  /\ UNCHANGED <<row, ledger, tombstones, declared>>

\* update_inspection, and recover_staging after a crash
Discard(b) ==
  /\ b \notin Manual
  /\ status[b] \in Draft
  /\ row' = [r \in Row |-> IF BatchOf[r] = b THEN None ELSE row[r]]
  /\ status' = [status EXCEPT ![b] = "AWAITING_MAPPING"]
  /\ declared' = declared \ RowsOf(b)
  /\ UNCHANGED <<ledger, tombstones>>

-----------------------------------------------------------------------------
(* Review *)

\* The end of update_rows for one row: a choice of None leaves the
\* disposition out of the request.
ReviewedDisposition(x, choice) ==
  IF HasIssue(x) THEN "PENDING"
  ELSE IF x.dup = "EXACT" THEN "BLOCKED"
  ELSE IF x.dup = "LIKELY" /\ choice \notin {"INCLUDE", "IGNORE"} THEN "PENDING"
  ELSE IF choice # None THEN choice
  ELSE x.disp

\* The endpoint takes every StagedDisposition, COMMITTED too.
Declared(r, disp) == IF disp = "COMMITTED" THEN declared \cup {r} ELSE declared \ {r}

\* Fault: the verdict of the row before the edit is kept.
PatchRowUnclassified(r, look, category, choice) ==
  /\ status[BatchOf[r]] \in Draft
  /\ row[r] # None
  /\ look = row[r].look \/ look \in Look
  /\ LET edited == [row[r] EXCEPT !.look = look, !.category = category]
         new == [row EXCEPT ![r] =
                   [edited EXCEPT !.disp = ReviewedDisposition(edited, choice)]]
     IN /\ row' = new
        /\ status' = [status EXCEPT ![BatchOf[r]] = Refreshed(new, BatchOf[r])]
        /\ declared' = Declared(r, new[r].disp)
  /\ UNCHANGED <<ledger, tombstones>>

\* A request with several rows has the effect of one request per row.
PatchRow(r, look, category, choice) ==
  /\ status[BatchOf[r]] \in Draft
  /\ row[r] # None
  /\ look = row[r].look \/ look \in Look
  /\ LET edited == [row[r] EXCEPT !.look = look, !.category = category]
         rows == [row EXCEPT ![r] = edited]
     IN \E verdict \in Verdicts(rows, r, TRUE) :
          LET judged == [edited EXCEPT !.dup = verdict.dup, !.cand = verdict.cand]
              new == [row EXCEPT ![r] =
                        [judged EXCEPT !.disp = ReviewedDisposition(judged, choice)]]
          IN /\ row' = new
             /\ status' = [status EXCEPT ![BatchOf[r]] = Refreshed(new, BatchOf[r])]
             /\ declared' = Declared(r, new[r].disp)
  /\ UNCHANGED <<ledger, tombstones>>

DeleteBatchAny(b) ==   \* fault: a committed batch can be deleted
  /\ status[b] # "ABSENT"
  /\ status' = [status EXCEPT ![b] = "DELETED"]
  /\ UNCHANGED <<row, ledger, tombstones, declared>>

DeleteBatch(b) ==
  /\ status[b] \in Draft
  /\ status' = [status EXCEPT ![b] = "DELETED"]
  /\ UNCHANGED <<row, ledger, tombstones, declared>>

-----------------------------------------------------------------------------
(* Commit *)

Chosen(b, disp) == {r \in RowsOf(b) : row[r] # None /\ row[r].disp = disp}

\* _validate_row_for_commit; the reason of an ignored row comes with the choice
Complete(b) ==
  /\ \A r \in Chosen(b, "INCLUDE") : ~HasIssue(row[r]) /\ row[r].category
  /\ \A r \in Chosen(b, "IGNORE") : ~HasIssue(row[r])

Committable(b) ==
  /\ status[b] = "READY"
  /\ Chosen(b, "PENDING") = {}
  /\ Complete(b)

\* _preflight_commit classifies the included rows against the ledger alone; a
\* likely match that was one before counts as decided.
Preflight(b, verdict) ==
  \A r \in Chosen(b, "INCLUDE") : verdict[r] \in Verdicts(row, r, FALSE)

Discovered(b, verdict) ==
  {r \in Chosen(b, "INCLUDE") :
     \/ verdict[r].dup = "EXACT"
     \/ verdict[r].dup = "LIKELY" /\ row[r].dup # "LIKELY"}

Judged(b, verdict, r) ==
  IF r \in Chosen(b, "INCLUDE")
  THEN [row[r] EXCEPT !.dup = verdict[r].dup, !.cand = verdict[r].cand]
  ELSE row[r]

\* The blocked and reopened rows are committed although the request fails.
CommitFindsDuplicate(b) ==
  /\ Committable(b)
  /\ \E verdict \in [Chosen(b, "INCLUDE") -> Nameable] :
       /\ Preflight(b, verdict)
       /\ Discovered(b, verdict) # {}
       /\ LET new == [r \in Row |->
                        IF r \notin Discovered(b, verdict) THEN Judged(b, verdict, r)
                        ELSE [Judged(b, verdict, r) EXCEPT !.disp =
                                IF verdict[r].dup = "EXACT" THEN "BLOCKED" ELSE "PENDING"]]
          IN /\ row' = new
             /\ status' = [status EXCEPT ![b] = Refreshed(new, b)]
  /\ UNCHANGED <<ledger, tombstones, declared>>

ToInsert(b) == Chosen(b, "INCLUDE") \cup Chosen(b, "IGNORE")

EntryFor(r) == [look |-> row[r].look, native |-> row[r].native,
                fingerprint |-> Fingerprint(r, row[r].look),
                excluded |-> row[r].disp = "IGNORE"]

\* The unique indexes of transactions: an entry that breaks one makes the
\* commit fail with IntegrityError, which is rolled back.
Clash(e, f) == e.fingerprint = f.fingerprint \/ (e.native # None /\ e.native = f.native)

Unique(b) ==
  \A r \in ToInsert(b) :
    /\ \A t \in Row : InLedger(t) => ~Clash(EntryFor(r), ledger[t])
    /\ \A d \in ToInsert(b) \ {r} : ~Clash(EntryFor(r), EntryFor(d))

Commit(b) ==
  /\ Committable(b)
  /\ Unique(b)
  /\ \E verdict \in [Chosen(b, "INCLUDE") -> Nameable] :
       /\ Preflight(b, verdict)
       /\ Discovered(b, verdict) = {}
       /\ row' = [r \in Row |->
                    IF r \notin Chosen(b, "INCLUDE") THEN row[r]
                    ELSE [Judged(b, verdict, r) EXCEPT !.disp = "COMMITTED"]]
  /\ ledger' = [r \in Row |-> IF r \in ToInsert(b) THEN EntryFor(r) ELSE ledger[r]]
  /\ status' = [status EXCEPT ![b] = "COMMITTED"]
  /\ UNCHANGED <<tombstones, declared>>

-----------------------------------------------------------------------------
(* The ledger *)

\* _is_import_ignored hides the transactions of ignored rows from these two.
VisibleAll(t) == InLedger(t)   \* fault: ignored transactions can be reached
Visible(t) == InLedger(t) /\ row[t].disp # "IGNORE"

\* Amount and description may be corrected, the identity stays.
PatchTransaction(t, look, excluded) ==
  /\ Visible(t)
  /\ ledger' = [ledger EXCEPT ![t].look = look, ![t].excluded = excluded]
  /\ UNCHANGED <<status, row, tombstones, declared>>

\* Fault: rows that name the transaction are left alone.
DeleteTransactionOnly(t) ==
  /\ Visible(t)
  /\ ledger' = [ledger EXCEPT ![t] = None]
  /\ tombstones' = tombstones \cup {t}
  /\ UNCHANGED <<status, row, declared>>

\* Fault: their batches keep the status they had.
DeleteTransactionUnrefreshed(t) ==
  /\ Visible(t)
  /\ ledger' = [ledger EXCEPT ![t] = None]
  /\ tombstones' = tombstones \cup {t}
  /\ row' = [r \in Row |->
               IF row[r] = None THEN None
               ELSE IF row[r].cand # t THEN row[r]
               ELSE [row[r] EXCEPT !.dup = "NONE", !.cand = None,
                       !.disp = IF @ = "BLOCKED" THEN "PENDING" ELSE @]]
  /\ UNCHANGED <<status, declared>>

DeleteTransaction(t) ==
  /\ Visible(t)
  /\ ledger' = [ledger EXCEPT ![t] = None]
  /\ tombstones' = tombstones \cup {t}
  /\ LET named == {r \in Row : row[r] # None /\ row[r].cand = t}
         new == [r \in Row |->
                   IF r \notin named THEN row[r]
                   ELSE [row[r] EXCEPT !.dup = "NONE", !.cand = None,
                           !.disp = IF @ = "BLOCKED" THEN "PENDING" ELSE @]]
     IN /\ row' = new
        /\ status' = [b \in Batch |->
                        IF /\ named \cap RowsOf(b) # {}
                           /\ status[b] \notin {"COMMITTED", "DELETED"}
                        THEN Refreshed(new, b) ELSE status[b]]
  /\ UNCHANGED declared

-----------------------------------------------------------------------------

Next ==
  \/ \E b \in Batch :
       \/ Upload(b) \/ CreateManual(b) \/ Stage(b) \/ Reopen(b) \/ Discard(b)
       \/ DeleteBatch(b) \/ CommitFindsDuplicate(b) \/ Commit(b)
  \/ \E r \in Row, look \in Look \cup {None}, category \in BOOLEAN,
        choice \in Choice \cup {None} : PatchRow(r, look, category, choice)
  \/ \E t \in Row, look \in Look, excluded \in BOOLEAN :
        PatchTransaction(t, look, excluded)
  \/ \E t \in Row : DeleteTransaction(t)

Spec == Init /\ [][Next]_vars

-----------------------------------------------------------------------------
(* Properties *)

\* Two rows that are to be imported never claim the same transaction, in
\* whatever order the drafts were staged, edited, ignored and released.
DraftsClaimOnce ==
  \A r, d \in Row :
    /\ r # d /\ row[r] # None /\ row[d] # None
    /\ status[BatchOf[r]] \in Draft /\ status[BatchOf[d]] \in Draft
    /\ row[r].disp = "INCLUDE" /\ row[d].disp = "INCLUDE"
    => ~Clash(EntryFor(r), EntryFor(d))

\* The status of a batch under review tells whether one of its rows waits for
\* the user, also when another request blocked or released the row.
StatusFollowsRows ==
  \A b \in Batch :
    status[b] \in {"READY", "NEEDS_REVIEW"} => status[b] = Refreshed(row, b)

\* A duplicate a row names is in the ledger, and an exact one has the identity
\* of the row: deletions and edits leave no verdict pointing elsewhere.
TwinExists ==
  \A r \in Row : row[r] # None /\ row[r].cand # None =>
    /\ InLedger(row[r].cand)
    /\ row[r].dup = "EXACT" =>
         \/ ledger[row[r].cand].fingerprint = Fingerprint(r, row[r].look)
         \/ row[r].native # None /\ ledger[row[r].cand].native = row[r].native

\* A committed batch has each row it accepted in the ledger until the user
\* deletes the transaction, and the ledger holds nothing else.  The rows that a
\* request declared COMMITTED before the commit are in neither: update_rows
\* stores that disposition, and the commit passes over it.
CommittedIsWhole ==
  /\ \A r \in Row : status[BatchOf[r]] = "COMMITTED" =>
       /\ row[r] # None
       /\ row[r].disp # "INCLUDE"
       /\ row[r].disp = "COMMITTED" =>
            r \in declared \/ (InLedger(r) # (r \in tombstones))
  /\ \A t \in Row : InLedger(t) \/ t \in tombstones =>
       /\ status[BatchOf[t]] = "COMMITTED"
       /\ row[t].disp \in {"COMMITTED", "IGNORE"}
       /\ t \notin declared

\* An ignored row of a committed batch keeps its excluded transaction, so that
\* its purchase is neither counted nor imported again from another file: the
\* design of 2026-08-13 and test_ignored_row_commits_as_excluded_and_blocks_duplicate
\* say so, the older ingestion design still has no transaction for such a row.
IgnoredStaysExcluded ==
  \A r \in Row : row[r] # None /\ status[BatchOf[r]] = "COMMITTED" /\ row[r].disp = "IGNORE"
    => InLedger(r) /\ ledger[r].excluded

-----------------------------------------------------------------------------
(* The inductive invariant behind the last two and StatusFollowsRows: the    *)
(* rows of a batch come and go together, and a row is COMMITTED by a commit  *)
(* or by a request that declared it so.                                      *)

RowsTogether ==
  \A r \in Row :
    /\ \A d \in Row : BatchOf[d] = BatchOf[r] => (row[d] = None <=> row[r] = None)
    /\ status[BatchOf[r]] \in {"NEEDS_REVIEW", "READY", "COMMITTED"} => row[r] # None

CommittedRowsAreKnown ==
  \A r \in Row :
    /\ row[r] # None /\ row[r].disp = "COMMITTED" =>
         status[BatchOf[r]] = "COMMITTED" \/ r \in declared
    /\ r \in declared => row[r] # None /\ row[r].disp = "COMMITTED"

LedgerInv ==
  /\ TypeOK
  /\ RowsTogether
  /\ CommittedRowsAreKnown
  /\ StatusFollowsRows
  /\ CommittedIsWhole
  /\ IgnoredStaysExcluded

-----------------------------------------------------------------------------
(* What the documents say and the code does not keep *)

\* The design document calls all staged rows of a READY batch committable:
\* when their fields are complete, nothing is left for the commit to refuse.
ReadyIsCommittable ==
  \A b \in Batch : Committable(b) =>
    \/ Unique(b)
    \/ \E r \in Chosen(b, "INCLUDE") : \A v \in Verdicts(row, r, FALSE) : v.dup # "NONE"

=============================================================================
