--------------------------- MODULE MCImportLedger ---------------------------
(***************************************************************************)
(* Instances of ImportLedger for TLC.                                      *)
(***************************************************************************)
EXTENDS ImportLedger, TLC

CONSTANTS file1, file2, hand, hand2, cells1, cells2, k1, k2, n1

\* Overlapping exports: file2 repeats the row of file1, and then books it once
\* more under the provider's id; rows 4 and 5 are one entry typed in twice, in two
\* manual batches.
MCBatchOf == [r \in Row |-> CASE r = 1 -> file1 [] r \in {2, 3} -> file2
                       [] r = 4 -> hand [] r = 5 -> hand2]
MCRaw == [r \in Row |-> IF r = 3 THEN cells2 ELSE cells1]

Read(r) == [look |-> k1, filtered |-> FALSE,
            native |-> IF r \in {1, 3} /\ n1 \in Native THEN n1 ELSE None]
Filtered == [look |-> None, filtered |-> TRUE, native |-> None]
Failed == [look |-> None, filtered |-> FALSE, native |-> None]

\* The second mapping filters row 3 out and fails on row 2.
MCReadings ==
  {[r \in Row |-> Read(r)],
   [r \in Row |-> CASE r = 3 -> Filtered [] r = 2 -> Failed [] OTHER -> Read(r)]}

MCAlike == {<<k, k>> : k \in Look}

\* Bounds of the run that has both kinds of batches.  Their identities never
\* meet: the fingerprints differ in shape, and manual rows have no native id; so
\* only one kind exists at a time.  Edits change the identity of manual rows only:
\* the others keep the look they were read with.
OneKindAtATime ==
  \/ \A b \in Manual : status[b] = "ABSENT"
  \/ \A b \in Batch \ Manual : status[b] = "ABSENT"

EditsOfManualRows ==
  \A r \in Row : BatchOf[r] \notin Manual =>
    /\ row[r] # None => row[r].look \in {k1, None}
    /\ InLedger(r) => ledger[r].look = k1

OneKindEdited == OneKindAtATime /\ EditsOfManualRows

=============================================================================
