--------------------------- MODULE ImportContract ---------------------------
(***************************************************************************)
(* What importing promises about one file of one account, whatever the     *)
(* states in between: a file is opened as one draft, and the draft is      *)
(* committed once, for good, or discarded, which frees the file again.     *)
(* A file that cannot be read is rejected for good.                        *)
(***************************************************************************)
CONSTANTS File, Readable

VARIABLE slot   \* what holds each file: nothing, a draft, a final batch

Slot == {"free", "draft", "committed", "rejected"}

Init == slot = [f \in File |-> "free"]

Move(f, from, to) ==
  /\ slot[f] = from
  /\ slot' = [slot EXCEPT ![f] = to]

Open(f)    == f \in Readable /\ Move(f, "free", "draft")
Reject(f)  == f \notin Readable /\ Move(f, "free", "rejected")
Commit(f)  == Move(f, "draft", "committed")
Discard(f) == Move(f, "draft", "free")

Next == \E f \in File : Open(f) \/ Reject(f) \/ Commit(f) \/ Discard(f)

Spec == Init /\ [][Next]_slot

=============================================================================
