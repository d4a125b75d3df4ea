--------------------------- MODULE MCRowSaveQueue ---------------------------
(***************************************************************************)
(* Instances of RowSaveQueue for TLC: a category is chosen, with or        *)
(* without its subcategory, and a row is included or ignored.              *)
(***************************************************************************)
EXTENDS RowSaveQueue, TLC

CONSTANTS food, cafe, include, ignore

Set(c, s, d) == [f \in Field |-> CASE f = "category" -> c
                                   [] f = "subcategory" -> s
                                   [] f = "disposition" -> d]

\* The review page sets the subcategory to null with each category.
MCEdit == {Set(food, None, Unset), Set(Unset, cafe, Unset),
           Set(Unset, Unset, include), Set(Unset, Unset, ignore)}

Symmetry == Permutations(Row)

=============================================================================
