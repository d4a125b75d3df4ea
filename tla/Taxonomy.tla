------------------------------ MODULE Taxonomy ------------------------------
(***************************************************************************)
(* The managed categories and subcategories: api/taxonomy.py,              *)
(* taxonomy/validation.py and the seeding that every staging request runs  *)
(* (taxonomy/seed.py).                                                     *)
(*                                                                         *)
(* A name stands for its slug, the form in which names are compared; every *)
(* request that sets a display name sets the slug with it.                 *)
(***************************************************************************)
EXTENDS Naturals

CONSTANTS
  Category,     (* category ids                                            *)
  Subcategory,  (* subcategory ids                                         *)
  ParentOf,     (* the category of each subcategory: it never changes      *)
  Name,         (* names categories and subcategories may be given         *)
  Managed,      (* OBSERVED_TAXONOMY: the ids derived from its names       *)
  ManagedName,  (* the name each of these ids is derived from              *)
  None          (* SQL NULL, or an item that does not exist                *)

Item == Category \cup Subcategory

\* The items whose names must differ: all categories, or one category's own
Siblings(item) ==
  IF item \in Category THEN Category
  ELSE {s \in Subcategory : ParentOf[s] = ParentOf[item]}

ASSUME ParentAssumption == ParentOf \in [Subcategory -> Category]
ASSUME ManagedAssumption ==
  /\ Managed \subseteq Item
  /\ ManagedName \in [Managed -> Name]
  /\ \A s \in Managed \cap Subcategory : ParentOf[s] \in Managed
  /\ \A item \in Managed : \A other \in (Siblings(item) \cap Managed) \ {item} :
       ManagedName[other] # ManagedName[item]
ASSUME DisjointAssumption == Category \cap Subcategory = {} /\ None \notin Item \cup Name

VARIABLES
  name,    \* slug of each category and subcategory, None before it exists
  active   \* is_active

taxonomy == <<name, active>>

Exists(item) == name[item] # None

Taken(item, n) == \E other \in Siblings(item) : name[other] = n

TaxonomyTypeOK ==
  /\ name \in [Item -> Name \cup {None}]
  /\ active \in [Item -> BOOLEAN]
  /\ \A item \in Item : Exists(item) =>
       /\ item \in Subcategory => Exists(ParentOf[item])
       /\ \A other \in Siblings(item) \ {item} : name[other] # name[item]

\* The first migration inserts the managed items.
TaxonomyInit ==
  /\ name = [item \in Item |-> IF item \in Managed THEN ManagedName[item] ELSE None]
  /\ active = [item \in Item |-> item \in Managed]

\* create_taxonomy_item: new items get ids that are not derived from names
CreateItem(item, n, isActive) ==
  /\ ~Exists(item)
  /\ item \notin Managed
  /\ item \in Subcategory => Exists(ParentOf[item])
  /\ ~Taken(item, n)
  /\ name' = [name EXCEPT ![item] = n]
  /\ active' = [active EXCEPT ![item] = isActive]

\* patch_taxonomy_item with a display name: a name that is taken breaks the
\* unique index, and the request fails
Rename(item, n) ==
  /\ Exists(item)
  /\ n # name[item]
  /\ ~Taken(item, n)
  /\ name' = [name EXCEPT ![item] = n]
  /\ UNCHANGED active

\* patch_taxonomy_item with is_active
SetActive(item, isActive) ==
  /\ Exists(item)
  /\ active' = [active EXCEPT ![item] = isActive]
  /\ UNCHANGED name

\* What seed_taxonomy inserts: a managed category whose name no category has,
\* a managed subcategory whose id does not exist
SeedInserts ==
  {item \in Managed : IF item \in Category THEN ~Taken(item, ManagedName[item])
                      ELSE ~Exists(item)}

\* The primary key and the unique names let the inserts through.
SeedSucceeds ==
  \A item \in SeedInserts : ~Exists(item) /\ ~Taken(item, ManagedName[item])

\* fault: each label is checked on its own
ValidActiveApart(tag) ==
  /\ tag.category # None => Exists(tag.category) /\ active[tag.category]
  /\ tag.subcategory # None => Exists(tag.subcategory) /\ active[tag.subcategory]

\* validate_active_taxonomy
ValidActive(tag) ==
  /\ tag.category = None => tag.subcategory = None
  /\ tag.category # None => Exists(tag.category) /\ active[tag.category]
  /\ tag.subcategory # None =>
       /\ Exists(tag.subcategory) /\ active[tag.subcategory]
       /\ ParentOf[tag.subcategory] = tag.category

\* The storage model of the design document gives categories a stable identity
\* and a display name, and the categories page offers to rename each of them:
\* a staging request, which seeds the taxonomy first, works after a rename too.
StagingCanSeed == SeedSucceeds

=============================================================================
