------------------------------ MODULE Dashboard ------------------------------
(***************************************************************************)
(* The reports over the ledger: build_dashboard of reporting/service.py    *)
(* and the older reports of api/reporting.py, on a table of transactions   *)
(* that commits, corrections and deletions change.                         *)
(*                                                                         *)
(* Reports are reads: they are operators over the table, for any range of  *)
(* dates and any selection of categories.  Labels, names, percentages, the *)
(* order of items and the list of recent transactions are left out.        *)
(***************************************************************************)
EXTENDS Taxonomy, Calendar, Sequences, FiniteSets, FiniteSetsExt

CONSTANTS
  Id,           (* transactions that may be booked                         *)
  Day,          (* the dates transactions are booked on                    *)
  Amount,       (* signed amounts in minor units                           *)
  Currency,     (* currencies of transactions                              *)
  Euro,         (* REPORTING_CURRENCY                                      *)
  DateRange     (* the ranges reports are asked for: [from, to]            *)

ASSUME AmountAssumption == Amount \subseteq Int \ {0}
ASSUME DayAssumption == Day \subseteq Nat
ASSUME RangeAssumption ==
  /\ DateRange \subseteq [from : Dates, to : Dates]
  /\ \A range \in DateRange : range.from <= range.to

VARIABLE transactions   \* the Transaction rows, by id

\* The labels a request may send
Labels == [category : Category \cup {None}, subcategory : Subcategory \cup {None}]

\* A category, with or without one of its subcategories, or neither
Tag ==
  {tag \in Labels : tag.subcategory # None => tag.category = ParentOf[tag.subcategory]}

\* An "ignored" transaction was made from a row the import ignored: it is
\* excluded and hidden from the transaction requests.
Standing == {"included", "excluded", "ignored"}

Transaction == [date : Day, amount : Amount, currency : Currency, tag : Tag,
                standing : Standing]
Entry == [date : Day, amount : Amount, currency : Currency, tag : Labels,
          standing : Standing \ {"excluded"}]

ASSUME NoneAssumption == None \notin Transaction

TypeOK ==
  /\ TaxonomyTypeOK
  /\ transactions \in [Id -> Transaction \cup {None}]

Init ==
  /\ TaxonomyInit
  /\ transactions = [t \in Id |-> None]

Booked(t) == transactions[t] # None

\* ImportService.commit: an included row needs a category, an ignored one does
\* not, and neither may name an inactive one.
Book(t, entry) ==
  /\ ~Booked(t)
  /\ entry.standing = "included" => entry.tag.category # None
  /\ ValidActive(entry.tag)
  /\ transactions' = [transactions EXCEPT ![t] = entry]
  /\ UNCHANGED taxonomy

\* patch_transaction: the date and the currency of a transaction are not
\* edited, and the labels are validated whether or not they change.
Correct(t, amount, tag, standing) ==
  /\ Booked(t)
  /\ transactions[t].standing # "ignored"
  /\ ValidActive(tag)
  /\ transactions' = [transactions EXCEPT ![t] =
       [@ EXCEPT !.amount = amount, !.tag = tag, !.standing = standing]]
  /\ UNCHANGED taxonomy

\* delete_transaction
Delete(t) ==
  /\ Booked(t)
  /\ transactions[t].standing # "ignored"
  /\ transactions' = [transactions EXCEPT ![t] = None]
  /\ UNCHANGED taxonomy

Next ==
  \/ \E t \in Id, entry \in Entry : Book(t, entry)
  \/ \E t \in Id, amount \in Amount, tag \in Labels, standing \in {"included", "excluded"} :
       Correct(t, amount, tag, standing)
  \/ \E t \in Id : Delete(t)
  \/ \E item \in Item, n \in Name, isActive \in BOOLEAN :
       CreateItem(item, n, isActive) /\ UNCHANGED transactions
  \/ \E item \in Item, n \in Name : Rename(item, n) /\ UNCHANGED transactions
  \/ \E item \in Item, isActive \in BOOLEAN :
       SetActive(item, isActive) /\ UNCHANGED transactions

vars == <<taxonomy, transactions>>

Spec == Init /\ [][Next]_vars

-----------------------------------------------------------------------------
(* Totals, filters and the rows a report loads *)

\* DashboardFilters: empty sets select everything.  _validate_filters refuses
\* a subcategory outside the selected categories.
Selection ==
  {filter \in [categories : SUBSET Category, subcategories : SUBSET Subcategory] :
     filter.categories # {} =>
       \A s \in filter.subcategories : ParentOf[s] \in filter.categories}

Everything == [categories |-> {}, subcategories |-> {}]

Selected(tag, filter) ==
  /\ filter.categories # {} => tag.category \in filter.categories
  /\ filter.subcategories # {} => tag.subcategory \in filter.subcategories

\* _Totals
Positive(n) == IF n > 0 THEN n ELSE 0

Totals(S) ==
  [income |-> MapThenSumSet(LAMBDA t : Positive(transactions[t].amount), S),
   spending |-> MapThenSumSet(LAMBDA t : Positive(-transactions[t].amount), S),
   net |-> MapThenSumSet(LAMBDA t : transactions[t].amount, S)]

\* _round_divide: half away from zero
RoundDivide(value, divisor) ==
  IF value >= 0 THEN (2 * value + divisor) \div (2 * divisor)
  ELSE -((2 * (-value) + divisor) \div (2 * divisor))

Mean(totals, months) == [k \in DOMAIN totals |-> RoundDivide(totals[k], months)]

Within(t, from, to) == from <= transactions[t].date /\ transactions[t].date <= to

\* The range of as many days that ends the day before this one
Prior(range) ==
  [from |-> range.from - 1 - (range.to - range.from), to |-> range.from - 1]

ASSUME PriorAssumption == \A range \in DateRange : Prior(range).from \in Dates

\* fault: the rows of the prior range are enough
LoadedFromPrior(range) == Prior(range).from
LoadedFrom(range) == Min({Prior(range).from, WindowStart(range.from, 12)})

\* What the conditions of _load_transactions leave of the table
Reported(filter) ==
  {t \in Id : /\ Booked(t)
              /\ transactions[t].currency = Euro
              /\ transactions[t].standing = "included"
              /\ Selected(transactions[t].tag, filter)}

\* _load_transactions
Loaded(range, filter) ==
  {t \in Reported(filter) : Within(t, LoadedFrom(range), range.to)}

CurrentRows(range, filter) ==
  {t \in Loaded(range, filter) : transactions[t].date >= range.from}

\* fault: everything loaded before the range counts as prior
PriorRowsAll(range, filter) ==
  {t \in Loaded(range, filter) : transactions[t].date <= Prior(range).to}

PriorRows(range, filter) ==
  {t \in Loaded(range, filter) : Within(t, Prior(range).from, Prior(range).to)}

=============================================================================
