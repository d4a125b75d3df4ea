----------------------------- MODULE MCDashboard -----------------------------
(***************************************************************************)
(* Instances of DashboardReports for TLC.                                  *)
(***************************************************************************)
EXTENDS DashboardReports, TLC

CONSTANT food

Leap == Date(2024, 2, 29)

\* Over a new year, with parts of weeks, months and quarters at both ends; the
\* leap day, whose year begins on March 1, and the day after it; the end of a
\* month that is longer than the one before.
MCDateRange ==
  {[from |-> Date(2023, 12, 27), to |-> Date(2024, 1, 3)],
   [from |-> Leap, to |-> Leap + 1],
   [from |-> Date(2024, 3, 31), to |-> Date(2024, 4, 1)]}

\* The first day of the first year-long window, the day before the first range,
\* its last day of the year, and the leap day
MCDay == {Date(2022, 12, 28), Date(2023, 12, 26), Date(2023, 12, 31), Leap}

MCParentOf == [s \in Subcategory |-> food]
MCManagedName == [item \in Managed |-> item]
MCAmount == {-7, 4}

\* The bound of the dashboard run: a second transaction only while the taxonomy
\* has its first names and nothing is inactive
SecondOnlyWhileSettled ==
  \/ Cardinality({t \in Id : Booked(t)}) <= 1
  \/ \A item \in Item : name[item] = item /\ active[item]

MCNext ==
  \/ \E t \in Id, entry \in Entry : Book(t, entry) /\ SecondOnlyWhileSettled'
  \/ \E t \in Id, amount \in Amount, tag \in Labels, standing \in {"included", "excluded"} :
       Correct(t, amount, tag, standing)
  \/ \E t \in Id : Delete(t)
  \/ \E item \in Item, n \in Name, isActive \in BOOLEAN :
       CreateItem(item, n, isActive) /\ UNCHANGED transactions /\ SecondOnlyWhileSettled'
  \/ \E item \in Item, n \in Name :
       Rename(item, n) /\ UNCHANGED transactions /\ SecondOnlyWhileSettled'
  \/ \E item \in Item, isActive \in BOOLEAN :
       SetActive(item, isActive) /\ UNCHANGED transactions /\ SecondOnlyWhileSettled'

MCSpec == Init /\ [][MCNext]_vars

Ids == Permutations(Id)
=============================================================================
