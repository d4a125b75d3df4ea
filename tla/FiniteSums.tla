----------------------------- MODULE FiniteSums -----------------------------
(***************************************************************************)
(* Sums over finite sets, for the proofs about reports: what               *)
(* MapThenSumSet of the community modules returns.                         *)
(***************************************************************************)
EXTENDS Naturals, FiniteSetsExt, FiniteSetTheorems, TLAPS

Total(f, S) == MapThenSumSet(LAMBDA x : f[x], S)

Some(s) == CHOOSE x \in s : TRUE

\* h holds the sums over all subsets of S.
Sums(f, S, h) ==
  h = [s \in SUBSET S |-> IF s = {} THEN 0 ELSE f[Some(s)] + h[s \ {Some(s)}]]

LEMMA SomeIs == \A s : s # {} => Some(s) \in s
  BY DEF Some

LEMMA TotalIs == \A f, S : Total(f, S) = (CHOOSE h : Sums(f, S, h))[S]
  BY DEF Total, Sums, Some, MapThenSumSet, MapThenFoldSet

\* Among the subsets of a finite set there is a smallest one.
LEMMA SmallestSet ==
  ASSUME NEW S, IsFiniteSet(S), NEW T, T \subseteq SUBSET S, T # {}
  PROVE  \E s \in T : \A t \in T : t \subseteq s => t = s
<1> DEFINE R == StrictSubsetOrdering(S)
<1>1. IsWellFoundedOn(R, FiniteSubsetsOf(S))
  BY FS_StrictSubsetOrderingWellFounded
<1>2. T \subseteq FiniteSubsetsOf(S)
  BY FS_Subset DEF FiniteSubsetsOf
<1> HIDE DEF R
<1>3. PICK s \in T : \A t \in T : ~(<<t, s>> \in R)
  BY <1>1, <1>2, WFMin
<1>4. QED
  BY <1>3 DEF R, StrictSubsetOrdering

\* Whatever set they were built for, such functions agree.
LEMMA SumsAgree ==
  ASSUME NEW f, NEW S, NEW U, U \subseteq S, IsFiniteSet(U), NEW g, NEW h,
         Sums(f, S, g), Sums(f, U, h)
  PROVE  \A s \in SUBSET U : g[s] = h[s]
<1> DEFINE Bad == {s \in SUBSET U : g[s] # h[s]}
<1>1. SUFFICES ASSUME Bad # {} PROVE FALSE
  OBVIOUS
<1>2. PICK s \in Bad : \A t \in Bad : t \subseteq s => t = s
  <2>1. Bad \subseteq SUBSET U
    OBVIOUS
  <2> HIDE DEF Bad
  <2>2. QED
    BY <1>1, <2>1, SmallestSet
<1>3. /\ g[s] = IF s = {} THEN 0 ELSE f[Some(s)] + g[s \ {Some(s)}]
      /\ h[s] = IF s = {} THEN 0 ELSE f[Some(s)] + h[s \ {Some(s)}]
  BY DEF Sums
<1>4. s # {} /\ g[s \ {Some(s)}] # h[s \ {Some(s)}]
  BY <1>3
<1>5. s \ {Some(s)} \in Bad /\ s \ {Some(s)} # s
  BY <1>4, SomeIs
<1>6. QED
  BY <1>2, <1>5

LEMMA SumsExist ==
  ASSUME NEW f, NEW S, IsFiniteSet(S)
  PROVE  \E h : Sums(f, S, h)
<1> DEFINE Bad == {s \in SUBSET S : ~\E h : Sums(f, s, h)}
<1>1. SUFFICES ASSUME Bad # {} PROVE FALSE
  OBVIOUS
<1>2. PICK s \in Bad : \A t \in Bad : t \subseteq s => t = s
  <2>1. Bad \subseteq SUBSET S
    OBVIOUS
  <2> HIDE DEF Bad
  <2>2. QED
    BY <1>1, <2>1, SmallestSet
<1> DEFINE H(t) == CHOOSE h : Sums(f, t, h)
           h == [t \in SUBSET s |->
                   IF t = {} THEN 0 ELSE f[Some(t)] + H(t \ {Some(t)})[t \ {Some(t)}]]
<1>3. ASSUME NEW t \in SUBSET s, t # s PROVE Sums(f, t, H(t))
  BY <1>2, <1>3
<1> HIDE DEF H
<1>4. ASSUME NEW t \in SUBSET s, t # s PROVE h[t] = H(t)[t]
  <2>1. H(t)[t] = IF t = {} THEN 0 ELSE f[Some(t)] + H(t)[t \ {Some(t)}]
    BY <1>3, <1>4 DEF Sums
  <2>2. CASE t = {}
    BY <2>1, <2>2
  <2>3. CASE t # {}
    <3> DEFINE u == t \ {Some(t)}
    <3>1. u \in SUBSET s /\ u # s /\ u \subseteq t /\ u \in SUBSET u
      BY <2>3, SomeIs
    <3>2. IsFiniteSet(u)
      BY <3>1, FS_Subset
    <3>3. Sums(f, t, H(t)) /\ Sums(f, u, H(u))
      BY <1>3, <1>4, <3>1
    <3> HIDE DEF u
    <3>4. H(t)[u] = H(u)[u]
      BY <3>1, <3>2, <3>3, SumsAgree
    <3>5. QED
      BY <2>1, <2>3, <3>4 DEF u
  <2>4. QED
    BY <2>2, <2>3
<1>5. Sums(f, s, h)
  <2>1. ASSUME NEW t \in SUBSET s, t # {}
        PROVE  h[t \ {Some(t)}] = H(t \ {Some(t)})[t \ {Some(t)}]
    BY <1>4, <2>1, SomeIs
  <2>2. h = [t \in SUBSET s |->
               IF t = {} THEN 0 ELSE f[Some(t)] + h[t \ {Some(t)}]]
    BY <2>1
  <2>3. QED
    BY <2>2 DEF Sums
<1>6. QED
  BY <1>2, <1>5

LEMMA TotalOfNothing == \A f : Total(f, {}) = 0
<1>1. ASSUME NEW f PROVE Total(f, {}) = 0
  <2>1. Sums(f, {}, CHOOSE h : Sums(f, {}, h))
    BY SumsExist, FS_EmptySet
  <2>2. QED
    BY <2>1, TotalIs DEF Sums
<1>2. QED
  BY <1>1

LEMMA TotalStep ==
  ASSUME NEW f, NEW S, IsFiniteSet(S), S # {}
  PROVE  Total(f, S) = f[Some(S)] + Total(f, S \ {Some(S)})
<1> DEFINE U == S \ {Some(S)}
<1>1. IsFiniteSet(U) /\ U \subseteq S
  BY FS_Subset
<1> HIDE DEF U
<1>2. PICK g : g = CHOOSE h : Sums(f, S, h)
  OBVIOUS
<1>3. PICK h : h = CHOOSE k : Sums(f, U, k)
  OBVIOUS
<1>4. Sums(f, S, g) /\ Sums(f, U, h)
  BY <1>1, <1>2, <1>3, SumsExist
<1>5. g[U] = h[U]
  BY <1>1, <1>4, SumsAgree
<1>6. g[S] = f[Some(S)] + g[U]
  BY <1>4 DEF Sums, U
<1>7. Total(f, S) = g[S] /\ Total(f, U) = h[U]
  BY <1>2, <1>3, TotalIs
<1>8. QED
  BY <1>5, <1>6, <1>7 DEF U

LEMMA TotalType ==
  ASSUME NEW f, NEW S, IsFiniteSet(S), \A x \in S : f[x] \in Int
  PROVE  Total(f, S) \in Int
<1> DEFINE Bad == {s \in SUBSET S : Total(f, s) \notin Int}
<1>1. SUFFICES ASSUME Bad # {} PROVE FALSE
  OBVIOUS
<1>2. PICK s \in Bad : \A t \in Bad : t \subseteq s => t = s
  <2>1. Bad \subseteq SUBSET S
    OBVIOUS
  <2> HIDE DEF Bad
  <2>2. QED
    BY <1>1, <2>1, SmallestSet
<1>3. s # {} /\ IsFiniteSet(s) /\ Total(f, s) \notin Int /\ \A x \in s : f[x] \in Int
  <2>1. Total(f, {}) \in Int
    BY TotalOfNothing
  <2>2. QED
    BY <2>1, FS_Subset
<1>4. Some(s) \in s /\ s \ {Some(s)} \subseteq s /\ s \ {Some(s)} # s
  BY <1>3, SomeIs
<1>5. Total(f, s \ {Some(s)}) \in Int
  BY <1>2, <1>4
<1>6. QED
  BY <1>3, <1>4, <1>5, TotalStep

\* Any element may be counted first.
LEMMA TotalWithout ==
  ASSUME NEW f, NEW S, IsFiniteSet(S), \A x \in S : f[x] \in Int, NEW x \in S
  PROVE  Total(f, S) = f[x] + Total(f, S \ {x})
<1> DEFINE Bad == {s \in SUBSET S : \E y \in s : Total(f, s) # f[y] + Total(f, s \ {y})}
<1>1. SUFFICES ASSUME Bad # {} PROVE FALSE
  OBVIOUS
<1>2. PICK s \in Bad : \A t \in Bad : t \subseteq s => t = s
  <2>1. Bad \subseteq SUBSET S
    OBVIOUS
  <2> HIDE DEF Bad
  <2>2. QED
    BY <1>1, <2>1, SmallestSet
<1>3. PICK y \in s : Total(f, s) # f[y] + Total(f, s \ {y})
  OBVIOUS
<1> DEFINE c == Some(s)
<1>4. IsFiniteSet(s) /\ c \in s /\ Total(f, s) = f[c] + Total(f, s \ {c}) /\ c # y
  BY <1>3, SomeIs, FS_Subset, TotalStep
<1> HIDE DEF c
<1>5. s \ {c} \notin Bad /\ s \ {y} \notin Bad
  BY <1>2, <1>3, <1>4
<1>6. /\ Total(f, s \ {c}) = f[y] + Total(f, (s \ {c}) \ {y})
      /\ Total(f, s \ {y}) = f[c] + Total(f, (s \ {y}) \ {c})
  BY <1>4, <1>5
<1>7. (s \ {c}) \ {y} = (s \ {y}) \ {c} /\ IsFiniteSet((s \ {y}) \ {c})
  BY <1>4, FS_Subset
<1>8. Total(f, (s \ {y}) \ {c}) \in Int /\ f[c] \in Int /\ f[y] \in Int
  BY <1>4, <1>7, TotalType
<1>9. PICK n \in Int, p \in Int, q \in Int :
        n = Total(f, (s \ {y}) \ {c}) /\ p = f[c] /\ q = f[y]
  BY <1>8
<1>10. Total(f, s) = p + (q + n) /\ Total(f, s) # q + (p + n)
  BY <1>3, <1>4, <1>6, <1>7, <1>9
<1>11. QED
  BY <1>10

\* Only the values on the set count.
LEMMA TotalSame ==
  ASSUME NEW f, NEW g, NEW S, \A x \in S : f[x] = g[x]
  PROVE  Total(f, S) = Total(g, S)
<1>1. ASSUME NEW h PROVE Sums(f, S, h) <=> Sums(g, S, h)
  <2>1. \A s \in SUBSET S : s # {} => f[Some(s)] = g[Some(s)]
    BY SomeIs
  <2>2. [s \in SUBSET S |-> IF s = {} THEN 0 ELSE f[Some(s)] + h[s \ {Some(s)}]]
          = [s \in SUBSET S |-> IF s = {} THEN 0 ELSE g[Some(s)] + h[s \ {Some(s)}]]
    BY <2>1
  <2>3. QED
    BY <2>2 DEF Sums
<1>2. (CHOOSE h : Sums(f, S, h)) = (CHOOSE h : Sums(g, S, h))
  BY <1>1, Zenon
<1>3. QED
  BY <1>2, TotalIs

-----------------------------------------------------------------------------
(* Sums by group *)

Groups(kind, S) == {kind[x] : x \in S}

OfGroup(kind, S, k) == {x \in S : kind[x] = k}

Subtotals(f, kind, S) == [k \in Groups(kind, S) |-> Total(f, OfGroup(kind, S, k))]

LEMMA GroupsAreFinite ==
  ASSUME NEW kind, NEW S, IsFiniteSet(S)
  PROVE  IsFiniteSet(Groups(kind, S))
<1> DEFINE g == [x \in S |-> kind[x]]
<1>1. g \in Surjection(S, Groups(kind, S))
  BY DEF Surjection, Groups
<1>2. QED
  BY <1>1, FS_Surjection

\* The subtotals of a set with one element more
LEMMA SubtotalsGrow ==
  ASSUME NEW f, NEW kind, NEW S, IsFiniteSet(S), \A x \in S : f[x] \in Int, NEW x \in S,
         NEW U, U = S \ {x},
         Total(f, U) = Total(Subtotals(f, kind, U), Groups(kind, U))
  PROVE  Total(f, S) = Total(Subtotals(f, kind, S), Groups(kind, S))
<1> DEFINE G == Groups(kind, S)
           H == Groups(kind, U)
           k == kind[x]
           s == Subtotals(f, kind, S)
           u == Subtotals(f, kind, U)
<1>1. /\ IsFiniteSet(U) /\ IsFiniteSet(G) /\ IsFiniteSet(H) /\ \A y \in U : f[y] \in Int
      /\ \A j : IsFiniteSet(OfGroup(kind, S, j)) /\ IsFiniteSet(OfGroup(kind, U, j))
  BY GroupsAreFinite, FS_Subset DEF OfGroup
<1>2. k \in G /\ H \subseteq G /\ G \ {k} = H \ {k}
  BY DEF Groups
<1>3. /\ \A j \in G : s[j] = Total(f, OfGroup(kind, S, j)) /\ s[j] \in Int
      /\ \A j \in H : u[j] = Total(f, OfGroup(kind, U, j)) /\ u[j] \in Int
  <2>1. \A j : /\ Total(f, OfGroup(kind, S, j)) \in Int
               /\ Total(f, OfGroup(kind, U, j)) \in Int
    BY <1>1, TotalType DEF OfGroup
  <2>2. QED
    BY <2>1 DEF Subtotals
<1>4. \A j \in G \ {k} : s[j] = u[j]
  <2>1. \A j \in G \ {k} : OfGroup(kind, S, j) = OfGroup(kind, U, j)
    BY DEF OfGroup
  <2>2. QED
    BY <1>2, <1>3, <2>1
<1>5. s[k] = f[x] + Total(f, OfGroup(kind, U, k))
  <2>1. /\ x \in OfGroup(kind, S, k) /\ OfGroup(kind, S, k) \ {x} = OfGroup(kind, U, k)
        /\ \A y \in OfGroup(kind, S, k) : f[y] \in Int
    BY DEF OfGroup
  <2>2. Total(f, OfGroup(kind, S, k)) = f[x] + Total(f, OfGroup(kind, S, k) \ {x})
    BY <1>1, <2>1, TotalWithout
  <2>3. QED
    BY <1>2, <1>3, <2>1, <2>2
<1>6. Total(s, G) = s[k] + Total(s, G \ {k}) /\ Total(f, S) = f[x] + Total(f, U)
  <2>1. Total(s, G) = s[k] + Total(s, G \ {k})
    BY <1>1, <1>2, <1>3, TotalWithout
  <2>2. Total(f, S) = f[x] + Total(f, U)
    BY <1>1, <1>2, TotalWithout
  <2>3. QED
    BY <2>1, <2>2
<1> HIDE DEF G, H, k, s, u
<1>7. Total(s, G \ {k}) = Total(u, H \ {k}) /\ Total(u, H \ {k}) \in Int
  <2>1. Total(s, G \ {k}) = Total(u, G \ {k})
    BY <1>4, TotalSame
  <2>2. IsFiniteSet(H \ {k}) /\ \A j \in H \ {k} : u[j] \in Int
    BY <1>1, <1>3, FS_Subset
  <2>3. Total(u, H \ {k}) \in Int
    BY <2>2, TotalType
  <2>4. QED
    BY <1>2, <2>1, <2>3
<1>8. Total(u, H) = Total(f, OfGroup(kind, U, k)) + Total(u, H \ {k})
  <2>1. CASE k \in H
    <3>1. Total(u, H) = u[k] + Total(u, H \ {k})
      BY <1>1, <1>3, <2>1, TotalWithout
    <3>2. QED
      BY <1>3, <2>1, <3>1
  <2>2. CASE k \notin H
    <3>1. OfGroup(kind, U, k) = {}
      BY <2>2 DEF OfGroup, H, Groups, k
    <3>2. H \ {k} = H /\ Total(f, OfGroup(kind, U, k)) = 0
      BY <2>2, <3>1, TotalOfNothing
    <3>3. QED
      BY <1>7, <3>2
  <2>3. QED
    BY <2>1, <2>2
<1>9. Total(f, OfGroup(kind, U, k)) \in Int /\ f[x] \in Int
  <2>1. \A y \in OfGroup(kind, U, k) : f[y] \in Int
    BY <1>1 DEF OfGroup
  <2>2. QED
    BY <1>1, <2>1, TotalType
<1>10. PICK a \in Int, b \in Int, c \in Int :
         a = f[x] /\ b = Total(f, OfGroup(kind, U, k)) /\ c = Total(u, H \ {k})
  BY <1>7, <1>9
<1>11. Total(f, S) = a + (b + c) /\ Total(s, G) = (a + b) + c
  BY <1>5, <1>6, <1>7, <1>8, <1>10 DEF H, u
<1>12. QED
  BY <1>11 DEF G, s

\* The subtotals of a set add up to its total.
LEMMA TotalByGroup ==
  ASSUME NEW f, NEW kind, NEW S, IsFiniteSet(S), \A x \in S : f[x] \in Int
  PROVE  Total(f, S) = Total(Subtotals(f, kind, S), Groups(kind, S))
<1> DEFINE Bad == {s \in SUBSET S :
                     Total(f, s) # Total(Subtotals(f, kind, s), Groups(kind, s))}
<1>1. SUFFICES ASSUME Bad # {} PROVE FALSE
  OBVIOUS
<1>2. PICK s \in Bad : \A t \in Bad : t \subseteq s => t = s
  <2>1. Bad \subseteq SUBSET S
    OBVIOUS
  <2> HIDE DEF Bad
  <2>2. QED
    BY <1>1, <2>1, SmallestSet
<1>3. s # {}
  <2>1. Groups(kind, {}) = {}
    BY DEF Groups
  <2>2. QED
    BY <2>1, TotalOfNothing
<1>4. PICK x \in s : TRUE
  BY <1>3
<1>5. s \ {x} \notin Bad /\ s \ {x} \in SUBSET S /\ s \in SUBSET S
  BY <1>2, <1>4
<1>6. IsFiniteSet(s) /\ \A y \in s : f[y] \in Int
  BY <1>5, FS_Subset
<1>7. Total(f, s \ {x}) = Total(Subtotals(f, kind, s \ {x}), Groups(kind, s \ {x}))
  BY <1>5
<1>8. Total(f, s) = Total(Subtotals(f, kind, s), Groups(kind, s))
  BY <1>6, <1>7, SubtotalsGrow
<1>9. QED
  BY <1>8

\* Elements of value zero may be left out.
LEMMA TotalWithoutZeros ==
  ASSUME NEW f, NEW S, IsFiniteSet(S), \A x \in S : f[x] \in Int,
         NEW U, U \subseteq S, \A x \in S \ U : f[x] = 0
  PROVE  Total(f, S) = Total(f, U)
<1> DEFINE Bad == {s \in SUBSET S : U \subseteq s /\ Total(f, s) # Total(f, U)}
<1>1. SUFFICES ASSUME Bad # {} PROVE FALSE
  OBVIOUS
<1>2. PICK s \in Bad : \A t \in Bad : t \subseteq s => t = s
  <2>1. Bad \subseteq SUBSET S
    OBVIOUS
  <2> HIDE DEF Bad
  <2>2. QED
    BY <1>1, <2>1, SmallestSet
<1>3. PICK x \in s \ U : TRUE
  OBVIOUS
<1>4. /\ IsFiniteSet(s) /\ \A y \in s : f[y] \in Int
      /\ f[x] = 0 /\ IsFiniteSet(s \ {x})
  BY FS_Subset
<1>5. Total(f, s) = 0 + Total(f, s \ {x}) /\ Total(f, s \ {x}) \in Int
  BY <1>3, <1>4, TotalWithout, TotalType
<1>6. s \ {x} \in Bad
  BY <1>3, <1>5
<1>7. QED
  BY <1>2, <1>3, <1>6

\* What is shared out among the elements of K is neither lost nor counted twice.
LEMMA TotalShared ==
  ASSUME NEW f, NEW S, IsFiniteSet(S), \A x \in S : f[x] \in Int,
         NEW K, IsFiniteSet(K), NEW kind, \A x \in S : kind[x] \in K,
         NEW g, \A k \in K : g[k] = Total(f, OfGroup(kind, S, k))
  PROVE  Total(g, K) = Total(f, S)
<1>1. Groups(kind, S) \subseteq K
  BY DEF Groups
<1>2. \A k \in K : IsFiniteSet(OfGroup(kind, S, k)) /\ g[k] \in Int
  <2>1. ASSUME NEW k \in K
        PROVE  IsFiniteSet(OfGroup(kind, S, k)) /\ \A x \in OfGroup(kind, S, k) : f[x] \in Int
    BY FS_Subset DEF OfGroup
  <2>2. QED
    BY <2>1, TotalType
<1>3. \A k \in K \ Groups(kind, S) : g[k] = 0
  <2>1. \A k \in K \ Groups(kind, S) : OfGroup(kind, S, k) = {}
    BY DEF OfGroup, Groups
  <2>2. QED
    BY <2>1, TotalOfNothing
<1>4. Total(g, K) = Total(g, Groups(kind, S))
  BY <1>1, <1>2, <1>3, TotalWithoutZeros
<1>5. Total(g, Groups(kind, S)) = Total(Subtotals(f, kind, S), Groups(kind, S))
  <2>1. \A k \in Groups(kind, S) : g[k] = Subtotals(f, kind, S)[k]
    BY <1>1 DEF Subtotals
  <2>2. QED
    BY <2>1, TotalSame
<1>6. QED
  BY <1>4, <1>5, TotalByGroup

\* Counting is adding ones.
LEMMA TotalOfOnes ==
  ASSUME NEW f, NEW S, IsFiniteSet(S), \A x \in S : f[x] = 1
  PROVE  Total(f, S) = Cardinality(S)
<1> DEFINE Bad == {s \in SUBSET S : Total(f, s) # Cardinality(s)}
<1>1. SUFFICES ASSUME Bad # {} PROVE FALSE
  OBVIOUS
<1>2. PICK s \in Bad : \A t \in Bad : t \subseteq s => t = s
  <2>1. Bad \subseteq SUBSET S
    OBVIOUS
  <2> HIDE DEF Bad
  <2>2. QED
    BY <1>1, <2>1, SmallestSet
<1>3. s # {}
  BY TotalOfNothing, FS_EmptySet
<1>4. PICK x \in s : TRUE
  BY <1>3
<1>5. /\ IsFiniteSet(s) /\ \A y \in s : f[y] \in Int
      /\ f[x] = 1 /\ IsFiniteSet(s \ {x})
  BY <1>4, FS_Subset
<1>6. Total(f, s) = 1 + Total(f, s \ {x})
  BY <1>4, <1>5, TotalWithout
<1>7. Cardinality(s \ {x}) = Cardinality(s) - 1 /\ Cardinality(s) \in Nat
  BY <1>4, <1>5, FS_RemoveElement, FS_CardinalityType
<1>8. s \ {x} \notin Bad
  BY <1>2, <1>4
<1>9. Total(f, s \ {x}) = Cardinality(s \ {x})
  BY <1>8
<1>10. QED
  BY <1>6, <1>7, <1>9

\* Two parts add up to the whole.
LEMMA TotalSplit ==
  ASSUME NEW f, NEW S, IsFiniteSet(S), \A x \in S : f[x] \in Int, NEW U, U \subseteq S
  PROVE  /\ Total(f, S) = Total(f, U) + Total(f, S \ U)
         /\ Total(f, U) \in Int /\ Total(f, S \ U) \in Int
<1> DEFINE kind == [x \in S |-> IF x \in U THEN 0 ELSE 1]
           g == [k \in {0, 1} |-> Total(f, OfGroup(kind, S, k))]
<1>1. IsFiniteSet({0, 1})
  <2>1. \A a, b \in Int : IsFiniteSet(a..b)
    BY FS_Interval
  <2>2. IsFiniteSet(0..1)
    <3>1. PICK a \in Int, b \in Int : a = 0 /\ b = 1
      OBVIOUS
    <3>2. IsFiniteSet(a..b)
      BY <2>1
    <3>3. QED
      BY <3>1, <3>2
  <2>3. {0, 1} = 0..1
    OBVIOUS
  <2>4. QED
    BY <2>2, <2>3
<1>2. Total(g, {0, 1}) = Total(f, S)
  <2>1. (\A x \in S : kind[x] \in {0, 1}) /\ \A k \in {0, 1} : g[k] = Total(f, OfGroup(kind, S, k))
    OBVIOUS
  <2> HIDE DEF kind, g
  <2>2. QED
    BY <1>1, <2>1, TotalShared
<1>3. OfGroup(kind, S, 0) = U /\ OfGroup(kind, S, 1) = S \ U
  BY DEF OfGroup
<1>4. Total(f, U) \in Int /\ Total(f, S \ U) \in Int
  <2>1. IsFiniteSet(U) /\ IsFiniteSet(S \ U)
    BY FS_Subset
  <2>2. QED
    BY <2>1, TotalType
<1>5. g[0] = Total(f, U) /\ g[1] = Total(f, S \ U)
  BY <1>3
<1> HIDE DEF g
<1>6. Total(g, {0, 1}) = g[0] + Total(g, {0, 1} \ {0})
  <2>1. \A k \in {0, 1} : g[k] \in Int
    BY <1>4, <1>5
  <2>2. QED
    BY <1>1, <2>1, TotalWithout
<1>7. Total(g, {1}) = g[1] + Total(g, {})
  <2>1. IsFiniteSet({1}) /\ (\A k \in {1} : g[k] \in Int) /\ 1 \in {1}
    BY <1>4, <1>5, FS_Singleton
  <2>2. Total(g, {1}) = g[1] + Total(g, {1} \ {1})
    BY <2>1, TotalWithout
  <2>3. QED
    BY <2>2
<1>8. {0, 1} \ {0} = {1} /\ Total(g, {}) = 0
  BY TotalOfNothing
<1>9. PICK a \in Int, b \in Int : a = Total(f, U) /\ b = Total(f, S \ U)
  BY <1>4
<1>10. Total(g, {1}) = b + 0
  BY <1>5, <1>7, <1>8, <1>9
<1>11. Total(f, S) = a + (b + 0)
  BY <1>2, <1>5, <1>6, <1>8, <1>9, <1>10
<1>12. QED
  BY <1>9, <1>11

\* The sum of a function's values
LEMMA SumIs == \A f : SumFunction(f) = Total(f, DOMAIN f)
  BY DEF SumFunction, SumFunctionOnSet, FoldFunctionOnSet, Total, MapThenSumSet

=============================================================================
