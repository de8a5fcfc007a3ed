------------------------------ MODULE DataProofs ------------------------------
(***************************************************************************)
(* What the proofs need to know of the data, whatever the component.        *)
(*                                                                          *)
(* Sums: the sum of a function over a finite set is the sum over the set    *)
(* without one of its elements, whichever it is, and that element's value.  *)
(* SumFunctionOnSet is a recursive function on the subsets of the set,      *)
(* which takes out the element that CHOOSE happens to name.  The induction  *)
(* is on subsets: of those that refute a claim, take one with no smaller    *)
(* one among them (SmallestSubset).                                         *)
(*                                                                          *)
(* Queues: what Without leaves of a queue is what it should leave.          *)
(***************************************************************************)
EXTENDS Queues, Functions, FiniteSetTheorems, WellFoundedInduction, TLAPS

\* The recursion of SumFunctionOnSet with its parts named.
First(s) == CHOOSE x \in s : TRUE
Rest(s) == s \ {First(s)}
SumStep(f, it, s) == IF s = {} THEN 0 ELSE f[First(s)] + it[Rest(s)]
Sums(f, S) == CHOOSE it : it = [s \in SUBSET S |-> SumStep(f, it, s)]

-----------------------------------------------------------------------------
(* Induction on finite sets and on numbers                                  *)

\* CHOOSE names an element of a set that has one.
LEMMA FirstIn == ASSUME NEW s, s # {} PROVE First(s) \in s
BY DEF First

\* Among subsets of a finite set there is one that none of the others is part of.
LEMMA SmallestSubset ==
    ASSUME NEW S, IsFiniteSet(S), NEW T \in SUBSET SUBSET S, T # {}
    PROVE  \E s \in T : \A r \in T : r \subseteq s => r = s
<1>1. T \subseteq FiniteSubsetsOf(S)
  BY FS_Subset DEF FiniteSubsetsOf
<1>2. IsWellFoundedOn(StrictSubsetOrdering(S), FiniteSubsetsOf(S))
  BY FS_StrictSubsetOrderingWellFounded
<1>3. \E x \in T : \A y \in T : ~ (<<y, x>> \in StrictSubsetOrdering(S))
  BY <1>1, <1>2, WFMin
<1> QED BY <1>3 DEF StrictSubsetOrdering

\* A set of numbers has a least element.
LEMMA LeastNat ==
    ASSUME NEW T \in SUBSET Nat, NEW t \in T
    PROVE  \E n \in T : \A m \in T : n <= m
<1> DEFINE F == {0 .. m : m \in {k \in T : k <= t}}
<1>1. IsFiniteSet(0 .. t)
  BY FS_Interval
<1>2. F \in SUBSET SUBSET (0 .. t) /\ F # {}
  OBVIOUS
<1>3. PICK s \in F : \A r \in F : r \subseteq s => r = s
  <2> DEFINE D == 0 .. t
  <2>1. IsFiniteSet(D) /\ F \in SUBSET SUBSET D /\ F # {}
    BY <1>1, <1>2
  <2> HIDE DEF F, D
  <2> QED BY <2>1, SmallestSubset
<1>4. PICK n \in T : n <= t /\ s = 0 .. n
  BY <1>3
<1>5. ASSUME NEW m \in T, m < n PROVE FALSE
  <2>1. 0 .. m \in F  BY <1>4, <1>5
  <2>2. 0 .. m \subseteq s  BY <1>4, <1>5
  <2>3. n \in s /\ n \notin 0 .. m  BY <1>4, <1>5
  <2> QED BY <2>1, <2>2, <2>3, <1>3
<1> QED BY <1>4, <1>5

-----------------------------------------------------------------------------
(* The recursion                                                            *)

\* SumFunctionOnSet is what the definitions above spell out.
LEMMA Unfold == ASSUME NEW f, NEW S PROVE SumFunctionOnSet(f, S) = Sums(f, S)[S]
BY DEF SumFunctionOnSet, FoldFunctionOnSet, MapThenFoldSet, Sums, First, Rest, SumStep

\* There is such a function: one that obeys the recursion on the sets of up to n
\* elements gives one that obeys it on the sets of n + 1.
LEMMA SumsExist ==
    ASSUME NEW f, NEW S, IsFiniteSet(S)
    PROVE  \E it : it = [s \in SUBSET S |-> SumStep(f, it, s)]
<1> DEFINE Upto(n, it) == /\ it = [s \in SUBSET S |-> it[s]]
                          /\ \A s \in SUBSET S : Cardinality(s) <= n => it[s] = SumStep(f, it, s)
           Bad == {n \in Nat : ~ \E it : Upto(n, it)}
<1>0. \A s \in SUBSET S : IsFiniteSet(s) /\ Cardinality(s) \in Nat
  BY FS_Subset, FS_CardinalityType
<1>1. \A s \in SUBSET S : s # {} => /\ Rest(s) \in SUBSET S
                                    /\ Cardinality(Rest(s)) = Cardinality(s) - 1
  BY <1>0, FirstIn, FS_RemoveElement DEF Rest
<1>2. Upto(0, [s \in SUBSET S |-> 0])
  <2>1. \A s \in SUBSET S : Cardinality(s) <= 0 => s = {}
    BY <1>0, FS_EmptySet
  <2> QED BY <2>1 DEF SumStep
<1>3. ASSUME NEW n \in Nat, NEW it, Upto(n, it)
      PROVE  Upto(n + 1, [s \in SUBSET S |-> SumStep(f, it, s)])
  <2> DEFINE next == [s \in SUBSET S |-> SumStep(f, it, s)]
  <2>1. SUFFICES ASSUME NEW s \in SUBSET S, Cardinality(s) <= n + 1
                 PROVE  next[s] = SumStep(f, next, s)
    OBVIOUS
  <2>2. CASE s = {}
    BY <2>2 DEF SumStep
  <2>3. CASE s # {}
    <3>1. Rest(s) \in SUBSET S /\ Cardinality(Rest(s)) <= n
      BY <1>0, <1>1, <2>1, <2>3
    <3>2. next[Rest(s)] = it[Rest(s)]
      BY <3>1, <1>3
    <3> QED BY <3>2, <2>3 DEF SumStep
  <2> QED BY <2>2, <2>3
<1>4. Bad = {}
  <2> SUFFICES ASSUME NEW t \in Bad PROVE FALSE
    OBVIOUS
  <2>1. PICK n \in Bad : \A m \in Bad : n <= m
    BY LeastNat
  <2>2. n # 0
    BY <1>2, <2>1
  <2>3. n - 1 \in Nat /\ n - 1 \notin Bad
    <3>1. n \in Nat  OBVIOUS
    <3> HIDE DEF Bad
    <3> QED BY <3>1, <2>1, <2>2
  <2>4. PICK it : Upto(n - 1, it)
    BY <2>3
  <2>5. Upto(n - 1 + 1, [s \in SUBSET S |-> SumStep(f, it, s)])
    <3> HIDE DEF Upto
    <3> QED BY <2>3, <2>4, <1>3
  <2>6. n - 1 + 1 = n
    BY <2>3
  <2>7. Upto(n, [s \in SUBSET S |-> SumStep(f, it, s)])
    BY <2>5, <2>6
  <2> QED BY <2>7, <2>1
<1>5. PICK it : Upto(Cardinality(S), it)
  BY <1>0, <1>4
<1>6. \A s \in SUBSET S : it[s] = SumStep(f, it, s)
  BY <1>5, FS_Subset
<1> QED BY <1>5, <1>6

\* So the function chosen obeys the recursion.
LEMMA SumsStep ==
    ASSUME NEW f, NEW S, IsFiniteSet(S), NEW s \in SUBSET S
    PROVE  Sums(f, S)[s] = IF s = {} THEN 0 ELSE f[First(s)] + Sums(f, S)[Rest(s)]
<1>1. Sums(f, S) = [r \in SUBSET S |-> SumStep(f, Sums(f, S), r)]
  BY SumsExist DEF Sums
<1>2. Sums(f, S)[s] = SumStep(f, Sums(f, S), s)
  BY <1>1
<1> QED BY <1>2 DEF SumStep

\* The sum over a part does not depend on the whole.
LEMMA SumsOfPart ==
    ASSUME NEW f, NEW S, IsFiniteSet(S), NEW T \in SUBSET S
    PROVE  Sums(f, S)[T] = Sums(f, T)[T]
<1> DEFINE Bad == {s \in SUBSET T : Sums(f, S)[s] # Sums(f, T)[s]}
<1>1. IsFiniteSet(T)  BY FS_Subset
<1>2. SUFFICES ASSUME Bad # {} PROVE FALSE
  OBVIOUS
<1>3. PICK s \in Bad : \A r \in Bad : r \subseteq s => r = s
  <2>1. Bad \in SUBSET SUBSET T  OBVIOUS
  <2> HIDE DEF Bad
  <2> QED BY <2>1, <1>1, <1>2, SmallestSubset
<1>4. /\ Sums(f, S)[s] = IF s = {} THEN 0 ELSE f[First(s)] + Sums(f, S)[Rest(s)]
      /\ Sums(f, T)[s] = IF s = {} THEN 0 ELSE f[First(s)] + Sums(f, T)[Rest(s)]
  BY <1>1, SumsStep
<1>5. CASE s = {}
  BY <1>4, <1>5
<1>6. CASE s # {}
  <2>1. Rest(s) \in SUBSET T /\ Rest(s) \subseteq s /\ Rest(s) # s
    BY <1>6, FirstIn DEF Rest
  <2>2. Rest(s) \notin Bad
    BY <2>1, <1>3
  <2> QED BY <2>1, <2>2, <1>4, <1>6
<1> QED BY <1>5, <1>6

-----------------------------------------------------------------------------
(* Sums                                                                     *)

\* Nothing adds up to nothing.
LEMMA SumEmpty == ASSUME NEW f PROVE SumFunctionOnSet(f, {}) = 0
BY Unfold, SumsStep, FS_EmptySet

\* The recursion, said of the sum itself.
LEMMA SumFirst ==
    ASSUME NEW f, NEW S, IsFiniteSet(S), S # {}
    PROVE  SumFunctionOnSet(f, S) = f[First(S)] + SumFunctionOnSet(f, Rest(S))
<1>1. Sums(f, S)[S] = f[First(S)] + Sums(f, S)[Rest(S)]
  BY SumsStep
<1>2. Sums(f, S)[Rest(S)] = Sums(f, Rest(S))[Rest(S)]
  BY SumsOfPart DEF Rest
<1> QED BY <1>1, <1>2, Unfold

\* What is left without the first element is a smaller set.
LEMMA RestIsLess ==
    ASSUME NEW S, IsFiniteSet(S), NEW s \in SUBSET S, s # {}
    PROVE  /\ Rest(s) \in SUBSET S /\ Rest(s) \subseteq s /\ Rest(s) # s
           /\ IsFiniteSet(s) /\ First(s) \in s
BY FirstIn, FS_Subset DEF Rest

\* A sum of integers is an integer ...
LEMMA SumType ==
    ASSUME NEW f, NEW S, IsFiniteSet(S), \A x \in S : f[x] \in Int
    PROVE  SumFunctionOnSet(f, S) \in Int
<1> DEFINE Bad == {s \in SUBSET S : SumFunctionOnSet(f, s) \notin Int}
<1>2. SUFFICES ASSUME Bad # {} PROVE FALSE
  OBVIOUS
<1>3. PICK s \in Bad : \A r \in Bad : r \subseteq s => r = s
  <2>1. Bad \in SUBSET SUBSET S  OBVIOUS
  <2> HIDE DEF Bad
  <2> QED BY <2>1, <1>2, SmallestSubset
<1>4. s # {}
  BY SumEmpty
<1>5. SumFunctionOnSet(f, Rest(s)) \in Int
  BY <1>3, <1>4, RestIsLess
<1>6. f[First(s)] \in Int
  BY <1>4, RestIsLess
<1> QED BY <1>4, <1>5, <1>6, SumFirst, RestIsLess

\* ... and one of natural numbers a natural number.
LEMMA SumNat ==
    ASSUME NEW f, NEW S, IsFiniteSet(S), \A x \in S : f[x] \in Nat
    PROVE  SumFunctionOnSet(f, S) \in Nat
<1> DEFINE Bad == {s \in SUBSET S : SumFunctionOnSet(f, s) \notin Nat}
<1>2. SUFFICES ASSUME Bad # {} PROVE FALSE
  OBVIOUS
<1>3. PICK s \in Bad : \A r \in Bad : r \subseteq s => r = s
  <2>1. Bad \in SUBSET SUBSET S  OBVIOUS
  <2> HIDE DEF Bad
  <2> QED BY <2>1, <1>2, SmallestSubset
<1>4. s # {}
  BY SumEmpty
<1>5. SumFunctionOnSet(f, Rest(s)) \in Nat
  BY <1>3, <1>4, RestIsLess
<1>6. f[First(s)] \in Nat
  BY <1>4, RestIsLess
<1> QED BY <1>4, <1>5, <1>6, SumFirst, RestIsLess

\* Functions that agree on a set have the same sum over it.
LEMMA SumSame ==
    ASSUME NEW f, NEW g, NEW S, IsFiniteSet(S), \A x \in S : f[x] = g[x]
    PROVE  SumFunctionOnSet(f, S) = SumFunctionOnSet(g, S)
<1> DEFINE Bad == {s \in SUBSET S : SumFunctionOnSet(f, s) # SumFunctionOnSet(g, s)}
<1>2. SUFFICES ASSUME Bad # {} PROVE FALSE
  OBVIOUS
<1>3. PICK s \in Bad : \A r \in Bad : r \subseteq s => r = s
  <2>1. Bad \in SUBSET SUBSET S  OBVIOUS
  <2> HIDE DEF Bad
  <2> QED BY <2>1, <1>2, SmallestSubset
<1>4. s # {}
  BY SumEmpty
<1>5. SumFunctionOnSet(f, Rest(s)) = SumFunctionOnSet(g, Rest(s))
  BY <1>3, <1>4, RestIsLess
<1>6. f[First(s)] = g[First(s)]
  BY <1>4, RestIsLess
<1>7. /\ SumFunctionOnSet(f, s) = f[First(s)] + SumFunctionOnSet(f, Rest(s))
      /\ SumFunctionOnSet(g, s) = g[First(s)] + SumFunctionOnSet(g, Rest(s))
  BY <1>4, RestIsLess, SumFirst
<1> QED BY <1>5, <1>6, <1>7

\* Any element may be taken out first.
THEOREM SumRemove ==
    ASSUME NEW f, NEW S, IsFiniteSet(S), \A y \in S : f[y] \in Int, NEW z \in S
    PROVE  SumFunctionOnSet(f, S) = f[z] + SumFunctionOnSet(f, S \ {z})
<1> DEFINE Bad == {s \in SUBSET S : \E x \in s : SumFunctionOnSet(f, s) # f[x] + SumFunctionOnSet(f, s \ {x})}
<1>2. SUFFICES ASSUME Bad # {} PROVE FALSE
  OBVIOUS
<1>3. PICK s \in Bad : \A r \in Bad : r \subseteq s => r = s
  <2>1. Bad \in SUBSET SUBSET S  OBVIOUS
  <2> HIDE DEF Bad
  <2> QED BY <2>1, <1>2, SmallestSubset
<1>4. PICK x \in s : SumFunctionOnSet(f, s) # f[x] + SumFunctionOnSet(f, s \ {x})
  OBVIOUS
<1> DEFINE p == First(s)
<1>5. /\ s \in SUBSET S /\ p \in s /\ Rest(s) = s \ {p} /\ IsFiniteSet(s)
      /\ f[p] \in Int /\ f[x] \in Int
  BY RestIsLess DEF Rest
<1>6. SumFunctionOnSet(f, s) = f[p] + SumFunctionOnSet(f, s \ {p})
  BY <1>5, SumFirst
<1>7. p # x
  BY <1>4, <1>6
<1>8. \A r \in SUBSET s : r # s => \A y \in r : SumFunctionOnSet(f, r) = f[y] + SumFunctionOnSet(f, r \ {y})
  BY <1>3
<1>9. SumFunctionOnSet(f, s \ {p}) = f[x] + SumFunctionOnSet(f, (s \ {p}) \ {x})
  BY <1>5, <1>7, <1>8
<1>10. SumFunctionOnSet(f, s \ {x}) = f[p] + SumFunctionOnSet(f, (s \ {p}) \ {x})
  <2>1. (s \ {x}) \ {p} = (s \ {p}) \ {x}
    OBVIOUS
  <2>2. SumFunctionOnSet(f, s \ {x}) = f[p] + SumFunctionOnSet(f, (s \ {x}) \ {p})
    BY <1>5, <1>7, <1>8
  <2> QED BY <2>1, <2>2
<1>11. SumFunctionOnSet(f, s \ {x}) \in Int /\ SumFunctionOnSet(f, s \ {p}) \in Int
  BY <1>5, SumType, FS_Subset
<1>12. SumFunctionOnSet(f, (s \ {p}) \ {x}) \in Int
  BY <1>5, SumType, FS_Subset
<1> HIDE DEF p
<1> QED BY <1>4, <1>5, <1>6, <1>9, <1>10, <1>12

\* An element more adds its value.
THEOREM SumAdd ==
    ASSUME NEW f, NEW S, IsFiniteSet(S), NEW z, z \notin S, f[z] \in Int,
           \A y \in S : f[y] \in Int
    PROVE  SumFunctionOnSet(f, S \cup {z}) = f[z] + SumFunctionOnSet(f, S)
<1>1. IsFiniteSet(S \cup {z}) /\ (S \cup {z}) \ {z} = S
  BY FS_AddElement
<1> QED BY <1>1, SumRemove

\* When the value of one element changes, the sum changes by as much.
THEOREM SumChange ==
    ASSUME NEW f, NEW g, NEW S, IsFiniteSet(S), NEW z \in S,
           \A y \in S : f[y] \in Int /\ g[y] \in Int,
           \A y \in S \ {z} : f[y] = g[y]
    PROVE  SumFunctionOnSet(g, S) = SumFunctionOnSet(f, S) - f[z] + g[z]
<1>1. IsFiniteSet(S \ {z})
  BY FS_RemoveElement
<1>2. SumFunctionOnSet(f, S \ {z}) = SumFunctionOnSet(g, S \ {z})
  BY <1>1, SumSame
<1>3. SumFunctionOnSet(f, S) = f[z] + SumFunctionOnSet(f, S \ {z})
  BY SumRemove
<1>4. SumFunctionOnSet(g, S) = g[z] + SumFunctionOnSet(g, S \ {z})
  BY SumRemove
<1>5. SumFunctionOnSet(f, S \ {z}) \in Int
  BY <1>1, SumType
<1> QED BY <1>2, <1>3, <1>4, <1>5


-----------------------------------------------------------------------------
(* Queues                                                                   *)

\* How many numbers of S are up to i.
Place(i, S) == Cardinality({j \in S : j <= i})

\* Different numbers have different places.
LEMMA PlacesDiffer ==
    ASSUME NEW S \in SUBSET Nat, IsFiniteSet(S), NEW i \in S, NEW j \in S, i < j
    PROVE  Place(i, S) # Place(j, S)
<1> DEFINE I == {k \in S : k <= i}
           J == {k \in S : k <= j}
<1>1. I \in SUBSET J /\ j \in J /\ j \notin I /\ J \in SUBSET S
  <2>1. \A k \in S : k \in Nat
    OBVIOUS
  <2>2. j <= j /\ ~ (j <= i) /\ \A k \in S : k <= i => k <= j
    BY <2>1
  <2> QED BY <2>2
<1>2. IsFiniteSet(J)
  BY <1>1, FS_Subset
<1>3. Cardinality(J) # Cardinality(I)
  <2> HIDE DEF I, J
  <2> QED BY <1>1, <1>2, FS_Subset
<1> QED BY <1>3 DEF Place

\* In a finite set of numbers there is one at each place.
LEMMA PlacesFilled ==
    ASSUME NEW S \in SUBSET Nat, IsFiniteSet(S)
    PROVE  /\ Cardinality(S) \in Nat
           /\ \A i \in S : Place(i, S) \in 1 .. Cardinality(S)
           /\ \A n \in 1 .. Cardinality(S) : \E i \in S : Place(i, S) = n
<1> DEFINE upto(i) == {j \in S : j <= i}
           m == Cardinality(S)
<1>1. m \in Nat
  BY FS_CardinalityType
<1>2. ASSUME NEW i \in S
      PROVE  IsFiniteSet(upto(i)) /\ Place(i, S) \in 1 .. m
  <2>1. upto(i) \in SUBSET S /\ i \in upto(i)
    OBVIOUS
  <2>2. IsFiniteSet(upto(i)) /\ Cardinality(upto(i)) <= m
    BY <2>1, FS_Subset
  <2>3. Cardinality(upto(i)) \in Nat /\ Cardinality(upto(i)) # 0
    BY <2>1, <2>2, FS_CardinalityType, FS_EmptySet
  <2>4. Place(i, S) = Cardinality(upto(i))
    BY DEF Place
  <2> HIDE DEF upto, m
  <2> QED BY <1>1, <2>2, <2>3, <2>4
<1> DEFINE f == [i \in S |-> Place(i, S)]
<1>3. f \in Injection(S, 1 .. m)
  <2>1. \A i, j \in S : Place(i, S) = Place(j, S) => i = j
    <3> SUFFICES ASSUME NEW i \in S, NEW j \in S, i # j PROVE Place(i, S) # Place(j, S)
      OBVIOUS
    <3>1. i < j \/ j < i
      OBVIOUS
    <3> QED BY <3>1, PlacesDiffer
  <2> HIDE DEF m
  <2> QED BY <1>2, <2>1 DEF Injection, IsInjective
<1>4. f \in Surjection(S, 1 .. m)
  <2>1. IsFiniteSet(1 .. m) /\ Cardinality(1 .. m) = m
    <3> HIDE DEF m
    <3>1. IsFiniteSet(1 .. m) /\ Cardinality(1 .. m) = IF 1 > m THEN 0 ELSE m - 1 + 1
      BY <1>1, FS_Interval
    <3> QED BY <1>1, <3>1
  <2> HIDE DEF f
  <2> QED BY <2>1, <1>3, FS_Injection
<1> QED BY <1>1, <1>2, <1>4 DEF Surjection

\* What is left of a queue is a queue, of all its members but those taken out.
LEMMA WithoutLeaves ==
    ASSUME NEW X, NEW q \in Seq(X), NEW done
    PROVE  /\ Without(q, done) \in Seq(X)
           /\ \A x : (\E n \in 1 .. Len(Without(q, done)) : Without(q, done)[n] = x)
                        <=> x \notin done /\ \E i \in 1 .. Len(q) : q[i] = x
<1> DEFINE S == {i \in DOMAIN q : q[i] \notin done}
           m == Cardinality(S)
           at(n) == CHOOSE i \in S : Place(i, S) = n
           w == [n \in 1 .. m |-> q[at(n)]]
<1>1. Without(q, done) = w
  BY DEF Without, Place
<1>2. S \in SUBSET Nat /\ IsFiniteSet(S) /\ S \in SUBSET (1 .. Len(q)) /\ DOMAIN q = 1 .. Len(q)
  <2>1. S \in SUBSET (1 .. Len(q)) /\ Len(q) \in Nat /\ DOMAIN q = 1 .. Len(q)
    OBVIOUS
  <2>2. IsFiniteSet(1 .. Len(q))
    BY <2>1, FS_Interval
  <2> HIDE DEF S
  <2>3. IsFiniteSet(S)
    BY <2>1, <2>2, FS_Subset
  <2> QED BY <2>1, <2>3
<1>3. /\ m \in Nat
      /\ \A i \in S : Place(i, S) \in 1 .. m
      /\ \A n \in 1 .. m : \E i \in S : Place(i, S) = n
  <2> HIDE DEF S
  <2> QED BY <1>2, PlacesFilled
<1>4. \A i, j \in S : Place(i, S) = Place(j, S) => i = j
  <2> SUFFICES ASSUME NEW i \in S, NEW j \in S, i # j PROVE Place(i, S) # Place(j, S)
    OBVIOUS
  <2> HIDE DEF S
  <2>1. \A k, l \in S : k < l => Place(k, S) # Place(l, S)
    BY <1>2, PlacesDiffer
  <2>2. i < j \/ j < i
    BY <1>2
  <2> QED BY <2>1, <2>2
<1>5. \A n \in 1 .. m : at(n) \in S /\ Place(at(n), S) = n
  BY <1>3
<1>6. \A i \in S : at(Place(i, S)) = i
  <2> SUFFICES ASSUME NEW i \in S PROVE at(Place(i, S)) = i
    OBVIOUS
  <2>1. Place(i, S) \in 1 .. m
    BY <1>3
  <2>2. at(Place(i, S)) \in S /\ Place(at(Place(i, S)), S) = Place(i, S)
    BY <2>1, <1>5
  <2> HIDE DEF at, S, m
  <2> QED BY <1>4, <2>2
<1> HIDE DEF at
<1>7. \A i \in S : q[i] \in X /\ q[i] \notin done /\ i \in 1 .. Len(q)
  BY <1>2
<1>8. \A i \in 1 .. Len(q) : q[i] \notin done => i \in S
  BY <1>2
<1> HIDE DEF S, m
<1>9. w \in Seq(X) /\ Len(w) = m
  BY <1>3, <1>5, <1>7
<1>10. \A x : (\E n \in 1 .. m : w[n] = x) <=> x \notin done /\ \E i \in 1 .. Len(q) : q[i] = x
  <2>1. ASSUME NEW n \in 1 .. m
        PROVE  w[n] \notin done /\ \E i \in 1 .. Len(q) : q[i] = w[n]
    BY <1>5, <1>7
  <2>2. ASSUME NEW i \in 1 .. Len(q), q[i] \notin done
        PROVE  \E n \in 1 .. m : w[n] = q[i]
    <3>1. i \in S
      BY <1>8, <2>2
    <3>2. Place(i, S) \in 1 .. m /\ w[Place(i, S)] = q[i]
      BY <1>3, <1>6, <3>1
    <3> QED BY <3>2
  <2> HIDE DEF w
  <2> QED BY <2>1, <2>2
<1> HIDE DEF w
<1> QED BY <1>1, <1>9, <1>10
-----------------------------------------------------------------------------
(* Counting                                                                 *)

\* Two parts of a finite set that tell at most one element apart: the counts differ by
\* one at most, and by which way it is told apart.
LEMMA CountsOfNeighbours ==
    ASSUME NEW X, IsFiniteSet(X), NEW S \in SUBSET X, NEW T \in SUBSET X, NEW k \in X,
           \A l \in X \ {k} : l \in S <=> l \in T
    PROVE  /\ Cardinality(S) \in Nat /\ Cardinality(T) \in Nat
           /\ Cardinality(T) <= Cardinality(S) + 1
           /\ (k \in T => k \in S) => Cardinality(T) <= Cardinality(S)
           /\ k \in S /\ k \notin T => Cardinality(T) = Cardinality(S) - 1
<1> DEFINE R == S \ {k}
<1>1. IsFiniteSet(S) /\ IsFiniteSet(T) /\ IsFiniteSet(R) /\ k \notin R
  BY FS_Subset
<1>2. /\ S = IF k \in S THEN R \cup {k} ELSE R
      /\ T = IF k \in T THEN R \cup {k} ELSE R
  OBVIOUS
<1>3. Cardinality(R) \in Nat /\ Cardinality(R \cup {k}) = Cardinality(R) + 1
  BY <1>1, FS_CardinalityType, FS_AddElement
<1> HIDE DEF R
<1>4. /\ Cardinality(S) = IF k \in S THEN Cardinality(R) + 1 ELSE Cardinality(R)
      /\ Cardinality(T) = IF k \in T THEN Cardinality(R) + 1 ELSE Cardinality(R)
  BY <1>2, <1>3
<1> QED BY <1>3, <1>4
=============================================================================
