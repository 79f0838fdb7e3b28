------------------------------ MODULE SumProofs ------------------------------
(***************************************************************************)
(* Sums of amounts over finite sets.  SumFunctionOnSet takes an element    *)
(* out of the set, whichever it likes, and adds the rest; here is that the *)
(* choice does not matter, that an element more adds its amount, and that  *)
(* sums grow with their set and their amounts.  The library has an         *)
(* induction theorem for finite sets, over an operator the provers cannot  *)
(* instantiate; a smallest counterexample stands in for it.                *)
(***************************************************************************)
EXTENDS Functions, FiniteSetTheorems, TLAPS

\* The equation the table of partial sums below S satisfies.
Table(f, S, g) ==
    g = [s \in SUBSET S |->
             IF s = {} THEN 0
             ELSE LET x == CHOOSE x \in s : TRUE
                  IN  f[x] + g[s \ {x}]]

\* SumFunctionOnSet reads the top of a table.
LEMMA SumTable ==
    ASSUME NEW f, NEW S
    PROVE  SumFunctionOnSet(f, S) = (CHOOSE g : Table(f, S, g))[S]
BY DEF SumFunctionOnSet, FoldFunctionOnSet, MapThenFoldSet, Table

\* Of the subsets of a finite set that are wrong, one has no smaller one.
LEMMA Smallest ==
    ASSUME NEW S, IsFiniteSet(S), NEW Wrong \in SUBSET (SUBSET S), Wrong # {}
    PROVE  \E T \in Wrong : \A U \in SUBSET T : U # T => U \notin Wrong
<1>1. Wrong \subseteq FiniteSubsetsOf(S)
  BY FS_FiniteSubsetsOfFinite
<1>2. PICK T \in Wrong :
          \A U \in Wrong : ~ (<<U, T>> \in StrictSubsetOrdering(S))
  BY <1>1, FS_StrictSubsetOrderingWellFounded, WFMin
<1>3. ASSUME NEW U \in SUBSET T, U # T, U \in Wrong
      PROVE  FALSE
  <2>1. <<U, T>> \in (SUBSET S) \X (SUBSET S)
        /\ <<U, T>>[1] = U /\ <<U, T>>[2] = T
    BY <1>3
  <2>2. <<U, T>> \in StrictSubsetOrdering(S)
    BY <1>3, <2>1 DEF StrictSubsetOrdering
  <2>3. QED
    BY <1>2, <1>3, <2>2
<1>4. QED
  BY <1>3

\* Two tables agree where both are defined.
LEMMA TablesAgree ==
    ASSUME NEW f, NEW S, NEW T, NEW g, NEW h, Table(f, S, g), Table(f, T, h),
           NEW s \in SUBSET S, s \in SUBSET T, IsFiniteSet(s)
    PROVE  g[s] = h[s]
<1> DEFINE Wrong == {u \in SUBSET s : g[u] # h[u]}
<1>1. SUFFICES ASSUME Wrong # {}
               PROVE  FALSE
  OBVIOUS
<1>2. PICK u \in Wrong : \A v \in SUBSET u : v # u => v \notin Wrong
  <2>1. Wrong \in SUBSET (SUBSET s)
    OBVIOUS
  <2> HIDE DEF Wrong
  <2>2. QED
    BY <1>1, <2>1, Smallest
<1>3. u \in SUBSET S /\ u \in SUBSET T /\ g[u] # h[u]
  BY <1>2
<1>4. CASE u = {}
  <2>1. g[u] = 0 /\ h[u] = 0
    BY <1>3, <1>4 DEF Table
  <2>2. QED
    BY <1>3, <2>1
<1>5. CASE u # {}
  <2> DEFINE x == CHOOSE x \in u : TRUE
  <2>1. x \in u
    BY <1>5
  <2>2. g[u] = f[x] + g[u \ {x}]
    BY <1>3, <1>5 DEF Table
  <2>3. h[u] = f[x] + h[u \ {x}]
    BY <1>3, <1>5 DEF Table
  <2> HIDE DEF x
  <2>4. u \ {x} \in SUBSET u /\ u \ {x} # u /\ u \ {x} \in SUBSET s
    BY <2>1, <1>2
  <2>5. g[u \ {x}] = h[u \ {x}]
    BY <1>2, <2>4
  <2>6. QED
    BY <1>3, <2>2, <2>3, <2>5
<1>6. QED
  BY <1>4, <1>5

\* Below a finite set there is a table.
LEMMA TableExists ==
    ASSUME NEW f, NEW S, IsFiniteSet(S)
    PROVE  \E g : Table(f, S, g)
<1> DEFINE Wrong == {s \in SUBSET S : ~ \E g : Table(f, s, g)}
<1>1. SUFFICES ASSUME Wrong # {}
               PROVE  FALSE
  OBVIOUS
<1>2. PICK T \in Wrong : \A U \in SUBSET T : U # T => U \notin Wrong
  <2>1. Wrong \in SUBSET (SUBSET S)
    OBVIOUS
  <2> HIDE DEF Wrong
  <2>2. QED
    BY <1>1, <2>1, Smallest
<1>3. T \in SUBSET S /\ IsFiniteSet(T)
  BY <1>2, FS_Subset
<1>4. ASSUME NEW U \in SUBSET T, U # T
      PROVE  \E g : Table(f, U, g)
  BY <1>2, <1>3, <1>4
<1> DEFINE sum(s) == (CHOOSE g : Table(f, s, g))[s]
           top(s) == CHOOSE x \in s : TRUE
           h == [s \in SUBSET T |-> IF s = {} THEN 0
                                    ELSE f[top(s)] + sum(s \ {top(s)})]
<1>5. ASSUME NEW s \in SUBSET T, s # {}
      PROVE  h[s] = f[top(s)] + h[s \ {top(s)}]
  <2> DEFINE x == top(s)
             u == s \ {x}
  <2>1. x \in s
    BY <1>5
  <2>2. h[s] = f[x] + sum(u)
    BY <1>5
  <2>3. u \in SUBSET T /\ u # T /\ IsFiniteSet(u)
    BY <1>3, <1>5, <2>1, FS_Subset
  <2>4. sum(u) = h[u]
    <3> DEFINE g == CHOOSE g : Table(f, u, g)
    <3>1. Table(f, u, g)
      BY <1>4, <2>3
    <3> HIDE DEF g
    <3>2. CASE u = {}
      <4>1. g[u] = 0 /\ h[u] = 0
        BY <2>3, <3>1, <3>2 DEF Table
      <4>2. QED
        BY <4>1 DEF g
    <3>3. CASE u # {}
      <4> DEFINE y == top(u)
                 v == u \ {y}
      <4>1. y \in u
        BY <3>3
      <4>2. g[u] = f[y] + g[v]
        BY <3>1, <3>3 DEF Table
      <4>3. h[u] = f[y] + sum(v)
        BY <2>3, <3>3
      <4>4. v \in SUBSET T /\ v # T /\ v \in SUBSET u /\ IsFiniteSet(v)
        BY <2>3, <4>1, FS_Subset
      <4>5. sum(v) = g[v]
        <5> DEFINE k == CHOOSE k : Table(f, v, k)
        <5>1. Table(f, v, k)
          BY <1>4, <4>4
        <5>2. v \in SUBSET v
          OBVIOUS
        <5> HIDE DEF k, v, y, u
        <5>3. k[v] = g[v]
          BY <3>1, <4>4, <5>1, <5>2, TablesAgree
        <5>4. QED
          BY <5>3 DEF k
      <4> HIDE DEF v, y
      <4>6. QED
        BY <4>2, <4>3, <4>5 DEF g
    <3>4. QED
      BY <3>2, <3>3
  <2>5. QED
    BY <2>2, <2>4
<1>6. Table(f, T, h)
  <2> DEFINE k == [s \in SUBSET T |->
                       IF s = {} THEN 0
                       ELSE LET x == CHOOSE x \in s : TRUE
                            IN  f[x] + h[s \ {x}]]
  <2>1. ASSUME NEW s \in SUBSET T
        PROVE  h[s] = k[s]
    <3>1. CASE s = {}
      BY <3>1
    <3>2. CASE s # {}
      <4>1. k[s] = f[top(s)] + h[s \ {top(s)}]
        BY <3>2
      <4>2. h[s] = f[top(s)] + h[s \ {top(s)}]
        BY <1>5, <3>2
      <4>3. QED
        BY <4>1, <4>2, Zenon
    <3>3. QED
      BY <3>1, <3>2
  <2>2. h = k
    BY <2>1
  <2>3. QED
    BY <2>2 DEF Table
<1>7. QED
  BY <1>2, <1>6

\* The sum over no elements is zero; the sum over others is the amount of the
\* one taken out and the sum over the rest.
LEMMA SumStep ==
    ASSUME NEW f, NEW S, IsFiniteSet(S)
    PROVE  /\ SumFunctionOnSet(f, {}) = 0
           /\ S # {} => LET x == CHOOSE x \in S : TRUE
                        IN  SumFunctionOnSet(f, S) =
                                f[x] + SumFunctionOnSet(f, S \ {x})
<1>1. ASSUME NEW T, IsFiniteSet(T)
      PROVE  \E g : Table(f, T, g) /\ SumFunctionOnSet(f, T) = g[T]
  <2> DEFINE g == CHOOSE g : Table(f, T, g)
  <2>1. Table(f, T, g)
    BY <1>1, TableExists
  <2>2. QED
    BY <2>1, SumTable
<1>2. SumFunctionOnSet(f, {}) = 0
  <2>1. PICK g : Table(f, {}, g) /\ SumFunctionOnSet(f, {}) = g[{}]
    BY <1>1, FS_EmptySet
  <2>2. QED
    BY <2>1 DEF Table
<1>3. ASSUME S # {}
      PROVE  LET x == CHOOSE x \in S : TRUE
             IN  SumFunctionOnSet(f, S) = f[x] + SumFunctionOnSet(f, S \ {x})
  <2> DEFINE x == CHOOSE x \in S : TRUE
             T == S \ {x}
  <2>1. T \in SUBSET S /\ IsFiniteSet(T)
    BY FS_Subset
  <2>2. PICK g : Table(f, S, g) /\ SumFunctionOnSet(f, S) = g[S]
    BY <1>1
  <2>3. PICK h : Table(f, T, h) /\ SumFunctionOnSet(f, T) = h[T]
    BY <1>1, <2>1
  <2>4. g[S] = f[x] + g[T]
    BY <1>3, <2>2 DEF Table
  <2>5. g[T] = h[T]
    <3> HIDE DEF T
    <3>1. T \in SUBSET T
      OBVIOUS
    <3>2. QED
      BY <2>1, <2>2, <2>3, <3>1, TablesAgree
  <2>6. QED
    BY <2>2, <2>3, <2>4, <2>5
<1>4. QED
  BY <1>2, <1>3

\* A sum of naturals is one.
LEMMA SumType ==
    ASSUME NEW f, NEW S, IsFiniteSet(S), \A x \in S : f[x] \in Nat
    PROVE  SumFunctionOnSet(f, S) \in Nat
<1> DEFINE Wrong == {s \in SUBSET S : SumFunctionOnSet(f, s) \notin Nat}
<1>1. SUFFICES ASSUME Wrong # {}
               PROVE  FALSE
  OBVIOUS
<1>2. PICK T \in Wrong : \A U \in SUBSET T : U # T => U \notin Wrong
  <2>1. Wrong \in SUBSET (SUBSET S)
    OBVIOUS
  <2> HIDE DEF Wrong
  <2>2. QED
    BY <1>1, <2>1, Smallest
<1>3. T \in SUBSET S /\ IsFiniteSet(T) /\ SumFunctionOnSet(f, T) \notin Nat
  BY <1>2, FS_Subset
<1>4. T # {}
  <2>1. SumFunctionOnSet(f, {}) = 0
    BY <1>3, SumStep
  <2>2. QED
    BY <1>3, <2>1
<1> DEFINE x == CHOOSE x \in T : TRUE
<1>5. x \in T
  BY <1>4
<1>6. SumFunctionOnSet(f, T) = f[x] + SumFunctionOnSet(f, T \ {x})
  BY <1>3, <1>4, SumStep
<1> HIDE DEF x
<1>7. SumFunctionOnSet(f, T \ {x}) \in Nat
  BY <1>2, <1>3, <1>5
<1>8. QED
  BY <1>3, <1>5, <1>6, <1>7

\* One element more adds its amount, whichever it is.
LEMMA SumAdd ==
    ASSUME NEW f, NEW S, IsFiniteSet(S), \A x \in S : f[x] \in Nat,
           NEW T \in SUBSET S, NEW x \in S \ T
    PROVE  SumFunctionOnSet(f, T \cup {x}) = f[x] + SumFunctionOnSet(f, T)
<1> DEFINE Sum(s) == SumFunctionOnSet(f, s)
           Wrong == {s \in SUBSET S :
                         \E y \in S \ s : Sum(s \cup {y}) # f[y] + Sum(s)}
<1>1. SUFFICES ASSUME Wrong # {}
               PROVE  FALSE
  OBVIOUS
<1>2. PICK s \in Wrong : \A u \in SUBSET s : u # s => u \notin Wrong
  <2>1. Wrong \in SUBSET (SUBSET S)
    OBVIOUS
  <2> HIDE DEF Wrong
  <2>2. QED
    BY <1>1, <2>1, Smallest
<1>3. PICK y \in S \ s : Sum(s \cup {y}) # f[y] + Sum(s)
  BY <1>2
<1>4. s \in SUBSET S /\ IsFiniteSet(s)
  BY <1>2, FS_Subset
<1> DEFINE U == s \cup {y}
           z == CHOOSE z \in U : TRUE
<1>5. U \in SUBSET S /\ IsFiniteSet(U) /\ U # {} /\ z \in U
  BY <1>3, <1>4, FS_Subset
<1>6. Sum(U) = f[z] + Sum(U \ {z})
  BY <1>5, SumStep
<1> HIDE DEF z
<1>7. CASE z = y
  <2>1. U \ {z} = s
    BY <1>3, <1>7
  <2>2. QED
    BY <1>3, <1>6, <1>7, <2>1
<1>8. CASE z # y
  <2> DEFINE r == s \ {z}
  <2>1. z \in s
    BY <1>5, <1>8
  <2>2. U \ {z} = r \cup {y} /\ s = r \cup {z}
    BY <1>8, <2>1
  <2>3. r \in SUBSET s /\ r # s /\ r \in SUBSET S /\ IsFiniteSet(r)
    BY <1>4, <2>1, FS_Subset
  <2>4. y \in S \ r /\ z \in S \ r
    BY <1>3, <1>4, <2>1
  <2>5. r \notin Wrong
    <3> HIDE DEF r, Wrong
    <3>1. QED
      BY <1>2, <2>3
  <2>6. Sum(r \cup {y}) = f[y] + Sum(r) /\ Sum(r \cup {z}) = f[z] + Sum(r)
    BY <2>3, <2>4, <2>5
  <2>7. Sum(r) \in Nat /\ f[y] \in Nat /\ f[z] \in Nat
    BY <2>3, <2>4, SumType
  <2> HIDE DEF r
  <2>8. Sum(U) = f[z] + (f[y] + Sum(r)) /\ Sum(s) = f[z] + Sum(r)
    BY <1>6, <2>2, <2>6
  <2> HIDE DEF Sum
  <2>9. QED
    BY <1>3, <2>7, <2>8
<1>9. QED
  BY <1>7, <1>8

\* Sums grow with the amounts.
LEMMA SumPointwise ==
    ASSUME NEW f, NEW g, NEW S, IsFiniteSet(S),
           \A x \in S : f[x] \in Nat /\ g[x] \in Nat /\ f[x] <= g[x]
    PROVE  SumFunctionOnSet(f, S) <= SumFunctionOnSet(g, S)
<1> DEFINE Wrong == {s \in SUBSET S : ~ SumFunctionOnSet(f, s)
                                            <= SumFunctionOnSet(g, s)}
<1>1. SUFFICES ASSUME Wrong # {}
               PROVE  FALSE
  OBVIOUS
<1>2. PICK T \in Wrong : \A U \in SUBSET T : U # T => U \notin Wrong
  <2>1. Wrong \in SUBSET (SUBSET S)
    OBVIOUS
  <2> HIDE DEF Wrong
  <2>2. QED
    BY <1>1, <2>1, Smallest
<1>3. /\ T \in SUBSET S /\ IsFiniteSet(T)
      /\ ~ SumFunctionOnSet(f, T) <= SumFunctionOnSet(g, T)
  BY <1>2, FS_Subset
<1>4. T # {}
  <2>1. SumFunctionOnSet(f, {}) = 0 /\ SumFunctionOnSet(g, {}) = 0
    BY SumStep
  <2>2. QED
    BY <1>3, <2>1
<1> DEFINE x == CHOOSE x \in T : TRUE
<1>5. x \in T
  BY <1>4
<1>6. /\ SumFunctionOnSet(f, T) = f[x] + SumFunctionOnSet(f, T \ {x})
      /\ SumFunctionOnSet(g, T) = g[x] + SumFunctionOnSet(g, T \ {x})
  BY <1>3, <1>4, SumStep
<1> HIDE DEF x
<1>7. /\ T \ {x} \in SUBSET T /\ T \ {x} # T
      /\ T \ {x} \in SUBSET S /\ IsFiniteSet(T \ {x})
  BY <1>3, <1>5, FS_Subset
<1>8. SumFunctionOnSet(f, T \ {x}) <= SumFunctionOnSet(g, T \ {x})
  BY <1>2, <1>7
<1>9. /\ SumFunctionOnSet(f, T \ {x}) \in Nat
      /\ SumFunctionOnSet(g, T \ {x}) \in Nat
  <2>1. \A y \in T \ {x} : f[y] \in Nat /\ g[y] \in Nat
    BY <1>7
  <2>2. QED
    BY <1>7, <2>1, SumType
<1>10. f[x] \in Nat /\ g[x] \in Nat /\ f[x] <= g[x]
  BY <1>3, <1>5
<1>11. QED
  BY <1>3, <1>6, <1>8, <1>9, <1>10

\* Equal amounts have equal sums.
LEMMA SumSame ==
    ASSUME NEW f, NEW g, NEW S, IsFiniteSet(S),
           \A x \in S : f[x] \in Nat /\ f[x] = g[x]
    PROVE  SumFunctionOnSet(f, S) = SumFunctionOnSet(g, S)
<1>1. /\ SumFunctionOnSet(f, S) <= SumFunctionOnSet(g, S)
      /\ SumFunctionOnSet(g, S) <= SumFunctionOnSet(f, S)
  BY SumPointwise
<1>2. \A x \in S : f[x] \in Nat /\ g[x] \in Nat
  OBVIOUS
<1>3. SumFunctionOnSet(f, S) \in Nat /\ SumFunctionOnSet(g, S) \in Nat
  BY <1>2, SumType
<1>4. QED
  BY <1>1, <1>3

\* Sums grow with the set.
LEMMA SumSubset ==
    ASSUME NEW f, NEW S, IsFiniteSet(S), \A x \in S : f[x] \in Nat,
           NEW T \in SUBSET S
    PROVE  SumFunctionOnSet(f, T) <= SumFunctionOnSet(f, S)
<1> DEFINE Wrong == {s \in SUBSET S : T \subseteq s
                         /\ ~ SumFunctionOnSet(f, T) <= SumFunctionOnSet(f, s)}
<1>1. SUFFICES ASSUME Wrong # {}
               PROVE  FALSE
  OBVIOUS
<1>2. PICK s \in Wrong : \A u \in SUBSET s : u # s => u \notin Wrong
  <2>1. Wrong \in SUBSET (SUBSET S)
    OBVIOUS
  <2> HIDE DEF Wrong
  <2>2. QED
    BY <1>1, <2>1, Smallest
<1>3. /\ s \in SUBSET S /\ T \subseteq s
      /\ ~ SumFunctionOnSet(f, T) <= SumFunctionOnSet(f, s)
  BY <1>2
<1>4. SumFunctionOnSet(f, T) \in Nat
  <2>1. IsFiniteSet(T) /\ \A x \in T : f[x] \in Nat
    BY FS_Subset
  <2>2. QED
    BY <2>1, SumType
<1>5. PICK x \in s : x \notin T
  BY <1>3, <1>4
<1> DEFINE u == s \ {x}
<1>6. /\ u \in SUBSET s /\ u # s /\ u \in SUBSET S /\ T \subseteq u
      /\ x \in S \ u /\ s = u \cup {x} /\ IsFiniteSet(u)
  BY <1>3, <1>5, FS_Subset
<1>7. SumFunctionOnSet(f, u) \in Nat
  <2>1. \A y \in u : f[y] \in Nat
    BY <1>6
  <2>2. QED
    BY <1>6, <2>1, SumType
<1> HIDE DEF u
<1>8. SumFunctionOnSet(f, s) = f[x] + SumFunctionOnSet(f, u)
  BY <1>6, SumAdd
<1>9. SumFunctionOnSet(f, T) <= SumFunctionOnSet(f, u)
  BY <1>2, <1>6
<1>10. f[x] \in Nat
  BY <1>6
<1>11. QED
  BY <1>3, <1>4, <1>7, <1>8, <1>9, <1>10

\* An amount that grows makes the sum grow by as much.
LEMMA SumRaise ==
    ASSUME NEW f, NEW g, NEW S, IsFiniteSet(S), NEW n \in S, NEW more \in Nat,
           \A x \in S : f[x] \in Nat, \A x \in S \ {n} : g[x] = f[x],
           g[n] = f[n] + more
    PROVE  SumFunctionOnSet(g, S) = SumFunctionOnSet(f, S) + more
<1> DEFINE rest == S \ {n}
<1>1. /\ rest \in SUBSET S /\ IsFiniteSet(rest) /\ n \in S \ rest
      /\ S = rest \cup {n}
  BY FS_Subset
<1>2. \A x \in S : g[x] \in Nat
  OBVIOUS
<1>3. SumFunctionOnSet(f, S) = f[n] + SumFunctionOnSet(f, rest)
  <2> HIDE DEF rest
  <2>1. QED
    BY <1>1, SumAdd
<1>4. SumFunctionOnSet(g, S) = g[n] + SumFunctionOnSet(g, rest)
  <2> HIDE DEF rest
  <2>1. QED
    BY <1>1, <1>2, SumAdd
<1>5. /\ SumFunctionOnSet(f, rest) = SumFunctionOnSet(g, rest)
      /\ SumFunctionOnSet(f, rest) \in Nat
  BY <1>1, SumSame, SumType
<1>6. QED
  BY <1>3, <1>4, <1>5

\* Nothing adds up to nothing.
LEMMA SumOfZeros ==
    ASSUME NEW f, NEW S, IsFiniteSet(S), \A x \in S : f[x] = 0
    PROVE  SumFunctionOnSet(f, S) = 0
<1> DEFINE Wrong == {s \in SUBSET S : SumFunctionOnSet(f, s) # 0}
<1>1. SUFFICES ASSUME Wrong # {}
               PROVE  FALSE
  OBVIOUS
<1>2. PICK T \in Wrong : \A U \in SUBSET T : U # T => U \notin Wrong
  <2>1. Wrong \in SUBSET (SUBSET S)
    OBVIOUS
  <2> HIDE DEF Wrong
  <2>2. QED
    BY <1>1, <2>1, Smallest
<1>3. T \in SUBSET S /\ IsFiniteSet(T) /\ SumFunctionOnSet(f, T) # 0
  BY <1>2, FS_Subset
<1>4. T # {}
  BY <1>3, SumStep
<1> DEFINE x == CHOOSE x \in T : TRUE
<1>5. x \in T
  BY <1>4
<1>6. SumFunctionOnSet(f, T) = f[x] + SumFunctionOnSet(f, T \ {x})
  BY <1>3, <1>4, SumStep
<1> HIDE DEF x
<1>7. SumFunctionOnSet(f, T \ {x}) = 0
  BY <1>2, <1>3, <1>5
<1>8. QED
  BY <1>3, <1>5, <1>6, <1>7
=============================================================================
