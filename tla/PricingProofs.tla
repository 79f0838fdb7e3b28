---------------------------- MODULE PricingProofs ----------------------------
(***************************************************************************)
(* What Estimate finds in a table is the longest pattern that matches,     *)
(* whatever order the map was ranged over: the map only decides between    *)
(* patterns of one length, and no model falls under two of them.           *)
(***************************************************************************)
EXTENDS Pricing, FiniteSetTheorems, TLAPS

\* A table holds patterns under the numbers up to as many as there are.
LEMMA TableType ==
    ASSUME NEW table \in Tables
    PROVE  /\ DOMAIN table = 1..Cardinality(Patterns)
           /\ table \in [1..Cardinality(Patterns) -> Patterns]
           /\ Sorted(table)
BY DEF Tables, SetToSeqs

\* A table holds every pattern: without one it would have to repeat another.
LEMMA TableComplete ==
    ASSUME NEW table \in Tables, NEW p \in Patterns
    PROVE  \E i \in DOMAIN table : table[i] = p
<1> DEFINE n == Cardinality(Patterns)
<1>1. n \in Nat
      BY FiniteAssumption, FS_CardinalityType
<1>2. \A i, j \in 1..n : i # j => table[i] # table[j]
      BY DEF Tables, SetToSeqs
<1>3. IsFiniteSet(1..n) /\ Cardinality(1..n) = n
      BY <1>1, FS_Interval
<1>4. IsFiniteSet(Patterns \ {p}) /\ Cardinality(Patterns \ {p}) = n - 1
      BY FiniteAssumption, FS_RemoveElement
<1>5. CASE \A i \in 1..n : table[i] # p
  <2>1. table \in [1..n -> Patterns \ {p}]
        BY <1>5, TableType
  <2>2. \E i, j \in 1..n : i # j /\ table[i] = table[j]
    <3> HIDE DEF n
    <3> QED BY <1>1, <1>3, <1>4, <2>1, FS_PigeonHole
  <2> QED BY <1>2, <2>2
<1>6. CASE \E i \in 1..n : table[i] = p
      BY <1>6, TableType
<1> QED BY <1>5, <1>6

\* First is the least of the positions it is given.
LEMMA FirstIsLeast ==
    ASSUME NEW hits \in SUBSET Nat, hits # {}
    PROVE  First(hits) \in hits /\ \A j \in hits : First(hits) <= j
<1>1. PICK i \in hits : \A j \in hits : <<j, i>> \notin OpToRel(<, Nat)
      BY NatLessThanWellFounded, WFMin
<1>2. \A j \in hits : /\ <<j, i>> \in Nat \X Nat
                       /\ <<j, i>>[1] = j /\ <<j, i>>[2] = i
      OBVIOUS
<1>3. \A j \in hits : ~(j < i)
      BY <1>1, <1>2, Zenon DEF OpToRel
<1>4. \A j \in hits : i <= j
      BY <1>3
<1> QED BY <1>4 DEF First

\* The first pattern of a sorted table that matches is as long as any other.
LEMMA FirstIsLongest ==
    ASSUME NEW table \in Tables, NEW model, NEW p \in Patterns,
           model \in Matches[p]
    PROVE  LET first == First(Hits(table, model))
           IN  /\ Hits(table, model) # {}
               /\ table[first] \in Patterns
               /\ model \in Matches[table[first]]
               /\ ~Longer(p, table[first])
<1> DEFINE hits  == Hits(table, model)
           first == First(hits)
<1>1. PICK i \in DOMAIN table : table[i] = p
      BY TableComplete
<1>2. hits \in SUBSET Nat /\ i \in hits
  <2>1. Cardinality(Patterns) \in Nat
        BY FiniteAssumption, FS_CardinalityType
  <2> QED BY <1>1, <2>1, TableType DEF Hits
<1>3. first \in hits /\ first <= i
      BY <1>2, FirstIsLeast
<1>4. first \in DOMAIN table /\ model \in Matches[table[first]]
      BY <1>3 DEF Hits
<1>5. ~Longer(p, table[first])
  <2>1. CASE first = i
        BY <1>1, <2>1, PricingAssumption DEF Longer
  <2>2. CASE first # i
        BY <1>1, <1>2, <1>3, <1>4, <2>2, TableType DEF Sorted
  <2> QED BY <2>1, <2>2
<1> QED BY <1>2, <1>4, <1>5, TableType

\* "This keeps matching deterministic regardless of map iteration order"
\* (pricing.go:91-99): in every table NewEstimator may build, a model has the
\* price of the longest pattern that matches it, or the fallback.
THEOREM PriceIsFair ==
    ASSUME NEW table \in Tables, NEW model \in Models
    PROVE  PriceOf(table, model) = FairPrice(model)
<1> DEFINE under == {p \in Patterns : model \in Matches[p]}
           first == First(Hits(table, model))
<1>1. CASE under = {}
  <2>1. Hits(table, model) = {}
        BY <1>1, TableType DEF Hits
  <2> QED BY <1>1, <2>1 DEF PriceOf, FairPrice
<1>2. CASE under # {}
  <2>1. /\ Hits(table, model) # {}
        /\ table[first] \in under
        /\ \A q \in under : ~Longer(q, table[first])
        BY <1>2, FirstIsLongest
  <2> DEFINE best == CHOOSE p \in under : \A q \in under : ~Longer(q, p)
  <2>2. best \in under /\ \A q \in under : ~Longer(q, best)
        BY <2>1
  <2>3. Length[best] = Length[table[first]]
        BY <2>1, <2>2, PricingAssumption DEF Longer
  <2>4. best = table[first]
        BY <2>1, <2>2, <2>3, PricingAssumption DEF TieFree
  <2> QED BY <1>2, <2>1, <2>4 DEF PriceOf, FairPrice
<1> QED BY <1>1, <1>2

\* Two processes estimate the same cost for the same usage, whatever order
\* their tables came out in (pricing.go:64-72, 101-112).
THEOREM EstimatesAgree ==
    ASSUME NEW t1 \in Tables, NEW t2 \in Tables, NEW model \in Models,
           NEW input \in Nat, NEW output \in Nat
    PROVE  Estimate(t1, model, input, output) = Estimate(t2, model, input, output)
BY PriceIsFair DEF Estimate
=============================================================================
