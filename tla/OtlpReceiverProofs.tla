-------------------------- MODULE OtlpReceiverProofs --------------------------
(* What the handlers of concurrent requests do to the ledgers, the stores and *)
(* the sums over all requests, for every value of the constants.              *)
EXTENDS OtlpReceiver, PricingProofs, SumProofs

-----------------------------------------------------------------------------
(* Types of what a charge is made of.                                       *)

\* Every model has a price, the same in all tables.
LEMMA PriceType ==
    ASSUME NEW t \in Tables, NEW model \in Models
    PROVE  PriceOf(t, model) \in ModelPrice /\ FairPrice(model) \in ModelPrice
<1>1. CASE Hits(t, model) = {}
  BY <1>1, PriceIsFair, PricingAssumption DEF PriceOf
<1>2. CASE Hits(t, model) # {}
  <2>1. Cardinality(Patterns) \in Nat
    BY FiniteAssumption, FS_CardinalityType
  <2>2. Hits(t, model) \in SUBSET Nat
    BY <2>1, TableType DEF Hits
  <2>3. First(Hits(t, model)) \in DOMAIN t
    BY <1>2, <2>2, FirstIsLeast DEF Hits
  <2>4. t[First(Hits(t, model))] \in Patterns
    BY <2>3, TableType
  <2>5. QED
    BY <1>2, <2>4, PriceIsFair, PricingAssumption DEF PriceOf
<1>3. QED
  BY <1>1, <1>2

\* The cost of usage is an amount.
LEMMA CostType ==
    ASSUME NEW price \in ModelPrice, NEW input \in Nat, NEW output \in Nat
    PROVE  Cost(price, input, output) \in Nat
<1>1. /\ input * price.input \in Nat
      /\ output * price.output \in Nat
  BY DEF ModelPrice
<1>2. QED
  BY <1>1 DEF Cost

\* Usage that is not there costs nothing.
LEMMA CostOfNothing ==
    ASSUME NEW price \in ModelPrice
    PROVE  Cost(price, 0, 0) = 0
<1>1. 0 * price.input = 0 /\ 0 * price.output = 0
  BY DEF ModelPrice
<1>2. QED
  BY <1>1 DEF Cost

\* attrInt64 never fails.
LEMMA TokensType ==
    ASSUME NEW usage \in Nat \cup {Unset}
    PROVE  Tokens(usage) \in Nat
BY DEF Tokens

\* What a span costs is an amount, the same from every table.
LEMMA ChargeType ==
    ASSUME NEW t \in Tables, NEW span \in Span
    PROVE  LET cost == Estimate(t, span.model,
                                Tokens(span.input), Tokens(span.output))
           IN  /\ cost \in Nat
               /\ cost = Cost(FairPrice(span.model),
                              Tokens(span.input), Tokens(span.output))
<1>1. /\ span.model \in Models
      /\ span.input \in Nat \cup {Unset}
      /\ span.output \in Nat \cup {Unset}
  BY DEF Span
<1>2. Tokens(span.input) \in Nat /\ Tokens(span.output) \in Nat
  BY <1>1, TokensType
<1>3. PriceOf(t, span.model) = FairPrice(span.model)
  BY <1>1, PriceIsFair
<1>4. PriceOf(t, span.model) \in ModelPrice
  BY <1>1, PriceType
<1>5. QED
  BY <1>2, <1>3, <1>4, CostType DEF Estimate

-----------------------------------------------------------------------------
(* Types of what the ledger makes of an entry.                              *)

\* A ledger holds no other states than these.
LEMMA VerdictType ==
    ASSUME NEW max \in Nat, NEW soft \in 0 .. 99, NEW spent \in Nat
    PROVE  /\ Ledgers!ComputeState(max, soft, spent) \in Ledgers!QuotaStates
           /\ Ledgers!ComputeState(max, soft, spent) # "Suspended"
           /\ Ledgers!ComputeState(max, soft, spent) = "Exceeded" <=>
                  max > 0 /\ spent >= max
<1>1. max > 0 <=> max # 0
  OBVIOUS
<1>2. QED
  BY <1>1 DEF Ledgers!ComputeState, Ledgers!QuotaStates, Ledgers!Denying

\* A charge adds its cost, one run, and a verdict; nothing else changes.
LEMMA ChargedFields ==
    ASSUME NEW entry \in Ledgers!Entry, NEW usd \in Nat
    PROVE  LET new == Ledgers!Charged(entry, usd)
           IN  /\ new \in Ledgers!Entry
               /\ new # Absent
               /\ new.max = entry.max
               /\ new.spent = entry.spent + usd
               /\ new.runs = entry.runs + 1
               /\ new.state # "Suspended"
               /\ new.state = "Exceeded" <=>
                      entry.max > 0 /\ entry.spent + usd >= entry.max
<1> DEFINE spent == entry.spent + usd
           state == Ledgers!ComputeState(entry.max, entry.soft, spent)
           new == Ledgers!Charged(entry, usd)
<1>1. /\ entry.max \in Nat /\ entry.soft \in 0 .. 99
      /\ entry.spent \in Nat /\ entry.runs \in Nat
      /\ entry.renewal \in Nat \cup {Unset}
      /\ entry = [max |-> entry.max, soft |-> entry.soft,
                  spent |-> entry.spent, runs |-> entry.runs,
                  state |-> entry.state, renewal |-> entry.renewal]
  BY DEF Ledgers!Entry
<1>2. spent \in Nat /\ entry.runs + 1 \in Nat
  BY <1>1
<1>3. new = [entry EXCEPT !.spent = spent, !.runs = entry.runs + 1,
                          !.state = state]
  BY DEF Ledgers!Charged, Ledgers!Accounted
<1>4. /\ state \in Ledgers!QuotaStates /\ state # "Suspended"
      /\ state = "Exceeded" <=> entry.max > 0 /\ spent >= entry.max
  BY <1>1, <1>2, VerdictType
<1> HIDE DEF state
<1>5. new = [max |-> entry.max, soft |-> entry.soft, spent |-> spent,
             runs |-> entry.runs + 1, state |-> state,
             renewal |-> entry.renewal]
  BY <1>1, <1>3
<1> HIDE DEF new
<1>6. new \in Ledgers!Entry
  BY <1>1, <1>2, <1>4, <1>5 DEF Ledgers!Entry
<1>7. QED
  BY <1>4, <1>5, <1>6, EntryAssumption DEF new

-----------------------------------------------------------------------------
(* Sums over requests of what each has handled so far.                      *)

\* weight[b][k]: what the spans of batch b before the k-th come to.
Weights == [Batches -> [Nat \ {0} -> Nat]]

\* The sum over the requests with the numbers S in the sequence xs.
Weighed(weight, xs, S) ==
    SumFunctionOnSet([n \in DOMAIN xs |-> weight[xs[n].batch][xs[n].next]], S)

\* The requests are finitely many, and their fields have their types.
LEMMA RequestFields ==
    ASSUME NEW xs \in Seq(Request)
    PROVE  /\ IsFiniteSet(DOMAIN xs)
           /\ DOMAIN xs = 1 .. Len(xs) /\ Len(xs) \in Nat
           /\ \A n \in DOMAIN xs :
                  /\ xs[n] \in Request
                  /\ xs[n].batch \in Batches
                  /\ xs[n].next \in Nat \ {0}
                  /\ xs[n].at \in Replicas \cup {Absent}
                  /\ xs[n].intact \in BOOLEAN
<1>1. Len(xs) \in Nat /\ DOMAIN xs = 1 .. Len(xs)
  OBVIOUS
<1>2. IsFiniteSet(1 .. Len(xs))
  BY <1>1, FS_Interval
<1>3. \A n \in DOMAIN xs : xs[n] \in Request
  OBVIOUS
<1>4. \A x \in Request :
          /\ x.batch \in Batches /\ x.next \in Nat \ {0}
          /\ x.at \in Replicas \cup {Absent} /\ x.intact \in BOOLEAN
  BY DEF Request
<1>5. QED
  BY <1>1, <1>2, <1>3, <1>4

\* A sum is a natural number.
LEMMA WeighedType ==
    ASSUME NEW weight \in Weights, NEW xs \in Seq(Request),
           NEW S \in SUBSET DOMAIN xs
    PROVE  /\ IsFiniteSet(S)
           /\ Weighed(weight, xs, S) \in Nat
<1> DEFINE f == [n \in DOMAIN xs |-> weight[xs[n].batch][xs[n].next]]
<1>1. IsFiniteSet(S)
  BY RequestFields, FS_Subset
<1>2. \A n \in S : f[n] \in Nat
  BY RequestFields DEF Weights
<1> HIDE DEF f
<1>3. SumFunctionOnSet(f, S) \in Nat
  BY <1>1, <1>2, SumType
<1>4. QED
  BY <1>1, <1>3 DEF f, Weighed

\* A sum moves only with the batches and the progress of its requests.
LEMMA WeighedSame ==
    ASSUME NEW weight \in Weights, NEW xs \in Seq(Request),
           NEW ys \in Seq(Request), NEW S \in SUBSET DOMAIN xs,
           \A n \in S : /\ n \in DOMAIN ys
                        /\ ys[n].batch = xs[n].batch
                        /\ ys[n].next = xs[n].next
    PROVE  Weighed(weight, ys, S) = Weighed(weight, xs, S)
<1> DEFINE f == [n \in DOMAIN xs |-> weight[xs[n].batch][xs[n].next]]
           g == [n \in DOMAIN ys |-> weight[ys[n].batch][ys[n].next]]
<1>1. IsFiniteSet(S)
  BY WeighedType
<1>2. \A n \in S : f[n] \in Nat /\ f[n] = g[n]
  BY RequestFields DEF Weights
<1> HIDE DEF f, g
<1>3. SumFunctionOnSet(f, S) = SumFunctionOnSet(g, S)
  BY <1>1, <1>2, SumSame
<1>4. QED
  BY <1>3 DEF f, g, Weighed

\* More requests weigh no less.
LEMMA WeighedSubset ==
    ASSUME NEW weight \in Weights, NEW xs \in Seq(Request),
           NEW S \in SUBSET DOMAIN xs, NEW T \in SUBSET S
    PROVE  Weighed(weight, xs, T) <= Weighed(weight, xs, S)
<1> DEFINE f == [n \in DOMAIN xs |-> weight[xs[n].batch][xs[n].next]]
<1>1. IsFiniteSet(S)
  BY WeighedType
<1>2. \A n \in S : f[n] \in Nat
  BY RequestFields DEF Weights
<1> HIDE DEF f
<1>3. SumFunctionOnSet(f, T) <= SumFunctionOnSet(f, S)
  BY <1>1, <1>2, SumSubset
<1>4. QED
  BY <1>3 DEF f, Weighed

\* A request that is accepted has not weighed in yet.
LEMMA WeighedExport ==
    ASSUME NEW weight \in Weights, NEW xs \in Seq(Request), NEW x \in Request,
           weight[x.batch][x.next] = 0, NEW S \in SUBSET DOMAIN xs
    PROVE  LET ys == Append(xs, x)
               n  == Len(xs) + 1
           IN  /\ ys \in Seq(Request)
               /\ DOMAIN ys = DOMAIN xs \cup {n} /\ n \notin DOMAIN xs
               /\ ys[n] = x /\ \A m \in DOMAIN xs : ys[m] = xs[m]
               /\ Weighed(weight, ys, S) = Weighed(weight, xs, S)
               /\ Weighed(weight, ys, S \cup {n}) = Weighed(weight, xs, S)
<1> DEFINE ys == Append(xs, x)
           n  == Len(xs) + 1
           g  == [m \in DOMAIN ys |-> weight[ys[m].batch][ys[m].next]]
<1>1. /\ ys \in Seq(Request)
      /\ DOMAIN ys = DOMAIN xs \cup {n} /\ n \notin DOMAIN xs
      /\ ys[n] = x /\ \A m \in DOMAIN xs : ys[m] = xs[m]
  OBVIOUS
<1> HIDE DEF ys, n
<1>2. Weighed(weight, ys, S) = Weighed(weight, xs, S)
  BY <1>1, WeighedSame
<1>3. IsFiniteSet(DOMAIN ys) /\ \A m \in DOMAIN ys : g[m] \in Nat
  BY <1>1, RequestFields DEF Weights
<1>4. g[n] = 0
  BY <1>1
<1>5. S \in SUBSET DOMAIN ys /\ n \in DOMAIN ys \ S
  BY <1>1
<1>6. Weighed(weight, ys, S \cup {n}) = Weighed(weight, ys, S)
  <2>1. Weighed(weight, ys, S) \in Nat
    BY <1>1, <1>5, WeighedType
  <2>2. SumFunctionOnSet(g, S) \in Nat
    BY <2>1 DEF Weighed
  <2> HIDE DEF g
  <2>3. SumFunctionOnSet(g, S \cup {n}) = g[n] + SumFunctionOnSet(g, S)
    BY <1>3, <1>5, SumAdd
  <2>4. SumFunctionOnSet(g, S \cup {n}) = SumFunctionOnSet(g, S)
    BY <1>4, <2>2, <2>3
  <2>5. QED
    BY <2>4 DEF g, Weighed
<1>7. QED
  BY <1>1, <1>2, <1>6 DEF ys, n

\* A request that handles one more span.
LEMMA HandledRequests ==
    ASSUME NEW xs \in Seq(Request), NEW n \in DOMAIN xs,
           NEW ys, ys = [xs EXCEPT ![n].next = @ + 1]
    PROVE  /\ ys \in Seq(Request)
           /\ DOMAIN ys = DOMAIN xs
           /\ \A m \in DOMAIN xs : /\ ys[m].batch = xs[m].batch
                                   /\ ys[m].at = xs[m].at
                                   /\ ys[m].intact = xs[m].intact
                                   /\ m # n => ys[m].next = xs[m].next
           /\ ys[n].next = xs[n].next + 1
<1>1. xs[n] \in Request /\ xs[n].next + 1 \in Nat \ {0}
  BY RequestFields
<1>2. DOMAIN ys = DOMAIN xs
  OBVIOUS
<1>3. [xs[n] EXCEPT !.next = xs[n].next + 1] \in Request
  BY <1>1 DEF Request
<1>4. \A m \in DOMAIN xs : ys[m] \in Request
  BY <1>3, RequestFields
<1>5. ys \in [1 .. Len(xs) -> Request]
  <2>1. ys = [m \in DOMAIN xs |-> ys[m]]
    OBVIOUS
  <2>2. QED
    BY <1>4, <2>1, RequestFields
<1>6. ys \in Seq(Request)
  <2>1. PICK k \in Nat : ys \in [1 .. k -> Request]
    BY <1>5, RequestFields
  <2>2. QED
    BY <2>1
<1>7. QED
  BY <1>1, <1>2, <1>6 DEF Request

\* It weighs in with that span.
LEMMA WeighedHandle ==
    ASSUME NEW weight \in Weights, NEW xs \in Seq(Request),
           NEW n \in DOMAIN xs, NEW more \in Nat, NEW S \in SUBSET DOMAIN xs,
           weight[xs[n].batch][xs[n].next + 1] =
               weight[xs[n].batch][xs[n].next] + more,
           NEW ys \in Seq(Request), DOMAIN ys = DOMAIN xs,
           \A m \in DOMAIN xs : /\ ys[m].batch = xs[m].batch
                                /\ m # n => ys[m].next = xs[m].next,
           ys[n].next = xs[n].next + 1
    PROVE  /\ n \in S => Weighed(weight, ys, S) = Weighed(weight, xs, S) + more
           /\ n \notin S => Weighed(weight, ys, S) = Weighed(weight, xs, S)
           /\ Weighed(weight, xs, S) \in Nat
<1> DEFINE f == [m \in DOMAIN xs |-> weight[xs[m].batch][xs[m].next]]
           g == [m \in DOMAIN ys |-> weight[ys[m].batch][ys[m].next]]
<1>1. CASE n \notin S
  <2>1. \A m \in S : /\ m \in DOMAIN ys /\ ys[m].batch = xs[m].batch
                     /\ ys[m].next = xs[m].next
    BY <1>1
  <2>2. Weighed(weight, ys, S) = Weighed(weight, xs, S)
    BY <2>1, WeighedSame
  <2>3. Weighed(weight, xs, S) \in Nat
    BY WeighedType
  <2>4. QED
    BY <1>1, <2>2, <2>3
<1>2. CASE n \in S
  <2>1. IsFiniteSet(S) /\ \A m \in S : f[m] \in Nat
    BY WeighedType, RequestFields DEF Weights
  <2>2. /\ \A m \in S \ {n} : g[m] = f[m]
        /\ g[n] = f[n] + more
    BY <1>2
  <2> HIDE DEF f, g
  <2>3. SumFunctionOnSet(g, S) = SumFunctionOnSet(f, S) + more
    BY <1>2, <2>1, <2>2, SumRaise
  <2>4. Weighed(weight, ys, S) = Weighed(weight, xs, S) + more
    BY <2>3 DEF f, g, Weighed
  <2>5. Weighed(weight, xs, S) \in Nat
    BY WeighedType
  <2>6. QED
    BY <1>2, <2>4, <2>5
<1>3. QED
  BY <1>1, <1>2

-----------------------------------------------------------------------------
(* The two weights: calls recorded and money charged, span by span.         *)

\* The members of S below k.
Before(S, k) == {i \in S : i < k}

\* Calls of tool by pod before the k-th span.
Heard(pod, tool) ==
    [b \in Batches |-> [k \in Nat \ {0} |->
        Cardinality(Before(Calls(b, pod, tool), k))]]

\* The price of the usage of account sa before the k-th span.
Paid(sa) ==
    [b \in Batches |-> [k \in Nat \ {0} |->
        SumFunctionOnSet(Costs(b), Before(Owing(b, sa), k))]]

\* The spans of a batch.
LEMMA BatchSpans ==
    ASSUME NEW b \in Batches
    PROVE  /\ DOMAIN SpansOf[b] = 1 .. Len(SpansOf[b])
           /\ Len(SpansOf[b]) \in Nat /\ IsFiniteSet(DOMAIN SpansOf[b])
           /\ \A i \in DOMAIN SpansOf[b] : SpansOf[b][i] \in Span
<1>1. SpansOf[b] \in Seq(Span)
  BY SpansAssumption
<1>2. DOMAIN SpansOf[b] = 1 .. Len(SpansOf[b]) /\ Len(SpansOf[b]) \in Nat
  BY <1>1
<1>3. IsFiniteSet(1 .. Len(SpansOf[b]))
  BY <1>2, FS_Interval
<1>4. QED
  BY <1>1, <1>2, <1>3

\* The members below k are finitely many.
LEMMA BeforeType ==
    ASSUME NEW b \in Batches, NEW S \in SUBSET DOMAIN SpansOf[b], NEW k \in Nat
    PROVE  /\ Before(S, 1) = {}
           /\ Before(S, k) \in SUBSET S
           /\ IsFiniteSet(Before(S, k)) /\ IsFiniteSet(S)
           /\ k > Len(SpansOf[b]) => Before(S, k) = S
<1>1. S \in SUBSET (1 .. Len(SpansOf[b])) /\ Len(SpansOf[b]) \in Nat
  BY BatchSpans
<1>2. IsFiniteSet(S)
  BY BatchSpans, FS_Subset
<1>3. Before(S, k) \in SUBSET S /\ IsFiniteSet(Before(S, k))
  BY <1>2, FS_Subset DEF Before
<1>4. Before(S, 1) = {}
  BY <1>1 DEF Before
<1>5. ASSUME k > Len(SpansOf[b])
      PROVE  Before(S, k) = S
  BY <1>1, <1>5 DEF Before
<1>6. QED
  BY <1>2, <1>3, <1>4, <1>5

\* One step further there is one member more, if k is one.
LEMMA BeforeStep ==
    ASSUME NEW b \in Batches, NEW S \in SUBSET DOMAIN SpansOf[b],
           NEW k \in DOMAIN SpansOf[b]
    PROVE  /\ k \notin Before(S, k)
           /\ k \in Nat /\ k \in Nat \ {0} /\ k + 1 \in Nat \ {0}
           /\ k \in S => Before(S, k + 1) = Before(S, k) \cup {k}
           /\ k \notin S => Before(S, k + 1) = Before(S, k)
<1>1. S \in SUBSET (1 .. Len(SpansOf[b])) /\ Len(SpansOf[b]) \in Nat
  BY BatchSpans
<1>2. k \in Nat \ {0}
  BY BatchSpans
<1>3. k \notin Before(S, k)
  BY <1>2 DEF Before
<1>4. \A i \in S : i < k + 1 <=> i < k \/ i = k
  BY <1>1, <1>2
<1>5. QED
  BY <1>2, <1>3, <1>4 DEF Before

\* Calls heard so far are a natural number.
LEMMA HeardType ==
    ASSUME NEW pod, NEW tool
    PROVE  /\ Heard(pod, tool) \in Weights
           /\ \A b \in Batches : Calls(b, pod, tool) \in SUBSET DOMAIN SpansOf[b]
<1>1. \A b \in Batches : Calls(b, pod, tool) \in SUBSET DOMAIN SpansOf[b]
  BY DEF Calls
<1>2. \A b \in Batches, k \in Nat :
          Cardinality(Before(Calls(b, pod, tool), k)) \in Nat
  BY <1>1, BeforeType, FS_CardinalityType
<1>3. Heard(pod, tool) \in Weights
  BY <1>2 DEF Heard, Weights
<1>4. QED
  BY <1>1, <1>3

\* Calls are heard one by one, until all are.
LEMMA HeardSteps ==
    ASSUME NEW pod, NEW tool, NEW b \in Batches
    PROVE  LET heard == Heard(pod, tool)[b]
               calls == Calls(b, pod, tool)
           IN  /\ Heard(pod, tool) \in Weights
               /\ heard[1] = 0
               /\ \A k \in DOMAIN SpansOf[b] :
                      heard[k + 1] = heard[k] + (IF k \in calls THEN 1 ELSE 0)
               /\ Cardinality(calls) \in Nat
               /\ \A k \in Nat \ {0} :
                      /\ heard[k] <= Cardinality(calls)
                      /\ k > Len(SpansOf[b]) => heard[k] = Cardinality(calls)
<1> DEFINE calls == Calls(b, pod, tool)
           heard == Heard(pod, tool)[b]
<1>1. \A c \in Batches : Calls(c, pod, tool) \in SUBSET DOMAIN SpansOf[c]
  BY DEF Calls
<1>2. \A c \in Batches, k \in Nat :
          /\ IsFiniteSet(Before(Calls(c, pod, tool), k))
          /\ Cardinality(Before(Calls(c, pod, tool), k)) \in Nat
  BY <1>1, BeforeType, FS_CardinalityType
<1>3. Heard(pod, tool) \in Weights
  BY <1>2 DEF Heard, Weights
<1>4. \A k \in Nat \ {0} : heard[k] = Cardinality(Before(calls, k))
  BY DEF Heard
<1> HIDE DEF calls, heard
<1>5. calls \in SUBSET DOMAIN SpansOf[b]
  BY <1>1 DEF calls
<1>6. heard[1] = 0
  BY <1>4, <1>5, BeforeType, FS_EmptySet
<1>7. ASSUME NEW k \in DOMAIN SpansOf[b]
      PROVE  heard[k + 1] = heard[k] + (IF k \in calls THEN 1 ELSE 0)
  <2>1. /\ k \in Nat \ {0} /\ k \notin Before(calls, k)
        /\ k \in calls => Before(calls, k + 1) = Before(calls, k) \cup {k}
        /\ k \notin calls => Before(calls, k + 1) = Before(calls, k)
    <3>1. calls \in SUBSET DOMAIN SpansOf[b] /\ k \in DOMAIN SpansOf[b]
      BY <1>5, <1>7
    <3>2. k \in Nat \ {0}
      BY <3>1, BeforeStep
    <3>3. k \notin Before(calls, k)
      BY <3>1, BeforeStep
    <3>4. k \in calls => Before(calls, k + 1) = Before(calls, k) \cup {k}
      BY <3>1, BeforeStep
    <3>5. k \notin calls => Before(calls, k + 1) = Before(calls, k)
      BY <3>1, BeforeStep
    <3>6. QED
      BY <3>2, <3>3, <3>4, <3>5
  <2>2. k \in Nat \ {0} /\ k + 1 \in Nat \ {0}
    BY <2>1
  <2>3. /\ IsFiniteSet(Before(calls, k))
        /\ Cardinality(Before(calls, k)) \in Nat
    BY <1>2, <2>2 DEF calls
  <2>4. Cardinality(Before(calls, k) \cup {k}) = Cardinality(Before(calls, k)) + 1
    BY <2>1, <2>3, FS_AddElement
  <2>5. QED
    BY <1>4, <2>1, <2>2, <2>3, <2>4
<1>8. IsFiniteSet(calls) /\ Cardinality(calls) \in Nat
  BY <1>5, BatchSpans, FS_Subset, FS_CardinalityType
<1>9. ASSUME NEW k \in Nat \ {0}
      PROVE  /\ heard[k] <= Cardinality(calls)
             /\ k > Len(SpansOf[b]) => heard[k] = Cardinality(calls)
  <2>1. Before(calls, k) \in SUBSET calls
    BY <1>5, BeforeType
  <2>2. Cardinality(Before(calls, k)) <= Cardinality(calls)
    BY <1>8, <2>1, FS_Subset
  <2>3. k > Len(SpansOf[b]) => Before(calls, k) = calls
    BY <1>5, BeforeType
  <2>4. QED
    BY <1>4, <2>2, <2>3
<1>10. QED
  BY <1>3, <1>6, <1>7, <1>8, <1>9 DEF calls, heard

\* The costs of the spans of a batch are amounts.
LEMMA CostsType ==
    ASSUME NEW b \in Batches, NEW t \in Tables
    PROVE  /\ DOMAIN Costs(b) = DOMAIN SpansOf[b]
           /\ \A i \in DOMAIN SpansOf[b] :
                  LET span == SpansOf[b][i]
                  IN  /\ Costs(b)[i] \in Nat
                      /\ Costs(b)[i] = Estimate(t, span.model,
                             Tokens(span.input), Tokens(span.output))
                      /\ span.input = Unset /\ span.output = Unset =>
                             Costs(b)[i] = 0
<1>1. ASSUME NEW i \in DOMAIN SpansOf[b]
      PROVE  LET span == SpansOf[b][i]
             IN  /\ Costs(b)[i] \in Nat
                 /\ Costs(b)[i] = Estimate(t, span.model,
                        Tokens(span.input), Tokens(span.output))
                 /\ span.input = Unset /\ span.output = Unset =>
                        Costs(b)[i] = 0
  <2> DEFINE span == SpansOf[b][i]
  <2>1. span \in Span
    BY BatchSpans
  <2>2. Costs(b)[i] = Cost(FairPrice(span.model),
                           Tokens(span.input), Tokens(span.output))
    BY DEF Costs
  <2> HIDE DEF span
  <2>3. /\ Costs(b)[i] \in Nat
        /\ Costs(b)[i] = Estimate(t, span.model,
               Tokens(span.input), Tokens(span.output))
    BY <2>1, <2>2, ChargeType
  <2>4. FairPrice(span.model) \in ModelPrice
    <3>1. span.model \in Models
      BY <2>1 DEF Span
    <3>2. QED
      BY <3>1, PriceType
  <2>5. ASSUME span.input = Unset, span.output = Unset
        PROVE  Costs(b)[i] = 0
    <3>1. Tokens(span.input) = 0 /\ Tokens(span.output) = 0
      BY <2>5 DEF Tokens
    <3>2. QED
      BY <2>2, <2>4, <3>1, CostOfNothing
  <2>6. QED
    BY <2>3, <2>5 DEF span
<1>2. DOMAIN Costs(b) = DOMAIN SpansOf[b]
  BY DEF Costs
<1>3. QED
  BY <1>1, <1>2

\* Money is owed span by span, until all of it is; and nothing is owed by an
\* account that the batch does not bill.
LEMMA PaidSteps ==
    ASSUME NEW t \in Tables, NEW sa \in Accounts, NEW b \in Batches
    PROVE  LET paid  == Paid(sa)[b]
               owing == Owing(b, sa)
           IN  /\ Paid(sa) \in Weights
               /\ paid[1] = 0
               /\ \A k \in DOMAIN SpansOf[b] :
                      paid[k + 1] = paid[k] +
                                    (IF k \in owing THEN Costs(b)[k] ELSE 0)
               /\ Worth(b, sa) \in Nat
               /\ \A k \in Nat \ {0} :
                      /\ paid[k] <= Worth(b, sa)
                      /\ k > Len(SpansOf[b]) => paid[k] = Worth(b, sa)
               /\ ~Bills(b, sa) => /\ Worth(b, sa) = 0
                                   /\ \A k \in Nat \ {0} : paid[k] = 0
<1> DEFINE owing == Owing(b, sa)
           costs == Costs(b)
           paid == Paid(sa)[b]
<1>1. \A c \in Batches : Owing(c, sa) \in SUBSET DOMAIN SpansOf[c]
  BY DEF Owing
<1>2. \A c \in Batches : \A i \in Owing(c, sa) : Costs(c)[i] \in Nat
  BY <1>1, CostsType
<1>3. \A c \in Batches, k \in Nat :
          SumFunctionOnSet(Costs(c), Before(Owing(c, sa), k)) \in Nat
  <2> TAKE c \in Batches, k \in Nat
  <2>1. /\ IsFiniteSet(Before(Owing(c, sa), k))
        /\ Before(Owing(c, sa), k) \in SUBSET Owing(c, sa)
    BY <1>1, BeforeType
  <2>2. \A i \in Before(Owing(c, sa), k) : Costs(c)[i] \in Nat
    BY <1>2, <2>1
  <2>3. QED
    BY <2>1, <2>2, SumType
<1>4. Paid(sa) \in Weights
  BY <1>3 DEF Paid, Weights
<1>5. \A k \in Nat \ {0} :
          /\ paid[k] = SumFunctionOnSet(costs, Before(owing, k))
          /\ paid[k] \in Nat
  BY <1>3 DEF Paid
<1>6. /\ Worth(b, sa) = SumFunctionOnSet(costs, owing)
      /\ owing \in SUBSET DOMAIN SpansOf[b]
      /\ \A i \in owing : costs[i] \in Nat
  BY <1>1, <1>2 DEF Worth
<1>7. ASSUME ~Bills(b, sa), NEW i \in owing
      PROVE  costs[i] = 0
  <2>1. /\ i \in DOMAIN SpansOf[b]
        /\ SpansOf[b][i].pod # Unset /\ SpansOf[b][i].sa = sa
    BY <1>7 DEF Owing
  <2>2. SpansOf[b][i] \in Spans(b)
    BY <2>1 DEF Spans
  <2>3. ~Billable(SpansOf[b][i])
    BY <1>7, <2>1, <2>2 DEF Bills
  <2>4. SpansOf[b][i].input = Unset /\ SpansOf[b][i].output = Unset
    BY <2>1, <2>3, NothingAssumption DEF Billable
  <2>5. QED
    BY <2>1, <2>4, CostsType
<1> HIDE DEF owing, costs, paid
<1>8. IsFiniteSet(owing) /\ Worth(b, sa) \in Nat
  BY <1>6, BatchSpans, FS_Subset, SumType
<1>9. paid[1] = 0
  <2>1. Before(owing, 1) = {}
    BY <1>6, BeforeType
  <2>2. SumFunctionOnSet(costs, {}) = 0
    BY FS_EmptySet, SumStep
  <2>3. QED
    BY <1>5, <2>1, <2>2
<1>10. ASSUME NEW k \in DOMAIN SpansOf[b]
       PROVE  paid[k + 1] = paid[k] + (IF k \in owing THEN costs[k] ELSE 0)
  <2>1. /\ k \in Nat \ {0} /\ k \notin Before(owing, k)
        /\ Before(owing, k) \in SUBSET owing
        /\ k \in owing => Before(owing, k + 1) = Before(owing, k) \cup {k}
        /\ k \notin owing => Before(owing, k + 1) = Before(owing, k)
    BY <1>6, <1>10, BeforeStep, BeforeType
  <2>2. k + 1 \in Nat \ {0}
    BY <2>1
  <2>3. CASE k \in owing
    <3>1. k \in owing \ Before(owing, k)
      BY <2>1, <2>3
    <3>2. SumFunctionOnSet(costs, Before(owing, k) \cup {k}) =
              costs[k] + SumFunctionOnSet(costs, Before(owing, k))
      BY <1>6, <1>8, <2>1, <3>1, SumAdd
    <3>3. paid[k + 1] = costs[k] + paid[k]
      BY <1>5, <2>1, <2>2, <2>3, <3>2
    <3>4. QED
      BY <1>5, <1>6, <2>1, <2>3, <3>3
  <2>4. CASE k \notin owing
    BY <1>5, <2>1, <2>2, <2>4
  <2>5. QED
    BY <2>3, <2>4
<1>11. ASSUME NEW k \in Nat \ {0}
       PROVE  /\ paid[k] <= Worth(b, sa)
              /\ k > Len(SpansOf[b]) => paid[k] = Worth(b, sa)
  <2>1. Before(owing, k) \in SUBSET owing
    BY <1>6, BeforeType
  <2>2. SumFunctionOnSet(costs, Before(owing, k)) <= Worth(b, sa)
    BY <1>6, <1>8, <2>1, SumSubset
  <2>3. k > Len(SpansOf[b]) => Before(owing, k) = owing
    BY <1>6, BeforeType
  <2>4. QED
    BY <1>5, <1>6, <2>2, <2>3
<1>12. ASSUME ~Bills(b, sa)
       PROVE  /\ Worth(b, sa) = 0
              /\ \A k \in Nat \ {0} : paid[k] = 0
  <2>1. Worth(b, sa) = 0
    BY <1>6, <1>7, <1>8, <1>12, SumOfZeros
  <2>2. QED
    BY <1>5, <1>11, <2>1
<1>13. QED
  BY <1>4, <1>8, <1>9, <1>10, <1>11, <1>12 DEF owing, costs, paid

-----------------------------------------------------------------------------
(* The inductive invariant of the receiver.                                 *)

\* The calls of a pod: the next one gets a number none of them has.
Numbered(calls) ==
    /\ IsFiniteSet(calls)
    /\ \A call \in calls : call.id \in Nat /\ call.id < Cardinality(calls)

Recorded(calls, tool) == {call \in calls : call.tool = tool}

\* The requests of xs that r handles.
At(xs, r) == {n \in DOMAIN xs : xs[n].at = r}

\* The stores hold what the requests have handled, call for call.
Counted(store, xs) ==
    \A r \in Replicas, pod \in Pods, tool \in Tools :
        Cardinality(Recorded(store[<<r, pod>>], tool)) =
            Weighed(Heard(pod, tool), xs, At(xs, r))

ReceiverInv ==
    /\ ReceiverTypeOK
    /\ \A key \in Replicas \X Pods : Numbered(stores[key])
    /\ Counted(stores, exports)

\* The calls of one tool are finitely many.
LEMMA RecordedType ==
    ASSUME NEW calls, Numbered(calls), NEW tool
    PROVE  /\ Recorded(calls, tool) \in SUBSET calls
           /\ IsFiniteSet(Recorded(calls, tool))
           /\ Cardinality(Recorded(calls, tool)) \in Nat
<1>1. Recorded(calls, tool) \in SUBSET calls /\ IsFiniteSet(calls)
  BY DEF Recorded, Numbered
<1>2. QED
  BY <1>1, FS_Subset, FS_CardinalityType

\* A call recorded is one call more of its tool.
LEMMA CallAdded ==
    ASSUME NEW calls, Numbered(calls), NEW tool, NEW call,
           call.id = Cardinality(calls)
    PROVE  LET new == calls \cup {call}
           IN  /\ Numbered(new)
               /\ call.tool = tool => Cardinality(Recorded(new, tool)) =
                                  Cardinality(Recorded(calls, tool)) + 1
               /\ call.tool # tool => Recorded(new, tool) = Recorded(calls, tool)
<1> DEFINE new == calls \cup {call}
           old == Recorded(calls, tool)
<1>1. IsFiniteSet(calls) /\ Cardinality(calls) \in Nat
  BY FS_CardinalityType DEF Numbered
<1>2. call \notin calls
  BY <1>1 DEF Numbered
<1>3. IsFiniteSet(new) /\ Cardinality(new) = Cardinality(calls) + 1
  BY <1>1, <1>2, FS_AddElement
<1>4. Numbered(new)
  <2>1. ASSUME NEW c \in new
        PROVE  c.id \in Nat /\ c.id < Cardinality(new)
    <3>1. CASE c = call
      BY <1>1, <1>3, <3>1
    <3>2. CASE c \in calls
      BY <1>1, <1>3, <3>2 DEF Numbered
    <3>3. QED
      BY <2>1, <3>1, <3>2
  <2>2. QED
    BY <1>3, <2>1 DEF Numbered
<1>5. IsFiniteSet(old) /\ Cardinality(old) \in Nat /\ call \notin old
  <2>1. old \in SUBSET calls
    BY DEF Recorded
  <2>2. QED
    BY <1>1, <1>2, <2>1, FS_Subset, FS_CardinalityType
<1>6. ASSUME call.tool = tool
      PROVE  Cardinality(Recorded(new, tool)) = Cardinality(old) + 1
  <2>1. Recorded(new, tool) = old \cup {call}
    BY <1>6 DEF Recorded
  <2>2. QED
    BY <1>5, <2>1, FS_AddElement
<1>7. ASSUME call.tool # tool
      PROVE  Recorded(new, tool) = old
  BY <1>7 DEF Recorded
<1>8. QED
  BY <1>4, <1>5, <1>6, <1>7

\* What r handles weighs the same in sequences that agree on it.
LEMMA CountKept ==
    ASSUME NEW xs \in Seq(Request), NEW ys \in Seq(Request), NEW r,
           At(ys, r) = At(xs, r),
           \A n \in At(xs, r) : /\ ys[n].batch = xs[n].batch
                                /\ ys[n].next = xs[n].next,
           NEW weight \in Weights
    PROVE  Weighed(weight, ys, At(ys, r)) = Weighed(weight, xs, At(xs, r))
<1>1. At(xs, r) \in SUBSET DOMAIN xs /\ \A n \in At(xs, r) : n \in DOMAIN ys
  BY DEF At
<1>2. QED
  BY <1>1, WeighedSame

\* Nothing has been handled to begin with.
LEMMA ReceiverInitInv == ReceiverInit => ReceiverInv
<1> SUFFICES ASSUME ReceiverInit
             PROVE  ReceiverInv
  OBVIOUS
<1>1. exports = <<>> /\ exports \in Seq(Request) /\ DOMAIN exports = {}
  BY DEF ReceiverInit
<1>2. ReceiverTypeOK
  <2>1. Ledgers!LedgerTypeOK
    BY DEF ReceiverInit, Ledgers!LedgerTypeOK
  <2>2. Stores!StoreTypeOK
    BY DEF ReceiverInit, Stores!StoreTypeOK
  <2>3. QED
    BY <1>1, <2>1, <2>2 DEF ReceiverInit, ReceiverTypeOK
<1>3. \A key \in Replicas \X Pods : stores[key] = {}
  BY DEF ReceiverInit
<1>4. \A key \in Replicas \X Pods : Numbered(stores[key])
  BY <1>3, FS_EmptySet DEF Numbered
<1>5. ASSUME NEW r \in Replicas, NEW pod \in Pods, NEW tool \in Tools
      PROVE  Cardinality(Recorded(stores[<<r, pod>>], tool)) =
                 Weighed(Heard(pod, tool), exports, At(exports, r))
  <2>1. Recorded(stores[<<r, pod>>], tool) = {}
    BY <1>3 DEF Recorded
  <2>2. At(exports, r) = {}
    BY <1>1 DEF At
  <2>3. Weighed(Heard(pod, tool), exports, {}) = 0
    BY FS_EmptySet, SumStep DEF Weighed
  <2>4. QED
    BY <2>1, <2>2, <2>3, FS_EmptySet
<1>6. QED
  BY <1>2, <1>4, <1>5 DEF ReceiverInv, Counted

-----------------------------------------------------------------------------
(* The steps of the receiver.                                               *)

\* A batch that is posted joins the requests and weighs nothing yet.
LEMMA ExportFacts ==
    ASSUME ReceiverTypeOK, NEW b \in Batches, NEW r \in Replicas, Export(b, r)
    PROVE  /\ exports' \in Seq(Request) /\ Len(exports) + 1 \notin DOMAIN exports
           /\ DOMAIN exports' = DOMAIN exports \cup {Len(exports) + 1}
           /\ \A n \in DOMAIN exports : exports'[n] = exports[n]
           /\ LET x == exports'[Len(exports) + 1]
              IN  /\ x.batch = b /\ x.at = r /\ x.next = 1
                  /\ x.intact = \A sa \in Accounts :
                                    Bills(b, sa) => ledgers[<<r, sa>>] # Absent
           /\ \A weight \in Weights : \A S \in SUBSET DOMAIN exports :
                  weight[b][1] = 0 =>
                      /\ Weighed(weight, exports', S) =
                             Weighed(weight, exports, S)
                      /\ Weighed(weight, exports', S \cup {Len(exports) + 1}) =
                             Weighed(weight, exports, S)
<1> DEFINE intact == \A sa \in Accounts :
                         Bills(b, sa) => ledgers[<<r, sa>>] # Absent
           x == [batch |-> b, at |-> r, next |-> 1, answered |-> FALSE,
                 intact |-> intact]
<1>1. exports' = Append(exports, x) /\ exports \in Seq(Request)
  BY DEF Export, ReceiverTypeOK
<1>2. x \in Request /\ x.batch = b /\ x.at = r /\ x.next = 1
  <2>1. intact \in BOOLEAN
    OBVIOUS
  <2> HIDE DEF intact
  <2>2. QED
    BY <2>1 DEF Request
<1>3. x.intact = intact
  OBVIOUS
<1> HIDE DEF x
<1>4. /\ exports' \in Seq(Request) /\ Len(exports) + 1 \notin DOMAIN exports
      /\ DOMAIN exports' = DOMAIN exports \cup {Len(exports) + 1}
      /\ \A n \in DOMAIN exports : exports'[n] = exports[n]
      /\ exports'[Len(exports) + 1] = x
  BY <1>1, <1>2
<1>5. ASSUME NEW weight \in Weights, NEW S \in SUBSET DOMAIN exports,
             weight[b][1] = 0
      PROVE  /\ Weighed(weight, exports', S) = Weighed(weight, exports, S)
             /\ Weighed(weight, exports', S \cup {Len(exports) + 1}) =
                    Weighed(weight, exports, S)
  BY <1>1, <1>2, <1>5, WeighedExport
<1>6. QED
  BY <1>2, <1>3, <1>4, <1>5

\* A batch that is posted leaves the count as it is.
LEMMA ExportInv ==
    ASSUME ReceiverInv, NEW b \in Batches, NEW r \in Replicas, Export(b, r)
    PROVE  ReceiverInv'
<1> DEFINE n == Len(exports) + 1
<1>1. ReceiverTypeOK
  BY DEF ReceiverInv
<1>2. UNCHANGED <<ledgers, stores, table, acked>>
  BY DEF Export
<1>3. /\ exports \in Seq(Request) /\ exports' \in Seq(Request)
      /\ n \notin DOMAIN exports /\ DOMAIN exports' = DOMAIN exports \cup {n}
      /\ \A m \in DOMAIN exports : exports'[m] = exports[m]
      /\ exports'[n].at = r
  BY <1>1, ExportFacts DEF ReceiverTypeOK
<1>4. ReceiverTypeOK'
  BY <1>1, <1>2, <1>3 DEF ReceiverTypeOK, Ledgers!LedgerTypeOK,
                          Stores!StoreTypeOK
<1>5. Counted(stores, exports')
  <2> SUFFICES ASSUME NEW q \in Replicas, NEW pod \in Pods, NEW tool \in Tools
               PROVE  Weighed(Heard(pod, tool), exports', At(exports', q)) =
                          Weighed(Heard(pod, tool), exports, At(exports, q))
    BY DEF ReceiverInv, Counted
  <2> DEFINE heard == Heard(pod, tool)
             old == At(exports, q)
  <2>1. heard \in Weights /\ heard[b][1] = 0
    BY HeardSteps
  <2>2. old \in SUBSET DOMAIN exports
    BY DEF At
  <2> HIDE DEF heard
  <2>3. /\ Weighed(heard, exports', old) = Weighed(heard, exports, old)
        /\ Weighed(heard, exports', old \cup {n}) = Weighed(heard, exports, old)
    BY <1>1, <2>1, <2>2, ExportFacts
  <2>4. At(exports', q) = IF q = r THEN old \cup {n} ELSE old
    <3> HIDE DEF n
    <3>1. QED
      BY <1>3 DEF At
  <2>5. QED
    BY <2>3, <2>4 DEF heard
<1>6. QED
  BY <1>2, <1>4, <1>5 DEF ReceiverInv

\* The next span of a request: whose it is, and what it costs.
LEMMA HandleFacts ==
    ASSUME ReceiverTypeOK, NEW n \in DOMAIN exports, HandleSpan(n)
    PROVE  LET x    == exports[n]
               span == SpansOf[x.batch][x.next]
               key  == <<x.at, span.sa>>
               cost == Costs(x.batch)[x.next]
           IN  /\ x.batch \in Batches /\ x.at \in Replicas
               /\ x.next \in DOMAIN SpansOf[x.batch] /\ span \in Span
               /\ exports' = [exports EXCEPT ![n].next = @ + 1]
               /\ RecordCall(x.at, span)
               /\ UNCHANGED <<table, acked>>
               /\ cost \in Nat
               /\ ~Billable(span) => ledgers' = ledgers
               /\ Billable(span) =>
                      /\ key \in Replicas \X Accounts
                      /\ span.sa \in Accounts
                      /\ ledgers[key] = Absent => ledgers' = ledgers
                      /\ ledgers[key] # Absent => ledgers' =
                             [ledgers EXCEPT ![key] = Ledgers!Charged(@, cost)]
<1> DEFINE x    == exports[n]
           b    == x.batch
           k    == x.next
           span == SpansOf[b][k]
           key  == <<x.at, span.sa>>
           cost == Costs(b)[k]
<1>1. exports \in Seq(Request) /\ table \in [Replicas -> Tables]
  BY DEF ReceiverTypeOK
<1>2. /\ b \in Batches /\ k \in Nat \ {0}
      /\ x.at \in Replicas \cup {Absent}
  BY <1>1, RequestFields
<1>3. x.at # Absent /\ ~Handled(x)
  BY DEF HandleSpan
<1>4. k \in DOMAIN SpansOf[b]
  BY <1>2, <1>3, BatchSpans DEF Handled
<1>5. span \in Span
  BY <1>2, <1>4, BatchSpans
<1>6. /\ exports' = [exports EXCEPT ![n].next = @ + 1]
      /\ RecordCall(x.at, span) /\ RecordCharge(x.at, span)
      /\ UNCHANGED <<table, acked>>
  BY DEF HandleSpan
<1>7. x.at \in Replicas /\ table[x.at] \in Tables
  BY <1>1, <1>2, <1>3
<1>8. /\ cost \in Nat
      /\ cost = Estimate(table[x.at], span.model,
                         Tokens(span.input), Tokens(span.output))
  BY <1>2, <1>4, <1>7, CostsType
<1>9. ASSUME ~Billable(span)
      PROVE  ledgers' = ledgers
  BY <1>6, <1>9 DEF RecordCharge
<1>10. ASSUME Billable(span)
       PROVE  /\ key \in Replicas \X Accounts /\ span.sa \in Accounts
              /\ ledgers[key] = Absent => ledgers' = ledgers
              /\ ledgers[key] # Absent => ledgers' =
                     [ledgers EXCEPT ![key] = Ledgers!Charged(@, cost)]
  <2>1. span.sa \in Accounts
    BY <1>5, <1>10 DEF Span, Billable
  <2> HIDE DEF span, cost
  <2>2. QED
    BY <1>6, <1>7, <1>8, <1>10, <2>1 DEF RecordCharge, Ledgers!RecordSpend
<1>11. QED
  BY <1>2, <1>4, <1>5, <1>6, <1>7, <1>8, <1>9, <1>10

\* A span that is a call leaves one call in the store, and counts for one.
LEMMA HandleInv ==
    ASSUME ReceiverInv, NEW n \in DOMAIN exports, HandleSpan(n)
    PROVE  ReceiverInv'
<1> DEFINE x    == exports[n]
           b    == x.batch
           k    == x.next
           span == SpansOf[b][k]
           spot == <<x.at, span.pod>>
           call == [tool |-> ToolName(span), at |-> 0,
                    id |-> Cardinality(stores[spot])]
<1>1. ReceiverTypeOK
  BY DEF ReceiverInv
<1>2. /\ b \in Batches /\ x.at \in Replicas
      /\ k \in DOMAIN SpansOf[b] /\ span \in Span
      /\ exports' = [exports EXCEPT ![n].next = @ + 1]
      /\ RecordCall(x.at, span)
      /\ UNCHANGED <<table, acked>>
  BY <1>1, HandleFacts
<1>3. ledgers' \in [Replicas \X Accounts -> Ledgers!Entry \cup {Absent}]
  <2> DEFINE key  == <<x.at, span.sa>>
             cost == Costs(b)[k]
  <2>1. ledgers \in [Replicas \X Accounts -> Ledgers!Entry \cup {Absent}]
    BY <1>1 DEF ReceiverTypeOK, Ledgers!LedgerTypeOK
  <2>2. CASE ledgers' = ledgers
    BY <2>1, <2>2
  <2>3. CASE ledgers' # ledgers
    <3>1. /\ cost \in Nat /\ key \in Replicas \X Accounts
          /\ ledgers[key] # Absent
          /\ ledgers' = [ledgers EXCEPT ![key] = Ledgers!Charged(@, cost)]
      BY <1>1, <2>3, HandleFacts
    <3> HIDE DEF key, cost
    <3>2. ledgers[key] \in Ledgers!Entry
      BY <2>1, <3>1
    <3>3. Ledgers!Charged(ledgers[key], cost) \in Ledgers!Entry
      BY <3>1, <3>2, ChargedFields
    <3>4. QED
      BY <2>1, <3>1, <3>3
  <2>4. QED
    BY <2>2, <2>3
<1>4. \A key \in Replicas \X Pods : Numbered(stores[key])
  BY DEF ReceiverInv
<1>5. stores \in [Replicas \X Pods -> SUBSET Stores!Call]
  BY <1>1 DEF ReceiverTypeOK, Stores!StoreTypeOK
<1>6. ASSUME ~IsCall(span)
      PROVE  stores' = stores
  BY <1>2, <1>6 DEF RecordCall
<1>7. ASSUME IsCall(span)
      PROVE  /\ span.pod \in Pods /\ ToolName(span) \in Tools
             /\ spot \in Replicas \X Pods
             /\ stores' = [stores EXCEPT ![spot] = @ \cup {call}]
  <2>1. span.pod \in Pods /\ ToolName(span) \in Tools
    BY <1>2, <1>7 DEF Span, IsCall, ToolName
  <2>2. spot \in Replicas \X Pods
    BY <1>2, <2>1
  <2>3. stores' = [stores EXCEPT ![spot] = @ \cup {call}]
    BY <1>2, <1>7 DEF RecordCall, Stores!Record
  <2>4. QED
    BY <2>1, <2>2, <2>3
<1>8. k \in Calls(b, span.pod, ToolName(span)) <=> IsCall(span)
  BY <1>2 DEF Calls
<1>9. \A pod \in Pods, tool \in Tools :
          k \in Calls(b, pod, tool) <=>
              IsCall(span) /\ span.pod = pod /\ ToolName(span) = tool
  BY <1>2 DEF Calls
<1>10. call.tool = ToolName(span) /\ call.id = Cardinality(stores[spot])
  OBVIOUS
<1> HIDE DEF span, call, spot
<1>11. stores' \in [Replicas \X Pods -> SUBSET Stores!Call]
  <2>1. CASE ~IsCall(span)
    BY <1>5, <1>6, <2>1
  <2>2. CASE IsCall(span)
    <3>1. spot \in Replicas \X Pods /\ ToolName(span) \in Tools
      BY <1>7, <2>2
    <3>2. Cardinality(stores[spot]) \in Nat
      BY <1>4, <3>1, FS_CardinalityType DEF Numbered
    <3>3. call \in Stores!Call
      BY <3>1, <3>2 DEF call, Stores!Call
    <3>4. QED
      BY <1>5, <1>7, <2>2, <3>1, <3>3
  <2>3. QED
    BY <2>1, <2>2
<1>12. \A key \in Replicas \X Pods : Numbered(stores'[key])
  <2>1. CASE ~IsCall(span)
    BY <1>4, <1>6, <2>1
  <2>2. CASE IsCall(span)
    <3>1. /\ spot \in Replicas \X Pods
          /\ stores' = [stores EXCEPT ![spot] = @ \cup {call}]
      BY <1>7, <2>2
    <3>2. Numbered(stores[spot] \cup {call})
      BY <1>4, <1>10, <3>1, CallAdded
    <3>3. QED
      BY <1>4, <1>5, <3>1, <3>2
  <2>3. QED
    BY <2>1, <2>2
<1>13. /\ exports' \in Seq(Request) /\ DOMAIN exports' = DOMAIN exports
       /\ \A m \in DOMAIN exports :
              /\ exports'[m].at = exports[m].at
              /\ exports'[m].batch = exports[m].batch
              /\ m # n => exports'[m].next = exports[m].next
       /\ exports'[n].next = exports[n].next + 1
  <2>1. exports \in Seq(Request)
    BY <1>1 DEF ReceiverTypeOK
  <2>2. QED
    BY <1>2, <2>1, HandledRequests
<1>14. ASSUME NEW r \in Replicas, NEW pod \in Pods, NEW tool \in Tools
       PROVE  Cardinality(Recorded(stores'[<<r, pod>>], tool)) =
                  Weighed(Heard(pod, tool), exports', At(exports', r))
  <2> DEFINE heard == Heard(pod, tool)
             here  == At(exports, r)
             calls == Calls(b, pod, tool)
             more  == IF k \in calls THEN 1 ELSE 0
             old   == Recorded(stores[<<r, pod>>], tool)
             new   == Recorded(stores'[<<r, pod>>], tool)
  <2>1. /\ exports \in Seq(Request) /\ heard \in Weights /\ more \in Nat
        /\ heard[b][k + 1] = heard[b][k] + more
    BY <1>1, <1>2, HeardSteps DEF ReceiverTypeOK
  <2>2. here \in SUBSET DOMAIN exports /\ (n \in here <=> r = x.at)
    BY DEF At
  <2>3. Cardinality(old) = Weighed(heard, exports, here)
    BY DEF ReceiverInv, Counted
  <2> HIDE DEF heard, more
  <2>4. /\ DOMAIN exports' = DOMAIN exports
        /\ \A m \in DOMAIN exports : exports'[m].at = exports[m].at
        /\ Weighed(heard, exports', here) =
               Weighed(heard, exports, here) + (IF n \in here THEN more ELSE 0)
    <3>2. /\ n \in here => Weighed(heard, exports', here) =
                                Weighed(heard, exports, here) + more
          /\ n \notin here => Weighed(heard, exports', here) =
                                   Weighed(heard, exports, here)
          /\ Weighed(heard, exports, here) \in Nat
      BY <1>13, <2>1, <2>2, WeighedHandle
    <3>3. QED
      BY <1>13, <3>2
  <2>5. At(exports', r) = here
    BY <2>4 DEF At
  <2>6. Cardinality(old) \in Nat
    BY <1>4, RecordedType
  <2>7. CASE r = x.at /\ k \in calls
    <3>1. /\ IsCall(span) /\ spot = <<r, pod>> /\ ToolName(span) = tool
      BY <1>9, <2>7 DEF spot
    <3>2. stores' = [stores EXCEPT ![<<r, pod>>] = @ \cup {call}]
          /\ <<r, pod>> \in Replicas \X Pods
      BY <1>7, <3>1
    <3>3. stores'[<<r, pod>>] = stores[<<r, pod>>] \cup {call}
      BY <1>5, <3>2
    <3>4. call.tool = tool /\ call.id = Cardinality(stores[<<r, pod>>])
      BY <1>10, <3>1
    <3>5. Cardinality(new) = Cardinality(old) + 1
      BY <1>4, <3>2, <3>3, <3>4, CallAdded
    <3>6. QED
      BY <2>2, <2>3, <2>4, <2>5, <2>7, <3>5 DEF more, heard
  <2>8. CASE ~(r = x.at /\ k \in calls)
    <3>1. new = old
      <4>1. CASE ~IsCall(span)
        BY <1>6, <4>1
      <4>2. CASE IsCall(span) /\ spot # <<r, pod>>
        BY <1>5, <1>7, <4>2
      <4>3. CASE IsCall(span) /\ spot = <<r, pod>>
        <5>1. ToolName(span) # tool
          BY <1>9, <2>8, <4>3 DEF spot
        <5>2. /\ <<r, pod>> \in Replicas \X Pods
              /\ stores'[<<r, pod>>] = stores[<<r, pod>>] \cup {call}
          BY <1>5, <1>7, <4>3
        <5>3. call.tool # tool /\ call.id = Cardinality(stores[<<r, pod>>])
          BY <1>10, <4>3, <5>1
        <5>4. QED
          BY <1>4, <5>2, <5>3, CallAdded
      <4>4. QED
        BY <4>1, <4>2, <4>3
    <3>2. (IF n \in here THEN more ELSE 0) = 0
      BY <2>2, <2>8 DEF more
    <3>3. QED
      BY <2>3, <2>4, <2>5, <2>6, <3>1, <3>2 DEF heard
  <2>9. QED
    BY <2>7, <2>8
<1>15. ReceiverTypeOK'
  BY <1>1, <1>2, <1>3, <1>11, <1>13
     DEF ReceiverTypeOK, Ledgers!LedgerTypeOK, Stores!StoreTypeOK
<1>16. QED
  BY <1>12, <1>14, <1>15 DEF ReceiverInv, Counted

\* A step that moves no request, and the stores with none, keeps the count.
LEMMA RequestsRest ==
    ASSUME ReceiverInv, exports' \in Seq(Request),
           DOMAIN exports' = DOMAIN exports,
           \A n \in DOMAIN exports : /\ exports'[n].batch = exports[n].batch
                                     /\ exports'[n].at = exports[n].at
                                     /\ exports'[n].next = exports[n].next,
           ledgers' \in [Replicas \X Accounts -> Ledgers!Entry \cup {Absent}],
           table' \in [Replicas -> Tables], acked' \subseteq Batches,
           stores' = stores
    PROVE  ReceiverInv'
<1>1. ReceiverTypeOK'
  BY DEF ReceiverInv, ReceiverTypeOK, Ledgers!LedgerTypeOK, Stores!StoreTypeOK
<1>2. \A r \in Replicas : At(exports', r) = At(exports, r)
  BY DEF At
<1>3. exports \in Seq(Request)
  BY DEF ReceiverInv, ReceiverTypeOK
<1>4. ASSUME NEW r \in Replicas, NEW weight \in Weights
      PROVE  Weighed(weight, exports', At(exports', r)) =
                 Weighed(weight, exports, At(exports, r))
  <2>1. At(exports, r) \in SUBSET DOMAIN exports
    BY DEF At
  <2>2. QED
    BY <1>2, <1>3, <2>1, CountKept
<1>5. ASSUME NEW r \in Replicas, NEW pod \in Pods, NEW tool \in Tools
      PROVE  Weighed(Heard(pod, tool), exports', At(exports', r)) =
                 Weighed(Heard(pod, tool), exports, At(exports, r))
  BY <1>4, HeardType
<1>6. Counted(stores', exports')
  BY <1>5 DEF ReceiverInv, Counted
<1>7. QED
  BY <1>1, <1>6 DEF ReceiverInv

\* An answer moves no request on.
LEMMA AnswerRequests ==
    ASSUME ReceiverTypeOK, NEW n \in DOMAIN exports, Answer(n)
    PROVE  /\ exports' \in Seq(Request)
           /\ DOMAIN exports' = DOMAIN exports
           /\ \A m \in DOMAIN exports :
                  /\ exports'[m].batch = exports[m].batch
                  /\ exports'[m].at = exports[m].at
                  /\ exports'[m].next = exports[m].next
                  /\ exports'[m].intact = exports[m].intact
           /\ exports[n].batch \in Batches
<1>1. /\ exports \in Seq(Request)
      /\ exports' = [exports EXCEPT ![n].answered = TRUE]
  BY DEF Answer, ReceiverTypeOK
<1>2. exports[n] \in Request /\ exports[n].batch \in Batches
  BY <1>1, RequestFields
<1>3. DOMAIN exports' = DOMAIN exports
  BY <1>1
<1>4. \A m \in DOMAIN exports : /\ exports'[m] \in Request
                                /\ exports'[m].batch = exports[m].batch
                                /\ exports'[m].at = exports[m].at
                                /\ exports'[m].next = exports[m].next
                                /\ exports'[m].intact = exports[m].intact
  <2>1. [exports[n] EXCEPT !.answered = TRUE] \in Request
    BY <1>2 DEF Request
  <2>2. \A m \in DOMAIN exports : exports[m] \in Request
    BY <1>1, RequestFields
  <2>3. QED
    BY <1>1, <2>1, <2>2 DEF Request
<1>5. exports' \in Seq(Request)
  <2>1. exports' = [m \in 1 .. Len(exports) |-> exports'[m]]
        /\ Len(exports) \in Nat
    BY <1>1, RequestFields
  <2>2. exports' \in [1 .. Len(exports) -> Request]
    BY <1>1, <1>4, <2>1, RequestFields
  <2>3. QED
    BY <2>1, <2>2
<1>6. QED
  BY <1>2, <1>3, <1>4, <1>5

\* An answer keeps the count.
LEMMA AnswerInv ==
    ASSUME ReceiverInv, NEW n \in DOMAIN exports, Answer(n)
    PROVE  ReceiverInv'
<1>1. ReceiverTypeOK
  BY DEF ReceiverInv
<1>2. /\ exports' \in Seq(Request)
      /\ DOMAIN exports' = DOMAIN exports
      /\ \A m \in DOMAIN exports : /\ exports'[m].batch = exports[m].batch
                                   /\ exports'[m].at = exports[m].at
                                   /\ exports'[m].next = exports[m].next
      /\ exports[n].batch \in Batches
  BY <1>1, AnswerRequests
<1>3. /\ acked' \in {acked, acked \cup {exports[n].batch}}
      /\ UNCHANGED <<ledgers, stores, table>>
  BY DEF Answer
<1>4. /\ ledgers \in [Replicas \X Accounts -> Ledgers!Entry \cup {Absent}]
      /\ table \in [Replicas -> Tables]
      /\ acked \subseteq Batches
  BY <1>1 DEF ReceiverTypeOK, Ledgers!LedgerTypeOK
<1>5. QED
  BY <1>2, <1>3, <1>4, RequestsRest

\* The requests of a process that dies are handled by no process.
LEMMA DieRequests ==
    ASSUME exports \in Seq(Request), NEW r \in Replicas, Die(r)
    PROVE  /\ exports' \in Seq(Request)
           /\ DOMAIN exports' = DOMAIN exports
           /\ \A n \in DOMAIN exports :
                  /\ exports'[n].batch = exports[n].batch
                  /\ exports'[n].next = exports[n].next
                  /\ exports'[n].at =
                         IF exports[n].at = r THEN Absent ELSE exports[n].at
                  /\ exports'[n].intact <=>
                         exports[n].intact /\ exports[n].at # r
<1>1. /\ DOMAIN exports' = DOMAIN exports
      /\ \A n \in DOMAIN exports :
             /\ exports'[n] \in Request
             /\ exports'[n].batch = exports[n].batch
             /\ exports'[n].next = exports[n].next
             /\ exports'[n].at =
                    IF exports[n].at = r THEN Absent ELSE exports[n].at
             /\ exports'[n].intact <=> exports[n].intact /\ exports[n].at # r
  <2>1. \A n \in DOMAIN exports : exports[n] \in Request
    BY RequestFields
  <2>2. exports' = [n \in DOMAIN exports |->
                       IF exports[n].at = r
                       THEN [exports[n] EXCEPT !.at = Absent, !.intact = FALSE]
                       ELSE exports[n]]
    BY DEF Die
  <2>3. QED
    BY <2>1, <2>2 DEF Request
<1>2. exports' \in Seq(Request)
  <2>1. exports' = [n \in DOMAIN exports |-> exports'[n]]
    BY DEF Die
  <2>2. exports' \in [1 .. Len(exports) -> Request] /\ Len(exports) \in Nat
    BY <1>1, <2>1, RequestFields
  <2>3. QED
    BY <2>2
<1>3. QED
  BY <1>1, <1>2

\* A process that dies takes its calls along, and its requests.
LEMMA DieInv ==
    ASSUME ReceiverInv, NEW r \in Replicas, Die(r), UNCHANGED <<table, acked>>
    PROVE  ReceiverInv'
<1>1. /\ exports \in Seq(Request)
      /\ ledgers \in [Replicas \X Accounts -> Ledgers!Entry \cup {Absent}]
      /\ stores \in [Replicas \X Pods -> SUBSET Stores!Call]
  BY DEF ReceiverInv, ReceiverTypeOK, Ledgers!LedgerTypeOK, Stores!StoreTypeOK
<1>2. ledgers' \in [Replicas \X Accounts -> Ledgers!Entry \cup {Absent}]
  BY <1>1 DEF Die
<1>3. /\ stores' \in [Replicas \X Pods -> SUBSET Stores!Call]
      /\ \A key \in Replicas \X Pods :
             stores'[key] = IF key[1] = r THEN {} ELSE stores[key]
  BY <1>1 DEF Die
<1>4. \A key \in Replicas \X Pods : Numbered(stores'[key])
  <2>1. Numbered({})
    BY FS_EmptySet DEF Numbered
  <2>2. \A key \in Replicas \X Pods : Numbered(stores[key])
    BY DEF ReceiverInv
  <2>3. QED
    BY <1>3, <2>1, <2>2
<1>5. /\ exports' \in Seq(Request) /\ DOMAIN exports' = DOMAIN exports
      /\ \A n \in DOMAIN exports :
             /\ exports'[n].batch = exports[n].batch
             /\ exports'[n].next = exports[n].next
             /\ exports'[n].at =
                    IF exports[n].at = r THEN Absent ELSE exports[n].at
  BY <1>1, DieRequests
<1>6. ReceiverTypeOK'
  BY <1>2, <1>3, <1>5
     DEF ReceiverInv, ReceiverTypeOK, Ledgers!LedgerTypeOK, Stores!StoreTypeOK
<1>7. ASSUME NEW q \in Replicas, NEW pod \in Pods, NEW tool \in Tools
      PROVE  Cardinality(Recorded(stores'[<<q, pod>>], tool)) =
                 Weighed(Heard(pod, tool), exports', At(exports', q))
  <2>1. CASE q = r
    <3>1. At(exports', q) = {}
      BY <1>5, <2>1, NothingAssumption DEF At
    <3>2. Weighed(Heard(pod, tool), exports', {}) = 0
      BY FS_EmptySet, SumStep DEF Weighed
    <3>3. Recorded(stores'[<<q, pod>>], tool) = {}
      BY <1>3, <2>1 DEF Recorded
    <3>4. QED
      BY <3>1, <3>2, <3>3, FS_EmptySet
  <2>2. CASE q # r
    <3>1. At(exports', q) = At(exports, q)
      BY <1>5, <2>2, NothingAssumption DEF At
    <3>2. \A n \in At(exports, q) : /\ exports'[n].batch = exports[n].batch
                                    /\ exports'[n].next = exports[n].next
      BY <1>5 DEF At
    <3>3. stores'[<<q, pod>>] = stores[<<q, pod>>]
      BY <1>3, <2>2
    <3>4. Heard(pod, tool) \in Weights
      BY HeardType
    <3>5. Weighed(Heard(pod, tool), exports', At(exports', q)) =
              Weighed(Heard(pod, tool), exports, At(exports, q))
      BY <1>1, <1>5, <3>1, <3>2, <3>4, CountKept
    <3>6. QED
      BY <3>3, <3>5 DEF ReceiverInv, Counted
  <2>3. QED
    BY <2>1, <2>2
<1>8. QED
  BY <1>4, <1>6, <1>7 DEF ReceiverInv, Counted

-----------------------------------------------------------------------------
(* What the invariant says of whole batches.                                *)

\* A sum over requests of an amount per batch bounds what they have handled so
\* far, and is that once they have handled everything.
LEMMA TotalBounds ==
    ASSUME exports \in Seq(Request), NEW weight \in Weights,
           NEW amount \in [Batches -> Nat],
           \A b \in Batches : \A k \in Nat \ {0} :
               /\ weight[b][k] <= amount[b]
               /\ k > Len(SpansOf[b]) => weight[b][k] = amount[b],
           NEW S \in SUBSET DOMAIN exports
    PROVE  /\ Total(amount, S) \in Nat
           /\ Weighed(weight, exports, S) \in Nat
           /\ Weighed(weight, exports, S) <= Total(amount, S)
           /\ (\A n \in S : Handled(exports[n])) =>
                  Total(amount, S) = Weighed(weight, exports, S)
<1> DEFINE f == [n \in DOMAIN exports |->
                     weight[exports[n].batch][exports[n].next]]
           g == [n \in DOMAIN exports |-> amount[exports[n].batch]]
<1>1. IsFiniteSet(S) /\ Weighed(weight, exports, S) \in Nat
  BY WeighedType
<1>2. \A n \in S : /\ exports[n].batch \in Batches
                   /\ exports[n].next \in Nat \ {0}
  BY RequestFields
<1>3. \A n \in S : f[n] \in Nat /\ g[n] \in Nat /\ f[n] <= g[n]
  BY <1>2 DEF Weights
<1>4. ASSUME NEW n \in S, Handled(exports[n])
      PROVE  f[n] = g[n]
  <2>1. Len(SpansOf[exports[n].batch]) \in Nat
    BY <1>2, BatchSpans
  <2>2. exports[n].next > Len(SpansOf[exports[n].batch])
    BY <1>4 DEF Handled
  <2>3. QED
    BY <1>2, <2>1, <2>2
<1>5. /\ Total(amount, S) = SumFunctionOnSet(g, S)
      /\ Weighed(weight, exports, S) = SumFunctionOnSet(f, S)
  BY DEF Total, Weighed
<1> HIDE DEF f, g
<1>6. SumFunctionOnSet(g, S) \in Nat
  BY <1>1, <1>3, SumType
<1>7. SumFunctionOnSet(f, S) <= SumFunctionOnSet(g, S)
  BY <1>1, <1>3, SumPointwise
<1>8. ASSUME \A n \in S : Handled(exports[n])
      PROVE  SumFunctionOnSet(f, S) = SumFunctionOnSet(g, S)
  BY <1>1, <1>3, <1>4, <1>8, SumSame
<1>9. QED
  BY <1>1, <1>5, <1>6, <1>7, <1>8

\* The stores match what was exported, whatever the order of the handlers.
LEMMA CallsMatch == ReceiverInv => CallsMatchExports
<1> SUFFICES ASSUME ReceiverInv,
                    NEW r \in Replicas, NEW pod \in Pods, NEW tool \in Tools
             PROVE  LET here     == [b \in Batches |->
                                         Cardinality(Calls(b, pod, tool))]
                        sent     == {n \in DOMAIN exports : exports[n].at = r}
                        finished == {n \in sent : Handled(exports[n])}
                        recorded == {call \in stores[<<r, pod>>] :
                                         call.tool = tool}
                    IN  /\ Total(here, finished) <= Cardinality(recorded)
                        /\ Cardinality(recorded) <= Total(here, sent)
  BY DEF CallsMatchExports
<1> DEFINE heard    == Heard(pod, tool)
           here     == [b \in Batches |-> Cardinality(Calls(b, pod, tool))]
           sent     == {n \in DOMAIN exports : exports[n].at = r}
           finished == {n \in sent : Handled(exports[n])}
           recorded == {call \in stores[<<r, pod>>] : call.tool = tool}
<1>1. exports \in Seq(Request)
  BY DEF ReceiverInv, ReceiverTypeOK
<1>2. Cardinality(recorded) = Weighed(heard, exports, sent)
  BY DEF ReceiverInv, Counted, Recorded, At
<1>3. heard \in Weights
  BY HeardType
<1>4. /\ here \in [Batches -> Nat]
      /\ \A b \in Batches : \A k \in Nat \ {0} :
             /\ heard[b][k] <= here[b]
             /\ k > Len(SpansOf[b]) => heard[b][k] = here[b]
  BY HeardSteps
<1>5. /\ sent \in SUBSET DOMAIN exports
      /\ finished \in SUBSET DOMAIN exports /\ finished \in SUBSET sent
      /\ \A n \in finished : Handled(exports[n])
  OBVIOUS
<1> HIDE DEF heard, here, sent, finished, recorded
<1>6. Weighed(heard, exports, sent) <= Total(here, sent)
  BY <1>1, <1>3, <1>4, <1>5, TotalBounds
<1>7. Total(here, finished) = Weighed(heard, exports, finished)
  BY <1>1, <1>3, <1>4, <1>5, TotalBounds
<1>8. Weighed(heard, exports, finished) <= Weighed(heard, exports, sent)
  BY <1>1, <1>3, <1>5, WeighedSubset
<1>9. QED
  BY <1>2, <1>6, <1>7, <1>8 DEF here, sent, finished, recorded
=============================================================================
