------------------------------- MODULE Pricing -------------------------------
(***************************************************************************)
(* The price of a call to a model, internal/pricing/pricing.go.  A table   *)
(* is a list of glob patterns with a price each, longest pattern first; a  *)
(* model costs what the first pattern that matches it says, and a fallback *)
(* price if none does.                                                     *)
(*                                                                         *)
(* Money is in whole spend units and prices are per token, so that cost is *)
(* exact.  Set is left out: nothing but the tests calls it.                *)
(***************************************************************************)
EXTENDS Integers, SequencesExt

CONSTANTS
    Models,     \* names of models, "unknown" for a span that names none
    Patterns,   \* the keys of DefaultPrices
    Matches,    \* Matches[p]: the models that path.Match accepts under p
    Length,     \* Length[p]: how long pattern p is
    Prices,     \* Prices[p]: its price
    Fallback    \* fallbackPrice

ModelPrice == [input : Nat, output : Nat]

Longer(p, q) == Length[p] > Length[q]

\* No model falls under two patterns of one length.  DefaultPrices is so: its
\* two patterns of one length differ before their wildcard.
TieFree ==
    \A p, q \in Patterns :
        p # q /\ Length[p] = Length[q] => Matches[p] \cap Matches[q] = {}

ASSUME FiniteAssumption == IsFiniteSet(Patterns)

ASSUME PricingAssumption == /\ Matches \in [Patterns -> SUBSET Models]
                            /\ Length \in [Patterns -> Nat]
                            /\ Prices \in [Patterns -> ModelPrice]
                            /\ Fallback \in ModelPrice
                            /\ TieFree

\* What resort makes of a table; patterns of one length stay as they came.
Sorted(table) ==
    \A i, j \in DOMAIN table : i < j => ~Longer(table[j], table[i])

\* What NewEstimator may return: ranging over a map it meets the patterns in
\* any order, which decides between patterns of one length.
Tables == {table \in SetToSeqs(Patterns) : Sorted(table)}

Cost(price, input, output) == input * price.input + output * price.output

\* The patterns of table that match, by position.
Hits(table, model) == {i \in DOMAIN table : model \in Matches[table[i]]}

First(hits) == CHOOSE i \in hits : \A j \in hits : i <= j

\* The price Estimate settles on.
PriceOf(table, model) ==
    IF Hits(table, model) = {} THEN Fallback
    ELSE Prices[table[First(Hits(table, model))]]

Estimate(table, model, input, output) ==
    Cost(PriceOf(table, model), input, output)

-----------------------------------------------------------------------------
\* The reference: the longest pattern that matches has the say, wherever the
\* table holds it.
FairPrice(model) ==
    LET under == {p \in Patterns : model \in Matches[p]}
    IN  IF under = {} THEN Fallback
        ELSE Prices[CHOOSE p \in under : \A q \in under : ~Longer(q, p)]
=============================================================================
