-------------------------- MODULE MCKovernReplicas --------------------------
(***************************************************************************)
(* Small instances of KovernReplicas.                                      *)
(***************************************************************************)
EXTENDS KovernReplicas

\* "gpt-4o-mini*" and "gpt-4o*", which matches a superset.
MCPatterns == {"4o-mini", "4o"}

MCMatches == ("4o-mini" :> {"gpt-4o-mini"}) @@
             ("4o"      :> {"gpt-4o-mini", "gpt-4o"})

MCLength == ("4o-mini" :> 12) @@ ("4o" :> 7)

Price(input, output) == [input |-> input, output |-> output]

MCPrices == ("4o-mini" :> Price(1, 1)) @@ ("4o" :> Price(2, 3))

MCFallback == Price(1, 2)

\* One attribute set per span: a cheap call of a tool, an expensive one, a
\* call that costs nothing, and usage of a resource without a pod.
MiniCall == [pod |-> "pod", sa |-> "agent", tool |-> "search", name |-> "chat",
             model |-> "gpt-4o-mini", input |-> 1, output |-> 1]

UnknownModel == [MiniCall EXCEPT !.tool = Unset, !.model = "unknown",
                                 !.output = Unset]

PlainCall == [MiniCall EXCEPT !.input = Unset, !.output = Unset]

NoPod == [MiniCall EXCEPT !.pod = Unset]

MCSpansOf == [a |-> <<UnknownModel, NoPod, PlainCall>>, b |-> <<MiniCall>>]

MCBudgetOf == [sa \in {"agent"} |->
                   [target |-> <<"r1", "agent">>, soft |-> 80, interval |-> 1,
                    budget |-> [amount |-> 2, whole |-> TRUE]]]

MCAccountOf == [new |-> Unset]

\* The large batch under leader election, the small one without it.
MCWorkload == [election \in BOOLEAN |-> IF election THEN {"a"} ELSE {"b"}]

\* One crash and a failover; or none, and two processes that reconcile.
OneCrash == [election \in BOOLEAN |-> IF election THEN 1 ELSE 0]

NoCrash == [election \in BOOLEAN |-> 0]
=============================================================================
