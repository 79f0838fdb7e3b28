------------------------ MODULE MCTokenQuotaReconciler ------------------------
(* Small instances of TokenQuotaReconciler.                                  *)
EXTENDS TokenQuotaReconciler

Quota(sa, amount, interval) ==
    [target |-> sa, budget |-> [amount |-> amount, whole |-> TRUE],
     soft |-> 50, interval |-> interval]

\* One account, a quota named like it, a budget that users move up and down.
SoloNameKey == [q \in {"agent"} |-> "agent"]
SoloSpecs   == [q \in {"agent"} |->
                   {Quota("agent", 2, 1), Quota("agent", 3, 1)}]

\* The same in amounts that fall between two printed decimals: with Micro of
\* three, a run of four is printed as three, and two of them as nine.
FineSpecs == [q \in {"agent"} |->
                 {Quota("agent", 6, 1), Quota("agent", 9, 1)}]

\* The same account under a budget nobody edits.
FixedSpecs == [q \in {"agent"} |-> {Quota("agent", 2, 1)}]

\* A budget with decimals, two units of spend in all: AsInt64 has no fast path
\* for it.
FractionalSpecs ==
    [q \in {"agent"} |->
        {[Quota("agent", 2, 1) EXCEPT !.budget.whole = FALSE]}]

\* A quota whose name is not that of its account, as in every example of the
\* repository; the key of its name belongs to nobody.
ApartNameKey == [q \in {"agent-quota"} |-> "agent-quota"]
ApartSpecs   == [q \in {"agent-quota"} |-> {Quota("agent", 2, 1)}]

\* Two accounts, each governed by the quota named like the other one.
CrossedNameKey == [q \in {"red", "blue"} |-> q]
CrossedSpecs   == [q \in {"red", "blue"} |->
                      {Quota(IF q = "red" THEN "blue" ELSE "red", 1, 1)}]
=============================================================================
