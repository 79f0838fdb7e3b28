------------------------------ MODULE SpanStore ------------------------------
(***************************************************************************)
(* The sliding window of tool calls, SpanStore of                          *)
(* internal/otelreceiver/receiver.go: calls per "namespace/pod" behind one *)
(* RWMutex, so every method is one atomic action.  The OTLP handler        *)
(* records, the heuristic engine trims and reads.                          *)
(*                                                                         *)
(* The order of the calls of a pod is never looked at, so they are a set;  *)
(* id tells apart calls of one tool with one start time.                   *)
(***************************************************************************)
EXTENDS Integers, FiniteSets

CONSTANTS
    Pods,    \* keys, namespace + "/" + pod
    Tools    \* tool names

VARIABLES
    records,   \* SpanStore.records
    clock      \* time.Now, in ticks

Call == [tool : Tools, at : Nat, id : Nat]

StoreInit ==
    /\ records = [pod \in Pods |-> {}]
    /\ clock = 0

Record(pod, call) ==
    records' = [records EXCEPT ![pod] = @ \cup {call}]

Within(calls, age) == {call \in calls : call.at > clock - age}

Window(pod, age) == Within(records[pod], age)

\* Mutant of Trim: the cut-off is compared the wrong way round.
TrimRecent(maxAge) ==
    records' = [pod \in Pods |-> {call \in records[pod] :
                                      call.at <= clock - maxAge}]

Trim(maxAge) == records' = [pod \in Pods |-> Within(records[pod], maxAge)]

\* maxSameToolCount(calls) >= n, for n at least 1.
Repeats(calls, n) ==
    \E tool \in Tools :
        Cardinality({call \in calls : call.tool = tool}) >= n

StoreTypeOK ==
    /\ records \in [Pods -> SUBSET Call]
    /\ clock \in Nat
=============================================================================
