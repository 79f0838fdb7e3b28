---------------------------- MODULE OtlpReceiver ----------------------------
(***************************************************************************)
(* The OTLP/HTTP handler of internal/otelreceiver/receiver.go: every       *)
(* request runs in a goroutine of its own and takes its spans one by one,  *)
(* each a tool call for the span store and a charge to the ledger.  A      *)
(* request has no identity: an exporter that saw no answer sends the same  *)
(* batch again, maybe to another process, maybe while the first request is *)
(* still being handled.                                                    *)
(*                                                                         *)
(* The ledgers and the stores of all processes are one function each, with *)
(* the process as part of the key.  No time passes: what happens lies      *)
(* within one renewal period and one window.                               *)
(***************************************************************************)
EXTENDS Pricing

CONSTANTS
    Replicas,     \* processes of the operator
    Accounts,     \* ledger keys
    Pods,         \* span store keys
    Tools,        \* tool names
    Absent,       \* no entry, no object, no process
    Unset,        \* an attribute that a span or its resource does not have
    Batches,      \* what exporters have to deliver
    SpansOf,      \* SpansOf[b]: the spans of batch b in their order
    MaxExports    \* bound

\* A resource lacks its pod if it lacks the pod's name or its namespace.
Span == [pod    : Pods \cup {Unset},
         sa     : Accounts \cup {Unset},
         tool   : Tools \cup {Unset},
         name   : Tools \cup {Unset},
         model  : Models,
         input  : Nat \cup {Unset},
         output : Nat \cup {Unset}]

ASSUME SpansAssumption == SpansOf \in [Batches -> Seq(Span)]

ASSUME ExportsAssumption == MaxExports \in Nat

ASSUME NothingAssumption == /\ Absent \notin Replicas
                            /\ Unset \notin Nat \cup Accounts

VARIABLES
    ledgers,    \* Cache.entries of every process
    stores,     \* SpanStore.records of every process
    table,      \* Estimator.entries of every process
    exports,    \* every request ever sent, in order
    acked       \* batches whose exporter has got an answer

receiverVars == <<ledgers, stores, table, exports, acked>>

Ledgers == INSTANCE QuotaLedger WITH
    ServiceAccounts <- Replicas \X Accounts, ledger <- ledgers, clock <- 0

Stores == INSTANCE SpanStore WITH
    Pods <- Replicas \X Pods, records <- stores, clock <- 0

ASSUME EntryAssumption == /\ Absent \notin Ledgers!Entry
                          /\ Unset \notin Ledgers!QuotaStates

\* at is the process that handles the request, or Absent if that is dead;
\* next its next span; intact is history: the ledger had an entry for all its
\* charges, and no reconcile has read the status back over them since.
Request == [batch    : Batches,
            at       : Replicas \cup {Absent},
            next     : Nat \ {0},
            intact   : BOOLEAN,
            answered : BOOLEAN]

ReceiverInit ==
    /\ ledgers = [key \in Replicas \X Accounts |-> Absent]
    /\ stores = [key \in Replicas \X Pods |-> {}]
    /\ table \in [Replicas -> Tables]
    /\ exports = <<>>
    /\ acked = {}

-----------------------------------------------------------------------------
\* extractToolName: an attribute, or the span's own name.
ToolName(span) == IF span.tool # Unset THEN span.tool ELSE span.name

IsCall(span) == span.pod # Unset /\ ToolName(span) # Unset

\* Mutant of Billable: only usage on both sides counts.
BillableBoth(span) ==
    /\ span.pod # Unset /\ span.sa # Unset
    /\ span.input # Unset /\ span.output # Unset

\* Usage on either side makes a span billable, if it has a pod and an account.
Billable(span) ==
    /\ span.pod # Unset /\ span.sa # Unset
    /\ span.input # Unset \/ span.output # Unset

\* attrInt64, whose value is 0 where there is none.  The code takes a negative
\* number as it is; exporters are assumed to send none.
Tokens(usage) == IF usage = Unset THEN 0 ELSE usage

Spans(b) == {SpansOf[b][i] : i \in DOMAIN SpansOf[b]}

Bills(b, sa) == \E span \in Spans(b) : Billable(span) /\ span.sa = sa

Handled(x) == x.next > Len(SpansOf[x.batch])

-----------------------------------------------------------------------------
\* An exporter posts batch b to process r, for the first time or again.
Export(b, r) ==
    /\ b \notin acked
    /\ Len(exports) < MaxExports
    /\ exports' = Append(exports,
           [batch |-> b, at |-> r, next |-> 1, answered |-> FALSE,
            intact |-> \A sa \in Accounts :
                           Bills(b, sa) => ledgers[<<r, sa>>] # Absent])
    /\ UNCHANGED <<ledgers, stores, table, acked>>

\* Mutant of RecordCall: only spans that cost something are recorded.
RecordBilledCall(r, span) ==
    IF IsCall(span) /\ Billable(span)
    THEN LET key == <<r, span.pod>>
         IN  Stores!Record(key, [tool |-> ToolName(span), at |-> 0,
                                 id |-> Cardinality(stores[key])])
    ELSE UNCHANGED stores

\* Store.Record, an append to the calls of the pod.
RecordCall(r, span) ==
    IF IsCall(span)
    THEN LET key == <<r, span.pod>>
         IN  Stores!Record(key, [tool |-> ToolName(span), at |-> 0,
                                 id |-> Cardinality(stores[key])])
    ELSE UNCHANGED stores

\* recordSpend: without a ledger entry the charge is dropped.
RecordCharge(r, span) ==
    IF Billable(span) /\ ledgers[<<r, span.sa>>] # Absent
    THEN Ledgers!RecordSpend(<<r, span.sa>>,
             Estimate(table[r], span.model,
                      Tokens(span.input), Tokens(span.output)))
    ELSE UNCHANGED ledgers

\* The next span of request n.
HandleSpan(n) ==
    LET x == exports[n]
    IN  /\ x.at # Absent /\ ~Handled(x)
        /\ RecordCall(x.at, SpansOf[x.batch][x.next])
        /\ RecordCharge(x.at, SpansOf[x.batch][x.next])
        /\ exports' = [exports EXCEPT ![n].next = @ + 1]
        /\ UNCHANGED <<table, acked>>

\* The 200 at the end, which may get lost on its way.
Answer(n) ==
    LET x == exports[n]
    IN  /\ x.at # Absent /\ Handled(x) /\ ~x.answered
        /\ exports' = [exports EXCEPT ![n].answered = TRUE]
        /\ acked' \in {acked, acked \cup {x.batch}}
        /\ UNCHANGED <<ledgers, stores, table>>

\* The process r dies with its ledger, its store and its goroutines.
Die(r) ==
    /\ ledgers' = [key \in DOMAIN ledgers |->
                       IF key[1] = r THEN Absent ELSE ledgers[key]]
    /\ stores' = [key \in DOMAIN stores |->
                      IF key[1] = r THEN {} ELSE stores[key]]
    /\ exports' = [n \in DOMAIN exports |->
                       IF exports[n].at = r
                       THEN [exports[n] EXCEPT !.at = Absent, !.intact = FALSE]
                       ELSE exports[n]]

-----------------------------------------------------------------------------
ReceiverTypeOK ==
    /\ Ledgers!LedgerTypeOK
    /\ Stores!StoreTypeOK
    /\ table \in [Replicas -> Tables]
    /\ exports \in Seq(Request)
    /\ acked \subseteq Batches

\* What each span of batch b costs at the prices of the reference.
Costs(b) ==
    [i \in DOMAIN SpansOf[b] |->
        LET span == SpansOf[b][i]
        IN  Cost(FairPrice(span.model),
                 Tokens(span.input), Tokens(span.output))]

\* The usage in batch b of pods under sa.
Owing(b, sa) == {i \in DOMAIN SpansOf[b] : /\ SpansOf[b][i].pod # Unset
                                           /\ SpansOf[b][i].sa = sa}

Worth(b, sa) == SumFunctionOnSet(Costs(b), Owing(b, sa))

\* The calls of tool by pod that batch b tells of.
Calls(b, pod, tool) == {i \in DOMAIN SpansOf[b] :
                            LET span == SpansOf[b][i]
                            IN  /\ IsCall(span) /\ span.pod = pod
                                /\ ToolName(span) = tool}

\* The sum of an amount per batch over requests, given by their numbers.
Total(amount, requests) ==
    SumFunctionOnSet([n \in DOMAIN exports |-> amount[exports[n].batch]],
                     requests)

\* Loop detection sees what was exported: in the process that handled it, a
\* finished request has left each of its calls in the store, billable or not,
\* and nothing is recorded more often than it was sent (receiver.go:172-204).
CallsMatchExports ==
    \A r \in Replicas, pod \in Pods, tool \in Tools :
        LET here     == [b \in Batches |-> Cardinality(Calls(b, pod, tool))]
            sent     == {n \in DOMAIN exports : exports[n].at = r}
            finished == {n \in sent : Handled(exports[n])}
            recorded == {call \in stores[<<r, pod>>] : call.tool = tool}
        IN  /\ Total(here, finished) <= Cardinality(recorded)
            /\ Cardinality(recorded) <= Total(here, sent)
=============================================================================
