--------------------------- MODULE KovernReplicas ---------------------------
(***************************************************************************)
(* Several replicas of the operator, as cmd/main.go wires them and the     *)
(* chart runs them.  Every process has a ledger, a span store and a price  *)
(* table of its own and serves the admission webhook from the start.  The  *)
(* controllers, the OTLP receiver and the engine are runnables that wait   *)
(* for the lease if leader election is on; if it is off all processes run  *)
(* them.  What processes share is the status of the TokenQuotas.           *)
(*                                                                         *)
(* Reconcile reads what the informer of its process has, which lags.  It is*)
(* coarse here in that no period ends, nobody edits a quota, and Cache.Get *)
(* and the update after it are one step; TokenQuotaReconciler has it in    *)
(* full, for one process.                                                  *)
(***************************************************************************)
EXTENDS OtlpReceiver

CONSTANTS
    Elections,    \* values of the flag --leader-elect to look at
    BudgetOf,     \* BudgetOf[sa]: the spec of the quota of account sa
    AgentPods,    \* pods to be created
    AccountOf,    \* AccountOf[p]: serviceAccountName of p, or Unset
    Default,      \* the account "default" of the namespace
    MaxCrashes,   \* bound, for either value of the flag
    Workload      \* bound: the batches exported, for either value of it

ASSUME ElectionsAssumption == Elections \subseteq BOOLEAN

ASSUME AccountsAssumption == /\ Default \in Accounts
                             /\ AccountOf \in [AgentPods ->
                                                   Accounts \cup {Unset}]

ASSUME BudgetsAssumption == /\ BudgetOf \in [Accounts -> Ledgers!QuotaSpec]
                            /\ Absent \notin Ledgers!TokenQuota

ASSUME BoundsAssumption == /\ MaxCrashes \in [BOOLEAN -> Nat]
                           /\ Workload \in [BOOLEAN -> SUBSET Batches]

VARIABLES
    elects,     \* the flag --leader-elect
    up,         \* processes that run
    leader,     \* the holder of the lease
    quota,      \* the TokenQuota of each account at the API server
    feed,       \* the copy in the informer of a process, then what follows it
    held,       \* what the Reconcile under way in a process has read
    told,       \* history: the processes whose Reconcile has read a verdict
    running,    \* pods that were let in
    crashes     \* what MaxCrashes bounds

quotaVars == <<quota, feed>>

vars == <<receiverVars, elects, up, leader, quotaVars, held, told, running,
          crashes>>

controlVars == <<elects, up, leader, running, crashes>>

Init ==
    /\ ReceiverInit
    /\ elects \in Elections
    /\ up = Replicas /\ leader = Absent
    /\ quota = [sa \in Accounts |-> Absent]
    /\ feed = [key \in Replicas \X Accounts |-> <<Absent>>]
    /\ held = [r \in Replicas |-> Absent]
    /\ told = {}
    /\ running = {}
    /\ crashes = 0

\* The runnables of r are started.
Leads(r) == r \in up /\ (elects => leader = r)

-----------------------------------------------------------------------------
(* The lease and the processes.                                            *)

\* The controller starts in r: its informer lists the quotas.
List(r) ==
    feed' = [key \in DOMAIN feed |->
                 IF key[1] = r THEN <<quota[key[2]]>> ELSE feed[key]]

Elect(r) ==
    /\ elects /\ leader = Absent /\ r \in up
    /\ leader' = r
    /\ List(r)
    /\ UNCHANGED <<receiverVars, elects, up, quota, held, told, running,
                   crashes>>

\* A process dies, or exits because it lost the lease.
Crash(r) ==
    /\ r \in up /\ crashes < MaxCrashes[elects]
    /\ crashes' = crashes + 1
    /\ up' = up \ {r}
    /\ leader' = IF leader = r THEN Absent ELSE leader
    /\ feed' = [key \in DOMAIN feed |->
                    IF key[1] = r THEN <<Absent>> ELSE feed[key]]
    /\ held' = [held EXCEPT ![r] = Absent]
    /\ told' = {key \in told : key[1] # r}
    /\ Die(r)
    /\ UNCHANGED <<table, acked, elects, quota, running>>

\* Mutant of Start: the price table is left empty.
StartUnpriced(r) ==
    /\ r \notin up
    /\ up' = up \cup {r}
    /\ table' = [table EXCEPT ![r] = <<>>]
    /\ IF elects THEN UNCHANGED feed ELSE List(r)
    /\ UNCHANGED <<ledgers, stores, exports, acked, elects, leader, quota,
                   held, told, running, crashes>>

Start(r) ==
    /\ r \notin up
    /\ up' = up \cup {r}
    /\ \E prices \in Tables : table' = [table EXCEPT ![r] = prices]
    /\ IF elects THEN UNCHANGED feed ELSE List(r)
    /\ UNCHANGED <<ledgers, stores, exports, acked, elects, leader, quota,
                   held, told, running, crashes>>

-----------------------------------------------------------------------------
(* The quotas, and Reconcile in the process r.                             *)

\* One write at the API server; a write that changes nothing is no event.
Store(sa, object) ==
    IF object = quota[sa]
    THEN UNCHANGED quotaVars
    ELSE /\ quota' = [quota EXCEPT ![sa] = object]
         /\ feed' = [key \in DOMAIN feed |->
                         IF key[2] = sa /\ Leads(key[1])
                         THEN Append(feed[key], object) ELSE feed[key]]

NewQuota(sa) == [spec   |-> BudgetOf[sa],
                 status |-> [state |-> Unset, spent |-> Unset, runs |-> 0,
                             renewal |-> Unset, updated |-> Unset]]

\* A user creates the quota of account sa.
CreateQuota(sa) ==
    /\ quota[sa] = Absent
    /\ Store(sa, NewQuota(sa))
    /\ UNCHANGED <<receiverVars, controlVars, held, told>>

\* The watch delivers the next version of the quota of sa to r.
See(r, sa) ==
    /\ Leads(r) /\ Len(feed[<<r, sa>>]) > 1
    /\ feed' = [feed EXCEPT ![<<r, sa>>] = Tail(@)]
    /\ UNCHANGED <<receiverVars, controlVars, quota, held, told>>

\* What client.Get returns in r.
Copy(r, sa) == Head(feed[<<r, sa>>])

Exceeds(object) == object # Absent /\ object.status.state \in Ledgers!Denying

\* Mutant of SyncStep: exhausted quotas are passed over until they renew.
SyncUnexhausted(r, sa) ==
    /\ Leads(r) /\ held[r] = Absent /\ Copy(r, sa) # Absent
    /\ IF Exceeds(Copy(r, sa))
       THEN UNCHANGED <<ledgers, held>>
       ELSE /\ ledgers' = [ledgers EXCEPT ![<<r, sa>>] =
                               Ledgers!Synced(@, Copy(r, sa))]
            /\ held' = [held EXCEPT ![r] = [sa |-> sa, tq |-> Copy(r, sa)]]
    /\ UNCHANGED <<exports, stores, table, acked, controlVars, quotaVars,
                   told>>

\* r.Get and Cache.Sync, whenever an event, a timer or an error queued sa.
SyncStep(r, sa) ==
    LET tq == Copy(r, sa)
    IN  /\ Leads(r) /\ held[r] = Absent /\ tq # Absent
        /\ ledgers' = [ledgers EXCEPT ![<<r, sa>>] = Ledgers!Synced(@, tq)]
        /\ held' = [held EXCEPT ![r] = [sa |-> sa, tq |-> tq]]
        /\ told' = IF Exceeds(tq) THEN told \cup {<<r, sa>>} ELSE told
        /\ exports' = [n \in DOMAIN exports |->
               [exports[n] EXCEPT !.intact = @ /\ ~(/\ exports[n].at = r
                                           /\ Bills(exports[n].batch, sa))]]
        /\ UNCHANGED <<stores, table, acked, controlVars, quotaVars>>

\* The quota is as the Reconcile of r has read it, so that an update of its
\* status goes through; a write that moved only LastUpdated counts as none.
Current(r) == quota[held[r].sa] = held[r].tq

\* The object with its first renewal date and a state.
Opened(object) ==
    [object EXCEPT !.status = [@ EXCEPT !.renewal = 1, !.state = "Active"]]

\* The first update; a conflict ends the Reconcile.
OpenStep(r) ==
    /\ held[r] # Absent /\ held[r].tq.status.renewal = Unset
    /\ IF Current(r)
       THEN /\ Store(held[r].sa, Opened(held[r].tq))
            /\ held' = [held EXCEPT ![r].tq = Opened(@)]
       ELSE held' = [held EXCEPT ![r] = Absent] /\ UNCHANGED quotaVars
    /\ UNCHANGED <<receiverVars, controlVars, told>>

\* The object with the account of the ledger entry.
Reported(object, entry) ==
    [object EXCEPT !.status = [@ EXCEPT
        !.spent = entry.spent, !.runs = entry.runs, !.state = entry.state]]

\* Mutant of ReportStep: the status is written without a look at versions.
ReportUnconditional(r) ==
    /\ held[r] # Absent /\ held[r].tq.status.renewal # Unset
    /\ Store(held[r].sa, Reported(held[r].tq, ledgers[<<r, held[r].sa>>]))
    /\ held' = [held EXCEPT ![r] = Absent]
    /\ UNCHANGED <<receiverVars, controlVars, told>>

\* Cache.Get and the last update, whose conflict is dropped.
ReportStep(r) ==
    /\ held[r] # Absent /\ held[r].tq.status.renewal # Unset
    /\ IF Current(r)
       THEN Store(held[r].sa,
                  Reported(held[r].tq, ledgers[<<r, held[r].sa>>]))
       ELSE UNCHANGED quotaVars
    /\ held' = [held EXCEPT ![r] = Absent]
    /\ UNCHANGED <<receiverVars, controlVars, told>>

-----------------------------------------------------------------------------
(* Admission.  The Service spreads reviews over all replicas.              *)

\* The account Handle asks for.
Reviewed(p) == IF AccountOf[p] = Unset THEN Default ELSE AccountOf[p]

Admit(p, r) ==
    /\ p \notin running /\ r \in up
    /\ Ledgers!Verdict(<<r, Reviewed(p)>>) # "Denied"
    /\ running' = running \cup {p}
    /\ UNCHANGED <<receiverVars, elects, up, leader, quotaVars, held, told,
                   crashes>>

\* The review goes to a replica that is down: failurePolicy Ignore.
AdmitUnreviewed(p, r) ==
    /\ p \notin running /\ r \notin up
    /\ running' = running \cup {p}
    /\ UNCHANGED <<receiverVars, elects, up, leader, quotaVars, held, told,
                   crashes>>

Receive ==
    /\ \/ \E b \in Workload[elects], r \in Replicas : Leads(r) /\ Export(b, r)
       \/ \E n \in DOMAIN exports : HandleSpan(n) \/ Answer(n)
    /\ UNCHANGED <<controlVars, quotaVars, held, told>>

Next ==
    \/ \E r \in Replicas : Elect(r) \/ Crash(r) \/ Start(r)
    \/ \E sa \in Accounts : CreateQuota(sa)
    \/ \E r \in Replicas, sa \in Accounts : See(r, sa) \/ SyncStep(r, sa)
    \/ \E r \in Replicas : OpenStep(r) \/ ReportStep(r)
    \/ \E p \in AgentPods, r \in Replicas :
           Admit(p, r) \/ AdmitUnreviewed(p, r)
    \/ Receive

Spec == Init /\ [][Next]_vars

\* Processes come back, one of them gets the lease, the watch delivers, and in
\* a process that leads the worker takes the quotas in turn.  Nothing obliges
\* exporters.
Fairness ==
    /\ WF_vars(\E r \in Replicas : Elect(r))
    /\ \A r \in Replicas : WF_vars(Start(r)) /\ WF_vars(OpenStep(r))
                           /\ WF_vars(ReportStep(r))
    /\ \A r \in Replicas, sa \in Accounts : /\ WF_vars(See(r, sa))
                                           /\ SF_vars(SyncStep(r, sa))

FairSpec == Spec /\ Fairness
-----------------------------------------------------------------------------
TypeOK ==
    /\ ReceiverTypeOK
    /\ elects \in BOOLEAN
    /\ up \subseteq Replicas
    /\ leader \in up \cup {Absent}
    /\ quota \in [Accounts -> Ledgers!TokenQuota \cup {Absent}]
    /\ feed \in [Replicas \X Accounts ->
                     Seq(Ledgers!TokenQuota \cup {Absent})]
    /\ held \in [Replicas ->
                     [sa : Accounts, tq : Ledgers!TokenQuota] \cup {Absent}]
    /\ told \subseteq Replicas \X Accounts
    /\ running \subseteq AgentPods
    /\ crashes \in Nat

\* Money is neither lost nor made up: the spend of an account in a ledger
\* covers what finished requests charged there since the last reconcile, and
\* neither a ledger nor the durable status ever shows more than what was
\* exported, a batch counting as often as it was sent.  Each at the price of
\* the longest pattern, whatever order the processes hold their tables in.
\* Concurrent handlers, retries, crashes within a request and a failover that
\* brings the status to another process lie in between (receiver.go:206-240,
\* pricing.go:92-112, cache.go:124-142).
SpendMatchesExports ==
    \A sa \in Accounts :
        LET owed == [b \in Batches |-> Worth(b, sa)]
            sent == Total(owed, DOMAIN exports)
        IN  /\ quota[sa] # Absent /\ quota[sa].status.spent # Unset =>
                   quota[sa].status.spent <= sent
            /\ \A r \in Replicas :
                   LET entry    == ledgers[<<r, sa>>]
                       finished == {n \in DOMAIN exports :
                                        /\ exports[n].at = r
                                        /\ exports[n].intact
                                        /\ Handled(exports[n])}
                   IN  /\ Total(owed, finished) > 0 => entry # Absent
                       /\ entry # Absent =>
                              /\ Total(owed, finished) <= entry.spent
                              /\ entry.spent <= sent

Denies(r, sa) == Ledgers!Verdict(<<r, sa>>) = "Denied"

Exhausted(sa) == Exceeds(quota[sa])

\* A process admits against the durable verdict only until its Reconcile has
\* read a version with the verdict.  From then on it stands by the verdict as
\* long as it lives, whatever it has reported itself before, and whatever stale
\* copies, charges, reconciles that race and failovers follow (cache.go:86-142,
\* controller:38-47, 80-91).  Until then an older copy, synced once more after
\* the verdict was written, takes even its author's denial back.
OnlyTheUntoldAdmit ==
    \A sa \in Accounts, r \in up :
        /\ Exhausted(sa) => Denies(r, sa) \/ <<r, sa>> \notin told
        /\ <<r, sa>> \in told => Exhausted(sa)

Existing == {sa \in Accounts : quota[sa] # Absent}

Durable == INSTANCE DurableQuota WITH
    Quotas  <- Accounts,
    Specs   <- {BudgetOf[sa] : sa \in Accounts},
    States  <- Ledgers!QuotaStates,
    durable <- quota,
    now     <- 0,
    edits   <- Cardinality(Existing)

\* What one reconciler owes the durable record, several keep as well: also when
\* leader election is off and every process reconciles the same quotas from a
\* ledger of its own, and across failovers, the durable spend never shrinks
\* and moves only with a run (controller:46-92, main.go:71-77).
DurableRecordKept == Durable!Spec

\* A verdict survives the process that made it: in the end whoever leads denies
\* every account whose durable status does (cache.go:86-95, controller:46-47).
DenialReturns ==
    <>[](\A sa \in Accounts :
             Exhausted(sa) => /\ \E r \in Replicas : Leads(r)
                              /\ \A r \in Replicas : Leads(r) => Denies(r, sa))

-----------------------------------------------------------------------------
(* What the documentation says and the code does not do.                   *)

\* tokenquota_types.go: "QuotaStateExceeded means the hard budget has been
\* breached; new runs are denied."  No pod of an account is let in while the
\* durable verdict and that of every process which reconciles deny it.
\* A standby never syncs its ledger and answers reviews from it
\* (main.go:71-109).
ExhaustedStaysOut ==
    [][\A p \in AgentPods :
           p \in running' \ running /\ Exhausted(Reviewed(p)) =>
               \E r \in Replicas : Leads(r) /\ ~Denies(r, Reviewed(p))]_vars
=============================================================================
