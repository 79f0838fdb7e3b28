------------------------ MODULE TokenQuotaReconciler ------------------------
(***************************************************************************)
(* The TokenQuota controller, internal/controller/tokenquota_controller.go,*)
(* between the API server and the ledger it shares with the OTLP receiver  *)
(* and the webhook.                                                        *)
(*                                                                         *)
(* Reconcile is one worker (controller-runtime's default concurrency).  It *)
(* reads a TokenQuota from the informer's copy, which lags behind the API  *)
(* server, and between two of its steps spans are billed, users edit the   *)
(* object, the watch delivers and time passes.  An update succeeds only if *)
(* nobody wrote the object since the version the worker holds: a version   *)
(* is never compared except for equality with the newest one, so the       *)
(* resourceVersion is the flag fresh.                                      *)
(***************************************************************************)
EXTENDS QuotaLedger, Sequences

CONSTANTS
    Quotas,      \* names of TokenQuota objects
    NameKey,     \* NameKey[q] is the key namespace + "/" + q
    SpecsOf,     \* SpecsOf[q] are the specs users give quota q
    Amounts,     \* what a run may cost, in spend units
    Patches,     \* states a user may write into a status
    Micro,       \* spend units in the last decimal status.spentUSD prints
    MaxClock, MaxRuns, MaxEdits, MaxFaults, MaxRestarts   \* bounds

ASSUME NameKeyAssumption == NameKey \in [Quotas -> ServiceAccounts]

ASSUME SpecsAssumption == SpecsOf \in [Quotas -> SUBSET QuotaSpec]

ASSUME SpendAssumption == /\ Amounts \subseteq Nat
                          /\ Micro \in Nat \ {0}
                          /\ Micro % 2 = 1     \* no ties in Printed

ASSUME PatchesAssumption == Patches \subseteq QuotaStates

ASSUME AbsentQuotaAssumption == Absent \notin Quotas

ASSUME BoundsAssumption ==
    {MaxClock, MaxRuns, MaxEdits, MaxFaults, MaxRestarts} \subseteq Nat

VARIABLES
    api,        \* the objects at the API server
    watch,      \* watch[q]: versions written but not yet seen by the informer
    informer,   \* the informer's copy, what client.Get returns
    queue,      \* the controller's work queue
    armed,      \* quotas with a RequeueAfter pending
    pc,         \* where Reconcile is
    req,        \* its request
    tq,         \* its local TokenQuota
    fresh,      \* tq still carries the newest resourceVersion of req
    billed,     \* history: spend accepted per account since its last renewal
    used        \* what the bounds count

objectVars == <<api, watch, informer>>
workerVars == <<pc, req, tq, fresh>>
vars == <<ledger, clock, objectVars, queue, armed, workerVars, billed, used>>

Steps == {"idle", "forget", "sync", "renew", "renewWrite", "openWrite",
          "report", "reportWrite"}

Bounded == {"runs", "edits", "faults", "restarts"}

NewStatus == [state |-> Unset, spent |-> Unset, runs |-> 0,
              renewal |-> Unset, updated |-> Unset]

Init ==
    /\ LedgerInit
    /\ api = [q \in Quotas |-> Absent]
    /\ watch = [q \in Quotas |-> <<>>]
    /\ informer = [q \in Quotas |-> Absent]
    /\ queue = {}
    /\ armed = {}
    /\ pc = "idle" /\ req = Absent /\ tq = Absent /\ fresh = FALSE
    /\ billed = [sa \in ServiceAccounts |-> 0]
    /\ used = [what \in Bounded |-> 0]

\* nextRenewal, every interval being some number of ticks.
NextRenewal(object) == clock + object.spec.interval

\* The object with its first renewal date, and a state if it has none.
FirstState(object) ==
    IF object.status.state = Unset THEN "Active" ELSE object.status.state

Opened(object, next) ==
    [object EXCEPT !.status = [@ EXCEPT
        !.renewal = next, !.state = FirstState(object)]]

\* The object at the start of its next period.
Renewed(object, next) ==
    [object EXCEPT !.status = [@ EXCEPT
        !.spent = 0, !.runs = 0, !.state = "Active", !.renewal = next]]

\* Mutant of Printed: amounts are rounded up.
PrintedUp(spent) == ((spent + Micro - 1) \div Micro) * Micro

\* strconv.FormatFloat(spent, 'f', 6, 64): the nearest printable amount.
Printed(spent) == ((spent + Micro \div 2) \div Micro) * Micro

\* The object with the account of the ledger entry.
Reported(object, entry) ==
    [object EXCEPT !.status = [@ EXCEPT
        !.spent = Printed(entry.spent), !.runs = entry.runs,
        !.state = entry.state, !.updated = clock]]

\* One write at the API server; a write that changes nothing is no event.
Store(q, object) ==
    IF api[q] = object
    THEN UNCHANGED <<api, watch>>
    ELSE /\ api' = [api EXCEPT ![q] = object]
         /\ watch' = [watch EXCEPT ![q] = Append(@, object)]

Spend(what) == used' = [used EXCEPT ![what] = @ + 1]

\* Reconcile returns: the worker is free, its locals are gone.
Return ==
    /\ pc' = "idle" /\ req' = Absent /\ tq' = Absent /\ fresh' = FALSE

\* Mutant of RequeueAfter and RequeueError: an empty Result, a nil error.
NoRequeue == UNCHANGED <<queue, armed>>

RequeueAfter == armed' = armed \cup {req} /\ UNCHANGED queue

\* A returned error puts the request back into the (rate limited) queue.
RequeueError == queue' = queue \cup {req} /\ UNCHANGED armed

-----------------------------------------------------------------------------
(* The steps of Reconcile.                                                 *)

Fetch(q) ==
    /\ pc = "idle" /\ q \in queue
    /\ queue' = queue \ {q}
    /\ req' = q
    /\ tq' = informer[q]
    /\ fresh' = (watch[q] = <<>>)
    /\ pc' = IF informer[q] = Absent THEN "forget" ELSE "sync"
    /\ UNCHANGED <<ledgerVars, objectVars, armed, billed, used>>

\* Mutant of Forget: NotFound is only ignored.
ForgetNothing ==
    /\ pc = "forget"
    /\ Return
    /\ UNCHANGED <<ledgerVars, objectVars, queue, armed, billed, used>>

\* NotFound: the entry deleted is the one keyed by the name of the quota.
Forget ==
    /\ pc = "forget"
    /\ Delete(NameKey[req])
    /\ Return
    /\ UNCHANGED <<clock, objectVars, queue, armed, billed, used>>

\* Cache.Sync, then the branch on the renewal date.  The branches that only
\* touch the worker's locals are taken in the same step.
SyncStep ==
    /\ pc = "sync"
    /\ Sync(tq)
    /\ IF Elapsed(tq.status.renewal)
       THEN pc' = "renew" /\ UNCHANGED tq
       ELSE IF tq.status.renewal = Unset
       THEN pc' = "openWrite" /\ tq' = Opened(tq, NextRenewal(tq))
       ELSE pc' = "report" /\ UNCHANGED tq
    /\ UNCHANGED <<clock, objectVars, queue, armed, req, fresh, billed, used>>

\* Cache.Reset and the renewed status; billed starts over with the period.
Renew ==
    /\ pc = "renew"
    /\ Reset(tq.spec.target)
    /\ billed' = [billed EXCEPT ![tq.spec.target] = 0]
    /\ tq' = Renewed(tq, NextRenewal(tq))
    /\ pc' = "renewWrite"
    /\ UNCHANGED <<clock, objectVars, queue, armed, req, fresh, used>>

\* Cache.Get, copied into the local status.
Report ==
    /\ pc = "report"
    /\ LET entry == ledger[tq.spec.target]
       IN  IF entry = Absent
           THEN Return /\ RequeueAfter
           ELSE /\ tq' = Reported(tq, entry)
                /\ pc' = "reportWrite"
                /\ UNCHANGED <<queue, armed, req, fresh>>
    /\ UNCHANGED <<ledgerVars, objectVars, billed, used>>

-----------------------------------------------------------------------------
(* Status().Update and what Reconcile does with each outcome.              *)

Writing == pc \in {"renewWrite", "openWrite", "reportWrite"}

\* Mutant of UpdateAccepted: the update carries no resourceVersion.
UpdateUnconditional ==
    /\ Writing
    /\ Store(req, tq)
    /\ IF pc = "openWrite"
       THEN pc' = "report" /\ UNCHANGED <<req, tq, fresh, queue, armed>>
       ELSE Return /\ RequeueAfter
    /\ UNCHANGED <<ledgerVars, informer, billed, used>>

UpdateAccepted ==
    /\ Writing /\ fresh
    /\ Store(req, tq)
    /\ IF pc = "openWrite"
       THEN pc' = "report" /\ UNCHANGED <<req, tq, fresh, queue, armed>>
       ELSE Return /\ RequeueAfter
    /\ UNCHANGED <<ledgerVars, informer, billed, used>>

\* A conflict, the object having moved on, or NotFound, it being gone.  Only
\* the last update of Reconcile tells the two apart and drops the conflict.
UpdateRejected ==
    /\ Writing /\ ~fresh
    /\ Return
    /\ IF pc = "reportWrite" /\ api[req] # Absent
       THEN RequeueAfter
       ELSE RequeueError
    /\ UNCHANGED <<ledgerVars, objectVars, billed, used>>

\* The call fails on the way; the server may have applied it.
UpdateFaulted ==
    /\ Writing /\ used["faults"] < MaxFaults
    /\ \/ UNCHANGED objectVars
       \/ fresh /\ Store(req, tq) /\ UNCHANGED informer
    /\ Return /\ RequeueError
    /\ Spend("faults")
    /\ UNCHANGED <<ledgerVars, billed>>

-----------------------------------------------------------------------------
(* The watch, the timers, users, spans, time and the process itself.       *)

Deliver(q) ==
    /\ watch[q] # <<>>
    /\ informer' = [informer EXCEPT ![q] = Head(watch[q])]
    /\ watch' = [watch EXCEPT ![q] = Tail(@)]
    /\ queue' = queue \cup {q}
    /\ UNCHANGED <<ledgerVars, api, armed, workerVars, billed, used>>

TimerFires(q) ==
    /\ q \in armed
    /\ armed' = armed \ {q}
    /\ queue' = queue \cup {q}
    /\ UNCHANGED <<ledgerVars, objectVars, workerVars, billed, used>>

\* A user's write to quota q, which outdates the version the worker holds.
UserWrites(q, object) ==
    /\ used["edits"] < MaxEdits /\ Spend("edits")
    /\ api[q] # object
    /\ Store(q, object)
    /\ fresh' = (fresh /\ q # req)
    /\ UNCHANGED <<ledgerVars, informer, queue, armed, pc, req, tq, billed>>

CreateQuota(q, spec) ==
    api[q] = Absent /\ UserWrites(q, [spec |-> spec, status |-> NewStatus])

EditSpec(q, spec) ==
    api[q] # Absent /\ UserWrites(q, [api[q] EXCEPT !.spec = spec])

\* Of a status users write the state only.
PatchState(q, state) ==
    api[q] # Absent /\ UserWrites(q, [api[q] EXCEPT !.status.state = state])

DeleteQuota(q) == api[q] # Absent /\ UserWrites(q, Absent)

\* The OTLP receiver bills one span to sa; no charge is negative, which the
\* code leaves to the exporters.
Bill(sa, usd) ==
    /\ used["runs"] < MaxRuns /\ Spend("runs")
    /\ RecordSpend(sa, usd)
    /\ billed' = [billed EXCEPT ![sa] = @ + usd]
    /\ UNCHANGED <<clock, objectVars, queue, armed, workerVars>>

Tick ==
    /\ clock < MaxClock
    /\ clock' = clock + 1
    /\ UNCHANGED <<ledger, objectVars, queue, armed, workerVars, billed, used>>

\* The operator dies and comes back: an empty ledger, a fresh list of all
\* objects, every one of them queued.
Restart ==
    /\ used["restarts"] < MaxRestarts /\ Spend("restarts")
    /\ ledger' = [sa \in ServiceAccounts |-> Absent]
    /\ informer' = api
    /\ watch' = [q \in Quotas |-> <<>>]
    /\ queue' = {q \in Quotas : api[q] # Absent}
    /\ armed' = {}
    /\ Return
    /\ UNCHANGED <<clock, api, billed>>

-----------------------------------------------------------------------------
Reconcile ==
    \/ \E q \in Quotas : Fetch(q)
    \/ Forget
    \/ SyncStep
    \/ Renew
    \/ Report
    \/ UpdateAccepted
    \/ UpdateRejected

Users ==
    \E q \in Quotas :
        \/ \E spec \in SpecsOf[q] : CreateQuota(q, spec) \/ EditSpec(q, spec)
        \/ \E state \in Patches : PatchState(q, state)
        \/ DeleteQuota(q)

Next ==
    \/ Reconcile
    \/ UpdateFaulted
    \/ \E q \in Quotas : Deliver(q) \/ TimerFires(q)
    \/ Users
    \/ \E sa \in ServiceAccounts, usd \in Amounts : Bill(sa, usd)
    \/ Tick
    \/ Restart

Spec == Init /\ [][Next]_vars

\* The worker runs, the work queue is first in, first out, the watch delivers,
\* timers fire.  Nothing obliges users, spans, faults, restarts or the clock.
Fairness ==
    /\ WF_vars(Reconcile)
    /\ \A q \in Quotas : /\ SF_vars(Fetch(q))
                         /\ WF_vars(Deliver(q))
                         /\ WF_vars(TimerFires(q))

FairSpec == Spec /\ Fairness

-----------------------------------------------------------------------------
TypeOK ==
    /\ LedgerTypeOK
    /\ api \in [Quotas -> TokenQuota \cup {Absent}]
    /\ watch \in [Quotas -> Seq(TokenQuota \cup {Absent})]
    /\ informer \in [Quotas -> TokenQuota \cup {Absent}]
    /\ queue \subseteq Quotas
    /\ armed \subseteq Quotas
    /\ pc \in Steps
    /\ req \in Quotas \cup {Absent}
    /\ tq \in TokenQuota \cup {Absent}
    /\ fresh \in BOOLEAN
    /\ billed \in [ServiceAccounts -> Nat]
    /\ used \in [Bounded -> Nat]
    /\ pc # "idle" => req \in Quotas
    /\ pc \notin {"idle", "forget"} => tq \in TokenQuota

\* What rounding may have added: half a printed decimal per run at most.
Rounding == (Micro \div 2) * used["runs"]

\* No account is overcharged: as long as its period lasts, neither the ledger
\* entry nor the durable status shows more spend than the runs billed to the
\* account since its last renewal, whatever stale version Sync copies back
\* (cache.go:87-95) and however often a renewal is retried (controller:50-65).
\* One quota per account, whose target is not changed.
NeverOvercharged ==
    /\ \A sa \in ServiceAccounts :
           ledger[sa] # Absent /\ ~Elapsed(ledger[sa].renewal) =>
               ledger[sa].spent <= billed[sa] + Rounding
    /\ \A q \in Quotas :
           api[q] # Absent /\ api[q].status.spent # Unset
           /\ ~Elapsed(api[q].status.renewal) =>
               api[q].status.spent <= billed[api[q].spec.target] + Rounding

\* A denial for spend is earned in the current period: the webhook treats an
\* account as Exceeded only if runs billed since the last renewal reach some
\* budget its quotas were given; a verdict of the previous period that a late
\* or retried reconcile brings back never denies (cache.go:116-119).
EarnedDenial ==
    \A sa \in ServiceAccounts :
        Check(sa) = "Exceeded" =>
            \E q \in Quotas : \E spec \in SpecsOf[q] :
                /\ spec.target = sa
                /\ AsInt64(spec.budget) > 0
                /\ billed[sa] + Rounding >= AsInt64(spec.budget)

\* Reconcile is at work on quota q and has yet to say when it comes back.
InHand(q) == req = q /\ pc \notin {"idle", "forget"}

\* No quota is lost: whatever was read stale, rejected, left unanswered or cut
\* short by a restart, something still to happen brings Reconcile back to every
\* quota there is: a request, a timer, an undelivered version, or the call under
\* way.  Nothing scans the quotas, so a return of Reconcile without an error or
\* a RequeueAfter (controller:61-64, 74-75, 89-101) would leave a quiet quota and
\* its renewal behind for good; the one there is, on NotFound (controller:39-41),
\* may be taken on a stale copy of a quota that exists again.
NeverForgotten ==
    \A q \in Quotas :
        api[q] # Absent =>
            q \in queue \/ q \in armed \/ watch[q] # <<>> \/ InHand(q)

\* The durable record of every quota is kept as DurableQuota promises.
Durable == INSTANCE DurableQuota WITH
    Specs   <- UNION {SpecsOf[q] : q \in Quotas},
    States  <- QuotaStates,
    durable <- api,
    now     <- clock,
    edits   <- used["edits"]

\* The reconciler implements DurableQuota: within a period the durable spend
\* never shrinks, it is cleared only after its renewal date, and it moves only
\* with a run, whatever conflicts, lost answers, stale reads and restarts lie
\* between Reconcile's Sync, Get and Update.
DurableRecordKept == Durable!Spec

Unrenewed(q, date) ==
    api[q] # Absent /\ api[q].status.renewal = date /\ clock > date

\* A renewal that is due is written in the end: conflicts, lost answers and
\* restarts delay it, and a late Reconcile never skips it (controller:50-65).
RenewalHappens ==
    \A q \in Quotas, date \in 0..MaxClock :
        Unrenewed(q, date) ~> ~Unrenewed(q, date)

Mirrored(q) ==
    api[q] # Absent =>
        LET status == api[q].status
            entry  == ledger[api[q].spec.target]
        IN  /\ entry # Absent
            /\ entry.max = AsInt64(api[q].spec.budget)
            /\ entry.renewal = status.renewal
            /\ entry.state = status.state
            /\ entry.spent = status.spent
            /\ entry.runs = status.runs

\* ADR 003: "Cache is always eventually consistent".  Once users, faults,
\* restarts and spans are over, the ledger and the durable record agree for
\* every quota and stay so, with the limits of the newest spec.
EventuallyMirrored == <>[](\A q \in Quotas : Mirrored(q))

Governed(sa) == \E q \in Quotas : api[q] # Absent /\ api[q].spec.target = sa

\* README: a missing TokenQuota means fail-open.  Once its quota is deleted an
\* account is allowed again for good (controller:38-41, cache.go:174-178).
DeletionReleases ==
    <>[](\A sa \in ServiceAccounts : ~Governed(sa) => ledger[sa] = Absent)

-----------------------------------------------------------------------------
(* What the documentation says and the code does not do.                   *)

\* Nothing is left to reconcile: every version written has been delivered and
\* handled, and the last Reconcile has returned.
Settled == pc = "idle" /\ queue = {} /\ \A q \in Quotas : watch[q] = <<>>

\* docs/why-kovern.md: "Once a ServiceAccount exhausts its monthly/daily budget,
\* no new agent pods can run": when an account has billed its ceiling in the
\* running period and nothing is left to reconcile, the webhook denies.
\* Sync puts the spend of the durable status back over what RecordSpend added
\* since, so the next reconcile forgets it (cache.go:88-95, controller:47).
ExhaustedIsDenied ==
    Settled =>
        \A sa \in ServiceAccounts :
            /\ ledger[sa] # Absent /\ ledger[sa].max > 0
            /\ ledger[sa].renewal # Unset /\ ~Elapsed(ledger[sa].renewal)
            /\ billed[sa] >= ledger[sa].max
            => Verdict(sa) = "Denied"

\* docs/why-kovern.md: "Patch the TokenQuota to increase the limit [...].
\* Changes take effect within seconds": when nothing is left to reconcile, an
\* account is Exceeded only if its spend reaches the ceiling in force.
\* Sync replaces the ceiling and keeps the state of the status (cache.go:80-89).
RaisedLimitReadmits ==
    Settled =>
        \A sa \in ServiceAccounts :
            Check(sa) = "Exceeded" => ledger[sa].spent >= ledger[sa].max

\* tokenquota_types.go: "MaxFinancialBudget is the hard cap in the given
\* currency": when nothing is left to reconcile, an account whose ledger entry
\* shows the budget of its quota as spent in the running period is denied.
\* AsInt64 gives 0 for "12.50", which computeState reads as no ceiling at all
\* (cache.go:72, 187-190).
CapIsHard ==
    Settled =>
        \A q \in Quotas :
            LET sa == api[q].spec.target
            IN  /\ api[q] # Absent /\ ledger[sa] # Absent
                /\ ~Elapsed(ledger[sa].renewal)
                /\ ledger[sa].spent >= api[q].spec.budget.amount
                => Verdict(sa) = "Denied"
=============================================================================
