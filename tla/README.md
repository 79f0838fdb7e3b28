# Kovern in TLA+

Kovern is a Kubernetes operator that gives AI agent workloads a budget.  A
`TokenQuota` binds a budget to a ServiceAccount; OpenTelemetry spans report
what its agents spend; an admission webhook refuses new pods once the budget is
gone.  A `LivelockPolicy` names the pods whose tool calls are watched for loops
and what to do with a pod that loops.  This directory models that program,
model-checks it with TLC and proves its main promises with TLAPS.

## The system

| Part | Source | State | Operations |
|---|---|---|---|
| Quota ledger | `internal/ledger/cache.go` | one entry per `namespace/serviceAccount`: ceiling, soft limit, spend, runs, state, renewal date; a RWMutex | `Sync`, `RecordSpend`, `Check`, `Get`, `Reset`, `Delete` |
| TokenQuota controller | `internal/controller/tokenquota_controller.go` | none of its own; writes `TokenQuota.status` | `Reconcile` |
| Admission webhook | `internal/webhook/admission.go` | none | `Handle` |
| OTLP receiver, span store | `internal/otelreceiver/receiver.go` | tool calls per `namespace/pod`; a RWMutex | `ServeHTTP`, `recordSpend`, `Record`, `Window`, `Trim` |
| Heuristic engine | `internal/heuristic/engine.go` | cooldown per `namespace/pod` | `Start`, `evaluate` |
| Remediation executor | `internal/remediation/executor.go` | none; writes `LivelockPolicy.status` | `Remediate` |
| Pricing estimator | `internal/pricing/pricing.go` | the price table, fixed after start | `Estimate`, `Set` |
| Semantic detector | `internal/detector/*.go` | none | `IsLivelocked`, called by nobody |
| LivelockPolicy controller | `internal/controller/livelockpolicy_controller.go` | none | `Reconcile`, which only logs |
| Wiring | `cmd/main.go` | per process one ledger, one span store, one price table; the lease | start-up, leader election |

How they interact.  The ledger is shared memory between three goroutine
families: the controller's worker (`Sync`, `Reset`, `Get`, `Delete`), the HTTP
handlers of the receiver (`RecordSpend`) and those of the webhook (`Check`).
Each method holds the lock for its whole body, so each is atomic, but
`Reconcile` calls several of them with API calls in between.  The controller
reads objects from an informer's copy and writes the status with optimistic
concurrency.  The receiver also feeds the span store, which the engine's ticker
trims and reads; the engine calls the executor, which deletes pods, scales
Deployments and updates the policy's status.  With several replicas each process
has all of this in its own memory: the webhook answers in every one of them, the
other parts wait for the lease if leader election is on and run everywhere if it
is off.  The status of the TokenQuotas is all that the processes share.

What makes it hard: the status is both the input of `Sync` (it overwrites the
ledger) and its output; the informer's copy is older than the newest write;
updates conflict, or their answers get lost; two updates of one `Reconcile` may
half succeed; a restart empties the ledger; a renewal is cleared in the ledger
first and in the status later; time passes between any two steps.  Exporters that
see no answer send a batch again, concurrent requests interleave span by span,
and a process that dies takes half a batch with it.

What makes it correct, part by part:

- ledger and controller: nobody is charged twice, nobody is denied for the last
  period, the durable status only moves by a first period, charges and
  renewals, no quota is forgotten, every renewal happens, ledger and status
  converge, a deleted quota lets go of its account;
- webhook: denies exactly Exceeded and Suspended, and never because it knows
  nothing;
- receiver: each span is billed to the account it names and recorded for its
  pod as often as it was sent, neither more nor less, at its model's price;
- replicas: a verdict outlives the process that made it;
- engine and executor: a loop within the window is acted upon, at most once per
  cooldown, and counted;
- pricing: the most specific pattern decides.

## The modules

`QuotaLedger` is `cache.go`: `Entry`, the operators the methods compute
(`Synced`, `Charged`, `Cleared`, `ComputeState`), the methods as actions
(`Sync`, `RecordSpend`, `Reset`, `Delete`), `Check`, and `Verdict`, the switch
of `admission.go`.  `ledger` is `Cache.entries`, `clock` is `Cache.now`.

`TokenQuotaReconciler` extends it with everything `Reconcile` talks to.

| Variable | In the code |
|---|---|
| `api` | the TokenQuota objects at the API server |
| `watch`, `informer` | the watch events under way and the informer's copy |
| `queue`, `armed` | the work queue, and the pending `RequeueAfter`s |
| `pc`, `req`, `tq`, `fresh` | the worker: where it is, its request, its local object, and whether that object still has the newest resourceVersion |
| `billed` | history: what was billed to an account since its renewal |
| `used` | what the bounds count |

| Action | In the code |
|---|---|
| `Fetch` | the request is taken, `r.Get` reads the informer's copy |
| `Forget` | NotFound: `Cache.Delete(req.Name)` |
| `SyncStep` | `Cache.Sync`, the test of `NextRenewal`, the first period |
| `Renew` | `Cache.Reset` and the renewed status |
| `Report` | `Cache.Get` and the reported status |
| `UpdateAccepted`, `UpdateRejected`, `UpdateFaulted` | the outcomes of the three `Status().Update` calls and the return that follows each |
| `Deliver`, `TimerFires` | the watch and the timers of controller-runtime |
| `CreateQuota`, `EditSpec`, `PatchState`, `DeleteQuota` | users, through the API |
| `Bill` | `recordSpend` of the receiver |
| `Tick`, `Restart` | time; the process dies and starts again |

`DurableQuota` is the abstract specification: what the operator owes the
durable record, in terms of the objects, the clock and the users only.  Users
create, edit and remove; the operator opens the first period, charges runs
(spend and runs never shrink within a period, and move only together with a new
run) and renews (only after the date that was promised, to a later date).
`DurableRecordKept` in `TokenQuotaReconciler` is its refinement.

`SpanStore` is the type of that name in `receiver.go`: `records` holds the tool
calls per pod, `clock` is `time.Now`; `Record`, `Window`, `Trim` are its
methods, each under the lock for its whole body, and `Repeats` is
`maxSameToolCount` compared with the maximum.

`LivelockEngine` extends it with `engine.go`, `executor.go` and what they talk
to.

| Variable | In the code |
|---|---|
| `pods`, `policies`, `scaled` | pods with their phase, LivelockPolicies and suspended Deployments at the API server; `revision` is its newest resourceVersion |
| `seenPods`, `seenPolicies` | the informers' copies, from which `List` answers |
| `cooldown`, `woke` | `Engine.cooldown` and the last tick of the ticker |
| `pc`, `held`, `todo`, `policy`, `batch` | `evaluate`: where it is, the listed policies, those still to do, the one at hand and its running pods |
| `pod`, `applied`, `failed` | `Remediate`: its pod, `appliedAction`, `actionErr` |
| `tried`, `reported`, `blamed`, `found`, `acked` | history: the writes of this remediation, the calls reported and those that set off a remediation, detections, acknowledged updates |
| `used` | what the bounds count |

| Action | In the code |
|---|---|
| `Wake`, `WakeInVain` | the ticker fires: `Trim`, and `List` of the policies that succeeds or fails |
| `ListPods`, `SkipPolicy`, `PodsDone`, `TickEnds` | the loop over policies, with a selector or `List` that fails |
| `PassOver`, `Flag` | a pod that is on cooldown or in no loop; a pod in a loop, whose cooldown starts |
| `EvictPod`, `EvictFails` | `evictPod` |
| `Orphan`, `LookupFails`, `SuspendWorkload`, `SuspendFails` | the ways through `suspendWorkload` |
| `StatusAccepted`, `StatusRejected`, `StatusFaulted` | the outcomes of `updateStatus`, and the return of `Remediate` |
| `Report` | `Record` by the OTLP handler |
| `PodMoves`, `ScaleUp`, `CreatePolicy`, `TouchPolicy`, `DeletePolicy`, `SeePod`, `SeePolicy`, `Tick`, `Restart` | the cluster, its users, the informers, time, the process |

`Pricing` is `pricing.go`.  A table is a sequence of patterns; `Tables` are those
that `NewEstimator` may build, since it ranges over a map before `resort`;
`PriceOf` and `Estimate` take the first hit; `FairPrice` is the reference, the
longest pattern that matches.  That no model falls under two patterns of one
length (`TieFree`) is an assumption, and true of `DefaultPrices`.

`OtlpReceiver` extends it with the handler of `receiver.go` and takes
`QuotaLedger` and `SpanStore` as instances whose keys carry the process.

| Variable | In the code |
|---|---|
| `ledgers`, `stores`, `table` | `Cache.entries`, `SpanStore.records` and `Estimator.entries` of every process |
| `exports` | every request sent: its batch, the goroutine's process and next span, whether it was answered; `intact` is history |
| `acked` | batches whose exporter saw an answer and sends them no more |

| Action | In the code |
|---|---|
| `Export` | an exporter posts a batch, for the first time or again |
| `HandleSpan` | one turn of the innermost loop of `ServeHTTP`: `RecordCall` is `Store.Record` with `extractToolName`, `RecordCharge` is `recordSpend` |
| `Answer` | the 200, which may get lost |
| `Die` | the process is gone with its memory |

`KovernReplicas` extends that with `main.go` for several processes.

| Variable | In the code |
|---|---|
| `elects`, `leader`, `up` | `--leader-elect`, the holder of the lease, the processes that run |
| `quota` | the TokenQuotas at the API server |
| `feed` | per process and account: first the copy in the informer, which `client.Get` returns (`Copy`), then the versions the watch has yet to deliver |
| `told` | history: the processes whose `Reconcile` has read a denying verdict of an account since they started |
| `held` | the local object of the `Reconcile` under way in a process |
| `running` | the pods that were let in |
| `crashes` | what its bound counts |

| Action | In the code |
|---|---|
| `Elect`, `Crash`, `Start` | the lease is taken; a process dies; it comes back with a new ledger, store and table.  Where the controller starts, its informer lists the quotas (`List`) |
| `See` | the watch delivers the next version |
| `SyncStep`, `OpenStep`, `ReportStep` | `Reconcile`: up to `Cache.Sync`, the first status update, the last one |
| `Admit`, `AdmitUnreviewed` | `Handle` of one replica lets a pod in; a review that reaches none, under the chart's `failurePolicy: Ignore` |
| `Receive` | the OTLP server of the processes that lead |
| `CreateQuota` | a user, through the API |

`DurableRecordKept` says here that several reconcilers together implement the
same `DurableQuota` as one does.

`MCTokenQuotaReconciler`, `MCLivelockEngine` and `MCKovernReplicas` hold the small
instances.  Definitions introduced by
"Mutant of" are variations with a plausible bug; no specification uses them,
they show that each property notices that bug.

### What is abstracted

- Money is counted in whole units, so sums are exact; the error of printing six
  decimals is kept (`Printed`, `Micro` units per printed decimal).  The float
  error of the sums themselves is not modelled.
- `SpentTokens` is written and read wherever `RunCount` is and decides nothing.
  `EnforcementAction`, `Currency`, `Limits` and `UpdatedAt` are read by no code.
- A resourceVersion is only compared with the newest one: the flag `fresh`.
- The length of a `RequeueAfter` is left open: a pending timer may fire at any
  time.  Only that there is one matters, and only for liveness.
- Intervals are numbers of ticks; calendar months are not modelled.
- A ServiceAccount stands for the key `namespace/name`, and `NameKey[q]` for
  the key made of the quota's own name, which `Forget` uses.
- A restart is atomic: the informer lists everything before the worker starts,
  as the manager's cache sync guarantees; the webhook's answers before the
  first reconcile are those of the empty ledger.
- The calls of a pod are a set; nobody looks at their order.  Two calls of one
  tool with one start time are told apart by `id`.
- A call begins now or some ticks ago (`Lags`): the pods' clocks are not ahead
  of the operator's.
- The test of the cooldown, the reading of the window and the start of the
  cooldown are one step.  Only the engine's goroutine touches the cooldown, and
  a call recorded between them is a call recorded before or after them.
- `Interval = 0` lets the ticker fire at any time, which covers late and
  bunched ticks.  With `Prompt` a tick is evaluated before time goes on, and
  then `Interval` is the ticker's.
- The phases of a pod other than Running are one, Pending.  The criteria of a
  policy do not change while it exists; any other edit moves its version.
- `LastDetection` and `LastAffectedPod` are written and never read.
- In `OtlpReceiver` and `KovernReplicas` no time passes: all lies within one
  renewal period and one window.  Prices are per token and costs are exact.
  `Estimator.Set` is left out, since only tests call it.
- The two effects of a span, on the store and on the ledger, are one step: they
  touch different objects and nothing reads both.
- Requests that are no POST or cannot be decoded are answered and change
  nothing, so they are no actions; nor are reviews of other operations.
- `Reconcile` is coarse in `KovernReplicas`.  It reads the informer's copy of its
  process, which lags, and its updates conflict if that is old; but `Cache.Get`
  and the last update (`controller:80-89`) are one step, updates do not fail
  otherwise, a write that moves only `LastUpdated` is no new version, and there are
  no renewals, edits or deletions.  `TokenQuotaReconciler` has all that.  A request
  is taken at any time, since every event, timer and error queues one.
- Usage and charges are natural numbers in every module (`Tokens`, `Amounts`).  The
  code does not check that: `attrInt64` (`receiver.go:253-277`) passes a negative
  number on, and a negative charge would lower the spend in ledger and status and
  let `computeState` reopen an Exceeded account.  What is said here about money
  and verdicts presupposes reporters that send none.
- Of a status users write the state only (`PatchState`).  The helper `setTQStatus`
  of `tests/integration/tokenquota_test.go:17-37` writes `spentUSD` and `nextRenewal`
  as well; such a write would set the account by hand, and `DurableQuota`, which
  says that only runs move the spend, has no step for it.
- An error of `r.Get` other than NotFound (`controller:43`) is left out: it changes
  nothing and requeues the request.
- A process that loses the lease exits, as controller-runtime does; it and a
  crash are one action.  The five seconds in which a graceful shutdown lets
  requests finish are left out: there, `Answer` comes before `Crash`.

## What TLC checks

| Run | Instance | Checks | Shows |
|---|---|---|---|
| `reconciler_faults` | one quota, 2 runs of 4/3 of a printed decimal, 3 ticks, 2 user writes, 1 fault, 1 restart | `TypeOK`, `NeverOvercharged`, `EarnedDenial`, `NeverForgotten`, `DurableRecordKept` | safety under every interleaving of stale reads, conflicts, lost answers and a restart; rounding adds at most half a decimal per run; something pending brings `Reconcile` back to every quota |
| `reconciler_liveness` | one quota, 1 run, fair | `RenewalHappens`, `EventuallyMirrored`, `DeletionReleases` | renewals happen; ledger and status converge; deletion releases, for a quota named like its account |
| `reconciler_crossed` | two quotas, each named like the other's account | `EventuallyMirrored`, `DurableRecordKept` | the wrong entry deleted by `Forget` comes back with the next requeue |
| `engine_two_policies` | two policies with windows of 1 and 2 ticks on one unowned pod, 2 calls, late spans, 2 user writes, 1 fault | `TypeOK`, `EvictionsReported`, `DetectionsAccounted`, `CallsCountOnce` | one remediation per set of calls; an event that says evict exactly if it was asked for; a count between acknowledged updates and detections |
| `engine_liveness` | one pod of a Deployment, suspended on a loop, 1 fault, 1 restart, fair | `LoopNeverIgnored` | a pod that stays in a loop comes under cooldown |
| `engine_paced` | interval 1, window 3, cooldown 2, prompt ticks, no faults, fair, time goes on | `LoopIsCaught` | no loop within the window less the interval slips between two ticks |
| `spend_forgotten` | violated | `ExhaustedIsDenied` | runs billed between two reconciles are forgotten |
| `deletion_leaks` | violated | `DeletionReleases` | a quota not named like its account leaves its entry behind |
| `raise_ignored` | violated | `RaisedLimitReadmits` | raising a budget does not lift a denial |
| `fractional_budget` | violated | `CapIsHard` | a budget with decimals is no budget |
| `replicas` | two replicas, leader election on with one crash and a batch of three spans, or off without a crash and a batch of one; one account, two requests, one pod; fair | `TypeOK`, `SpendMatchesExports`, `CallsMatchExports`, `OnlyTheUntoldAdmit`, `DurableRecordKept`, `DenialReturns` | spend and calls are what was exported through retries, concurrent requests, crashes, failover and informers that lag; a process whose `Reconcile` has read a verdict stands by it; two reconcilers keep the durable record; a denial comes back after a failover |
| `standby_admits` | violated | `ExhaustedStaysOut` | a standby lets in what the leader denies |

The runs marked violated state what the documentation or a comment says; TLC shows a
behaviour of the code that does otherwise.  `NeverOvercharged` and
`ExhaustedIsDenied` are the two directions of one question: the ledger may show
too little, never too much.  `CapIsHard` holds in the instance of
`fractional_budget` once the budget is whole (`FixedSpecs`), so it is the fraction
that breaks it.

`OnlyTheUntoldAdmit` and `ExhaustedStaysOut` belong together: who may admit against
a durable verdict, and for how long.  A process stands by the verdict from the
moment its `Reconcile` has read a version that carries it, and not before.  That
includes the process that wrote it: its informer still has the previous version,
a request queued for that one syncs the entry back to Active (`cache.go:88-95`),
and the webhook of the leader admits pods of the exhausted account until the watch
delivers the leader's own write and `Reconcile` reads it.  This window closes by
itself (`DenialReturns`).  For a standby it never closes: nothing but `Reconcile`
makes entries, and it waits for the lease.  So of two replicas with leader election
the standby admits every pod of an exhausted account that it is asked about, not
only in the first milliseconds after a start.

Seen while modelling, too, and not given a run: when the first status update
of `Reconcile` goes through and the second does not, `Sync` takes the state from
the status and keeps the spend of the ledger, so an account over its ceiling may
be Active (`cache.go:88-95`); `fallbackAction` is not executed when the primary
action fails (`executor.go:50-57`, against `livelockpolicy_types.go:104`); the
event says SuspendWorkload also when the ReplicaSet could not be read and nothing
was done (`executor.go:122`, against its line 42); a window longer than the ten
minutes the store keeps loses calls (`engine.go:60`); calls that nearly fill the
window have begun to leave it at the next tick, so the sharp form of "N times in
M seconds" (`docs/roadmap.md:47`) is the window less the interval, which is what
`LoopIsCaught` says; a window longer than the fixed cooldown of two minutes, which
`windowSeconds` allows, remediates a pod twice for the same calls
(`engine.go:146`, against its line 8; `CallsCountOnce` holds for windows up to
the cooldown, and `ShortWindows` below is that assumption); a status update of a
policy that conflicts with a user's edit is logged and never repeated, so the
detection is not counted (`executor.go:82`, against `livelockpolicy_types.go:148`;
`DetectionsAccounted` is what does hold); a batch sent again is billed again and
its calls count again, since spans have no identity in the handler
(`SpendMatchesExports` counts a batch as often as it was sent); charges for an
account whose quota no `Sync` has seen yet are dropped and still answered with
200 (`receiver.go:234`); `Restart` of the engine empties `reported` with the store, so
`LoopNeverIgnored` is about calls reported to the process that runs, which are
all that the code can act on.

Bounds.  `MaxClock = 2` with an interval of one tick lets a first period start,
pass its date and be renewed.  Two runs suffice to pass the soft limit and the
ceiling, and to bill one run on either side of any step.  In `reconciler_faults`
the ceilings are 6 and 9, a run costs 4 and a printed decimal is 3 units, so one
run is printed too low (3) and two too high (9).  Two user writes make
create-and-edit, create-and-patch and create-and-delete; three make the
re-creation, in `reconciler_crossed`.  One fault and one restart hit any one
point of a behaviour.  For the quota runs deadlock is not checked: once the
bounds are used up and all quotas are deleted the operator rightly rests.

For the engine, clocks are small numbers with the code's order: window at most
cooldown at most what the store keeps; in `engine_paced` the window is longer than
the cooldown, so that the cooldown runs out before the window.  Two calls are the fewest that
make a loop of a threshold of two; three in `engine_paced` make a second loop.
Two moves start a pod and stop or re-create it, which two detections of the pod
need.  In `engine_paced` deadlock is not checked, since time and with it the
ticker stop at `MaxClock`; `LoopIsCaught` leaves out what begins less than an
interval before that.  Elsewhere the ticker may always fire, so deadlock is
checked.  That two pods of one tick share the listed copy of a policy, and that
a policy is deleted and re-created under its remediation, is beyond these
instances; `DetectionsCorrect` below covers both.

For the replicas, two processes are a leader and a standby, or two reconcilers
that race.  Two requests are the same batch sent twice, to one process or across
a failover, or at once.  Under leader election the batch has three spans, so that a
crash and the spans of the other request come in between: usage of an unknown
model given on one side only, a resource without a pod, a call that costs nothing.
Without it the batch is one cheap call, and the ledgers of both processes see one
request each (`Workload`).  Either way two requests reach the budget of two, so
that the verdict is made, written, read by stale informers, and lost with the
process that made it.  The crash is spent under leader election, where failover
matters; without it two processes race (`OneCrash`).  That is 595,820 states.
Nothing keeps the processes from going on, so deadlock is checked.

Fairness (`FairSpec`).  `Reconcile` is weakly fair: the worker is a goroutine
that runs whenever it has something to do.  `Fetch(q)` is strongly fair: the
work queue is first in, first out, so a queued request is taken although the
worker is busy, and `Fetch` disabled, again and again.  `Deliver` and
`TimerFires` are weakly fair: the watch and the timers deliver.  Nothing is
assumed of users, spans, faults, restarts and the clock.

In `LivelockEngine` the engine is one goroutine whose `select` takes a tick
whenever there is one, so its successful steps are weakly fair as a whole
(failures are bounded, never fair); so is each informer.  `TimedSpec` adds that
time goes on, which `LoopIsCaught` needs for the next tick to come.

In `KovernReplicas` processes are restarted by their Deployment and one of those
that run gets a free lease, both weakly fair.  The steps of a `Reconcile` under way
are weakly fair, being the worker's only work; that it takes up quota `sa` is
strongly fair, since the work queue is first in, first out and every quota comes
back after five minutes at the latest.  The watch delivers (`See`), weakly fair.
Nothing is assumed of exporters, spans,
answers, pods and crashes.

## What is proved

Every safety property that a run checks, every action property and both
refinements are theorems, for every value of the constants; three of them need a
hypothesis, which their item names.  What is left to TLC is liveness.

### One reconciler

The theorems hold for any set of quotas and accounts, any specs, amounts and
bounds; the assumptions are the ones named in `QuotaLedger` and
`TokenQuotaReconciler` (specs and amounts are well typed, model values are not
ordinary values, an odd number of units per printed decimal so that rounding
has no ties).

- `TokenQuotaReconcilerProofs!TypeCorrect`: `Spec => []TypeOK`.  `TypeOK` is
  inductive because it records that the worker holds an object wherever it
  uses one.
- `TokenQuotaRefinementProofs!HeldVersionsKept`: `Spec => []IInv`.
- `TokenQuotaRefinementProofs!DurableRecordImplemented`:
  `Spec => DurableRecordKept`, the refinement, quotas that share an account or
  change their target included.
- `TokenQuotaRefinementProofs!NoQuotaIsLost`: `Spec => []NeverForgotten`.  A request
  leaves the queue for the worker's hands, or for an object that is absent in the
  informer's copy; by `InformerOK` that object is absent at the API server too, or
  the watch has yet to deliver it.
- `TokenQuotaSpendProofs!ChargedOnlyWhatWasBilled`:
  `Spec => []NeverOvercharged`, if no two quotas ever name one account and none
  ever changes its account (`OneQuotaPerAccount`).
- `TokenQuotaSpendProofs!DenialsAreEarned`: `Spec => []EarnedDenial`, if moreover no
  user writes Exceeded into a status by hand (`VerdictIsComputed`).

The refinement needs more than types.  The write of the worker is a step of
`DurableQuota` only if what it holds is what `DurableQuota` lets the newest
version become, which is `HeldOK`, conditional on `fresh`.  For the report this
depends on the ledger entry covering the status that was synced into it, from
`Sync` to `Get`, while spans are billed in between: `LedgerOK`.  That a status
is covered after printing depends on printing being monotone and on printed
amounts being printed unchanged (`PrintedMonotone`, `PrintedTwice`), and so on
every version under way carrying a printed amount: `VersionsOK`.  That `Fetch`
with an empty watch reads the newest version is `InformerOK`.  Their
conjunction `IInv` is inductive.

That nobody is overcharged needs more again, because the ledger is overwritten
with what a stale copy says.  So the bound has to hold of every version the
informer holds or has yet to see (`line`) and of the worker's copy, as long as the
version's own period lasts: `WithinOK`.  A renewal clears `billed` while versions
of the old period are still under way; they do no harm because their period is
over, and would if a version written later carried their account into the new
period.  `InOrder` says that it does not: of two versions in the line the later
one has the period of the earlier, or a clean account.  The worker may write only
into the period that every version in the line shows (`PeriodOK`), so a report of
the old period after the renewal is a conflict.  Between `Sync` and `Reset` the
entry may show an account that is over, and only then (`EntriesOK`): it is overdue,
so `Check` ignores it.  The verdict goes along with the account (`Judged`,
`EarnedBy`) and needs the ceiling of an entry to be that of some spec (`Ceiled`).
`IInv /\ SpendInv` is inductive.  Both hypotheses are needed: with two quotas on one
account TLC finds `NeverOvercharged` violated, one of them renewing what the
other's status still shows; an Exceeded written by hand is a denial nobody earned.

### Processes that share the durable record

`SumProofs` has the arithmetic of sums over finite sets.  The library's induction
theorems take an operator as parameter, which no installed prover can instantiate;
the lemmas are proved from the recursion of the sum on the set, taking a
counterexample of least cardinality.

`OtlpReceiverProofs` proves what the handler does to a store and a ledger span by
span.  A request under way has done the part of its batch before its next span;
`Weighed` sums these parts over a set of requests, a step moves the sum by what
the span at hand weighs (`WeighedHandle`), and the sum lies between what the finished
requests come to and what all of them would (`TotalBounds`).  The invariant
`ReceiverInv` says that a store has exactly the calls its requests have got to, so
that the bounds of `CallsMatchExports` need no case for a request that is under way
or cut off by a crash.

`KovernReplicasProofs`, for any processes, accounts, pods, batches, price tables and
bounds, with leader election and without:

- `TypeCorrect`: `Spec => []TypeOK`.
- `CallsAreRecorded`: `Spec => []CallsMatchExports`.
- `MoneyMatchesExports`: `Spec => []SpendMatchesExports`.
- `TheToldDeny`: `Spec => []OnlyTheUntoldAdmit`.
- `ReplicasKeepTheRecord`: `Spec => DurableRecordKept`: several reconcilers that race
  for one quota implement `DurableQuota`.

The inductive invariant is `ReceiverInv /\ ControlInv /\ SpendInv`, each part
preserved with the help of those before it (`ReceiverStep`, `ControlStep`,
`SpendStep`).  `ControlInv` has the shape of `IInv` above: what a `Reconcile` holds
is covered by its own entry, whatever is billed meanwhile (`HeldOK`, `Covers`,
`Grows`), and where it is the newest version the write is one `DurableQuota`
allows; an entry that covers a denying status denies.  The verdict of an entry fits
its spend (`EntriesOK`).  The versions a process has and has yet to see (`FeedsOK`)
are ordered: once one of them denies so do all that follow, and the status at the
API server.  So a process that has read a verdict (`ToldOK`) can read nothing older
any more, and no later version lifts it: its entry denies, from which
`OnlyTheUntoldAdmit` follows.  Neither leader election nor fresh reads are needed.
`SpendInv` brackets the money, span by span: an entry shows at least what the
requests at this process have charged that no `Sync` has cut into since
(`Intact`, `Kept`), and neither an entry nor a status shows more than all requests
have charged (`Done`); nor does any version a process may still read, since `Sync`
puts its spend back into the ledger (`FeedsBacked`).  Two processes agree about the cost of a span by
`EstimatesAgree`.

The assumptions are that the batches and budgets are well typed
(`BudgetsAssumption`, `EntryAssumption`, `BoundsAssumption` and those of `Pricing`); TLC evaluates them in
the run `replicas`.

Before they were proved the inductive invariants were checked by TLC: `SpendInv` on
the instance of `reconciler_faults` and on one with two quotas, `ControlInv`,
`ReceiverInv` and `SpendInv` of the replicas on the instance of `replicas` and on one
in which a process may crash without leader election, too.

### Engine and prices

`LivelockEngineProofs`, for any pods, tools, policies, owners and bounds:

- `TypeCorrect`: `Spec => []TypeOK`.
- `CallsCountOnceWhenShort`: if no window is longer than the cooldown
  (`ShortWindows`), `Spec => CallsCountOnce`.  The invariant `CoolInv` is that a
  call that set off a remediation is no later than the pod's cooldown, and no
  call in the store later than now.  Without the
  assumption it fails, as said above.
- `EvictionsTruthful`: `Spec => []EvictionsReported`.  The invariant `OneWrite`
  adds that nothing was tried before the status is due, and which action each
  step is about to take.
- `DetectionsCorrect`: `Spec => []DetectionsAccounted`.  The engine increments
  copies that may be stale, and goes on with a copy whose update failed, so the
  invariant `CountsOK` bounds not only the count at the server but that of any
  copy of the newest version: at least the server's, and together with the
  detection at hand (`Pending`) at most what was found.  Copies of older
  versions need no bound, because no version comes back (`VersionPast`).

`PricingProofs`, for any finite set of patterns without ties, and any prices:

- `PriceIsFair`: in every table `NewEstimator` may build, a model has the price of
  the longest pattern that matches it.  A table holds every pattern, because
  leaving one out would repeat another (`TableComplete`, by the pigeonhole
  principle), and the first that matches is a longest one (`FirstIsLongest`).
- `EstimatesAgree`: so two processes never differ about a cost.

### What stays with TLC

Liveness under fairness (`RenewalHappens`, `EventuallyMirrored`, `DeletionReleases`,
`LoopNeverIgnored`, `LoopIsCaught`, `DenialReturns`) stays with TLC: WF and SF
contain ENABLED, which this version of TLAPS cannot reason about.
`NoQuotaIsLost` is the safety half of `RenewalHappens` and `EventuallyMirrored`: what
they add to it is that the worker, the watch and the timers go on.

The properties of the violated runs are refuted, so there is nothing to prove.

## Not modelled yet, and the plan

1. An abstract specification of remediation (one answer per loop) that
   `LivelockEngine` implements under `ShortWindows`, and its proof.
2. The charges of a batch against `NeverOvercharged`: renewals while requests are
   handled, in an instance of `KovernReplicas` with time.

Left out for good: the semantic detector (no code of the operator calls it, it
keeps no state), the LivelockPolicy controller (it only logs), the calendar behind
`AddDate` (intervals are numbers of ticks), generated code, the chart, `Set` and
`Len` (only tests call them), and the memory that cooldown entries of pods long
gone take up.
