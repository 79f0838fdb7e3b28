--------------------------- MODULE LivelockEngine ---------------------------
(***************************************************************************)
(* Loop detection and remediation: the ticker of internal/heuristic/       *)
(* engine.go, which calls internal/remediation/executor.go synchronously,  *)
(* between the span store and the API server.                              *)
(*                                                                         *)
(* The engine is one goroutine.  Only it writes the cooldown, so testing   *)
(* the cooldown, reading the window and starting the cooldown is one step  *)
(* (PassOver, Flag); every call that writes at the API server is a step of *)
(* its own.  It lists policies and pods from the informers' copies, which  *)
(* lag behind, and it keeps the listed policies for the whole tick.        *)
(***************************************************************************)
EXTENDS SpanStore

CONSTANTS
    Policies,      \* names of LivelockPolicy objects
    SpecOf,        \* SpecOf[p] is the spec of policy p
    Deployments,   \* names of Deployments
    OwnerOf,       \* the Deployment behind a pod, or NoOwner
    NoOwner,       \* no ReplicaSet, or a ReplicaSet without Deployment
    Absent,        \* no such object, nothing in hand
    Never,         \* no remediation yet
    Lags,          \* how much older than now a reported call may be
    Cooldown,      \* the two minutes of onCooldown
    MaxAge,        \* the ten minutes of Trim
    Interval,      \* time between two ticks; 0 lets them come at any time
    Prompt,        \* TRUE: a tick is evaluated before time moves on
    MaxClock, MaxCalls, MaxMoves, MaxEdits, MaxFaults, MaxRestarts  \* bounds

Verbs == {"EvictPod", "SuspendWorkload"}

LivelockPolicySpec == [otel      : BOOLEAN,
                       window    : Nat \ {0},
                       threshold : Nat \ {0},
                       action    : Verbs \cup {"InjectFault"},
                       fallback  : Verbs,
                       pods      : SUBSET Pods]

\* The part of the object that moves: resourceVersion and detectionCount.
LivelockPolicy == [version : Nat, count : Nat]

ASSUME SpecAssumption == SpecOf \in [Policies -> LivelockPolicySpec]

ASSUME OwnerAssumption == OwnerOf \in [Pods -> Deployments \cup {NoOwner}]

ASSUME AbsenceAssumption == /\ Absent \notin LivelockPolicy
                            /\ Absent \notin Pods \cup Policies
                            /\ NoOwner \notin Deployments
                            /\ Never \notin Nat

\* The clocks of the pods are not ahead of the operator's.
ASSUME TimeAssumption == /\ Lags \subseteq Nat
                         /\ {Cooldown, MaxAge, Interval} \subseteq Nat
                         /\ Prompt \in BOOLEAN

ASSUME LimitsAssumption ==
    {MaxClock, MaxCalls, MaxMoves, MaxEdits, MaxFaults, MaxRestarts}
        \subseteq Nat

VARIABLES
    pods, seenPods,         \* phases at the API server, in the informer
    policies, seenPolicies, \* objects at the API server, in the informer
    revision,               \* the newest resourceVersion
    scaled,                 \* Deployments with zero replicas
    cooldown,               \* Engine.cooldown
    woke,                   \* when the last tick came
    pc,                     \* where evaluate is
    held,                   \* the listed policies, with the status it edits
    todo,                   \* listed policies still to do
    policy, batch,          \* the policy at hand and its pods still to do
    pod,                    \* the pod under remediation
    applied, failed,        \* appliedAction and actionErr # nil
    tried,                  \* history: the writes of this remediation
    reported,               \* history: calls reported, trimmed or not
    blamed,                 \* history: calls that set off a remediation
    found, acked,           \* history: detections, acknowledged updates
    used                    \* what the bounds count

clusterVars == <<pods, seenPods, policies, seenPolicies, revision, scaled>>
loopVars    == <<pc, held, todo, policy, batch>>
actVars     == <<pod, applied, failed, tried>>
historyVars == <<reported, blamed, found, acked>>
vars == <<records, clock, clusterVars, cooldown, woke, loopVars, actVars,
          historyVars, used>>

Places == {"idle", "policies", "pods", "evict", "suspend", "status"}
Phases == {"Pending", "Running"}
Bounded == {"calls", "moves", "edits", "faults", "restarts"}

Spend(what) == used' = [used EXCEPT ![what] = @ + 1]

Fault == used["faults"] < MaxFaults /\ Spend("faults")

Init ==
    /\ StoreInit
    /\ pods = [p \in Pods |-> Absent]
    /\ seenPods = [p \in Pods |-> Absent]
    /\ policies = [p \in Policies |-> Absent]
    /\ seenPolicies = [p \in Policies |-> Absent]
    /\ revision = 0
    /\ scaled = {}
    /\ cooldown = [p \in Pods |-> Never]
    /\ woke = 0
    /\ pc = "idle" /\ held = seenPolicies
    /\ todo = {} /\ policy = Absent /\ batch = {}
    /\ pod = Absent /\ applied = Absent /\ failed = FALSE /\ tried = {}
    /\ reported = records /\ blamed = records
    /\ found = [p \in Policies |-> 0] /\ acked = found
    /\ used = [what \in Bounded |-> 0]

-----------------------------------------------------------------------------
(* evaluate: which pods are in a loop.                                     *)

\* Mutant of OnCooldown: over one tick early.
OnShortCooldown(p) == cooldown[p] # Never /\ clock - cooldown[p] < Cooldown - 1

OnCooldown(p) == cooldown[p] # Never /\ clock - cooldown[p] < Cooldown

\* Mutant of Wake: the list of the tick before is kept for the status.
WakeStale ==
    /\ pc = "idle" /\ clock - woke >= Interval
    /\ woke' = clock
    /\ Trim(MaxAge)
    /\ todo' = {p \in Policies : seenPolicies[p] # Absent /\ SpecOf[p].otel}
    /\ pc' = "policies"
    /\ UNCHANGED <<clock, clusterVars, cooldown, held, policy, batch, actVars,
                   historyVars, used>>

\* The ticker fires: trim, then list the policies.
Wake ==
    /\ pc = "idle" /\ clock - woke >= Interval
    /\ woke' = clock
    /\ Trim(MaxAge)
    /\ held' = seenPolicies
    /\ todo' = {p \in Policies : seenPolicies[p] # Absent /\ SpecOf[p].otel}
    /\ pc' = "policies"
    /\ UNCHANGED <<clock, clusterVars, cooldown, policy, batch, actVars,
                   historyVars, used>>

\* The list fails and so does the tick.
WakeInVain ==
    /\ pc = "idle" /\ clock - woke >= Interval
    /\ Fault
    /\ woke' = clock
    /\ Trim(MaxAge)
    /\ UNCHANGED <<clock, clusterVars, cooldown, loopVars, actVars, historyVars>>

\* The next policy: list its pods and keep the running ones.
ListPods(p) ==
    /\ pc = "policies" /\ p \in todo
    /\ todo' = todo \ {p}
    /\ policy' = p
    /\ batch' = {x \in SpecOf[p].pods : seenPods[x] = "Running"}
    /\ pc' = "pods"
    /\ UNCHANGED <<records, clock, clusterVars, cooldown, woke, held, actVars,
                   historyVars, used>>

\* Its selector is invalid or the list fails: the policy is skipped.
SkipPolicy(p) ==
    /\ pc = "policies" /\ p \in todo
    /\ Fault
    /\ todo' = todo \ {p}
    /\ UNCHANGED <<records, clock, clusterVars, cooldown, woke, pc, held,
                   policy, batch, actVars, historyVars>>

TickEnds ==
    /\ pc = "policies" /\ todo = {}
    /\ pc' = "idle"
    /\ UNCHANGED <<records, clock, clusterVars, cooldown, woke, held, todo,
                   policy, batch, actVars, historyVars, used>>

PodsDone ==
    /\ pc = "pods" /\ batch = {}
    /\ pc' = "policies" /\ policy' = Absent
    /\ UNCHANGED <<records, clock, clusterVars, cooldown, woke, held, todo,
                   batch, actVars, historyVars, used>>

\* Mutant of Exceeds: the count must be above the maximum.
ExceedsMore(calls, q) ==
    Repeats(Within(calls, SpecOf[q].window), SpecOf[q].threshold + 1)

\* The window of pod p shows a loop by the measure of policy q.
Exceeds(calls, q) ==
    Repeats(Within(calls, SpecOf[q].window), SpecOf[q].threshold)

\* What Remediate does first, InjectFault being not implemented.
FirstVerb(q) ==
    IF SpecOf[q].action = "InjectFault"
    THEN SpecOf[q].fallback ELSE SpecOf[q].action

PassOver(p) ==
    /\ pc = "pods" /\ p \in batch
    /\ OnCooldown(p) \/ ~Exceeds(records[p], policy)
    /\ batch' = batch \ {p}
    /\ UNCHANGED <<records, clock, clusterVars, cooldown, woke, pc, held, todo,
                   policy, actVars, historyVars, used>>

\* The cooldown starts before the remediation.
Flag(p) ==
    /\ pc = "pods" /\ p \in batch
    /\ ~OnCooldown(p) /\ Exceeds(records[p], policy)
    /\ batch' = batch \ {p}
    /\ cooldown' = [cooldown EXCEPT ![p] = clock]
    /\ pod' = p
    /\ applied' = FirstVerb(policy)
    /\ pc' = IF FirstVerb(policy) = "EvictPod" THEN "evict" ELSE "suspend"
    /\ found' = [found EXCEPT ![policy] = @ + 1]
    /\ blamed' = [blamed EXCEPT
                      ![p] = @ \cup Window(p, SpecOf[policy].window)]
    /\ UNCHANGED <<records, clock, clusterVars, woke, held, todo, policy,
                   failed, tried, reported, acked, used>>
-----------------------------------------------------------------------------
(* Remediate: one write at most, then the status.                          *)

localVars == <<records, clock, cooldown, woke, held, todo, policy, batch, pod,
               historyVars>>

\* The write is over: the event reports applied, the status comes next.
Tried(verb, failure) ==
    /\ pc' = "status"
    /\ applied' = verb /\ tried' = tried \cup {verb}
    /\ failed' = failure
    /\ UNCHANGED <<localVars, seenPods, policies, seenPolicies, revision>>

EvictPod ==
    /\ pc = "evict"
    /\ pods' = [pods EXCEPT ![pod] = Absent]
    /\ Tried("EvictPod", pods[pod] = Absent)
    /\ UNCHANGED <<scaled, used>>

EvictFails ==
    /\ pc = "evict"
    /\ Fault
    /\ pods' \in {pods, [pods EXCEPT ![pod] = Absent]}
    /\ Tried("EvictPod", TRUE)
    /\ UNCHANGED scaled

\* Mutant of Orphan: the event still reports the configured action.
OrphanSilent ==
    /\ pc = "suspend" /\ OwnerOf[pod] = NoOwner
    /\ pods' = [pods EXCEPT ![pod] = Absent]
    /\ pc' = "status"
    /\ tried' = tried \cup {"EvictPod"} /\ failed' = (pods[pod] = Absent)
    /\ UNCHANGED <<localVars, seenPods, policies, seenPolicies, revision,
                   applied, scaled, used>>

\* suspendWorkload finds no Deployment and falls back to eviction.
Orphan ==
    /\ pc = "suspend" /\ OwnerOf[pod] = NoOwner
    /\ pc' = "evict" /\ applied' = "EvictPod"
    /\ UNCHANGED <<localVars, clusterVars, failed, tried, used>>

SuspendWorkload ==
    /\ pc = "suspend" /\ OwnerOf[pod] # NoOwner
    /\ scaled' = scaled \cup {OwnerOf[pod]}
    /\ Tried("SuspendWorkload", FALSE)
    /\ UNCHANGED <<pods, used>>

\* The update of the Deployment conflicts or fails.
SuspendFails ==
    /\ pc = "suspend" /\ OwnerOf[pod] # NoOwner
    /\ Fault
    /\ scaled' \in {scaled, scaled \cup {OwnerOf[pod]}}
    /\ Tried("SuspendWorkload", TRUE)
    /\ UNCHANGED pods

\* The ReplicaSet or the Deployment cannot be read: nothing was tried.
LookupFails ==
    /\ pc = "suspend"
    /\ Fault
    /\ pc' = "status" /\ failed' = TRUE
    /\ UNCHANGED <<localVars, clusterVars, applied, tried>>

-----------------------------------------------------------------------------
(* updateStatus, on the listed copy of the policy.                         *)

Counted(object) == [object EXCEPT !.count = @ + 1]

RemediateReturns ==
    /\ pc' = "pods"
    /\ pod' = Absent /\ applied' = Absent /\ failed' = FALSE /\ tried' = {}
    /\ UNCHANGED <<records, clock, pods, seenPods, seenPolicies, scaled,
                   cooldown, woke, todo, policy, batch, reported, blamed,
                   found>>

Current(object) ==
    policies[policy] # Absent /\ policies[policy].version = object.version

\* The API server takes the update of the policy at hand.
Write(object) ==
    /\ revision' = revision + 1
    /\ policies' = [policies EXCEPT
                        ![policy] = [object EXCEPT !.version = revision + 1]]

\* Mutant of StatusAccepted: the update carries no resourceVersion.
StatusUnconditional ==
    /\ pc = "status" /\ policies[policy] # Absent
    /\ LET object == Counted(held[policy])
       IN  /\ Write(object)
           /\ held' = [held EXCEPT ![policy] = policies'[policy]]
    /\ acked' = [acked EXCEPT ![policy] = @ + 1]
    /\ RemediateReturns /\ UNCHANGED used

StatusAccepted ==
    /\ pc = "status" /\ Current(held[policy])
    /\ Write(Counted(held[policy]))
    /\ held' = [held EXCEPT ![policy] = policies'[policy]]
    /\ acked' = [acked EXCEPT ![policy] = @ + 1]
    /\ RemediateReturns /\ UNCHANGED used

\* Conflict or NotFound: logged, and the copy keeps its increment.
StatusRejected ==
    /\ pc = "status" /\ ~Current(held[policy])
    /\ held' = [held EXCEPT ![policy] = Counted(@)]
    /\ RemediateReturns
    /\ UNCHANGED <<policies, revision, acked, used>>

\* The call fails on the way; the server may have applied it.
StatusFaulted ==
    /\ pc = "status"
    /\ Fault
    /\ \/ UNCHANGED <<policies, revision>>
       \/ Current(held[policy]) /\ Write(Counted(held[policy]))
    /\ held' = [held EXCEPT ![policy] = Counted(@)]
    /\ RemediateReturns
    /\ UNCHANGED acked

-----------------------------------------------------------------------------
(* The pods, the users, the informers, time and the process.               *)

engineVars == <<cooldown, woke, loopVars, actVars>>

\* The OTLP receiver records a call of pod p that began lag ticks ago.
Report(p, tool, lag) ==
    /\ used["calls"] < MaxCalls /\ Spend("calls")
    /\ clock >= lag
    /\ LET call == [tool |-> tool, at |-> clock - lag, id |-> used["calls"]]
       IN  /\ Record(p, call)
           /\ reported' = [reported EXCEPT ![p] = @ \cup {call}]
    /\ UNCHANGED <<clock, clusterVars, engineVars, blamed, found, acked>>

\* Created, started, stopped or deleted by anybody but the engine.
PodMoves(p, phase) ==
    /\ used["moves"] < MaxMoves /\ Spend("moves")
    /\ pods[p] # phase
    /\ pods' = [pods EXCEPT ![p] = phase]
    /\ UNCHANGED <<records, clock, seenPods, policies, seenPolicies, revision,
                   scaled, engineVars, historyVars>>

ScaleUp(d) ==
    /\ used["moves"] < MaxMoves /\ Spend("moves")
    /\ d \in scaled
    /\ scaled' = scaled \ {d}
    /\ UNCHANGED <<records, clock, pods, seenPods, policies, seenPolicies,
                   revision, engineVars, historyVars>>

UserEdit ==
    /\ used["edits"] < MaxEdits /\ Spend("edits")
    /\ UNCHANGED <<records, clock, pods, seenPods, seenPolicies, scaled,
                   engineVars, reported, blamed>>

CreatePolicy(q) ==
    /\ policies[q] = Absent
    /\ revision' = revision + 1
    /\ policies' = [policies EXCEPT
                        ![q] = [version |-> revision + 1, count |-> 0]]
    /\ found' = [found EXCEPT ![q] = 0]
    /\ acked' = [acked EXCEPT ![q] = 0]
    /\ UserEdit

\* Any edit that leaves the criteria alone: only the version moves.
TouchPolicy(q) ==
    /\ policies[q] # Absent
    /\ revision' = revision + 1
    /\ policies' = [policies EXCEPT ![q].version = revision + 1]
    /\ UserEdit /\ UNCHANGED <<found, acked>>

DeletePolicy(q) ==
    /\ policies[q] # Absent
    /\ policies' = [policies EXCEPT ![q] = Absent]
    /\ UserEdit /\ UNCHANGED <<revision, found, acked>>

SeePod(p) ==
    /\ seenPods[p] # pods[p]
    /\ seenPods' = [seenPods EXCEPT ![p] = pods[p]]
    /\ UNCHANGED <<records, clock, pods, policies, seenPolicies, revision,
                   scaled, engineVars, historyVars, used>>

SeePolicy(q) ==
    /\ seenPolicies[q] # policies[q]
    /\ seenPolicies' = [seenPolicies EXCEPT ![q] = policies[q]]
    /\ UNCHANGED <<records, clock, pods, seenPods, policies, revision, scaled,
                   engineVars, historyVars, used>>

Tick ==
    /\ clock < MaxClock
    /\ Prompt => pc = "idle" /\ clock - woke < Interval
    /\ clock' = clock + 1
    /\ UNCHANGED <<records, clusterVars, engineVars, historyVars, used>>

\* The process dies and comes back with nothing in memory; the calls reported
\* to it are history.
Restart ==
    /\ used["restarts"] < MaxRestarts /\ Spend("restarts")
    /\ records' = [p \in Pods |-> {}]
    /\ cooldown' = [p \in Pods |-> Never]
    /\ woke' = clock
    /\ seenPods' = pods /\ seenPolicies' = policies
    /\ pc' = "idle" /\ held' = [p \in Policies |-> Absent]
    /\ todo' = {} /\ policy' = Absent /\ batch' = {}
    /\ pod' = Absent /\ applied' = Absent /\ failed' = FALSE /\ tried' = {}
    /\ reported' = records' /\ blamed' = records'
    /\ UNCHANGED <<clock, pods, policies, revision, scaled, found, acked>>

-----------------------------------------------------------------------------
evaluate ==
    \/ Wake
    \/ \E q \in Policies : ListPods(q)
    \/ TickEnds
    \/ PodsDone
    \/ \E p \in Pods : PassOver(p) \/ Flag(p)

Remediate == EvictPod \/ Orphan \/ SuspendWorkload

updateStatus == StatusAccepted \/ StatusRejected

Engine == evaluate \/ Remediate \/ updateStatus

Faults ==
    \/ WakeInVain
    \/ \E q \in Policies : SkipPolicy(q)
    \/ EvictFails \/ SuspendFails \/ LookupFails
    \/ StatusFaulted

World ==
    \/ \E p \in Pods :
           \/ \E tool \in Tools, lag \in Lags : Report(p, tool, lag)
           \/ \E phase \in Phases \cup {Absent} : PodMoves(p, phase)
           \/ SeePod(p)
    \/ \E d \in Deployments : ScaleUp(d)
    \/ \E q \in Policies :
           CreatePolicy(q) \/ TouchPolicy(q) \/ DeletePolicy(q) \/ SeePolicy(q)
    \/ Tick
    \/ Restart

Next == Engine \/ Faults \/ World

Spec == Init /\ [][Next]_vars

\* The engine's goroutine runs, its ticker fires, the informers catch up.
Fairness ==
    /\ WF_vars(Engine)
    /\ \A p \in Pods : WF_vars(SeePod(p))
    /\ \A q \in Policies : WF_vars(SeePolicy(q))

FairSpec == Spec /\ Fairness

\* As above, and time goes on.
TimedSpec == FairSpec /\ WF_vars(Tick)
-----------------------------------------------------------------------------
TypeOK ==
    /\ StoreTypeOK
    /\ pods \in [Pods -> Phases \cup {Absent}]
    /\ seenPods \in [Pods -> Phases \cup {Absent}]
    /\ policies \in [Policies -> LivelockPolicy \cup {Absent}]
    /\ seenPolicies \in [Policies -> LivelockPolicy \cup {Absent}]
    /\ revision \in Nat
    /\ scaled \subseteq Deployments
    /\ cooldown \in [Pods -> Nat \cup {Never}]
    /\ woke \in Nat
    /\ pc \in Places
    /\ held \in [Policies -> LivelockPolicy \cup {Absent}]
    /\ todo \subseteq {q \in Policies : held[q] # Absent}
    /\ policy \in Policies \cup {Absent}
    /\ batch \subseteq Pods
    /\ pod \in Pods \cup {Absent}
    /\ applied \in Verbs \cup {Absent}
    /\ failed \in BOOLEAN
    /\ tried \subseteq Verbs
    /\ reported \in [Pods -> SUBSET Call]
    /\ blamed \in [Pods -> SUBSET Call]
    /\ found \in [Policies -> Nat]
    /\ acked \in [Policies -> Nat]
    /\ used \in [Bounded -> Nat]
    /\ pc \notin {"idle", "policies"} =>
           policy \in Policies /\ held[policy] # Absent
    /\ pc \in {"evict", "suspend", "status"} => pod \in Pods

\* engine.go: the cooldown is there "to avoid double-remediation within the
\* same window".  A call that was in the window of a remediation is in the
\* window of no later one, of whichever policy, as long as no window is longer
\* than the cooldown: over several policies on a pod in one tick, late and
\* repeated spans, and remediations that fail (engine.go:98-121, 142-154).
CallsCountOnce ==
    [][\A p \in Pods :
           pod' = p /\ pod # p =>
               Window(p, SpecOf[policy].window) \cap blamed[p] = {}]_vars

\* detectionCount counts every detection whose update was acknowledged and
\* never more than there were, although the engine increments listed copies
\* that may be stale, and goes on with them when an update has failed
\* (executor.go:82-84, 149-155).
DetectionsAccounted ==
    \A q \in Policies :
        policies[q] # Absent =>
            /\ acked[q] <= policies[q].count
            /\ policies[q].count <= found[q]

\* executor.go: the event "must report this, not the configured action".  It
\* says EvictPod exactly if the executor has asked for the pod's deletion, over
\* all fallbacks and failures (executor.go:47-79, 105-147).
EvictionsReported ==
    pc = "status" => (applied = "EvictPod" <=> "EvictPod" \in tried)

\* A running pod that stays in a loop, by what was reported of it and not only
\* by what the store has kept, comes under cooldown sooner or later: trimming,
\* failing lists, lagging informers and restarts do not hide it for good
\* (engine.go:54-125).
LoopNeverIgnored ==
    \A p \in Pods, q \in Policies :
        []<>~(/\ policies[q] # Absent /\ SpecOf[q].otel
              /\ p \in SpecOf[q].pods /\ pods[p] = "Running"
              /\ Exceeds(reported[p], q)
              /\ ~OnCooldown(p))

\* The engine can see that policy q governs pod p.
Watched(p, q) ==
    /\ policies[q] # Absent /\ seenPolicies[q] = policies[q] /\ SpecOf[q].otel
    /\ p \in SpecOf[q].pods
    /\ pods[p] = "Running" /\ seenPods[p] = "Running"

\* Without failures every loop that shows in the window less the engine's
\* interval brings its pod under cooldown while the pod is watched: whatever the
\* phase of the ticker, late spans and cooldowns that run out, no such loop slips
\* through between two ticks or is trimmed before it is seen (engine.go:54-125,
\* receiver.go:117-151).  The bound on time must leave one more tick.
LoopIsCaught ==
    \A p \in Pods, q \in Policies :
        (/\ Watched(p, q) /\ clock + Interval <= MaxClock
         /\ Repeats(Within(reported[p], SpecOf[q].window - Interval),
                    SpecOf[q].threshold))
            ~> (OnCooldown(p) \/ ~Watched(p, q))
=============================================================================
