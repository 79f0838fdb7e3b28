------------------------- MODULE LivelockEngineProofs -------------------------
(* Theorems about LivelockEngine, for any pods, tools, policies and bounds.  *)
EXTENDS LivelockEngine, TLAPS

-----------------------------------------------------------------------------
(* The inductive invariant.                                                  *)

\* The store is not ahead of time.
CallsArePast == \A p \in Pods : \A call \in records[p] : call.at <= clock

\* The cooldown starts no earlier than the calls that set it off.
BlameCooled ==
    \A p \in Pods :
        blamed[p] # {} =>
            /\ cooldown[p] # Never /\ cooldown[p] <= clock
            /\ \A call \in blamed[p] : call.at <= cooldown[p]

\* What the executor is about to do, while it has not done it.
OneWrite ==
    /\ tried # {} => pc = "status"
    /\ pc = "evict" => applied = "EvictPod"
    /\ pc = "suspend" => applied = "SuspendWorkload"
    /\ EvictionsReported

\* No copy of policy q has a version that is still to come.
VersionPast(q) ==
    /\ policies[q] # Absent => policies[q].version <= revision
    /\ seenPolicies[q] # Absent => seenPolicies[q].version <= revision
    /\ held[q] # Absent => held[q].version <= revision

\* The detection at hand, which no count contains yet.
Pending(q) ==
    IF policy = q /\ pc \in {"evict", "suspend", "status"} THEN 1 ELSE 0

\* A copy of the newest version counts no less than that version, and no
\* more than was found before the detection at hand.
CopyCounts(q) ==
    policies[q] # Absent =>
        /\ seenPolicies[q] # Absent
               /\ seenPolicies[q].version = policies[q].version =>
               seenPolicies[q].count = policies[q].count
        /\ held[q] # Absent /\ held[q].version = policies[q].version =>
               /\ policies[q].count <= held[q].count
               /\ held[q].count + Pending(q) <= found[q]
        /\ acked[q] <= policies[q].count
        /\ policies[q].count <= found[q]

CountsOK == \A q \in Policies : VersionPast(q) /\ CopyCounts(q)

CountInv == TypeOK /\ CountsOK

CoolInv == TypeOK /\ CallsArePast /\ BlameCooled

-----------------------------------------------------------------------------
(* Types.                                                                    *)

\* What an update carries is a LivelockPolicy with one detection more.
LEMMA CountedType ==
    ASSUME NEW object \in LivelockPolicy
    PROVE  /\ Counted(object) \in LivelockPolicy
           /\ Counted(object).version = object.version
           /\ Counted(object).count = object.count + 1
  BY DEF Counted, LivelockPolicy

\* Counting a bounded event keeps the counters.
LEMMA SpendType ==
    ASSUME NEW what \in Bounded, used \in [Bounded -> Nat], Spend(what)
    PROVE  used' \in [Bounded -> Nat]
  BY DEF Spend

\* Trimming keeps the store a store and adds no call.
LEMMA TrimType ==
    ASSUME records \in [Pods -> SUBSET Call], NEW age, Trim(age)
    PROVE  /\ records' \in [Pods -> SUBSET Call]
           /\ \A p \in Pods : records'[p] \subseteq records[p]
  BY DEF Trim, Within

\* A window is a part of what the store holds.
LEMMA WindowType ==
    ASSUME records \in [Pods -> SUBSET Call], NEW p \in Pods, NEW age
    PROVE  /\ Window(p, age) \subseteq records[p]
           /\ Window(p, age) \subseteq Call
  BY DEF Window, Within

\* The first remediation is one that exists.
LEMMA FirstVerbType ==
    ASSUME NEW q \in Policies
    PROVE  FirstVerb(q) \in Verbs
  BY SpecAssumption DEF FirstVerb, LivelockPolicySpec, Verbs

\* The first state is well typed.
LEMMA InitType == Init => TypeOK
<1> SUFFICES ASSUME Init
             PROVE  TypeOK
  OBVIOUS
<1>1. records = [p \in Pods |-> {}] /\ clock = 0
  BY DEF Init, StoreInit
<1>2. reported = records /\ blamed = records
  BY DEF Init
<1>3. StoreTypeOK
  BY <1>1 DEF StoreTypeOK
<1>4. reported \in [Pods -> SUBSET Call] /\ blamed \in [Pods -> SUBSET Call]
  BY <1>1, <1>2
<1>5. used \in [Bounded -> Nat]
  BY DEF Init
<1>6. found \in [Policies -> Nat] /\ acked \in [Policies -> Nat]
  BY DEF Init
<1>7. QED
  BY <1>3, <1>4, <1>5, <1>6 DEF Init, TypeOK, Places

\* The engine's own steps keep the types.
LEMMA EngineType ==
    ASSUME TypeOK, Engine
    PROVE  TypeOK'
<1> USE DEF TypeOK, StoreTypeOK
<1>1. CASE Wake
  <2>1. records' \in [Pods -> SUBSET Call]
    BY <1>1, TrimType DEF Wake
  <2>2. QED
    BY <1>1, <2>1
    DEF Wake, clusterVars, actVars, historyVars, Places
<1>2. ASSUME NEW q \in Policies, ListPods(q)
      PROVE  TypeOK'
  <2>1. batch' \subseteq Pods
    BY <1>2, SpecAssumption DEF ListPods, LivelockPolicySpec
  <2>2. QED
    BY <1>2, <2>1 DEF ListPods, clusterVars, actVars, historyVars, Places
<1>3. CASE TickEnds
  BY <1>3 DEF TickEnds, clusterVars, actVars, historyVars, Places
<1>4. CASE PodsDone
  BY <1>4 DEF PodsDone, clusterVars, actVars, historyVars, Places
<1>5. CASE \E p \in Pods : PassOver(p)
  BY <1>5 DEF PassOver, clusterVars, actVars, historyVars, Places
<1>6. ASSUME NEW p \in Pods, Flag(p)
      PROVE  TypeOK'
  <2>1. policy \in Policies /\ FirstVerb(policy) \in Verbs
    BY <1>6, FirstVerbType DEF Flag
  <2>2. blamed' \in [Pods -> SUBSET Call]
    BY <1>6, <2>1, WindowType DEF Flag
  <2>3. pc' \in Places /\ pc' \in {"evict", "suspend"}
    BY <1>6 DEF Flag, Places
  <2>4. found' \in [Policies -> Nat] /\ cooldown' \in [Pods -> Nat \cup {Never}]
    BY <1>6, <2>1 DEF Flag
  <2>5. QED
    BY <1>6, <2>1, <2>2, <2>3, <2>4 DEF Flag, clusterVars
<1>7. CASE EvictPod
  BY <1>7 DEF EvictPod, Tried, localVars, historyVars, Places, Verbs
<1>8. CASE Orphan
  BY <1>8 DEF Orphan, localVars, historyVars, clusterVars, Places, Verbs
<1>9. CASE SuspendWorkload
  BY <1>9, OwnerAssumption
  DEF SuspendWorkload, Tried, localVars, historyVars, Places, Verbs
<1>10. CASE StatusAccepted
  <2>1. policy \in Policies /\ held[policy] \in LivelockPolicy
    BY <1>10 DEF StatusAccepted
  <2>2. policies' \in [Policies -> LivelockPolicy \cup {Absent}]
        /\ policies'[policy] \in LivelockPolicy /\ revision' \in Nat
    BY <1>10, <2>1, CountedType DEF StatusAccepted, Write, LivelockPolicy
  <2>3. held' \in [Policies -> LivelockPolicy \cup {Absent}]
        /\ \A q \in Policies : held[q] # Absent => held'[q] # Absent
    BY <1>10, <2>1, <2>2, AbsenceAssumption DEF StatusAccepted
  <2>4. acked' \in [Policies -> Nat]
    BY <1>10, <2>1 DEF StatusAccepted
  <2>5. todo' \subseteq {q \in Policies : held'[q] # Absent}
    BY <1>10, <2>3 DEF StatusAccepted, RemediateReturns
  <2>6. held'[policy'] # Absent /\ policy' \in Policies
    BY <1>10, <2>1, <2>3 DEF StatusAccepted, RemediateReturns
  <2>7. QED
    BY <1>10, <2>1, <2>2, <2>3, <2>4, <2>5, <2>6
    DEF StatusAccepted, RemediateReturns, Places
<1>11. CASE StatusRejected
  <2>1. policy \in Policies /\ held[policy] \in LivelockPolicy
    BY <1>11 DEF StatusRejected
  <2>2. held' \in [Policies -> LivelockPolicy \cup {Absent}]
        /\ \A q \in Policies : held[q] # Absent => held'[q] # Absent
    BY <1>11, <2>1, CountedType, AbsenceAssumption DEF StatusRejected
  <2>3. QED
    BY <1>11, <2>1, <2>2
    DEF StatusRejected, RemediateReturns, Places
<1>12. QED
  BY <1>1, <1>2, <1>3, <1>4, <1>5, <1>6, <1>7, <1>8, <1>9, <1>10, <1>11
  DEF Engine, evaluate, Remediate, updateStatus

\* Calls that fail keep the types.
LEMMA FaultsType ==
    ASSUME TypeOK, Faults
    PROVE  TypeOK'
<1> USE DEF TypeOK, StoreTypeOK
<1>1. ASSUME Fault
      PROVE  used' \in [Bounded -> Nat]
  BY <1>1, SpendType DEF Fault, Bounded
<1>2. CASE WakeInVain
  <2>1. records' \in [Pods -> SUBSET Call] /\ used' \in [Bounded -> Nat]
    BY <1>1, <1>2, TrimType DEF WakeInVain
  <2>2. QED
    BY <1>2, <2>1
    DEF WakeInVain, clusterVars, loopVars, actVars, historyVars
<1>3. CASE \E q \in Policies : SkipPolicy(q)
  BY <1>1, <1>3 DEF SkipPolicy, clusterVars, actVars, historyVars
<1>4. CASE EvictFails
  BY <1>1, <1>4 DEF EvictFails, Tried, localVars, historyVars, Places, Verbs
<1>5. CASE SuspendFails
  BY <1>1, <1>5, OwnerAssumption
  DEF SuspendFails, Tried, localVars, historyVars, Places, Verbs
<1>6. CASE LookupFails
  BY <1>1, <1>6
  DEF LookupFails, localVars, historyVars, clusterVars, Places
<1>7. CASE StatusFaulted
  <2>1. policy \in Policies /\ held[policy] \in LivelockPolicy
    BY <1>7 DEF StatusFaulted
  <2>2. policies' \in [Policies -> LivelockPolicy \cup {Absent}]
        /\ revision' \in Nat
    BY <1>7, <2>1, CountedType DEF StatusFaulted, Write, LivelockPolicy
  <2>3. held' \in [Policies -> LivelockPolicy \cup {Absent}]
        /\ \A q \in Policies : held[q] # Absent => held'[q] # Absent
    BY <1>7, <2>1, CountedType, AbsenceAssumption DEF StatusFaulted
  <2>4. QED
    BY <1>1, <1>7, <2>1, <2>2, <2>3
    DEF StatusFaulted, RemediateReturns, Places
<1>8. QED
  BY <1>2, <1>3, <1>4, <1>5, <1>6, <1>7 DEF Faults

\* Everybody else keeps the types.
LEMMA WorldType ==
    ASSUME TypeOK, World
    PROVE  TypeOK'
<1> USE DEF TypeOK, StoreTypeOK
<1>1. ASSUME NEW p \in Pods, NEW tool \in Tools, NEW lag \in Lags,
             Report(p, tool, lag)
      PROVE  TypeOK'
  <2> DEFINE call == [tool |-> tool, at |-> clock - lag, id |-> used["calls"]]
  <2>1. call \in Call
    BY <1>1, TimeAssumption DEF Report, Call, Bounded
  <2>2. records' = [records EXCEPT ![p] = @ \cup {call}]
        /\ reported' = [reported EXCEPT ![p] = @ \cup {call}]
    BY <1>1 DEF Report, Record
  <2> HIDE DEF call
  <2>3. records' \in [Pods -> SUBSET Call] /\ reported' \in [Pods -> SUBSET Call]
    BY <2>1, <2>2
  <2>4. used' \in [Bounded -> Nat]
    BY <1>1, SpendType DEF Report, Bounded
  <2>5. QED
    BY <1>1, <2>3, <2>4
    DEF Report, clusterVars, engineVars, loopVars, actVars
<1>2. ASSUME NEW p \in Pods, NEW phase \in Phases \cup {Absent},
             PodMoves(p, phase)
      PROVE  TypeOK'
  <2>1. used' \in [Bounded -> Nat]
    BY <1>2, SpendType DEF PodMoves, Bounded
  <2>2. QED
    BY <1>2, <2>1 DEF PodMoves, engineVars, loopVars, actVars, historyVars
<1>3. CASE \E p \in Pods : SeePod(p)
  BY <1>3 DEF SeePod, engineVars, loopVars, actVars, historyVars
<1>4. ASSUME NEW d \in Deployments, ScaleUp(d)
      PROVE  TypeOK'
  <2>1. used' \in [Bounded -> Nat]
    BY <1>4, SpendType DEF ScaleUp, Bounded
  <2>2. QED
    BY <1>4, <2>1 DEF ScaleUp, engineVars, loopVars, actVars, historyVars
<1>5. ASSUME UserEdit
      PROVE  used' \in [Bounded -> Nat]
  BY <1>5, SpendType DEF UserEdit, Bounded
<1>6. ASSUME NEW q \in Policies, CreatePolicy(q)
      PROVE  TypeOK'
  <2>1. policies' \in [Policies -> LivelockPolicy \cup {Absent}]
        /\ revision' \in Nat
    BY <1>6 DEF CreatePolicy, LivelockPolicy
  <2>2. found' \in [Policies -> Nat] /\ acked' \in [Policies -> Nat]
    BY <1>6 DEF CreatePolicy
  <2>3. QED
    BY <1>5, <1>6, <2>1, <2>2
    DEF CreatePolicy, UserEdit, engineVars, loopVars, actVars
<1>7. ASSUME NEW q \in Policies, TouchPolicy(q)
      PROVE  TypeOK'
  <2>1. policies' \in [Policies -> LivelockPolicy \cup {Absent}]
        /\ revision' \in Nat
    BY <1>7 DEF TouchPolicy, LivelockPolicy
  <2>2. QED
    BY <1>5, <1>7, <2>1
    DEF TouchPolicy, UserEdit, engineVars, loopVars, actVars
<1>8. CASE \E q \in Policies : DeletePolicy(q)
  BY <1>5, <1>8 DEF DeletePolicy, UserEdit, engineVars, loopVars, actVars
<1>9. CASE \E q \in Policies : SeePolicy(q)
  BY <1>9 DEF SeePolicy, engineVars, loopVars, actVars, historyVars
<1>10. CASE Tick
  BY <1>10 DEF Tick, clusterVars, engineVars, loopVars, actVars, historyVars
<1>11. CASE Restart
  <2>1. used' \in [Bounded -> Nat]
    BY <1>11, SpendType DEF Restart, Bounded
  <2>2. QED
    BY <1>11, <2>1 DEF Restart, Places
<1>12. QED
  BY <1>1, <1>2, <1>3, <1>4, <1>6, <1>7, <1>8, <1>9, <1>10, <1>11 DEF World

\* Every step keeps the types.
LEMMA NextType == TypeOK /\ [Next]_vars => TypeOK'
<1>1. CASE UNCHANGED vars
  BY <1>1
  DEF TypeOK, StoreTypeOK, vars, clusterVars, loopVars, actVars, historyVars
<1>2. QED
  BY <1>1, EngineType, FaultsType, WorldType DEF Next

\* The state is well typed for every value of the constants.
THEOREM TypeCorrect == Spec => []TypeOK
  BY InitType, NextType, PTL DEF Spec

-----------------------------------------------------------------------------
(* The cooldown.                                                             *)

\* A step that adds no call and leaves cooldown and blame alone.
Quiet ==
    /\ clock <= clock'
    /\ \A p \in Pods : records'[p] \subseteq records[p]
    /\ UNCHANGED <<blamed, cooldown>>

\* Only a report, a detection and a restart are not quiet.
LEMMA QuietSteps ==
    ASSUME TypeOK, [Next]_vars,
           ~\E p \in Pods, tool \in Tools, lag \in Lags : Report(p, tool, lag),
           ~\E p \in Pods : Flag(p), ~Restart
    PROVE  Quiet
<1> USE DEF Quiet
<1>0. clock <= clock /\ records \in [Pods -> SUBSET Call]
  BY DEF TypeOK, StoreTypeOK
<1>1. CASE evaluate
  <2>1. CASE Wake
    BY <1>0, <2>1, TrimType DEF Wake, historyVars
  <2>2. QED
    BY <1>0, <1>1, <2>1
    DEF evaluate, ListPods, TickEnds, PodsDone, PassOver, historyVars
<1>2. CASE Remediate
  BY <1>0, <1>2
  DEF Remediate, EvictPod, Orphan, SuspendWorkload, Tried, localVars,
      historyVars
<1>3. CASE updateStatus
  BY <1>0, <1>3
  DEF updateStatus, StatusAccepted, StatusRejected, RemediateReturns
<1>4. CASE Faults
  <2>1. CASE WakeInVain
    BY <1>0, <2>1, TrimType DEF WakeInVain, historyVars
  <2>2. QED
    BY <1>0, <1>4, <2>1
    DEF Faults, SkipPolicy, EvictFails, SuspendFails, LookupFails,
        StatusFaulted, RemediateReturns, Tried, localVars, historyVars
<1>5. CASE World
  <2>1. CASE Tick
    BY <1>0, <2>1
    DEF Tick, engineVars, historyVars, TypeOK, StoreTypeOK
  <2>2. QED
    BY <1>0, <1>5, <2>1
    DEF World, PodMoves, SeePod, ScaleUp, CreatePolicy, TouchPolicy,
        DeletePolicy, SeePolicy, UserEdit, engineVars, historyVars
<1>6. CASE UNCHANGED vars
  BY <1>0, <1>6 DEF vars, historyVars
<1>7. QED
  BY <1>1, <1>2, <1>3, <1>4, <1>5, <1>6 DEF Next, Engine

\* The first state has neither calls nor blame.
LEMMA CoolInit == Init => CoolInv
<1> SUFFICES ASSUME Init
             PROVE  CallsArePast /\ BlameCooled
  BY InitType DEF CoolInv
<1>1. records = [p \in Pods |-> {}] /\ blamed = records
  BY DEF Init, StoreInit
<1>2. QED
  BY <1>1 DEF CallsArePast, BlameCooled

\* Every step keeps blame under cooldown.
LEMMA CoolNext == CoolInv /\ [Next]_vars => CoolInv'
<1> SUFFICES ASSUME TypeOK, CallsArePast, BlameCooled, [Next]_vars
             PROVE  CallsArePast' /\ BlameCooled'
  BY NextType DEF CoolInv
<1>1. TypeOK'
  BY NextType
<1>2. ASSUME NEW p \in Pods, NEW tool \in Tools, NEW lag \in Lags,
             Report(p, tool, lag)
      PROVE  CallsArePast' /\ BlameCooled'
  <2> DEFINE call == [tool |-> tool, at |-> clock - lag, id |-> used["calls"]]
  <2>1. records' = [records EXCEPT ![p] = @ \cup {call}]
        /\ UNCHANGED <<clock, cooldown, blamed>>
    BY <1>2 DEF Report, Record, engineVars
  <2>2. call.at <= clock
    BY TimeAssumption DEF TypeOK, StoreTypeOK
  <2> HIDE DEF call
  <2>3. CallsArePast'
    BY <2>1, <2>2 DEF CallsArePast, TypeOK, StoreTypeOK
  <2>4. BlameCooled'
    BY <2>1 DEF BlameCooled
  <2>5. QED
    BY <2>3, <2>4
<1>3. ASSUME NEW p \in Pods, Flag(p)
      PROVE  CallsArePast' /\ BlameCooled'
  <2> DEFINE calls == Window(p, SpecOf[policy].window)
  <2>1. /\ blamed' = [blamed EXCEPT ![p] = @ \cup calls]
        /\ cooldown' = [cooldown EXCEPT ![p] = clock]
        /\ UNCHANGED <<records, clock>>
    BY <1>3 DEF Flag
  <2>2. calls \subseteq records[p]
    BY WindowType DEF TypeOK, StoreTypeOK
  <2>3. \A call \in calls : call.at <= clock
    BY <2>2 DEF CallsArePast
  <2>4. \A call \in blamed[p] : call.at <= clock
    BY DEF BlameCooled, TypeOK, StoreTypeOK, Call
  <2> HIDE DEF calls
  <2>5. CallsArePast'
    BY <2>1 DEF CallsArePast
  <2>6. BlameCooled'
    BY <2>1, <2>3, <2>4, AbsenceAssumption
    DEF BlameCooled, TypeOK, StoreTypeOK
  <2>7. QED
    BY <2>5, <2>6
<1>4. CASE Restart
  <2>1. records' = [p \in Pods |-> {}] /\ blamed' = records'
    BY <1>4 DEF Restart
  <2>2. QED
    BY <2>1 DEF CallsArePast, BlameCooled
<1>5. CASE Quiet
  <2>1. CallsArePast'
    BY <1>1, <1>5 DEF Quiet, CallsArePast, TypeOK, StoreTypeOK, Call
  <2>2. BlameCooled'
    BY <1>1, <1>5 DEF Quiet, BlameCooled, TypeOK, StoreTypeOK
  <2>3. QED
    BY <2>1, <2>2
<1>6. QED
  BY <1>2, <1>3, <1>4, <1>5, QuietSteps

\* Only a detection puts a pod under remediation.
LEMMA OnlyFlagPicks ==
    ASSUME TypeOK, [Next]_vars, NEW p \in Pods, pod' = p, pod # p
    PROVE  Flag(p)
<1>1. ASSUME pod' = Absent
      PROVE  FALSE
  BY <1>1, AbsenceAssumption
<1>2. ASSUME NEW x \in Pods, Flag(x)
      PROVE  Flag(p)
  BY <1>2 DEF Flag
<1>3. CASE evaluate
  BY <1>2, <1>3
  DEF evaluate, Wake, ListPods, TickEnds, PodsDone, PassOver, actVars
<1>4. CASE Remediate
  BY <1>4
  DEF Remediate, EvictPod, Orphan, SuspendWorkload, Tried, localVars
<1>5. CASE updateStatus
  BY <1>1, <1>5
  DEF updateStatus, StatusAccepted, StatusRejected, RemediateReturns
<1>6. CASE Faults
  BY <1>1, <1>6
  DEF Faults, WakeInVain, SkipPolicy, EvictFails, SuspendFails, LookupFails,
      StatusFaulted, RemediateReturns, Tried, localVars, actVars
<1>7. CASE World
  BY <1>1, <1>7
  DEF World, Report, PodMoves, SeePod, ScaleUp, CreatePolicy, TouchPolicy,
      DeletePolicy, SeePolicy, UserEdit, Tick, Restart, engineVars, actVars
<1>8. CASE UNCHANGED vars
  BY <1>8 DEF vars, actVars
<1>9. QED
  BY <1>3, <1>4, <1>5, <1>6, <1>7, <1>8 DEF Next, Engine

\* No policy looks back further than the cooldown of two minutes.
ShortWindows == \A q \in Policies : SpecOf[q].window <= Cooldown

\* A detection under short windows blames only calls not blamed before.
LEMMA FreshBlame ==
    ASSUME ShortWindows, CoolInv, NEW p \in Pods, Flag(p)
    PROVE  Window(p, SpecOf[policy].window) \cap blamed[p] = {}
<1> USE DEF CoolInv, TypeOK, StoreTypeOK
<1> DEFINE w == SpecOf[policy].window
<1>1. policy \in Policies /\ ~OnCooldown(p)
  BY DEF Flag
<1>2. w \in Nat /\ w <= Cooldown /\ Cooldown \in Nat
  BY <1>1, SpecAssumption, TimeAssumption DEF ShortWindows, LivelockPolicySpec
<1>3. SUFFICES ASSUME NEW call \in Window(p, w), call \in blamed[p]
               PROVE  FALSE
  OBVIOUS
<1>4. call \in Call /\ call.at > clock - w
  BY <1>3, WindowType DEF Window, Within
<1>5. cooldown[p] # Never /\ call.at <= cooldown[p]
  BY <1>3 DEF BlameCooled
<1>6. cooldown[p] \in Nat /\ ~(clock - cooldown[p] < Cooldown)
  BY <1>1, <1>5 DEF OnCooldown
<1>7. QED
  BY <1>2, <1>4, <1>5, <1>6 DEF Call

\* As long as no window is longer than the cooldown, no call is in the window
\* of two remediations: engine.go's cooldown does avoid the second.
THEOREM CallsCountOnceWhenShort ==
    ASSUME ShortWindows
    PROVE  Spec => CallsCountOnce
<1>1. Init => CoolInv
  BY CoolInit
<1>2. CoolInv /\ [Next]_vars => CoolInv'
  BY CoolNext
<1>3. CoolInv /\ [Next]_vars =>
          [\A p \in Pods :
              pod' = p /\ pod # p =>
                  Window(p, SpecOf[policy].window) \cap blamed[p] = {}]_vars
  BY OnlyFlagPicks, FreshBlame DEF CoolInv
<1>4. QED
  BY <1>1, <1>2, <1>3, PTL DEF Spec, CallsCountOnce

-----------------------------------------------------------------------------
(* What the event says.                                                      *)

\* Every step keeps the executor's account of itself.
LEMMA OneWriteNext == TypeOK /\ OneWrite /\ [Next]_vars => OneWrite'
<1> SUFFICES ASSUME TypeOK, OneWrite, [Next]_vars
             PROVE  OneWrite'
  OBVIOUS
<1> USE DEF OneWrite, EvictionsReported
<1>1. CASE evaluate
  <2>1. ASSUME NEW p \in Pods, Flag(p)
        PROVE  OneWrite'
    <3>1. FirstVerb(policy) \in Verbs
      BY <2>1, FirstVerbType DEF Flag, TypeOK
    <3>2. QED
      BY <2>1, <3>1 DEF Flag, Verbs
  <2>2. QED
    BY <1>1, <2>1
    DEF evaluate, Wake, ListPods, TickEnds, PodsDone, PassOver, actVars
<1>2. CASE Remediate
  BY <1>2 DEF Remediate, EvictPod, Orphan, SuspendWorkload, Tried
<1>3. CASE updateStatus
  BY <1>3
  DEF updateStatus, StatusAccepted, StatusRejected, RemediateReturns
<1>4. CASE Faults
  BY <1>4
  DEF Faults, WakeInVain, SkipPolicy, EvictFails, SuspendFails, LookupFails,
      StatusFaulted, RemediateReturns, Tried, loopVars, actVars
<1>5. CASE World
  BY <1>5
  DEF World, Report, PodMoves, SeePod, ScaleUp, CreatePolicy, TouchPolicy,
      DeletePolicy, SeePolicy, UserEdit, Tick, Restart, engineVars, loopVars,
      actVars
<1>6. CASE UNCHANGED vars
  BY <1>6 DEF vars, loopVars, actVars
<1>7. QED
  BY <1>1, <1>2, <1>3, <1>4, <1>5, <1>6 DEF Next, Engine

\* The event says EvictPod exactly if the deletion was asked for, whatever the
\* policies, the owners and the failures.
THEOREM EvictionsTruthful == Spec => []EvictionsReported
<1>1. Init => OneWrite
  BY DEF Init, OneWrite, EvictionsReported
<1>2. OneWrite => EvictionsReported
  BY DEF OneWrite
<1>3. QED
  BY <1>1, <1>2, OneWriteNext, TypeCorrect, PTL DEF Spec

-----------------------------------------------------------------------------
(* The count of detections.                                                  *)

\* A step that touches neither the policies nor the counts.
Uncounted ==
    UNCHANGED <<policies, seenPolicies, revision, held, found, acked>>

\* It keeps the counts, if no detection comes to hand.
LEMMA UncountedSteps ==
    ASSUME CountInv, TypeOK', Uncounted,
           \A q \in Policies : Pending(q)' <= Pending(q)
    PROVE  CountsOK'
<1> SUFFICES ASSUME NEW q \in Policies
             PROVE  VersionPast(q)' /\ CopyCounts(q)'
  BY DEF CountsOK
<1>1. VersionPast(q) /\ CopyCounts(q)
  BY DEF CountInv, CountsOK
<1>2. Pending(q) \in Nat /\ Pending(q)' \in Nat /\ Pending(q)' <= Pending(q)
  BY DEF Pending
<1>3. VersionPast(q)'
  BY <1>1 DEF VersionPast, Uncounted
<1>4. held[q] # Absent => held[q].count \in Nat
  BY DEF CountInv, TypeOK, LivelockPolicy
<1>5. found[q] \in Nat
  BY DEF CountInv, TypeOK
<1>6. CopyCounts(q)'
  BY <1>1, <1>2, <1>4, <1>5 DEF CopyCounts, Uncounted
<1>7. QED
  BY <1>3, <1>6

\* A detection is found before it is counted.
LEMMA FlagCounts ==
    ASSUME CountInv, NEW p \in Pods, Flag(p)
    PROVE  CountsOK'
<1> SUFFICES ASSUME NEW q \in Policies
             PROVE  VersionPast(q)' /\ CopyCounts(q)'
  BY DEF CountsOK
<1>1. VersionPast(q) /\ CopyCounts(q)
  BY DEF CountInv, CountsOK
<1>2. UNCHANGED <<policies, seenPolicies, revision, held, acked, policy>>
      /\ found' = [found EXCEPT ![policy] = @ + 1]
      /\ pc = "pods" /\ pc' \in {"evict", "suspend"}
  BY DEF Flag, clusterVars
<1>3. /\ held[q] # Absent => held[q].count \in Nat
      /\ policies[q] # Absent => policies[q].count \in Nat
      /\ found \in [Policies -> Nat]
  BY DEF CountInv, TypeOK, LivelockPolicy
<1>4. Pending(q) = 0 /\ Pending(q)' = IF policy = q THEN 1 ELSE 0
  BY <1>2 DEF Pending
<1>5. VersionPast(q)'
  BY <1>1, <1>2 DEF VersionPast
<1>6. CopyCounts(q)'
  BY <1>1, <1>2, <1>3, <1>4 DEF CopyCounts
<1>7. QED
  BY <1>5, <1>6

\* An update of the held copy, if the server takes it, is newer than every
\* copy and counts the detection at hand.
LEMMA WriteCounts ==
    ASSUME CountInv, policy \in Policies, pc = "status", held[policy] # Absent,
           Current(held[policy]), Write(Counted(held[policy])),
           \/ held' = [held EXCEPT ![policy] = policies'[policy]]
           \/ held' = [held EXCEPT ![policy] = Counted(@)],
           \/ acked' = [acked EXCEPT ![policy] = @ + 1]
           \/ acked' = acked,
           UNCHANGED <<seenPolicies, found, policy>>, pc' = "pods"
    PROVE  CountsOK'
<1> SUFFICES ASSUME NEW q \in Policies
             PROVE  VersionPast(q)' /\ CopyCounts(q)'
  BY DEF CountsOK
<1> USE DEF CountInv, TypeOK
<1>1. VersionPast(q) /\ CopyCounts(q)
  BY DEF CountsOK
<1>2. /\ \A r \in Policies : held[r] # Absent => held[r] \in LivelockPolicy
      /\ \A r \in Policies : policies[r] # Absent => policies[r] \in LivelockPolicy
      /\ \A r \in Policies : seenPolicies[r] # Absent => seenPolicies[r] \in LivelockPolicy
      /\ revision \in Nat /\ acked \in [Policies -> Nat] /\ found \in [Policies -> Nat]
  OBVIOUS
<1>3. Pending(q)' = 0 /\ (policy = q => Pending(q) = 1) /\ Pending(q) \in Nat
  BY DEF Pending
<1>4. CASE q # policy
  <2>1. policies'[q] = policies[q] /\ held'[q] = held[q] /\ acked'[q] = acked[q]
        /\ revision' = revision + 1
    BY <1>4 DEF Write
  <2>2. Pending(q) = 0
    BY <1>4 DEF Pending
  <2>3. VersionPast(q)'
    BY <1>1, <1>2, <2>1 DEF VersionPast, LivelockPolicy
  <2>4. CopyCounts(q)'
    BY <1>1, <1>3, <2>1, <2>2 DEF CopyCounts
  <2>5. QED
    BY <2>3, <2>4
<1>5. CASE q = policy
  <2> DEFINE object == Counted(held[q])
  <2>1. /\ object \in LivelockPolicy /\ object.version = held[q].version
        /\ object.count = held[q].count + 1
    BY <1>2, <1>5, CountedType
  <2>2. policies'[q] = [object EXCEPT !.version = revision + 1]
        /\ revision' = revision + 1
    BY <1>5 DEF Write
  <2> HIDE DEF object
  <2>3. /\ policies'[q] \in LivelockPolicy
        /\ policies'[q].version = revision + 1
        /\ policies'[q].count = held[q].count + 1
    BY <1>2, <2>1, <2>2 DEF LivelockPolicy
  <2>4. held'[q] = policies'[q] \/ held'[q] = object
    BY <1>5 DEF object
  <2>5. policies[q] # Absent /\ policies[q].version = held[q].version
    BY <1>5 DEF Current
  <2>6. acked'[q] <= acked[q] + 1
    BY <1>2, <1>5
  <2>7. VersionPast(q)'
    BY <1>1, <1>2, <1>5, <2>1, <2>2, <2>3, <2>4
    DEF VersionPast, LivelockPolicy
  <2>8. held[q].version <= revision /\ held[q].version \in Nat
    BY <1>1, <1>2, <1>5 DEF VersionPast, LivelockPolicy
  <2>9. held[q].count + 1 <= found[q] /\ policies[q].count <= held[q].count
        /\ acked[q] <= policies[q].count
    BY <1>1, <1>3, <1>5, <2>5 DEF CopyCounts
  <2>10. CopyCounts(q)'
    <3>1. held[q].count \in Nat /\ policies[q].count \in Nat
          /\ acked[q] \in Nat /\ found[q] \in Nat /\ acked'[q] \in Nat
      BY <1>2, <1>5, <2>5 DEF LivelockPolicy
    <3>2. seenPolicies'[q] # Absent =>
              seenPolicies'[q].version # policies'[q].version
      BY <1>1, <1>2, <2>3 DEF VersionPast, LivelockPolicy
    <3>3. held'[q] # Absent /\ held'[q].version = policies'[q].version =>
              held'[q].count = policies'[q].count
      BY <1>2, <2>1, <2>3, <2>4, <2>8
    <3>4. acked'[q] <= policies'[q].count /\ policies'[q].count <= found'[q]
      BY <2>3, <2>6, <2>9, <3>1
    <3>5. policies'[q].count \in Nat /\ found'[q] = found[q]
      BY <2>3 DEF LivelockPolicy
    <3>6. QED
      BY <1>3, <3>1, <3>2, <3>3, <3>4, <3>5 DEF CopyCounts
  <2>11. QED
    BY <2>7, <2>10
<1>6. QED
  BY <1>4, <1>5

\* An update that is not applied leaves one detection uncounted.
LEMMA LostCounts ==
    ASSUME CountInv, policy \in Policies, pc = "status", held[policy] # Absent,
           held' = [held EXCEPT ![policy] = Counted(@)],
           UNCHANGED <<policies, revision, seenPolicies, found, acked, policy>>,
           pc' = "pods"
    PROVE  CountsOK'
<1> SUFFICES ASSUME NEW q \in Policies
             PROVE  VersionPast(q)' /\ CopyCounts(q)'
  BY DEF CountsOK
<1> USE DEF CountInv, TypeOK
<1>1. VersionPast(q) /\ CopyCounts(q)
  BY DEF CountsOK
<1>2. CASE q # policy
  <2>1. held'[q] = held[q] /\ Pending(q)' = 0 /\ Pending(q) = 0
    BY <1>2 DEF Pending
  <2>2. QED
    BY <1>1, <2>1 DEF VersionPast, CopyCounts
<1>3. CASE q = policy
  <2>1. Pending(q)' = 0 /\ Pending(q) = 1
    BY <1>3 DEF Pending
  <2>2. held[q] \in LivelockPolicy /\ held'[q] = Counted(held[q])
    BY <1>3
  <2>3. held'[q].version = held[q].version
        /\ held'[q].count = held[q].count + 1 /\ held[q].count \in Nat
    BY <2>2, CountedType DEF LivelockPolicy
  <2>4. VersionPast(q)'
    BY <1>1, <1>3, <2>3 DEF VersionPast
  <2>5. policies[q] # Absent => policies[q].count \in Nat
    BY DEF LivelockPolicy
  <2>6. CopyCounts(q)'
    BY <1>1, <1>3, <2>1, <2>3, <2>5 DEF CopyCounts
  <2>7. QED
    BY <2>4, <2>6
<1>4. QED
  BY <1>2, <1>3

\* Users move versions forwards and start a new policy at nothing.
LEMMA UserCounts ==
    ASSUME CountInv, NEW u \in Policies,
           CreatePolicy(u) \/ TouchPolicy(u) \/ DeletePolicy(u)
    PROVE  CountsOK'
<1> SUFFICES ASSUME NEW q \in Policies
             PROVE  VersionPast(q)' /\ CopyCounts(q)'
  BY DEF CountsOK
<1> USE DEF CountInv, TypeOK
<1>1. VersionPast(q) /\ CopyCounts(q)
  BY DEF CountsOK
<1>2. UNCHANGED <<seenPolicies, held, policy, pc>>
  BY DEF CreatePolicy, TouchPolicy, DeletePolicy, UserEdit, engineVars, loopVars
<1>3. Pending(q)' = Pending(q)
  BY <1>2 DEF Pending
<1>4. /\ held[q] # Absent => held[q] \in LivelockPolicy
      /\ policies[q] # Absent => policies[q] \in LivelockPolicy
      /\ seenPolicies[q] # Absent => seenPolicies[q] \in LivelockPolicy
      /\ revision \in Nat
  OBVIOUS
<1>5. CASE q # u
  <2>1. /\ policies'[q] = policies[q] /\ acked'[q] = acked[q]
        /\ found'[q] = found[q] /\ revision' \in {revision, revision + 1}
    BY <1>5 DEF CreatePolicy, TouchPolicy, DeletePolicy, UserEdit
  <2>2. VersionPast(q)'
    BY <1>1, <1>2, <1>4, <2>1 DEF VersionPast, LivelockPolicy
  <2>3. CopyCounts(q)'
    BY <1>1, <1>2, <1>3, <2>1 DEF CopyCounts
  <2>4. QED
    BY <2>2, <2>3
<1>6. CASE q = u /\ CreatePolicy(u)
  <2>1. /\ policies'[q] = [version |-> revision + 1, count |-> 0]
        /\ acked'[q] = 0 /\ found'[q] = 0 /\ revision' = revision + 1
    BY <1>6 DEF CreatePolicy
  <2>2. VersionPast(q)'
    BY <1>1, <1>2, <1>4, <2>1 DEF VersionPast, LivelockPolicy
  <2>3. /\ held'[q] # Absent => held'[q].version # policies'[q].version
        /\ seenPolicies'[q] # Absent =>
               seenPolicies'[q].version # policies'[q].version
    BY <1>1, <1>2, <1>4, <2>1 DEF VersionPast, LivelockPolicy
  <2>4. CopyCounts(q)'
    BY <2>1, <2>3 DEF CopyCounts
  <2>5. QED
    BY <2>2, <2>4
<1>7. CASE q = u /\ TouchPolicy(u)
  <2>1. /\ policies[q] # Absent
        /\ policies'[q] = [policies[q] EXCEPT !.version = revision + 1]
        /\ acked' = acked /\ found' = found /\ revision' = revision + 1
    BY <1>7 DEF TouchPolicy
  <2>2. policies'[q].version = revision + 1
        /\ policies'[q].count = policies[q].count
    BY <1>4, <2>1 DEF LivelockPolicy
  <2>3. VersionPast(q)'
    BY <1>1, <1>2, <1>4, <2>1, <2>2 DEF VersionPast, LivelockPolicy
  <2>4. /\ held'[q] # Absent => held'[q].version # policies'[q].version
        /\ seenPolicies'[q] # Absent =>
               seenPolicies'[q].version # policies'[q].version
    BY <1>1, <1>2, <1>4, <2>2 DEF VersionPast, LivelockPolicy
  <2>5. CopyCounts(q)'
    BY <1>1, <2>1, <2>2, <2>4 DEF CopyCounts
  <2>6. QED
    BY <2>3, <2>5
<1>8. CASE q = u /\ DeletePolicy(u)
  <2>1. policies'[q] = Absent /\ revision' = revision
    BY <1>8 DEF DeletePolicy
  <2>2. QED
    BY <1>1, <1>2, <2>1 DEF VersionPast, CopyCounts
<1>9. QED
  BY <1>5, <1>6, <1>7, <1>8

\* What the engine lists is what the informer has.
LEMMA WakeCounts ==
    ASSUME CountInv, Wake
    PROVE  CountsOK'
<1> SUFFICES ASSUME NEW q \in Policies
             PROVE  VersionPast(q)' /\ CopyCounts(q)'
  BY DEF CountsOK
<1>1. VersionPast(q) /\ CopyCounts(q)
  BY DEF CountInv, CountsOK
<1>2. UNCHANGED <<policies, seenPolicies, revision, found, acked>>
      /\ held' = seenPolicies /\ pc' = "policies"
  BY DEF Wake, clusterVars, historyVars
<1>3. Pending(q)' = 0
  BY <1>2 DEF Pending
<1>4. policies[q] # Absent => policies[q].count \in Nat
  BY DEF CountInv, TypeOK, LivelockPolicy
<1>5. QED
  BY <1>1, <1>2, <1>3, <1>4 DEF VersionPast, CopyCounts

\* The informer's copy follows the object.
LEMMA SeenCounts ==
    ASSUME CountInv, NEW u \in Policies, SeePolicy(u)
    PROVE  CountsOK'
<1> SUFFICES ASSUME NEW q \in Policies
             PROVE  VersionPast(q)' /\ CopyCounts(q)'
  BY DEF CountsOK
<1>1. VersionPast(q) /\ CopyCounts(q)
  BY DEF CountInv, CountsOK
<1>2. UNCHANGED <<policies, revision, held, found, acked, pc, policy>>
      /\ seenPolicies'[q] \in {seenPolicies[q], policies[q]}
  BY DEF SeePolicy, engineVars, loopVars, historyVars, CountInv, TypeOK
<1>3. Pending(q)' = Pending(q)
  BY <1>2 DEF Pending
<1>4. QED
  BY <1>1, <1>2, <1>3 DEF VersionPast, CopyCounts

\* A restart lists the policies afresh and holds nothing.
LEMMA RestartCounts ==
    ASSUME CountInv, Restart
    PROVE  CountsOK'
<1> SUFFICES ASSUME NEW q \in Policies
             PROVE  VersionPast(q)' /\ CopyCounts(q)'
  BY DEF CountsOK
<1>1. VersionPast(q) /\ CopyCounts(q)
  BY DEF CountInv, CountsOK
<1>2. UNCHANGED <<policies, revision, found, acked>>
      /\ seenPolicies' = policies /\ held'[q] = Absent
  BY DEF Restart
<1>3. QED
  BY <1>1, <1>2 DEF VersionPast, CopyCounts

\* Every step keeps the counts.
LEMMA CountNext == CountInv /\ [Next]_vars => CountInv'
<1> SUFFICES ASSUME CountInv, [Next]_vars
             PROVE  CountsOK'
  BY NextType DEF CountInv
<1>0. TypeOK' /\ (pc = "status" => policy \in Policies /\ held[policy] # Absent)
  BY NextType DEF CountInv, TypeOK
<1>1. CASE evaluate
  <2>1. CASE (\E q \in Policies : ListPods(q)) \/ TickEnds \/ PodsDone
             \/ \E p \in Pods : PassOver(p)
    <3>1. Uncounted
      BY <2>1 DEF ListPods, TickEnds, PodsDone, PassOver, Uncounted,
         clusterVars, historyVars
    <3>2. pc' \in {"idle", "policies", "pods"}
      BY <2>1 DEF ListPods, TickEnds, PodsDone, PassOver
    <3>3. \A q \in Policies : Pending(q)' <= Pending(q)
      BY <3>2 DEF Pending
    <3>4. QED
      BY <1>0, <3>1, <3>3, UncountedSteps
  <2>2. QED
    BY <1>1, <2>1, WakeCounts, FlagCounts DEF evaluate
<1>2. CASE Remediate \/ EvictFails \/ SuspendFails \/ LookupFails
  <2>1. Uncounted
    BY <1>2
    DEF Remediate, EvictPod, Orphan, SuspendWorkload, EvictFails, SuspendFails,
        LookupFails, Tried, Uncounted, localVars, clusterVars, historyVars
  <2>2. pc \in {"evict", "suspend"} /\ policy' = policy
    BY <1>2
    DEF Remediate, EvictPod, Orphan, SuspendWorkload, EvictFails, SuspendFails,
        LookupFails, Tried, localVars
  <2>3. \A q \in Policies : Pending(q)' <= Pending(q)
    BY <2>2 DEF Pending
  <2>4. QED
    BY <1>0, <2>1, <2>3, UncountedSteps
<1>3. CASE StatusAccepted
  BY <1>0, <1>3, WriteCounts DEF StatusAccepted, RemediateReturns
<1>4. CASE StatusRejected
  BY <1>0, <1>4, LostCounts DEF StatusRejected, RemediateReturns
<1>5. CASE StatusFaulted
  <2>1. CASE UNCHANGED <<policies, revision>>
    BY <1>0, <1>5, <2>1, LostCounts DEF StatusFaulted, RemediateReturns
  <2>2. CASE Current(held[policy]) /\ Write(Counted(held[policy]))
    BY <1>0, <1>5, <2>2, WriteCounts DEF StatusFaulted, RemediateReturns
  <2>3. QED
    BY <1>5, <2>1, <2>2 DEF StatusFaulted
<1>6. CASE WakeInVain \/ \E q \in Policies : SkipPolicy(q)
  <2>1. Uncounted /\ UNCHANGED <<pc, policy>>
    BY <1>6
    DEF WakeInVain, SkipPolicy, Uncounted, clusterVars, loopVars, historyVars
  <2>2. \A q \in Policies : Pending(q)' <= Pending(q)
    BY <2>1 DEF Pending
  <2>3. QED
    BY <1>0, <2>1, <2>2, UncountedSteps
<1>7. CASE World
  <2>1. ASSUME \/ \E p \in Pods, tool \in Tools, lag \in Lags :
                      Report(p, tool, lag)
               \/ \E p \in Pods, phase \in Phases \cup {Absent} :
                      PodMoves(p, phase)
               \/ \E p \in Pods : SeePod(p)
               \/ \E d \in Deployments : ScaleUp(d)
               \/ Tick
        PROVE  CountsOK'
    <3>1. Uncounted /\ UNCHANGED <<pc, policy>>
      BY <2>1
      DEF Report, PodMoves, SeePod, ScaleUp, Tick, Uncounted, engineVars,
          clusterVars, loopVars, historyVars
    <3>2. \A q \in Policies : Pending(q)' <= Pending(q)
      BY <3>1 DEF Pending
    <3>3. QED
      BY <1>0, <3>1, <3>2, UncountedSteps
  <2>2. QED
    BY <1>7, <2>1, UserCounts, SeenCounts, RestartCounts DEF World
<1>8. CASE UNCHANGED vars
  <2>1. Uncounted /\ UNCHANGED <<pc, policy>>
    BY <1>8 DEF vars, Uncounted, clusterVars, loopVars, historyVars
  <2>2. \A q \in Policies : Pending(q)' <= Pending(q)
    BY <2>1 DEF Pending
  <2>3. QED
    BY <1>0, <2>1, <2>2, UncountedSteps
<1>9. QED
  BY <1>1, <1>2, <1>3, <1>4, <1>5, <1>6, <1>7, <1>8
  DEF Next, Engine, Faults, updateStatus

\* detectionCount lies between the acknowledged updates and the detections,
\* for any number of policies, pods, edits, faults and restarts.
THEOREM DetectionsCorrect == Spec => []DetectionsAccounted
<1>1. Init => CountInv
  <2> SUFFICES ASSUME Init
               PROVE  CountsOK
    BY InitType DEF CountInv
  <2>1. /\ policies = [q \in Policies |-> Absent]
        /\ seenPolicies = [q \in Policies |-> Absent]
        /\ held = [q \in Policies |-> Absent]
    BY DEF Init
  <2>2. QED
    BY <2>1 DEF CountsOK, VersionPast, CopyCounts
<1>2. CountInv => DetectionsAccounted
  BY DEF CountInv, CountsOK, CopyCounts, DetectionsAccounted
<1>3. QED
  BY <1>1, <1>2, CountNext, PTL DEF Spec
===============================================================================
