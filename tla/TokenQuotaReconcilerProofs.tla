---------------------- MODULE TokenQuotaReconcilerProofs ----------------------
(* Theorems about TokenQuotaReconciler, for every set of quotas and accounts,*)
(* every budget and every bound.                                             *)
EXTENDS TokenQuotaReconciler, TLAPS

\* Cache.Sync leaves a proper entry, whatever was there before.
LEMMA SyncedType ==
    ASSUME NEW entry \in Entry \cup {Absent}, NEW t \in TokenQuota
    PROVE  Synced(entry, t) \in Entry
<1>1. NewEntry \in Entry
  BY DEF NewEntry, Entry, QuotaStates, Denying
<1>2. AsInt64(t.spec.budget) \in Nat
  BY DEF AsInt64, TokenQuota, QuotaSpec, Budget
<1>3. (IF t.spec.soft = 0 THEN 80 ELSE t.spec.soft) \in 0..99
  BY DEF TokenQuota, QuotaSpec
<1>4. QED
  BY <1>1, <1>2, <1>3, UnsetAssumption
  DEF Synced, Entry, TokenQuota, QuotaStatus, QuotaStates, Denying

\* Whatever it is applied to, computeState gives one of the quota states.
LEMMA ComputeStateType ==
    ASSUME NEW max, NEW soft, NEW spent
    PROVE  ComputeState(max, soft, spent) \in QuotaStates
<1>1. \/ ComputeState(max, soft, spent) = "Active"
      \/ ComputeState(max, soft, spent) = "Exceeded"
      \/ ComputeState(max, soft, spent) = "SoftLimit"
  BY Zenon DEF ComputeState
<1>2. QED
  BY <1>1 DEF QuotaStates, Denying

\* An entry with another account of its spend is an entry.
LEMMA AccountedType ==
    ASSUME NEW entry \in Entry, NEW spent \in Nat, NEW runs \in Nat,
           NEW state \in QuotaStates
    PROVE  /\ Accounted(entry, spent, runs, state) \in Entry
           /\ Accounted(entry, spent, runs, state).spent = spent
           /\ Accounted(entry, spent, runs, state).runs = runs
           /\ Accounted(entry, spent, runs, state).state = state
           /\ Accounted(entry, spent, runs, state).renewal = entry.renewal
  BY DEF Accounted, Entry

\* The entry Sync creates under a new key is an entry.
LEMMA EntryExists == NewEntry \in Entry
  BY DEF NewEntry, Entry, QuotaStates, Denying

\* RecordSpend leaves a proper entry with one run more and usd more spend.
LEMMA ChargedType ==
    ASSUME NEW entry \in Entry, NEW usd \in Nat
    PROVE  /\ Charged(entry, usd) \in Entry
           /\ Charged(entry, usd).spent = entry.spent + usd
           /\ Charged(entry, usd).runs = entry.runs + 1
           /\ Charged(entry, usd).renewal = entry.renewal
<1> DEFINE spent == entry.spent + usd
           runs  == entry.runs + 1
           state == ComputeState(entry.max, entry.soft, spent)
<1>1. state \in QuotaStates
  BY ComputeStateType
<1>2. spent \in Nat /\ runs \in Nat
  BY DEF Entry
<1>3. Charged(entry, usd) = Accounted(entry, spent, runs, state)
  BY DEF Charged
<1>4. spent = entry.spent + usd /\ runs = entry.runs + 1
  OBVIOUS
<1> HIDE DEF spent, runs, state
<1>5. /\ Accounted(entry, spent, runs, state) \in Entry
      /\ Accounted(entry, spent, runs, state).spent = spent
      /\ Accounted(entry, spent, runs, state).runs = runs
      /\ Accounted(entry, spent, runs, state).renewal = entry.renewal
  BY <1>1, <1>2, AccountedType
<1>6. QED
  BY <1>3, <1>4, <1>5

\* Reset leaves a proper entry without spend.
LEMMA ClearedType ==
    ASSUME NEW entry \in Entry
    PROVE  /\ Cleared(entry) \in Entry
           /\ Cleared(entry).spent = 0
           /\ Cleared(entry).renewal = entry.renewal
<1>1. "Active" \in QuotaStates
  BY DEF QuotaStates, Denying
<1>2. QED
  BY <1>1, AccountedType DEF Cleared

\* A printed amount is an amount.
LEMMA PrintedType ==
    ASSUME NEW spent \in Nat
    PROVE  Printed(spent) \in Nat
  BY SpendAssumption DEF Printed

\* What the three branches of Reconcile make of the local TokenQuota is one.
LEMMA LocalType ==
    ASSUME NEW t \in TokenQuota, NEW next \in Nat, clock \in Nat,
           NEW entry \in Entry
    PROVE  /\ Opened(t, next) \in TokenQuota
           /\ Renewed(t, next) \in TokenQuota
           /\ Reported(t, entry) \in TokenQuota
<1>1. FirstState(t) \in QuotaStates
  BY DEF FirstState, TokenQuota, QuotaStatus, QuotaStates, Denying
<1>2. Opened(t, next) \in TokenQuota
  BY <1>1 DEF Opened, TokenQuota, QuotaStatus
<1>3. Renewed(t, next) \in TokenQuota
  BY DEF Renewed, TokenQuota, QuotaStatus, QuotaStates, Denying
<1>4. Printed(entry.spent) \in Nat
  BY PrintedType DEF Entry
<1>5. Reported(t, entry) \in TokenQuota
  BY <1>4 DEF Reported, TokenQuota, QuotaStatus, Entry
<1>6. QED
  BY <1>2, <1>3, <1>5

\* A renewal date is a date.
LEMMA NextRenewalType ==
    ASSUME NEW t \in TokenQuota, clock \in Nat
    PROVE  NextRenewal(t) \in Nat /\ NextRenewal(t) > clock
  BY DEF NextRenewal, TokenQuota, QuotaSpec

-----------------------------------------------------------------------------
(* Type correctness.                                                       *)

Object == TokenQuota \cup {Absent}

\* One write keeps the objects and the undelivered versions well typed.
LEMMA StoreType ==
    ASSUME TypeOK, NEW q \in Quotas, NEW object \in Object, Store(q, object)
    PROVE  /\ api' \in [Quotas -> Object]
           /\ watch' \in [Quotas -> Seq(Object)]
<1>1. CASE api[q] = object
  BY <1>1 DEF Store, TypeOK, Object
<1>2. CASE api[q] # object
  <2>1. watch[q] \in Seq(Object)
    BY DEF TypeOK, Object
  <2>2. Append(watch[q], object) \in Seq(Object)
    BY <2>1
  <2>3. QED
    BY <1>2, <2>2 DEF Store, TypeOK, Object
<1>3. QED
  BY <1>1, <1>2

\* Counting against a bound keeps the counters natural numbers.
LEMMA SpendType ==
    ASSUME TypeOK, NEW what \in Bounded, Spend(what)
    PROVE  used' \in [Bounded -> Nat]
  BY DEF TypeOK, Spend

\* The initial state is well typed.
LEMMA InitType == Init => TypeOK
<1> SUFFICES ASSUME Init PROVE TypeOK
  OBVIOUS
<1>1. LedgerTypeOK
  BY DEF Init, LedgerInit, LedgerTypeOK
<1>2. /\ api \in [Quotas -> TokenQuota \cup {Absent}]
      /\ informer \in [Quotas -> TokenQuota \cup {Absent}]
      /\ billed \in [ServiceAccounts -> Nat]
  BY DEF Init
<1>3. watch \in [Quotas -> Seq(TokenQuota \cup {Absent})]
  BY DEF Init
<1>4. used \in [Bounded -> Nat]
  BY DEF Init
<1>5. /\ pc \in Steps /\ pc = "idle"
      /\ req \in Quotas \cup {Absent} /\ tq \in TokenQuota \cup {Absent}
      /\ fresh \in BOOLEAN /\ queue \subseteq Quotas /\ armed \subseteq Quotas
  BY DEF Init, Steps
<1>6. QED
  BY <1>1, <1>2, <1>3, <1>4, <1>5 DEF TypeOK

\* Every step keeps the state well typed.
LEMMA NextType == TypeOK /\ [Next]_vars => TypeOK'
<1> SUFFICES ASSUME TypeOK, [Next]_vars PROVE TypeOK'
  OBVIOUS
<1> USE DEF LedgerTypeOK, ledgerVars, objectVars, workerVars
<1>1. ASSUME NEW q \in Quotas, Fetch(q) PROVE TypeOK'
  BY <1>1, AbsentQuotaAssumption DEF TypeOK, Fetch, Steps
<1>2. CASE Forget
  BY <1>2 DEF TypeOK, Forget, Return, Delete, Steps
<1>3. CASE SyncStep
  <2>1. tq \in TokenQuota
    BY <1>3 DEF TypeOK, SyncStep
  <2>2. ledger' \in [ServiceAccounts -> Entry \cup {Absent}]
    BY <1>3, <2>1, SyncedType DEF TypeOK, SyncStep, Sync
  <2>3. tq' \in TokenQuota
    <3>1. Opened(tq, NextRenewal(tq)) \in TokenQuota
      BY <2>1, NextRenewalType, LocalType, EntryExists DEF TypeOK
    <3>2. QED
      BY <1>3, <2>1, <3>1 DEF SyncStep
  <2>4. QED
    BY <1>3, <2>2, <2>3 DEF TypeOK, SyncStep, Steps
<1>4. CASE Renew
  <2>1. tq \in TokenQuota /\ tq.spec.target \in ServiceAccounts
    BY <1>4 DEF TypeOK, Renew, TokenQuota, QuotaSpec
  <2>2. ledger' \in [ServiceAccounts -> Entry \cup {Absent}]
    BY <1>4, <2>1, ClearedType DEF TypeOK, Renew, Reset
  <2>3. tq' \in TokenQuota
    BY <1>4, <2>1, NextRenewalType, LocalType, EntryExists DEF TypeOK, Renew
  <2>4. QED
    BY <1>4, <2>1, <2>2, <2>3 DEF TypeOK, Renew, Steps
<1>5. CASE Report
  <2>1. tq \in TokenQuota
    BY <1>5 DEF TypeOK, Report
  <2> DEFINE entry == ledger[tq.spec.target]
  <2>2. CASE entry = Absent
    BY <1>5, <2>2 DEF TypeOK, Report, Return, RequeueAfter, Steps
  <2>3. CASE entry # Absent
    <3>1. entry \in Entry
      BY <2>1, <2>3 DEF TypeOK, TokenQuota, QuotaSpec
    <3>2. tq' \in TokenQuota
      BY <1>5, <2>1, <2>3, <3>1, LocalType DEF Report, TypeOK
    <3>3. QED
      BY <1>5, <2>3, <3>2 DEF TypeOK, Report, Steps
  <2>4. QED
    BY <2>2, <2>3
<1>6. CASE UpdateAccepted
  <2>1. req \in Quotas /\ tq \in Object
    BY <1>6 DEF TypeOK, UpdateAccepted, Writing, Object
  <2>2. api' \in [Quotas -> Object] /\ watch' \in [Quotas -> Seq(Object)]
    BY <1>6, <2>1, StoreType DEF UpdateAccepted
  <2>3. QED
    BY <1>6, <2>1, <2>2
    DEF TypeOK, UpdateAccepted, Writing, Return, RequeueAfter, Steps, Object
<1>7. CASE UpdateRejected
  BY <1>7 DEF TypeOK, UpdateRejected, Writing, Return, RequeueAfter,
              RequeueError, Steps
<1>8. CASE UpdateFaulted
  <2>1. req \in Quotas /\ tq \in Object
    BY <1>8 DEF TypeOK, UpdateFaulted, Writing, Object
  <2>2. api' \in [Quotas -> Object] /\ watch' \in [Quotas -> Seq(Object)]
    BY <1>8, <2>1, StoreType DEF UpdateFaulted, TypeOK, Object
  <2>3. informer' = informer
    BY <1>8 DEF UpdateFaulted
  <2>4. used' \in [Bounded -> Nat]
    BY <1>8, SpendType DEF UpdateFaulted, Bounded
  <2>5. QED
    BY <1>8, <2>1, <2>2, <2>3, <2>4
    DEF TypeOK, UpdateFaulted, Return, RequeueError, Steps, Object
<1>9. ASSUME NEW q \in Quotas, Deliver(q) PROVE TypeOK'
  <2>1. watch[q] \in Seq(Object) /\ watch[q] # <<>>
    BY <1>9 DEF TypeOK, Deliver, Object
  <2>2. Head(watch[q]) \in Object /\ Tail(watch[q]) \in Seq(Object)
    BY <2>1
  <2>3. QED
    BY <1>9, <2>2 DEF TypeOK, Deliver, Object
<1>10. ASSUME NEW q \in Quotas, TimerFires(q) PROVE TypeOK'
  BY <1>10 DEF TypeOK, TimerFires
<1>11. ASSUME NEW q \in Quotas, NEW object \in Object, UserWrites(q, object)
       PROVE  TypeOK'
  <2>1. api' \in [Quotas -> Object] /\ watch' \in [Quotas -> Seq(Object)]
    BY <1>11, StoreType DEF UserWrites
  <2>2. used' \in [Bounded -> Nat]
    BY <1>11, SpendType DEF UserWrites, Bounded
  <2>3. QED
    BY <1>11, <2>1, <2>2 DEF TypeOK, UserWrites, Object
<1>12. CASE Users
  <2>1. ASSUME NEW q \in Quotas, NEW spec \in SpecsOf[q],
               CreateQuota(q, spec)
        PROVE  TypeOK'
    <3>1. [spec |-> spec, status |-> NewStatus] \in Object
      BY SpecsAssumption DEF Object, TokenQuota, NewStatus, QuotaStatus
    <3>2. QED
      BY <1>11, <2>1, <3>1 DEF CreateQuota
  <2>2. ASSUME NEW q \in Quotas, NEW spec \in SpecsOf[q], EditSpec(q, spec)
        PROVE  TypeOK'
    <3>1. api[q] \in TokenQuota /\ spec \in QuotaSpec
      BY <2>2, SpecsAssumption DEF TypeOK, EditSpec
    <3>2. [api[q] EXCEPT !.spec = spec] \in Object
      BY <3>1 DEF Object, TokenQuota
    <3>3. QED
      BY <1>11, <2>2, <3>2 DEF EditSpec
  <2>3. ASSUME NEW q \in Quotas, NEW state \in Patches, PatchState(q, state)
        PROVE  TypeOK'
    <3>1. api[q] \in TokenQuota /\ state \in QuotaStates
      BY <2>3, PatchesAssumption DEF TypeOK, PatchState
    <3>2. [api[q] EXCEPT !.status.state = state] \in Object
      BY <3>1 DEF Object, TokenQuota, QuotaStatus
    <3>3. QED
      BY <1>11, <2>3, <3>2 DEF PatchState
  <2>4. ASSUME NEW q \in Quotas, DeleteQuota(q) PROVE TypeOK'
    BY <1>11, <2>4 DEF DeleteQuota, Object
  <2>5. QED
    BY <1>12, <2>1, <2>2, <2>3, <2>4 DEF Users
<1>13. ASSUME NEW sa \in ServiceAccounts, NEW usd \in Amounts, Bill(sa, usd)
       PROVE  TypeOK'
  <2>1. ledger[sa] \in Entry /\ usd \in Nat
    BY <1>13, SpendAssumption DEF TypeOK, Bill, RecordSpend
  <2>2. Charged(ledger[sa], usd) \in Entry
    BY <2>1, ChargedType
  <2>3. used' \in [Bounded -> Nat]
    BY <1>13, SpendType DEF Bill, Bounded
  <2>4. QED
    BY <1>13, <2>1, <2>2, <2>3 DEF TypeOK, Bill, RecordSpend
<1>14. CASE Tick
  BY <1>14 DEF TypeOK, Tick
<1>15. CASE Restart
  <2>1. used' \in [Bounded -> Nat]
    BY <1>15, SpendType DEF Restart, Bounded
  <2>2. /\ watch' \in [Quotas -> Seq(TokenQuota \cup {Absent})]
        /\ ledger' \in [ServiceAccounts -> Entry \cup {Absent}]
        /\ queue' \subseteq Quotas /\ armed' \subseteq Quotas
    BY <1>15 DEF Restart
  <2>3. /\ pc' \in Steps /\ pc' = "idle" /\ req' \in Quotas \cup {Absent}
        /\ tq' \in TokenQuota \cup {Absent} /\ fresh' \in BOOLEAN
    BY <1>15 DEF Restart, Return, Steps
  <2>4. QED
    BY <1>15, <2>1, <2>2, <2>3 DEF TypeOK, Restart
<1>16. CASE UNCHANGED vars
  BY <1>16 DEF TypeOK, vars
<1>17. QED
  BY <1>1, <1>2, <1>3, <1>4, <1>5, <1>6, <1>7, <1>8, <1>9, <1>10, <1>12,
     <1>13, <1>14, <1>15, <1>16
  DEF Next, Reconcile

\* The state is well typed for every value of the constants.
THEOREM TypeCorrect == Spec => []TypeOK
  BY InitType, NextType, PTL DEF Spec
===============================================================================
