---------------------------- MODULE QuotaLedger ----------------------------
(***************************************************************************)
(* The in-memory quota ledger, internal/ledger/cache.go: one entry per     *)
(* "namespace/serviceAccount" key behind one RWMutex, so every method of   *)
(* Cache is one atomic action here.  The callers are the TokenQuota        *)
(* controller (Sync, Get, Reset, Delete), the OTLP receiver (RecordSpend)  *)
(* and the admission webhook (Check).                                      *)
(*                                                                         *)
(* Money is counted in whole spend units, one unit being a fixed fraction  *)
(* of a dollar.  SpentTokens travels on every path that RunCount travels   *)
(* on and is never compared with anything, so runs stands for both;        *)
(* EnforcementAction and UpdatedAt are never read.                         *)
(***************************************************************************)
EXTENDS Integers

CONSTANTS
    ServiceAccounts,  \* ledger keys, namespace + "/" + serviceAccount
    Absent,           \* no entry under a key, no object under a name
    Unset             \* a status field nobody has written

VARIABLES
    ledger,           \* Cache.entries
    clock             \* Cache.now, the wall clock in ticks

ledgerVars == <<ledger, clock>>

Denying     == {"Exceeded", "Suspended"}
QuotaStates == {"Active", "SoftLimit"} \cup Denying

\* A resource.Quantity: whole is what AsInt64 reports as its second result,
\* true for "50" and false for "12.50", whose int64 fast path gives 0.
Budget == [amount : Nat, whole : BOOLEAN]

QuotaSpec == [target   : ServiceAccounts,
              budget   : Budget,
              soft     : 0..99,
              interval : Nat \ {0}]

\* Unset stands for "" and nil, and in spent for any string that
\* strconv.ParseFloat rejects.
QuotaStatus == [state   : QuotaStates \cup {Unset},
                spent   : Nat \cup {Unset},
                runs    : Nat,
                renewal : Nat \cup {Unset},
                updated : Nat \cup {Unset}]

TokenQuota == [spec : QuotaSpec, status : QuotaStatus]

Entry == [max     : Nat,
          soft    : 0..99,
          spent   : Nat,
          runs    : Nat,
          state   : QuotaStates,
          renewal : Nat \cup {Unset}]

ASSUME AbsentAssumption == Absent \notin Entry /\ Absent \notin TokenQuota

ASSUME UnsetAssumption == Unset \notin Nat /\ Unset \notin QuotaStates

AsInt64(budget) == IF budget.whole THEN budget.amount ELSE 0

\* Mutant of Elapsed: a period is over on its renewal date, not after it.
ElapsedEarly(renewal) == renewal # Unset /\ clock >= renewal

Elapsed(renewal) == renewal # Unset /\ clock > renewal

\* computeState on a ceiling, a soft percentage and a spend.
ComputeState(max, soft, spent) ==
    IF max = 0 THEN "Active"
    ELSE IF spent >= max THEN "Exceeded"
    ELSE IF soft > 0 /\ 100 * spent >= soft * max THEN "SoftLimit"
    ELSE "Active"

\* Mutant of NewEntry: the state is left at Go's zero value.
BlankEntry == [max |-> 0, soft |-> 80, spent |-> 0, runs |-> 0,
               state |-> Unset, renewal |-> Unset]

NewEntry == [max |-> 0, soft |-> 80, spent |-> 0, runs |-> 0,
             state |-> "Active", renewal |-> Unset]

\* Mutant of Synced: the verdict is not taken from the status.
SyncedUnjudged(entry, tq) ==
    LET old    == IF entry = Absent THEN NewEntry ELSE entry
        status == tq.status
    IN  [max     |-> AsInt64(tq.spec.budget),
         soft    |-> IF tq.spec.soft = 0 THEN 80 ELSE tq.spec.soft,
         spent   |-> IF status.spent # Unset THEN status.spent ELSE old.spent,
         runs    |-> IF status.state # Unset THEN status.runs ELSE old.runs,
         state   |-> old.state,
         renewal |-> IF status.renewal # Unset
                     THEN status.renewal ELSE old.renewal]

\* The entry Sync leaves behind: limits from the spec always, spend and
\* verdict from the status once the status has a state, field by field.
Synced(entry, tq) ==
    LET old    == IF entry = Absent THEN NewEntry ELSE entry
        status == tq.status
        seen   == status.state # Unset
    IN  [max     |-> AsInt64(tq.spec.budget),
         soft    |-> IF tq.spec.soft = 0 THEN 80 ELSE tq.spec.soft,
         spent   |-> IF seen /\ status.spent # Unset
                     THEN status.spent ELSE old.spent,
         runs    |-> IF seen THEN status.runs ELSE old.runs,
         state   |-> IF seen THEN status.state ELSE old.state,
         renewal |-> IF status.renewal # Unset
                     THEN status.renewal ELSE old.renewal]

\* An entry with another account of its spend.
Accounted(entry, spent, runs, state) ==
    [entry EXCEPT !.spent = spent, !.runs = runs, !.state = state]

\* The entry after one run that cost usd; the verdict is computed afresh.
Charged(entry, usd) ==
    LET spent == entry.spent + usd
    IN  Accounted(entry, spent, entry.runs + 1,
                  ComputeState(entry.max, entry.soft, spent))

Cleared(entry) == Accounted(entry, 0, 0, "Active")

-----------------------------------------------------------------------------
Sync(tq) ==
    LET sa == tq.spec.target
    IN  ledger' = [ledger EXCEPT ![sa] = Synced(@, tq)]

RecordSpend(sa, usd) ==
    /\ ledger[sa] # Absent
    /\ ledger' = [ledger EXCEPT ![sa] = Charged(@, usd)]

Reset(sa) ==
    ledger' = [ledger EXCEPT ![sa] = IF @ = Absent THEN @ ELSE Cleared(@)]

Delete(key) == ledger' = [ledger EXCEPT ![key] = Absent]

\* Mutant of Check: an overdue entry keeps its verdict.
StaleCheck(sa) == IF ledger[sa] = Absent THEN "Active" ELSE ledger[sa].state

\* Check: no entry, or an entry whose renewal is overdue, is treated as
\* Active (fail-open).
Check(sa) ==
    IF ledger[sa] = Absent \/ Elapsed(ledger[sa].renewal)
    THEN "Active"
    ELSE ledger[sa].state

\* The answer of webhook.Handler to the creation of a pod that runs under sa.
Verdict(sa) ==
    IF Check(sa) \in Denying THEN "Denied"
    ELSE IF Check(sa) = "SoftLimit" THEN "Warned"
    ELSE "Allowed"

LedgerInit ==
    /\ ledger = [sa \in ServiceAccounts |-> Absent]
    /\ clock = 0

LedgerTypeOK ==
    /\ ledger \in [ServiceAccounts -> Entry \cup {Absent}]
    /\ clock \in Nat
=============================================================================
