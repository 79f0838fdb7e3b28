---------------------- MODULE TokenQuotaRefinementProofs ----------------------
(* TokenQuotaReconciler implements DurableQuota, for every value of the      *)
(* constants: quotas may share accounts, change their target, be deleted and *)
(* created again.                                                            *)
EXTENDS TokenQuotaReconcilerProofs, SequenceTheorems

-----------------------------------------------------------------------------
(* Printing a spend with six decimals.                                     *)

\* The quotient of a division is where it should be.
LEMMA Quotient ==
    ASSUME NEW M \in Nat \ {0}, NEW a \in Nat
    PROVE  /\ a \div M \in Nat
           /\ (a \div M) * M <= a
           /\ a < (a \div M) * M + M
  OBVIOUS

\* Less than M beyond a multiple of M does not reach the next multiple.
LEMMA QuotientUnique ==
    ASSUME NEW M \in Nat \ {0}, NEW k \in Nat, NEW h \in 0 .. (M - 1)
    PROVE  (k * M + h) \div M = k
<1> DEFINE a == k * M + h
           j == a \div M
<1>1. a \in Nat
  OBVIOUS
<1>2. j \in Nat /\ j * M <= a /\ a < j * M + M
  BY <1>1, Quotient
<1> HIDE DEF j
<1>3. j < k + 1
  BY <1>2
<1>4. k < j + 1
  BY <1>2
<1>5. j = k
  BY <1>2, <1>3, <1>4
<1>6. QED
  BY <1>5 DEF j

\* strconv.FormatFloat keeps the order of amounts.
LEMMA PrintedMonotone ==
    ASSUME NEW a \in Nat, NEW b \in Nat, a <= b
    PROVE  Printed(a) <= Printed(b)
<1> DEFINE h == Micro \div 2
           k == (a + h) \div Micro
           l == (b + h) \div Micro
<1>1. Micro \in Nat \ {0} /\ h \in Nat
  BY SpendAssumption
<1>2. a + h \in Nat /\ b + h \in Nat /\ a + h <= b + h
  BY <1>1
<1>3. /\ k \in Nat /\ k * Micro <= a + h
      /\ l \in Nat /\ b + h < l * Micro + Micro
  BY <1>1, <1>2, Quotient
<1> HIDE DEF h, k, l
<1>4. k * Micro < (l + 1) * Micro
  BY <1>1, <1>2, <1>3
<1>5. k <= l
  BY <1>1, <1>3, <1>4
<1>6. k * Micro <= l * Micro
  BY <1>1, <1>3, <1>5
<1>7. QED
  BY <1>6 DEF Printed, h, k, l

\* What was printed once is printed unchanged again.
LEMMA PrintedTwice ==
    ASSUME NEW a \in Nat
    PROVE  Printed(Printed(a)) = Printed(a)
<1> DEFINE h == Micro \div 2
           k == (a + h) \div Micro
<1>1. Micro \in Nat \ {0} /\ h \in 0 .. (Micro - 1)
  BY SpendAssumption
<1>2. k \in Nat
  BY <1>1, Quotient
<1> HIDE DEF h, k
<1>3. (k * Micro + h) \div Micro = k
  BY <1>1, <1>2, QuotientUnique
<1>4. QED
  BY <1>3 DEF Printed, h, k

\* No spend is printed as no spend.
LEMMA PrintedZero == Printed(0) = 0
<1>1. Micro \in Nat \ {0} /\ Micro \div 2 \in 0 .. (Micro - 1)
  BY SpendAssumption
<1>2. (0 * Micro + Micro \div 2) \div Micro = 0
  BY <1>1, QuotientUnique
<1>3. QED
  BY <1>1, <1>2 DEF Printed

-----------------------------------------------------------------------------
(* The inductive invariant.                                                *)

\* A version of an object, as the API server, the watch, the informer and the
\* worker hold them: the spend is one that was printed, and a status without a
\* state has no account yet.
Version ==
    {t \in TokenQuota :
        /\ t.status.spent # Unset => Printed(t.status.spent) = t.status.spent
        /\ t.status.state = Unset => t.status.spent = Unset
                                     /\ t.status.runs = 0} \cup {Absent}

VersionsOK ==
    /\ api \in [Quotas -> Version]
    /\ watch \in [Quotas -> Seq(Version)]
    /\ informer \in [Quotas -> Version]
    /\ tq \in Version

\* The informer and the versions on their way to it end at the API server.
InformerOK ==
    \A q \in Quotas :
        IF watch[q] = <<>> THEN informer[q] = api[q]
        ELSE watch[q][Len(watch[q])] = api[q]

\* The entry carries at least the account of the status, and more only if it
\* carries more runs.
Covers(entry, status) ==
    /\ entry.runs >= status.runs
    /\ status.spent # Unset =>
           /\ entry.spent >= status.spent
           /\ entry.runs = status.runs => entry.spent = status.spent
                                          /\ entry.state = status.state

\* From Sync to Get, nobody takes spend away from the entry of the request.
LedgerOK ==
    pc \in {"openWrite", "report"} =>
        /\ ledger[tq.spec.target] # Absent
        /\ Covers(ledger[tq.spec.target], tq.status)

\* While the worker holds the newest version, what it holds is that version,
\* or what DurableQuota lets it become.
HeldOK ==
    fresh =>
        /\ pc = "sync" => tq = api[req]
        /\ pc = "renew" => tq = api[req] /\ Elapsed(tq.status.renewal)
        /\ pc = "report" => tq = api[req] /\ tq.status.renewal # Unset
        /\ Writing =>
               /\ api[req] # Absent
               /\ tq.spec = api[req].spec
               /\ \/ /\ pc = "openWrite"
                     /\ Durable!Opens(api[req].status, tq.status)
                  \/ /\ pc = "renewWrite"
                     /\ Durable!Renews(api[req].status, tq.status)
                  \/ /\ pc = "reportWrite"
                     /\ Durable!Charges(api[req].status, tq.status)

IInv == TypeOK /\ VersionsOK /\ InformerOK /\ LedgerOK /\ HeldOK

-----------------------------------------------------------------------------
(* What the branches of Reconcile do to the object they hold.              *)

\* The first update sets a date and a state and leaves the account alone.
LEMMA OpenedFields ==
    ASSUME NEW t \in TokenQuota, NEW next \in Nat
    PROVE  /\ Opened(t, next).spec = t.spec
           /\ Opened(t, next).status.renewal = next
           /\ Opened(t, next).status.state = FirstState(t)
           /\ Opened(t, next).status.spent = t.status.spent
           /\ Opened(t, next).status.runs = t.status.runs
  BY DEF Opened, TokenQuota, QuotaStatus

\* The renewal update sets a date and clears the account.
LEMMA RenewedFields ==
    ASSUME NEW t \in TokenQuota, NEW next \in Nat
    PROVE  /\ Renewed(t, next).spec = t.spec
           /\ Renewed(t, next).status.renewal = next
           /\ Renewed(t, next).status.state = "Active"
           /\ Renewed(t, next).status.spent = 0
           /\ Renewed(t, next).status.runs = 0
  BY DEF Renewed, TokenQuota, QuotaStatus

\* The last update copies the account of the entry and keeps the date.
LEMMA ReportedFields ==
    ASSUME NEW t \in TokenQuota, NEW entry \in Entry
    PROVE  /\ Reported(t, entry).spec = t.spec
           /\ Reported(t, entry).status.renewal = t.status.renewal
           /\ Reported(t, entry).status.state = entry.state
           /\ Reported(t, entry).status.spent = Printed(entry.spent)
           /\ Reported(t, entry).status.runs = entry.runs
  BY DEF Reported, TokenQuota, QuotaStatus

\* The three of them make versions from versions.
LEMMA LocalVersion ==
    ASSUME NEW t \in Version \ {Absent}, NEW next \in Nat, clock \in Nat,
           NEW entry \in Entry
    PROVE  /\ Opened(t, next) \in Version \ {Absent}
           /\ Renewed(t, next) \in Version \ {Absent}
           /\ Reported(t, entry) \in Version \ {Absent}
<1>1. t \in TokenQuota
  BY DEF Version
<1>2. /\ Opened(t, next) \in TokenQuota \ {Absent}
      /\ Renewed(t, next) \in TokenQuota \ {Absent}
      /\ Reported(t, entry) \in TokenQuota \ {Absent}
  BY <1>1, LocalType, AbsentAssumption
<1>3. FirstState(t) \in QuotaStates
  BY <1>1 DEF FirstState, TokenQuota, QuotaStatus, QuotaStates, Denying
<1>4. Opened(t, next) \in Version
  BY <1>1, <1>2, <1>3, OpenedFields, UnsetAssumption DEF Version
<1>5. Renewed(t, next) \in Version
  BY <1>1, <1>2, RenewedFields, PrintedZero, UnsetAssumption
  DEF Version, QuotaStates, Denying
<1>6. Reported(t, entry) \in Version
  <2>1. entry.state # Unset /\ entry.spent \in Nat
    BY UnsetAssumption DEF Entry
  <2>2. Printed(Printed(entry.spent)) = Printed(entry.spent)
    BY <2>1, PrintedTwice
  <2>3. QED
    BY <1>1, <1>2, <2>1, <2>2, ReportedFields DEF Version
<1>7. QED
  BY <1>2, <1>4, <1>5, <1>6

\* After Sync the entry covers the status it was synced from, and so it does
\* once the status has been opened.
LEMMA SyncedCovers ==
    ASSUME NEW entry \in Entry \cup {Absent}, NEW t \in Version \ {Absent},
           NEW next \in Nat
    PROVE  /\ Covers(Synced(entry, t), t.status)
           /\ Covers(Synced(entry, t), Opened(t, next).status)
<1>1. t \in TokenQuota /\ NewEntry \in Entry
  BY EntryExists DEF Version
<1>2. /\ t.status.state = Unset => t.status.spent = Unset
                                   /\ t.status.runs = 0
      /\ t.status.runs \in Nat
      /\ t.status.spent # Unset => t.status.spent \in Nat
  BY <1>1 DEF Version, TokenQuota, QuotaStatus
<1>3. Synced(entry, t).runs >= t.status.runs
  BY <1>1, <1>2 DEF Synced, Entry
<1>4. t.status.spent # Unset => /\ Synced(entry, t).spent = t.status.spent
                                /\ Synced(entry, t).state = t.status.state
  BY <1>2 DEF Synced
<1>5. t.status.spent # Unset => Opened(t, next).status.state = t.status.state
  BY <1>1, <1>2, OpenedFields DEF FirstState
<1>6. QED
  BY <1>1, <1>2, <1>3, <1>4, <1>5, OpenedFields DEF Covers

\* A run billed to the entry keeps it covering.
LEMMA ChargedCovers ==
    ASSUME NEW entry \in Entry, NEW usd \in Nat, NEW t \in TokenQuota,
           Covers(entry, t.status)
    PROVE  Covers(Charged(entry, usd), t.status)
<1>1. /\ Charged(entry, usd).spent = entry.spent + usd
      /\ Charged(entry, usd).runs = entry.runs + 1
  BY ChargedType
<1>2. /\ entry.runs \in Nat /\ entry.spent \in Nat /\ t.status.runs \in Nat
      /\ t.status.spent # Unset => t.status.spent \in Nat
  BY DEF Entry, TokenQuota, QuotaStatus
<1>3. QED
  BY <1>1, <1>2 DEF Covers

\* Reporting a covering entry is charging runs.
LEMMA ReportCharges ==
    ASSUME NEW entry \in Entry, NEW t \in Version \ {Absent},
           Covers(entry, t.status), t.status.renewal # Unset
    PROVE  Durable!Charges(t.status, Reported(t, entry).status)
<1>1. t \in TokenQuota /\ entry.spent \in Nat /\ entry.state \in QuotaStates
  BY DEF Version, Entry
<1>2. Printed(entry.spent) \in Nat
  BY <1>1, PrintedType
<1>3. ASSUME t.status.spent # Unset
      PROVE  /\ Printed(entry.spent) >= t.status.spent
             /\ entry.runs = t.status.runs =>
                    Printed(entry.spent) = t.status.spent
  <2>1. /\ t.status.spent \in Nat
        /\ Printed(t.status.spent) = t.status.spent
        /\ t.status.spent <= entry.spent
    BY <1>1, <1>3 DEF Version, TokenQuota, QuotaStatus, Covers
  <2>2. Printed(t.status.spent) <= Printed(entry.spent)
    BY <1>1, <2>1, PrintedMonotone
  <2>3. QED
    BY <1>2, <1>3, <2>1, <2>2 DEF Covers
<1>4. QED
  BY <1>1, <1>2, <1>3, ReportedFields DEF Durable!Charges, Covers

-----------------------------------------------------------------------------
(* The invariant is inductive.                                             *)

\* One write keeps the versions versions, and their queue ending at the object
\* written.
LEMMA StoreVersions ==
    ASSUME VersionsOK, InformerOK, UNCHANGED informer,
           NEW q \in Quotas, NEW object \in Version, Store(q, object)
    PROVE  /\ api' \in [Quotas -> Version]
           /\ watch' \in [Quotas -> Seq(Version)]
           /\ informer' \in [Quotas -> Version]
           /\ InformerOK'
           /\ api' = [api EXCEPT ![q] = object]
<1>1. CASE api[q] = object
  BY <1>1 DEF Store, VersionsOK, InformerOK
<1>2. CASE api[q] # object
  <2>1. /\ api' = [api EXCEPT ![q] = object]
        /\ watch' = [watch EXCEPT ![q] = Append(watch[q], object)]
    BY <1>2 DEF Store, VersionsOK
  <2>2. watch[q] \in Seq(Version)
    BY DEF VersionsOK
  <2> DEFINE longer == Append(watch[q], object)
  <2>3. /\ longer \in Seq(Version) /\ longer # <<>>
        /\ longer[Len(longer)] = object
    BY <2>2
  <2>4. watch'[q] = longer /\ api'[q] = object
    BY <2>1 DEF VersionsOK
  <2>5. \A p \in Quotas \ {q} : watch'[p] = watch[p] /\ api'[p] = api[p]
    BY <2>1 DEF VersionsOK
  <2> HIDE DEF longer
  <2>6. InformerOK'
    BY <2>3, <2>4, <2>5 DEF InformerOK
  <2>7. QED
    BY <2>1, <2>3, <2>6 DEF VersionsOK, longer
<1>3. QED
  BY <1>1, <1>2

\* The invariant holds initially.
LEMMA InvInit == Init => IInv
<1> SUFFICES ASSUME Init PROVE IInv
  OBVIOUS
<1>1. TypeOK
  BY InitType
<1>2. VersionsOK
  <2>1. watch \in [Quotas -> Seq(Version)]
    BY DEF Init
  <2>2. QED
    BY <2>1 DEF Init, VersionsOK, Version
<1>3. InformerOK
  BY DEF Init, InformerOK
<1>4. LedgerOK /\ HeldOK
  BY DEF Init, LedgerOK, HeldOK
<1>5. QED
  BY <1>1, <1>2, <1>3, <1>4 DEF IInv

\* The worker returns to idle: its locals promise nothing any more.
LEMMA ReturnOK ==
    ASSUME Return
    PROVE  tq' \in Version /\ LedgerOK' /\ HeldOK'
  BY DEF Return, Version, LedgerOK, HeldOK

\* A user's write takes the newest version of its quota away from the worker
\* and leaves every other quota as it was.
LEMMA UserWritesInv ==
    ASSUME IInv, NEW q \in Quotas, NEW object \in Version,
           UserWrites(q, object)
    PROVE  VersionsOK' /\ InformerOK' /\ LedgerOK' /\ HeldOK'
<1>1. /\ api' \in [Quotas -> Version] /\ watch' \in [Quotas -> Seq(Version)]
      /\ informer' \in [Quotas -> Version] /\ InformerOK'
      /\ api' = [api EXCEPT ![q] = object]
  BY StoreVersions DEF UserWrites, IInv
<1>2. VersionsOK'
  BY <1>1 DEF UserWrites, IInv, VersionsOK
<1>3. LedgerOK'
  BY DEF UserWrites, IInv, LedgerOK, ledgerVars
<1>4. ASSUME fresh' PROVE api'[req] = api[req]
  <2>1. q # req
    BY <1>4 DEF UserWrites
  <2>2. QED
    BY <1>1, <2>1 DEF IInv, VersionsOK
<1>5. HeldOK'
  <2> SUFFICES ASSUME fresh' PROVE HeldOK'
    BY DEF HeldOK
  <2>1. HeldOK /\ fresh
    BY DEF IInv, UserWrites
  <2>2. QED
    BY <1>4, <2>1
    DEF UserWrites, HeldOK, Writing, Elapsed, ledgerVars,
        Durable!Opens, Durable!Renews, Durable!Charges
<1>6. QED
  BY <1>1, <1>2, <1>3, <1>5

\* The empty sequence is the one of length zero.
LEMMA EmptyIffLenZero ==
    ASSUME NEW S, NEW t \in Seq(S)
    PROVE  t = <<>> <=> Len(t) = 0
<1>1. t # <<>> => Len(t) \in Nat \ {0}
  BY EmptySeq
<1>2. Len(<<>>) = 0
  BY EmptySeq
<1>3. QED
  BY <1>1, <1>2

\* Taking the head off a sequence keeps its end.
LEMMA TailEnds ==
    ASSUME NEW S, NEW s \in Seq(S), s # <<>>
    PROVE  /\ Head(s) \in S /\ Tail(s) \in Seq(S)
           /\ Tail(s) = <<>> => Head(s) = s[Len(s)]
           /\ Tail(s) # <<>> => Tail(s)[Len(Tail(s))] = s[Len(s)]
<1> DEFINE rest == Tail(s)
<1>1. Len(s) \in Nat /\ Len(s) > 0 /\ Head(s) = s[1]
  OBVIOUS
<1>2. Head(s) \in S /\ rest \in Seq(S)
  OBVIOUS
<1>3. Len(rest) = Len(s) - 1
  OBVIOUS
<1>4. \A i \in 1 .. (Len(s) - 1) : rest[i] = s[i + 1]
  OBVIOUS
<1> HIDE DEF rest
<1>5. rest = <<>> <=> Len(s) = 1
  BY <1>1, <1>2, <1>3, EmptyIffLenZero
<1>6. ASSUME rest # <<>> PROVE rest[Len(rest)] = s[Len(s)]
  <2> DEFINE n == Len(s)
  <2>1. n \in Nat /\ n > 0 /\ n # 1
    BY <1>1, <1>5, <1>6
  <2> HIDE DEF n
  <2>2. n - 1 \in 1 .. (n - 1) /\ (n - 1) + 1 = n
    BY <2>1
  <2>3. rest[n - 1] = s[n]
    BY <1>4, <2>2 DEF n
  <2>4. QED
    BY <1>3, <2>3 DEF n
<1>7. QED
  BY <1>1, <1>2, <1>5, <1>6 DEF rest

\* Every step preserves the invariant.
LEMMA InvNext == IInv /\ [Next]_vars => IInv'
<1> SUFFICES ASSUME IInv, [Next]_vars
             PROVE  VersionsOK' /\ InformerOK' /\ LedgerOK' /\ HeldOK'
  BY NextType DEF IInv
<1> DEFINE Goal == VersionsOK' /\ InformerOK' /\ LedgerOK' /\ HeldOK'
<1> USE DEF ledgerVars, objectVars, workerVars
<1>0. TypeOK /\ VersionsOK /\ InformerOK /\ LedgerOK /\ HeldOK
  BY DEF IInv
<1>1. ASSUME NEW q \in Quotas, Fetch(q) PROVE Goal
  <2>1. VersionsOK' /\ InformerOK'
    BY <1>0, <1>1 DEF Fetch, VersionsOK, InformerOK
  <2>2. LedgerOK'
    BY <1>1 DEF Fetch, LedgerOK
  <2>3. fresh' => tq' = api'[req']
    BY <1>0, <1>1 DEF Fetch, InformerOK
  <2>4. HeldOK'
    BY <1>1, <2>3 DEF Fetch, HeldOK, Writing
  <2>5. QED
    BY <2>1, <2>2, <2>4
<1>2. CASE Forget
  BY <1>0, <1>2, ReturnOK DEF Forget, VersionsOK, InformerOK
<1>3. CASE SyncStep
  <2>1. /\ tq \in Version \ {Absent} /\ tq \in TokenQuota
        /\ tq.spec.target \in ServiceAccounts /\ clock \in Nat
    BY <1>0, <1>3, AbsentAssumption
    DEF SyncStep, TypeOK, LedgerTypeOK, VersionsOK, TokenQuota, QuotaSpec
  <2>2. NextRenewal(tq) \in Nat
    BY <2>1, NextRenewalType
  <2>3. Opened(tq, NextRenewal(tq)) \in Version \ {Absent}
    BY <2>1, <2>2, LocalVersion, EntryExists
  <2>4. VersionsOK' /\ InformerOK'
    BY <1>0, <1>3, <2>1, <2>3 DEF SyncStep, VersionsOK, InformerOK
  <2> DEFINE entry == ledger[tq.spec.target]
  <2>5. /\ entry \in Entry \cup {Absent}
        /\ ledger'[tq.spec.target] = Synced(entry, tq)
        /\ Synced(entry, tq) # Absent
    BY <1>0, <1>3, <2>1, SyncedType, AbsentAssumption
    DEF SyncStep, Sync, TypeOK, LedgerTypeOK
  <2>6. /\ tq'.spec = tq.spec
        /\ tq' = tq \/ tq' = Opened(tq, NextRenewal(tq))
    BY <1>3, <2>1, <2>2, OpenedFields DEF SyncStep
  <2> HIDE DEF entry
  <2>7. Covers(Synced(entry, tq), tq'.status)
    BY <2>1, <2>2, <2>5, <2>6, SyncedCovers
  <2>8. LedgerOK'
    BY <2>5, <2>6, <2>7 DEF LedgerOK, entry
  <2>9. HeldOK'
    <3> SUFFICES ASSUME fresh' PROVE HeldOK'
      BY DEF HeldOK
    <3>1. tq = api[req] /\ api' = api /\ req' = req /\ clock' = clock
      BY <1>0, <1>3 DEF SyncStep, HeldOK
    <3>2. CASE pc' = "renew"
      BY <1>3, <3>1, <3>2 DEF SyncStep, HeldOK, Writing, Elapsed
    <3>3. CASE pc' = "report"
      BY <1>3, <3>1, <3>3 DEF SyncStep, HeldOK, Writing
    <3>4. CASE pc' = "openWrite"
      <4>1. tq.status.renewal = Unset /\ tq' = Opened(tq, NextRenewal(tq))
        BY <1>3, <3>4 DEF SyncStep
      <4>2. Durable!Opens(tq.status, tq'.status)
        BY <2>1, <2>2, <4>1, OpenedFields DEF Durable!Opens, FirstState
      <4>3. QED
        BY <2>1, <2>6, <3>1, <3>4, <4>2 DEF HeldOK, Writing, Durable!Opens
    <3>5. QED
      BY <1>3, <3>2, <3>3, <3>4 DEF SyncStep
  <2>10. QED
    BY <2>4, <2>8, <2>9
<1>4. CASE Renew
  <2>1. tq \in Version \ {Absent} /\ tq \in TokenQuota /\ clock \in Nat
    BY <1>0, <1>4, AbsentAssumption
    DEF Renew, TypeOK, LedgerTypeOK, VersionsOK
  <2>2. NextRenewal(tq) \in Nat /\ NextRenewal(tq) > clock
    BY <2>1, NextRenewalType
  <2>3. tq' \in Version
    BY <1>4, <2>1, <2>2, LocalVersion, EntryExists DEF Renew
  <2>4. VersionsOK' /\ InformerOK'
    BY <1>0, <1>4, <2>3 DEF Renew, VersionsOK, InformerOK
  <2>5. LedgerOK'
    BY <1>4 DEF Renew, LedgerOK
  <2>6. HeldOK'
    <3> SUFFICES ASSUME fresh' PROVE HeldOK'
      BY DEF HeldOK
    <3>1. /\ tq = api[req] /\ Elapsed(tq.status.renewal)
          /\ api' = api /\ req' = req /\ clock' = clock
      BY <1>0, <1>4 DEF Renew, HeldOK
    <3>2. tq.status.renewal \in Nat \cup {Unset}
      BY <2>1 DEF TokenQuota, QuotaStatus
    <3>3. /\ tq'.status.renewal = NextRenewal(tq) /\ tq'.status.spent = 0
          /\ tq'.status.runs = 0 /\ tq'.status.state = "Active"
          /\ tq'.spec = tq.spec
      BY <1>4, <2>1, <2>2, RenewedFields DEF Renew
    <3>4. Durable!Renews(tq.status, tq'.status)
      BY <2>1, <2>2, <3>1, <3>2, <3>3 DEF Durable!Renews, Elapsed
    <3>5. QED
      BY <1>4, <2>1, <3>1, <3>3, <3>4 DEF Renew, HeldOK, Writing, Durable!Renews
  <2>7. QED
    BY <2>4, <2>5, <2>6
<1>5. CASE Report
  <2>1. /\ tq \in Version \ {Absent} /\ tq \in TokenQuota
        /\ tq.spec.target \in ServiceAccounts /\ clock \in Nat
    BY <1>0, <1>5, AbsentAssumption
    DEF Report, TypeOK, LedgerTypeOK, VersionsOK, TokenQuota, QuotaSpec
  <2> DEFINE entry == ledger[tq.spec.target]
  <2>2. entry \in Entry /\ Covers(entry, tq.status)
    BY <1>0, <1>5, <2>1 DEF Report, TypeOK, LedgerTypeOK, LedgerOK
  <2>3. /\ tq' = Reported(tq, entry) /\ pc' = "reportWrite"
        /\ UNCHANGED <<req, fresh>>
    BY <1>0, <1>5 DEF Report, LedgerOK
  <2> HIDE DEF entry
  <2>4. tq' \in Version
    BY <2>1, <2>2, <2>3, LocalVersion DEF Version
  <2>5. VersionsOK' /\ InformerOK' /\ LedgerOK'
    BY <1>0, <1>5, <2>3, <2>4 DEF Report, VersionsOK, InformerOK, LedgerOK
  <2>6. HeldOK'
    <3> SUFFICES ASSUME fresh' PROVE HeldOK'
      BY DEF HeldOK
    <3>1. tq = api[req] /\ tq.status.renewal # Unset /\ api' = api
      BY <1>0, <1>5, <2>3 DEF Report, HeldOK
    <3>2. Durable!Charges(tq.status, tq'.status)
      BY <2>1, <2>2, <2>3, <3>1, ReportCharges
    <3>3. tq'.spec = tq.spec
      BY <2>1, <2>2, <2>3, ReportedFields
    <3>4. QED
      BY <2>1, <2>3, <3>1, <3>2, <3>3 DEF HeldOK, Writing, Durable!Charges
  <2>7. QED
    BY <2>5, <2>6
<1>6. CASE UpdateAccepted
  <2>1. req \in Quotas /\ tq \in Version /\ fresh
    BY <1>0, <1>6 DEF UpdateAccepted, Writing, TypeOK, VersionsOK
  <2>2. /\ api' \in [Quotas -> Version] /\ watch' \in [Quotas -> Seq(Version)]
        /\ informer' \in [Quotas -> Version] /\ InformerOK'
        /\ api' = [api EXCEPT ![req] = tq]
    BY <1>0, <1>6, <2>1, StoreVersions DEF UpdateAccepted
  <2>3. CASE pc = "openWrite"
    <3>1. UNCHANGED <<req, tq, fresh, ledger>> /\ pc' = "report"
      BY <1>6, <2>3 DEF UpdateAccepted
    <3>2. tq.status.renewal # Unset
      BY <1>0, <2>1, <2>3, UnsetAssumption DEF HeldOK, Writing, Durable!Opens
    <3>3. api'[req] = tq
      BY <1>0, <2>1, <2>2 DEF VersionsOK
    <3>4. HeldOK'
      BY <3>1, <3>2, <3>3 DEF HeldOK, Writing
    <3>5. LedgerOK'
      BY <1>0, <2>3, <3>1 DEF LedgerOK
    <3>6. QED
      BY <2>1, <2>2, <3>1, <3>4, <3>5 DEF VersionsOK
  <2>4. CASE pc # "openWrite"
    <3>1. tq' \in Version /\ LedgerOK' /\ HeldOK'
      BY <1>6, <2>4, ReturnOK DEF UpdateAccepted
    <3>2. QED
      BY <2>2, <3>1 DEF VersionsOK
  <2>5. QED
    BY <2>3, <2>4
<1>7. CASE UpdateRejected
  BY <1>0, <1>7, ReturnOK DEF UpdateRejected, VersionsOK, InformerOK
<1>8. CASE UpdateFaulted
  <2>1. req \in Quotas /\ tq \in Version
    BY <1>0, <1>8 DEF UpdateFaulted, Writing, TypeOK, VersionsOK
  <2>2. /\ api' \in [Quotas -> Version] /\ watch' \in [Quotas -> Seq(Version)]
        /\ informer' \in [Quotas -> Version] /\ InformerOK'
    <3>1. CASE UNCHANGED objectVars
      BY <1>0, <3>1 DEF VersionsOK, InformerOK
    <3>2. CASE fresh /\ Store(req, tq) /\ UNCHANGED informer
      BY <1>0, <2>1, <3>2, StoreVersions
    <3>3. QED
      BY <1>8, <3>1, <3>2 DEF UpdateFaulted
  <2>3. tq' \in Version /\ LedgerOK' /\ HeldOK'
    BY <1>8, ReturnOK DEF UpdateFaulted
  <2>4. QED
    BY <2>2, <2>3 DEF VersionsOK
<1>9. ASSUME NEW q \in Quotas, Deliver(q) PROVE Goal
  <2>1. watch[q] \in Seq(Version) /\ watch[q] # <<>>
    BY <1>0, <1>9 DEF VersionsOK, Deliver
  <2>2. /\ Head(watch[q]) \in Version /\ Tail(watch[q]) \in Seq(Version)
        /\ Tail(watch[q]) = <<>> => Head(watch[q]) = watch[q][Len(watch[q])]
        /\ Tail(watch[q]) # <<>> =>
               Tail(watch[q])[Len(Tail(watch[q]))] = watch[q][Len(watch[q])]
    BY <2>1, TailEnds
  <2>3. VersionsOK'
    BY <1>0, <1>9, <2>2 DEF VersionsOK, Deliver
  <2>4. /\ watch'[q] = Tail(watch[q]) /\ informer'[q] = Head(watch[q])
        /\ api'[q] = api[q]
        /\ \A p \in Quotas \ {q} : /\ watch'[p] = watch[p]
                                   /\ informer'[p] = informer[p]
                                   /\ api'[p] = api[p]
    BY <1>0, <1>9 DEF VersionsOK, Deliver
  <2>5. InformerOK'
    BY <1>0, <2>1, <2>2, <2>4 DEF InformerOK
  <2>6. LedgerOK'
    BY <1>0, <1>9 DEF LedgerOK, Deliver
  <2>7. HeldOK'
    BY <1>0, <1>9 DEF HeldOK, Deliver, Writing, Elapsed, Durable!Opens,
                      Durable!Renews, Durable!Charges
  <2>8. QED
    BY <2>3, <2>5, <2>6, <2>7
<1>10. ASSUME NEW q \in Quotas, TimerFires(q) PROVE Goal
  BY <1>0, <1>10 DEF TimerFires, VersionsOK, InformerOK, LedgerOK, HeldOK,
                     Writing, Elapsed, Durable!Opens, Durable!Renews,
                     Durable!Charges
<1>11. CASE Users
  <2>1. ASSUME NEW q \in Quotas, NEW spec \in SpecsOf[q],
               CreateQuota(q, spec)
        PROVE  Goal
    <3>1. [spec |-> spec, status |-> NewStatus] \in Version
      BY SpecsAssumption DEF Version, TokenQuota, NewStatus, QuotaStatus
    <3>2. QED
      BY <2>1, <3>1, UserWritesInv DEF CreateQuota
  <2>2. ASSUME NEW q \in Quotas, NEW spec \in SpecsOf[q], EditSpec(q, spec)
        PROVE  Goal
    <3>1. api[q] \in Version \ {Absent} /\ spec \in QuotaSpec
      BY <1>0, <2>2, SpecsAssumption DEF VersionsOK, EditSpec
    <3>2. [api[q] EXCEPT !.spec = spec] \in Version
      BY <3>1 DEF Version, TokenQuota
    <3>3. QED
      BY <2>2, <3>2, UserWritesInv DEF EditSpec
  <2>3. ASSUME NEW q \in Quotas, NEW state \in Patches, PatchState(q, state)
        PROVE  Goal
    <3>1. api[q] \in Version \ {Absent} /\ state \in QuotaStates
      BY <1>0, <2>3, PatchesAssumption DEF VersionsOK, PatchState
    <3>2. [api[q] EXCEPT !.status.state = state] \in Version
      BY <3>1, UnsetAssumption DEF Version, TokenQuota, QuotaStatus
    <3>3. QED
      BY <2>3, <3>2, UserWritesInv DEF PatchState
  <2>4. ASSUME NEW q \in Quotas, DeleteQuota(q) PROVE Goal
    BY <2>4, UserWritesInv DEF DeleteQuota, Version
  <2>5. QED
    BY <1>11, <2>1, <2>2, <2>3, <2>4 DEF Users
<1>12. ASSUME NEW sa \in ServiceAccounts, NEW usd \in Amounts, Bill(sa, usd)
       PROVE  Goal
  <2>1. /\ ledger[sa] \in Entry /\ usd \in Nat
        /\ ledger' = [ledger EXCEPT ![sa] = Charged(ledger[sa], usd)]
    BY <1>0, <1>12, SpendAssumption
    DEF TypeOK, LedgerTypeOK, Bill, RecordSpend
  <2>2. VersionsOK' /\ InformerOK'
    BY <1>0, <1>12 DEF Bill, VersionsOK, InformerOK
  <2>3. LedgerOK'
    <3> SUFFICES ASSUME pc \in {"openWrite", "report"}
                 PROVE  /\ ledger'[tq.spec.target] # Absent
                        /\ Covers(ledger'[tq.spec.target], tq.status)
      BY <1>12 DEF Bill, LedgerOK
    <3>1. tq \in TokenQuota /\ tq.spec.target \in ServiceAccounts
      BY <1>0 DEF TypeOK, TokenQuota, QuotaSpec
    <3>2. CASE tq.spec.target = sa
      <4>1. ledger'[tq.spec.target] = Charged(ledger[sa], usd)
        BY <1>0, <2>1, <3>1, <3>2 DEF TypeOK, LedgerTypeOK
      <4>2. Charged(ledger[sa], usd) # Absent
        BY <2>1, ChargedType, AbsentAssumption
      <4>3. QED
        BY <1>0, <2>1, <3>1, <3>2, <4>1, <4>2, ChargedCovers DEF LedgerOK
    <3>3. CASE tq.spec.target # sa
      BY <1>0, <2>1, <3>1, <3>3 DEF LedgerOK, TypeOK, LedgerTypeOK
    <3>4. QED
      BY <3>2, <3>3
  <2>4. HeldOK'
    BY <1>0, <1>12 DEF HeldOK, Bill, Writing, Elapsed, Durable!Opens,
                       Durable!Renews, Durable!Charges
  <2>5. QED
    BY <2>2, <2>3, <2>4
<1>13. CASE Tick
  <2>1. VersionsOK' /\ InformerOK' /\ LedgerOK'
    BY <1>0, <1>13 DEF Tick, VersionsOK, InformerOK, LedgerOK
  <2>2. HeldOK'
    <3> SUFFICES ASSUME fresh' PROVE HeldOK'
      BY DEF HeldOK
    <3>1. clock \in Nat /\ clock' = clock + 1
          /\ UNCHANGED <<api, pc, req, tq, fresh>>
      BY <1>0, <1>13 DEF Tick, TypeOK, LedgerTypeOK
    <3>2. ASSUME pc = "renew" PROVE Elapsed(tq.status.renewal)'
      <4>1. tq.status.renewal \in Nat /\ clock > tq.status.renewal
        BY <1>0, <3>1, <3>2
        DEF HeldOK, Elapsed, TypeOK, TokenQuota, QuotaStatus
      <4>2. QED
        BY <1>0, <3>1, <3>2, <4>1 DEF HeldOK, Elapsed
    <3>3. ASSUME pc = "renewWrite"
          PROVE  Durable!Renews(api[req].status, tq.status)'
      <4>1. api[req] # Absent /\ Durable!Renews(api[req].status, tq.status)
        BY <1>0, <3>1, <3>3 DEF HeldOK, Writing
      <4>2. api[req].status.renewal \in Nat
        BY <1>0, <3>3, <4>1
        DEF TypeOK, TokenQuota, QuotaStatus, Durable!Renews
      <4>3. QED
        BY <3>1, <4>1, <4>2 DEF Durable!Renews
    <3>4. QED
      BY <1>0, <3>1, <3>2, <3>3
      DEF HeldOK, Writing, Durable!Opens, Durable!Charges
  <2>3. QED
    BY <2>1, <2>2
<1>14. CASE Restart
  <2>1. watch' \in [Quotas -> Seq(Version)]
    BY <1>14 DEF Restart
  <2>2. QED
    BY <1>0, <1>14, <2>1, ReturnOK DEF Restart, VersionsOK, InformerOK
<1>15. CASE UNCHANGED vars
  BY <1>0, <1>15 DEF vars, VersionsOK, InformerOK, LedgerOK, HeldOK, Writing,
                     Elapsed, Durable!Opens, Durable!Renews, Durable!Charges
<1>16. QED
  BY <1>1, <1>2, <1>3, <1>4, <1>5, <1>6, <1>7, <1>8, <1>9, <1>10, <1>11,
     <1>12, <1>13, <1>14, <1>15
  DEF Next, Reconcile

\* What the worker holds, and holds the newest version of, is what DurableQuota
\* lets the object become (controller:50-92).
THEOREM HeldVersionsKept == Spec => []IInv
<1>1. IInv /\ [Next]_vars => IInv'
  BY InvNext
<1>2. QED
  BY InvInit, <1>1, PTL DEF Spec

-----------------------------------------------------------------------------
(* The refinement.                                                         *)

\* The update of the version the worker holds is a step of the operator.
LEMMA WriteSimulates ==
    ASSUME IInv, Writing, fresh, Store(req, tq),
           UNCHANGED <<clock, used["edits"]>>
    PROVE  Durable!OperatorStep
<1> DEFINE old == api[req].status
           new == tq.status
<1>1. /\ req \in Quotas /\ api \in [Quotas -> TokenQuota \cup {Absent}]
      /\ tq \in TokenQuota
  BY DEF IInv, TypeOK, Writing
<1>2. /\ api[req] \in TokenQuota /\ api[req] # Absent
      /\ tq.spec = api[req].spec
      /\ \/ Durable!Opens(old, new)
         \/ Durable!Charges(old, new)
         \/ Durable!Renews(old, new)
  BY <1>1 DEF IInv, HeldOK
<1>3. tq = [api[req] EXCEPT !.status = new]
  BY <1>1, <1>2 DEF TokenQuota
<1>4. api' = [api EXCEPT ![req] = tq]
  BY <1>1 DEF Store
<1>5. api'[req].status = new /\ api' = [api EXCEPT ![req].status = new]
  BY <1>1, <1>3, <1>4
<1>6. QED
  BY <1>1, <1>2, <1>5 DEF Durable!OperatorStep, Durable!Exists

\* A user's write is a step of a user.
LEMMA UsersSimulate ==
    ASSUME IInv, Users
    PROVE  Durable!UserStep
<1>1. ASSUME NEW q \in Quotas, NEW object, UserWrites(q, object)
      PROVE  /\ api' = [api EXCEPT ![q] = object]
             /\ used'["edits"] = used["edits"] + 1
             /\ UNCHANGED clock
  BY <1>1
  DEF UserWrites, Store, Spend, IInv, TypeOK, Bounded, ledgerVars
<1>2. ASSUME NEW q \in Quotas, NEW spec \in SpecsOf[q],
             CreateQuota(q, spec)
      PROVE  Durable!UserStep
  <2>1. spec \in UNION {SpecsOf[p] : p \in Quotas}
    OBVIOUS
  <2>2. QED
    BY <1>1, <1>2, <2>1
    DEF CreateQuota, NewStatus, Durable!UserStep, Durable!Create,
        Durable!Exists, Durable!Blank
<1>3. ASSUME NEW q \in Quotas, NEW spec \in SpecsOf[q], EditSpec(q, spec)
      PROVE  Durable!UserStep
  <2>1. spec \in UNION {SpecsOf[p] : p \in Quotas}
    OBVIOUS
  <2>2. api' = [api EXCEPT ![q].spec = spec]
    BY <1>1, <1>3 DEF EditSpec
  <2>3. QED
    BY <1>1, <1>3, <2>1, <2>2
    DEF EditSpec, Durable!UserStep, Durable!Edit, Durable!Exists
<1>4. ASSUME NEW q \in Quotas, NEW state \in Patches, PatchState(q, state)
      PROVE  Durable!UserStep
  <2>1. state \in QuotaStates
    BY PatchesAssumption
  <2>2. api' = [api EXCEPT ![q].status.state = state]
    BY <1>1, <1>4 DEF PatchState
  <2>3. QED
    BY <1>1, <1>4, <2>1, <2>2
    DEF PatchState, Durable!UserStep, Durable!Edit, Durable!Exists
<1>5. ASSUME NEW q \in Quotas, DeleteQuota(q) PROVE Durable!UserStep
  BY <1>1, <1>5
  DEF DeleteQuota, Durable!UserStep, Durable!Remove, Durable!Exists
<1>6. QED
  BY <1>2, <1>3, <1>4, <1>5 DEF Users

\* Every step of the reconciler is a step of the abstract operator, of a user,
\* of the clock, or none.
LEMMA StepSimulates == IInv /\ [Next]_vars => [Durable!Next]_(Durable!vars)
<1> SUFFICES ASSUME IInv, [Next]_vars
             PROVE  Durable!Next \/ UNCHANGED <<api, clock, used["edits"]>>
  BY DEF Durable!vars
<1> USE DEF ledgerVars, objectVars
<1>1. CASE Reconcile
  <2>1. CASE UpdateAccepted
    BY <2>1, WriteSimulates DEF UpdateAccepted, Durable!Next
  <2>2. CASE ~UpdateAccepted
    BY <1>1, <2>2
    DEF Reconcile, Fetch, Forget, SyncStep, Renew, Report, UpdateRejected
  <2>3. QED
    BY <2>1, <2>2
<1>2. CASE UpdateFaulted
  <2>1. UNCHANGED <<clock, used["edits"]>>
    BY <1>2 DEF UpdateFaulted, Spend, IInv, TypeOK, Bounded
  <2>2. CASE UNCHANGED objectVars
    BY <2>1, <2>2
  <2>3. CASE fresh /\ Store(req, tq)
    BY <1>2, <2>1, <2>3, WriteSimulates DEF UpdateFaulted, Durable!Next
  <2>4. QED
    BY <1>2, <2>2, <2>3 DEF UpdateFaulted
<1>3. ASSUME NEW q \in Quotas, Deliver(q) \/ TimerFires(q)
      PROVE  UNCHANGED <<api, clock, used["edits"]>>
  BY <1>3 DEF Deliver, TimerFires
<1>4. CASE Users
  BY <1>4, UsersSimulate DEF Durable!Next
<1>5. ASSUME NEW sa \in ServiceAccounts, NEW usd \in Amounts, Bill(sa, usd)
      PROVE  UNCHANGED <<api, clock, used["edits"]>>
  BY <1>5 DEF Bill, Spend, IInv, TypeOK, Bounded
<1>6. CASE Tick
  BY <1>6 DEF Tick, Durable!Tick, Durable!Next
<1>7. CASE Restart
  BY <1>7 DEF Restart, Spend, IInv, TypeOK, Bounded
<1>8. CASE UNCHANGED vars
  BY <1>8 DEF vars
<1>9. QED
  BY <1>1, <1>2, <1>3, <1>4, <1>5, <1>6, <1>7, <1>8 DEF Next

\* The reconciler implements DurableQuota: the durable record of every quota is
\* opened, charged and renewed only as DurableQuota allows, for any quotas,
\* accounts, specs, amounts and bounds.
THEOREM DurableRecordImplemented == Spec => DurableRecordKept
<1>1. Init => Durable!Init
  BY DEF Init, LedgerInit, Durable!Init, Bounded
<1>2. IInv /\ [Next]_vars => [Durable!Next]_(Durable!vars)
  BY StepSimulates
<1>3. QED
  BY <1>1, <1>2, HeldVersionsKept, PTL DEF Spec, DurableRecordKept, Durable!Spec
-----------------------------------------------------------------------------
(* No quota is lost.                                                       *)

\* A write announces itself on the watch; what was on the watch stays there.
LEMMA WriteAnnounced ==
    ASSUME VersionsOK, NEW q \in Quotas, NEW object, Store(q, object)
    PROVE  \A p \in Quotas :
               watch'[p] = <<>> => watch[p] = <<>> /\ api'[p] = api[p]
<1>1. CASE api[q] = object
  BY <1>1 DEF Store
<1>2. CASE api[q] # object
  <2>1. /\ api' = [api EXCEPT ![q] = object]
        /\ watch' = [watch EXCEPT ![q] = Append(watch[q], object)]
    BY <1>2 DEF Store, VersionsOK
  <2>2. watch[q] \in Seq(Version)
    BY DEF VersionsOK
  <2>3. Len(Append(watch[q], object)) = Len(watch[q]) + 1
    BY <2>2
  <2>4. Append(watch[q], object) # <<>>
    BY <2>2, <2>3
  <2>5. watch'[q] # <<>>
    BY <2>1, <2>4 DEF VersionsOK
  <2>6. \A p \in Quotas \ {q} : watch'[p] = watch[p] /\ api'[p] = api[p]
    BY <2>1 DEF VersionsOK
  <2>7. QED
    BY <2>5, <2>6
<1>3. QED
  BY <1>1, <1>2

\* A Reconcile that returns with a timer or a request for its quota forgets
\* none, whatever it wrote.
LEMMA ReturnRequeues ==
    ASSUME NeverForgotten, Return, RequeueAfter \/ RequeueError,
           \A p \in Quotas :
               watch'[p] = <<>> => watch[p] = <<>> /\ api'[p] = api[p]
    PROVE  NeverForgotten'
<1>1. /\ queue \subseteq queue' /\ armed \subseteq armed'
      /\ req \in queue' \/ req \in armed'
  BY DEF RequeueAfter, RequeueError
<1>2. QED
  BY <1>1 DEF NeverForgotten, InHand

\* Every step keeps something pending for every quota.  A request leaves the
\* queue only into the worker's hands, or for an object that was absent in the
\* informer's copy: if it is there at the API server the watch has yet to say so.
LEMMA NeverForgottenNext ==
    IInv /\ NeverForgotten /\ [Next]_vars => NeverForgotten'
<1> SUFFICES ASSUME IInv, NeverForgotten, [Next]_vars
             PROVE  NeverForgotten'
  OBVIOUS
<1> USE DEF ledgerVars, objectVars, workerVars
<1>0. TypeOK /\ VersionsOK /\ InformerOK
  BY DEF IInv
<1>1. ASSUME NEW q \in Quotas, Fetch(q) PROVE NeverForgotten'
  <2>1. pc' = "forget" => api[q] = Absent \/ watch[q] # <<>>
    BY <1>0, <1>1 DEF Fetch, InformerOK
  <2>2. QED
    BY <1>1, <2>1 DEF Fetch, NeverForgotten, InHand
<1>2. CASE Forget
  BY <1>2 DEF Forget, Return, NeverForgotten, InHand
<1>3. CASE SyncStep
  BY <1>3 DEF SyncStep, NeverForgotten, InHand
<1>4. CASE Renew
  BY <1>4 DEF Renew, NeverForgotten, InHand
<1>5. CASE Report
  <2>1. CASE Return /\ RequeueAfter
    BY <1>5, <2>1, ReturnRequeues DEF Report
  <2>2. CASE pc' = "reportWrite" /\ UNCHANGED <<queue, armed, req>>
    BY <1>5, <2>2 DEF Report, NeverForgotten, InHand
  <2>3. QED
    BY <1>5, <2>1, <2>2 DEF Report
<1>6. CASE UpdateAccepted
  <2>1. req \in Quotas
    BY <1>0, <1>6 DEF UpdateAccepted, Writing, TypeOK
  <2>2. \A p \in Quotas :
            watch'[p] = <<>> => watch[p] = <<>> /\ api'[p] = api[p]
    BY <1>0, <1>6, <2>1, WriteAnnounced DEF UpdateAccepted
  <2>3. CASE pc = "openWrite"
    BY <1>6, <2>2, <2>3 DEF UpdateAccepted, NeverForgotten, InHand
  <2>4. CASE pc # "openWrite"
    BY <1>6, <2>2, <2>4, ReturnRequeues DEF UpdateAccepted
  <2>5. QED
    BY <2>3, <2>4
<1>7. CASE UpdateRejected
  BY <1>7, ReturnRequeues DEF UpdateRejected
<1>8. CASE UpdateFaulted
  <2>1. req \in Quotas
    BY <1>0, <1>8 DEF UpdateFaulted, Writing, TypeOK
  <2>2. \A p \in Quotas :
            watch'[p] = <<>> => watch[p] = <<>> /\ api'[p] = api[p]
    BY <1>0, <1>8, <2>1, WriteAnnounced DEF UpdateFaulted
  <2>3. QED
    BY <1>8, <2>2, ReturnRequeues DEF UpdateFaulted
<1>9. ASSUME NEW q \in Quotas, Deliver(q) PROVE NeverForgotten'
  <2>1. \A p \in Quotas \ {q} : watch'[p] = watch[p]
    BY <1>0, <1>9 DEF Deliver, VersionsOK
  <2>2. QED
    BY <1>9, <2>1 DEF Deliver, NeverForgotten, InHand
<1>10. ASSUME NEW q \in Quotas, TimerFires(q) PROVE NeverForgotten'
  BY <1>10 DEF TimerFires, NeverForgotten, InHand
<1>11. CASE Users
  <2>1. ASSUME NEW q \in Quotas, NEW object, UserWrites(q, object)
        PROVE  NeverForgotten'
    <3>1. \A p \in Quotas :
              watch'[p] = <<>> => watch[p] = <<>> /\ api'[p] = api[p]
      BY <1>0, <2>1, WriteAnnounced DEF UserWrites
    <3>2. QED
      BY <2>1, <3>1 DEF UserWrites, NeverForgotten, InHand
  <2>2. QED
    BY <1>11, <2>1
    DEF Users, CreateQuota, EditSpec, PatchState, DeleteQuota
<1>12. ASSUME NEW sa \in ServiceAccounts, NEW usd \in Amounts, Bill(sa, usd)
       PROVE  NeverForgotten'
  BY <1>12 DEF Bill, NeverForgotten, InHand
<1>13. CASE Tick
  BY <1>13 DEF Tick, NeverForgotten, InHand
<1>14. CASE Restart
  BY <1>14 DEF Restart, NeverForgotten
<1>15. CASE UNCHANGED vars
  BY <1>15 DEF vars, NeverForgotten, InHand
<1>16. QED
  BY <1>1, <1>2, <1>3, <1>4, <1>5, <1>6, <1>7, <1>8, <1>9, <1>10, <1>11,
     <1>12, <1>13, <1>14, <1>15
  DEF Next, Reconcile

\* No quota is ever lost to the controller: whatever is conflicted, unanswered,
\* stale or restarted, something still to happen brings Reconcile back to every
\* quota there is (tokenquota_controller.go:38-101).
THEOREM NoQuotaIsLost == Spec => []NeverForgotten
<1>1. Init => NeverForgotten
  BY DEF Init, NeverForgotten
<1>2. IInv /\ NeverForgotten /\ [Next]_vars => NeverForgotten'
  BY NeverForgottenNext
<1>3. Spec => []IInv
  BY HeldVersionsKept
<1>4. QED
  BY <1>1, <1>2, <1>3, PTL DEF Spec

===============================================================================
