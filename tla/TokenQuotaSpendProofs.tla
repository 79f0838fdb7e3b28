------------------------- MODULE TokenQuotaSpendProofs -------------------------
(* No account is charged more than was billed to it, and no denial for spend *)
(* is a leftover of an earlier period, for every value of the constants.     *)
EXTENDS TokenQuotaRefinementProofs

-----------------------------------------------------------------------------
(* The hypotheses, on what users do.                                       *)

\* An account has one quota and a quota one account, in every spec it is given.
OneQuotaPerAccount ==
    \A p, q \in Quotas : \A s \in SpecsOf[p], t \in SpecsOf[q] :
        s.target = t.target <=> p = q

\* Nobody writes the verdict of computeState into a status by hand.
VerdictIsComputed == "Exceeded" \notin Patches

\* An Exceeded that can only be the verdict of computeState.
Judged(state) == state = "Exceeded" /\ VerdictIsComputed

-----------------------------------------------------------------------------
(* The inductive invariant.                                                *)

\* What an account may show: the runs billed to it, and the rounding.
bound == [sa \in ServiceAccounts |-> billed[sa] + Rounding]

\* An amount of b reaches a budget the account was given.
EarnedBy(sa, b) ==
    \E q \in Quotas : \E spec \in SpecsOf[q] :
        /\ spec.target = sa
        /\ AsInt64(spec.budget) > 0
        /\ b >= AsInt64(spec.budget)

\* The versions of a quota that the informer holds or has yet to see.
line == [q \in Quotas |->
            {informer[q]} \cup {watch[q][i] : i \in 1 .. Len(watch[q])}]

\* The versions of quota q: nothing is spent before the first renewal date.
VersionOf(q) ==
    {t \in Version \ {Absent} :
        /\ t.spec \in SpecsOf[q]
        /\ t.status.renewal = Unset => /\ t.status.spent = Unset
                                       /\ ~Judged(t.status.state)}
        \cup {Absent}

\* The period of an entry or a status is over.
Over(x, now) == x.renewal # Unset /\ now > x.renewal

OwnedOK ==
    /\ \A q \in Quotas : line[q] \subseteq VersionOf(q)
    /\ pc # "idle" => tq \in VersionOf(req)
    /\ pc = "report" => tq.status.renewal # Unset
    /\ pc = "renew" => Over(tq.status, clock)

\* A status at the beginning of its period.
Clean(status) == status.spent \in {Unset, 0} /\ ~Judged(status.state)

\* Version w is written after version v: of another period than v it is clean,
\* because Reconcile reports only into the period the informer has shown it.
Precedes(v, w) ==
    v # Absent /\ w # Absent /\ v.status.renewal # Unset =>
        w.status.renewal = v.status.renewal \/ Clean(w.status)

InOrder ==
    \A q \in Quotas :
        /\ \A j \in 1 .. Len(watch[q]) : Precedes(informer[q], watch[q][j])
        /\ \A i, j \in 1 .. Len(watch[q]) :
               i < j => Precedes(watch[q][i], watch[q][j])

OrderOK ==
    /\ InOrder
    /\ pc \in {"sync", "renew"} => \A w \in line[req] : Precedes(tq, w)

\* Version v has no period, or that of the newest version.
SamePeriod(v, newest) ==
    v # Absent /\ newest # Absent =>
        v.status.renewal \in {Unset, newest.status.renewal}

\* What the worker may write, the informer has seen the period of.
PeriodOK ==
    fresh => /\ req \in Quotas
             /\ \A v \in line[req] : SamePeriod(v, api[req])

\* The version shows no more than b.
Fits(v, b) ==
    /\ v.status.spent # Unset => v.status.spent <= b
    /\ Judged(v.status.state) => EarnedBy(v.spec.target, b)

\* As long as the period of a version lasts, it shows what was billed.
Within(v, now, b) ==
    v # Absent /\ (v.status.renewal = Unset \/ now <= v.status.renewal) =>
        Fits(v, b[v.spec.target])

WithinOK ==
    /\ \A q \in Quotas : \A v \in line[q] : Within(v, clock, bound)
    /\ Within(tq, clock, bound)

\* An entry shows no more than b, and so it does printed.
Carried(entry, sa, b) ==
    /\ entry.spent <= b
    /\ Printed(entry.spent) <= b
    /\ Judged(entry.state) => EarnedBy(sa, b)

\* The ceiling of an entry is that of a spec given to its account.
Ceiled(entry, sa) ==
    \E q \in Quotas : \E spec \in SpecsOf[q] :
        spec.target = sa /\ entry.max = AsInt64(spec.budget)

\* Only between Sync and Reset may an entry show more, the account of a period
\* that is over.
EntriesOK ==
    \A sa \in ServiceAccounts :
        ledger[sa] # Absent =>
            /\ Ceiled(ledger[sa], sa)
            /\ \/ Carried(ledger[sa], sa, bound[sa])
               \/ pc = "renew" /\ tq.spec.target = sa /\ Over(ledger[sa], clock)

SpendInv == OwnedOK /\ OrderOK /\ PeriodOK /\ WithinOK /\ EntriesOK

-----------------------------------------------------------------------------
(* Amounts.                                                                *)

\* Printing adds half a decimal at most.
LEMMA PrintedNear ==
    ASSUME NEW a \in Nat
    PROVE  Printed(a) <= a + Micro \div 2
<1> DEFINE h == Micro \div 2
<1>1. Micro \in Nat \ {0} /\ h \in Nat
  BY SpendAssumption
<1>2. a + h \in Nat
  BY <1>1
<1>3. ((a + h) \div Micro) * Micro <= a + h
  BY <1>1, <1>2, Quotient
<1>4. QED
  BY <1>3 DEF Printed

\* Bounds are amounts.
LEMMA BoundType ==
    ASSUME TypeOK
    PROVE  bound \in [ServiceAccounts -> Nat]
<1>1. Micro \div 2 \in Nat /\ used["runs"] \in Nat
  BY SpendAssumption DEF TypeOK, Bounded
<1>2. Rounding \in Nat
  BY <1>1 DEF Rounding
<1>3. QED
  BY <1>2 DEF bound, TypeOK

\* A run raises the bound of its account by what it cost and half a decimal,
\* and lowers none.
LEMMA BoundBilled ==
    ASSUME TypeOK, NEW sa \in ServiceAccounts, NEW usd \in Nat,
           used' = [used EXCEPT !["runs"] = @ + 1],
           billed' = [billed EXCEPT ![sa] = @ + usd]
    PROVE  /\ bound' \in [ServiceAccounts -> Nat]
           /\ bound'[sa] = bound[sa] + usd + Micro \div 2
           /\ \A other \in ServiceAccounts : bound'[other] >= bound[other]
<1> DEFINE h == Micro \div 2
           n == used["runs"]
<1>1. h \in Nat /\ n \in Nat /\ used'["runs"] = n + 1
  BY SpendAssumption DEF TypeOK, Bounded
<1>2. Rounding = h * n /\ Rounding' = h * (n + 1)
  BY <1>1 DEF Rounding
<1> HIDE DEF h, n
<1>3. Rounding \in Nat /\ Rounding' = Rounding + h
  BY <1>1, <1>2
<1>4. /\ billed \in [ServiceAccounts -> Nat]
      /\ billed'[sa] = billed[sa] + usd
      /\ \A other \in ServiceAccounts \ {sa} : billed'[other] = billed[other]
  BY DEF TypeOK
<1>5. /\ bound \in [ServiceAccounts -> Nat]
      /\ bound'[sa] = bound[sa] + usd + h
      /\ \A other \in ServiceAccounts \ {sa} :
             bound'[other] = bound[other] + h
  BY <1>1, <1>3, <1>4 DEF bound
<1>6. bound' = [other \in ServiceAccounts |-> billed'[other] + Rounding']
  BY DEF bound
<1>7. QED
  BY <1>1, <1>3, <1>4, <1>5, <1>6 DEF h

\* Without a run and a renewal the bounds stay.
LEMMA BoundKept ==
    ASSUME UNCHANGED <<billed, used["runs"]>>
    PROVE  bound' = bound
  BY DEF bound, Rounding

\* What is earned by an amount is earned by a larger one.
LEMMA EarnedMore ==
    ASSUME NEW sa, NEW b \in Nat, NEW c \in Nat, b <= c, EarnedBy(sa, b)
    PROVE  EarnedBy(sa, c)
<1>1. PICK q \in Quotas : \E spec \in SpecsOf[q] :
          /\ spec.target = sa
          /\ AsInt64(spec.budget) > 0
          /\ b >= AsInt64(spec.budget)
  BY DEF EarnedBy
<1>2. PICK spec \in SpecsOf[q] : /\ spec.target = sa
                                 /\ AsInt64(spec.budget) > 0
                                 /\ b >= AsInt64(spec.budget)
  BY <1>1
<1>3. AsInt64(spec.budget) \in Nat
  BY <1>2, SpecsAssumption DEF AsInt64, QuotaSpec, Budget
<1>4. QED
  BY <1>2, <1>3 DEF EarnedBy

\* A version within its bound stays so when time passes and bounds rise.
LEMMA WithinMore ==
    ASSUME NEW v \in TokenQuota \cup {Absent},
           NEW now \in Nat, NEW later \in Nat, now <= later,
           NEW b \in [ServiceAccounts -> Nat],
           NEW c \in [ServiceAccounts -> Nat],
           \A sa \in ServiceAccounts : b[sa] <= c[sa],
           Within(v, now, b)
    PROVE  Within(v, later, c)
<1> SUFFICES ASSUME v # Absent,
                    v.status.renewal = Unset \/ later <= v.status.renewal
             PROVE  Fits(v, c[v.spec.target])
  BY DEF Within
<1> DEFINE sa == v.spec.target
<1>1. /\ sa \in ServiceAccounts
      /\ v.status.spent # Unset => v.status.spent \in Nat
      /\ v.status.renewal # Unset => v.status.renewal \in Nat
  BY DEF TokenQuota, QuotaSpec, QuotaStatus
<1>2. Fits(v, b[sa])
  BY <1>1 DEF Within
<1>3. b[sa] \in Nat /\ c[sa] \in Nat /\ b[sa] <= c[sa]
  BY <1>1
<1>4. QED
  BY <1>1, <1>2, <1>3, EarnedMore DEF Fits

\* An entry stays within its bound when that rises.
LEMMA CarriedMore ==
    ASSUME NEW entry \in Entry, NEW sa, NEW b \in Nat, NEW c \in Nat, b <= c,
           Carried(entry, sa, b)
    PROVE  Carried(entry, sa, c)
<1>1. entry.spent \in Nat /\ Printed(entry.spent) \in Nat
  BY PrintedType DEF Entry
<1>2. QED
  BY <1>1, EarnedMore DEF Carried

-----------------------------------------------------------------------------
(* The versions in front of the informer.                                  *)

\* The newest version is in the line, and all versions are versions.
LEMMA LineVersions ==
    ASSUME VersionsOK, InformerOK, NEW q \in Quotas
    PROVE  line[q] \subseteq Version /\ api[q] \in line[q]
<1>1. /\ informer[q] \in Version /\ watch[q] \in Seq(Version)
      /\ line[q] = {informer[q]} \cup {watch[q][i] : i \in 1 .. Len(watch[q])}
  BY DEF VersionsOK, line
<1>2. CASE watch[q] = <<>>
  BY <1>1, <1>2 DEF InformerOK
<1>3. CASE watch[q] # <<>>
  <2>1. Len(watch[q]) \in Nat /\ Len(watch[q]) # 0
    BY <1>1, <1>3, EmptyIffLenZero
  <2>2. Len(watch[q]) \in 1 .. Len(watch[q])
    BY <2>1
  <2>3. \A i \in 1 .. Len(watch[q]) : watch[q][i] \in Version
    BY <1>1
  <2>4. QED
    BY <1>1, <1>3, <2>2, <2>3 DEF InformerOK
<1>4. QED
  BY <1>2, <1>3

\* All versions in the line precede the newest one.
LEMMA NewestLast ==
    ASSUME VersionsOK, InformerOK, InOrder, NEW q \in Quotas
    PROVE  /\ \A v \in line[q] : Precedes(v, api[q])
           /\ \A w \in line[q] : Precedes(informer[q], w)
<1> DEFINE n == Len(watch[q])
<1>1. /\ watch[q] \in Seq(Version) /\ n \in Nat
      /\ line[q] = {informer[q]} \cup {watch[q][i] : i \in 1 .. n}
  BY DEF VersionsOK, line
<1>2. \A v : Precedes(v, v)
  BY DEF Precedes
<1>3. n = 0 => api[q] = informer[q]
  BY <1>1, EmptyIffLenZero DEF InformerOK
<1>4. n # 0 => api[q] = watch[q][n]
  BY <1>1, EmptyIffLenZero DEF InformerOK
<1>5. /\ \A j \in 1 .. n : Precedes(informer[q], watch[q][j])
      /\ \A i, j \in 1 .. n : i < j => Precedes(watch[q][i], watch[q][j])
  BY DEF InOrder
<1> HIDE DEF n
<1>6. Precedes(informer[q], api[q])
  BY <1>1, <1>2, <1>3, <1>4, <1>5
<1>7. ASSUME NEW i \in 1 .. n PROVE Precedes(watch[q][i], api[q])
  <2>1. n # 0 /\ n \in 1 .. n
    BY <1>1
  <2>2. CASE i = n
    BY <1>2, <1>4, <2>1, <2>2
  <2>3. CASE i # n
    BY <1>1, <1>4, <1>5, <2>1, <2>3
  <2>4. QED
    BY <2>2, <2>3
<1>8. QED
  BY <1>1, <1>2, <1>5, <1>6, <1>7

\* A write puts the object at the end of the line of its quota.
LEMMA LineStored ==
    ASSUME VersionsOK, InformerOK, InOrder, UNCHANGED informer,
           NEW q \in Quotas, NEW object \in Version, Store(q, object),
           \A v \in line[q] : Precedes(v, object)
    PROVE  /\ line'[q] \subseteq line[q] \cup {object}
           /\ \A p \in Quotas \ {q} : line'[p] = line[p]
           /\ InOrder'
           /\ api' = [api EXCEPT ![q] = object]
<1>1. CASE api[q] = object
  BY <1>1 DEF Store, VersionsOK, InOrder, line
<1>2. CASE api[q] # object
  <2> DEFINE longer == Append(watch[q], object)
             n == Len(watch[q])
  <2>1. watch[q] \in Seq(Version) /\ n \in Nat
    BY DEF VersionsOK
  <2>2. /\ api' = [api EXCEPT ![q] = object]
        /\ watch' = [watch EXCEPT ![q] = longer]
    BY <1>2 DEF Store
  <2>3. /\ Len(longer) = n + 1 /\ longer[n + 1] = object
        /\ \A i \in 1 .. n : longer[i] = watch[q][i]
    BY <2>1
  <2>4. /\ watch'[q] = longer /\ informer' = informer
        /\ \A p \in Quotas \ {q} : watch'[p] = watch[p]
    BY <2>2 DEF VersionsOK
  <2> HIDE DEF longer, n
  <2>5. \A i \in 1 .. (n + 1) : i = n + 1 \/ i \in 1 .. n
    BY <2>1
  <2>6. /\ line[q] = {informer[q]} \cup {watch[q][i] : i \in 1 .. n}
        /\ line'[q] = {informer[q]} \cup {longer[i] : i \in 1 .. (n + 1)}
        /\ \A p \in Quotas \ {q} : line'[p] = line[p]
    BY <2>3, <2>4 DEF line, n
  <2>7. line'[q] \subseteq line[q] \cup {object}
    BY <2>3, <2>5, <2>6
  <2>8. /\ \A j \in 1 .. n : Precedes(informer[q], watch[q][j])
        /\ \A i, j \in 1 .. n : i < j => Precedes(watch[q][i], watch[q][j])
    BY DEF InOrder, n
  <2>9. \A j \in 1 .. (n + 1) : Precedes(informer[q], longer[j])
    BY <2>3, <2>5, <2>6, <2>8
  <2>10. ASSUME NEW i \in 1 .. (n + 1), NEW j \in 1 .. (n + 1), i < j
         PROVE  Precedes(longer[i], longer[j])
    <3>1. i \in 1 .. n
      BY <2>1, <2>10
    <3>2. longer[i] = watch[q][i] /\ watch[q][i] \in line[q]
      BY <2>3, <2>6, <3>1
    <3>3. CASE j = n + 1
      BY <2>3, <3>2, <3>3
    <3>4. CASE j \in 1 .. n
      BY <2>3, <2>8, <2>10, <3>1, <3>4
    <3>5. QED
      BY <2>5, <3>3, <3>4
  <2>11. InOrder'
    BY <2>3, <2>4, <2>9, <2>10 DEF InOrder
  <2>12. QED
    BY <2>2, <2>6, <2>7, <2>11
<1>3. QED
  BY <1>1, <1>2

\* A delivery takes a version from the line, and the next one leads it.
LEMMA LineDelivered ==
    ASSUME VersionsOK, InOrder, NEW q \in Quotas, watch[q] # <<>>,
           informer' = [informer EXCEPT ![q] = Head(watch[q])],
           watch' = [watch EXCEPT ![q] = Tail(watch[q])]
    PROVE  /\ \A p \in Quotas : line'[p] \subseteq line[p]
           /\ InOrder'
<1> DEFINE s == watch[q]
           rest == Tail(s)
           n == Len(s)
<1>1. s \in Seq(Version) /\ n \in Nat /\ n # 0
  BY EmptyIffLenZero DEF VersionsOK
<1>2. /\ Head(s) = s[1] /\ Len(rest) = n - 1
      /\ \A i \in 1 .. (n - 1) : rest[i] = s[i + 1]
  BY <1>1
<1>3. /\ watch'[q] = rest /\ informer'[q] = s[1]
      /\ \A p \in Quotas \ {q} : /\ watch'[p] = watch[p]
                                 /\ informer'[p] = informer[p]
  BY <1>2 DEF VersionsOK
<1>4. \A i, j \in 1 .. n : i < j => Precedes(s[i], s[j])
  BY DEF InOrder
<1> HIDE DEF s, rest, n
<1>5. \A i \in 1 .. (n - 1) : i + 1 \in 1 .. n /\ 1 < i + 1 /\ 1 \in 1 .. n
  BY <1>1
<1>6. /\ line[q] = {informer[q]} \cup {s[i] : i \in 1 .. n}
      /\ line'[q] = {s[1]} \cup {rest[i] : i \in 1 .. (n - 1)}
      /\ \A p \in Quotas \ {q} : line'[p] = line[p]
  <2>1. line[q] = {informer[q]} \cup {s[i] : i \in 1 .. n}
    BY DEF line, s, n
  <2>2. line'[q] = {informer'[q]}
                       \cup {watch'[q][i] : i \in 1 .. Len(watch'[q])}
    BY DEF line
  <2>3. line'[q] = {s[1]} \cup {rest[i] : i \in 1 .. (n - 1)}
    BY <1>2, <1>3, <2>2
  <2>4. \A p \in Quotas \ {q} : line'[p] = line[p]
    BY <1>3 DEF line
  <2>5. QED
    BY <2>1, <2>3, <2>4
<1>7. line'[q] \subseteq line[q]
  <2>1. 1 \in 1 .. n
    BY <1>1
  <2>2. QED
    BY <1>2, <1>5, <1>6, <2>1
<1>8. \A j \in 1 .. (n - 1) : Precedes(s[1], rest[j])
  BY <1>2, <1>4, <1>5
<1>9. \A i, j \in 1 .. (n - 1) : i < j => Precedes(rest[i], rest[j])
  <2> SUFFICES ASSUME NEW i \in 1 .. (n - 1), NEW j \in 1 .. (n - 1), i < j
               PROVE  Precedes(rest[i], rest[j])
    OBVIOUS
  <2>1. i + 1 \in 1 .. n /\ j + 1 \in 1 .. n /\ i + 1 < j + 1
    BY <1>1
  <2>2. QED
    BY <1>2, <1>4, <2>1
<1>10. InOrder'
  BY <1>2, <1>3, <1>8, <1>9 DEF InOrder
<1>11. QED
  BY <1>6, <1>7, <1>10

-----------------------------------------------------------------------------
(* The worker.                                                             *)

\* What the worker may write comes after all versions in the line, and opens
\* no second period among them.
LEMMA WriteInOrder ==
    ASSUME IInv, SpendInv, Writing, fresh
    PROVE  /\ \A v \in line[req] : Precedes(v, tq)
           /\ pc = "openWrite" => \A v \in line[req] : SamePeriod(v, tq)
<1>1. /\ req \in Quotas /\ VersionsOK /\ InformerOK
      /\ api[req] \in TokenQuota /\ api[req] # Absent
      /\ \/ /\ pc = "openWrite"
            /\ Durable!Opens(api[req].status, tq.status)
         \/ /\ pc = "renewWrite"
            /\ Durable!Renews(api[req].status, tq.status)
         \/ /\ pc = "reportWrite"
            /\ Durable!Charges(api[req].status, tq.status)
  BY DEF IInv, TypeOK, HeldOK, Writing
<1>2. api[req] \in line[req]
  BY <1>1, LineVersions
<1>3. api[req] \in VersionOf(req)
  BY <1>1, <1>2 DEF SpendInv, OwnedOK
<1>4. \A v \in line[req] : SamePeriod(v, api[req])
  BY DEF SpendInv, PeriodOK
<1>5. CASE pc = "openWrite"
  <2>1. Durable!Opens(api[req].status, tq.status)
    BY <1>1, <1>5
  <2>2. api[req].status.renewal = Unset
    BY <2>1 DEF Durable!Opens
  <2>3. api[req].status.spent = Unset /\ ~Judged(api[req].status.state)
    BY <1>1, <1>3, <2>2 DEF VersionOf
  <2>4. Clean(tq.status)
    BY <2>1, <2>3 DEF Clean, Judged, Durable!Opens
  <2>5. \A v \in line[req] : SamePeriod(v, tq)
    BY <1>1, <1>4, <2>2 DEF SamePeriod
  <2>6. QED
    BY <2>4, <2>5 DEF Precedes
<1>6. CASE pc = "renewWrite"
  <2>1. Clean(tq.status)
    BY <1>1, <1>6 DEF Clean, Judged, Durable!Renews
  <2>2. QED
    BY <1>6, <2>1 DEF Precedes
<1>7. CASE pc = "reportWrite"
  BY <1>1, <1>4, <1>7 DEF Precedes, SamePeriod, Durable!Charges
<1>8. QED
  BY <1>1, <1>5, <1>6, <1>7

\* The worker returns to idle; of the versions in the line, one may be new, the
\* one it held.
LEMMA ReturnSpend ==
    ASSUME IInv, SpendInv, Return, pc # "idle", UNCHANGED clock, InOrder',
           bound' = bound,
           \A q \in Quotas : \A v \in line'[q] :
               v \in line[q] \/ (q = req /\ v = tq)
    PROVE  OwnedOK' /\ OrderOK' /\ PeriodOK' /\ WithinOK'
<1>1. pc' = "idle" /\ tq' = Absent /\ ~fresh'
  BY DEF Return
<1>2. OwnedOK'
  BY <1>1 DEF SpendInv, OwnedOK
<1>3. OrderOK' /\ PeriodOK'
  BY <1>1 DEF OrderOK, PeriodOK
<1>4. WithinOK'
  <2>1. Within(Absent, clock, bound)
    BY DEF Within
  <2>2. QED
    BY <1>1, <2>1 DEF SpendInv, WithinOK
<1>5. QED
  BY <1>2, <1>3, <1>4

\* Outside of a renewal entries stay within their bounds.
LEMMA EntriesKept ==
    ASSUME IInv, EntriesOK, pc # "renew", bound' = bound,
           \A sa \in ServiceAccounts : ledger'[sa] \in {ledger[sa], Absent}
    PROVE  EntriesOK'
<1> SUFFICES ASSUME NEW sa \in ServiceAccounts, ledger'[sa] # Absent
             PROVE  Ceiled(ledger'[sa], sa)
                    /\ Carried(ledger'[sa], sa, bound'[sa])
  BY DEF EntriesOK
<1>1. ledger'[sa] = ledger[sa]
  OBVIOUS
<1>2. QED
  BY <1>1 DEF EntriesOK

\* Sync leaves an entry that shows no more than the status and the entry did.
LEMMA SyncedCarried ==
    ASSUME NEW q \in Quotas, NEW t \in VersionOf(q) \ {Absent},
           NEW entry \in Entry \cup {Absent}, NEW b \in Nat, Fits(t, b),
           entry # Absent => Carried(entry, t.spec.target, b)
    PROVE  Carried(Synced(entry, t), t.spec.target, b)
<1> DEFINE sa == t.spec.target
           old == IF entry = Absent THEN NewEntry ELSE entry
           seen == t.status.state # Unset
           new == Synced(entry, t)
<1>1. /\ t \in TokenQuota
      /\ t.status.spent # Unset => Printed(t.status.spent) = t.status.spent
  BY DEF VersionOf, Version
<1>2. Carried(old, sa, b)
  <2>1. Carried(NewEntry, sa, b)
    BY PrintedZero DEF Carried, NewEntry, Judged
  <2>2. QED
    BY <2>1
<1>3. /\ new.spent = IF seen /\ t.status.spent # Unset
                     THEN t.status.spent ELSE old.spent
      /\ new.state = IF seen THEN t.status.state ELSE old.state
  BY DEF Synced
<1> HIDE DEF old, new, seen, sa
<1>4. new.spent <= b /\ Printed(new.spent) <= b
  BY <1>1, <1>2, <1>3 DEF Fits, Carried
<1>5. Judged(new.state) => EarnedBy(sa, b)
  BY <1>2, <1>3 DEF Fits, Carried, sa
<1>6. QED
  BY <1>4, <1>5 DEF Carried, new, sa

\* Sync takes the ceiling from the spec.
LEMMA SyncedCeiled ==
    ASSUME NEW q \in Quotas, NEW t \in VersionOf(q) \ {Absent}, NEW entry
    PROVE  Ceiled(Synced(entry, t), t.spec.target)
<1>1. t.spec \in SpecsOf[q]
  BY DEF VersionOf
<1>2. Synced(entry, t).max = AsInt64(t.spec.budget)
  BY DEF Synced
<1>3. QED
  BY <1>1, <1>2 DEF Ceiled

\* RecordSpend keeps the entry within the bound that the run raises, and the
\* verdict is Exceeded only at the ceiling.
LEMMA ChargedCarried ==
    ASSUME NEW sa \in ServiceAccounts, NEW entry \in Entry, NEW usd \in Nat,
           NEW b \in Nat, Carried(entry, sa, b), Ceiled(entry, sa)
    PROVE  Carried(Charged(entry, usd), sa, b + usd + Micro \div 2)
<1> DEFINE c == b + usd + Micro \div 2
           new == Charged(entry, usd)
           spent == entry.spent + usd
<1>1. Micro \div 2 \in Nat
  BY SpendAssumption
<1>2. entry.spent \in Nat /\ entry.max \in Nat /\ spent \in Nat /\ c \in Nat
  BY <1>1 DEF Entry
<1>3. entry.spent <= b
  BY DEF Carried
<1>4. spent <= c /\ Printed(spent) <= c
  <2>1. Printed(spent) <= spent + Micro \div 2 /\ Printed(spent) \in Nat
    BY <1>2, PrintedNear, PrintedType
  <2>2. QED
    BY <1>1, <1>2, <1>3, <2>1
<1>5. new.spent = spent
  BY ChargedType
<1>6. new.state = ComputeState(entry.max, entry.soft, spent)
  BY AccountedType, ComputeStateType, <1>2 DEF Charged, Accounted, Entry
<1>7. ASSUME Judged(new.state) PROVE EarnedBy(sa, c)
  <2>1. entry.max # 0 /\ spent >= entry.max
    BY <1>6, <1>7, Zenon DEF ComputeState, Judged
  <2>2. PICK q \in Quotas : \E spec \in SpecsOf[q] :
            spec.target = sa /\ entry.max = AsInt64(spec.budget)
    BY DEF Ceiled
  <2>3. PICK spec \in SpecsOf[q] :
            spec.target = sa /\ entry.max = AsInt64(spec.budget)
    BY <2>2
  <2>4. entry.max > 0 /\ c >= entry.max
    BY <1>2, <1>4, <2>1
  <2>5. QED
    BY <2>3, <2>4 DEF EarnedBy
<1> HIDE DEF c, new, spent
<1>8. QED
  BY <1>4, <1>5, <1>7 DEF Carried, c, new

-----------------------------------------------------------------------------
(* The invariant is inductive.                                             *)

\* It holds initially.
LEMMA SpendInit == Init => SpendInv
<1> SUFFICES ASSUME Init PROVE SpendInv
  OBVIOUS
<1>1. \A q \in Quotas : line[q] = {Absent}
  BY DEF Init, line
<1>2. OwnedOK
  BY <1>1 DEF Init, OwnedOK, VersionOf
<1>3. OrderOK
  BY DEF Init, OrderOK, InOrder
<1>4. PeriodOK
  BY DEF Init, PeriodOK
<1>5. WithinOK
  BY <1>1 DEF Init, WithinOK, Within
<1>6. EntriesOK
  BY DEF Init, LedgerInit, EntriesOK
<1>7. QED
  BY <1>2, <1>3, <1>4, <1>5, <1>6 DEF SpendInv

\* A user's write comes last in the line of its quota, if it comes after what
\* the newest version came after.
LEMMA UserWritesSpend ==
    ASSUME IInv, SpendInv, NEW q \in Quotas, NEW object \in VersionOf(q),
           UserWrites(q, object), Within(object, clock, bound),
           \A v : Precedes(v, api[q]) => Precedes(v, object)
    PROVE  SpendInv'
<1>1. /\ VersionsOK /\ InformerOK /\ InOrder /\ object \in Version
      /\ Store(q, object)
      /\ UNCHANGED <<clock, ledger, informer, pc, req, tq, billed>>
      /\ fresh' = (fresh /\ q # req)
  BY DEF IInv, SpendInv, OrderOK, VersionOf, UserWrites, ledgerVars, Version
<1>2. bound' = bound
  <2>1. used'["runs"] = used["runs"]
    BY DEF UserWrites, Spend, IInv, TypeOK, Bounded
  <2>2. QED
    BY <1>1, <2>1, BoundKept
<1>3. \A v \in line[q] : Precedes(v, object)
  BY <1>1, NewestLast
<1>4. /\ line'[q] \subseteq line[q] \cup {object}
      /\ \A p \in Quotas \ {q} : line'[p] = line[p]
      /\ InOrder'
      /\ api' = [api EXCEPT ![q] = object]
  BY <1>1, <1>3, LineStored
<1>5. OwnedOK'
  BY <1>1, <1>4 DEF SpendInv, OwnedOK
<1>6. OrderOK'
  <2> SUFFICES ASSUME pc \in {"sync", "renew"}, NEW w \in line'[req]
               PROVE  Precedes(tq, w)
    BY <1>1, <1>4 DEF OrderOK
  <2>1. req \in Quotas /\ \A v \in line[req] : Precedes(tq, v)
    BY DEF IInv, TypeOK, SpendInv, OrderOK
  <2>2. CASE q = req
    BY <1>1, <1>4, <2>1, <2>2, LineVersions
  <2>3. CASE q # req
    BY <1>4, <2>1, <2>3
  <2>4. QED
    BY <2>2, <2>3
<1>7. PeriodOK'
  <2> SUFFICES ASSUME fresh, q # req
               PROVE  /\ req \in Quotas
                      /\ \A v \in line'[req] : SamePeriod(v, api'[req])
    BY <1>1 DEF PeriodOK
  <2>1. req \in Quotas /\ \A v \in line[req] : SamePeriod(v, api[req])
    BY DEF SpendInv, PeriodOK
  <2>2. QED
    BY <1>1, <1>4, <2>1 DEF VersionsOK
<1>8. WithinOK'
  BY <1>1, <1>2, <1>4 DEF SpendInv, WithinOK
<1>9. EntriesOK'
  BY <1>1, <1>2 DEF SpendInv, EntriesOK
<1>10. QED
  BY <1>5, <1>6, <1>7, <1>8, <1>9 DEF SpendInv

\* An update that reaches the server puts the version held into its line.
LEMMA WriteSpend ==
    ASSUME IInv, SpendInv, Writing, fresh, Store(req, tq),
           UNCHANGED <<clock, ledger, informer, billed, used["runs"]>>,
           \/ pc = "openWrite" /\ pc' = "report" /\ UNCHANGED <<req, tq, fresh>>
           \/ Return
    PROVE  SpendInv'
<1>1. /\ VersionsOK /\ InformerOK /\ InOrder /\ tq \in Version
      /\ req \in Quotas /\ tq \in VersionOf(req) /\ pc \notin {"idle", "renew"}
      /\ bound' = bound
  BY BoundKept
  DEF IInv, SpendInv, OrderOK, OwnedOK, VersionsOK, TypeOK, Writing
<1>2. /\ \A v \in line[req] : Precedes(v, tq)
      /\ pc = "openWrite" => \A v \in line[req] : SamePeriod(v, tq)
  BY WriteInOrder
<1>3. /\ line'[req] \subseteq line[req] \cup {tq}
      /\ \A p \in Quotas \ {req} : line'[p] = line[p]
      /\ InOrder'
      /\ api' = [api EXCEPT ![req] = tq]
  BY <1>1, <1>2, LineStored
<1>4. EntriesOK'
  BY <1>1, EntriesKept DEF SpendInv
<1>5. CASE Return
  <2>1. \A q \in Quotas : \A v \in line'[q] :
            v \in line[q] \/ (q = req /\ v = tq)
    BY <1>3
  <2>2. QED
    BY <1>1, <1>3, <1>4, <1>5, <2>1, ReturnSpend DEF SpendInv
<1>6. CASE pc = "openWrite" /\ pc' = "report" /\ UNCHANGED <<req, tq, fresh>>
  <2>1. tq.status.renewal # Unset
    <3>1. Durable!Opens(api[req].status, tq.status)
      BY <1>6 DEF IInv, HeldOK, Writing
    <3>2. QED
      BY <3>1, UnsetAssumption DEF Durable!Opens
  <2>2. OwnedOK'
    BY <1>1, <1>3, <1>6, <2>1 DEF SpendInv, OwnedOK
  <2>3. OrderOK'
    BY <1>3, <1>6 DEF OrderOK
  <2>4. PeriodOK'
    <3>1. SamePeriod(tq, tq)
      BY DEF SamePeriod
    <3>2. api'[req] = tq
      BY <1>1, <1>3 DEF VersionsOK
    <3>3. QED
      BY <1>1, <1>2, <1>3, <1>6, <3>1, <3>2 DEF PeriodOK
  <2>5. WithinOK'
    BY <1>1, <1>3, <1>6 DEF SpendInv, WithinOK
  <2>6. QED
    BY <1>4, <2>2, <2>3, <2>4, <2>5 DEF SpendInv
<1>7. QED
  BY <1>5, <1>6

\* Sync, and the branch on the renewal date.
LEMMA SyncSpend ==
    ASSUME IInv, SpendInv, SyncStep
    PROVE  SpendInv'
<1> DEFINE sa == tq.spec.target
           entry == ledger[sa]
           new == Synced(entry, tq)
<1>1. /\ req \in Quotas /\ tq \in VersionOf(req) \ {Absent}
      /\ tq \in TokenQuota /\ sa \in ServiceAccounts /\ clock \in Nat
      /\ entry \in Entry \cup {Absent}
      /\ ledger \in [ServiceAccounts -> Entry \cup {Absent}]
  BY AbsentAssumption
  DEF SyncStep, IInv, SpendInv, OwnedOK, TypeOK, LedgerTypeOK, TokenQuota,
      QuotaSpec
<1>2. /\ line' = line /\ bound' = bound /\ InOrder' /\ clock' = clock
      /\ UNCHANGED <<api, req, fresh>>
  BY BoundKept
  DEF SyncStep, objectVars, line, InOrder, SpendInv, OrderOK
<1>3. NextRenewal(tq) \in Nat
  BY <1>1, NextRenewalType
<1>4. /\ tq' = tq \/ (tq.status.renewal = Unset /\ pc' = "openWrite"
                      /\ tq' = Opened(tq, NextRenewal(tq)))
      /\ tq'.spec = tq.spec
  BY <1>1, <1>3, OpenedFields DEF SyncStep
<1>5. OwnedOK'
  <2>1. tq' \in VersionOf(req)
    <3>1. CASE tq' = tq
      BY <1>1, <3>1
    <3>2. CASE tq' = Opened(tq, NextRenewal(tq))
      <4>1. Opened(tq, NextRenewal(tq)) \in Version \ {Absent}
        BY <1>1, <1>3, LocalVersion, EntryExists DEF VersionOf
      <4>2. /\ tq.spec \in SpecsOf[req]
            /\ Opened(tq, NextRenewal(tq)).spec = tq.spec
            /\ Opened(tq, NextRenewal(tq)).status.renewal \in Nat
        BY <1>1, <1>3, OpenedFields DEF VersionOf
      <4>3. QED
        BY <3>2, <4>1, <4>2, UnsetAssumption DEF VersionOf
    <3>3. QED
      BY <1>4, <3>1, <3>2
  <2>2. pc' = "report" => tq'.status.renewal # Unset
    BY DEF SyncStep
  <2>3. pc' = "renew" => Over(tq'.status, clock')
    BY <1>2 DEF SyncStep, Over, Elapsed
  <2>4. QED
    BY <1>2, <2>1, <2>2, <2>3 DEF SpendInv, OwnedOK
<1>6. OrderOK'
  <2>1. pc = "sync" /\ (pc' \in {"sync", "renew"} => tq' = tq)
    BY DEF SyncStep
  <2>2. QED
    BY <1>2, <2>1 DEF SpendInv, OrderOK
<1>7. PeriodOK'
  BY <1>2 DEF SpendInv, PeriodOK
<1>8. WithinOK'
  <2>1. Within(tq', clock, bound)
    <3>1. CASE tq' = tq
      BY <3>1 DEF SpendInv, WithinOK
    <3>2. CASE tq.status.renewal = Unset /\ tq' = Opened(tq, NextRenewal(tq))
      <4>1. tq.status.spent = Unset /\ ~Judged(tq.status.state)
        BY <1>1, <3>2 DEF VersionOf
      <4>2. tq'.status.spent = Unset /\ ~Judged(tq'.status.state)
        BY <1>1, <1>3, <3>2, <4>1, OpenedFields DEF FirstState, Judged
      <4>3. QED
        BY <4>2 DEF Within, Fits
    <3>3. QED
      BY <1>4, <3>1, <3>2
  <2>2. QED
    BY <1>2, <2>1 DEF SpendInv, WithinOK
<1>9. EntriesOK'
  <2>1. ledger' = [ledger EXCEPT ![sa] = new]
    BY DEF SyncStep, Sync
  <2>2. ASSUME NEW other \in ServiceAccounts \ {sa}, ledger'[other] # Absent
        PROVE  /\ Ceiled(ledger'[other], other)
               /\ Carried(ledger'[other], other, bound'[other])
    <3>1. ledger'[other] = ledger[other]
      BY <2>1, <2>2
    <3>2. pc # "renew"
      BY DEF SyncStep
    <3>3. QED
      BY <1>2, <2>2, <3>1, <3>2 DEF SpendInv, EntriesOK
  <2>3. ledger'[sa] = new /\ Ceiled(new, sa)
    BY <1>1, <2>1, SyncedCeiled
  <2>4. CASE Elapsed(tq.status.renewal)
    <3>1. pc' = "renew" /\ tq' = tq
      BY <2>4 DEF SyncStep
    <3>2. Over(new, clock)
      BY <2>4 DEF Synced, Over, Elapsed
    <3>3. QED
      BY <1>2, <2>2, <2>3, <3>1, <3>2 DEF EntriesOK
  <2>5. CASE ~Elapsed(tq.status.renewal)
    <3>1. Fits(tq, bound[sa])
      <4>1. tq.status.renewal = Unset \/ clock <= tq.status.renewal
        BY <1>1, <2>5 DEF Elapsed, TokenQuota, QuotaStatus
      <4>2. QED
        BY <1>1, <4>1 DEF SpendInv, WithinOK, Within
    <3>2. entry # Absent => Carried(entry, sa, bound[sa])
      BY <1>1 DEF SyncStep, SpendInv, EntriesOK
    <3>3. bound[sa] \in Nat
      BY <1>1, BoundType DEF IInv
    <3>4. Carried(new, sa, bound[sa])
      BY <1>1, <3>1, <3>2, <3>3, SyncedCarried
    <3>5. QED
      BY <1>2, <2>2, <2>3, <3>4 DEF EntriesOK
  <2>6. QED
    BY <2>4, <2>5
<1>10. QED
  BY <1>5, <1>6, <1>7, <1>8, <1>9 DEF SpendInv

\* Reset, and the renewed status.  What other versions show of the period that
\* is over does not count any more, and no other quota has the account.
LEMMA RenewSpend ==
    ASSUME OneQuotaPerAccount, IInv, SpendInv, Renew
    PROVE  SpendInv'
<1> DEFINE sa == tq.spec.target
           next == NextRenewal(tq)
<1>1. /\ req \in Quotas /\ tq \in VersionOf(req) \ {Absent}
      /\ tq \in TokenQuota /\ tq \in Version \ {Absent}
      /\ tq.spec \in SpecsOf[req] /\ sa \in ServiceAccounts /\ clock \in Nat
      /\ ledger \in [ServiceAccounts -> Entry \cup {Absent}]
      /\ billed \in [ServiceAccounts -> Nat]
      /\ Over(tq.status, clock)
  BY AbsentAssumption
  DEF Renew, IInv, SpendInv, OwnedOK, TypeOK, LedgerTypeOK, TokenQuota,
      QuotaSpec, VersionOf
<1>2. /\ line' = line /\ InOrder' /\ clock' = clock
      /\ pc = "renew" /\ pc' = "renewWrite"
      /\ UNCHANGED <<api, req, fresh>>
  BY DEF Renew, objectVars, line, InOrder, SpendInv, OrderOK
<1>3. /\ bound' \in [ServiceAccounts -> Nat]
      /\ \A other \in ServiceAccounts \ {sa} : bound'[other] = bound[other]
  <2>1. Rounding' = Rounding /\ TypeOK'
    BY NextType DEF Renew, Rounding, IInv, Next, Reconcile
  <2>2. billed' = [billed EXCEPT ![sa] = 0]
    BY DEF Renew
  <2>3. bound' \in [ServiceAccounts -> Nat]
    <3>1. TypeOK => bound \in [ServiceAccounts -> Nat]
      BY BoundType
    <3>2. (TypeOK => bound \in [ServiceAccounts -> Nat])'
      BY <3>1, BoundType, PTL
    <3>3. QED
      BY <2>1, <3>2
  <2>4. QED
    BY <1>1, <2>1, <2>2, <2>3 DEF bound
<1>4. next \in Nat
  BY <1>1, NextRenewalType
<1>5. /\ tq' = Renewed(tq, next) /\ tq'.spec = tq.spec
      /\ tq'.status.spent = 0 /\ tq'.status.state = "Active"
      /\ tq'.status.renewal \in Nat
      /\ tq' \in Version \ {Absent}
  BY <1>1, <1>4, RenewedFields, LocalVersion, EntryExists DEF Renew
<1>6. OwnedOK'
  <2>1. tq' \in VersionOf(req)
    BY <1>1, <1>5, UnsetAssumption DEF VersionOf
  <2>2. QED
    BY <1>2, <2>1 DEF SpendInv, OwnedOK
<1>7. OrderOK' /\ PeriodOK'
  BY <1>2 DEF SpendInv, OrderOK, PeriodOK
<1>8. WithinOK'
  <2>1. ASSUME NEW v \in line[req] PROVE Within(v, clock, bound')
    <3>1. Precedes(tq, v) /\ v \in VersionOf(req)
      BY <1>1, <1>2, <2>1 DEF SpendInv, OrderOK, OwnedOK
    <3>2. CASE v = Absent
      BY <3>2 DEF Within
    <3>3. CASE v # Absent /\ v.status.renewal = tq.status.renewal
      <4>1. tq.status.renewal \in Nat /\ clock > tq.status.renewal
        BY <1>1 DEF Over, TokenQuota, QuotaStatus
      <4>2. QED
        BY <1>1, <3>3, <4>1, UnsetAssumption DEF Within
    <3>4. CASE v # Absent /\ Clean(v.status)
      <4>1. v.spec.target \in ServiceAccounts
        BY <3>1, <3>4 DEF VersionOf, Version, TokenQuota, QuotaSpec
      <4>2. bound'[v.spec.target] \in Nat
        BY <1>3, <4>1
      <4>3. QED
        BY <3>4, <4>2 DEF Within, Fits, Clean
    <3>5. QED
      BY <1>1, <3>1, <3>2, <3>3, <3>4 DEF Precedes, Over
  <2>2. ASSUME NEW q \in Quotas \ {req}, NEW v \in line[q]
        PROVE  Within(v, clock, bound')
    <3>1. v \in VersionOf(q) /\ Within(v, clock, bound)
      BY <2>2 DEF SpendInv, OwnedOK, WithinOK
    <3>2. CASE v = Absent
      BY <3>2 DEF Within
    <3>3. CASE v # Absent
      <4>1. v.spec \in SpecsOf[q] /\ v.spec.target \in ServiceAccounts
        BY <3>1, <3>3 DEF VersionOf, Version, TokenQuota, QuotaSpec
      <4>2. v.spec.target # sa
        BY <1>1, <2>2, <4>1 DEF OneQuotaPerAccount
      <4>3. QED
        BY <1>3, <3>1, <4>1, <4>2 DEF Within
    <3>4. QED
      BY <3>2, <3>3
  <2>3. Within(tq', clock, bound')
    <3>1. bound'[sa] \in Nat
      BY <1>1, <1>3
    <3>2. QED
      BY <1>5, <3>1 DEF Within, Fits, Judged
  <2>4. \A q \in Quotas : \A v \in line'[q] : Within(v, clock', bound')
    BY <1>2, <2>1, <2>2
  <2>5. QED
    BY <1>2, <2>3, <2>4 DEF WithinOK
<1>9. EntriesOK'
  <2>1. ledger' = [ledger EXCEPT ![sa] = IF ledger[sa] = Absent THEN Absent
                                         ELSE Cleared(ledger[sa])]
    BY <1>1 DEF Renew, Reset
  <2>2. ASSUME NEW other \in ServiceAccounts \ {sa}, ledger'[other] # Absent
        PROVE  /\ Ceiled(ledger'[other], other)
               /\ Carried(ledger'[other], other, bound'[other])
    <3>1. ledger'[other] = ledger[other]
      BY <2>1, <2>2
    <3>2. /\ Ceiled(ledger[other], other)
          /\ Carried(ledger[other], other, bound[other])
      BY <2>2, <3>1 DEF SpendInv, EntriesOK
    <3>3. bound'[other] = bound[other]
      BY <1>3
    <3>4. QED
      BY <3>1, <3>2, <3>3
  <2>3. ASSUME ledger'[sa] # Absent
        PROVE  /\ Ceiled(ledger'[sa], sa)
               /\ Carried(ledger'[sa], sa, bound'[sa])
    <3>1. /\ ledger[sa] # Absent /\ ledger[sa] \in Entry
          /\ ledger'[sa] = Cleared(ledger[sa])
      BY <1>1, <2>1, <2>3
    <3>2. Ceiled(ledger[sa], sa)
      BY <1>1, <3>1 DEF SpendInv, EntriesOK
    <3>3. /\ Cleared(ledger[sa]).max = ledger[sa].max
          /\ Cleared(ledger[sa]).spent = 0
          /\ Cleared(ledger[sa]).state = "Active"
      BY <3>1 DEF Cleared, Accounted, Entry
    <3>4. Carried(Cleared(ledger[sa]), sa, bound'[sa])
      <4>1. bound'[sa] \in Nat
        BY <1>1, <1>3
      <4>2. QED
        BY <3>3, <4>1, PrintedZero DEF Carried, Judged
    <3>5. Ceiled(Cleared(ledger[sa]), sa)
      BY <3>2, <3>3 DEF Ceiled
    <3>6. QED
      BY <3>1, <3>4, <3>5
  <2>4. QED
    BY <2>2, <2>3 DEF EntriesOK
<1>10. QED
  BY <1>6, <1>7, <1>8, <1>9 DEF SpendInv

\* Get, and the account of the entry in the status.
LEMMA ReportSpend ==
    ASSUME IInv, SpendInv, Report
    PROVE  SpendInv'
<1> DEFINE sa == tq.spec.target
           entry == ledger[sa]
<1>1. /\ req \in Quotas /\ tq \in VersionOf(req) \ {Absent}
      /\ tq \in TokenQuota /\ tq \in Version \ {Absent}
      /\ tq.spec \in SpecsOf[req] /\ sa \in ServiceAccounts /\ clock \in Nat
      /\ entry \in Entry \cup {Absent} /\ tq.status.renewal # Unset
  BY AbsentAssumption
  DEF Report, IInv, SpendInv, OwnedOK, TypeOK, LedgerTypeOK, TokenQuota,
      QuotaSpec, VersionOf
<1>2. /\ line' = line /\ bound' = bound /\ InOrder' /\ clock' = clock
      /\ ledger' = ledger /\ api' = api /\ pc = "report"
  BY BoundKept
  DEF Report, objectVars, ledgerVars, line, InOrder, SpendInv, OrderOK
<1>3. EntriesOK'
  BY <1>2, EntriesKept DEF SpendInv
<1>4. CASE entry = Absent
  <2>1. Return
    BY <1>4 DEF Report
  <2>2. QED
    BY <1>2, <1>3, <2>1, ReturnSpend DEF SpendInv
<1>5. CASE entry # Absent
  <2>1. /\ tq' = Reported(tq, entry) /\ pc' = "reportWrite"
        /\ UNCHANGED <<req, fresh>>
    BY <1>5 DEF Report
  <2>2. entry \in Entry /\ Carried(entry, sa, bound[sa])
    BY <1>1, <1>2, <1>5 DEF SpendInv, EntriesOK
  <2>3. /\ tq'.spec = tq.spec
        /\ tq'.status.renewal = tq.status.renewal
        /\ tq'.status.state = entry.state
        /\ tq'.status.spent = Printed(entry.spent)
        /\ tq' \in Version \ {Absent}
    BY <1>1, <2>1, <2>2, ReportedFields, LocalVersion
  <2>4. OwnedOK'
    BY <1>1, <1>2, <2>1, <2>3 DEF SpendInv, OwnedOK, VersionOf
  <2>5. OrderOK' /\ PeriodOK'
    BY <1>2, <2>1 DEF SpendInv, OrderOK, PeriodOK
  <2>6. WithinOK'
    <3>1. Within(tq', clock, bound)
      BY <2>2, <2>3 DEF Within, Fits, Carried
    <3>2. QED
      BY <1>2, <3>1 DEF SpendInv, WithinOK
  <2>7. QED
    BY <1>3, <2>4, <2>5, <2>6 DEF SpendInv
<1>6. QED
  BY <1>4, <1>5

\* What users write.
LEMMA UsersSpend ==
    ASSUME OneQuotaPerAccount, IInv, SpendInv, Users
    PROVE  SpendInv'
<1>1. ASSUME NEW q \in Quotas
      PROVE  /\ api[q] \in VersionOf(q) /\ Within(api[q], clock, bound)
             /\ api[q] # Absent => api[q] \in TokenQuota
  <2>1. api[q] \in line[q]
    BY <1>1, LineVersions DEF IInv
  <2>2. QED
    BY <1>1, <2>1 DEF SpendInv, OwnedOK, WithinOK, IInv, TypeOK
<1>2. ASSUME NEW q \in Quotas, NEW spec \in SpecsOf[q], CreateQuota(q, spec)
      PROVE  SpendInv'
  <2> DEFINE object == [spec |-> spec, status |-> NewStatus]
  <2>1. object \in TokenQuota /\ Unset # "Exceeded"
    BY SpecsAssumption, UnsetAssumption
    DEF TokenQuota, NewStatus, QuotaStatus, QuotaStates, Denying
  <2>2. /\ object.spec = spec /\ object.status.spent = Unset
        /\ object.status.state = Unset /\ object.status.runs = 0
    BY DEF NewStatus
  <2> HIDE DEF object
  <2>3. object \in VersionOf(q)
    BY <2>1, <2>2, AbsentAssumption DEF VersionOf, Version, Judged
  <2>4. Within(object, clock, bound) /\ Clean(object.status)
    BY <2>1, <2>2 DEF Within, Fits, Clean, Judged
  <2>5. UserWrites(q, object)
    BY <1>2 DEF CreateQuota, object
  <2>6. QED
    BY <2>3, <2>4, <2>5, UserWritesSpend DEF Precedes
<1>3. ASSUME NEW q \in Quotas, NEW spec \in SpecsOf[q], EditSpec(q, spec)
      PROVE  SpendInv'
  <2> DEFINE old == api[q]
             object == [old EXCEPT !.spec = spec]
  <2>1. /\ old \in TokenQuota /\ old # Absent /\ old \in VersionOf(q)
        /\ Within(old, clock, bound) /\ spec \in QuotaSpec
    BY <1>1, <1>3, SpecsAssumption DEF EditSpec
  <2>2. /\ object \in TokenQuota /\ object.status = old.status
        /\ object.spec = spec
    BY <2>1 DEF TokenQuota
  <2>3. UserWrites(q, object)
    BY <1>3 DEF EditSpec
  <2> HIDE DEF old, object
  <2>4. object \in VersionOf(q)
    BY <2>1, <2>2, AbsentAssumption DEF VersionOf, Version
  <2>5. object.spec.target = old.spec.target
    <3>1. old.spec \in SpecsOf[q]
      BY <2>1 DEF VersionOf
    <3>2. QED
      BY <2>2, <3>1 DEF OneQuotaPerAccount
  <2>6. Within(object, clock, bound)
    BY <2>1, <2>2, <2>5 DEF Within, Fits
  <2>7. \A v : Precedes(v, old) => Precedes(v, object)
    BY <2>1, <2>2 DEF Precedes
  <2>8. QED
    BY <2>3, <2>4, <2>6, <2>7, UserWritesSpend DEF old
<1>4. ASSUME NEW q \in Quotas, NEW state \in Patches, PatchState(q, state)
      PROVE  SpendInv'
  <2> DEFINE old == api[q]
             object == [old EXCEPT !.status.state = state]
  <2>1. /\ old \in TokenQuota /\ old # Absent /\ old \in VersionOf(q)
        /\ Within(old, clock, bound)
        /\ state \in QuotaStates /\ ~Judged(state) /\ state # Unset
    BY <1>1, <1>4, PatchesAssumption, UnsetAssumption
    DEF PatchState, Judged, VerdictIsComputed
  <2>2. /\ object \in TokenQuota /\ object.spec = old.spec
        /\ object.status.state = state
        /\ object.status.spent = old.status.spent
        /\ object.status.runs = old.status.runs
        /\ object.status.renewal = old.status.renewal
    BY <2>1 DEF TokenQuota, QuotaStatus
  <2>3. UserWrites(q, object)
    BY <1>4 DEF PatchState
  <2> HIDE DEF old, object
  <2>4. object \in VersionOf(q)
    BY <2>1, <2>2, AbsentAssumption DEF VersionOf, Version
  <2>5. Within(object, clock, bound)
    BY <2>1, <2>2 DEF Within, Fits
  <2>6. \A v : Precedes(v, old) => Precedes(v, object)
    BY <2>1, <2>2 DEF Precedes, Clean
  <2>7. QED
    BY <2>3, <2>4, <2>5, <2>6, UserWritesSpend DEF old
<1>5. ASSUME NEW q \in Quotas, DeleteQuota(q) PROVE SpendInv'
  <2>1. Absent \in VersionOf(q) /\ Within(Absent, clock, bound)
    BY DEF VersionOf, Within
  <2>2. QED
    BY <1>5, <2>1, UserWritesSpend DEF DeleteQuota, Precedes
<1>6. QED
  BY <1>2, <1>3, <1>4, <1>5 DEF Users

\* A run billed to an account.
LEMMA BillSpend ==
    ASSUME IInv, SpendInv, NEW sa \in ServiceAccounts, NEW usd \in Amounts,
           Bill(sa, usd)
    PROVE  SpendInv'
<1>1. /\ TypeOK /\ usd \in Nat /\ clock \in Nat
      /\ ledger \in [ServiceAccounts -> Entry \cup {Absent}]
      /\ ledger[sa] # Absent /\ ledger[sa] \in Entry
      /\ ledger' = [ledger EXCEPT ![sa] = Charged(ledger[sa], usd)]
      /\ bound \in [ServiceAccounts -> Nat]
  BY SpendAssumption, BoundType
  DEF Bill, RecordSpend, IInv, TypeOK, LedgerTypeOK
<1>2. /\ bound' \in [ServiceAccounts -> Nat]
      /\ bound'[sa] = bound[sa] + usd + Micro \div 2
      /\ \A other \in ServiceAccounts : bound'[other] >= bound[other]
  BY <1>1, BoundBilled DEF Bill, Spend
<1>3. /\ line' = line /\ InOrder' /\ clock' = clock
      /\ UNCHANGED <<api, pc, req, tq, fresh>>
  BY DEF Bill, objectVars, workerVars, line, InOrder, SpendInv, OrderOK
<1>4. OwnedOK' /\ OrderOK' /\ PeriodOK'
  BY <1>3 DEF SpendInv, OwnedOK, OrderOK, PeriodOK
<1>5. \A v \in TokenQuota \cup {Absent} :
          Within(v, clock, bound) => Within(v, clock, bound')
  <2>1. clock <= clock /\ \A other \in ServiceAccounts :
            bound[other] <= bound'[other]
    BY <1>1, <1>2
  <2>2. QED
    BY <1>1, <1>2, <2>1, WithinMore
<1>6. WithinOK'
  <2>1. tq \in TokenQuota \cup {Absent}
    BY <1>1 DEF TypeOK
  <2>2. \A q \in Quotas : line[q] \subseteq TokenQuota \cup {Absent}
    BY DEF SpendInv, OwnedOK, VersionOf, Version
  <2>3. QED
    BY <1>3, <1>5, <2>1, <2>2 DEF SpendInv, WithinOK
<1>7. EntriesOK'
  <2> DEFINE entry == ledger[sa]
             new == Charged(entry, usd)
  <2>1. /\ new \in Entry /\ new.renewal = entry.renewal
        /\ new.max = entry.max
    <3>1. new \in Entry /\ new.renewal = entry.renewal
      BY <1>1, ChargedType
    <3>2. new.max = entry.max
      BY <1>1 DEF Charged, Accounted, Entry
    <3>3. QED
      BY <3>1, <3>2
  <2>2. ledger'[sa] = new
    BY <1>1
  <2>3. Ceiled(entry, sa)
    BY <1>1 DEF SpendInv, EntriesOK
  <2>4. Carried(entry, sa, bound[sa]) => Carried(new, sa, bound'[sa])
    BY <1>1, <1>2, <2>3, ChargedCarried
  <2>5. /\ Ceiled(new, sa)
        /\ \/ Carried(new, sa, bound'[sa])
           \/ pc = "renew" /\ tq.spec.target = sa /\ Over(new, clock)
    <3>1. Ceiled(new, sa)
      BY <2>1, <2>3 DEF Ceiled
    <3>2. \/ Carried(entry, sa, bound[sa])
          \/ pc = "renew" /\ tq.spec.target = sa /\ Over(entry, clock)
      BY <1>1 DEF SpendInv, EntriesOK
    <3>3. Over(entry, clock) => Over(new, clock)
      BY <2>1 DEF Over
    <3>4. QED
      BY <2>4, <3>1, <3>2, <3>3
  <2>6. ASSUME NEW other \in ServiceAccounts \ {sa}, ledger'[other] # Absent
        PROVE  /\ Ceiled(ledger'[other], other)
               /\ \/ Carried(ledger'[other], other, bound'[other])
                  \/ pc = "renew" /\ tq.spec.target = other
                     /\ Over(ledger'[other], clock)
    <3>1. ledger'[other] = ledger[other] /\ ledger[other] \in Entry
      BY <1>1, <2>6
    <3>2. Carried(ledger[other], other, bound[other]) =>
              Carried(ledger[other], other, bound'[other])
      BY <1>1, <1>2, <3>1, CarriedMore
    <3>3. QED
      BY <2>6, <3>1, <3>2 DEF SpendInv, EntriesOK
  <2> HIDE DEF new, entry
  <2>7. QED
    BY <1>3, <2>2, <2>5, <2>6 DEF EntriesOK
<1>8. QED
  BY <1>4, <1>6, <1>7 DEF SpendInv

\* Time passes.
LEMMA TickSpend ==
    ASSUME IInv, SpendInv, Tick
    PROVE  SpendInv'
<1>1. /\ TypeOK /\ clock \in Nat /\ clock' = clock + 1 /\ bound' = bound
      /\ bound \in [ServiceAccounts -> Nat]
  BY BoundType, BoundKept DEF Tick, IInv, TypeOK, LedgerTypeOK
<1>2. /\ line' = line /\ InOrder'
      /\ UNCHANGED <<ledger, api, pc, req, tq, fresh>>
  BY DEF Tick, objectVars, workerVars, line, InOrder, SpendInv, OrderOK
<1>3. OwnedOK'
  <2>1. pc = "renew" => Over(tq.status, clock')
    <3> SUFFICES ASSUME pc = "renew" PROVE Over(tq.status, clock')
      OBVIOUS
    <3>1. tq \in TokenQuota /\ Over(tq.status, clock)
      BY <1>1 DEF TypeOK, SpendInv, OwnedOK
    <3>2. QED
      BY <1>1, <3>1 DEF Over, TokenQuota, QuotaStatus
  <2>2. QED
    BY <1>2, <2>1 DEF SpendInv, OwnedOK
<1>4. OrderOK' /\ PeriodOK'
  BY <1>2 DEF SpendInv, OrderOK, PeriodOK
<1>5. WithinOK'
  <2>1. \A v \in TokenQuota \cup {Absent} :
            Within(v, clock, bound) => Within(v, clock', bound)
    <3>1. clock' \in Nat /\ clock <= clock'
      BY <1>1
    <3>2. \A sa \in ServiceAccounts : bound[sa] <= bound[sa]
      BY <1>1
    <3>3. QED
      BY <1>1, <3>1, <3>2, WithinMore
  <2>2. tq \in TokenQuota \cup {Absent}
    BY <1>1 DEF TypeOK
  <2>3. \A q \in Quotas : line[q] \subseteq TokenQuota \cup {Absent}
    BY DEF SpendInv, OwnedOK, VersionOf, Version
  <2>4. QED
    BY <1>1, <1>2, <2>1, <2>2, <2>3 DEF SpendInv, WithinOK
<1>6. EntriesOK'
  <2>1. \A sa \in ServiceAccounts :
            ledger[sa] # Absent /\ Over(ledger[sa], clock) =>
                Over(ledger[sa], clock')
    BY <1>1 DEF Over, TypeOK, LedgerTypeOK, Entry
  <2>2. QED
    BY <1>1, <1>2, <2>1 DEF SpendInv, EntriesOK
<1>7. QED
  BY <1>3, <1>4, <1>5, <1>6 DEF SpendInv

\* Every step preserves the invariant.
LEMMA SpendNext ==
    ASSUME OneQuotaPerAccount, IInv, SpendInv, [Next]_vars
    PROVE  SpendInv'
<1> USE DEF ledgerVars, objectVars, workerVars
<1>0. /\ TypeOK /\ VersionsOK /\ InformerOK /\ InOrder
      /\ OwnedOK /\ OrderOK /\ PeriodOK /\ WithinOK /\ EntriesOK
  BY DEF IInv, SpendInv, OrderOK
<1>1. ASSUME NEW q \in Quotas, Fetch(q) PROVE SpendInv'
  <2>1. /\ line' = line /\ bound' = bound /\ InOrder' /\ pc = "idle"
        /\ UNCHANGED <<ledger, clock, api>>
    BY <1>0, <1>1, BoundKept DEF Fetch, line, InOrder
  <2>2. /\ req' = q /\ tq' = informer[q] /\ pc' \in {"forget", "sync"}
        /\ fresh' = (watch[q] = <<>>) /\ informer[q] \in line[q]
    BY <1>1 DEF Fetch, line
  <2>3. OwnedOK'
    BY <1>0, <2>1, <2>2 DEF OwnedOK
  <2>4. OrderOK'
    BY <1>0, <2>1, <2>2, NewestLast DEF OrderOK
  <2>5. PeriodOK'
    <3> SUFFICES ASSUME watch[q] = <<>>, NEW v \in line[q]
                 PROVE  SamePeriod(v, api[q])
      BY <2>1, <2>2 DEF PeriodOK
    <3>1. v = api[q]
      BY <1>0 DEF line, InformerOK
    <3>2. QED
      BY <3>1 DEF SamePeriod
  <2>6. WithinOK'
    BY <1>0, <2>1, <2>2 DEF WithinOK
  <2>7. EntriesOK'
    BY <1>0, <2>1, EntriesKept
  <2>8. QED
    BY <2>3, <2>4, <2>5, <2>6, <2>7 DEF SpendInv
<1>2. CASE Forget
  <2>1. /\ line' = line /\ bound' = bound /\ InOrder' /\ pc = "forget"
        /\ Return /\ UNCHANGED clock
    BY <1>0, <1>2, BoundKept DEF Forget, line, InOrder
  <2>2. \A sa \in ServiceAccounts : ledger'[sa] \in {ledger[sa], Absent}
    BY <1>0, <1>2 DEF Forget, Delete, TypeOK, LedgerTypeOK
  <2>3. EntriesOK'
    BY <1>0, <2>1, <2>2, EntriesKept
  <2>4. QED
    BY <2>1, <2>3, ReturnSpend DEF SpendInv
<1>3. CASE SyncStep
  BY <1>3, SyncSpend
<1>4. CASE Renew
  BY <1>4, RenewSpend
<1>5. CASE Report
  BY <1>5, ReportSpend
<1>6. CASE UpdateAccepted
  BY <1>6, WriteSpend DEF UpdateAccepted
<1>7. CASE UpdateRejected
  <2>1. /\ line' = line /\ bound' = bound /\ InOrder'
        /\ pc \notin {"idle", "renew"} /\ Return /\ UNCHANGED <<clock, ledger>>
    BY <1>0, <1>7, BoundKept DEF UpdateRejected, Writing, line, InOrder
  <2>2. EntriesOK'
    BY <1>0, <2>1, EntriesKept
  <2>3. QED
    BY <2>1, <2>2, ReturnSpend DEF SpendInv
<1>8. CASE UpdateFaulted
  <2>1. /\ Writing /\ Return /\ UNCHANGED <<clock, ledger, billed>>
        /\ used'["runs"] = used["runs"] /\ pc \notin {"idle", "renew"}
    BY <1>0, <1>8 DEF UpdateFaulted, Spend, TypeOK, Bounded, Writing
  <2>2. CASE UNCHANGED objectVars
    <3>1. line' = line /\ bound' = bound /\ InOrder'
      BY <1>0, <2>1, <2>2, BoundKept DEF line, InOrder
    <3>2. EntriesOK'
      BY <1>0, <2>1, <3>1, EntriesKept
    <3>3. QED
      BY <2>1, <3>1, <3>2, ReturnSpend DEF SpendInv
  <2>3. CASE fresh /\ Store(req, tq) /\ UNCHANGED informer
    BY <2>1, <2>3, WriteSpend
  <2>4. QED
    BY <1>8, <2>2, <2>3 DEF UpdateFaulted
<1>9. ASSUME NEW q \in Quotas, Deliver(q) PROVE SpendInv'
  <2>1. /\ bound' = bound
        /\ UNCHANGED <<ledger, clock, api, pc, req, tq, fresh>>
    BY <1>9, BoundKept DEF Deliver
  <2>2. (\A p \in Quotas : line'[p] \subseteq line[p]) /\ InOrder'
    BY <1>0, <1>9, LineDelivered DEF Deliver
  <2>3. OwnedOK'
    BY <1>0, <2>1, <2>2 DEF OwnedOK
  <2>4. OrderOK'
    <3> SUFFICES ASSUME pc \in {"sync", "renew"}, NEW w \in line'[req]
                 PROVE  Precedes(tq, w)
      BY <2>1, <2>2 DEF OrderOK
    <3>1. req \in Quotas
      BY <1>0 DEF TypeOK
    <3>2. QED
      BY <1>0, <2>2, <3>1 DEF OrderOK
  <2>5. PeriodOK'
    BY <1>0, <2>1, <2>2 DEF PeriodOK
  <2>6. WithinOK'
    BY <1>0, <2>1, <2>2 DEF WithinOK
  <2>7. EntriesOK'
    BY <1>0, <2>1 DEF EntriesOK
  <2>8. QED
    BY <2>3, <2>4, <2>5, <2>6, <2>7 DEF SpendInv
<1>10. ASSUME NEW q \in Quotas, TimerFires(q) PROVE SpendInv'
  <2>1. /\ line' = line /\ bound' = bound /\ InOrder'
        /\ UNCHANGED <<ledger, clock, api, pc, req, tq, fresh>>
    BY <1>0, <1>10, BoundKept DEF TimerFires, line, InOrder
  <2>2. QED
    BY <1>0, <2>1
    DEF SpendInv, OwnedOK, OrderOK, PeriodOK, WithinOK, EntriesOK
<1>11. CASE Users
  BY <1>11, UsersSpend
<1>12. ASSUME NEW sa \in ServiceAccounts, NEW usd \in Amounts, Bill(sa, usd)
       PROVE  SpendInv'
  BY <1>12, BillSpend
<1>13. CASE Tick
  BY <1>13, TickSpend
<1>14. CASE Restart
  <2>1. /\ bound' = bound /\ UNCHANGED clock /\ Return
        /\ informer' = api /\ watch' = [q \in Quotas |-> <<>>]
        /\ ledger' = [sa \in ServiceAccounts |-> Absent]
    BY <1>0, <1>14, BoundKept DEF Restart, Spend, TypeOK, Bounded
  <2>2. \A q \in Quotas : line'[q] = {api[q]} /\ api[q] \in line[q]
    BY <1>0, <2>1, LineVersions DEF line
  <2>3. InOrder'
    BY <2>1 DEF InOrder
  <2>4. pc' = "idle" /\ tq' = Absent /\ ~fresh'
    BY <2>1 DEF Return
  <2>5. OwnedOK'
    BY <1>0, <2>2, <2>4 DEF OwnedOK
  <2>6. OrderOK' /\ PeriodOK'
    BY <2>3, <2>4 DEF OrderOK, PeriodOK
  <2>7. WithinOK'
    BY <1>0, <2>1, <2>2, <2>4 DEF WithinOK, Within
  <2>8. EntriesOK'
    BY <2>1 DEF EntriesOK
  <2>9. QED
    BY <2>5, <2>6, <2>7, <2>8 DEF SpendInv
<1>15. CASE UNCHANGED vars
  <2>1. /\ line' = line /\ bound' = bound /\ InOrder'
        /\ UNCHANGED <<ledger, clock, api, pc, req, tq, fresh>>
    BY <1>0, <1>15, BoundKept DEF vars, line, InOrder
  <2>2. QED
    BY <1>0, <2>1
    DEF SpendInv, OwnedOK, OrderOK, PeriodOK, WithinOK, EntriesOK
<1>16. QED
  BY <1>1, <1>2, <1>3, <1>4, <1>5, <1>6, <1>7, <1>8, <1>9, <1>10, <1>11,
     <1>12, <1>13, <1>14, <1>15
  DEF Next, Reconcile

\* It holds in every state.
LEMMA SpendBounded ==
    ASSUME OneQuotaPerAccount
    PROVE  Spec => [](IInv /\ SpendInv)
<1>1. IInv /\ SpendInv /\ [Next]_vars => SpendInv'
  BY SpendNext
<1>2. QED
  BY SpendInit, HeldVersionsKept, <1>1, PTL DEF Spec

-----------------------------------------------------------------------------
(* The theorems.                                                           *)

\* A period is over, or it is not.
LEMMA NotElapsed ==
    ASSUME NEW date \in Nat \cup {Unset}, clock \in Nat
    PROVE  Elapsed(date) <=> ~(date = Unset \/ clock <= date)
  BY UnsetAssumption DEF Elapsed

\* If every account has one quota, nobody is charged for more than was billed
\* since the last renewal, up to the rounding of printed amounts, whatever stale
\* versions Sync copies back and however often renewals are retried
\* (cache.go:87-95, controller:50-92).
THEOREM ChargedOnlyWhatWasBilled ==
    ASSUME OneQuotaPerAccount
    PROVE  Spec => []NeverOvercharged
<1>1. ASSUME IInv, SpendInv PROVE NeverOvercharged
  <2>1. ASSUME NEW sa \in ServiceAccounts, ledger[sa] # Absent,
               ~Elapsed(ledger[sa].renewal)
        PROVE  ledger[sa].spent <= billed[sa] + Rounding
    <3>1. bound[sa] = billed[sa] + Rounding
      BY DEF bound
    <3>2. ~Over(ledger[sa], clock)
      BY <2>1 DEF Over, Elapsed
    <3>3. Carried(ledger[sa], sa, bound[sa])
      BY <1>1, <2>1, <3>2 DEF SpendInv, EntriesOK
    <3>4. QED
      BY <3>1, <3>3 DEF Carried
  <2>2. ASSUME NEW q \in Quotas, api[q] # Absent, api[q].status.spent # Unset,
               ~Elapsed(api[q].status.renewal)
        PROVE  api[q].status.spent <= billed[api[q].spec.target] + Rounding
    <3> DEFINE sa == api[q].spec.target
    <3>1. api[q] \in TokenQuota /\ clock \in Nat
      BY <1>1, <2>2 DEF IInv, TypeOK, LedgerTypeOK
    <3>2. /\ sa \in ServiceAccounts
          /\ api[q].status.renewal \in Nat \cup {Unset}
      BY <3>1 DEF TokenQuota, QuotaSpec, QuotaStatus
    <3>3. bound[sa] = billed[sa] + Rounding
      BY <3>2 DEF bound
    <3>4. Within(api[q], clock, bound)
      BY <1>1, LineVersions DEF IInv, SpendInv, WithinOK
    <3>5. Fits(api[q], bound[sa])
      BY <2>2, <3>1, <3>2, <3>4, NotElapsed DEF Within
    <3>6. QED
      BY <2>2, <3>3, <3>5 DEF Fits
  <2>3. QED
    BY <2>1, <2>2 DEF NeverOvercharged
<1>2. QED
  BY SpendBounded, <1>1, PTL

\* Under the same hypotheses the webhook treats an account as Exceeded only if
\* what was billed since its last renewal reaches a budget it was given: no
\* verdict of an earlier period denies (cache.go:116-119, admission.go).
THEOREM DenialsAreEarned ==
    ASSUME OneQuotaPerAccount, VerdictIsComputed
    PROVE  Spec => []EarnedDenial
<1>1. ASSUME IInv, SpendInv PROVE EarnedDenial
  <2> SUFFICES ASSUME NEW sa \in ServiceAccounts, Check(sa) = "Exceeded"
               PROVE  \E q \in Quotas : \E spec \in SpecsOf[q] :
                          /\ spec.target = sa
                          /\ AsInt64(spec.budget) > 0
                          /\ billed[sa] + Rounding >= AsInt64(spec.budget)
    BY DEF EarnedDenial
  <2>1. /\ ledger[sa] # Absent /\ ~Elapsed(ledger[sa].renewal)
        /\ ledger[sa].state = "Exceeded"
    BY DEF Check
  <2>2. ~Over(ledger[sa], clock)
    BY <2>1 DEF Over, Elapsed
  <2>3. Carried(ledger[sa], sa, bound[sa])
    BY <1>1, <2>1, <2>2 DEF SpendInv, EntriesOK
  <2>4. bound[sa] = billed[sa] + Rounding
    BY DEF bound
  <2>5. QED
    BY <2>1, <2>3, <2>4 DEF Carried, EarnedBy, Judged
<1>2. QED
  BY SpendBounded, <1>1, PTL
===============================================================================
