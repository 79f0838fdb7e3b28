------------------------- MODULE KovernReplicasProofs -------------------------
(***************************************************************************)
(* KovernReplicas for every value of the constants: any replicas, accounts,*)
(* budgets, batches and prices, leader election on or off, any number of   *)
(* exports and crashes.                                                    *)
(***************************************************************************)
EXTENDS KovernReplicas, OtlpReceiverProofs

-----------------------------------------------------------------------------
(* The inductive invariant.                                                *)

\* The ceiling of the account as the ledgers have it.
Limit(sa) == Ledgers!AsInt64(BudgetOf[sa].budget)

\* Nobody is suspended here, and a denial rests on a spend at the ceiling.
Earned(sa, state, spent) ==
    /\ state # "Suspended"
    /\ state = "Exceeded" => spent \in Nat /\ Limit(sa) > 0 /\ spent >= Limit(sa)

\* A quota as any process may read it: fields are written in one order.
QuotaOK(sa, t) ==
    /\ t.spec = BudgetOf[sa]
    /\ Earned(sa, t.status.state, t.status.spent)
    /\ t.status.renewal = Unset => t.status.state = Unset
    /\ t.status.state = Unset => t.status.spent = Unset /\ t.status.runs = 0

\* The entry carries at least the account of the status, and more only if it
\* carries more runs; and it denies what the status denies.
Covers(entry, status) ==
    /\ entry.runs >= status.runs
    /\ status.state \in Ledgers!Denying => entry.state \in Ledgers!Denying
    /\ status.spent # Unset =>
           /\ entry.spent >= status.spent
           /\ entry.runs = status.runs => entry.spent = status.spent
                                          /\ entry.state = status.state

QuotasOK == \A sa \in Accounts : quota[sa] # Absent => QuotaOK(sa, quota[sa])

HeldOK ==
    \A r \in Replicas :
        held[r] # Absent =>
            LET entry == ledgers[<<r, held[r].sa>>]
            IN  /\ QuotaOK(held[r].sa, held[r].tq)
                /\ entry # Absent
                /\ Covers(entry, held[r].tq.status)

EntriesOK ==
    \A r \in Replicas, sa \in Accounts :
        LET entry == ledgers[<<r, sa>>]
        IN  entry # Absent => entry.max = Limit(sa)
                              /\ Earned(sa, entry.state, entry.spent)

\* What an informer has of a quota and what is on its way: proper versions, in
\* which a verdict lasts, up to q, which is at the API server.
FeedOK(sa, f, q) ==
    /\ Len(f) > 0
    /\ \A i \in 1 .. Len(f) :
           /\ f[i] # Absent => QuotaOK(sa, f[i])
           /\ Exceeds(f[i]) => Exceeds(q)
           /\ \A j \in 1 .. Len(f) : i <= j /\ Exceeds(f[i]) => Exceeds(f[j])

FeedsOK ==
    \A r \in Replicas, sa \in Accounts : FeedOK(sa, feed[<<r, sa>>], quota[sa])

\* Who has been told denies, and has no older version than that left to read.
ToldOK ==
    \A r \in Replicas, sa \in Accounts :
        <<r, sa>> \in told => /\ Exceeds(Copy(r, sa))
                             /\ ledgers[<<r, sa>>] # Absent
                             /\ ledgers[<<r, sa>>].state \in Ledgers!Denying

ControlInv ==
    /\ TypeOK
    /\ QuotasOK
    /\ HeldOK
    /\ EntriesOK
    /\ FeedsOK
    /\ ToldOK
    /\ IsFiniteSet(Existing)

\* The requests of xs at r whose charges r's ledger still carries.
Intact(xs, r) == {n \in DOMAIN xs : xs[n].at = r /\ xs[n].intact}

\* What all requests of xs have handled so far comes to.
Done(xs, sa) == Weighed(Paid(sa), xs, DOMAIN xs)

Kept(xs, r, sa) == Weighed(Paid(sa), xs, Intact(xs, r))

\* A version of the quota shows no more than all requests have handled.
Backed(object, xs, sa) ==
    object # Absent /\ object.status.spent # Unset =>
        object.status.spent <= Done(xs, sa)

\* Span by span: an entry carries what intact requests have charged it with,
\* and neither it nor the status carries more than all requests have handled.
BooksOK ==
    /\ \A sa \in Accounts : Backed(quota[sa], exports, sa)
    /\ \A r \in Replicas, sa \in Accounts :
           LET entry == ledgers[<<r, sa>>]
           IN  entry # Absent => /\ Kept(exports, r, sa) <= entry.spent
                                 /\ entry.spent <= Done(exports, sa)
    /\ \A r \in Replicas, sa \in Accounts : \A n \in Intact(exports, r) :
           Bills(exports[n].batch, sa) => ledgers[<<r, sa>>] # Absent

\* Nor does any version that is still to be read.
FeedsBacked ==
    \A r \in Replicas, sa \in Accounts : \A i \in 1 .. Len(feed[<<r, sa>>]) :
        Backed(feed[<<r, sa>>][i], exports, sa)

SpendInv == BooksOK /\ FeedsBacked

IInv == ReceiverInv /\ ControlInv /\ SpendInv

-----------------------------------------------------------------------------
(* What Reconcile makes of entries and statuses.                           *)

\* The fields of a TokenQuota.
LEMMA QuotaFields ==
    ASSUME NEW t \in Ledgers!TokenQuota
    PROVE  /\ t = [spec |-> t.spec, status |-> t.status]
           /\ t.spec \in Ledgers!QuotaSpec
           /\ t.status = [state |-> t.status.state, spent |-> t.status.spent,
                          runs |-> t.status.runs, renewal |-> t.status.renewal,
                          updated |-> t.status.updated]
           /\ t.status.state \in Ledgers!QuotaStates \cup {Unset}
           /\ t.status.spent \in Nat \cup {Unset}
           /\ t.status.runs \in Nat
           /\ t.status.renewal \in Nat \cup {Unset}
           /\ t.status.updated \in Nat \cup {Unset}
BY DEF Ledgers!TokenQuota, Ledgers!QuotaStatus

\* A budget has a ceiling.
LEMMA LimitType ==
    ASSUME NEW sa \in Accounts
    PROVE  Limit(sa) \in Nat
<1>1. BudgetOf[sa] \in Ledgers!QuotaSpec
  BY BudgetsAssumption
<1>2. QED
  BY <1>1 DEF Limit, Ledgers!AsInt64, Ledgers!QuotaSpec, Ledgers!Budget

\* Sync leaves a proper entry that stands by the status and covers it.
LEMMA SyncedFields ==
    ASSUME NEW sa \in Accounts, NEW entry \in Ledgers!Entry \cup {Absent},
           NEW t \in Ledgers!TokenQuota, QuotaOK(sa, t),
           entry # Absent => Earned(sa, entry.state, entry.spent)
    PROVE  LET new == Ledgers!Synced(entry, t)
           IN  /\ new \in Ledgers!Entry
               /\ new # Absent
               /\ new.max = Limit(sa)
               /\ Earned(sa, new.state, new.spent)
               /\ Covers(new, t.status)
               /\ t.status.state # Unset => new.state = t.status.state
               /\ \/ t.status.spent # Unset /\ new.spent = t.status.spent
                  \/ entry # Absent /\ new.spent = entry.spent
                  \/ new.spent = 0
<1> DEFINE old == IF entry = Absent THEN Ledgers!NewEntry ELSE entry
           new == Ledgers!Synced(entry, t)
           status == t.status
           seen == status.state # Unset
           soft == IF t.spec.soft = 0 THEN 80 ELSE t.spec.soft
           spent == IF seen /\ status.spent # Unset THEN status.spent
                    ELSE old.spent
           runs == IF seen THEN status.runs ELSE old.runs
           state == IF seen THEN status.state ELSE old.state
           renewal == IF status.renewal # Unset THEN status.renewal
                      ELSE old.renewal
<1>1. /\ old \in Ledgers!Entry
      /\ Earned(sa, old.state, old.spent)
      /\ entry = Absent => old.spent = 0
      /\ entry # Absent => old = entry
  BY DEF Ledgers!NewEntry, Ledgers!Entry, Ledgers!QuotaStates,
         Ledgers!Denying, Earned
<1>2. /\ old.max \in Nat /\ old.soft \in 0 .. 99 /\ old.spent \in Nat
      /\ old.runs \in Nat /\ old.state \in Ledgers!QuotaStates
      /\ old.renewal \in Nat \cup {Unset}
  BY <1>1 DEF Ledgers!Entry
<1>3. new = [max |-> Limit(sa), soft |-> soft, spent |-> spent, runs |-> runs,
             state |-> state, renewal |-> renewal]
  BY DEF Ledgers!Synced, Limit, QuotaOK
<1>4. /\ status.state \in Ledgers!QuotaStates \cup {Unset}
      /\ status.spent \in Nat \cup {Unset}
      /\ status.runs \in Nat
      /\ status.renewal \in Nat \cup {Unset}
      /\ Earned(sa, status.state, status.spent)
      /\ ~seen => status.spent = Unset /\ status.runs = 0
  BY QuotaFields DEF QuotaOK
<1>5. soft \in 0 .. 99
  <2>1. t.spec.soft \in 0 .. 99
    BY DEF Ledgers!TokenQuota, Ledgers!QuotaSpec
  <2>2. QED
    BY <2>1
<1> HIDE DEF old, soft
<1>6. /\ spent \in Nat /\ runs \in Nat /\ state \in Ledgers!QuotaStates
      /\ renewal \in Nat \cup {Unset}
  BY <1>2, <1>4
<1>7. Earned(sa, state, spent)
  BY <1>1, <1>4, NothingAssumption DEF Earned
<1>8. /\ runs >= status.runs
      /\ status.spent # Unset => spent = status.spent /\ state = status.state
      /\ status.spent = Unset => spent = old.spent
      /\ seen => state = status.state
  BY <1>2, <1>4
<1> HIDE DEF spent, runs, state, renewal, seen
<1>9. new \in Ledgers!Entry
  BY <1>3, <1>5, <1>6, LimitType DEF Ledgers!Entry
<1>10. /\ new.max = Limit(sa) /\ new.spent = spent /\ new.runs = runs
       /\ new.state = state
  BY <1>3
<1> HIDE DEF new
<1>11. Covers(new, status)
  <2>1. status.state \in Ledgers!Denying => seen
    BY EntryAssumption DEF Ledgers!Denying, Ledgers!QuotaStates, seen
  <2>2. QED
    BY <1>4, <1>6, <1>8, <1>10, <2>1 DEF Covers
<1>12. \/ status.spent # Unset /\ spent = status.spent
       \/ entry # Absent /\ spent = entry.spent
       \/ spent = 0
  BY <1>1, <1>8
<1>13. QED
  BY <1>7, <1>8, <1>9, <1>10, <1>11, <1>12, EntryAssumption DEF new, seen

-----------------------------------------------------------------------------
(* The steps, and what they do to the receiver.                             *)

\* What a step of Reconcile has read is proper.
LEMMA HeldFields ==
    ASSUME ControlInv, NEW r \in Replicas, held[r] # Absent
    PROVE  LET sa    == held[r].sa
               entry == ledgers[<<r, sa>>]
           IN  /\ sa \in Accounts
               /\ <<r, sa>> \in Replicas \X Accounts
               /\ held[r].tq \in Ledgers!TokenQuota
               /\ held[r] = [sa |-> sa, tq |-> held[r].tq]
               /\ QuotaOK(sa, held[r].tq)
               /\ entry \in Ledgers!Entry
               /\ entry # Absent
               /\ Covers(entry, held[r].tq.status)
               /\ Earned(sa, entry.state, entry.spent)
<1>1. held[r] \in [sa : Accounts, tq : Ledgers!TokenQuota]
  BY DEF ControlInv, TypeOK
<1>2. /\ held[r].sa \in Accounts /\ held[r].tq \in Ledgers!TokenQuota
      /\ held[r] = [sa |-> held[r].sa, tq |-> held[r].tq]
      /\ <<r, held[r].sa>> \in Replicas \X Accounts
  BY <1>1
<1>3. LET entry == ledgers[<<r, held[r].sa>>]
      IN  /\ QuotaOK(held[r].sa, held[r].tq)
          /\ entry # Absent
          /\ Covers(entry, held[r].tq.status)
  BY DEF ControlInv, HeldOK
<1>4. ledgers[<<r, held[r].sa>>] \in Ledgers!Entry \cup {Absent}
  BY <1>2 DEF ControlInv, TypeOK, ReceiverTypeOK, Ledgers!LedgerTypeOK
<1>5. LET entry == ledgers[<<r, held[r].sa>>]
      IN  Earned(held[r].sa, entry.state, entry.spent)
  BY <1>2, <1>3 DEF ControlInv, EntriesOK
<1>6. QED
  BY <1>2, <1>3, <1>4, <1>5

\* What an informer has of a quota is proper.
LEMMA CopyFields ==
    ASSUME ControlInv, NEW r \in Replicas, NEW sa \in Accounts
    PROVE  /\ Copy(r, sa) = feed[<<r, sa>>][1]
           /\ 1 \in 1 .. Len(feed[<<r, sa>>])
           /\ Exceeds(Copy(r, sa)) => Exhausted(sa)
           /\ Copy(r, sa) # Absent => /\ Copy(r, sa) \in Ledgers!TokenQuota
                                      /\ QuotaOK(sa, Copy(r, sa))
<1> DEFINE f == feed[<<r, sa>>]
<1>1. /\ f \in Seq(Ledgers!TokenQuota \cup {Absent})
      /\ FeedOK(sa, f, quota[sa])
  BY DEF ControlInv, TypeOK, FeedsOK
<1> HIDE DEF f
<1>2. /\ Len(f) \in Nat /\ Len(f) > 0 /\ 1 \in 1 .. Len(f)
      /\ Head(f) = f[1] /\ f[1] \in Ledgers!TokenQuota \cup {Absent}
  BY <1>1 DEF FeedOK
<1>3. /\ f[1] # Absent => QuotaOK(sa, f[1])
      /\ Exceeds(f[1]) => Exceeds(quota[sa])
  BY <1>1, <1>2 DEF FeedOK
<1>4. QED
  BY <1>2, <1>3 DEF Copy, Exhausted, f

\* Sync changes one entry, and what it charged before is no more intact.
LEMMA SyncFacts ==
    ASSUME ControlInv, NEW r \in Replicas, NEW sa \in Accounts, SyncStep(r, sa)
    PROVE  LET key == <<r, sa>>
               old == ledgers[key]
               new == ledgers'[key]
               status == Copy(r, sa).status
           IN  /\ ledgers' = [ledgers EXCEPT ![key] = new]
               /\ new \in Ledgers!Entry
               /\ new # Absent
               /\ new.max = Limit(sa)
               /\ Earned(sa, new.state, new.spent)
               /\ Covers(new, status)
               /\ status.state # Unset => new.state = status.state
               /\ \/ status.spent # Unset /\ new.spent = status.spent
                  \/ old # Absent /\ new.spent = old.spent
                  \/ new.spent = 0
               /\ Copy(r, sa) \in Ledgers!TokenQuota
               /\ Copy(r, sa) # Absent
               /\ QuotaOK(sa, Copy(r, sa))
               /\ exports' \in Seq(Request)
               /\ DOMAIN exports' = DOMAIN exports
               /\ \A n \in DOMAIN exports :
                      /\ exports'[n].batch = exports[n].batch
                      /\ exports'[n].at = exports[n].at
                      /\ exports'[n].next = exports[n].next
                      /\ exports'[n].intact <=>
                             /\ exports[n].intact
                             /\ ~(/\ exports[n].at = r
                                  /\ Bills(exports[n].batch, sa))
<1> DEFINE key == <<r, sa>>
           new == Ledgers!Synced(ledgers[key], Copy(r, sa))
<1>1. /\ key \in Replicas \X Accounts
      /\ ledgers \in [Replicas \X Accounts -> Ledgers!Entry \cup {Absent}]
      /\ exports \in Seq(Request)
      /\ Copy(r, sa) # Absent
  BY DEF ControlInv, TypeOK, ReceiverTypeOK, Ledgers!LedgerTypeOK, SyncStep
<1>2. /\ Copy(r, sa) \in Ledgers!TokenQuota
      /\ QuotaOK(sa, Copy(r, sa))
      /\ ledgers[key] # Absent =>
             Earned(sa, ledgers[key].state, ledgers[key].spent)
  BY <1>1, CopyFields DEF ControlInv, EntriesOK
<1>3. ledgers' = [ledgers EXCEPT ![key] = new] /\ ledgers'[key] = new
  BY <1>1 DEF SyncStep
<1>4. LET status == Copy(r, sa).status
      IN  /\ new \in Ledgers!Entry
          /\ new # Absent
          /\ new.max = Limit(sa)
          /\ Earned(sa, new.state, new.spent)
          /\ Covers(new, status)
          /\ status.state # Unset => new.state = status.state
          /\ \/ status.spent # Unset /\ new.spent = status.spent
             \/ ledgers[key] # Absent /\ new.spent = ledgers[key].spent
             \/ new.spent = 0
  <2>1. ledgers[key] \in Ledgers!Entry \cup {Absent}
    BY <1>1
  <2>2. QED
    BY <1>1, <1>2, <2>1, SyncedFields
<1>5. exports' = [n \in DOMAIN exports |->
                      [exports[n] EXCEPT
                           !.intact = @ /\ ~(/\ exports[n].at = r
                                             /\ Bills(exports[n].batch, sa))]]
  BY DEF SyncStep
<1>6. \A n \in DOMAIN exports :
          /\ exports'[n] \in Request
          /\ exports'[n].batch = exports[n].batch
          /\ exports'[n].at = exports[n].at
          /\ exports'[n].next = exports[n].next
          /\ exports'[n].intact <=>
                 exports[n].intact /\ ~(/\ exports[n].at = r
                                        /\ Bills(exports[n].batch, sa))
  <2>1. \A n \in DOMAIN exports : exports[n] \in Request
    BY <1>1, RequestFields
  <2>2. QED
    BY <1>5, <2>1 DEF Request
<1>7. DOMAIN exports' = DOMAIN exports
  BY <1>5
<1>8. exports' \in Seq(Request)
  <2>1. exports' = [n \in DOMAIN exports |-> exports'[n]]
    BY <1>5
  <2>2. exports' \in [1 .. Len(exports) -> Request] /\ Len(exports) \in Nat
    BY <1>1, <1>6, <2>1, RequestFields
  <2>3. QED
    BY <2>2
<1> HIDE DEF new
<1>9. QED
  BY <1>1, <1>2, <1>3, <1>4, <1>6, <1>7, <1>8

\* Only batches are exported.
LEMMA Posted ==
    ASSUME ControlInv, NEW b \in Workload[elects]
    PROVE  b \in Batches
BY BoundsAssumption DEF ControlInv, TypeOK

\* Every step keeps what the receiver owes.
LEMMA ReceiverStep == IInv /\ [Next]_vars => ReceiverInv'
<1> SUFFICES ASSUME IInv, [Next]_vars
             PROVE  ReceiverInv'
  OBVIOUS
<1>1. /\ ReceiverInv
      /\ exports \in Seq(Request)
      /\ ledgers \in [Replicas \X Accounts -> Ledgers!Entry \cup {Absent}]
      /\ table \in [Replicas -> Tables]
      /\ acked \subseteq Batches
  BY DEF IInv, ReceiverInv, ReceiverTypeOK, Ledgers!LedgerTypeOK
<1>2. ASSUME UNCHANGED receiverVars
      PROVE  ReceiverInv'
  BY <1>1, <1>2, RequestsRest DEF receiverVars
<1>3. ASSUME NEW r \in Replicas, Elect(r)
      PROVE  ReceiverInv'
  BY <1>2, <1>3 DEF Elect
<1>4. ASSUME NEW r \in Replicas, Crash(r)
      PROVE  ReceiverInv'
  BY <1>1, <1>4, DieInv DEF Crash
<1>5. ASSUME NEW r \in Replicas, Start(r)
      PROVE  ReceiverInv'
  <2>1. table' \in [Replicas -> Tables]
        /\ UNCHANGED <<ledgers, stores, exports, acked>>
    BY <1>1, <1>5 DEF Start
  <2>2. QED
    BY <1>1, <2>1, RequestsRest
<1>6. ASSUME NEW sa \in Accounts, CreateQuota(sa)
      PROVE  ReceiverInv'
  BY <1>2, <1>6 DEF CreateQuota
<1>7. ASSUME NEW r \in Replicas, NEW sa \in Accounts, SyncStep(r, sa)
      PROVE  ReceiverInv'
  <2>1. UNCHANGED <<stores, table, acked>>
    BY <1>7 DEF SyncStep
  <2>2. /\ exports' \in Seq(Request)
        /\ DOMAIN exports' = DOMAIN exports
        /\ \A n \in DOMAIN exports : /\ exports'[n].batch = exports[n].batch
                                     /\ exports'[n].at = exports[n].at
                                     /\ exports'[n].next = exports[n].next
        /\ ledgers' = [ledgers EXCEPT ![<<r, sa>>] = ledgers'[<<r, sa>>]]
        /\ ledgers'[<<r, sa>>] \in Ledgers!Entry
    BY <1>7, SyncFacts DEF IInv
  <2>3. ledgers' \in [Replicas \X Accounts -> Ledgers!Entry \cup {Absent}]
    BY <1>1, <2>2
  <2>4. QED
    BY <1>1, <2>1, <2>2, <2>3, RequestsRest
<1>8. ASSUME NEW r \in Replicas, OpenStep(r) \/ ReportStep(r)
      PROVE  ReceiverInv'
  BY <1>2, <1>8 DEF OpenStep, ReportStep
<1>9. ASSUME NEW p \in AgentPods, NEW r \in Replicas,
             Admit(p, r) \/ AdmitUnreviewed(p, r)
      PROVE  ReceiverInv'
  BY <1>2, <1>9 DEF Admit, AdmitUnreviewed
<1>10. CASE Receive
  <2>1. ASSUME NEW b \in Workload[elects], NEW r \in Replicas, Export(b, r)
        PROVE  ReceiverInv'
    <3>1. b \in Batches
      BY <2>1, Posted DEF IInv
    <3>2. QED
      BY <1>1, <2>1, <3>1, ExportInv
  <2>2. ASSUME NEW n \in DOMAIN exports, HandleSpan(n)
        PROVE  ReceiverInv'
    BY <1>1, <2>2, HandleInv
  <2>3. ASSUME NEW n \in DOMAIN exports, Answer(n)
        PROVE  ReceiverInv'
    BY <1>1, <2>3, AnswerInv
  <2>4. QED
    BY <1>10, <2>1, <2>2, <2>3 DEF Receive
<1>11. CASE UNCHANGED vars
  BY <1>2, <1>11 DEF vars
<1>12. ASSUME NEW r \in Replicas, NEW sa \in Accounts, See(r, sa)
       PROVE  ReceiverInv'
  BY <1>2, <1>12 DEF See
<1>13. QED
  BY <1>3, <1>4, <1>5, <1>6, <1>7, <1>8, <1>9, <1>10, <1>11, <1>12 DEF Next

-----------------------------------------------------------------------------
(* The steps, and what informers have of the quotas.                       *)

\* What a step makes of what an informer has, p being at the API server then.
Follows(f, g, p) ==
    \/ g = f
    \/ g = <<p>>
    \/ g = Append(f, p)
    \/ Len(f) > 1 /\ g = Tail(f)

\* No step takes a version away from who has been told, but the next one.
FeedsFollow ==
    /\ feed' = [key \in Replicas \X Accounts |-> feed'[key]]
    /\ \A r \in Replicas, sa \in Accounts :
           \/ Follows(feed[<<r, sa>>], feed'[<<r, sa>>], quota'[sa])
           \/ feed'[<<r, sa>>] = <<Absent>> /\ <<r, sa>> \notin told'

\* What follows is as proper as what was there.
LEMMA FollowsKeeps ==
    ASSUME NEW sa \in Accounts,
           NEW f \in Seq(Ledgers!TokenQuota \cup {Absent}), NEW g,
           NEW q, NEW p \in Ledgers!TokenQuota \cup {Absent},
           FeedOK(sa, f, q), p # Absent => QuotaOK(sa, p),
           Exceeds(q) => Exceeds(p), Follows(f, g, p)
    PROVE  /\ g \in Seq(Ledgers!TokenQuota \cup {Absent})
           /\ FeedOK(sa, g, p)
           /\ Exceeds(Head(f)) => Exceeds(Head(g))
<1> DEFINE T == Ledgers!TokenQuota \cup {Absent}
<1>1. /\ f \in Seq(T) /\ p \in T /\ Len(f) \in Nat /\ Len(f) > 0
      /\ 1 \in 1 .. Len(f) /\ Head(f) = f[1]
      /\ \A i \in 1 .. Len(f) :
             /\ f[i] # Absent => QuotaOK(sa, f[i])
             /\ Exceeds(f[i]) => Exceeds(q)
             /\ \A j \in 1 .. Len(f) :
                    i <= j /\ Exceeds(f[i]) => Exceeds(f[j])
  BY DEF FeedOK
<1> HIDE DEF T
<1>2. CASE g = f
  BY <1>1, <1>2 DEF FeedOK, T
<1>3. CASE g = <<p>>
  <2>1. g \in Seq(T) /\ Len(g) = 1 /\ g[1] = p /\ Head(g) = p
    BY <1>1, <1>3
  <2>2. \A i \in 1 .. Len(g) : i = 1
    BY <2>1
  <2>3. FeedOK(sa, g, p)
    BY <2>1, <2>2 DEF FeedOK
  <2>4. QED
    BY <1>1, <2>1, <2>2, <2>3 DEF T
<1>4. CASE g = Append(f, p)
  <2>1. /\ g \in Seq(T) /\ Len(g) = Len(f) + 1 /\ g[Len(f) + 1] = p
        /\ \A i \in 1 .. Len(f) : g[i] = f[i]
        /\ Head(g) = g[1]
    BY <1>1, <1>4
  <2>2. \A i \in 1 .. Len(g) :
            \/ i \in 1 .. Len(f) /\ g[i] = f[i]
            \/ i = Len(f) + 1 /\ g[i] = p
    BY <1>1, <2>1
  <2>3. \A i \in 1 .. Len(g) :
            /\ g[i] # Absent => QuotaOK(sa, g[i])
            /\ Exceeds(g[i]) => Exceeds(p)
    BY <1>1, <2>2
  <2>4. ASSUME NEW i \in 1 .. Len(g), NEW j \in 1 .. Len(g),
               i <= j, Exceeds(g[i])
        PROVE  Exceeds(g[j])
    <3>1. CASE j = Len(f) + 1
      BY <2>1, <2>3, <2>4, <3>1
    <3>2. CASE j # Len(f) + 1
      <4>1. j \in 1 .. Len(f) /\ g[j] = f[j]
        BY <2>2, <3>2
      <4>2. i \in 1 .. Len(f) /\ g[i] = f[i]
        BY <1>1, <2>2, <2>4, <4>1
      <4>3. QED
        BY <1>1, <2>4, <4>1, <4>2
    <3>3. QED
      BY <3>1, <3>2
  <2>5. FeedOK(sa, g, p)
    BY <1>1, <2>1, <2>3, <2>4 DEF FeedOK
  <2>6. QED
    BY <1>1, <2>1, <2>2, <2>5 DEF T
<1>5. CASE Len(f) > 1 /\ g = Tail(f)
  <2>1. /\ g \in Seq(T) /\ Len(g) = Len(f) - 1 /\ Len(g) > 0
        /\ \A i \in 1 .. Len(g) : g[i] = f[i + 1]
        /\ Head(g) = g[1]
    BY <1>1, <1>5
  <2>2. \A i \in 1 .. Len(g) : i \in Int /\ i + 1 \in 1 .. Len(f)
    BY <1>1, <2>1
  <2>3. \A i \in 1 .. Len(g) :
            /\ g[i] # Absent => QuotaOK(sa, g[i])
            /\ Exceeds(g[i]) => Exceeds(p)
    BY <1>1, <2>1, <2>2
  <2>4. ASSUME NEW i \in 1 .. Len(g), NEW j \in 1 .. Len(g),
               i <= j, Exceeds(g[i])
        PROVE  Exceeds(g[j])
    <3>1. /\ g[i] = f[i + 1] /\ g[j] = f[j + 1] /\ i + 1 <= j + 1
          /\ i + 1 \in 1 .. Len(f) /\ j + 1 \in 1 .. Len(f)
      BY <2>1, <2>2, <2>4
    <3>2. QED
      BY <1>1, <2>4, <3>1
  <2>5. FeedOK(sa, g, p)
    BY <2>1, <2>3, <2>4 DEF FeedOK
  <2>6. Exceeds(Head(f)) => Exceeds(Head(g))
    <3>1. Head(g) = f[2] /\ 2 \in 1 .. Len(f)
      BY <1>1, <2>1, <2>2
    <3>2. QED
      BY <1>1, <3>1
  <2>7. QED
    BY <2>1, <2>2, <2>5, <2>6 DEF T
<1>6. QED
  BY <1>2, <1>3, <1>4, <1>5 DEF Follows

\* As long as no verdict is taken back, informers have proper versions, and who
\* has been told cannot read otherwise.
LEMMA FeedsKept ==
    ASSUME ControlInv, FeedsFollow,
           quota' \in [Accounts -> Ledgers!TokenQuota \cup {Absent}],
           \A sa \in Accounts :
               /\ quota'[sa] # Absent => QuotaOK(sa, quota'[sa])
               /\ Exceeds(quota[sa]) => Exceeds(quota'[sa])
    PROVE  /\ feed' \in [Replicas \X Accounts ->
                             Seq(Ledgers!TokenQuota \cup {Absent})]
           /\ FeedsOK'
           /\ \A r \in Replicas, sa \in Accounts :
                  <<r, sa>> \in told' /\ Exceeds(Copy(r, sa)) =>
                      Exceeds(Copy(r, sa)')
<1>1. ASSUME NEW r \in Replicas, NEW sa \in Accounts
      PROVE  LET g == feed'[<<r, sa>>]
             IN  /\ g \in Seq(Ledgers!TokenQuota \cup {Absent})
                 /\ FeedOK(sa, g, quota'[sa])
                 /\ <<r, sa>> \in told' /\ Exceeds(Copy(r, sa)) =>
                        Exceeds(Head(g))
  <2> DEFINE f == feed[<<r, sa>>]
             g == feed'[<<r, sa>>]
  <2>1. /\ f \in Seq(Ledgers!TokenQuota \cup {Absent})
        /\ FeedOK(sa, f, quota[sa])
        /\ quota'[sa] \in Ledgers!TokenQuota \cup {Absent}
    BY DEF ControlInv, TypeOK, FeedsOK
  <2>2. CASE Follows(f, g, quota'[sa])
    <3> HIDE DEF f, g
    <3>1. /\ g \in Seq(Ledgers!TokenQuota \cup {Absent})
          /\ FeedOK(sa, g, quota'[sa])
          /\ Exceeds(Head(f)) => Exceeds(Head(g))
      BY <2>1, <2>2, FollowsKeeps
    <3>2. Copy(r, sa) = Head(f)
      BY DEF Copy, f
    <3>3. QED
      BY <3>1, <3>2 DEF g
  <2>3. CASE g = <<Absent>> /\ <<r, sa>> \notin told'
    <3>1. /\ g \in Seq(Ledgers!TokenQuota \cup {Absent})
          /\ Len(g) = 1 /\ g[1] = Absent
      BY <2>3
    <3>2. FeedOK(sa, g, quota'[sa])
      <4> HIDE DEF g
      <4>1. \A i \in 1 .. Len(g) : g[i] = Absent
        BY <3>1
      <4>2. QED
        BY <3>1, <4>1 DEF FeedOK, Exceeds
    <3>3. QED
      BY <2>3, <3>1, <3>2
  <2>4. QED
    BY <2>2, <2>3 DEF FeedsFollow
<1>2. feed' \in [Replicas \X Accounts ->
                     Seq(Ledgers!TokenQuota \cup {Absent})]
  <2>1. feed' = [key \in Replicas \X Accounts |-> feed'[key]]
    BY DEF FeedsFollow
  <2>2. \A key \in Replicas \X Accounts :
            feed'[key] \in Seq(Ledgers!TokenQuota \cup {Absent})
    BY <1>1
  <2>3. QED
    BY <2>1, <2>2
<1>3. FeedsOK'
  BY <1>1 DEF FeedsOK
<1>4. QED
  BY <1>1, <1>2, <1>3 DEF Copy

\* A write at the API server, and the watches that deliver it.
LEMMA StoreFacts ==
    ASSUME ControlInv, NEW sa \in Accounts, NEW object, Store(sa, object)
    PROVE  /\ quota' = [quota EXCEPT ![sa] = object]
           /\ FeedsFollow
<1>1. /\ quota \in [Accounts -> Ledgers!TokenQuota \cup {Absent}]
      /\ feed \in [Replicas \X Accounts ->
                       Seq(Ledgers!TokenQuota \cup {Absent})]
  BY DEF ControlInv, TypeOK
<1>2. CASE object = quota[sa]
  <2>1. quota' = quota /\ feed' = feed
    BY <1>2 DEF Store, quotaVars
  <2>2. QED
    BY <1>1, <1>2, <2>1 DEF FeedsFollow, Follows
<1>3. CASE object # quota[sa]
  <2>1. /\ quota' = [quota EXCEPT ![sa] = object]
        /\ feed' = [key \in Replicas \X Accounts |->
                        IF key[2] = sa /\ Leads(key[1])
                        THEN Append(feed[key], object) ELSE feed[key]]
    BY <1>1, <1>3 DEF Store
  <2>2. ASSUME NEW r \in Replicas, NEW sb \in Accounts
        PROVE  Follows(feed[<<r, sb>>], feed'[<<r, sb>>], quota'[sb])
    <3>1. feed'[<<r, sb>>] = IF sb = sa /\ Leads(r)
                             THEN Append(feed[<<r, sb>>], object)
                             ELSE feed[<<r, sb>>]
      BY <2>1
    <3>2. sb = sa => quota'[sb] = object
      BY <1>1, <2>1
    <3>3. QED
      BY <3>1, <3>2 DEF Follows
  <2>3. QED
    BY <2>1, <2>2 DEF FeedsFollow
<1>4. QED
  BY <1>2, <1>3

\* An informer that lists has the quotas as they are.
LEMMA ListFacts ==
    ASSUME ControlInv, NEW r \in Replicas, List(r) \/ UNCHANGED feed,
           UNCHANGED quota
    PROVE  FeedsFollow
<1>1. feed \in [Replicas \X Accounts ->
                    Seq(Ledgers!TokenQuota \cup {Absent})]
  BY DEF ControlInv, TypeOK
<1>2. /\ feed' = [key \in Replicas \X Accounts |-> feed'[key]]
      /\ \A q \in Replicas, sa \in Accounts :
             \/ feed'[<<q, sa>>] = feed[<<q, sa>>]
             \/ feed'[<<q, sa>>] = <<quota[sa]>>
  BY <1>1 DEF List
<1>3. QED
  BY <1>2 DEF FeedsFollow, Follows

\* Every step does to the informers what FeedsFollow says.
LEMMA StepFeeds ==
    ASSUME ControlInv, [Next]_vars
    PROVE  FeedsFollow
<1>1. feed \in [Replicas \X Accounts ->
                    Seq(Ledgers!TokenQuota \cup {Absent})]
  BY DEF ControlInv, TypeOK
<1>2. ASSUME UNCHANGED feed
      PROVE  FeedsFollow
  BY <1>1, <1>2 DEF FeedsFollow, Follows
<1>3. ASSUME NEW r \in Replicas, Elect(r) \/ Start(r)
      PROVE  FeedsFollow
  <2>1. (List(r) \/ UNCHANGED feed) /\ UNCHANGED quota
    BY <1>3 DEF Elect, Start
  <2>2. QED
    BY <2>1, ListFacts
<1>4. ASSUME NEW r \in Replicas, Crash(r)
      PROVE  FeedsFollow
  <2>1. /\ feed' = [key \in Replicas \X Accounts |->
                        IF key[1] = r THEN <<Absent>> ELSE feed[key]]
        /\ told' = {key \in told : key[1] # r}
    BY <1>1, <1>4 DEF Crash
  <2>2. ASSUME NEW q \in Replicas, NEW sa \in Accounts
        PROVE  \/ feed'[<<q, sa>>] = feed[<<q, sa>>]
               \/ feed'[<<q, sa>>] = <<Absent>> /\ <<q, sa>> \notin told'
    BY <2>1
  <2>3. QED
    BY <2>1, <2>2 DEF FeedsFollow, Follows
<1>5. ASSUME NEW r \in Replicas, NEW sa \in Accounts, See(r, sa)
      PROVE  FeedsFollow
  <2>1. /\ Len(feed[<<r, sa>>]) > 1
        /\ feed' = [feed EXCEPT ![<<r, sa>>] = Tail(@)]
    BY <1>5 DEF See
  <2>2. /\ feed' = [key \in Replicas \X Accounts |-> feed'[key]]
        /\ \A q \in Replicas, sb \in Accounts :
               \/ feed'[<<q, sb>>] = feed[<<q, sb>>]
               \/ /\ Len(feed[<<q, sb>>]) > 1
                  /\ feed'[<<q, sb>>] = Tail(feed[<<q, sb>>])
    BY <1>1, <2>1
  <2>3. QED
    BY <2>2 DEF FeedsFollow, Follows
<1>6. ASSUME NEW sa \in Accounts, CreateQuota(sa)
      PROVE  FeedsFollow
  BY <1>6, StoreFacts DEF CreateQuota
<1>7. ASSUME NEW r \in Replicas, OpenStep(r) \/ ReportStep(r)
      PROVE  FeedsFollow
  <2>1. held[r] # Absent
    BY <1>7 DEF OpenStep, ReportStep
  <2>2. held[r].sa \in Accounts
    BY <2>1, HeldFields
  <2>3. \/ Store(held[r].sa, Opened(held[r].tq))
        \/ Store(held[r].sa,
                 Reported(held[r].tq, ledgers[<<r, held[r].sa>>]))
        \/ UNCHANGED feed
    BY <1>7 DEF OpenStep, ReportStep, quotaVars
  <2>4. QED
    BY <1>2, <2>2, <2>3, StoreFacts
<1>8. ASSUME NEW r \in Replicas, NEW sa \in Accounts, SyncStep(r, sa)
      PROVE  FeedsFollow
  BY <1>2, <1>8 DEF SyncStep, quotaVars
<1>9. ASSUME NEW p \in AgentPods, NEW r \in Replicas,
             Admit(p, r) \/ AdmitUnreviewed(p, r)
      PROVE  FeedsFollow
  BY <1>2, <1>9 DEF Admit, AdmitUnreviewed, quotaVars
<1>10. CASE Receive \/ UNCHANGED vars
  BY <1>2, <1>10 DEF Receive, vars, quotaVars
<1>11. QED
  BY <1>3, <1>4, <1>5, <1>6, <1>7, <1>8, <1>9, <1>10 DEF Next

-----------------------------------------------------------------------------
(* The steps, and the quotas, what is read of them, and the entries.        *)

\* What a step may change in the ledgers without anybody who has read a quota
\* noticing: charges.
Grows(old, new) ==
    \/ new = old
    \/ /\ old \in Ledgers!Entry
       /\ new \in Ledgers!Entry
       /\ new # Absent
       /\ new.max = old.max
       /\ new.spent >= old.spent
       /\ new.runs > old.runs
       /\ new.state # "Suspended"
       /\ new.state = "Exceeded" <=> old.max > 0 /\ new.spent >= old.max

\* A charge keeps what holds of an entry.
LEMMA GrowsKeeps ==
    ASSUME NEW sa \in Accounts, NEW old \in Ledgers!Entry, NEW new,
           Grows(old, new), old.max = Limit(sa),
           Earned(sa, old.state, old.spent)
    PROVE  /\ new \in Ledgers!Entry
           /\ old # Absent => new # Absent
           /\ new.max = Limit(sa)
           /\ Earned(sa, new.state, new.spent)
           /\ old.state \in Ledgers!Denying => new.state \in Ledgers!Denying
           /\ \A status : status.spent \in Nat \cup {Unset}
                          /\ status.runs \in Nat /\ Covers(old, status) =>
                              Covers(new, status)
<1>1. /\ old.max \in Nat /\ old.spent \in Nat /\ old.runs \in Nat
      /\ Limit(sa) \in Nat
  BY LimitType DEF Ledgers!Entry
<1>2. CASE new = old
  BY <1>2
<1>3. CASE new # old
  <2>1. /\ new \in Ledgers!Entry /\ new # Absent /\ new.max = Limit(sa)
        /\ new.spent >= old.spent /\ new.runs > old.runs
        /\ new.state # "Suspended"
        /\ new.state = "Exceeded" <=> Limit(sa) > 0 /\ new.spent >= Limit(sa)
    BY <1>3 DEF Grows
  <2>2. new.spent \in Nat /\ new.runs \in Nat
    BY <2>1 DEF Ledgers!Entry
  <2>3. Earned(sa, new.state, new.spent)
    BY <2>1, <2>2 DEF Earned
  <2>4. ASSUME old.state \in Ledgers!Denying
        PROVE  new.state \in Ledgers!Denying
    <3>1. old.state = "Exceeded" /\ Limit(sa) > 0 /\ old.spent >= Limit(sa)
      BY <2>4 DEF Ledgers!Denying, Earned
    <3>2. new.spent >= Limit(sa)
      BY <1>1, <2>1, <2>2, <3>1
    <3>3. QED
      BY <2>1, <3>1, <3>2 DEF Ledgers!Denying
  <2>5. ASSUME NEW status, status.spent \in Nat \cup {Unset},
               status.runs \in Nat, Covers(old, status)
        PROVE  Covers(new, status)
    BY <1>1, <2>1, <2>2, <2>4, <2>5 DEF Covers
  <2>6. QED
    BY <2>1, <2>3, <2>4, <2>5
<1>4. QED
  BY <1>2, <1>3

\* Steps that leave quotas and readers alone, and at most charge entries.
LEMMA ControlKept ==
    ASSUME ControlInv, ReceiverTypeOK', FeedsFollow,
           elects' = elects, up' \subseteq Replicas, up \subseteq up',
           \/ leader' = leader
           \/ leader = Absent /\ leader' \in up',
           quota' = quota, held' = held, told' = told,
           running' \subseteq AgentPods, crashes' = crashes,
           \A r \in Replicas, sa \in Accounts :
               IF ledgers[<<r, sa>>] = Absent
               THEN ledgers'[<<r, sa>>] = Absent
               ELSE Grows(ledgers[<<r, sa>>], ledgers'[<<r, sa>>])
    PROVE  ControlInv'
<1>1. /\ feed' \in [Replicas \X Accounts ->
                       Seq(Ledgers!TokenQuota \cup {Absent})]
      /\ FeedsOK'
      /\ \A r \in Replicas, sa \in Accounts :
             <<r, sa>> \in told' /\ Exceeds(Copy(r, sa)) =>
                 Exceeds(Copy(r, sa)')
  <2>1. /\ quota' \in [Accounts -> Ledgers!TokenQuota \cup {Absent}]
        /\ \A sa \in Accounts : quota'[sa] # Absent => QuotaOK(sa, quota'[sa])
    BY DEF ControlInv, TypeOK, QuotasOK
  <2>2. QED
    BY <2>1, FeedsKept
<1>2. TypeOK' /\ QuotasOK' /\ IsFiniteSet(Existing')
  BY <1>1 DEF ControlInv, TypeOK, QuotasOK, Existing
<1>3. ASSUME NEW r \in Replicas, NEW sa \in Accounts, ledgers[<<r, sa>>] # Absent
      PROVE  LET old == ledgers[<<r, sa>>]
                 new == ledgers'[<<r, sa>>]
             IN  /\ old \in Ledgers!Entry
                 /\ Grows(old, new)
                 /\ old.max = Limit(sa)
                 /\ Earned(sa, old.state, old.spent)
  <2>1. <<r, sa>> \in Replicas \X Accounts
    OBVIOUS
  <2>2. ledgers[<<r, sa>>] \in Ledgers!Entry
    BY <1>3, <2>1 DEF ControlInv, TypeOK, ReceiverTypeOK, Ledgers!LedgerTypeOK
  <2>3. QED
    BY <1>3, <2>2 DEF ControlInv, EntriesOK
<1>4. ASSUME NEW r \in Replicas, NEW sa \in Accounts, ledgers[<<r, sa>>] # Absent
      PROVE  LET old == ledgers[<<r, sa>>]
                 new == ledgers'[<<r, sa>>]
             IN  /\ new # Absent
                 /\ new.max = Limit(sa)
                 /\ Earned(sa, new.state, new.spent)
                 /\ old.state \in Ledgers!Denying =>
                        new.state \in Ledgers!Denying
                 /\ \A status : status.spent \in Nat \cup {Unset}
                                /\ status.runs \in Nat /\ Covers(old, status) =>
                                    Covers(new, status)
  BY <1>3, <1>4, GrowsKeeps
<1>5. HeldOK'
  <2> SUFFICES ASSUME NEW r \in Replicas, held[r] # Absent
               PROVE  LET entry == ledgers'[<<r, held[r].sa>>]
                      IN  /\ QuotaOK(held[r].sa, held[r].tq)
                          /\ entry # Absent
                          /\ Covers(entry, held[r].tq.status)
    BY DEF HeldOK
  <2>1. /\ held[r].sa \in Accounts
        /\ held[r].tq \in Ledgers!TokenQuota
        /\ QuotaOK(held[r].sa, held[r].tq)
        /\ ledgers[<<r, held[r].sa>>] # Absent
        /\ Covers(ledgers[<<r, held[r].sa>>], held[r].tq.status)
    BY HeldFields
  <2>2. /\ held[r].tq.status.spent \in Nat \cup {Unset}
        /\ held[r].tq.status.runs \in Nat
    BY <2>1, QuotaFields
  <2>3. QED
    BY <1>4, <2>1, <2>2
<1>6. EntriesOK'
  BY <1>4 DEF EntriesOK
<1>7. ToldOK'
  BY <1>1, <1>4 DEF ControlInv, ToldOK
<1>8. QED
  BY <1>1, <1>2, <1>5, <1>6, <1>7 DEF ControlInv

\* A charge only adds to an account.
LEMMA ChargedGrows ==
    ASSUME NEW old \in Ledgers!Entry, NEW cost \in Nat
    PROVE  Grows(old, Ledgers!Charged(old, cost))
<1> DEFINE new == Ledgers!Charged(old, cost)
<1>1. /\ new \in Ledgers!Entry /\ new # Absent
      /\ new.max = old.max /\ new.spent = old.spent + cost
      /\ new.runs = old.runs + 1 /\ new.state # "Suspended"
      /\ new.state = "Exceeded" <=>
             old.max > 0 /\ old.spent + cost >= old.max
  BY ChargedFields
<1>2. old.spent \in Nat /\ old.runs \in Nat
  BY DEF Ledgers!Entry
<1> HIDE DEF new
<1>3. new.spent >= old.spent /\ new.runs > old.runs
  BY <1>1, <1>2
<1>4. Grows(old, new)
  BY <1>1, <1>3 DEF Grows
<1>5. QED
  BY <1>4 DEF new

\* The entries of the others stay as they are when one handles a span.
LEMMA HandleGrows ==
    ASSUME ControlInv, NEW n \in DOMAIN exports, HandleSpan(n),
           NEW r \in Replicas, NEW sa \in Accounts
    PROVE  IF ledgers[<<r, sa>>] = Absent
           THEN ledgers'[<<r, sa>>] = Absent
           ELSE Grows(ledgers[<<r, sa>>], ledgers'[<<r, sa>>])
<1> DEFINE x    == exports[n]
           span == SpansOf[x.batch][x.next]
           key  == <<x.at, span.sa>>
           cost == Costs(x.batch)[x.next]
<1>1. /\ ReceiverTypeOK
      /\ ledgers \in [Replicas \X Accounts -> Ledgers!Entry \cup {Absent}]
  BY DEF ControlInv, TypeOK, ReceiverTypeOK, Ledgers!LedgerTypeOK
<1>2. /\ cost \in Nat
      /\ ~Billable(span) => ledgers' = ledgers
      /\ Billable(span) =>
             /\ key \in Replicas \X Accounts
             /\ ledgers[key] = Absent => ledgers' = ledgers
             /\ ledgers[key] # Absent =>
                    ledgers' = [ledgers EXCEPT ![key] = Ledgers!Charged(@, cost)]
  BY <1>1, HandleFacts
<1>3. CASE ledgers' = ledgers
  BY <1>3 DEF Grows
<1>4. CASE ledgers' # ledgers
  <2>1. /\ key \in Replicas \X Accounts /\ ledgers[key] # Absent
        /\ ledgers' = [ledgers EXCEPT ![key] = Ledgers!Charged(@, cost)]
        /\ ledgers[key] \in Ledgers!Entry
    BY <1>1, <1>2, <1>4
  <2>2. cost \in Nat
    BY <1>2
  <2> HIDE DEF cost, key
  <2>3. Grows(ledgers[key], Ledgers!Charged(ledgers[key], cost))
    BY <2>1, <2>2, ChargedGrows
  <2>4. CASE <<r, sa>> = key
    BY <1>1, <2>1, <2>3, <2>4
  <2>5. CASE <<r, sa>> # key
    BY <1>1, <2>1, <2>5 DEF Grows
  <2>6. QED
    BY <2>4, <2>5
<1>5. QED
  BY <1>3, <1>4

\* A process that dies takes its entries and its Reconcile along.
LEMMA CrashControl ==
    ASSUME ControlInv, ReceiverTypeOK', FeedsFollow, NEW r \in Replicas, Crash(r)
    PROVE  ControlInv'
<1>1. /\ up' = up \ {r}
      /\ leader' = IF leader = r THEN Absent ELSE leader
      /\ held' = [held EXCEPT ![r] = Absent]
      /\ told' = {key \in told : key[1] # r}
      /\ crashes' = crashes + 1
      /\ UNCHANGED <<elects, quota, running>>
      /\ held \in [Replicas ->
                       [sa : Accounts, tq : Ledgers!TokenQuota] \cup {Absent}]
  BY DEF Crash, ControlInv, TypeOK
<1>2. \A q \in Replicas, sa \in Accounts :
          ledgers'[<<q, sa>>] = IF q = r THEN Absent ELSE ledgers[<<q, sa>>]
  BY DEF Crash, Die, ControlInv, TypeOK, ReceiverTypeOK, Ledgers!LedgerTypeOK
<1>3. /\ feed' \in [Replicas \X Accounts ->
                       Seq(Ledgers!TokenQuota \cup {Absent})]
      /\ FeedsOK'
      /\ \A q \in Replicas, sa \in Accounts :
             <<q, sa>> \in told' /\ Exceeds(Copy(q, sa)) =>
                 Exceeds(Copy(q, sa)')
  <2>1. /\ quota' = quota
        /\ quota' \in [Accounts -> Ledgers!TokenQuota \cup {Absent}]
        /\ \A sa \in Accounts : quota'[sa] # Absent => QuotaOK(sa, quota'[sa])
    BY <1>1 DEF ControlInv, TypeOK, QuotasOK
  <2>2. QED
    BY <2>1, FeedsKept
<1>4. TypeOK' /\ QuotasOK' /\ IsFiniteSet(Existing')
  <2>1. told' \subseteq Replicas \X Accounts
    BY <1>1 DEF ControlInv, TypeOK
  <2>2. held' \in [Replicas ->
                     [sa : Accounts, tq : Ledgers!TokenQuota] \cup {Absent}]
    BY <1>1
  <2>3. TypeOK'
    BY <1>1, <1>3, <2>1, <2>2 DEF ControlInv, TypeOK
  <2>4. QED
    BY <1>1, <2>3 DEF ControlInv, QuotasOK, Existing
<1>5. HeldOK'
  <2> SUFFICES ASSUME NEW q \in Replicas, held'[q] # Absent
               PROVE  LET entry == ledgers'[<<q, held'[q].sa>>]
                      IN  /\ QuotaOK(held'[q].sa, held'[q].tq)
                          /\ entry # Absent
                          /\ Covers(entry, held'[q].tq.status)
    BY DEF HeldOK
  <2>1. q # r /\ held'[q] = held[q]
    BY <1>1
  <2>2. /\ held[q].sa \in Accounts
        /\ QuotaOK(held[q].sa, held[q].tq)
        /\ ledgers[<<q, held[q].sa>>] # Absent
        /\ Covers(ledgers[<<q, held[q].sa>>], held[q].tq.status)
    BY <2>1, HeldFields
  <2>3. ledgers'[<<q, held[q].sa>>] = ledgers[<<q, held[q].sa>>]
    BY <1>2, <2>1, <2>2
  <2>4. QED
    BY <2>1, <2>2, <2>3
<1>6. EntriesOK'
  BY <1>2 DEF ControlInv, EntriesOK
<1>7. ToldOK'
  <2> SUFFICES ASSUME NEW q \in Replicas, NEW sa \in Accounts,
                      <<q, sa>> \in told'
               PROVE  /\ Exceeds(Copy(q, sa)')
                      /\ ledgers'[<<q, sa>>] # Absent
                      /\ ledgers'[<<q, sa>>].state \in Ledgers!Denying
    BY DEF ToldOK
  <2>1. q # r /\ <<q, sa>> \in told
    BY <1>1
  <2>2. QED
    BY <1>2, <1>3, <2>1 DEF ControlInv, ToldOK
<1>8. QED
  BY <1>3, <1>4, <1>5, <1>6, <1>7 DEF ControlInv

\* A new quota has no verdict.
LEMMA CreateControl ==
    ASSUME ControlInv, ReceiverTypeOK', NEW sa \in Accounts, CreateQuota(sa)
    PROVE  /\ ControlInv'
           /\ Existing' = Existing \cup {sa} /\ sa \notin Existing
<1> DEFINE blank == [state |-> Unset, spent |-> Unset, runs |-> 0,
                     renewal |-> Unset, updated |-> Unset]
           new == [spec |-> BudgetOf[sa], status |-> blank]
<1>1. /\ quota' = [quota EXCEPT ![sa] = new] /\ FeedsFollow
      /\ UNCHANGED <<ledgers, elects, up, leader, held, told, running, crashes>>
      /\ quota \in [Accounts -> Ledgers!TokenQuota \cup {Absent}]
      /\ quota[sa] = Absent
  <2>1. Store(sa, new) /\ quota[sa] = Absent
        /\ UNCHANGED <<receiverVars, controlVars, held, told>>
    BY DEF CreateQuota, NewQuota
  <2> HIDE DEF new
  <2>2. QED
    BY <2>1, StoreFacts DEF receiverVars, controlVars, ControlInv, TypeOK
<1>2. new \in Ledgers!TokenQuota /\ new # Absent
  <2>1. BudgetOf[sa] \in Ledgers!QuotaSpec
    BY BudgetsAssumption
  <2>2. blank \in Ledgers!QuotaStatus
    BY DEF Ledgers!QuotaStatus
  <2>3. QED
    BY <2>1, <2>2, BudgetsAssumption DEF Ledgers!TokenQuota
<1>3. QuotaOK(sa, new)
  BY EntryAssumption DEF QuotaOK, Earned, Ledgers!QuotaStates, Ledgers!Denying
<1> HIDE DEF new
<1>4. /\ quota' \in [Accounts -> Ledgers!TokenQuota \cup {Absent}]
      /\ QuotasOK'
  BY <1>1, <1>2, <1>3 DEF ControlInv, QuotasOK
<1>5. /\ feed' \in [Replicas \X Accounts ->
                       Seq(Ledgers!TokenQuota \cup {Absent})]
      /\ FeedsOK'
      /\ \A r \in Replicas, sb \in Accounts :
             <<r, sb>> \in told' /\ Exceeds(Copy(r, sb)) =>
                 Exceeds(Copy(r, sb)')
  <2>1. \A sb \in Accounts :
            /\ quota'[sb] # Absent => QuotaOK(sb, quota'[sb])
            /\ Exceeds(quota[sb]) => Exceeds(quota'[sb])
    BY <1>1, <1>4 DEF QuotasOK, Exceeds
  <2>2. QED
    BY <1>1, <1>4, <2>1, FeedsKept
<1>6. TypeOK' /\ HeldOK' /\ EntriesOK'
  BY <1>1, <1>4, <1>5 DEF ControlInv, TypeOK, HeldOK, EntriesOK
<1>7. ToldOK'
  BY <1>1, <1>5 DEF ControlInv, ToldOK
<1>8. Existing' = Existing \cup {sa} /\ sa \notin Existing
  BY <1>1, <1>2 DEF Existing
<1>9. IsFiniteSet(Existing')
  BY <1>8, FS_AddElement DEF ControlInv
<1>10. QED
  BY <1>4, <1>5, <1>6, <1>7, <1>8, <1>9 DEF ControlInv

\* A quota that is read leaves an entry that stands by its verdict.
LEMMA SyncControl ==
    ASSUME ControlInv, ReceiverTypeOK', FeedsFollow,
           NEW r \in Replicas, NEW sa \in Accounts, SyncStep(r, sa)
    PROVE  ControlInv'
<1> DEFINE key == <<r, sa>>
           new == ledgers'[key]
<1>1. /\ ledgers \in [Replicas \X Accounts -> Ledgers!Entry \cup {Absent}]
      /\ held \in [Replicas ->
                       [sa : Accounts, tq : Ledgers!TokenQuota] \cup {Absent}]
  BY DEF ControlInv, TypeOK, ReceiverTypeOK, Ledgers!LedgerTypeOK
<1>2. /\ ledgers' = [ledgers EXCEPT ![key] = new]
      /\ new # Absent
      /\ new.max = Limit(sa)
      /\ Earned(sa, new.state, new.spent)
      /\ Covers(new, Copy(r, sa).status)
      /\ Copy(r, sa) \in Ledgers!TokenQuota
      /\ QuotaOK(sa, Copy(r, sa))
  BY SyncFacts
<1>3. /\ held' = [held EXCEPT ![r] = [sa |-> sa, tq |-> Copy(r, sa)]]
      /\ told' = IF Exceeds(Copy(r, sa)) THEN told \cup {key} ELSE told
      /\ UNCHANGED <<elects, up, leader, quota, feed, running, crashes>>
  BY DEF SyncStep, controlVars, quotaVars
<1> HIDE DEF new
<1>4. \A q \in Replicas, sb \in Accounts :
          /\ <<q, sb>> = key => ledgers'[<<q, sb>>] = new
          /\ <<q, sb>> # key => ledgers'[<<q, sb>>] = ledgers[<<q, sb>>]
  BY <1>1, <1>2
<1>5. TypeOK'
  <2>1. [sa |-> sa, tq |-> Copy(r, sa)] \in [sa : Accounts, tq : Ledgers!TokenQuota]
    BY <1>2
  <2>2. held' \in [Replicas ->
                       [sa : Accounts, tq : Ledgers!TokenQuota] \cup {Absent}]
    BY <1>1, <1>3, <2>1
  <2>3. told' \subseteq Replicas \X Accounts
    BY <1>3 DEF ControlInv, TypeOK
  <2>4. QED
    BY <1>3, <2>2, <2>3 DEF ControlInv, TypeOK
<1>6. QuotasOK' /\ FeedsOK' /\ IsFiniteSet(Existing')
  BY <1>3 DEF ControlInv, QuotasOK, FeedsOK, Existing
<1>7. HeldOK'
  <2> SUFFICES ASSUME NEW q \in Replicas, held'[q] # Absent
               PROVE  LET entry == ledgers'[<<q, held'[q].sa>>]
                      IN  /\ QuotaOK(held'[q].sa, held'[q].tq)
                          /\ entry # Absent
                          /\ Covers(entry, held'[q].tq.status)
    BY DEF HeldOK
  <2>1. CASE q = r
    <3>1. held'[q].sa = sa /\ held'[q].tq = Copy(r, sa)
      BY <1>1, <1>3, <2>1
    <3>2. QED
      BY <1>2, <1>4, <2>1, <3>1
  <2>2. CASE q # r
    <3>1. held'[q] = held[q]
      BY <1>3, <2>2
    <3>2. /\ held[q].sa \in Accounts
          /\ QuotaOK(held[q].sa, held[q].tq)
          /\ ledgers[<<q, held[q].sa>>] # Absent
          /\ Covers(ledgers[<<q, held[q].sa>>], held[q].tq.status)
      BY <3>1, HeldFields
    <3>3. ledgers'[<<q, held[q].sa>>] = ledgers[<<q, held[q].sa>>]
      BY <1>4, <2>2, <3>2
    <3>4. QED
      BY <3>1, <3>2, <3>3
  <2>3. QED
    BY <2>1, <2>2
<1>8. EntriesOK'
  <2> SUFFICES ASSUME NEW q \in Replicas, NEW sb \in Accounts,
                      ledgers'[<<q, sb>>] # Absent
               PROVE  LET entry == ledgers'[<<q, sb>>]
                      IN  /\ entry.max = Limit(sb)
                          /\ Earned(sb, entry.state, entry.spent)
    BY DEF EntriesOK
  <2>1. CASE <<q, sb>> = key
    BY <1>2, <1>4, <2>1
  <2>2. CASE <<q, sb>> # key
    BY <1>4, <2>2 DEF ControlInv, EntriesOK
  <2>3. QED
    BY <2>1, <2>2
<1>9. ToldOK'
  <2> SUFFICES ASSUME NEW q \in Replicas, NEW sb \in Accounts,
                      <<q, sb>> \in told'
               PROVE  /\ Exceeds(Copy(q, sb)')
                      /\ ledgers'[<<q, sb>>] # Absent
                      /\ ledgers'[<<q, sb>>].state \in Ledgers!Denying
    BY DEF ToldOK
  <2>1. Copy(q, sb)' = Copy(q, sb)
    BY <1>3 DEF Copy
  <2>2. CASE <<q, sb>> = key
    <3>1. Exceeds(Copy(r, sa))
      BY <1>3, <2>2 DEF ControlInv, ToldOK
    <3>2. new.state \in Ledgers!Denying
      BY <1>2, <3>1 DEF Covers, Exceeds
    <3>3. QED
      BY <1>2, <1>4, <2>1, <2>2, <3>1, <3>2
  <2>3. CASE <<q, sb>> # key
    <3>1. <<q, sb>> \in told
      BY <1>3, <2>3
    <3>2. QED
      BY <1>4, <2>1, <2>3, <3>1 DEF ControlInv, ToldOK
  <2>4. QED
    BY <2>2, <2>3
<1>10. QED
  BY <1>5, <1>6, <1>7, <1>8, <1>9 DEF ControlInv

\* OpenStep gives a quota that is as it was read its first period.
LEMMA OpenFields ==
    ASSUME ControlInv, NEW r \in Replicas, OpenStep(r), Current(r)
    PROVE  LET sa  == held[r].sa
               old == held[r].tq
               new == quota'[sa]
           IN  /\ quota' = [quota EXCEPT ![sa] = new]
               /\ held' = [held EXCEPT ![r] = [sa |-> sa, tq |-> new]]
               /\ new \in Ledgers!TokenQuota
               /\ new.spec = old.spec
               /\ new = [spec |-> old.spec, status |-> new.status]
               /\ new.status.state = "Active"
               /\ new.status.renewal = 1
               /\ new.status.spent = old.status.spent
               /\ new.status.runs = old.status.runs
<1> DEFINE sa     == held[r].sa
           old    == held[r].tq
           status == [old.status EXCEPT !.renewal = 1, !.state = "Active"]
           new    == [spec |-> old.spec, status |-> status]
<1>1. /\ held[r] # Absent
      /\ Store(sa, Opened(old))
      /\ held' = [held EXCEPT ![r].tq = Opened(@)]
      /\ quota \in [Accounts -> Ledgers!TokenQuota \cup {Absent}]
      /\ held \in [Replicas ->
                       [sa : Accounts, tq : Ledgers!TokenQuota] \cup {Absent}]
      /\ quota[sa] = old
  BY DEF OpenStep, Current, ControlInv, TypeOK
<1>2. /\ sa \in Accounts /\ old \in Ledgers!TokenQuota
      /\ held[r] = [sa |-> sa, tq |-> old]
  BY <1>1, HeldFields
<1>3. /\ old = [spec |-> old.spec, status |-> old.status]
      /\ old.spec \in Ledgers!QuotaSpec
      /\ old.status \in Ledgers!QuotaStatus
  BY <1>2 DEF Ledgers!TokenQuota
<1>4. /\ status \in Ledgers!QuotaStatus
      /\ status.state = "Active" /\ status.renewal = 1
      /\ status.spent = old.status.spent /\ status.runs = old.status.runs
  BY <1>3 DEF Ledgers!QuotaStatus, Ledgers!QuotaStates
<1>5. Opened(old) = new
  BY <1>3 DEF Opened
<1>6. quota' = [quota EXCEPT ![sa] = new] /\ quota'[sa] = new
  <2>1. Store(sa, new)
    BY <1>1, <1>5
  <2> HIDE DEF new, sa, old
  <2>2. QED
    BY <1>1, <1>2, <2>1, StoreFacts
<1>7. held' = [held EXCEPT ![r] = [sa |-> sa, tq |-> new]]
  <2>1. held' = [held EXCEPT ![r] = [held[r] EXCEPT !.tq = Opened(old)]]
    BY <1>1
  <2> HIDE DEF sa, old, new
  <2>2. [held[r] EXCEPT !.tq = new] = [sa |-> sa, tq |-> new]
    BY <1>2
  <2>3. QED
    BY <1>5, <2>1, <2>2
<1>8. /\ new \in Ledgers!TokenQuota
      /\ new.spec = old.spec /\ new.status = status
      /\ new = [spec |-> old.spec, status |-> new.status]
  <2> HIDE DEF status, old
  <2>1. QED
    BY <1>3, <1>4 DEF Ledgers!TokenQuota
<1> HIDE DEF status, new
<1>9. QED
  BY <1>4, <1>6, <1>7, <1>8

\* ReportStep gives a quota that is as it was read the account of the entry.
LEMMA ReportFields ==
    ASSUME ControlInv, NEW r \in Replicas, ReportStep(r), Current(r)
    PROVE  LET sa    == held[r].sa
               old   == held[r].tq
               entry == ledgers[<<r, sa>>]
               new   == quota'[sa]
           IN  /\ quota' = [quota EXCEPT ![sa] = new]
               /\ new \in Ledgers!TokenQuota
               /\ new.spec = old.spec
               /\ new = [spec |-> old.spec, status |-> new.status]
               /\ new.status.state = entry.state
               /\ new.status.renewal = old.status.renewal
               /\ new.status.spent = entry.spent
               /\ new.status.runs = entry.runs
<1> DEFINE sa     == held[r].sa
           old    == held[r].tq
           entry  == ledgers[<<r, sa>>]
           status == [old.status EXCEPT !.spent = entry.spent,
                                        !.runs = entry.runs,
                                        !.state = entry.state]
           new    == [spec |-> old.spec, status |-> status]
<1>1. /\ held[r] # Absent
      /\ Store(sa, Reported(old, entry))
      /\ quota \in [Accounts -> Ledgers!TokenQuota \cup {Absent}]
      /\ quota[sa] = old
  BY DEF ReportStep, Current, ControlInv, TypeOK
<1>2. /\ sa \in Accounts /\ old \in Ledgers!TokenQuota
      /\ entry \in Ledgers!Entry
  BY <1>1, HeldFields
<1>3. /\ old = [spec |-> old.spec, status |-> old.status]
      /\ old.spec \in Ledgers!QuotaSpec
      /\ old.status \in Ledgers!QuotaStatus
  BY <1>2 DEF Ledgers!TokenQuota
<1>4. /\ entry.spent \in Nat /\ entry.runs \in Nat
      /\ entry.state \in Ledgers!QuotaStates
  BY <1>2 DEF Ledgers!Entry
<1>5. /\ status \in Ledgers!QuotaStatus
      /\ status.state = entry.state /\ status.renewal = old.status.renewal
      /\ status.spent = entry.spent /\ status.runs = entry.runs
  <2> HIDE DEF entry, old
  <2>1. QED
    BY <1>3, <1>4 DEF Ledgers!QuotaStatus
<1>6. Reported(old, entry) = new
  BY <1>3 DEF Reported
<1>7. quota' = [quota EXCEPT ![sa] = new] /\ quota'[sa] = new
  <2>1. Store(sa, new)
    BY <1>1, <1>6
  <2> HIDE DEF new, sa, old
  <2>2. QED
    BY <1>1, <1>2, <2>1, StoreFacts
<1>8. /\ new \in Ledgers!TokenQuota
      /\ new.spec = old.spec /\ new.status = status
      /\ new = [spec |-> old.spec, status |-> new.status]
  <2> HIDE DEF status, old
  <2>1. QED
    BY <1>3, <1>5 DEF Ledgers!TokenQuota
<1> HIDE DEF status, new
<1>9. QED
  BY <1>5, <1>7, <1>8

\* A quota that is opened, or found to be another, keeps the invariant.
LEMMA OpenControl ==
    ASSUME ControlInv, ReceiverTypeOK', FeedsFollow, NEW r \in Replicas,
           OpenStep(r)
    PROVE  ControlInv'
<1> DEFINE sa  == held[r].sa
           old == held[r].tq
           new == quota'[sa]
<1>1. /\ held[r] # Absent /\ old.status.renewal = Unset
      /\ UNCHANGED <<ledgers, elects, up, leader, told, running, crashes>>
      /\ held \in [Replicas ->
                       [sa : Accounts, tq : Ledgers!TokenQuota] \cup {Absent}]
      /\ quota \in [Accounts -> Ledgers!TokenQuota \cup {Absent}]
  BY DEF OpenStep, receiverVars, controlVars, ControlInv, TypeOK
<1>2. /\ sa \in Accounts /\ old \in Ledgers!TokenQuota
      /\ QuotaOK(sa, old)
      /\ ledgers[<<r, sa>>] # Absent
      /\ Covers(ledgers[<<r, sa>>], old.status)
      /\ ledgers[<<r, sa>>] \in Ledgers!Entry
  BY <1>1, HeldFields
<1>3. old.status.spent = Unset /\ old.status.runs = 0
  BY <1>1, <1>2 DEF QuotaOK
<1>4. EntriesOK'
  BY <1>1 DEF ControlInv, EntriesOK
<1>5. CASE Current(r)
  <2>1. /\ quota' = [quota EXCEPT ![sa] = new]
        /\ held' = [held EXCEPT ![r] = [sa |-> sa, tq |-> new]]
        /\ new \in Ledgers!TokenQuota
        /\ new.spec = old.spec
        /\ new.status.state = "Active"
        /\ new.status.renewal = 1
        /\ new.status.spent = Unset
        /\ new.status.runs = 0
    BY <1>3, <1>5, OpenFields
  <2>2. quota[sa] = old
    BY <1>5 DEF Current
  <2> HIDE DEF new, sa, old
  <2>3. /\ held' \in [Replicas ->
                       [sa : Accounts, tq : Ledgers!TokenQuota] \cup {Absent}]
        /\ quota' \in [Accounts -> Ledgers!TokenQuota \cup {Absent}]
    <3>1. [sa |-> sa, tq |-> new] \in [sa : Accounts, tq : Ledgers!TokenQuota]
      BY <1>2, <2>1
    <3>2. QED
      BY <1>1, <2>1, <3>1
  <2>4. /\ QuotaOK(sa, new)
        /\ Covers(ledgers[<<r, sa>>], new.status)
        /\ ~Exceeds(old)
    <3>1. ledgers[<<r, sa>>].runs \in Nat
      BY <1>2 DEF Ledgers!Entry
    <3>2. QuotaOK(sa, new)
      BY <1>2, <2>1, EntryAssumption, NothingAssumption
         DEF QuotaOK, Earned, Ledgers!Denying, Ledgers!QuotaStates
    <3>3. Covers(ledgers[<<r, sa>>], new.status)
      BY <2>1, <3>1 DEF Covers, Ledgers!Denying
    <3>4. ~Exceeds(old)
      BY <1>1, <1>2, EntryAssumption
         DEF QuotaOK, Exceeds, Ledgers!Denying, Ledgers!QuotaStates
    <3>5. QED
      BY <3>2, <3>3, <3>4
  <2>5. QuotasOK'
    BY <1>1, <2>1, <2>4 DEF ControlInv, QuotasOK
  <2>6. IsFiniteSet(Existing')
    <3>1. Existing' = Existing
      BY <1>1, <1>2, <2>1, <2>2, BudgetsAssumption DEF Existing
    <3>2. QED
      BY <3>1 DEF ControlInv
  <2>7. HeldOK'
    <3> SUFFICES ASSUME NEW q \in Replicas, held'[q] # Absent
                 PROVE  LET entry == ledgers[<<q, held'[q].sa>>]
                        IN  /\ QuotaOK(held'[q].sa, held'[q].tq)
                            /\ entry # Absent
                            /\ Covers(entry, held'[q].tq.status)
      BY <1>1 DEF HeldOK
    <3>1. CASE q = r
      <4>1. held'[q].sa = sa /\ held'[q].tq = new
        BY <1>1, <2>1, <3>1
      <4>2. QED
        BY <1>2, <2>4, <3>1, <4>1
    <3>2. CASE q # r
      <4>1. held'[q] = held[q]
        BY <2>1, <3>2
      <4>2. QED
        BY <4>1 DEF ControlInv, HeldOK
    <3>3. QED
      BY <3>1, <3>2
  <2>8. /\ feed' \in [Replicas \X Accounts ->
                         Seq(Ledgers!TokenQuota \cup {Absent})]
        /\ FeedsOK'
        /\ \A q \in Replicas, sb \in Accounts :
               <<q, sb>> \in told' /\ Exceeds(Copy(q, sb)) =>
                   Exceeds(Copy(q, sb)')
    <3>1. \A sb \in Accounts :
              /\ quota'[sb] # Absent => QuotaOK(sb, quota'[sb])
              /\ Exceeds(quota[sb]) => Exceeds(quota'[sb])
      BY <1>1, <2>1, <2>2, <2>4, <2>5 DEF QuotasOK
    <3>2. QED
      BY <2>3, <3>1, FeedsKept
  <2>9. TypeOK'
    BY <1>1, <2>3, <2>8 DEF ControlInv, TypeOK
  <2>10. ToldOK'
    BY <1>1, <2>8 DEF ControlInv, ToldOK
  <2>11. QED
    BY <1>4, <2>5, <2>6, <2>7, <2>8, <2>9, <2>10 DEF ControlInv
<1>6. CASE ~Current(r)
  <2>1. held' = [held EXCEPT ![r] = Absent] /\ quota' = quota /\ feed' = feed
    BY <1>6 DEF OpenStep, quotaVars
  <2>2. TypeOK' /\ QuotasOK' /\ IsFiniteSet(Existing')
    BY <1>1, <2>1 DEF ControlInv, TypeOK, QuotasOK, Existing
  <2>3. HeldOK' /\ FeedsOK' /\ ToldOK'
    BY <1>1, <2>1 DEF ControlInv, HeldOK, FeedsOK, ToldOK, Copy
  <2>4. QED
    BY <1>4, <2>2, <2>3 DEF ControlInv
<1>7. QED
  BY <1>5, <1>6

\* A status that takes the account of an entry takes a proper one.
LEMMA ReportControl ==
    ASSUME ControlInv, ReceiverTypeOK', FeedsFollow, NEW r \in Replicas,
           ReportStep(r)
    PROVE  ControlInv'
<1> DEFINE sa    == held[r].sa
           old   == held[r].tq
           new   == quota'[sa]
           entry == ledgers[<<r, sa>>]
<1>1. /\ held[r] # Absent /\ old.status.renewal # Unset
      /\ held' = [held EXCEPT ![r] = Absent]
      /\ UNCHANGED <<ledgers, elects, up, leader, told, running, crashes>>
      /\ held \in [Replicas ->
                       [sa : Accounts, tq : Ledgers!TokenQuota] \cup {Absent}]
      /\ quota \in [Accounts -> Ledgers!TokenQuota \cup {Absent}]
  BY DEF ReportStep, receiverVars, controlVars, ControlInv, TypeOK
<1>2. /\ sa \in Accounts
      /\ QuotaOK(sa, old)
      /\ entry \in Ledgers!Entry
      /\ Earned(sa, entry.state, entry.spent)
      /\ Exceeds(old) => entry.state \in Ledgers!Denying
  BY <1>1, HeldFields DEF Covers, Exceeds
<1>3. EntriesOK'
  BY <1>1 DEF ControlInv, EntriesOK
<1>4. HeldOK'
  BY <1>1 DEF ControlInv, HeldOK
<1>5. CASE Current(r)
  <2>1. /\ quota' = [quota EXCEPT ![sa] = new]
        /\ new \in Ledgers!TokenQuota
        /\ new.spec = old.spec
        /\ new.status.state = entry.state
        /\ new.status.renewal = old.status.renewal
        /\ new.status.spent = entry.spent
    BY <1>5, ReportFields
  <2>2. quota[sa] = old /\ quota[sa] # Absent
    <3>1. old \in Ledgers!TokenQuota
      BY <1>1, HeldFields
    <3>2. QED
      BY <1>5, <3>1, BudgetsAssumption DEF Current
  <2> HIDE DEF new, sa, old
  <2>3. quota' \in [Accounts -> Ledgers!TokenQuota \cup {Absent}]
    BY <1>1, <2>1
  <2>4. new # Absent /\ (Exceeds(old) => Exceeds(new))
    BY <1>2, <2>1, BudgetsAssumption DEF Exceeds
  <2>5. QuotaOK(sa, new)
    <3>1. entry.state \in Ledgers!QuotaStates
      BY <1>2 DEF Ledgers!Entry
    <3>2. QED
      BY <1>1, <1>2, <2>1, <3>1, EntryAssumption DEF QuotaOK
  <2>6. QuotasOK'
    BY <1>1, <2>1, <2>5 DEF ControlInv, QuotasOK
  <2>7. IsFiniteSet(Existing')
    <3>1. Existing' = Existing
      BY <1>1, <1>2, <2>1, <2>2, BudgetsAssumption DEF Existing
    <3>2. QED
      BY <3>1 DEF ControlInv
  <2>8. /\ feed' \in [Replicas \X Accounts ->
                         Seq(Ledgers!TokenQuota \cup {Absent})]
        /\ FeedsOK'
        /\ \A q \in Replicas, sb \in Accounts :
               <<q, sb>> \in told' /\ Exceeds(Copy(q, sb)) =>
                   Exceeds(Copy(q, sb)')
    <3>1. \A sb \in Accounts :
              /\ quota'[sb] # Absent => QuotaOK(sb, quota'[sb])
              /\ Exceeds(quota[sb]) => Exceeds(quota'[sb])
      BY <1>1, <2>1, <2>2, <2>4, <2>6 DEF QuotasOK
    <3>2. QED
      BY <2>3, <3>1, FeedsKept
  <2>9. TypeOK'
    BY <1>1, <2>3, <2>8 DEF ControlInv, TypeOK
  <2>10. ToldOK'
    BY <1>1, <2>8 DEF ControlInv, ToldOK
  <2>11. QED
    BY <1>3, <1>4, <2>6, <2>7, <2>8, <2>9, <2>10 DEF ControlInv
<1>6. CASE ~Current(r)
  <2>1. quota' = quota /\ feed' = feed
    BY <1>6 DEF ReportStep, quotaVars
  <2>2. TypeOK' /\ QuotasOK' /\ IsFiniteSet(Existing')
    BY <1>1, <2>1 DEF ControlInv, TypeOK, QuotasOK, Existing
  <2>3. FeedsOK' /\ ToldOK'
    BY <1>1, <2>1 DEF ControlInv, FeedsOK, ToldOK, Copy
  <2>4. QED
    BY <1>3, <1>4, <2>2, <2>3 DEF ControlInv
<1>7. QED
  BY <1>5, <1>6

\* Every step keeps what Reconcile and the lease owe.
LEMMA ControlStep == IInv /\ [Next]_vars => ControlInv'
<1> SUFFICES ASSUME IInv, [Next]_vars
             PROVE  ControlInv'
  OBVIOUS
<1>1. ControlInv /\ ReceiverTypeOK' /\ FeedsFollow
  BY ReceiverStep, StepFeeds DEF IInv, ReceiverInv
<1>2. /\ up \subseteq Replicas /\ running \subseteq AgentPods
  BY <1>1 DEF ControlInv, TypeOK
<1>3. ASSUME ledgers' = ledgers
      PROVE  \A r \in Replicas, sa \in Accounts :
                 IF ledgers[<<r, sa>>] = Absent
                 THEN ledgers'[<<r, sa>>] = Absent
                 ELSE Grows(ledgers[<<r, sa>>], ledgers'[<<r, sa>>])
  BY <1>3 DEF Grows
<1>4. ASSUME NEW r \in Replicas, Elect(r)
      PROVE  ControlInv'
  <2>1. /\ leader = Absent /\ leader' \in up' /\ ledgers' = ledgers
        /\ UNCHANGED <<elects, up, quota, held, told, running, crashes>>
    BY <1>4 DEF Elect, receiverVars
  <2>2. QED
    BY <1>1, <1>2, <1>3, <2>1, ControlKept
<1>5. ASSUME NEW r \in Replicas, Crash(r)
      PROVE  ControlInv'
  BY <1>1, <1>5, CrashControl
<1>6. ASSUME NEW r \in Replicas, Start(r)
      PROVE  ControlInv'
  <2>1. /\ up' = up \cup {r} /\ ledgers' = ledgers
        /\ UNCHANGED <<elects, leader, quota, held, told, running, crashes>>
    BY <1>6 DEF Start
  <2>2. up' \subseteq Replicas /\ up \subseteq up'
    BY <1>2, <2>1
  <2>3. QED
    BY <1>1, <1>2, <1>3, <2>1, <2>2, ControlKept
<1>7. ASSUME NEW sa \in Accounts, CreateQuota(sa)
      PROVE  ControlInv'
  BY <1>1, <1>7, CreateControl
<1>8. ASSUME NEW r \in Replicas, NEW sa \in Accounts, SyncStep(r, sa)
      PROVE  ControlInv'
  BY <1>1, <1>8, SyncControl
<1>9. ASSUME NEW r \in Replicas, OpenStep(r) \/ ReportStep(r)
      PROVE  ControlInv'
  BY <1>1, <1>9, OpenControl, ReportControl
<1>10. ASSUME NEW p \in AgentPods, NEW r \in Replicas,
              Admit(p, r) \/ AdmitUnreviewed(p, r)
       PROVE  ControlInv'
  <2>1. /\ running' \subseteq AgentPods /\ ledgers' = ledgers
        /\ UNCHANGED <<elects, up, leader, quota, held, told, crashes>>
    BY <1>2, <1>10 DEF Admit, AdmitUnreviewed, receiverVars, quotaVars
  <2>2. QED
    BY <1>1, <1>2, <1>3, <2>1, ControlKept
<1>11. CASE Receive
  <2>1. UNCHANGED <<elects, up, leader, quota, held, told, running, crashes>>
    BY <1>11 DEF Receive, controlVars, quotaVars
  <2>2. CASE ledgers' = ledgers
    BY <1>1, <1>2, <1>3, <2>1, <2>2, ControlKept
  <2>3. ASSUME NEW n \in DOMAIN exports, HandleSpan(n)
        PROVE  ControlInv'
    <3>1. \A r \in Replicas, sa \in Accounts :
              IF ledgers[<<r, sa>>] = Absent
              THEN ledgers'[<<r, sa>>] = Absent
              ELSE Grows(ledgers[<<r, sa>>], ledgers'[<<r, sa>>])
      BY <1>1, <2>3, HandleGrows
    <3>2. QED
      BY <1>1, <1>2, <2>1, <3>1, ControlKept
  <2>4. ledgers' = ledgers \/ \E n \in DOMAIN exports : HandleSpan(n)
    BY <1>11 DEF Receive, Export, Answer
  <2>5. QED
    BY <2>2, <2>3, <2>4
<1>12. CASE UNCHANGED vars
  <2>1. /\ ledgers' = ledgers
        /\ UNCHANGED <<elects, up, leader, quota, held, told, running, crashes>>
    BY <1>12 DEF vars, receiverVars, quotaVars
  <2>2. QED
    BY <1>1, <1>2, <1>3, <2>1, ControlKept
<1>13. ASSUME NEW r \in Replicas, NEW sa \in Accounts, See(r, sa)
       PROVE  ControlInv'
  <2>1. /\ ledgers' = ledgers
        /\ UNCHANGED <<elects, up, leader, quota, held, told, running, crashes>>
    BY <1>13 DEF See, receiverVars, controlVars
  <2>2. QED
    BY <1>1, <1>2, <1>3, <2>1, ControlKept
<1>14. QED
  BY <1>4, <1>5, <1>6, <1>7, <1>8, <1>9, <1>10, <1>11, <1>12, <1>13 DEF Next

-----------------------------------------------------------------------------
(* The steps, and the money.                                                *)

\* What the steps of a request owe an account, span by span.
LEMMA PaidFacts ==
    ASSUME ReceiverTypeOK, NEW sa \in Accounts
    PROVE  /\ Paid(sa) \in Weights
           /\ \A b \in Batches :
                  /\ Paid(sa)[b][1] = 0
                  /\ Worth(b, sa) \in Nat
                  /\ \A k \in DOMAIN SpansOf[b] :
                         Paid(sa)[b][k + 1] = Paid(sa)[b][k] +
                             (IF k \in Owing(b, sa) THEN Costs(b)[k] ELSE 0)
                  /\ \A k \in Nat \ {0} :
                         /\ Paid(sa)[b][k] <= Worth(b, sa)
                         /\ k > Len(SpansOf[b]) =>
                                Paid(sa)[b][k] = Worth(b, sa)
                  /\ ~Bills(b, sa) => /\ Worth(b, sa) = 0
                                      /\ \A k \in Nat \ {0} : Paid(sa)[b][k] = 0
<1>1. PICK t \in Tables : TRUE
  <2>1. BudgetOf[sa].target \in Replicas \X Accounts
    BY BudgetsAssumption DEF Ledgers!QuotaSpec
  <2>2. PICK r \in Replicas : TRUE
    BY <2>1
  <2>3. table[r] \in Tables
    BY <2>2 DEF ReceiverTypeOK
  <2>4. QED
    BY <2>3
<1>2. CASE Batches = {}
  BY <1>2 DEF Paid, Weights
<1>3. CASE Batches # {}
  BY <1>1, <1>3, PaidSteps
<1>4. QED
  BY <1>2, <1>3

\* The requests that are intact weigh no more than all.
LEMMA IntactType ==
    ASSUME NEW xs \in Seq(Request), NEW sa \in Accounts,
           Paid(sa) \in Weights, NEW r
    PROVE  /\ Intact(xs, r) \in SUBSET DOMAIN xs
           /\ Kept(xs, r, sa) \in Nat
           /\ Done(xs, sa) \in Nat
           /\ Kept(xs, r, sa) <= Done(xs, sa)
<1>1. /\ Intact(xs, r) \in SUBSET DOMAIN xs
      /\ DOMAIN xs \in SUBSET DOMAIN xs
  BY DEF Intact
<1>2. QED
  BY <1>1, WeighedType, WeighedSubset DEF Kept, Done

\* The accounts of one process and one account are right.
Squared(xs, r, sa, entry) ==
    /\ entry # Absent => /\ Kept(xs, r, sa) <= entry.spent
                         /\ entry.spent <= Done(xs, sa)
    /\ \A n \in Intact(xs, r) : Bills(xs[n].batch, sa) => entry # Absent

\* BooksOK, per status and per entry.
LEMMA SpendParts ==
    BooksOK <=>
        /\ \A sa \in Accounts :
               quota[sa] # Absent /\ quota[sa].status.spent # Unset =>
                   quota[sa].status.spent <= Done(exports, sa)
        /\ \A r \in Replicas, sa \in Accounts :
               Squared(exports, r, sa, ledgers[<<r, sa>>])
BY DEF BooksOK, Backed, Squared

\* Requests that are as they were, or no more intact.
LEMMA SquaredKept ==
    ASSUME NEW xs \in Seq(Request), NEW ys \in Seq(Request),
           DOMAIN ys = DOMAIN xs,
           \A n \in DOMAIN xs : /\ ys[n].batch = xs[n].batch
                                /\ ys[n].next = xs[n].next,
           NEW r, Intact(ys, r) \in SUBSET Intact(xs, r),
           NEW sa \in Accounts, Paid(sa) \in Weights,
           NEW entry \in Ledgers!Entry \cup {Absent}
    PROVE  /\ Done(ys, sa) = Done(xs, sa)
           /\ Kept(ys, r, sa) <= Kept(xs, r, sa)
           /\ Squared(xs, r, sa, entry) => Squared(ys, r, sa, entry)
<1>1. Done(ys, sa) = Done(xs, sa)
  BY WeighedSame DEF Done
<1>2. /\ Intact(ys, r) \in SUBSET DOMAIN xs
      /\ Kept(ys, r, sa) = Weighed(Paid(sa), xs, Intact(ys, r))
  <2>1. Intact(ys, r) \in SUBSET DOMAIN xs
    BY DEF Intact
  <2>2. QED
    BY <2>1, WeighedSame DEF Kept
<1>3. Kept(ys, r, sa) <= Kept(xs, r, sa)
  <2>1. Intact(xs, r) \in SUBSET DOMAIN xs
    BY DEF Intact
  <2>2. QED
    BY <1>2, <2>1, WeighedSubset DEF Kept
<1>4. /\ Kept(ys, r, sa) \in Nat /\ Kept(xs, r, sa) \in Nat
  BY IntactType
<1>5. ASSUME Squared(xs, r, sa, entry)
      PROVE  Squared(ys, r, sa, entry)
  <2>1. ASSUME entry # Absent
        PROVE  Kept(ys, r, sa) <= entry.spent /\ entry.spent <= Done(ys, sa)
    <3>1. entry.spent \in Nat
      BY <2>1 DEF Ledgers!Entry
    <3>2. Kept(xs, r, sa) <= entry.spent /\ entry.spent <= Done(xs, sa)
      BY <1>5, <2>1 DEF Squared
    <3>3. QED
      BY <1>1, <1>3, <1>4, <3>1, <3>2
  <2>2. \A n \in Intact(ys, r) : Bills(ys[n].batch, sa) => entry # Absent
    BY <1>2, <1>5 DEF Squared
  <2>3. QED
    BY <2>1, <2>2 DEF Squared
<1>6. QED
  BY <1>1, <1>3, <1>5

\* Steps that only make requests less intact, and leave the entries alone.
LEMMA SpendKept ==
    ASSUME IInv, exports' \in Seq(Request), DOMAIN exports' = DOMAIN exports,
           \A n \in DOMAIN exports : /\ exports'[n].batch = exports[n].batch
                                     /\ exports'[n].next = exports[n].next,
           NEW r \in Replicas, NEW sa \in Accounts,
           Intact(exports', r) \in SUBSET Intact(exports, r)
    PROVE  /\ Done(exports', sa) = Done(exports, sa)
           /\ Done(exports, sa) \in Nat
           /\ Squared(exports', r, sa, ledgers[<<r, sa>>])
<1>1. /\ exports \in Seq(Request) /\ ReceiverTypeOK
      /\ ledgers[<<r, sa>>] \in Ledgers!Entry \cup {Absent}
  BY DEF IInv, ReceiverInv, ReceiverTypeOK, Ledgers!LedgerTypeOK
<1>2. Paid(sa) \in Weights
  BY <1>1, PaidFacts
<1>3. Squared(exports, r, sa, ledgers[<<r, sa>>])
  BY SpendParts DEF IInv, SpendInv
<1>4. QED
  BY <1>1, <1>2, <1>3, SquaredKept, IntactType

\* What has been handled stays handled.
DoneGrows ==
    \A sa \in Accounts : /\ Done(exports, sa) \in Nat
                         /\ Done(exports', sa) \in Nat
                         /\ Done(exports, sa) <= Done(exports', sa)

\* What follows is made of what was there.
LEMMA FollowsFrom ==
    ASSUME NEW S, NEW f \in Seq(S), NEW g, NEW p \in S, Follows(f, g, p)
    PROVE  \A i \in 1 .. Len(g) :
               g[i] = p \/ \E j \in 1 .. Len(f) : g[i] = f[j]
<1>1. CASE g = f
  BY <1>1
<1>2. CASE g = <<p>>
  BY <1>2
<1>3. CASE g = Append(f, p)
  <2>1. /\ Len(g) = Len(f) + 1 /\ g[Len(f) + 1] = p /\ Len(f) \in Nat
        /\ \A i \in 1 .. Len(f) : g[i] = f[i]
    BY <1>3
  <2>2. \A i \in 1 .. Len(g) : i \in 1 .. Len(f) \/ i = Len(f) + 1
    BY <2>1
  <2>3. QED
    BY <2>1, <2>2
<1>4. CASE Len(f) > 1 /\ g = Tail(f)
  <2>1. /\ Len(g) = Len(f) - 1 /\ Len(f) \in Nat
        /\ \A i \in 1 .. Len(g) : g[i] = f[i + 1]
    BY <1>4
  <2>2. \A i \in 1 .. Len(g) : i + 1 \in 1 .. Len(f)
    BY <2>1
  <2>3. QED
    BY <2>1, <2>2
<1>5. QED
  BY <1>1, <1>2, <1>3, <1>4 DEF Follows

\* No version comes to an informer that was not at the API server.
LEMMA FeedsBackedKept ==
    ASSUME IInv, FeedsFollow, TypeOK', DoneGrows,
           \A sa \in Accounts : Backed(quota'[sa], exports', sa)
    PROVE  FeedsBacked'
<1> SUFFICES ASSUME NEW r \in Replicas, NEW sa \in Accounts,
                    NEW i \in 1 .. Len(feed'[<<r, sa>>])
             PROVE  Backed(feed'[<<r, sa>>][i], exports', sa)
  BY DEF FeedsBacked
<1> DEFINE f == feed[<<r, sa>>]
           g == feed'[<<r, sa>>]
           S == Ledgers!TokenQuota \cup {Absent}
<1>1. f \in Seq(S) /\ quota'[sa] \in S
  BY DEF IInv, ControlInv, TypeOK
<1>2. ASSUME NEW j \in 1 .. Len(f)
      PROVE  Backed(f[j], exports', sa)
  <2>1. f[j] \in S /\ Backed(f[j], exports, sa)
    BY <1>1 DEF IInv, SpendInv, FeedsBacked
  <2>2. ASSUME f[j] # Absent, f[j].status.spent # Unset
        PROVE  f[j].status.spent <= Done(exports', sa)
    <3>1. f[j].status.spent \in Nat
      BY <2>1, <2>2, QuotaFields
    <3>2. f[j].status.spent <= Done(exports, sa)
      BY <2>1, <2>2 DEF Backed
    <3> HIDE DEF f
    <3>3. QED
      BY <3>1, <3>2 DEF DoneGrows
  <2>3. QED
    BY <2>2 DEF Backed
<1>3. CASE Follows(f, g, quota'[sa])
  <2> HIDE DEF f, g, S
  <2> i \in 1 .. Len(g)
    BY DEF g
  <2>1. g[i] = quota'[sa] \/ \E j \in 1 .. Len(f) : g[i] = f[j]
    <3>1. \A k \in 1 .. Len(g) :
              g[k] = quota'[sa] \/ \E j \in 1 .. Len(f) : g[k] = f[j]
      BY <1>1, <1>3, FollowsFrom
    <3>2. QED
      BY <3>1
  <2>2. Backed(g[i], exports', sa)
    BY <1>2, <2>1
  <2>3. QED
    BY <2>2 DEF g
<1>4. CASE g = <<Absent>>
  <2>1. g[i] = Absent
    BY <1>4
  <2>2. QED
    BY <2>1 DEF Backed
<1>5. QED
  BY <1>3, <1>4 DEF FeedsFollow

\* A batch that is posted has been charged nothing yet.
LEMMA ExportSpend ==
    ASSUME IInv, NEW b \in Batches, NEW r \in Replicas, Export(b, r),
           UNCHANGED quota
    PROVE  BooksOK' /\ DoneGrows
<1> DEFINE n == Len(exports) + 1
<1>1. /\ exports \in Seq(Request) /\ ReceiverTypeOK
      /\ ledgers' = ledgers
  BY DEF IInv, ReceiverInv, ReceiverTypeOK, Export
<1>2. /\ n \notin DOMAIN exports /\ DOMAIN exports' = DOMAIN exports \cup {n}
      /\ \A m \in DOMAIN exports : exports'[m] = exports[m]
      /\ exports'[n].batch = b /\ exports'[n].at = r
      /\ exports'[n].intact = \A sa \in Accounts :
                                  Bills(b, sa) => ledgers[<<r, sa>>] # Absent
      /\ \A weight \in Weights : \A S \in SUBSET DOMAIN exports :
             weight[b][1] = 0 =>
                 /\ Weighed(weight, exports', S) = Weighed(weight, exports, S)
                 /\ Weighed(weight, exports', S \cup {n}) =
                        Weighed(weight, exports, S)
  BY <1>1, ExportFacts
<1> HIDE DEF n
<1>3. ASSUME NEW sa \in Accounts
      PROVE  /\ Done(exports', sa) = Done(exports, sa)
             /\ Done(exports, sa) \in Nat
             /\ \A q \in Replicas : Kept(exports', q, sa) = Kept(exports, q, sa)
  <2>1. Paid(sa) \in Weights /\ Paid(sa)[b][1] = 0
    BY <1>1, PaidFacts
  <2>2. Done(exports', sa) = Done(exports, sa)
    BY <1>2, <2>1 DEF Done
  <2>3. ASSUME NEW q \in Replicas
        PROVE  Kept(exports', q, sa) = Kept(exports, q, sa)
    <3>1. Intact(exports, q) \in SUBSET DOMAIN exports
      BY DEF Intact
    <3>2. \/ Intact(exports', q) = Intact(exports, q)
          \/ Intact(exports', q) = Intact(exports, q) \cup {n}
      BY <1>2 DEF Intact
    <3>3. QED
      BY <1>2, <2>1, <3>1, <3>2 DEF Kept
  <2>4. QED
    BY <1>1, <2>1, <2>2, <2>3, IntactType
<1>4. ASSUME NEW q \in Replicas, NEW sa \in Accounts,
             NEW m \in Intact(exports', q), Bills(exports'[m].batch, sa)
      PROVE  ledgers[<<q, sa>>] # Absent
  <2>1. CASE m = n
    BY <1>2, <1>4, <2>1 DEF Intact
  <2>2. CASE m # n
    <3>1. m \in Intact(exports, q) /\ exports'[m] = exports[m]
      BY <1>2, <1>4, <2>2 DEF Intact
    <3>2. QED
      BY <1>4, <3>1 DEF IInv, SpendInv, BooksOK, Backed
  <2>3. QED
    BY <2>1, <2>2
<1>5. DoneGrows
  BY <1>3 DEF DoneGrows
<1>6. QED
  BY <1>1, <1>3, <1>4, <1>5 DEF IInv, SpendInv, BooksOK, Backed

\* A span that is handled is charged where there is an entry, and weighs what
\* it costs.
LEMMA HandleSpend ==
    ASSUME IInv, NEW n \in DOMAIN exports, HandleSpan(n), UNCHANGED quota
    PROVE  BooksOK' /\ DoneGrows
<1> DEFINE x    == exports[n]
           b    == x.batch
           k    == x.next
           span == SpansOf[b][k]
           key  == <<x.at, span.sa>>
           cost == Costs(b)[k]
           more(sa) == IF k \in Owing(b, sa) THEN cost ELSE 0
<1>1. /\ exports \in Seq(Request) /\ ReceiverTypeOK
      /\ ledgers \in [Replicas \X Accounts -> Ledgers!Entry \cup {Absent}]
  BY DEF IInv, ReceiverInv, ReceiverTypeOK, Ledgers!LedgerTypeOK
<1>2. /\ b \in Batches /\ x.at \in Replicas
      /\ k \in DOMAIN SpansOf[b] /\ span \in Span
      /\ exports' = [exports EXCEPT ![n].next = @ + 1]
      /\ cost \in Nat
      /\ ~Billable(span) => ledgers' = ledgers
      /\ Billable(span) =>
             /\ key \in Replicas \X Accounts
             /\ span.sa \in Accounts
             /\ ledgers[key] = Absent => ledgers' = ledgers
             /\ ledgers[key] # Absent =>
                    ledgers' = [ledgers EXCEPT ![key] = Ledgers!Charged(@, cost)]
  BY <1>1, HandleFacts
<1>3. ~Billable(span) => cost = 0 \/ \A sa \in Accounts : k \notin Owing(b, sa)
  <2>1. PICK t \in Tables : TRUE
    BY <1>1, <1>2 DEF ReceiverTypeOK
  <2>2. span.input = Unset /\ span.output = Unset => cost = 0
    BY <1>2, <2>1, CostsType
  <2>3. QED
    BY <2>2, NothingAssumption DEF Billable, Owing
<1>4. Billable(span) => k \in Owing(b, span.sa)
  BY <1>2 DEF Billable, Owing
<1>5. /\ exports' \in Seq(Request) /\ DOMAIN exports' = DOMAIN exports
      /\ \A m \in DOMAIN exports : /\ exports'[m].batch = exports[m].batch
                                   /\ exports'[m].at = exports[m].at
                                   /\ exports'[m].intact = exports[m].intact
                                   /\ m # n => exports'[m].next = exports[m].next
      /\ exports'[n].next = exports[n].next + 1
  <2>1. /\ exports \in Seq(Request)
        /\ exports' = [exports EXCEPT ![n].next = @ + 1]
    BY <1>1, <1>2
  <2>2. \A m \in DOMAIN exports : exports'[m].intact = exports[m].intact
    BY <2>1, HandledRequests
  <2>3. \A m \in DOMAIN exports : /\ exports'[m].batch = exports[m].batch
                                  /\ exports'[m].at = exports[m].at
    BY <2>1, HandledRequests
  <2>4. /\ \A m \in DOMAIN exports : m # n => exports'[m].next = exports[m].next
        /\ exports'[n].next = exports[n].next + 1
    BY <2>1, HandledRequests
  <2>5. exports' \in Seq(Request) /\ DOMAIN exports' = DOMAIN exports
    BY <2>1, HandledRequests
  <2>6. QED
    BY <2>2, <2>3, <2>4, <2>5
<1>6. \A r \in Replicas : Intact(exports', r) = Intact(exports, r)
  BY <1>5 DEF Intact
<1>7. ASSUME NEW sa \in Accounts
      PROVE  /\ more(sa) \in Nat
             /\ Done(exports, sa) \in Nat
             /\ Done(exports', sa) = Done(exports, sa) + more(sa)
             /\ \A r \in Replicas :
                    /\ Kept(exports, r, sa) \in Nat
                    /\ r = x.at => Kept(exports', r, sa) <=
                                       Kept(exports, r, sa) + more(sa)
                    /\ r # x.at => Kept(exports', r, sa) = Kept(exports, r, sa)
  <2>1. Paid(sa) \in Weights /\ Paid(sa)[b][k + 1] = Paid(sa)[b][k] + more(sa)
    BY <1>1, <1>2, PaidFacts
  <2>2. more(sa) \in Nat
    BY <1>2
  <2> HIDE DEF more
  <2>3. ASSUME NEW S \in SUBSET DOMAIN exports
        PROVE  /\ n \in S => Weighed(Paid(sa), exports', S) =
                                 Weighed(Paid(sa), exports, S) + more(sa)
               /\ n \notin S => Weighed(Paid(sa), exports', S) =
                                    Weighed(Paid(sa), exports, S)
               /\ Weighed(Paid(sa), exports, S) \in Nat
    <3>1. Paid(sa)[exports[n].batch][exports[n].next + 1] =
              Paid(sa)[exports[n].batch][exports[n].next] + more(sa)
      BY <2>1
    <3>2. /\ \A m \in DOMAIN exports :
                 /\ exports'[m].batch = exports[m].batch
                 /\ m # n => exports'[m].next = exports[m].next
          /\ exports'[n].next = exports[n].next + 1
      BY <1>5
    <3>3. QED
      BY <1>1, <1>5, <2>1, <2>2, <3>1, <3>2, WeighedHandle
  <2>4. /\ Done(exports, sa) \in Nat
        /\ Done(exports', sa) = Done(exports, sa) + more(sa)
    BY <1>5, <2>3 DEF Done
  <2>5. ASSUME NEW r \in Replicas
        PROVE  /\ Kept(exports, r, sa) \in Nat
               /\ r = x.at => Kept(exports', r, sa) <=
                                  Kept(exports, r, sa) + more(sa)
               /\ r # x.at => Kept(exports', r, sa) = Kept(exports, r, sa)
    <3>1. /\ Intact(exports, r) \in SUBSET DOMAIN exports
          /\ r # x.at => n \notin Intact(exports, r)
      BY DEF Intact
    <3>2. QED
      BY <1>6, <2>2, <2>3, <3>1 DEF Kept
  <2>6. QED
    BY <2>2, <2>4, <2>5
<1>8. ASSUME NEW sa \in Accounts, quota[sa] # Absent,
             quota[sa].status.spent # Unset
      PROVE  quota[sa].status.spent <= Done(exports', sa)
  <2>1. quota[sa].status.spent \in Nat
    <3>1. quota[sa] \in Ledgers!TokenQuota
      BY <1>8 DEF IInv, ControlInv, TypeOK
    <3>2. QED
      BY <1>8, <3>1, QuotaFields
  <2>2. quota[sa].status.spent <= Done(exports, sa)
    BY <1>8 DEF IInv, SpendInv, BooksOK, Backed
  <2> HIDE DEF more
  <2>3. QED
    BY <1>7, <2>1, <2>2
<1>9. ASSUME NEW r \in Replicas, NEW sa \in Accounts
      PROVE  Squared(exports', r, sa, ledgers'[<<r, sa>>])
  <2> DEFINE old == ledgers[<<r, sa>>]
             new == ledgers'[<<r, sa>>]
  <2>1. /\ Squared(exports, r, sa, old)
        /\ old \in Ledgers!Entry \cup {Absent}
    BY <1>1, SpendParts DEF IInv, SpendInv
  <2>2. \/ old = Absent /\ new = Absent
        \/ /\ old # Absent /\ new = old
           /\ r = x.at => more(sa) = 0
        \/ /\ old # Absent /\ new = Ledgers!Charged(old, cost)
           /\ more(sa) = cost /\ r = x.at
    <3>1. CASE Billable(span) /\ <<r, sa>> = key
      BY <1>1, <1>2, <1>4, <3>1
    <3>2. CASE ~(Billable(span) /\ <<r, sa>> = key)
      <4>1. new = old
        BY <1>1, <1>2, <3>2
      <4>2. r = x.at => more(sa) = 0
        BY <1>3, <3>2 DEF Owing
      <4>3. QED
        BY <4>1, <4>2
    <3>3. QED
      BY <3>1, <3>2
  <2>3. ASSUME new # Absent
        PROVE  /\ Kept(exports', r, sa) <= new.spent
               /\ new.spent <= Done(exports', sa)
    <3> HIDE DEF more
    <3>1. /\ old \in Ledgers!Entry /\ old.spent \in Nat
          /\ Kept(exports, r, sa) <= old.spent
          /\ old.spent <= Done(exports, sa)
      BY <2>1, <2>2, <2>3 DEF Squared, Ledgers!Entry
    <3>2. Ledgers!Charged(old, cost).spent = old.spent + cost
      BY <1>2, <3>1, ChargedFields
    <3>3. Kept(exports', r, sa) \in Nat
      BY <1>1, <1>5, PaidFacts, IntactType
    <3>4. /\ more(sa) \in Nat
          /\ Kept(exports, r, sa) \in Nat /\ Done(exports, sa) \in Nat
          /\ Done(exports', sa) = Done(exports, sa) + more(sa)
          /\ r = x.at => Kept(exports', r, sa) <=
                             Kept(exports, r, sa) + more(sa)
          /\ r # x.at => Kept(exports', r, sa) = Kept(exports, r, sa)
      BY <1>7
    <3>5. CASE new = old /\ (r = x.at => more(sa) = 0)
      BY <3>1, <3>3, <3>4, <3>5
    <3>6. CASE /\ new = Ledgers!Charged(old, cost)
               /\ more(sa) = cost /\ r = x.at
      BY <1>2, <3>1, <3>2, <3>3, <3>4, <3>6
    <3>7. QED
      BY <2>2, <2>3, <3>5, <3>6
  <2>4. \A m \in Intact(exports', r) :
            Bills(exports'[m].batch, sa) => new # Absent
    <3>1. Intact(exports', r) = Intact(exports, r)
      BY <1>6
    <3>2. \A m \in Intact(exports, r) : exports'[m].batch = exports[m].batch
      BY <1>5 DEF Intact
    <3>3. old # Absent => new # Absent
      BY <1>2, <2>1, <2>2, ChargedFields
    <3>4. QED
      BY <2>1, <3>1, <3>2, <3>3 DEF Squared
  <2>5. QED
    BY <2>3, <2>4 DEF Squared
<1>10. DoneGrows
  <2>1. ASSUME NEW sa \in Accounts
        PROVE  /\ Done(exports, sa) \in Nat /\ Done(exports', sa) \in Nat
               /\ Done(exports, sa) <= Done(exports', sa)
    <3> HIDE DEF more
    <3>1. QED
      BY <1>7
  <2>2. QED
    BY <2>1 DEF DoneGrows
<1>11. QED
  <2>1. /\ \A sa \in Accounts :
               quota'[sa] # Absent /\ quota'[sa].status.spent # Unset =>
                   quota'[sa].status.spent <= Done(exports', sa)
        /\ \A r \in Replicas, sa \in Accounts :
               Squared(exports', r, sa, ledgers'[<<r, sa>>])
    BY <1>8, <1>9
  <2>2. QED
    BY <1>10, <2>1 DEF BooksOK, Backed, Squared

\* After a reconcile nothing that bills the account is intact, and the entry
\* carries no more than it did, or than the status does.
LEMMA SyncSpend ==
    ASSUME IInv, NEW r \in Replicas, NEW sa \in Accounts, SyncStep(r, sa)
    PROVE  BooksOK' /\ DoneGrows
<1> DEFINE key == <<r, sa>>
           new == ledgers'[key]
<1>1. /\ exports \in Seq(Request) /\ ReceiverTypeOK /\ quota' = quota
      /\ ledgers \in [Replicas \X Accounts -> Ledgers!Entry \cup {Absent}]
  BY DEF IInv, ReceiverInv, ReceiverTypeOK, Ledgers!LedgerTypeOK, SyncStep,
         quotaVars
<1>2. /\ ledgers' = [ledgers EXCEPT ![key] = new]
      /\ new \in Ledgers!Entry /\ new # Absent
      /\ \/ /\ Copy(r, sa).status.spent # Unset
            /\ new.spent = Copy(r, sa).status.spent
         \/ ledgers[key] # Absent /\ new.spent = ledgers[key].spent
         \/ new.spent = 0
  BY SyncFacts DEF IInv
<1>3. /\ exports' \in Seq(Request) /\ DOMAIN exports' = DOMAIN exports
      /\ \A n \in DOMAIN exports :
             /\ exports'[n].batch = exports[n].batch
             /\ exports'[n].at = exports[n].at
             /\ exports'[n].next = exports[n].next
             /\ exports'[n].intact <=>
                    /\ exports[n].intact
                    /\ ~(/\ exports[n].at = r
                         /\ Bills(exports[n].batch, sa))
  BY SyncFacts DEF IInv
<1> HIDE DEF new
<1>4. ASSUME NEW q \in Replicas
      PROVE  Intact(exports', q) \in SUBSET Intact(exports, q)
  BY <1>3 DEF Intact
<1>5. ASSUME NEW q \in Replicas, NEW sb \in Accounts
      PROVE  /\ Done(exports', sb) = Done(exports, sb)
             /\ Done(exports, sb) \in Nat
             /\ Squared(exports', q, sb, ledgers[<<q, sb>>])
  <2>1. \A n \in DOMAIN exports : /\ exports'[n].batch = exports[n].batch
                                  /\ exports'[n].next = exports[n].next
    BY <1>3
  <2>2. QED
    BY <1>3, <1>4, <2>1, SpendKept
<1>6. Squared(exports', r, sa, new)
  <2>1. Paid(sa) \in Weights
    BY <1>1, PaidFacts
  <2>2. \A n \in Intact(exports', r) : ~Bills(exports'[n].batch, sa)
    BY <1>3 DEF Intact
  <2>3. Kept(exports', r, sa) = 0
    <3> DEFINE f == [n \in DOMAIN exports' |->
                         Paid(sa)[exports'[n].batch][exports'[n].next]]
    <3>1. /\ Intact(exports', r) \in SUBSET DOMAIN exports'
          /\ IsFiniteSet(Intact(exports', r))
      BY <1>3, <2>1, IntactType, WeighedType
    <3>2. ASSUME NEW n \in Intact(exports', r)
          PROVE  f[n] = 0
      <4>1. /\ exports'[n].batch \in Batches /\ exports'[n].next \in Nat \ {0}
            /\ f[n] = Paid(sa)[exports'[n].batch][exports'[n].next]
        BY <1>3, <3>1, RequestFields
      <4>2. QED
        BY <1>1, <2>2, <4>1, PaidFacts
    <3>3. SumFunctionOnSet(f, Intact(exports', r)) = 0
      <4> HIDE DEF f
      <4>1. QED
        BY <3>1, <3>2, SumOfZeros
    <3>4. QED
      BY <3>3 DEF Kept, Weighed
  <2>4. Done(exports', sa) \in Nat /\ Done(exports, sa) \in Nat
        /\ Done(exports', sa) = Done(exports, sa)
    BY <1>1, <1>3, <1>5, <2>1, IntactType
  <2>5. new.spent \in Nat
    BY <1>2 DEF Ledgers!Entry
  <2>6. new.spent <= Done(exports, sa)
    <3>1. Copy(r, sa).status.spent # Unset =>
              Copy(r, sa).status.spent <= Done(exports, sa)
      <4>1. /\ Copy(r, sa) = feed[<<r, sa>>][1] /\ Copy(r, sa) # Absent
            /\ 1 \in 1 .. Len(feed[<<r, sa>>])
        BY CopyFields, SyncFacts DEF IInv
      <4>2. Backed(Copy(r, sa), exports, sa)
        BY <4>1 DEF IInv, SpendInv, FeedsBacked
      <4>3. QED
        BY <4>1, <4>2 DEF Backed
    <3>2. ledgers[key] # Absent => ledgers[key].spent <= Done(exports, sa)
      BY DEF IInv, SpendInv, BooksOK, Backed
    <3>3. QED
      BY <1>2, <2>4, <3>1, <3>2
  <2>7. QED
    BY <1>2, <2>2, <2>3, <2>4, <2>5, <2>6 DEF Squared
<1>7. ASSUME NEW q \in Replicas, NEW sb \in Accounts
      PROVE  Squared(exports', q, sb, ledgers'[<<q, sb>>])
  <2>1. CASE <<q, sb>> = key
    BY <1>1, <1>2, <1>6, <2>1
  <2>2. CASE <<q, sb>> # key
    BY <1>1, <1>2, <1>5, <2>2
  <2>3. QED
    BY <2>1, <2>2
<1>8. ASSUME NEW sb \in Accounts, quota[sb] # Absent,
             quota[sb].status.spent # Unset
      PROVE  quota[sb].status.spent <= Done(exports', sb)
  <2>1. Done(exports', sb) = Done(exports, sb)
    BY <1>5
  <2>2. QED
    BY <1>8, <2>1 DEF IInv, SpendInv, BooksOK, Backed
<1>9. DoneGrows
  <2>1. ASSUME NEW sb \in Accounts
        PROVE  Done(exports', sb) = Done(exports, sb) /\ Done(exports, sb) \in Nat
    BY <1>5
  <2>2. QED
    BY <2>1 DEF DoneGrows
<1>10. QED
  BY <1>1, <1>7, <1>8, <1>9 DEF BooksOK, Backed, Squared

\* The requests of a process that dies are no more intact, its entries gone.
LEMMA CrashSpend ==
    ASSUME IInv, NEW r \in Replicas, Crash(r)
    PROVE  BooksOK' /\ DoneGrows
<1>1. /\ exports \in Seq(Request) /\ Die(r) /\ quota' = quota
      /\ ledgers \in [Replicas \X Accounts -> Ledgers!Entry \cup {Absent}]
  BY DEF IInv, ReceiverInv, ReceiverTypeOK, Ledgers!LedgerTypeOK, Crash
<1>2. /\ exports' \in Seq(Request) /\ DOMAIN exports' = DOMAIN exports
      /\ \A n \in DOMAIN exports :
             /\ exports'[n].batch = exports[n].batch
             /\ exports'[n].next = exports[n].next
             /\ exports'[n].at =
                    IF exports[n].at = r THEN Absent ELSE exports[n].at
             /\ exports'[n].intact <=> exports[n].intact /\ exports[n].at # r
  BY <1>1, DieRequests
<1>3. ASSUME NEW q \in Replicas
      PROVE  /\ Intact(exports', q) \in SUBSET Intact(exports, q)
             /\ q = r => Intact(exports', q) = {}
  BY <1>2, NothingAssumption DEF Intact
<1>4. ASSUME NEW q \in Replicas, NEW sa \in Accounts
      PROVE  /\ Done(exports', sa) = Done(exports, sa)
             /\ Done(exports, sa) \in Nat
             /\ Squared(exports', q, sa, ledgers[<<q, sa>>])
  <2>1. \A n \in DOMAIN exports : /\ exports'[n].batch = exports[n].batch
                                  /\ exports'[n].next = exports[n].next
    BY <1>2
  <2>2. QED
    BY <1>2, <1>3, <2>1, SpendKept
<1>5. ASSUME NEW q \in Replicas, NEW sa \in Accounts
      PROVE  Squared(exports', q, sa, ledgers'[<<q, sa>>])
  <2>1. CASE q = r
    <3>1. ledgers'[<<q, sa>>] = Absent
      BY <1>1, <2>1 DEF Die
    <3>2. QED
      BY <1>3, <2>1, <3>1 DEF Squared
  <2>2. CASE q # r
    <3>1. ledgers'[<<q, sa>>] = ledgers[<<q, sa>>]
      BY <1>1, <2>2 DEF Die
    <3>2. QED
      BY <1>4, <3>1
  <2>3. QED
    BY <2>1, <2>2
<1>6. ASSUME NEW sa \in Accounts, quota[sa] # Absent,
             quota[sa].status.spent # Unset
      PROVE  quota[sa].status.spent <= Done(exports', sa)
  <2>1. Done(exports', sa) = Done(exports, sa)
    BY <1>4
  <2>2. QED
    BY <1>6, <2>1 DEF IInv, SpendInv, BooksOK, Backed
<1>7. DoneGrows
  <2>1. ASSUME NEW sa \in Accounts
        PROVE  Done(exports', sa) = Done(exports, sa) /\ Done(exports, sa) \in Nat
    BY <1>4
  <2>2. QED
    BY <2>1 DEF DoneGrows
<1>8. QED
  BY <1>1, <1>5, <1>6, <1>7 DEF BooksOK, Backed, Squared

\* A status is written only with what the entry says.
LEMMA StatusSpend ==
    ASSUME IInv, UNCHANGED <<ledgers, exports>>,
           \A sa \in Accounts :
               \/ quota'[sa] = quota[sa]
               \/ quota'[sa].status.spent = Unset
               \/ /\ quota[sa] # Absent
                  /\ quota'[sa].status.spent = quota[sa].status.spent
               \/ \E r \in Replicas :
                      /\ ledgers[<<r, sa>>] # Absent
                      /\ quota'[sa].status.spent = ledgers[<<r, sa>>].spent
    PROVE  BooksOK' /\ DoneGrows
<1>1. BooksOK'
  BY DEF IInv, SpendInv, BooksOK, Backed
<1>2. ASSUME NEW sa \in Accounts
      PROVE  Done(exports, sa) \in Nat
  <2>1. exports \in Seq(Request) /\ Paid(sa) \in Weights
    BY PaidFacts DEF IInv, ReceiverInv, ReceiverTypeOK
  <2>2. QED
    BY <2>1, IntactType
<1>3. QED
  BY <1>1, <1>2 DEF DoneGrows

\* Every step keeps the books.
LEMMA SpendStep == IInv /\ [Next]_vars => SpendInv'
<1> SUFFICES ASSUME IInv, [Next]_vars
             PROVE  SpendInv'
  OBVIOUS
<1>1. ASSUME UNCHANGED <<ledgers, exports, quota>>
      PROVE  BooksOK' /\ DoneGrows
  BY <1>1, StatusSpend
<1>2. ASSUME NEW r \in Replicas, Crash(r)
      PROVE  BooksOK' /\ DoneGrows
  BY <1>2, CrashSpend
<1>3. ASSUME NEW sa \in Accounts, CreateQuota(sa)
      PROVE  BooksOK' /\ DoneGrows
  <2>1. /\ UNCHANGED <<ledgers, exports>>
        /\ quota' = [quota EXCEPT ![sa] = NewQuota(sa)]
        /\ quota \in [Accounts -> Ledgers!TokenQuota \cup {Absent}]
    BY <1>3, StoreFacts
       DEF CreateQuota, receiverVars, IInv, ControlInv, TypeOK
  <2>2. \A sb \in Accounts :
            quota'[sb] = quota[sb] \/ quota'[sb].status.spent = Unset
    BY <2>1 DEF NewQuota
  <2>3. QED
    BY <2>1, <2>2, StatusSpend
<1>4. ASSUME NEW r \in Replicas, NEW sa \in Accounts, SyncStep(r, sa)
      PROVE  BooksOK' /\ DoneGrows
  BY <1>4, SyncSpend
<1>5. ASSUME NEW r \in Replicas, OpenStep(r)
      PROVE  BooksOK' /\ DoneGrows
  <2>1. /\ UNCHANGED <<ledgers, exports>> /\ held[r] # Absent
        /\ DOMAIN quota = Accounts
    BY <1>5 DEF OpenStep, receiverVars, IInv, ControlInv, TypeOK
  <2>2. CASE Current(r)
    <3> DEFINE sa == held[r].sa
    <3>1. /\ sa \in Accounts /\ held[r].tq \in Ledgers!TokenQuota
          /\ quota[sa] = held[r].tq
      BY <2>1, <2>2, HeldFields DEF IInv, Current
    <3>2. quota[sa] # Absent
      BY <3>1, BudgetsAssumption
    <3>3. /\ quota' = [quota EXCEPT ![sa] = quota'[sa]]
          /\ quota'[sa].status.spent = quota[sa].status.spent
      BY <1>5, <2>2, <3>1, OpenFields DEF IInv
    <3>4. \A sb \in Accounts :
              \/ quota'[sb] = quota[sb]
              \/ /\ quota[sb] # Absent
                 /\ quota'[sb].status.spent = quota[sb].status.spent
      BY <2>1, <3>1, <3>2, <3>3
    <3>5. QED
      BY <2>1, <3>4, StatusSpend
  <2>3. CASE ~Current(r)
    BY <1>1, <1>5, <2>1, <2>3 DEF OpenStep, quotaVars
  <2>4. QED
    BY <2>2, <2>3
<1>6. ASSUME NEW r \in Replicas, ReportStep(r)
      PROVE  BooksOK' /\ DoneGrows
  <2>1. /\ UNCHANGED <<ledgers, exports>> /\ held[r] # Absent
        /\ DOMAIN quota = Accounts
    BY <1>6 DEF ReportStep, receiverVars, IInv, ControlInv, TypeOK
  <2>2. CASE Current(r)
    <3> DEFINE sa == held[r].sa
    <3>1. sa \in Accounts /\ ledgers[<<r, sa>>] # Absent
      BY <2>1, HeldFields DEF IInv
    <3>2. /\ quota' = [quota EXCEPT ![sa] = quota'[sa]]
          /\ quota'[sa].status.spent = ledgers[<<r, sa>>].spent
      BY <1>6, <2>2, ReportFields DEF IInv
    <3>3. \A sb \in Accounts :
              \/ quota'[sb] = quota[sb]
              \/ /\ ledgers[<<r, sb>>] # Absent
                 /\ quota'[sb].status.spent = ledgers[<<r, sb>>].spent
      BY <2>1, <3>1, <3>2
    <3>4. QED
      BY <2>1, <3>3, StatusSpend
  <2>3. CASE ~Current(r)
    BY <1>1, <1>6, <2>1, <2>3 DEF ReportStep, quotaVars
  <2>4. QED
    BY <2>2, <2>3
<1>7. ASSUME Receive
      PROVE  BooksOK' /\ DoneGrows
  <2>1. UNCHANGED quota
    BY <1>7 DEF Receive, quotaVars
  <2>2. ASSUME NEW b \in Workload[elects], NEW r \in Replicas, Export(b, r)
        PROVE  BooksOK' /\ DoneGrows
    BY <2>1, <2>2, Posted, ExportSpend DEF IInv
  <2>3. ASSUME NEW n \in DOMAIN exports, HandleSpan(n)
        PROVE  BooksOK' /\ DoneGrows
    BY <2>1, <2>3, HandleSpend
  <2>4. ASSUME NEW n \in DOMAIN exports, Answer(n)
        PROVE  BooksOK' /\ DoneGrows
    <3>1. /\ ledgers' = ledgers /\ ReceiverTypeOK
      BY <2>4 DEF Answer, IInv, ReceiverInv
    <3>2. /\ exports' \in Seq(Request) /\ DOMAIN exports' = DOMAIN exports
          /\ \A m \in DOMAIN exports : /\ exports'[m].batch = exports[m].batch
                                       /\ exports'[m].at = exports[m].at
                                       /\ exports'[m].next = exports[m].next
                                       /\ exports'[m].intact = exports[m].intact
      BY <2>4, <3>1, AnswerRequests
    <3>3. ASSUME NEW r \in Replicas
          PROVE  Intact(exports', r) \in SUBSET Intact(exports, r)
      BY <3>2 DEF Intact
    <3>4. ASSUME NEW r \in Replicas, NEW sa \in Accounts
          PROVE  /\ Done(exports', sa) = Done(exports, sa)
                 /\ Done(exports, sa) \in Nat
                 /\ Squared(exports', r, sa, ledgers[<<r, sa>>])
      <4>1. \A m \in DOMAIN exports : /\ exports'[m].batch = exports[m].batch
                                      /\ exports'[m].next = exports[m].next
        BY <3>2
      <4>2. QED
        BY <3>2, <3>3, <4>1, SpendKept
    <3>5. PICK r \in Replicas : TRUE
      BY <2>4, <3>1, NothingAssumption, RequestFields
         DEF Answer, ReceiverTypeOK
    <3>6. ASSUME NEW sa \in Accounts
          PROVE  /\ Done(exports', sa) = Done(exports, sa)
                 /\ Done(exports, sa) \in Nat
                 /\ Backed(quota[sa], exports', sa)
      <4>1. Done(exports', sa) = Done(exports, sa) /\ Done(exports, sa) \in Nat
        BY <3>4, <3>5
      <4>2. QED
        BY <4>1 DEF IInv, SpendInv, BooksOK, Backed
    <3>7. DoneGrows
      BY <3>6 DEF DoneGrows
    <3>8. QED
      BY <2>1, <3>1, <3>4, <3>6, <3>7 DEF BooksOK, Squared
  <2>5. QED
    BY <1>7, <2>2, <2>3, <2>4 DEF Receive
<1>8. ASSUME UNCHANGED vars
      PROVE  BooksOK' /\ DoneGrows
  BY <1>1, <1>8 DEF vars, receiverVars, quotaVars
<1>9. ASSUME NEW r \in Replicas, Elect(r) \/ Start(r)
      PROVE  BooksOK' /\ DoneGrows
  BY <1>1, <1>9 DEF Elect, Start, receiverVars
<1>10. ASSUME NEW p \in AgentPods, NEW r \in Replicas,
              Admit(p, r) \/ AdmitUnreviewed(p, r)
       PROVE  BooksOK' /\ DoneGrows
  BY <1>1, <1>10 DEF Admit, AdmitUnreviewed, receiverVars, quotaVars
<1>11. ASSUME NEW r \in Replicas, NEW sa \in Accounts, See(r, sa)
       PROVE  BooksOK' /\ DoneGrows
  BY <1>1, <1>11 DEF See, receiverVars
<1>12. BooksOK' /\ DoneGrows
  BY <1>2, <1>3, <1>4, <1>5, <1>6, <1>7, <1>8, <1>9, <1>10, <1>11 DEF Next
<1>13. FeedsBacked'
  <2>1. FeedsFollow /\ TypeOK'
    BY StepFeeds, ControlStep DEF IInv, ControlInv
  <2>2. QED
    BY <1>12, <2>1, FeedsBackedKept DEF BooksOK
<1>14. QED
  BY <1>12, <1>13 DEF SpendInv

-----------------------------------------------------------------------------
(* The theorems.                                                            *)

\* To begin with there is nothing to account for.
LEMMA InitInv == Init => IInv
<1> SUFFICES ASSUME Init
             PROVE  IInv
  OBVIOUS
<1>1. ReceiverInv
  BY ReceiverInitInv DEF Init
<1>2. /\ exports = <<>> /\ up = Replicas /\ leader = Absent
      /\ elects \in BOOLEAN /\ running = {} /\ crashes = 0
      /\ held = [r \in Replicas |-> Absent]
      /\ quota = [sa \in Accounts |-> Absent]
      /\ feed = [key \in Replicas \X Accounts |-> <<Absent>>]
      /\ told = {}
      /\ \A r \in Replicas, sa \in Accounts : ledgers[<<r, sa>>] = Absent
  BY ElectionsAssumption DEF Init, ReceiverInit
<1>3. TypeOK
  BY <1>1, <1>2 DEF TypeOK, ReceiverInv
<1>4. QuotasOK /\ HeldOK /\ EntriesOK /\ FeedsOK /\ ToldOK
  <2>1. ASSUME NEW r \in Replicas, NEW sa \in Accounts
        PROVE  FeedOK(sa, feed[<<r, sa>>], quota[sa])
    <3>1. feed[<<r, sa>>] = <<Absent>>
      BY <1>2
    <3>2. /\ Len(feed[<<r, sa>>]) = 1
          /\ \A i \in 1 .. 1 : feed[<<r, sa>>][i] = Absent
      BY <3>1
    <3>3. QED
      BY <3>2 DEF FeedOK, Exceeds
  <2>2. QED
    BY <1>2, <2>1 DEF QuotasOK, HeldOK, EntriesOK, FeedsOK, ToldOK
<1>5. IsFiniteSet(Existing)
  <2>1. Existing = {}
    BY <1>2 DEF Existing
  <2>2. QED
    BY <2>1, FS_EmptySet
<1>6. SpendInv
  <2>1. \A r \in Replicas, sa \in Accounts :
            \A i \in 1 .. Len(feed[<<r, sa>>]) : feed[<<r, sa>>][i] = Absent
    BY <1>2
  <2>2. QED
    BY <1>2, <2>1 DEF SpendInv, BooksOK, FeedsBacked, Backed, Intact
<1>7. QED
  BY <1>1, <1>3, <1>4, <1>5, <1>6 DEF IInv, ControlInv

\* The invariant is inductive.
LEMMA Inductive == Spec => []IInv
<1>1. Init => IInv
  BY InitInv
<1>2. IInv /\ [Next]_vars => IInv'
  BY ReceiverStep, ControlStep, SpendStep DEF IInv
<1>3. QED
  BY <1>1, <1>2, PTL DEF Spec

\* The state of all processes keeps its types, whatever crashes and elections
\* do to it, and whoever writes a status (cmd/main.go:46-119).
THEOREM TypeCorrect == Spec => []TypeOK
<1>1. IInv => TypeOK
  BY DEF IInv, ControlInv
<1>2. QED
  BY <1>1, Inductive, PTL

\* Concurrent handlers neither lose a call nor record one twice, for any
\* batches, exporters and processes (receiver.go:172-204).
THEOREM CallsAreRecorded == Spec => []CallsMatchExports
<1>1. IInv => CallsMatchExports
  BY CallsMatch DEF IInv
<1>2. QED
  BY <1>1, Inductive, PTL

\* The money that the statuses and the ledgers show is money that was billed.
LEMMA SpendMatches == IInv => SpendMatchesExports
<1> SUFFICES ASSUME IInv, NEW sa \in Accounts
             PROVE  LET owed == [b \in Batches |-> Worth(b, sa)]
                        sent == Total(owed, DOMAIN exports)
                    IN  /\ quota[sa] # Absent /\ quota[sa].status.spent # Unset
                               => quota[sa].status.spent <= sent
                        /\ \A r \in Replicas :
                               LET entry    == ledgers[<<r, sa>>]
                                   finished == {n \in DOMAIN exports :
                                                    /\ exports[n].at = r
                                                    /\ exports[n].intact
                                                    /\ Handled(exports[n])}
                               IN  /\ Total(owed, finished) > 0 => entry # Absent
                                   /\ entry # Absent =>
                                          /\ Total(owed, finished) <= entry.spent
                                          /\ entry.spent <= sent
  BY DEF SpendMatchesExports
<1> DEFINE owed == [b \in Batches |-> Worth(b, sa)]
           sent == Total(owed, DOMAIN exports)
<1>1. exports \in Seq(Request) /\ ReceiverTypeOK
  BY DEF IInv, ReceiverInv, ReceiverTypeOK
<1>2. /\ Paid(sa) \in Weights
      /\ owed \in [Batches -> Nat]
      /\ \A b \in Batches : \A k \in Nat \ {0} :
             /\ Paid(sa)[b][k] <= owed[b]
             /\ k > Len(SpansOf[b]) => Paid(sa)[b][k] = owed[b]
  BY <1>1, PaidFacts
<1> HIDE DEF owed
<1>3. sent \in Nat /\ Done(exports, sa) \in Nat /\ Done(exports, sa) <= sent
  BY <1>1, <1>2, TotalBounds DEF Done
<1> HIDE DEF sent
<1>4. ASSUME quota[sa] # Absent, quota[sa].status.spent # Unset
      PROVE  quota[sa].status.spent <= sent
  <2>1. quota[sa] \in Ledgers!TokenQuota
    BY <1>4 DEF IInv, ControlInv, TypeOK
  <2>2. quota[sa].status.spent \in Nat
    BY <1>4, <2>1, QuotaFields
  <2>3. quota[sa].status.spent <= Done(exports, sa)
    BY <1>4 DEF IInv, SpendInv, BooksOK, Backed
  <2>4. QED
    BY <1>3, <2>2, <2>3
<1>5. ASSUME NEW r \in Replicas
      PROVE  LET entry    == ledgers[<<r, sa>>]
                 finished == {n \in DOMAIN exports : /\ exports[n].at = r
                                                     /\ exports[n].intact
                                                     /\ Handled(exports[n])}
             IN  /\ Total(owed, finished) > 0 => entry # Absent
                 /\ entry # Absent =>
                        /\ Total(owed, finished) <= entry.spent
                        /\ entry.spent <= sent
  <2> DEFINE entry    == ledgers[<<r, sa>>]
             finished == {n \in DOMAIN exports : /\ exports[n].at = r
                                                 /\ exports[n].intact
                                                 /\ Handled(exports[n])}
  <2>1. /\ finished \in SUBSET Intact(exports, r)
        /\ finished \in SUBSET DOMAIN exports
        /\ Intact(exports, r) \in SUBSET DOMAIN exports
        /\ \A n \in finished : Handled(exports[n])
    BY DEF Intact
  <2> HIDE DEF finished
  <2>2. /\ Total(owed, finished) \in Nat
        /\ Total(owed, finished) = Weighed(Paid(sa), exports, finished)
    BY <1>1, <1>2, <2>1, TotalBounds
  <2>3. /\ Weighed(Paid(sa), exports, finished) <= Kept(exports, r, sa)
        /\ Kept(exports, r, sa) \in Nat
    BY <1>1, <1>2, <2>1, WeighedSubset, IntactType DEF Kept
  <2>4. ASSUME entry = Absent
        PROVE  Total(owed, finished) = 0
    <3> DEFINE f == [n \in DOMAIN exports |->
                         Paid(sa)[exports[n].batch][exports[n].next]]
    <3>1. ASSUME NEW n \in finished
          PROVE  f[n] = 0
      <4>1. /\ exports[n].batch \in Batches /\ exports[n].next \in Nat \ {0}
            /\ f[n] = Paid(sa)[exports[n].batch][exports[n].next]
        BY <1>1, <2>1, RequestFields
      <4>2. ~Bills(exports[n].batch, sa)
        BY <2>1, <2>4 DEF IInv, SpendInv, BooksOK, Backed
      <4>3. QED
        BY <1>1, <4>1, <4>2, PaidFacts
    <3>2. IsFiniteSet(finished)
      BY <1>1, <1>2, <2>1, WeighedType
    <3>3. SumFunctionOnSet(f, finished) = 0
      <4> HIDE DEF f
      <4>1. QED
        BY <3>1, <3>2, SumOfZeros
    <3>4. QED
      BY <2>2, <3>3 DEF Weighed
  <2>5. ASSUME entry # Absent
        PROVE  Total(owed, finished) <= entry.spent /\ entry.spent <= sent
    <3>1. ledgers[<<r, sa>>] \in Ledgers!Entry
      BY <1>1, <2>5 DEF ReceiverTypeOK, Ledgers!LedgerTypeOK
    <3>2. entry.spent \in Nat
      BY <3>1 DEF Ledgers!Entry
    <3>3. Kept(exports, r, sa) <= entry.spent /\ entry.spent <= Done(exports, sa)
      BY <2>5 DEF IInv, SpendInv, BooksOK, Backed
    <3>4. QED
      BY <1>3, <2>2, <2>3, <3>2, <3>3
  <2>6. QED
    BY <2>4, <2>5 DEF finished
<1>6. QED
  BY <1>4, <1>5 DEF owed, sent

\* Money is neither lost nor made up, for any number of processes, accounts,
\* batches, retries and crashes, and whatever table a process has
\* (receiver.go:206-240, pricing.go:92-112, cache.go:124-142).
THEOREM MoneyMatchesExports == Spec => []SpendMatchesExports
BY SpendMatches, Inductive, PTL

\* An entry whose verdict denies makes the webhook deny: nothing is overdue.
LEMMA EntryDenies ==
    ASSUME ReceiverTypeOK, NEW r \in Replicas, NEW sa \in Accounts,
           ledgers[<<r, sa>>] # Absent,
           ledgers[<<r, sa>>].state \in Ledgers!Denying
    PROVE  Denies(r, sa)
<1>1. ledgers[<<r, sa>>] \in Ledgers!Entry
  BY DEF ReceiverTypeOK, Ledgers!LedgerTypeOK
<1>2. ledgers[<<r, sa>>].renewal \in Nat \cup {Unset}
  BY <1>1 DEF Ledgers!Entry
<1>3. ~Ledgers!Elapsed(ledgers[<<r, sa>>].renewal)
  BY <1>2 DEF Ledgers!Elapsed
<1>4. QED
  BY <1>3 DEF Denies, Ledgers!Verdict, Ledgers!Check

\* Once the Reconcile of a process has read a verdict, the process denies as
\* long as it lives and the verdict lasts, with any number of processes, stale
\* copies and conflicts (cache.go:86-142, controller:38-47, 80-91).
THEOREM TheToldDeny == Spec => []OnlyTheUntoldAdmit
<1>1. IInv => OnlyTheUntoldAdmit
  <2> SUFFICES ASSUME IInv, NEW sa \in Accounts, NEW r \in up,
                      <<r, sa>> \in told
               PROVE  Denies(r, sa) /\ Exhausted(sa)
    BY DEF OnlyTheUntoldAdmit
  <2>1. r \in Replicas /\ ReceiverTypeOK
    BY DEF IInv, ControlInv, TypeOK
  <2>2. /\ Exceeds(Copy(r, sa))
        /\ ledgers[<<r, sa>>] # Absent
        /\ ledgers[<<r, sa>>].state \in Ledgers!Denying
    BY <2>1 DEF IInv, ControlInv, ToldOK
  <2>3. Exhausted(sa)
    BY <2>1, <2>2, CopyFields DEF IInv
  <2>4. QED
    BY <2>1, <2>2, <2>3, EntryDenies
<1>2. QED
  BY <1>1, Inductive, PTL

-----------------------------------------------------------------------------
(* The refinement.                                                          *)

\* A status that is replaced under a spec that stays.
LEMMA StatusReplaced ==
    ASSUME ControlInv, NEW r \in Replicas, held[r] # Absent, Current(r),
           quota' = [quota EXCEPT ![held[r].sa] = quota'[held[r].sa]],
           quota'[held[r].sa] \in Ledgers!TokenQuota,
           quota'[held[r].sa] = [spec   |-> held[r].tq.spec,
                                 status |-> quota'[held[r].sa].status],
           LET old == held[r].tq.status
               new == quota'[held[r].sa].status
           IN  Durable!Opens(old, new) \/ Durable!Charges(old, new)
    PROVE  Durable!OperatorStep
<1> DEFINE sa  == held[r].sa
           old == held[r].tq
           new == quota'[sa].status
<1>1. /\ sa \in Accounts /\ quota[sa] = old /\ old \in Ledgers!TokenQuota
      /\ quota \in [Accounts -> Ledgers!TokenQuota \cup {Absent}]
  BY HeldFields DEF Current, ControlInv, TypeOK
<1>2. quota[sa] # Absent /\ quota'[sa] # Absent
  BY <1>1, BudgetsAssumption
<1>3. quota' = [quota EXCEPT ![sa].status = new]
  <2>1. old = [spec |-> old.spec, status |-> old.status]
    BY <1>1 DEF Ledgers!TokenQuota
  <2>2. [old EXCEPT !.status = new] = [spec |-> old.spec, status |-> new]
    <3> HIDE DEF new, old
    <3>1. QED
      BY <2>1
  <2>3. quota'[sa] = [quota[sa] EXCEPT !.status = new]
    BY <1>1, <2>2
  <2>4. quota' = [quota EXCEPT ![sa] = [quota[sa] EXCEPT !.status = new]]
    BY <2>3
  <2> HIDE DEF new, sa
  <2>5. QED
    BY <1>1, <2>4
<1>4. Existing' = Existing
  BY <1>1, <1>2 DEF Existing
<1>5. /\ Durable!Exists(sa)
      /\ Durable!Opens(quota[sa].status, new)
             \/ Durable!Charges(quota[sa].status, new)
  BY <1>1, <1>2 DEF Durable!Exists
<1>6. UNCHANGED <<0, Cardinality(Existing)>>
  BY <1>4
<1>7. QED
  BY <1>1, <1>3, <1>5, <1>6 DEF Durable!OperatorStep

\* Every step of the processes is a step of the abstract operator, of a user,
\* or none.
LEMMA StepSimulates == IInv /\ [Next]_vars => [Durable!Next]_(Durable!vars)
<1> SUFFICES ASSUME IInv, [Next]_vars
             PROVE  Durable!Next \/ UNCHANGED Durable!vars
  OBVIOUS
<1>1. ControlInv /\ ReceiverTypeOK'
  BY ReceiverStep DEF IInv, ReceiverInv
<1>2. ASSUME UNCHANGED quota
      PROVE  UNCHANGED Durable!vars
  BY <1>2 DEF Durable!vars, Existing
<1>3. ASSUME NEW sa \in Accounts, CreateQuota(sa)
      PROVE  Durable!UserStep
  <2>1. Existing' = Existing \cup {sa} /\ sa \notin Existing
        /\ IsFiniteSet(Existing)
    BY <1>1, <1>3, CreateControl DEF ControlInv
  <2>2. Cardinality(Existing') = Cardinality(Existing) + 1
    BY <2>1, FS_AddElement
  <2>3. Durable!Create(sa)
    <3>1. BudgetOf[sa] \in {BudgetOf[sb] : sb \in Accounts}
      OBVIOUS
    <3>2. quota[sa] = Absent /\ quota' = [quota EXCEPT ![sa] = NewQuota(sa)]
      BY <1>1, <1>3, StoreFacts DEF CreateQuota
    <3>3. QED
      BY <3>1, <3>2
         DEF NewQuota, Durable!Create, Durable!Exists, Durable!Blank
  <2>4. QED
    BY <2>2, <2>3 DEF Durable!UserStep
<1>4. ASSUME NEW r \in Replicas, OpenStep(r), Current(r)
      PROVE  Durable!OperatorStep
  <2> DEFINE sa  == held[r].sa
             old == held[r].tq
             new == quota'[sa]
  <2>1. held[r] # Absent /\ old.status.renewal = Unset
    BY <1>4 DEF OpenStep
  <2>2. QuotaOK(sa, old)
    BY <1>1, <2>1, HeldFields
  <2>3. /\ quota' = [quota EXCEPT ![sa] = new]
        /\ new \in Ledgers!TokenQuota
        /\ new = [spec |-> old.spec, status |-> new.status]
        /\ new.status.state = "Active"
        /\ new.status.renewal = 1
        /\ new.status.spent = old.status.spent
        /\ new.status.runs = old.status.runs
    BY <1>1, <1>4, OpenFields
  <2>4. Durable!Opens(old.status, new.status)
    BY <2>1, <2>2, <2>3 DEF Durable!Opens, QuotaOK
  <2>5. QED
    BY <1>1, <1>4, <2>1, <2>3, <2>4, StatusReplaced
<1>5. ASSUME NEW r \in Replicas, ReportStep(r), Current(r)
      PROVE  Durable!OperatorStep
  <2> DEFINE sa    == held[r].sa
             old   == held[r].tq
             new   == quota'[sa]
             entry == ledgers[<<r, sa>>]
  <2>1. held[r] # Absent /\ old.status.renewal # Unset
    BY <1>5 DEF ReportStep
  <2>2. entry \in Ledgers!Entry /\ Covers(entry, old.status)
    BY <1>1, <2>1, HeldFields
  <2>3. /\ quota' = [quota EXCEPT ![sa] = new]
        /\ new \in Ledgers!TokenQuota
        /\ new = [spec |-> old.spec, status |-> new.status]
        /\ new.status.state = entry.state
        /\ new.status.renewal = old.status.renewal
        /\ new.status.spent = entry.spent
        /\ new.status.runs = entry.runs
    BY <1>1, <1>5, ReportFields
  <2>4. entry.spent \in Nat /\ entry.state \in Ledgers!QuotaStates
    BY <2>2 DEF Ledgers!Entry
  <2>5. Durable!Charges(old.status, new.status)
    BY <2>1, <2>2, <2>3, <2>4 DEF Durable!Charges, Covers
  <2>6. QED
    BY <1>1, <1>5, <2>1, <2>3, <2>5, StatusReplaced
<1>6. ASSUME NEW r \in Replicas, OpenStep(r) \/ ReportStep(r), ~Current(r)
      PROVE  UNCHANGED quota
  BY <1>6 DEF OpenStep, ReportStep, quotaVars
<1>7. ASSUME NEW r \in Replicas, Elect(r) \/ Crash(r) \/ Start(r)
      PROVE  UNCHANGED quota
  BY <1>7 DEF Elect, Crash, Start
<1>8. ASSUME NEW r \in Replicas, NEW sa \in Accounts, SyncStep(r, sa)
      PROVE  UNCHANGED quota
  BY <1>8 DEF SyncStep, quotaVars
<1>9. ASSUME NEW p \in AgentPods, NEW r \in Replicas,
             Admit(p, r) \/ AdmitUnreviewed(p, r)
      PROVE  UNCHANGED quota
  BY <1>9 DEF Admit, AdmitUnreviewed, quotaVars
<1>10. CASE Receive \/ UNCHANGED vars
  BY <1>2, <1>10 DEF Receive, vars, quotaVars
<1>11. ASSUME NEW r \in Replicas, NEW sa \in Accounts, See(r, sa)
       PROVE  UNCHANGED quota
  BY <1>11 DEF See
<1>12. QED
  BY <1>2, <1>3, <1>4, <1>5, <1>6, <1>7, <1>8, <1>9, <1>10, <1>11
     DEF Next, Durable!Next

\* Any number of processes, with leader election or without, implement
\* DurableQuota: what one reconciler owes the durable record several keep as
\* well (controller:46-92, main.go:71-77).
THEOREM ReplicasKeepTheRecord == Spec => DurableRecordKept
<1>1. Init => Durable!Init
  <2> SUFFICES ASSUME Init
               PROVE  Durable!Init
    OBVIOUS
  <2>1. quota = [sa \in Accounts |-> Absent]
    BY DEF Init
  <2>2. Existing = {}
    BY <2>1 DEF Existing
  <2>3. Cardinality(Existing) = 0
    BY <2>2, FS_EmptySet
  <2>4. QED
    BY <2>1, <2>3 DEF Durable!Init
<1>2. IInv /\ [Next]_vars => [Durable!Next]_(Durable!vars)
  BY StepSimulates
<1>3. QED
  BY <1>1, <1>2, Inductive, PTL DEF Spec, DurableRecordKept, Durable!Spec
=============================================================================
