---------------------------- MODULE DurableQuota ----------------------------
(***************************************************************************)
(* What the operator owes the durable record of a TokenQuota.  README.md   *)
(* calls TokenQuota.status "the durable source" and tokenquota_types.go    *)
(* calls spentUSD "the total cost recorded in the current renewal period". *)
(* Nothing here knows about the ledger, the informer or the work queue:    *)
(* whatever they do, and in whatever order, the status of a quota moves    *)
(* only by Open, Charge and Renew, and by its users.                       *)
(***************************************************************************)
EXTENDS Integers

CONSTANTS
    Quotas, Specs, States,   \* names, what users may ask for, verdicts
    Absent, Unset            \* no object, a field nobody has written

VARIABLES
    durable,   \* durable[q]: Absent, or a spec and a status
    now,       \* the wall clock
    edits      \* how many times users have written an object

vars == <<durable, now, edits>>

Exists(q) == durable[q] # Absent

Init == /\ durable = [q \in Quotas |-> Absent]
        /\ now = 0
        /\ edits = 0

Blank == [state |-> Unset, spent |-> Unset, runs |-> 0,
          renewal |-> Unset, updated |-> Unset]

Create(q) ==
    /\ ~Exists(q)
    /\ \E spec \in Specs :
           durable' = [durable EXCEPT ![q] = [spec |-> spec, status |-> Blank]]

\* Users touch the spec and the state, never the account of the spend.
Edit(q) ==
    /\ Exists(q)
    /\ \/ \E spec \in Specs : durable' = [durable EXCEPT ![q].spec = spec]
       \/ \E state \in States :
              durable' = [durable EXCEPT ![q].status.state = state]

Remove(q) == Exists(q) /\ durable' = [durable EXCEPT ![q] = Absent]

UserStep == /\ \E q \in Quotas : Create(q) \/ Edit(q) \/ Remove(q)
            /\ edits' = edits + 1
            /\ UNCHANGED now

\* The first period gets its end, and nothing else is decided.
Opens(old, new) ==
    /\ old.renewal = Unset /\ new.renewal \in Nat
    /\ new.state = (IF old.state = Unset THEN "Active" ELSE old.state)
    /\ new.spent = old.spent /\ new.runs = old.runs

\* Runs are charged: within a period spend and runs only grow, and without a
\* new run neither the spend nor the verdict moves.
Charges(old, new) ==
    /\ old.renewal # Unset /\ new.renewal = old.renewal
    /\ new.spent \in Nat /\ new.state \in States
    /\ new.runs >= old.runs
    /\ old.spent # Unset =>
           /\ new.spent >= old.spent
           /\ new.runs = old.runs => new.spent = old.spent
                                     /\ new.state = old.state

\* The account is cleared only after the date it was promised for, and the
\* next period ends later.
Renews(old, new) ==
    /\ old.renewal # Unset /\ now > old.renewal /\ new.renewal > old.renewal
    /\ new.spent = 0 /\ new.runs = 0 /\ new.state = "Active"

OperatorStep ==
    /\ \E q \in Quotas :
           LET old == durable[q].status
               new == durable'[q].status
           IN  /\ Exists(q)
               /\ durable' = [durable EXCEPT ![q].status = new]
               /\ Opens(old, new) \/ Charges(old, new) \/ Renews(old, new)
    /\ UNCHANGED <<now, edits>>

Tick == now' = now + 1 /\ UNCHANGED <<durable, edits>>

Next == UserStep \/ OperatorStep \/ Tick

Spec == Init /\ [][Next]_vars
=============================================================================
