------------------------------ MODULE Registry ------------------------------
(***************************************************************************)
(* What an administrator who registers users may rely on (the limits of      *)
(* users/utils/constants.py, the constraints of users/models/credentials.py  *)
(* and the errors of users/utils/exceptions.py): every registration is one   *)
(* step that either adds an account within the limits or is refused for a    *)
(* reason that holds.  No lock, no count and no unique index appears here.   *)
(***************************************************************************)
EXTENDS Naturals, FiniteSets

CONSTANTS Requests, MaxStudents

VARIABLES
  want,       \* what each request asks for
  accounts,   \* the requests whose accounts exist
  outcome     \* how each request was answered

vars == <<want, accounts, outcome>>

IsStudent(r) == want[r].type = "STUDENT"

(* The pools in which a contact is shared: students, and everybody else.     *)
SamePool(r, s) == IsStudent(r) <=> IsStudent(s)

Limit(r) == IF IsStudent(r) THEN MaxStudents ELSE 1

PhoneFull(r) ==
  Cardinality({s \in accounts : SamePool(r, s) /\ want[s].phone = want[r].phone})
    >= Limit(r)

EmailFull(r) ==
  Cardinality({s \in accounts : SamePool(r, s) /\ want[s].email = want[r].email})
    >= Limit(r)

UsernameTaken(r) == \E s \in accounts : want[s].username = want[r].username

(* The request's idempotency key has registered something else. *)
KeyUsed(r) ==
  \E s \in accounts : want[s].key = want[r].key /\ want[s] # want[r]

(* One key registers one account, of whatever payload.                       *)
Register(r) ==
  /\ \A s \in accounts : want[s].key # want[r].key
  /\ ~ PhoneFull(r) /\ ~ EmailFull(r) /\ ~ UsernameTaken(r)
  /\ accounts' = accounts \cup {r}
  /\ UNCHANGED <<want, outcome>>

Answer(r, how) ==
  /\ outcome[r] = "none"
  /\ outcome' = [outcome EXCEPT ![r] = how]
  /\ UNCHANGED <<want, accounts>>

(* Every refusal names something that is so; an error may come at any time. *)
Refuse(r) ==
  \/ PhoneFull(r)     /\ Answer(r, "phone_full")
  \/ EmailFull(r)     /\ Answer(r, "email_full")
  \/ UsernameTaken(r) /\ Answer(r, "username_taken")
  \/ KeyUsed(r)       /\ Answer(r, "mismatch")
  \/ Answer(r, "in_progress")
  \/ Answer(r, "error")

Confirm(r) == r \in accounts /\ Answer(r, "created")

(* The account of an earlier, equal request is shown again. *)
Replay(r) ==
  /\ \E s \in accounts : want[s] = want[r]
  /\ Answer(r, "replayed")

Init ==
  /\ accounts = {}
  /\ outcome = [r \in Requests |-> "none"]

Next ==
  \E r \in Requests : Register(r) \/ Refuse(r) \/ Confirm(r) \/ Replay(r)

Spec == Init /\ [][Next]_vars
=============================================================================
