---------------------------- MODULE Registration ----------------------------
(***************************************************************************)
(* UserServiceAdmin.register_user (users/services/system_admin.py) inside    *)
(* the transaction of RegisterUserUseCase: the advisory locks on the         *)
(* idempotency key and on the contacts, the counts made under them, and, as  *)
(* the last line, the unique indexes of user_credentials and                 *)
(* idempotency_records.                                                      *)
(*                                                                          *)
(* Requests interleave at every await; a statement sees what is committed    *)
(* when it begins (READ COMMITTED).  Registrations bring an identity of      *)
(* their own, so a request, its identity and its account share a name.  An   *)
(* account for an existing identity is never added: its payload has neither  *)
(* the username nor the email that register_user reads.  Idempotency records *)
(* outlive the model: Idempotency has their expiry.                          *)
(***************************************************************************)
EXTENDS Naturals, FiniteSets

CONSTANTS
  Requests,      \* registrations; each is used once
  Wants,         \* what they may ask for: type, username, phone, email, key
  LockOf,        \* compute_lock_key, on phones, emails and keys; not injective
  MaxStudents    \* STUDENT_MAX_SHARED_CONTACT

ASSUME RequestsAssumption    == IsFiniteSet(Requests)
ASSUME MaxStudentsAssumption == MaxStudents \in Nat \ {0}
ASSUME WantsAssumption ==
  \A w \in Wants : w.type \in {"STUDENT", "WORK", "PERSONAL"}

VARIABLES
  want,       \* the payload of each request, and its idempotency key
  accounts,   \* committed rows of user_credentials, by the request
  held,       \* the advisory locks: <<request, namespace>>
  pc,         \* where each request is
  outcome     \* how it was answered

vars == <<want, accounts, held, pc, outcome>>

Namespaces == {"key", "phone", "email"}

Outcomes == {"none", "created", "replayed", "mismatch", "in_progress",
             "phone_full", "email_full", "username_taken", "conflict", "error"}

(* An advisory lock belongs to an open transaction. *)
TypeOK ==
  /\ want \in [Requests -> Wants]
  /\ accounts \subseteq Requests
  /\ held \subseteq {r \in Requests : pc[r] \notin {"idle", "respond", "ended"}}
                     \X Namespaces
  /\ pc \in [Requests -> {"idle", "locks", "count_phone", "count_email",
                          "insert", "indexed", "inserted", "stored", "respond",
                          "ended"}]
  /\ outcome \in [Requests -> Outcomes]

Init ==
  /\ want \in [Requests -> Wants]
  /\ accounts = {}
  /\ held = {}
  /\ pc = [r \in Requests |-> "idle"]
  /\ outcome = [r \in Requests |-> "none"]

----------------------------------------------------------------------------
Goto(r, point) == pc' = [pc EXCEPT ![r] = point]

(* The transaction of a request ends with its answer. *)
Answer(r, how) ==
  /\ Goto(r, "ended")
  /\ outcome' = [outcome EXCEPT ![r] = how]
  /\ held' = {h \in held : h[1] # r}

IsStudent(r) == want[r].type = "STUDENT"

(* _STUDENT_POOL and _NON_STUDENT_POOL *)
SamePool(r, s) == IsStudent(r) <=> IsStudent(s)

Limit(r) == IF IsStudent(r) THEN MaxStudents ELSE 1

(* Mutant: is_student is negated. *)
BugNeeds(r) ==
  {"key", "phone"} \cup IF IsStudent(r) THEN {} ELSE {"email"}

(* acquire_idempotency_lock, then acquire_contact_locks: only students are   *)
(* counted by email, for the others the unique index stands in.              *)
Needs(r) ==
  {"key", "phone"} \cup IF IsStudent(r) THEN {"email"} ELSE {}

Missing(r) == {n \in Needs(r) : <<r, n>> \notin held}

(* Mutant: both contact locks are requested at once, and come in any order.  *)
BugNextLock(r, n) == n \in Missing(r)

(* The order of the code: key, phone, email. *)
NextLock(r, n) ==
  /\ n \in Missing(r)
  /\ n = "phone" => "key" \notin Missing(r)
  /\ n = "email" => Missing(r) = {"email"}

LockId(r, n) == LockOf[want[r][n]]

LockFree(r, n) ==
  \A h \in held : h[2] = n /\ LockId(h[1], n) = LockId(r, n) => h[1] = r

----------------------------------------------------------------------------
(* The account registered with the request's key; a set of one, if any. *)
Known(r) == {s \in accounts : want[s].key = want[r].key}

(* The stored result, or the refusal of another payload.                     *)
AnswerKnown(r) ==
  \E s \in Known(r) :
    Answer(r, IF want[s] = want[r] THEN "replayed" ELSE "mismatch")

(* The cache in Redis may have the result, and then no lock is needed. *)
Start(r) ==
  /\ pc[r] = "idle"
  /\ AnswerKnown(r) \/ (Goto(r, "locks") /\ UNCHANGED <<held, outcome>>)
  /\ UNCHANGED <<want, accounts>>

(* pg_advisory_xact_lock; after the key's, a stored result is replayed.      *)
TakeLock(r) ==
  /\ pc[r] = "locks"
  /\ \E n \in Namespaces :
       /\ NextLock(r, n)
       /\ LockFree(r, n)
       /\ IF n = "key" /\ Known(r) # {}
            THEN AnswerKnown(r)
            ELSE held' = held \cup {<<r, n>>} /\ UNCHANGED <<pc, outcome>>
  /\ UNCHANGED <<want, accounts>>

Locked(r) ==
  /\ pc[r] = "locks"
  /\ Missing(r) = {}
  /\ Goto(r, "count_phone")
  /\ UNCHANGED <<want, accounts, held, outcome>>

(* lock_timeout is set for the transaction: only the wait for the key's lock *)
(* has an answer of its own.                                                 *)
LockTimeout(r) ==
  /\ pc[r] = "locks"
  /\ \E n \in Namespaces :
       /\ NextLock(r, n)
       /\ ~ LockFree(r, n)
       /\ Answer(r, IF n = "key" THEN "in_progress" ELSE "error")
  /\ UNCHANGED <<want, accounts>>

(* count_by_phone_and_account_type counts the pool ...                       *)
PhoneCount(r) ==
  Cardinality({s \in accounts : SamePool(r, s) /\ want[s].phone = want[r].phone})

(* Mutant: the account type is not looked at. *)
BugEmailCount(r) ==
  Cardinality({s \in accounts : want[s].email = want[r].email})

(* ... count_by_email_and_account_type the account type itself.              *)
EmailCount(r) ==
  Cardinality({s \in accounts :
                 want[s].type = want[r].type /\ want[s].email = want[r].email})

(* check_contact_limit *)
CountPhone(r) ==
  /\ pc[r] = "count_phone"
  /\ IF PhoneCount(r) >= Limit(r)
       THEN Answer(r, "phone_full")
       ELSE Goto(r, "count_email") /\ UNCHANGED <<held, outcome>>
  /\ UNCHANGED <<want, accounts>>

CountEmail(r) ==
  /\ pc[r] = "count_email"
  /\ IF EmailCount(r) >= Limit(r)
       THEN Answer(r, "email_full")
       ELSE Goto(r, "insert") /\ UNCHANGED <<held, outcome>>
  /\ UNCHANGED <<want, accounts>>

(* uq_user_credentials_username; uix_non_student_unique_email, a partial     *)
(* index: WHERE account_type != 'STUDENT'.                                   *)
SameUsername(r, s) == want[r].username = want[s].username

SameIndexedEmail(r, s) ==
  ~ IsStudent(r) /\ ~ IsStudent(s) /\ want[r].email = want[s].email

(* A row enters one unique index after the other, and each entry waits for   *)
(* the open transactions that have an equal one.                             *)
UsernameWaits(r) ==
  \E s \in Requests \ {r} :
    pc[s] \in {"indexed", "inserted", "stored"} /\ SameUsername(r, s)

EmailWaits(r) ==
  \E s \in Requests \ {r} :
    pc[s] \in {"inserted", "stored"} /\ SameIndexedEmail(r, s)

RecordWaits(r) ==
  \E s \in Requests \ {r} : pc[s] = "stored" /\ want[s].key = want[r].key

(* The flush of the credentials.  PostgreSQL fills the indexes of a table in *)
(* the order in which they were created, so the username comes first; an     *)
(* equal committed value is an error, whose index register_user turns into   *)
(* an answer.                                                                *)
InsertUsername(r) ==
  /\ pc[r] = "insert"
  /\ ~ UsernameWaits(r)
  /\ IF \E s \in accounts : SameUsername(r, s)
       THEN Answer(r, "username_taken")
       ELSE Goto(r, "indexed") /\ UNCHANGED <<held, outcome>>
  /\ UNCHANGED <<want, accounts>>

(* The email is indexed while the entry of the username is there already.    *)
InsertEmail(r) ==
  /\ pc[r] = "indexed"
  /\ ~ EmailWaits(r)
  /\ IF \E s \in accounts : SameIndexedEmail(r, s)
       THEN Answer(r, "email_full")
       ELSE Goto(r, "inserted") /\ UNCHANGED <<held, outcome>>
  /\ UNCHANGED <<want, accounts>>

(* Activation, lockout and email rows clash with nothing.  The idempotency   *)
(* record follows, in an index of its own; nobody handles a clash there.     *)
StoreRecord(r) ==
  /\ pc[r] = "inserted"
  /\ ~ RecordWaits(r)
  /\ IF Known(r) # {}
       THEN Answer(r, "conflict")
       ELSE Goto(r, "stored") /\ UNCHANGED <<held, outcome>>
  /\ UNCHANGED <<want, accounts>>

(* Mutant: session-level locks, which outlive the transaction. *)
BugCommit(r) ==
  /\ pc[r] = "stored"
  /\ accounts' = accounts \cup {r}
  /\ Goto(r, "respond")
  /\ UNCHANGED <<want, held, outcome>>

(* The use case commits all of the rows at once; the advisory locks go.      *)
Commit(r) ==
  /\ pc[r] = "stored"
  /\ accounts' = accounts \cup {r}
  /\ held' = {h \in held : h[1] # r}
  /\ Goto(r, "respond")
  /\ UNCHANGED <<want, outcome>>

Respond(r) ==
  /\ pc[r] = "respond"
  /\ Answer(r, "created")
  /\ UNCHANGED <<want, accounts>>

(* A database error, the timeout of a wait for an index entry, a crash:      *)
(* rolled back, unless it comes after the commit.                            *)
Abort(r) ==
  /\ pc[r] \notin {"idle", "ended"}
  /\ Answer(r, "error")
  /\ UNCHANGED <<want, accounts>>

Done == (\A r \in Requests : pc[r] = "ended") /\ UNCHANGED vars

Progress(r) ==
  \/ TakeLock(r) \/ Locked(r) \/ CountPhone(r) \/ CountEmail(r)
  \/ InsertUsername(r) \/ InsertEmail(r) \/ StoreRecord(r)
  \/ Commit(r) \/ Respond(r)

Next ==
  \/ \E r \in Requests : Start(r) \/ Progress(r) \/ LockTimeout(r) \/ Abort(r)
  \/ Done

Spec == Init /\ [][Next]_vars

(* Neither a timeout nor an error is counted on: a waiter must get its lock  *)
(* because the holders go on.                                                *)
FairSpec == Spec /\ \A r \in Requests : WF_vars(Progress(r))

----------------------------------------------------------------------------
(* Properties. *)

(* A contact is shared by at most STUDENT_MAX_SHARED_CONTACT students and    *)
(* STAFF_AND_GUARDIAN_MAX_SHARED_CONTACT others, however registrations       *)
(* overlap: phones by a lock, students' emails by another, the others'       *)
(* emails by an index over both of their account types.                      *)
ContactLimits ==
  \A r \in accounts :
    /\ PhoneCount(r) <= Limit(r)
    /\ Cardinality({s \in accounts :
                      SamePool(r, s) /\ want[s].email = want[r].email}) <= Limit(r)

(* No registration waits for ever: locks are taken in the order key, phone,  *)
(* email, index entries in the order username, email, record, and whoever    *)
(* has an entry has all of its locks.                                        *)
EventuallyAnswered == \A r \in Requests : pc[r] = "locks" ~> pc[r] = "ended"

(* Every registration takes effect, or is refused for a reason that holds,   *)
(* in one step.                                                              *)
Atomic == INSTANCE Registry

ImplementsRegistry == Atomic!Spec
=============================================================================
