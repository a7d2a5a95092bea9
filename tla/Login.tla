------------------------------- MODULE Login -------------------------------
(***************************************************************************)
(* AuthService.login (auth/services.py) for one account: the lockout row,    *)
(* the table of sessions and the requests that change them.                  *)
(*                                                                          *)
(* Requests interleave at every await.  The database is PostgreSQL at READ   *)
(* COMMITTED: a SELECT sees what is committed, an UPDATE or DELETE takes the *)
(* lock of its row and waits for the one who holds it, and what a            *)
(* transaction writes is seen, and its locks are released, when it commits.  *)
(* SQLAlchemy writes at a flush, and of a row only the columns that differ   *)
(* from those it had loaded; within a flush lockout rows come before session *)
(* rows, deletions last (this order is the library's).                       *)
(***************************************************************************)
EXTENDS Naturals, FiniteSets

CONSTANTS
  Logins,          \* login requests; each is used once
  MaxAttempts,     \* MAX_LOGIN_ATTEMPTS
  LockDuration,    \* LOCKOUT_DURATION_MINUTES, in ticks
  MaxSessions,     \* MAX_SESSIONS_PER_USER
  Statuses,        \* the statuses the account may have
  MaxConcurrent,   \* how many requests are served at a time
  MaxTime          \* bound on the clock

ASSUME LoginsAssumption       == IsFiniteSet(Logins)
ASSUME MaxAttemptsAssumption  == MaxAttempts \in Nat \ {0}
ASSUME LockDurationAssumption == LockDuration \in Nat \ {0}
ASSUME MaxSessionsAssumption  == MaxSessions \in Nat \ {0}
ASSUME BoundsAssumption       == MaxConcurrent \in Nat /\ MaxTime \in Nat

VARIABLES
  now,
  status,     \* user_credentials.status
  lockout,    \* user_login_lockouts: failed_attempts, locked_until (0: NULL)
  sessions,   \* user_sessions: id, created_at, last_active_at (0: NULL)
  lockHeld,   \* the request, if any, that holds the lock of the lockout row
  rowHeld,    \* the requests, each with the session whose row it has locked
  pc,         \* where each request is
  started,    \* when its transaction began
  snap,       \* the lockout row as it loaded it; a failed login: as it writes it
  target,     \* the session row it is to write, when used again, or to evict
  outcome,    \* how it was answered
  evicted,    \* history: the sessions that were evicted
  failures,   \* history: failed logins since the counter was last reset
  overtaken   \* history: the logins that counted, or chose a session to evict,
              \*   before another one changed which sessions there are

vars == <<now, status, lockout, sessions, lockHeld, rowHeld, pc, started, snap,
          target, outcome, evicted, failures, overtaken>>

db    == <<status, lockout, sessions, evicted, failures, overtaken>>
locks == <<lockHeld, rowHeld>>

(* A login creates one session at most, so a session is named after it; the  *)
(* device cookie names the session it was set with.                          *)
SessionRows == [id : Logins, created : Nat, used : Nat]

Lockouts == [failed : Nat, until : Nat]

Points == {"idle", "verify", "wrong", "failing", "device", "reuse", "reuse_row",
           "commit_reuse", "count", "select", "evict", "evict_row", "insert",
           "commit_new", "purge", "ended"}

Outcomes == {"none", "invalid", "locked", "denied", "ok", "cache_error", "error"}

TypeOK ==
  /\ now \in Nat
  /\ status \in Statuses
  /\ lockout \in Lockouts
  /\ sessions \subseteq SessionRows
  /\ lockHeld \subseteq Logins /\ Cardinality(lockHeld) <= 1
  /\ rowHeld \subseteq Logins \X Logins
  /\ pc \in [Logins -> Points]
  /\ started \in [Logins -> Nat]
  /\ snap \in [Logins -> Lockouts]
  /\ target \in [Logins -> SessionRows]
  /\ outcome \in [Logins -> Outcomes]
  /\ evicted \subseteq Logins
  /\ failures \in Nat
  /\ overtaken \subseteq Logins

(* system_admin.register_user has added the lockout row. *)
Init ==
  /\ now = 1
  /\ status \in Statuses
  /\ lockout = [failed |-> 0, until |-> 0]
  /\ sessions = {}
  /\ lockHeld = {} /\ rowHeld = {}
  /\ pc = [r \in Logins |-> "idle"]
  /\ started = [r \in Logins |-> 0]
  /\ snap = [r \in Logins |-> lockout]
  /\ target = [r \in Logins |-> [id |-> r, created |-> 0, used |-> 0]]
  /\ outcome = [r \in Logins |-> "none"]
  /\ evicted = {} /\ overtaken = {}
  /\ failures = 0

----------------------------------------------------------------------------
Goto(r, point) == pc' = [pc EXCEPT ![r] = point]

InFlight(r) == pc[r] \notin {"idle", "ended"}

(* Mutant: the row locks of sessions are kept. *)
BugReleaseLocks(r) == lockHeld' = lockHeld \ {r} /\ UNCHANGED rowHeld

(* The transaction ends, by COMMIT or by rollback: its row locks go. *)
ReleaseLocks(r) ==
  /\ lockHeld' = lockHeld \ {r}
  /\ rowHeld' = {h \in rowHeld : h[1] # r}

Answer(r, how) ==
  /\ Goto(r, "ended")
  /\ outcome' = [outcome EXCEPT ![r] = how]

Ids == {s.id : s \in sessions}

(* What a flush writes of the loaded lockout row: it is set to 0, NULL, NULL  *)
(* in memory, and only the columns that were not so already go out.           *)
DirtyLockout(r) == snap[r].failed # 0 \/ snap[r].until # 0

ResetLockout(r) ==
  /\ lockout' = [failed |-> IF snap[r].failed # 0 THEN 0 ELSE lockout.failed,
                 until  |-> IF snap[r].until # 0 THEN 0 ELSE lockout.until]
  /\ failures' = IF snap[r].failed # 0 THEN 0 ELSE failures

----------------------------------------------------------------------------
(* No such username: a password is verified against nothing. *)
UnknownUser(r) ==
  /\ pc[r] = "idle"
  /\ Answer(r, "invalid")
  /\ UNCHANGED <<now, db, locks, started, snap, target>>

(* Mutant: the lock is not looked at. *)
BugLockInForce == FALSE

LockInForce == lockout.until # 0 /\ now < lockout.until

(* get_by_username loads the account and its lockout row, without a lock; a  *)
(* lock in force answers at once, with a row of login_history committed.     *)
Load(r) ==
  /\ pc[r] = "idle"
  /\ Cardinality({s \in Logins : InFlight(s)}) < MaxConcurrent
  /\ started' = [started EXCEPT ![r] = now]
  /\ snap' = [snap EXCEPT ![r] = lockout]
  /\ IF LockInForce THEN Answer(r, "locked")
                    ELSE Goto(r, "verify") /\ UNCHANGED outcome
  /\ UNCHANGED <<now, db, locks, target>>

(* verify_password, in a thread: other requests run meanwhile. *)
VerifyWrong(r) ==
  /\ pc[r] = "verify"
  /\ Goto(r, "wrong")
  /\ UNCHANGED <<now, db, locks, started, snap, target, outcome>>

(* The right password, but the account is not active. *)
VerifyDenied(r) ==
  /\ pc[r] = "verify"
  /\ status # "ACTIVE"
  /\ Answer(r, "denied")
  /\ UNCHANGED <<now, db, locks, started, snap, target>>

VerifyRight(r) ==
  /\ pc[r] = "verify"
  /\ status = "ACTIVE"
  /\ Goto(r, "device")
  /\ UNCHANGED <<now, db, locks, started, snap, target, outcome>>

(* Mutant: the lock comes one failure late. *)
BugExhausted(n) == n > MaxAttempts

Exhausted(n) == n >= MaxAttempts

(* One failure more, and with it the lock if the attempts are exhausted.     *)
Raised(l) ==
  [failed |-> l.failed + 1,
   until  |-> IF Exhausted(l.failed + 1) THEN now + LockDuration ELSE l.until]

(* Mutants: the lock is taken without waiting for its holder; the row is     *)
(* read without FOR UPDATE.                                                  *)
BugLockLockout(r) ==
  /\ pc[r] = "wrong"
  /\ lockHeld' = lockHeld \cup {r}
  /\ snap' = [snap EXCEPT ![r] = Raised(lockout)]
  /\ Goto(r, "failing")
  /\ UNCHANGED <<now, db, rowHeld, started, target, outcome>>

BugReadLockout(r) ==
  /\ pc[r] = "wrong"
  /\ snap' = [snap EXCEPT ![r] = Raised(lockout)]
  /\ Goto(r, "failing")
  /\ UNCHANGED <<now, db, locks, started, target, outcome>>

(* get_by_credentials_id, FOR UPDATE, loads the row again (populate_existing) *)
(* and its columns are set up to the COMMIT without another await.           *)
LockLockout(r) ==
  /\ pc[r] = "wrong"
  /\ lockHeld = {}
  /\ lockHeld' = lockHeld \cup {r}
  /\ snap' = [snap EXCEPT ![r] = Raised(lockout)]
  /\ Goto(r, "failing")
  /\ UNCHANGED <<now, db, rowHeld, started, target, outcome>>

(* The counter, and the lock if it was set, are committed with a row of      *)
(* login_history.                                                            *)
CommitFailure(r) ==
  /\ pc[r] = "failing"
  /\ lockout' = [failed |-> snap[r].failed,
                 until  |-> IF Exhausted(snap[r].failed) THEN snap[r].until
                                                         ELSE lockout.until]
  /\ failures' = failures + 1
  /\ ReleaseLocks(r)
  /\ Answer(r, "invalid")
  /\ UNCHANGED <<now, status, sessions, evicted, overtaken, started, snap, target>>

(* get_by_device_id: the cookie names a session of the account, which is      *)
(* used again now, or the login is one from a new device.                    *)
FindDevice(r) ==
  /\ pc[r] = "device"
  /\ \/ /\ \E s \in sessions :
             target' = [target EXCEPT ![r] = [s EXCEPT !.used = now]]
        /\ Goto(r, "reuse")
     \/ /\ Goto(r, "count")
        /\ UNCHANGED target
  /\ UNCHANGED <<now, db, locks, started, snap, outcome>>

(* Mutant: the cap is passed by one. *)
BugAtCap == Cardinality(sessions) > MaxSessions

(* get_session_count *)
AtCap == Cardinality(sessions) >= MaxSessions

Count(r) ==
  /\ pc[r] = "count"
  /\ Goto(r, IF AtCap THEN "select" ELSE "insert")
  /\ UNCHANGED <<now, db, locks, started, snap, target, outcome>>

(* ORDER BY last_active_at NULLS FIRST, created_at: a session that was never  *)
(* used again since its login comes before every one that was.               *)
Before(s, t) == s.used < t.used \/ (s.used = t.used /\ s.created <= t.created)

(* evict_oldest_session, its SELECT; with no session left, None. *)
SelectVictim(r) ==
  /\ pc[r] = "select"
  /\ IF sessions = {}
       THEN Goto(r, "insert") /\ UNCHANGED target
       ELSE /\ \E s \in sessions :
                 /\ \A t \in sessions : Before(s, t)
                 /\ target' = [target EXCEPT ![r] = s]
            /\ Goto(r, "evict")
  /\ UNCHANGED <<now, db, locks, started, snap, outcome>>

(* A flush begins with the lockout row, if it has changed. *)
FlushLockout(r) ==
  /\ pc[r] \in {"reuse", "evict", "insert"}
  /\ IF DirtyLockout(r) THEN lockHeld \subseteq {r} /\ lockHeld' = {r}
                        ELSE UNCHANGED lockHeld
  /\ Goto(r, CASE pc[r] = "reuse"  -> "reuse_row"
               [] pc[r] = "evict"  -> "evict_row"
               [] pc[r] = "insert" -> "commit_new")
  /\ UNCHANGED <<now, db, rowHeld, started, snap, target, outcome>>

RowFree(r) == \A h \in rowHeld : h[2] = target[r].id => h[1] = r

LockRow(r) == rowHeld' = rowHeld \cup {<<r, target[r].id>>}

ReuseExists(r) == target[r].id \in Ids

(* Mutant: the row is merged, so inserted again if it was deleted. *)
BugFlushReuse(r) ==
  /\ pc[r] = "reuse_row"
  /\ RowFree(r)
  /\ LockRow(r)
  /\ Goto(r, "commit_reuse")
  /\ UNCHANGED <<now, db, lockHeld, started, snap, target, outcome>>

(* The UPDATE of the session; if it was deleted meanwhile the UPDATE matches *)
(* no row, SQLAlchemy raises StaleDataError and the request ends with 500.   *)
FlushReuse(r) ==
  /\ pc[r] = "reuse_row"
  /\ RowFree(r)
  /\ IF ReuseExists(r)
       THEN LockRow(r) /\ Goto(r, "commit_reuse") /\ UNCHANGED <<lockHeld, outcome>>
       ELSE ReleaseLocks(r) /\ Answer(r, "error")
  /\ UNCHANGED <<now, db, started, snap, target>>

(* The session's new expiry and last_active_at, and the reset, are committed. *)
CommitReuse(r) ==
  /\ pc[r] = "commit_reuse"
  /\ sessions' = {s \in sessions : s.id # target[r].id} \cup {target[r]}
  /\ ResetLockout(r)
  /\ ReleaseLocks(r)
  /\ Answer(r, "ok")
  /\ UNCHANGED <<now, status, evicted, overtaken, started, snap, target>>

(* The DELETE of the session to evict; that it is gone is only a warning. *)
FlushDelete(r) ==
  /\ pc[r] = "evict_row"
  /\ RowFree(r)
  /\ LockRow(r)
  /\ Goto(r, "insert")
  /\ UNCHANGED <<now, db, lockHeld, started, snap, target, outcome>>

(* The session the request goes on to delete, if any. *)
Victims(r) == {h[2] : h \in {g \in rowHeld : g[1] = r}}

(* It has counted the sessions, and is to add one. *)
Counted(r) == pc[r] \in {"select", "evict", "evict_row", "insert", "commit_new"}

(* The new session, its login_history row and the reset are committed. *)
CommitNew(r) ==
  /\ pc[r] = "commit_new"
  /\ sessions' = {s \in sessions : s.id \notin Victims(r)} \cup
                   {[id |-> r, created |-> started[r], used |-> 0]}
  /\ evicted' = evicted \cup Victims(r)
  /\ overtaken' = overtaken \cup {q \in Logins \ {r} : Counted(q)}
  /\ ResetLockout(r)
  /\ ReleaseLocks(r)
  /\ IF Victims(r) = {} THEN Answer(r, "ok")
                        ELSE Goto(r, "purge") /\ UNCHANGED outcome
  /\ UNCHANGED <<now, status, started, snap, target>>

(* delete_cache_critical: a RedisError answers 503, after the commit. *)
Purge(r) ==
  /\ pc[r] = "purge"
  /\ \/ Answer(r, "ok")
     \/ Answer(r, "cache_error")
  /\ UNCHANGED <<now, db, locks, started, snap, target>>

(* A database error or a crash of the process. *)
Abort(r) ==
  /\ InFlight(r)
  /\ ReleaseLocks(r)
  /\ Answer(r, "error")
  /\ UNCHANGED <<now, db, started, snap, target>>

Tick ==
  /\ now < MaxTime
  /\ now' = now + 1
  /\ UNCHANGED <<db, locks, pc, started, snap, target, outcome>>

Done ==
  /\ now = MaxTime
  /\ \A r \in Logins : pc[r] = "ended"
  /\ UNCHANGED vars

Progress(r) ==
  \/ VerifyWrong(r) \/ VerifyDenied(r) \/ VerifyRight(r) \/ LockLockout(r)
  \/ CommitFailure(r) \/ FindDevice(r) \/ Count(r) \/ SelectVictim(r)
  \/ FlushLockout(r) \/ FlushReuse(r) \/ CommitReuse(r) \/ FlushDelete(r)
  \/ CommitNew(r) \/ Purge(r)

Next ==
  \/ \E r \in Logins : UnknownUser(r) \/ Load(r) \/ Progress(r) \/ Abort(r)
  \/ Tick
  \/ Done

Spec == Init /\ [][Next]_vars

(* The event loop runs every request it has accepted, and PostgreSQL grants  *)
(* a row lock to a waiter once it is free.                                   *)
FairSpec == Spec /\ \A r \in Logins : WF_vars(Progress(r))

----------------------------------------------------------------------------
(* Properties. *)

(* No failed login is lost: the counter is the number of those committed     *)
(* since it was last reset, however the requests overlap.                    *)
NoFailureLost == lockout.failed = failures

(* An evicted session stays evicted: no login that had found it brings it     *)
(* back.                                                                     *)
EvictedStaysOut == Ids \cap evicted = {}

(* Whoever waits for a row lock gets it, and every request is answered: the   *)
(* locks of lockout and session rows are always taken in the same order.      *)
EventuallyAnswered == \A r \in Logins : pc[r] = "verify" ~> pc[r] = "ended"

(* A success resets the row from what it had loaded, without a lock and       *)
(* maybe long before: this step is one that r ends with.                      *)
Resets(r) == pc[r] \in {"commit_reuse", "commit_new"} /\ pc'[r] # pc[r]

(* A lock in force is cut short only by a success whose login had loaded an   *)
(* earlier lock, run out by then; failures never shorten one.                 *)
LockNeverShortened ==
  [][lockout.until > now /\ lockout'.until < lockout.until =>
       \E r \in Logins : Resets(r) /\ snap[r].until \in 1..now]_vars

(* Attempts are exhausted without a lock.                                     *)
Unguarded == lockout.failed >= MaxAttempts /\ lockout.until = 0

(* This is the doing of a success alone that had loaded a row with a lock and *)
(* no failures: never of the failure that exhausts the attempts.              *)
LockedWhenExhausted ==
  [][~ Unguarded /\ Unguarded' =>
       \E r \in Logins : Resets(r) /\ snap[r].failed = 0 /\ snap[r].until # 0]_vars

(* MAX_SESSIONS_PER_USER. *)
SessionCap == Cardinality(sessions) <= MaxSessions

(* A session above the cap is owed to a login that was overtaken by another's *)
(* new session between its count and its commit.                              *)
CapKept ==
  [][Cardinality(sessions') > MaxSessions /\ Cardinality(sessions') > Cardinality(sessions) =>
       \E r \in overtaken : Resets(r)]_vars

(* "Delete the user's oldest session": what is evicted is not younger, by     *)
(* its login and by its last use alike, than a session that stays.           *)
LastUse(s) == IF s.used = 0 THEN s.created ELSE s.used

EvictsOldest ==
  [][\A s \in sessions, t \in sessions :
       s.id \in evicted' \ evicted /\ t \in sessions' =>
         ~ (t.created < s.created /\ LastUse(t) < LastUse(s))]_vars
=============================================================================
