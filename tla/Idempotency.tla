---------------------------- MODULE Idempotency ----------------------------
(***************************************************************************)
(* The idempotency-key protocol of core/idempotency/service.py as it is     *)
(* driven by users/use_cases/register_user.py.                              *)
(*                                                                          *)
(* An attempt is one HTTP request that carries a key and a payload hash.    *)
(* Attempts of one or of several application processes interleave at every  *)
(* await: each action below is what runs between two of them.  Three stores *)
(* are shared: the PostgreSQL table of completed records, the transaction-  *)
(* scoped advisory locks, and the Redis mirror of the completed records.    *)
(***************************************************************************)
EXTENDS Naturals, FiniteSets

CONSTANTS
  Attempts,       \* the requests the clients ever send; each is used once
  Keys,           \* (operation, actor, Idempotency-Key) triples
  Hashes,         \* SHA-256 values of the payloads
  LockOf,         \* compute_lock_key: Keys -> 32-bit ids, not injective
  TTL,            \* IDEMPOTENCY_KEY_TTL in ticks
  RedisDelay,     \* how many ticks a SET may be in flight before it times out
  MaxTime         \* bound on the clock

ASSUME TTLAssumption        == TTL \in Nat \ {0}
ASSUME DelayAssumption      == RedisDelay \in Nat
ASSUME MaxTimeAssumption    == MaxTime \in Nat

VARIABLES
  now,       \* the clock of PostgreSQL, of the application and of Redis
  records,   \* committed rows of idempotency_records
  cache,     \* the entries of the Redis mirror that have not expired
  holders,   \* the attempts whose transaction holds its key's advisory lock
  pc,        \* where each attempt is
  key,       \* the key it carries
  hash,      \* the hash of its payload
  txStart,   \* now() of its transaction: the time the transaction began
  row,       \* the record it found, or the one it inserts
  sent,      \* the SET it has sent: when it left and its EX argument
  wire,      \* the attempts whose SET Redis has still to apply
  outcome,   \* how it was answered
  reply,     \* the attempt whose result its answer carries
  executed   \* history: the operations that were committed

vars == <<now, records, cache, holders, pc, key, hash, txStart, row, sent,
          wire, outcome, reply, executed>>

Rows == [key : Keys, hash : Hashes, resp : Attempts, expires : Nat]

Executions == [key : Keys, hash : Hashes, resp : Attempts, start : Nat,
               expires : Nat]

Points == {"idle", "cache", "begin", "lock", "rollback", "lookup", "execute",
           "store", "commit", "mirror", "set", "ended"}

Outcomes == {"none", "created", "replayed", "mismatch", "in_progress",
             "conflict", "error"}

Sets == [at : Nat, ttl : Nat]

(* Redis refuses a SET whose EX is not positive. *)
TypeOK ==
  /\ now \in Nat
  /\ records \subseteq Rows
  /\ cache \subseteq Rows
  /\ holders \subseteq Attempts
  /\ pc \in [Attempts -> Points]
  /\ key \in [Attempts -> Keys]
  /\ hash \in [Attempts -> Hashes]
  /\ txStart \in [Attempts -> Nat]
  /\ row \in [Attempts -> Rows]
  /\ sent \in [Attempts -> Sets]
  /\ wire \subseteq Attempts /\ \A r \in wire : sent[r].ttl > 0
  /\ outcome \in [Attempts -> Outcomes]
  /\ reply \in [Attempts -> Attempts]
  /\ executed \subseteq Executions

(* Any attempt may carry any key and payload.  txStart, row, sent and reply  *)
(* have no meaning before the step that assigns them.                        *)
Init ==
  /\ now = 0
  /\ records = {} /\ cache = {} /\ holders = {} /\ wire = {} /\ executed = {}
  /\ pc = [r \in Attempts |-> "idle"]
  /\ key \in [Attempts -> Keys]
  /\ hash \in [Attempts -> Hashes]
  /\ row = [r \in Attempts |->
              [key |-> key[r], hash |-> hash[r], resp |-> r, expires |-> 0]]
  /\ txStart = [r \in Attempts |-> 0]
  /\ sent = [r \in Attempts |-> [at |-> 0, ttl |-> 0]]
  /\ outcome = [r \in Attempts |-> "none"]
  /\ reply = [r \in Attempts |-> r]

----------------------------------------------------------------------------
(* Helpers.  A transaction sees a row as expired by the time it began, since *)
(* PostgreSQL's now() does not move inside a transaction.                    *)

(* Mutant: the expiry condition is rounded to the next tick. *)
BugExpired(x, t) == x.expires <= t + 1

Expired(x, t) == x.expires <= t

Live(x, t) == x.expires > t

RowsOf(k) == {x \in records : x.key = k}

Goto(r, point) == pc' = [pc EXCEPT ![r] = point]

(* The answer leaves and get_async_session closes the session: a transaction *)
(* still open is rolled back, and with it the advisory lock goes.            *)
Answer(r, how, of) ==
  /\ Goto(r, "ended")
  /\ outcome' = [outcome EXCEPT ![r] = how]
  /\ reply' = [reply EXCEPT ![r] = of]

(* Mutant: a session-level lock, which the end of a transaction keeps. *)
BugRelease(r) == UNCHANGED holders

Release(r) == holders' = holders \ {r}

----------------------------------------------------------------------------
(* Steps of an attempt. *)

(* The request arrives with its key; get_current_user may already read the  *)
(* database on the session the use case goes on with, so a transaction may   *)
(* begin at this time.                                                       *)
Start(r) ==
  /\ pc[r] = "idle"
  /\ txStart' = [txStart EXCEPT ![r] = now]
  /\ Goto(r, "cache")
  /\ UNCHANGED <<now, records, cache, holders, key, hash, row, sent, wire, outcome,
                 reply, executed>>

(* Mutant: a mirrored result is replayed whatever the payload. *)
BugCacheHit(r) ==
  /\ pc[r] = "cache"
  /\ \E e \in cache : e.key = key[r] /\ Answer(r, "replayed", e.resp)
  /\ UNCHANGED <<now, records, cache, holders, key, hash, txStart, row, sent, wire,
                 executed>>

(* acquire_idempotency_lock: a mirrored result answers without a lock. *)
CacheHit(r) ==
  /\ pc[r] = "cache"
  /\ \E e \in cache :
       /\ e.key = key[r]
       /\ IF e.hash = hash[r] THEN Answer(r, "replayed", e.resp)
                              ELSE Answer(r, "mismatch", r)
  /\ UNCHANGED <<now, records, cache, holders, key, hash, txStart, row, sent, wire,
                 executed>>

(* No entry, a RedisError or an entry that does not parse: a miss, always    *)
(* possible, "the DB decides".                                               *)
CacheMiss(r) ==
  /\ pc[r] = "cache"
  /\ Goto(r, "begin")
  /\ UNCHANGED <<now, records, cache, holders, key, hash, txStart, row, sent, wire,
                 outcome, reply, executed>>

(* _take_key_lock, set_config: begins the transaction unless authentication  *)
(* has begun it.                                                             *)
SetLockTimeout(r) ==
  /\ pc[r] = "begin"
  /\ \E t \in {txStart[r], now} : txStart' = [txStart EXCEPT ![r] = t]
  /\ Goto(r, "lock")
  /\ UNCHANGED <<now, records, cache, holders, key, hash, row, sent, wire, outcome,
                 reply, executed>>

(* Mutant: pg_try_advisory_xact_lock, its result ignored. *)
BugLockFree(r) == TRUE

LockFree(r) == \A s \in holders \ {r} : LockOf[key[s]] # LockOf[key[r]]

(* _take_key_lock, pg_advisory_xact_lock *)
TakeLock(r) ==
  /\ pc[r] = "lock"
  /\ LockFree(r)
  /\ holders' = holders \cup {r}
  /\ Goto(r, "lookup")
  /\ UNCHANGED <<now, records, cache, key, hash, txStart, row, sent, wire, outcome,
                 reply, executed>>

(* lock_timeout elapsed: the transaction is to be rolled back ... *)
LockTimeout(r) ==
  /\ pc[r] = "lock"
  /\ ~ LockFree(r)
  /\ Goto(r, "rollback")
  /\ UNCHANGED <<now, records, cache, holders, key, hash, txStart, row, sent, wire,
                 outcome, reply, executed>>

(* ... and when it is, IdempotencyRequestInProgress is raised, whatever the   *)
(* holder has done meanwhile.                                                *)
AnswerInProgress(r) ==
  /\ pc[r] = "rollback"
  /\ Answer(r, "in_progress", r)
  /\ UNCHANGED <<now, records, cache, holders, key, hash, txStart, row, sent, wire,
                 executed>>

(* Mutant: get_record compares with clock_timestamp(), delete_expired with   *)
(* now().                                                                    *)
BugFound(r) ==
  {x \in RowsOf(key[r]) : ~ Expired(x, txStart[r]) /\ Live(x, now)}

(* What get_record finds of the key after delete_expired. *)
Found(r) ==
  {x \in RowsOf(key[r]) : ~ Expired(x, txStart[r]) /\ Live(x, txStart[r])}

(* delete_expired followed by get_record; the deletions become visible with  *)
(* Commit.  Nothing found: the caller is to execute the operation.           *)
LookupNone(r) ==
  /\ pc[r] = "lookup"
  /\ Found(r) = {}
  /\ Goto(r, "execute")
  /\ UNCHANGED <<now, records, cache, holders, key, hash, txStart, row, sent, wire,
                 outcome, reply, executed>>

LookupMismatch(r) ==
  /\ pc[r] = "lookup"
  /\ \E x \in Found(r) : x.hash # hash[r]
  /\ Answer(r, "mismatch", r)
  /\ Release(r)
  /\ UNCHANGED <<now, records, cache, key, hash, txStart, row, sent, wire, executed>>

(* Mutant: the payload of a stored record is not compared. *)
BugLookupReplay(r) ==
  /\ pc[r] = "lookup"
  /\ \E x \in Found(r) : row' = [row EXCEPT ![r] = x]
  /\ Goto(r, "mirror")
  /\ UNCHANGED <<now, records, cache, holders, key, hash, txStart, sent, wire, outcome,
                 reply, executed>>

(* The stored response is replayed, after it was mirrored. *)
LookupReplay(r) ==
  /\ pc[r] = "lookup"
  /\ \E x \in Found(r) :
       /\ x.hash = hash[r]
       /\ row' = [row EXCEPT ![r] = x]
  /\ Goto(r, "mirror")
  /\ UNCHANGED <<now, records, cache, holders, key, hash, txStart, sent, wire, outcome,
                 reply, executed>>

(* register_user wrote its rows in the transaction; its errors are Abort. *)
Execute(r) ==
  /\ pc[r] = "execute"
  /\ Goto(r, "store")
  /\ UNCHANGED <<now, records, cache, holders, key, hash, txStart, row, sent, wire,
                 outcome, reply, executed>>

(* The unique constraint on (operation, actor_id, key): an insert waits for  *)
(* the one another open transaction has made ...                             *)
InsertWaits(r) ==
  \E s \in Attempts \ {r} : pc[s] = "commit" /\ key[s] = key[r]

(* ... and fails on a committed row that delete_expired has not removed. *)
InsertConflicts(r) == \E x \in RowsOf(key[r]) : ~ Expired(x, txStart[r])

(* store_idempotency_record: expires_at is taken from the wall clock, not   *)
(* from the transaction's now().                                             *)
Store(r) ==
  /\ pc[r] = "store"
  /\ ~ InsertWaits(r)
  /\ IF InsertConflicts(r)
       THEN Answer(r, "conflict", r) /\ Release(r) /\ UNCHANGED row
       ELSE /\ row' = [row EXCEPT ![r] =
                         [key |-> key[r], hash |-> hash[r], resp |-> r,
                          expires |-> now + TTL]]
            /\ Goto(r, "commit")
            /\ UNCHANGED <<holders, outcome, reply>>
  /\ UNCHANGED <<now, records, cache, key, hash, txStart, sent, wire, executed>>

(* Mutant: expired rows stay, and the table has no unique constraint. *)
BugKept(r) == records

(* The rows left when the transaction's deletions are visible. *)
Kept(r) == {x \in records : x.key # key[r] \/ ~ Expired(x, txStart[r])}

(* COMMIT: the operation's rows, the deletions of expired records and the    *)
(* new record become visible together, and the advisory lock is released.    *)
Commit(r) ==
  /\ pc[r] = "commit"
  /\ records' = Kept(r) \cup {row[r]}
  /\ executed' = executed \cup
       {[key |-> key[r], hash |-> hash[r], resp |-> r, start |-> txStart[r],
         expires |-> row[r].expires]}
  /\ Release(r)
  /\ Goto(r, "mirror")
  /\ UNCHANGED <<now, cache, key, hash, txStart, row, sent, wire, outcome, reply>>

(* The response of the record the attempt carries: its own or a replay. *)
AnswerRow(r) ==
  Answer(r, IF row[r].resp = r THEN "created" ELSE "replayed", row[r].resp)

(* mirror_complete_to_redis: a record with no life left is not mirrored. *)
MirrorSkip(r) ==
  /\ pc[r] = "mirror"
  /\ row[r].expires <= now
  /\ AnswerRow(r)
  /\ Release(r)
  /\ UNCHANGED <<now, records, cache, key, hash, txStart, row, sent, wire, executed>>

(* Mutants: a fresh TTL for every SET; the remainder rounded up. *)
BugFreshLife(r) == TTL

RemainingLife(r) == row[r].expires - now

(* Mutant: the guard on the remaining life is missing. *)
BugMirrorSend(r) ==
  /\ pc[r] = "mirror"
  /\ sent' = [sent EXCEPT ![r] = [at |-> now, ttl |-> RemainingLife(r)]]
  /\ wire' = wire \cup {r}
  /\ Goto(r, "set")
  /\ UNCHANGED <<now, records, cache, holders, key, hash, txStart, row, outcome,
                 reply, executed>>

(* The remaining life is computed before the SET leaves ... *)
MirrorSend(r) ==
  /\ pc[r] = "mirror"
  /\ row[r].expires > now
  /\ sent' = [sent EXCEPT ![r] = [at |-> now, ttl |-> RemainingLife(r)]]
  /\ wire' = wire \cup {r}
  /\ Goto(r, "set")
  /\ UNCHANGED <<now, records, cache, holders, key, hash, txStart, row, outcome,
                 reply, executed>>

(* ... and starts to run when Redis applies it, replacing the key's entry;    *)
(* the attempt may have given up, or be gone, by then, and Redis may never   *)
(* get to see it.                                                            *)
RedisSet(r) ==
  /\ r \in wire
  /\ now <= sent[r].at + RedisDelay
  /\ cache' = {e \in cache : e.key # row[r].key}
                \cup {[row[r] EXCEPT !.expires = now + sent[r].ttl]}
  /\ wire' = wire \ {r}
  /\ UNCHANGED <<now, records, holders, pc, key, hash, txStart, row, sent, outcome,
                 reply, executed>>

(* Redis has answered, or a RedisError was swallowed: what the client is told *)
(* does not depend on the mirror.                                            *)
MirrorAnswer(r) ==
  /\ pc[r] = "set"
  /\ AnswerRow(r)
  /\ Release(r)
  /\ UNCHANGED <<now, records, cache, key, hash, txStart, row, sent, wire, executed>>

InFlight(r) == pc[r] \notin {"idle", "ended"}

(* An AppException or a database error of the operation, a crash of the      *)
(* process, a lost connection: the transaction, if still open, is rolled     *)
(* back.  After Commit only the answer is lost.                              *)
Abort(r) ==
  /\ InFlight(r)
  /\ Answer(r, "error", r)
  /\ Release(r)
  /\ UNCHANGED <<now, records, cache, key, hash, txStart, row, sent, wire, executed>>

----------------------------------------------------------------------------
(* Environment. *)

(* Redis restarts without its data, or evicts an entry. *)
CacheLoss ==
  /\ \E e \in cache : cache' = cache \ {e}
  /\ UNCHANGED <<now, records, holders, pc, key, hash, txStart, row, sent, wire,
                 outcome, reply, executed>>

(* Time passes; Redis drops the entries whose EX has elapsed. *)
Tick ==
  /\ now < MaxTime
  /\ now' = now + 1
  /\ cache' = {e \in cache : e.expires > now + 1}
  /\ UNCHANGED <<records, holders, pc, key, hash, txStart, row, sent, wire, outcome,
                 reply, executed>>

(* Every attempt was answered and the bounded clock has run out. *)
Done ==
  /\ now = MaxTime
  /\ \A r \in Attempts : pc[r] = "ended"
  /\ UNCHANGED vars

Progress(r) ==
  \/ CacheHit(r) \/ CacheMiss(r) \/ SetLockTimeout(r) \/ TakeLock(r)
  \/ LockTimeout(r) \/ AnswerInProgress(r) \/ LookupNone(r) \/ LookupMismatch(r)
  \/ LookupReplay(r) \/ Execute(r) \/ Store(r) \/ Commit(r) \/ MirrorSkip(r) \/ MirrorSend(r)
  \/ MirrorAnswer(r)

Next ==
  \/ \E r \in Attempts : Start(r) \/ Progress(r) \/ Abort(r) \/ RedisSet(r)
  \/ CacheLoss
  \/ Tick
  \/ Done

Spec == Init /\ [][Next]_vars

(* The event loop runs every request it has accepted, and PostgreSQL either  *)
(* grants an advisory lock or lets its lock_timeout elapse.                  *)
FairSpec == Spec /\ \A r \in Attempts : WF_vars(Progress(r))

----------------------------------------------------------------------------
(* Properties. *)

(* At most one transaction is between taking a key's lock and its end, also  *)
(* for keys whose 32-bit lock ids collide (_take_key_lock).                  *)
InCriticalSection(r) == pc[r] \in {"lookup", "execute", "store", "commit"}

LockExclusive ==
  \A r, s \in Attempts :
    /\ InCriticalSection(r) /\ InCriticalSection(s)
    /\ LockOf[key[r]] = LockOf[key[s]]
    => r = s

(* The check under the lock is complete: an attempt that was told to execute *)
(* never finds its key claimed when it inserts the record, although rows     *)
(* expire, and are deleted and looked up, by a clock that stands still.      *)
StoreNeverConflicts == \A r \in Attempts : outcome[r] # "conflict"

(* Two commits of the same key are never closer than the life of the first   *)
(* record: the second transaction began when the first had expired.          *)
AtMostOncePerWindow ==
  \A a, b \in executed :
    a.key = b.key /\ a # b => a.expires <= b.start \/ b.expires <= a.start

(* The table holds one row per key, and never loses the newest execution.    *)
NewestExecutionRecorded ==
  \A a \in executed :
    \E x \in records :
      /\ x.key = a.key /\ a.expires <= x.expires
      /\ \A y \in records : y.key = a.key => y = x

(* An answer that carries a result carries that of a committed operation     *)
(* with the same key and the same payload hash.                              *)
ReplayFaithful ==
  \A r \in Attempts :
    outcome[r] \in {"created", "replayed"} =>
      \E a \in executed :
        a.key = key[r] /\ a.hash = hash[r] /\ a.resp = reply[r]

(* "TTL is the record's remaining life": a mirrored result outlives its      *)
(* record by no more than the time the SET was in flight.                    *)
MirrorLifeBounded ==
  \A e \in cache :
    \E a \in executed : a.resp = e.resp /\ e.expires <= a.expires + RedisDelay

(* Every accepted request is answered, whatever Redis and its rivals do, and *)
(* its lock is then free for the next one.                                   *)
EventuallyAnswered ==
  \A r \in Attempts : pc[r] = "cache" ~> pc[r] = "ended" /\ r \notin holders

(* The protocol implements what the client is promised: the operations that  *)
(* took effect are those committed, at work are the holders of a lock, and   *)
(* have met somebody at work those whose wait for the lock ran out.          *)
Promise ==
  INSTANCE IdempotentOperation
    WITH Class <- LockOf,
         effects <- {[key |-> a.key, hash |-> a.hash, resp |-> a.resp,
                      expires |-> a.expires] : a \in executed},
         working <- holders,
         met <- {r \in Attempts : pc[r] = "rollback"}

ImplementsPromise == Promise!Spec
=============================================================================
