------------------------- MODULE IdempotencyProofs -------------------------
(***************************************************************************)
(* Safety of Idempotency for every set of attempts, keys and payloads, every *)
(* collision of lock ids, every TTL and every delay of Redis.                *)
(*                                                                          *)
(* The invariants the runs check are not inductive: that an attempt which    *)
(* was told to execute will not collide holds because it has kept the lock   *)
(* since it looked, because everyone who changes a row of its key holds that *)
(* lock too, and because the table remembers the newest execution of every   *)
(* key.  IInv says so.                                                       *)
(***************************************************************************)
EXTENDS Idempotency, TLAPS

(* The critical section is held by a lock, and a lock by an open attempt. *)
LockInv ==
  /\ \A r \in Attempts : InCriticalSection(r) => r \in holders
  /\ \A r, s \in holders : LockOf[key[r]] = LockOf[key[s]] => r = s
  /\ \A r \in holders : pc[r] \notin {"idle", "cache", "begin", "lock", "rollback", "ended"}

(* What an attempt found out under the lock stays true until it commits. *)
ClearInv ==
  \A r \in Attempts :
    /\ txStart[r] <= now
    /\ pc[r] \in {"execute", "store", "commit"} =>
         \A x \in records : x.key = key[r] => x.expires <= txStart[r]
    /\ pc[r] = "commit" =>
         /\ row[r].key = key[r] /\ row[r].hash = hash[r] /\ row[r].resp = r
         /\ txStart[r] < row[r].expires /\ row[r].expires <= now + TTL

(* Every row is that of an execution ... *)
Backed(x) ==
  \E a \in executed : /\ a.key = x.key /\ a.hash = x.hash
                      /\ a.resp = x.resp /\ a.expires = x.expires

(* ... and the one row of a key is that of its newest execution. *)
TableInv ==
  /\ \A x, y \in records : x.key = y.key => x = y
  /\ \A x \in records : Backed(x)
  /\ \A a \in executed :
       \E x \in records : x.key = a.key /\ a.expires <= x.expires

(* What is mirrored, about to be or on its way to Redis, perhaps after the     *)
(* attempt has ended, is the result of an execution.                          *)
Carries(r) ==
  /\ row[r].key = key[r] /\ row[r].hash = hash[r]
  /\ Backed(row[r])

MirrorInv ==
  /\ \A r \in Attempts : pc[r] \in {"mirror", "set"} => Carries(r)
  /\ \A r \in wire : /\ pc[r] \in {"set", "ended"} /\ Carries(r)
                     /\ sent[r].at + sent[r].ttl = row[r].expires
  /\ \A e \in cache :
       \E a \in executed : /\ a.key = e.key /\ a.hash = e.hash /\ a.resp = e.resp
                           /\ e.expires <= a.expires + RedisDelay

(* Each attempt executes at most once, and is answered when it ends. *)
AnswerInv ==
  /\ \A a \in executed : pc[a.resp] \in {"mirror", "set", "ended"}
  /\ \A r \in Attempts :
       /\ outcome[r] = "none" <=> pc[r] # "ended"
       /\ outcome[r] = "none" => reply[r] = r

IInv ==
  /\ TypeOK /\ LockInv /\ ClearInv /\ TableInv /\ MirrorInv /\ AnswerInv
  /\ StoreNeverConflicts /\ AtMostOncePerWindow /\ ReplayFaithful

----------------------------------------------------------------------------
USE TTLAssumption, DelayAssumption

(* Answering an attempt keeps its variables well typed. *)
LEMMA AnswerTypes ==
  ASSUME TypeOK, NEW r \in Attempts, NEW how \in Outcomes, NEW of \in Attempts,
         Answer(r, how, of)
  PROVE  /\ pc' \in [Attempts -> Points]
         /\ outcome' \in [Attempts -> Outcomes]
         /\ reply' \in [Attempts -> Attempts]
BY DEF TypeOK, Answer, Goto, Points

(* Type correctness: one step per action, each by the types of what it       *)
(* assigns; the EX argument of a SET is a positive number because MirrorSend *)
(* is guarded by the record's remaining life.                                *)
THEOREM TypeCorrect == Spec => []TypeOK
<1>1. Init => TypeOK
  BY DEF Init, TypeOK, Rows, Sets, Points, Outcomes, Executions
<1>2. TypeOK /\ [Next]_vars => TypeOK'
  <2> SUFFICES ASSUME TypeOK, [Next]_vars
               PROVE  TypeOK'
    OBVIOUS
  <2> USE DEF TypeOK, Goto, Answer, Release, Points, Outcomes
  <2>1. ASSUME NEW r \in Attempts, Start(r) PROVE TypeOK'
    BY <2>1 DEF Start
  <2>2. ASSUME NEW r \in Attempts, CacheHit(r) PROVE TypeOK'
    <3>1. PICK e \in cache :
            IF e.hash = hash[r] THEN Answer(r, "replayed", e.resp)
                                ELSE Answer(r, "mismatch", r)
      BY <2>2 DEF CacheHit
    <3>2. e.resp \in Attempts
      BY DEF Rows
    <3>3. {"replayed", "mismatch"} \subseteq Outcomes
      OBVIOUS
    <3>4. pc' \in [Attempts -> Points] /\ outcome' \in [Attempts -> Outcomes]
            /\ reply' \in [Attempts -> Attempts]
      <4>1. CASE e.hash = hash[r]
        <5>1. Answer(r, "replayed", e.resp)
          BY <3>1, <4>1
        <5>2. QED
          BY <3>2, <3>3, <5>1, AnswerTypes
      <4>2. CASE e.hash # hash[r]
        <5>1. Answer(r, "mismatch", r)
          BY <3>1, <4>2
        <5>2. QED
          BY <3>3, <5>1, AnswerTypes
      <4>3. QED
        BY <4>1, <4>2
    <3>5. QED
      BY <2>2, <3>4 DEF CacheHit
  <2>3. ASSUME NEW r \in Attempts, CacheMiss(r) PROVE TypeOK'
    BY <2>3 DEF CacheMiss
  <2>4. ASSUME NEW r \in Attempts, SetLockTimeout(r) PROVE TypeOK'
    BY <2>4 DEF SetLockTimeout
  <2>5. ASSUME NEW r \in Attempts, TakeLock(r) PROVE TypeOK'
    BY <2>5 DEF TakeLock
  <2>6. ASSUME NEW r \in Attempts, LockTimeout(r) PROVE TypeOK'
    BY <2>6 DEF LockTimeout
  <2>6b. ASSUME NEW r \in Attempts, AnswerInProgress(r) PROVE TypeOK'
    BY <2>6b DEF AnswerInProgress
  <2>7. ASSUME NEW r \in Attempts, LookupNone(r) PROVE TypeOK'
    BY <2>7 DEF LookupNone
  <2>8. ASSUME NEW r \in Attempts, LookupMismatch(r) PROVE TypeOK'
    BY <2>8 DEF LookupMismatch
  <2>9. ASSUME NEW r \in Attempts, LookupReplay(r) PROVE TypeOK'
    BY <2>9 DEF LookupReplay, Found, RowsOf
  <2>10. ASSUME NEW r \in Attempts, Execute(r) PROVE TypeOK'
    BY <2>10 DEF Execute
  <2>11. ASSUME NEW r \in Attempts, Store(r) PROVE TypeOK'
    <3> DEFINE new == [key |-> key[r], hash |-> hash[r], resp |-> r,
                       expires |-> now + TTL]
    <3>1. new \in Rows
      BY DEF Rows
    <3>2. CASE ~ InsertConflicts(r)
      <4>1. row' = [row EXCEPT ![r] = new] /\ Goto(r, "commit")
              /\ UNCHANGED <<holders, outcome, reply>>
        BY <2>11, <3>2 DEF Store
      <4>2. row' \in [Attempts -> Rows]
        BY <3>1, <4>1
      <4>3. QED
        BY <2>11, <4>1, <4>2 DEF Store
    <3>3. CASE InsertConflicts(r)
      <4>1. Answer(r, "conflict", r) /\ Release(r) /\ UNCHANGED row
        BY <2>11, <3>3 DEF Store
      <4>2. QED
        BY <2>11, <4>1, AnswerTypes DEF Store
    <3>4. QED
      BY <3>2, <3>3
  <2>12. ASSUME NEW r \in Attempts, Commit(r) PROVE TypeOK'
    <3>1. row[r] \in Rows /\ row[r].expires \in Nat
      BY DEF Rows
    <3>2. records' \subseteq Rows
      BY <2>12, <3>1 DEF Commit, Kept
    <3>3. executed' \subseteq Executions
      BY <2>12, <3>1 DEF Commit, Executions
    <3>4. QED
      BY <2>12, <3>2, <3>3 DEF Commit
  <2>13. ASSUME NEW r \in Attempts, MirrorSkip(r) PROVE TypeOK'
    BY <2>13 DEF MirrorSkip, AnswerRow, Rows
  <2>14. ASSUME NEW r \in Attempts, MirrorSend(r) PROVE TypeOK'
    <3>1. RemainingLife(r) \in Nat \ {0}
      BY <2>14 DEF MirrorSend, RemainingLife, Rows
    <3>2. [at |-> now, ttl |-> RemainingLife(r)] \in Sets
      BY <3>1 DEF Sets
    <3>3. sent' \in [Attempts -> Sets] /\ sent'[r].ttl > 0
      BY <2>14, <3>1, <3>2 DEF MirrorSend
    <3>4. \A s \in wire' : sent'[s].ttl > 0
      BY <2>14, <3>3 DEF MirrorSend
    <3>5. QED
      BY <2>14, <3>3, <3>4 DEF MirrorSend
  <2>15. ASSUME NEW r \in Attempts, RedisSet(r) PROVE TypeOK'
    <3>1. row[r] \in Rows
      OBVIOUS
    <3>2. now + sent[r].ttl \in Nat
      BY DEF Sets
    <3>3. [row[r] EXCEPT !.expires = now + sent[r].ttl] \in Rows
      BY <3>1, <3>2 DEF Rows
    <3>4. cache' \subseteq Rows
      BY <2>15, <3>3 DEF RedisSet
    <3>5. QED
      BY <2>15, <3>4 DEF RedisSet
  <2>16. ASSUME NEW r \in Attempts, MirrorAnswer(r) PROVE TypeOK'
    BY <2>16 DEF MirrorAnswer, AnswerRow, Rows
  <2>17. ASSUME NEW r \in Attempts, Abort(r) PROVE TypeOK'
    BY <2>17 DEF Abort
  <2>18. CASE CacheLoss
    BY <2>18 DEF CacheLoss
  <2>19. CASE Tick
    BY <2>19 DEF Tick
  <2>20. CASE UNCHANGED vars
    BY <2>20 DEF vars
  <2> QED
    BY <2>1, <2>2, <2>3, <2>4, <2>5, <2>6, <2>6b, <2>7, <2>8, <2>9, <2>10, <2>11,
       <2>12, <2>13, <2>14, <2>15, <2>16, <2>17, <2>18, <2>19, <2>20
       DEF Next, Progress, Done
<1>3. QED
  BY <1>1, <1>2, PTL DEF Spec

----------------------------------------------------------------------------

(* The lock: taken only when free, kept through the critical section. *)
LEMMA LockStep == IInv /\ [Next]_vars => LockInv'
<1> SUFFICES ASSUME IInv, [Next]_vars
             PROVE  LockInv'
  OBVIOUS
<1> USE DEF IInv, LockInv, TypeOK, InCriticalSection, Goto, Answer, Release, Points
<1>1. ASSUME NEW r \in Attempts, Start(r) PROVE LockInv'
  BY <1>1 DEF Start
<1>2. ASSUME NEW r \in Attempts, CacheHit(r) PROVE LockInv'
  BY <1>2 DEF CacheHit
<1>3. ASSUME NEW r \in Attempts, CacheMiss(r) PROVE LockInv'
  BY <1>3 DEF CacheMiss
<1>4. ASSUME NEW r \in Attempts, SetLockTimeout(r) PROVE LockInv'
  BY <1>4 DEF SetLockTimeout
<1>5. ASSUME NEW r \in Attempts, TakeLock(r) PROVE LockInv'
  BY <1>5 DEF TakeLock, LockFree
<1>6. ASSUME NEW r \in Attempts, LockTimeout(r) PROVE LockInv'
  <2>1. /\ pc[r] = "lock"
        /\ pc' = [pc EXCEPT ![r] = "rollback"]
        /\ UNCHANGED <<holders, key>>
    BY <1>6 DEF LockTimeout
  <2>2. r \notin holders
    BY <2>1
  <2>3. \A s \in Attempts \ {r} : pc'[s] = pc[s]
    BY <2>1
  <2>4. pc'[r] = "rollback"
    BY <2>1
  <2>5. QED
    BY <2>1, <2>2, <2>3, <2>4
<1>6b. ASSUME NEW r \in Attempts, AnswerInProgress(r) PROVE LockInv'
  BY <1>6b DEF AnswerInProgress
<1>7. ASSUME NEW r \in Attempts, LookupNone(r) PROVE LockInv'
  BY <1>7 DEF LookupNone
<1>8. ASSUME NEW r \in Attempts, LookupMismatch(r) PROVE LockInv'
  BY <1>8 DEF LookupMismatch
<1>9. ASSUME NEW r \in Attempts, LookupReplay(r) PROVE LockInv'
  BY <1>9 DEF LookupReplay
<1>10. ASSUME NEW r \in Attempts, Execute(r) PROVE LockInv'
  BY <1>10 DEF Execute
<1>11. ASSUME NEW r \in Attempts, Store(r) PROVE LockInv'
  BY <1>11, SMTT(30) DEF Store
<1>12. ASSUME NEW r \in Attempts, Commit(r) PROVE LockInv'
  BY <1>12 DEF Commit
<1>13. ASSUME NEW r \in Attempts, MirrorSkip(r) PROVE LockInv'
  BY <1>13 DEF MirrorSkip, AnswerRow
<1>14. ASSUME NEW r \in Attempts, MirrorSend(r) PROVE LockInv'
  BY <1>14 DEF MirrorSend
<1>15. ASSUME NEW r \in Attempts, RedisSet(r) PROVE LockInv'
  BY <1>15 DEF RedisSet
<1>16. ASSUME NEW r \in Attempts, MirrorAnswer(r) PROVE LockInv'
  BY <1>16 DEF MirrorAnswer, AnswerRow
<1>17. ASSUME NEW r \in Attempts, Abort(r) PROVE LockInv'
  BY <1>17 DEF Abort, InFlight
<1>18. CASE CacheLoss
  BY <1>18 DEF CacheLoss
<1>19. CASE Tick
  BY <1>19 DEF Tick
<1>20. CASE UNCHANGED vars
  BY <1>20 DEF vars
<1> QED
  BY <1>1, <1>2, <1>3, <1>4, <1>5, <1>6, <1>6b, <1>7, <1>8, <1>9, <1>10, <1>11,
     <1>12, <1>13, <1>14, <1>15, <1>16, <1>17, <1>18, <1>19,
     <1>20
     DEF Next, Progress, Done

(* The table changes in Commit only.  The rows it deletes were expired when   *)
(* the transaction began, so the row it adds is newer than all of the key's.  *)
LEMMA TableStep == IInv /\ [Next]_vars => TableInv'
<1> SUFFICES ASSUME IInv, [Next]_vars
             PROVE  TableInv'
  OBVIOUS
<1> USE DEF IInv, TableInv, ClearInv, TypeOK, Backed
<1>1. ASSUME NEW r \in Attempts, Start(r) PROVE TableInv'
  BY <1>1 DEF Start
<1>2. ASSUME NEW r \in Attempts, CacheHit(r) PROVE TableInv'
  BY <1>2 DEF CacheHit
<1>3. ASSUME NEW r \in Attempts, CacheMiss(r) PROVE TableInv'
  BY <1>3 DEF CacheMiss
<1>4. ASSUME NEW r \in Attempts, SetLockTimeout(r) PROVE TableInv'
  BY <1>4 DEF SetLockTimeout
<1>5. ASSUME NEW r \in Attempts, TakeLock(r) PROVE TableInv'
  BY <1>5 DEF TakeLock
<1>6. ASSUME NEW r \in Attempts, LockTimeout(r) PROVE TableInv'
  BY <1>6 DEF LockTimeout
<1>6b. ASSUME NEW r \in Attempts, AnswerInProgress(r) PROVE TableInv'
  BY <1>6b DEF AnswerInProgress
<1>7. ASSUME NEW r \in Attempts, LookupNone(r) PROVE TableInv'
  BY <1>7 DEF LookupNone
<1>8. ASSUME NEW r \in Attempts, LookupMismatch(r) PROVE TableInv'
  BY <1>8 DEF LookupMismatch
<1>9. ASSUME NEW r \in Attempts, LookupReplay(r) PROVE TableInv'
  BY <1>9 DEF LookupReplay
<1>10. ASSUME NEW r \in Attempts, Execute(r) PROVE TableInv'
  BY <1>10 DEF Execute
<1>11. ASSUME NEW r \in Attempts, Store(r) PROVE TableInv'
  BY <1>11 DEF Store
<1>12. ASSUME NEW r \in Attempts, Commit(r) PROVE TableInv'
  <2> DEFINE n == [key |-> key[r], hash |-> hash[r], resp |-> r,
                   start |-> txStart[r], expires |-> row[r].expires]
  <2>1. records' = Kept(r) \cup {row[r]} /\ executed' = executed \cup {n}
    BY <1>12 DEF Commit
  <2>2. /\ row[r].key = key[r] /\ row[r].hash = hash[r] /\ row[r].resp = r
        /\ txStart[r] < row[r].expires
        /\ \A x \in records : x.key = key[r] => x.expires <= txStart[r]
    BY <1>12 DEF Commit
  <2>3. ASSUME NEW x \in records'
        PROVE  x = row[r] \/ (x \in records /\ x.key # key[r])
    BY <2>1, <2>2 DEF Kept, Expired
  <2>4. \A x, y \in records' : x.key = y.key => x = y
    BY <2>2, <2>3
  <2>5. \A x \in records' : Backed(x)'
    <3> SUFFICES ASSUME NEW x \in records' PROVE Backed(x)'
      OBVIOUS
    <3>1. CASE x = row[r]
      <4>1. /\ n \in executed' /\ n.key = x.key /\ n.hash = x.hash
            /\ n.resp = x.resp /\ n.expires = x.expires
        BY <2>1, <2>2, <3>1
      <4>2. QED
        BY <4>1
    <3>2. CASE x \in records
      BY <2>1, <3>2
    <3>3. QED
      BY <2>3, <3>1, <3>2
  <2>6. ASSUME NEW a \in executed'
        PROVE  \E x \in records' : x.key = a.key /\ a.expires <= x.expires
    <3>1. row[r] \in records' /\ row[r].expires \in Nat /\ txStart[r] \in Nat
      BY <2>1 DEF Rows
    <3>2. CASE a = n
      BY <2>2, <3>1, <3>2
    <3>3. CASE a \in executed
      <4>1. PICK x \in records : x.key = a.key /\ a.expires <= x.expires
        BY <3>3
      <4>2. CASE a.key # key[r]
        BY <2>1, <4>1, <4>2 DEF Kept
      <4>3. CASE a.key = key[r]
        <5>1. a.expires \in Nat /\ x.expires \in Nat
          BY <3>3 DEF Rows, Executions
        <5>2. a.expires <= row[r].expires
          BY <2>2, <3>1, <4>1, <4>3, <5>1
        <5>3. QED
          BY <2>2, <3>1, <4>3, <5>2
      <4>4. QED
        BY <4>2, <4>3
    <3>4. QED
      BY <2>1, <3>2, <3>3
  <2>7. QED
    BY <2>4, <2>5, <2>6
<1>13. ASSUME NEW r \in Attempts, MirrorSkip(r) PROVE TableInv'
  BY <1>13 DEF MirrorSkip
<1>14. ASSUME NEW r \in Attempts, MirrorSend(r) PROVE TableInv'
  BY <1>14 DEF MirrorSend
<1>15. ASSUME NEW r \in Attempts, RedisSet(r) PROVE TableInv'
  BY <1>15 DEF RedisSet
<1>16. ASSUME NEW r \in Attempts, MirrorAnswer(r) PROVE TableInv'
  BY <1>16 DEF MirrorAnswer
<1>17. ASSUME NEW r \in Attempts, Abort(r) PROVE TableInv'
  BY <1>17 DEF Abort
<1>18. CASE CacheLoss
  BY <1>18 DEF CacheLoss
<1>19. CASE Tick
  BY <1>19 DEF Tick
<1>20. CASE UNCHANGED vars
  BY <1>20 DEF vars
<1> QED
  BY <1>1, <1>2, <1>3, <1>4, <1>5, <1>6, <1>6b, <1>7, <1>8, <1>9, <1>10, <1>11,
     <1>12, <1>13, <1>14, <1>15, <1>16, <1>17, <1>18, <1>19,
     <1>20
     DEF Next, Progress, Done

(* What a lookup found out is not undone: only a Commit changes rows, and two *)
(* attempts of one key are never both in the critical section.                *)
LEMMA ClearStep == IInv /\ [Next]_vars => ClearInv'
<1> SUFFICES ASSUME IInv, [Next]_vars
             PROVE  ClearInv'
  OBVIOUS
<1> USE DEF IInv, ClearInv, TypeOK, Goto, Answer
<1>1. ASSUME NEW r \in Attempts, Start(r) PROVE ClearInv'
  BY <1>1 DEF Start
<1>2. ASSUME NEW r \in Attempts, CacheHit(r) PROVE ClearInv'
  <2>1. pc' = [pc EXCEPT ![r] = "ended"]
    BY <1>2 DEF CacheHit
  <2>2. QED
    BY <1>2, <2>1 DEF CacheHit
<1>3. ASSUME NEW r \in Attempts, CacheMiss(r) PROVE ClearInv'
  BY <1>3 DEF CacheMiss
<1>4. ASSUME NEW r \in Attempts, SetLockTimeout(r) PROVE ClearInv'
  BY <1>4 DEF SetLockTimeout
<1>5. ASSUME NEW r \in Attempts, TakeLock(r) PROVE ClearInv'
  BY <1>5 DEF TakeLock
<1>6. ASSUME NEW r \in Attempts, LockTimeout(r) PROVE ClearInv'
  BY <1>6 DEF LockTimeout
<1>6b. ASSUME NEW r \in Attempts, AnswerInProgress(r) PROVE ClearInv'
  BY <1>6b DEF AnswerInProgress
<1>7. ASSUME NEW r \in Attempts, LookupNone(r) PROVE ClearInv'
  <2>1. ASSUME NEW x \in records, x.key = key[r]
        PROVE  x.expires <= txStart[r]
    <3>1. x.expires \in Nat /\ txStart[r] \in Nat
      BY DEF Rows
    <3>2. x \notin Found(r)
      BY <1>7 DEF LookupNone
    <3>3. QED
      BY <2>1, <3>1, <3>2 DEF Found, RowsOf, Expired, Live
  <2>2. QED
    BY <1>7, <2>1 DEF LookupNone
<1>8. ASSUME NEW r \in Attempts, LookupMismatch(r) PROVE ClearInv'
  BY <1>8 DEF LookupMismatch
<1>9. ASSUME NEW r \in Attempts, LookupReplay(r) PROVE ClearInv'
  BY <1>9 DEF LookupReplay
<1>10. ASSUME NEW r \in Attempts, Execute(r) PROVE ClearInv'
  BY <1>10 DEF Execute
<1>11. ASSUME NEW r \in Attempts, Store(r) PROVE ClearInv'
  <2> DEFINE new == [key |-> key[r], hash |-> hash[r], resp |-> r,
                     expires |-> now + TTL]
  <2>1. UNCHANGED <<now, records, key, hash, txStart>> /\ pc[r] = "store"
    BY <1>11 DEF Store
  <2>2. CASE row' = [row EXCEPT ![r] = new] /\ pc' = [pc EXCEPT ![r] = "commit"]
    BY <2>1, <2>2
  <2>3. CASE UNCHANGED row /\ pc' = [pc EXCEPT ![r] = "ended"]
    BY <2>1, <2>3
  <2>4. QED
    BY <1>11, <2>2, <2>3 DEF Store
<1>12. ASSUME NEW r \in Attempts, Commit(r) PROVE ClearInv'
  <2>1. /\ pc[r] = "commit" /\ records' = Kept(r) \cup {row[r]}
        /\ row[r].key = key[r] /\ pc' = [pc EXCEPT ![r] = "mirror"]
        /\ UNCHANGED <<now, key, hash, txStart, row>>
    BY <1>12 DEF Commit
  <2>2. ASSUME NEW s \in Attempts, pc'[s] \in {"execute", "store", "commit"},
               NEW x \in records', x.key = key[s]
        PROVE  x.expires <= txStart[s]
    <3>1. s # r /\ pc[s] \in {"execute", "store", "commit"}
      BY <2>1, <2>2
    <3>2. key[s] # key[r]
      BY <2>1, <3>1 DEF LockInv, InCriticalSection
    <3>3. x \in records
      BY <2>1, <2>2, <3>2 DEF Kept
    <3>4. QED
      BY <2>2, <3>1, <3>3
  <2>3. QED
    BY <2>1, <2>2
<1>13. ASSUME NEW r \in Attempts, MirrorSkip(r) PROVE ClearInv'
  BY <1>13 DEF MirrorSkip, AnswerRow
<1>14. ASSUME NEW r \in Attempts, MirrorSend(r) PROVE ClearInv'
  BY <1>14 DEF MirrorSend
<1>15. ASSUME NEW r \in Attempts, RedisSet(r) PROVE ClearInv'
  BY <1>15 DEF RedisSet
<1>16. ASSUME NEW r \in Attempts, MirrorAnswer(r) PROVE ClearInv'
  BY <1>16 DEF MirrorAnswer, AnswerRow
<1>17. ASSUME NEW r \in Attempts, Abort(r) PROVE ClearInv'
  BY <1>17 DEF Abort, InFlight
<1>18. CASE CacheLoss
  BY <1>18 DEF CacheLoss
<1>19. CASE Tick
  <2>1. \A r \in Attempts : row[r].expires \in Nat /\ txStart[r] \in Nat
    BY DEF Rows
  <2>2. QED
    BY <1>19, <2>1 DEF Tick
<1>20. CASE UNCHANGED vars
  BY <1>20 DEF vars
<1> QED
  BY <1>1, <1>2, <1>3, <1>4, <1>5, <1>6, <1>6b, <1>7, <1>8, <1>9, <1>10, <1>11,
     <1>12, <1>13, <1>14, <1>15, <1>16, <1>17, <1>18, <1>19,
     <1>20
     DEF Next, Progress, Done

(* An attempt carries a row of the table to the mirror, or the row it has put *)
(* there; a SET of its remaining life, applied in time, is late by at most    *)
(* RedisDelay.                                                                *)
LEMMA MirrorStep == IInv /\ [Next]_vars => MirrorInv'
<1> SUFFICES ASSUME IInv, [Next]_vars
             PROVE  MirrorInv'
  OBVIOUS
<1> USE DEF IInv, MirrorInv, Carries, TypeOK, Backed, Goto, Answer
<1>1. ASSUME NEW r \in Attempts, Start(r) PROVE MirrorInv'
  BY <1>1 DEF Start
<1>2. ASSUME NEW r \in Attempts, CacheHit(r) PROVE MirrorInv'
  <2>1. pc' = [pc EXCEPT ![r] = "ended"]
    BY <1>2 DEF CacheHit
  <2>2. QED
    BY <1>2, <2>1 DEF CacheHit
<1>3. ASSUME NEW r \in Attempts, CacheMiss(r) PROVE MirrorInv'
  BY <1>3 DEF CacheMiss
<1>4. ASSUME NEW r \in Attempts, SetLockTimeout(r) PROVE MirrorInv'
  BY <1>4 DEF SetLockTimeout
<1>5. ASSUME NEW r \in Attempts, TakeLock(r) PROVE MirrorInv'
  BY <1>5 DEF TakeLock
<1>6. ASSUME NEW r \in Attempts, LockTimeout(r) PROVE MirrorInv'
  BY <1>6 DEF LockTimeout
<1>6b. ASSUME NEW r \in Attempts, AnswerInProgress(r) PROVE MirrorInv'
  BY <1>6b DEF AnswerInProgress
<1>7. ASSUME NEW r \in Attempts, LookupNone(r) PROVE MirrorInv'
  BY <1>7 DEF LookupNone
<1>8. ASSUME NEW r \in Attempts, LookupMismatch(r) PROVE MirrorInv'
  BY <1>8 DEF LookupMismatch
<1>9. ASSUME NEW r \in Attempts, LookupReplay(r) PROVE MirrorInv'
  <2>1. PICK x \in records : /\ x.key = key[r] /\ x.hash = hash[r]
                            /\ row' = [row EXCEPT ![r] = x]
    BY <1>9 DEF LookupReplay, Found, RowsOf
  <2>2. Backed(x)
    BY DEF TableInv
  <2>3. r \notin wire
    BY <1>9 DEF LookupReplay
  <2>4. /\ pc' = [pc EXCEPT ![r] = "mirror"]
        /\ UNCHANGED <<cache, key, hash, sent, wire, executed>>
    BY <1>9 DEF LookupReplay
  <2>5. Carries(r)'
    BY <2>1, <2>2, <2>4
  <2>6. ASSUME NEW s \in Attempts \ {r}, Carries(s) PROVE Carries(s)'
    BY <2>1, <2>4, <2>6
  <2>7. \A s \in Attempts : pc'[s] \in {"mirror", "set"} => Carries(s)'
    BY <2>4, <2>5, <2>6
  <2>8. \A s \in wire' : /\ pc'[s] \in {"set", "ended"} /\ Carries(s)'
                         /\ sent'[s].at + sent'[s].ttl = row'[s].expires
    BY <2>1, <2>3, <2>4, <2>6
  <2>9. QED
    BY <2>4, <2>7, <2>8
<1>10. ASSUME NEW r \in Attempts, Execute(r) PROVE MirrorInv'
  BY <1>10 DEF Execute
<1>11. ASSUME NEW r \in Attempts, Store(r) PROVE MirrorInv'
  <2>1. /\ \/ pc' = [pc EXCEPT ![r] = "commit"]
           \/ pc' = [pc EXCEPT ![r] = "ended"]
        /\ \A s \in Attempts \ {r} : row'[s] = row[s]
        /\ UNCHANGED <<cache, key, hash, sent, wire, executed>>
    BY <1>11 DEF Store
  <2>2. r \notin wire
    BY <1>11 DEF Store
  <2>3. ASSUME NEW s \in Attempts \ {r}, Carries(s) PROVE Carries(s)'
    BY <2>1, <2>3
  <2>4. \A s \in Attempts : pc'[s] \in {"mirror", "set"} => Carries(s)'
    BY <2>1, <2>3
  <2>5. \A s \in wire' : /\ pc'[s] \in {"set", "ended"} /\ Carries(s)'
                         /\ sent'[s].at + sent'[s].ttl = row'[s].expires
    BY <2>1, <2>2, <2>3
  <2>6. QED
    BY <2>1, <2>4, <2>5
<1>12. ASSUME NEW r \in Attempts, Commit(r) PROVE MirrorInv'
  <2> DEFINE n == [key |-> key[r], hash |-> hash[r], resp |-> r,
                   start |-> txStart[r], expires |-> row[r].expires]
  <2>1. /\ executed' = executed \cup {n} /\ pc' = [pc EXCEPT ![r] = "mirror"]
        /\ UNCHANGED <<cache, key, hash, row, sent, wire>>
    BY <1>12 DEF Commit
  <2>2. row[r].key = key[r] /\ row[r].hash = hash[r] /\ row[r].resp = r
    BY <1>12 DEF Commit, ClearInv
  <2>3. n \in executed' /\ n.key = row[r].key /\ n.hash = row[r].hash
          /\ n.resp = row[r].resp /\ n.expires = row[r].expires
    BY <2>1, <2>2
  <2>4. Carries(r)'
    BY <2>1, <2>2, <2>3
  <2>5. ASSUME NEW s \in Attempts, Carries(s) PROVE Carries(s)'
    BY <2>1, <2>5
  <2>6. r \notin wire
    BY <1>12 DEF Commit
  <2>7. \A s \in Attempts : pc'[s] \in {"mirror", "set"} => Carries(s)'
    BY <2>1, <2>4, <2>5
  <2>8. \A s \in wire' : /\ pc'[s] \in {"set", "ended"} /\ Carries(s)'
                         /\ sent'[s].at + sent'[s].ttl = row'[s].expires
    BY <2>1, <2>5, <2>6
  <2>9. \A e \in cache' :
          \E a \in executed' : /\ a.key = e.key /\ a.hash = e.hash /\ a.resp = e.resp
                               /\ e.expires <= a.expires + RedisDelay
    BY <2>1
  <2>10. QED
    BY <2>7, <2>8, <2>9
<1>13. ASSUME NEW r \in Attempts, MirrorSkip(r) PROVE MirrorInv'
  BY <1>13 DEF MirrorSkip, AnswerRow
<1>14. ASSUME NEW r \in Attempts, MirrorSend(r) PROVE MirrorInv'
  <2>1. /\ sent' = [sent EXCEPT ![r] = [at |-> now, ttl |-> row[r].expires - now]]
        /\ pc[r] = "mirror" /\ pc' = [pc EXCEPT ![r] = "set"]
        /\ wire' = wire \cup {r}
        /\ UNCHANGED <<cache, key, hash, row, executed>>
    BY <1>14 DEF MirrorSend, RemainingLife
  <2>2. now \in Nat /\ row[r].expires \in Nat
    BY DEF Rows
  <2>3. now + (row[r].expires - now) = row[r].expires
    BY <2>2
  <2>4. sent'[r].at + sent'[r].ttl = row[r].expires
    BY <2>1, <2>3
  <2>5. ASSUME NEW s \in Attempts, Carries(s) PROVE Carries(s)'
    BY <2>1, <2>5
  <2>6. \A s \in Attempts : pc'[s] \in {"mirror", "set"} => Carries(s)'
    BY <2>1, <2>5
  <2>7. ASSUME NEW s \in wire'
        PROVE  /\ pc'[s] \in {"set", "ended"} /\ Carries(s)'
               /\ sent'[s].at + sent'[s].ttl = row'[s].expires
    BY <2>1, <2>4, <2>5
  <2>8. QED
    BY <2>1, <2>6, <2>7
<1>15. ASSUME NEW r \in Attempts, RedisSet(r) PROVE MirrorInv'
  <2> DEFINE e0 == [row[r] EXCEPT !.expires = now + sent[r].ttl]
  <2>1. /\ cache' = {e \in cache : e.key # row[r].key} \cup {e0}
        /\ now <= sent[r].at + RedisDelay /\ r \in wire /\ wire' = wire \ {r}
        /\ UNCHANGED <<pc, key, hash, row, sent, executed>>
    BY <1>15 DEF RedisSet
  <2>2. /\ now \in Nat /\ sent[r].at \in Nat /\ sent[r].ttl \in Nat
        /\ row[r] \in Rows /\ row[r].expires \in Nat
    BY DEF Rows, Sets
  <2>3. Carries(r) /\ sent[r].at + sent[r].ttl = row[r].expires
    BY <2>1
  <2>4. /\ e0.key = row[r].key /\ e0.hash = row[r].hash /\ e0.resp = row[r].resp
        /\ e0.expires <= row[r].expires + RedisDelay
    BY <2>1, <2>2, <2>3 DEF Rows
  <2>5. \E a \in executed : /\ a.key = e0.key /\ a.hash = e0.hash
                            /\ a.resp = e0.resp /\ e0.expires <= a.expires + RedisDelay
    BY <2>3, <2>4
  <2>6. \A e \in cache' :
          \E a \in executed : /\ a.key = e.key /\ a.hash = e.hash /\ a.resp = e.resp
                              /\ e.expires <= a.expires + RedisDelay
    BY <2>1, <2>5
  <2>7. QED
    BY <2>1, <2>6
<1>16. ASSUME NEW r \in Attempts, MirrorAnswer(r) PROVE MirrorInv'
  BY <1>16 DEF MirrorAnswer, AnswerRow
<1>17. ASSUME NEW r \in Attempts, Abort(r) PROVE MirrorInv'
  BY <1>17 DEF Abort, InFlight
<1>18. CASE CacheLoss
  BY <1>18 DEF CacheLoss
<1>19. CASE Tick
  BY <1>19 DEF Tick
<1>20. CASE UNCHANGED vars
  BY <1>20 DEF vars
<1> QED
  BY <1>1, <1>2, <1>3, <1>4, <1>5, <1>6, <1>6b, <1>7, <1>8, <1>9, <1>10, <1>11,
     <1>12, <1>13, <1>14, <1>15, <1>16, <1>17, <1>18, <1>19,
     <1>20
     DEF Next, Progress, Done


(* An attempt commits at most once, and its answer is its last step.          *)
LEMMA AnswerStep == IInv /\ [Next]_vars => AnswerInv'
<1> SUFFICES ASSUME IInv, [Next]_vars
             PROVE  AnswerInv'
  OBVIOUS
<1> USE DEF IInv, AnswerInv, TypeOK, Goto, Answer
<1>1. ASSUME NEW r \in Attempts, Start(r) PROVE AnswerInv'
  BY <1>1 DEF Start
<1>2. ASSUME NEW r \in Attempts, CacheHit(r) PROVE AnswerInv'
  <2>1. PICK how \in {"replayed", "mismatch"} :
          /\ outcome' = [outcome EXCEPT ![r] = how]
          /\ pc' = [pc EXCEPT ![r] = "ended"]
    BY <1>2 DEF CacheHit
  <2>2. QED
    BY <1>2, <2>1 DEF CacheHit, Executions
<1>3. ASSUME NEW r \in Attempts, CacheMiss(r) PROVE AnswerInv'
  BY <1>3 DEF CacheMiss
<1>4. ASSUME NEW r \in Attempts, SetLockTimeout(r) PROVE AnswerInv'
  BY <1>4 DEF SetLockTimeout
<1>5. ASSUME NEW r \in Attempts, TakeLock(r) PROVE AnswerInv'
  BY <1>5 DEF TakeLock
<1>6. ASSUME NEW r \in Attempts, LockTimeout(r) PROVE AnswerInv'
  BY <1>6 DEF LockTimeout
<1>6b. ASSUME NEW r \in Attempts, AnswerInProgress(r) PROVE AnswerInv'
  BY <1>6b DEF AnswerInProgress
<1>7. ASSUME NEW r \in Attempts, LookupNone(r) PROVE AnswerInv'
  BY <1>7 DEF LookupNone
<1>8. ASSUME NEW r \in Attempts, LookupMismatch(r) PROVE AnswerInv'
  BY <1>8 DEF LookupMismatch
<1>9. ASSUME NEW r \in Attempts, LookupReplay(r) PROVE AnswerInv'
  BY <1>9 DEF LookupReplay
<1>10. ASSUME NEW r \in Attempts, Execute(r) PROVE AnswerInv'
  BY <1>10 DEF Execute
<1>11. ASSUME NEW r \in Attempts, Store(r) PROVE AnswerInv'
  <2>1. CASE pc' = [pc EXCEPT ![r] = "commit"] /\ UNCHANGED outcome
    BY <1>11, <2>1 DEF Store, Executions
  <2>2. CASE /\ pc' = [pc EXCEPT ![r] = "ended"]
             /\ outcome' = [outcome EXCEPT ![r] = "conflict"]
    BY <1>11, <2>2 DEF Store, Executions
  <2>3. QED
    BY <1>11, <2>1, <2>2 DEF Store
<1>12. ASSUME NEW r \in Attempts, Commit(r) PROVE AnswerInv'
  BY <1>12 DEF Commit
<1>13. ASSUME NEW r \in Attempts, MirrorSkip(r) PROVE AnswerInv'
  BY <1>13 DEF MirrorSkip, AnswerRow
<1>14. ASSUME NEW r \in Attempts, MirrorSend(r) PROVE AnswerInv'
  BY <1>14 DEF MirrorSend
<1>15. ASSUME NEW r \in Attempts, RedisSet(r) PROVE AnswerInv'
  BY <1>15 DEF RedisSet
<1>16. ASSUME NEW r \in Attempts, MirrorAnswer(r) PROVE AnswerInv'
  BY <1>16 DEF MirrorAnswer, AnswerRow
<1>17. ASSUME NEW r \in Attempts, Abort(r) PROVE AnswerInv'
  BY <1>17 DEF Abort, InFlight
<1>18. CASE CacheLoss
  BY <1>18 DEF CacheLoss
<1>19. CASE Tick
  BY <1>19 DEF Tick
<1>20. CASE UNCHANGED vars
  BY <1>20 DEF vars
<1> QED
  BY <1>1, <1>2, <1>3, <1>4, <1>5, <1>6, <1>6b, <1>7, <1>8, <1>9, <1>10, <1>11,
     <1>12, <1>13, <1>14, <1>15, <1>16, <1>17, <1>18, <1>19,
     <1>20
     DEF Next, Progress, Done

(* The insert finds no row that is not expired: ClearInv. *)
LEMMA ConflictStep == IInv /\ [Next]_vars => StoreNeverConflicts'
<1> SUFFICES ASSUME IInv, [Next]_vars
             PROVE  StoreNeverConflicts'
  OBVIOUS
<1> USE DEF IInv, StoreNeverConflicts, TypeOK, Goto, Answer
<1>1. ASSUME NEW r \in Attempts, Start(r) PROVE StoreNeverConflicts'
  BY <1>1 DEF Start
<1>2. ASSUME NEW r \in Attempts, CacheHit(r) PROVE StoreNeverConflicts'
  <2>1. PICK how \in {"replayed", "mismatch"} : outcome' = [outcome EXCEPT ![r] = how]
    BY <1>2 DEF CacheHit
  <2>2. QED
    BY <2>1
<1>3. ASSUME NEW r \in Attempts, CacheMiss(r) PROVE StoreNeverConflicts'
  BY <1>3 DEF CacheMiss
<1>4. ASSUME NEW r \in Attempts, SetLockTimeout(r) PROVE StoreNeverConflicts'
  BY <1>4 DEF SetLockTimeout
<1>5. ASSUME NEW r \in Attempts, TakeLock(r) PROVE StoreNeverConflicts'
  BY <1>5 DEF TakeLock
<1>6. ASSUME NEW r \in Attempts, LockTimeout(r) PROVE StoreNeverConflicts'
  BY <1>6 DEF LockTimeout
<1>6b. ASSUME NEW r \in Attempts, AnswerInProgress(r) PROVE StoreNeverConflicts'
  BY <1>6b DEF AnswerInProgress
<1>7. ASSUME NEW r \in Attempts, LookupNone(r) PROVE StoreNeverConflicts'
  BY <1>7 DEF LookupNone
<1>8. ASSUME NEW r \in Attempts, LookupMismatch(r) PROVE StoreNeverConflicts'
  BY <1>8 DEF LookupMismatch
<1>9. ASSUME NEW r \in Attempts, LookupReplay(r) PROVE StoreNeverConflicts'
  BY <1>9 DEF LookupReplay
<1>10. ASSUME NEW r \in Attempts, Execute(r) PROVE StoreNeverConflicts'
  BY <1>10 DEF Execute
<1>11. ASSUME NEW r \in Attempts, Store(r) PROVE StoreNeverConflicts'
  <2>1. ~ InsertConflicts(r)
    BY <1>11 DEF Store, InsertConflicts, RowsOf, Expired, ClearInv
  <2>2. UNCHANGED outcome
    BY <1>11, <2>1 DEF Store
  <2>3. QED
    BY <2>2
<1>12. ASSUME NEW r \in Attempts, Commit(r) PROVE StoreNeverConflicts'
  BY <1>12 DEF Commit
<1>13. ASSUME NEW r \in Attempts, MirrorSkip(r) PROVE StoreNeverConflicts'
  BY <1>13 DEF MirrorSkip, AnswerRow
<1>14. ASSUME NEW r \in Attempts, MirrorSend(r) PROVE StoreNeverConflicts'
  BY <1>14 DEF MirrorSend
<1>15. ASSUME NEW r \in Attempts, RedisSet(r) PROVE StoreNeverConflicts'
  BY <1>15 DEF RedisSet
<1>16. ASSUME NEW r \in Attempts, MirrorAnswer(r) PROVE StoreNeverConflicts'
  BY <1>16 DEF MirrorAnswer, AnswerRow
<1>17. ASSUME NEW r \in Attempts, Abort(r) PROVE StoreNeverConflicts'
  BY <1>17 DEF Abort, InFlight
<1>18. CASE CacheLoss
  BY <1>18 DEF CacheLoss
<1>19. CASE Tick
  BY <1>19 DEF Tick
<1>20. CASE UNCHANGED vars
  BY <1>20 DEF vars
<1> QED
  BY <1>1, <1>2, <1>3, <1>4, <1>5, <1>6, <1>6b, <1>7, <1>8, <1>9, <1>10, <1>11,
     <1>12, <1>13, <1>14, <1>15, <1>16, <1>17, <1>18, <1>19,
     <1>20
     DEF Next, Progress, Done


(* A new execution began when the newest row of its key, which outlives the    *)
(* window of every earlier execution, had expired.                             *)
LEMMA WindowStep == IInv /\ [Next]_vars => AtMostOncePerWindow'
<1> SUFFICES ASSUME IInv, [Next]_vars
             PROVE  AtMostOncePerWindow'
  OBVIOUS
<1> USE DEF IInv, AtMostOncePerWindow, TypeOK
<1>1. ASSUME NEW r \in Attempts, Start(r) PROVE AtMostOncePerWindow'
  BY <1>1 DEF Start
<1>2. ASSUME NEW r \in Attempts, CacheHit(r) PROVE AtMostOncePerWindow'
  BY <1>2 DEF CacheHit
<1>3. ASSUME NEW r \in Attempts, CacheMiss(r) PROVE AtMostOncePerWindow'
  BY <1>3 DEF CacheMiss
<1>4. ASSUME NEW r \in Attempts, SetLockTimeout(r) PROVE AtMostOncePerWindow'
  BY <1>4 DEF SetLockTimeout
<1>5. ASSUME NEW r \in Attempts, TakeLock(r) PROVE AtMostOncePerWindow'
  BY <1>5 DEF TakeLock
<1>6. ASSUME NEW r \in Attempts, LockTimeout(r) PROVE AtMostOncePerWindow'
  BY <1>6 DEF LockTimeout
<1>6b. ASSUME NEW r \in Attempts, AnswerInProgress(r) PROVE AtMostOncePerWindow'
  BY <1>6b DEF AnswerInProgress
<1>7. ASSUME NEW r \in Attempts, LookupNone(r) PROVE AtMostOncePerWindow'
  BY <1>7 DEF LookupNone
<1>8. ASSUME NEW r \in Attempts, LookupMismatch(r) PROVE AtMostOncePerWindow'
  BY <1>8 DEF LookupMismatch
<1>9. ASSUME NEW r \in Attempts, LookupReplay(r) PROVE AtMostOncePerWindow'
  BY <1>9 DEF LookupReplay
<1>10. ASSUME NEW r \in Attempts, Execute(r) PROVE AtMostOncePerWindow'
  BY <1>10 DEF Execute
<1>11. ASSUME NEW r \in Attempts, Store(r) PROVE AtMostOncePerWindow'
  BY <1>11 DEF Store
<1>12. ASSUME NEW r \in Attempts, Commit(r) PROVE AtMostOncePerWindow'
  <2> DEFINE n == [key |-> key[r], hash |-> hash[r], resp |-> r,
                   start |-> txStart[r], expires |-> row[r].expires]
  <2>1. executed' = executed \cup {n}
    BY <1>12 DEF Commit
  <2>2. ASSUME NEW a \in executed, a.key = key[r]
        PROVE  a.expires <= n.start
    <3>1. PICK x \in records : x.key = a.key /\ a.expires <= x.expires
      BY DEF TableInv
    <3>2. x.expires <= txStart[r]
      BY <1>12, <2>2, <3>1 DEF Commit, ClearInv
    <3>3. a.expires \in Nat /\ x.expires \in Nat /\ txStart[r] \in Nat
      BY DEF Rows, Executions
    <3>4. QED
      BY <3>1, <3>2, <3>3
  <2>3. QED
    BY <2>1, <2>2
<1>13. ASSUME NEW r \in Attempts, MirrorSkip(r) PROVE AtMostOncePerWindow'
  BY <1>13 DEF MirrorSkip
<1>14. ASSUME NEW r \in Attempts, MirrorSend(r) PROVE AtMostOncePerWindow'
  BY <1>14 DEF MirrorSend
<1>15. ASSUME NEW r \in Attempts, RedisSet(r) PROVE AtMostOncePerWindow'
  BY <1>15 DEF RedisSet
<1>16. ASSUME NEW r \in Attempts, MirrorAnswer(r) PROVE AtMostOncePerWindow'
  BY <1>16 DEF MirrorAnswer
<1>17. ASSUME NEW r \in Attempts, Abort(r) PROVE AtMostOncePerWindow'
  BY <1>17 DEF Abort
<1>18. CASE CacheLoss
  BY <1>18 DEF CacheLoss
<1>19. CASE Tick
  BY <1>19 DEF Tick
<1>20. CASE UNCHANGED vars
  BY <1>20 DEF vars
<1> QED
  BY <1>1, <1>2, <1>3, <1>4, <1>5, <1>6, <1>6b, <1>7, <1>8, <1>9, <1>10, <1>11,
     <1>12, <1>13, <1>14, <1>15, <1>16, <1>17, <1>18, <1>19,
     <1>20
     DEF Next, Progress, Done


(* What an attempt answers with, it found in the cache under its key and hash, *)
(* or carries since its lookup or its own commit.                              *)
LEMMA ReplayStep == IInv /\ [Next]_vars => ReplayFaithful'
<1> SUFFICES ASSUME IInv, [Next]_vars
             PROVE  ReplayFaithful'
  OBVIOUS
<1> USE DEF IInv, ReplayFaithful, TypeOK, Goto, Answer
<1>1. ASSUME NEW r \in Attempts, Start(r) PROVE ReplayFaithful'
  BY <1>1 DEF Start
<1>2. ASSUME NEW r \in Attempts, CacheHit(r) PROVE ReplayFaithful'
  <2>1. UNCHANGED <<key, hash, executed>>
    BY <1>2 DEF CacheHit
  <2>2. PICK e \in cache :
          /\ e.key = key[r]
          /\ IF e.hash = hash[r] THEN Answer(r, "replayed", e.resp)
                                 ELSE Answer(r, "mismatch", r)
    BY <1>2 DEF CacheHit
  <2>3. CASE e.hash = hash[r]
    <3>1. /\ outcome' = [outcome EXCEPT ![r] = "replayed"]
          /\ reply' = [reply EXCEPT ![r] = e.resp]
      BY <2>2, <2>3
    <3>2. \E a \in executed :
            a.key = key[r] /\ a.hash = hash[r] /\ a.resp = e.resp
      BY <2>2, <2>3 DEF MirrorInv
    <3>3. QED
      BY <2>1, <3>1, <3>2
  <2>4. CASE e.hash # hash[r]
    <3>1. /\ outcome' = [outcome EXCEPT ![r] = "mismatch"]
          /\ reply' = [reply EXCEPT ![r] = r]
      BY <2>2, <2>4
    <3>2. QED
      BY <2>1, <3>1
  <2>5. QED
    BY <2>3, <2>4
<1>3. ASSUME NEW r \in Attempts, CacheMiss(r) PROVE ReplayFaithful'
  BY <1>3 DEF CacheMiss
<1>4. ASSUME NEW r \in Attempts, SetLockTimeout(r) PROVE ReplayFaithful'
  BY <1>4 DEF SetLockTimeout
<1>5. ASSUME NEW r \in Attempts, TakeLock(r) PROVE ReplayFaithful'
  BY <1>5 DEF TakeLock
<1>6. ASSUME NEW r \in Attempts, LockTimeout(r) PROVE ReplayFaithful'
  BY <1>6 DEF LockTimeout
<1>6b. ASSUME NEW r \in Attempts, AnswerInProgress(r) PROVE ReplayFaithful'
  BY <1>6b DEF AnswerInProgress
<1>7. ASSUME NEW r \in Attempts, LookupNone(r) PROVE ReplayFaithful'
  BY <1>7 DEF LookupNone
<1>8. ASSUME NEW r \in Attempts, LookupMismatch(r) PROVE ReplayFaithful'
  BY <1>8 DEF LookupMismatch
<1>9. ASSUME NEW r \in Attempts, LookupReplay(r) PROVE ReplayFaithful'
  BY <1>9 DEF LookupReplay
<1>10. ASSUME NEW r \in Attempts, Execute(r) PROVE ReplayFaithful'
  BY <1>10 DEF Execute
<1>11. ASSUME NEW r \in Attempts, Store(r) PROVE ReplayFaithful'
  <2>1. \/ UNCHANGED <<outcome, reply>>
        \/ /\ outcome' = [outcome EXCEPT ![r] = "conflict"]
           /\ reply' = [reply EXCEPT ![r] = r]
    BY <1>11 DEF Store
  <2>2. UNCHANGED <<key, hash, executed>>
    BY <1>11 DEF Store
  <2>3. QED
    BY <2>1, <2>2
<1>12. ASSUME NEW r \in Attempts, Commit(r) PROVE ReplayFaithful'
  BY <1>12 DEF Commit
<1>13. ASSUME NEW r \in Attempts, MirrorSkip(r) PROVE ReplayFaithful'
  <2>1. PICK how \in Outcomes : /\ outcome' = [outcome EXCEPT ![r] = how]
                              /\ reply' = [reply EXCEPT ![r] = row[r].resp]
    BY <1>13 DEF MirrorSkip, AnswerRow, Outcomes
  <2>2. \E a \in executed :
          a.key = key[r] /\ a.hash = hash[r] /\ a.resp = row[r].resp
    <3>1. /\ pc[r] = "mirror"
          /\ row[r].key = key[r] /\ row[r].hash = hash[r] /\ Backed(row[r])
      BY <1>13 DEF MirrorSkip, MirrorInv, Carries
    <3>2. QED
      BY <3>1 DEF Backed
  <2>3. UNCHANGED <<key, hash, executed>>
    BY <1>13 DEF MirrorSkip
  <2>4. QED
    BY <2>1, <2>2, <2>3
<1>14. ASSUME NEW r \in Attempts, MirrorSend(r) PROVE ReplayFaithful'
  BY <1>14 DEF MirrorSend
<1>15. ASSUME NEW r \in Attempts, RedisSet(r) PROVE ReplayFaithful'
  BY <1>15 DEF RedisSet
<1>16. ASSUME NEW r \in Attempts, MirrorAnswer(r) PROVE ReplayFaithful'
  <2>1. PICK how \in Outcomes : /\ outcome' = [outcome EXCEPT ![r] = how]
                              /\ reply' = [reply EXCEPT ![r] = row[r].resp]
    BY <1>16 DEF MirrorAnswer, AnswerRow, Outcomes
  <2>2. \E a \in executed :
          a.key = key[r] /\ a.hash = hash[r] /\ a.resp = row[r].resp
    BY <1>16, SMTT(30) DEF MirrorAnswer, MirrorInv, Carries, Backed
  <2>3. UNCHANGED <<key, hash, executed>>
    BY <1>16 DEF MirrorAnswer
  <2>4. QED
    BY <2>1, <2>2, <2>3
<1>17. ASSUME NEW r \in Attempts, Abort(r) PROVE ReplayFaithful'
  BY <1>17 DEF Abort, InFlight
<1>18. CASE CacheLoss
  BY <1>18 DEF CacheLoss
<1>19. CASE Tick
  BY <1>19 DEF Tick
<1>20. CASE UNCHANGED vars
  BY <1>20 DEF vars
<1> QED
  BY <1>1, <1>2, <1>3, <1>4, <1>5, <1>6, <1>6b, <1>7, <1>8, <1>9, <1>10, <1>11,
     <1>12, <1>13, <1>14, <1>15, <1>16, <1>17, <1>18, <1>19,
     <1>20
     DEF Next, Progress, Done

----------------------------------------------------------------------------
(* The invariant holds before any attempt has started. *)
LEMMA InitIInv == Init => IInv
<1> SUFFICES ASSUME Init PROVE IInv
  OBVIOUS
<1>1. TypeOK
  BY DEF Init, TypeOK, Rows, Sets, Points, Outcomes, Executions
<1>2. LockInv /\ ClearInv
  BY DEF Init, LockInv, ClearInv, InCriticalSection
<1>3. TableInv /\ MirrorInv /\ AnswerInv
  BY DEF Init, TableInv, MirrorInv, AnswerInv
<1>4. StoreNeverConflicts /\ AtMostOncePerWindow /\ ReplayFaithful
  BY DEF Init, StoreNeverConflicts, AtMostOncePerWindow, ReplayFaithful
<1>5. QED
  BY <1>1, <1>2, <1>3, <1>4 DEF IInv

(* The invariant is inductive, given the types. *)
LEMMA Invariance == Spec => []IInv
<1>1. IInv /\ [Next]_vars /\ TypeOK' => IInv'
  BY LockStep, TableStep, ClearStep, MirrorStep, AnswerStep, ConflictStep,
     WindowStep, ReplayStep DEF IInv
<1>2. QED
  BY <1>1, InitIInv, TypeCorrect, PTL DEF Spec

(* Two attempts whose keys share an advisory-lock id are never both between   *)
(* taking the lock and the end of the transaction.                            *)
THEOREM MutualExclusion == Spec => []LockExclusive
<1>1. IInv => LockExclusive
  BY DEF IInv, LockInv, LockExclusive
<1>2. QED
  BY <1>1, Invariance, PTL

(* No attempt that was told to execute finds its key claimed when it stores.  *)
THEOREM NoStoreConflict == Spec => []StoreNeverConflicts
<1>1. IInv => StoreNeverConflicts
  BY DEF IInv
<1>2. QED
  BY <1>1, Invariance, PTL

(* An attempt that stores its record waits for no insert of another attempt,  *)
(* and meets no row in the unique index: the advisory lock comes first, so a   *)
(* holder of one never waits, and nobody can wait in a circle.                *)
InsertGoesThrough ==
  \A r \in Attempts : pc[r] = "store" => ~ InsertWaits(r) /\ ~ InsertConflicts(r)

THEOREM HoldersNeverWait == Spec => []InsertGoesThrough
<1>1. ASSUME IInv, NEW r \in Attempts, pc[r] = "store"
      PROVE  ~ InsertWaits(r)
  <2>1. ASSUME NEW s \in Attempts \ {r}, pc[s] = "commit", key[s] = key[r]
        PROVE  FALSE
    <3>1. r \in holders /\ s \in holders
      BY <1>1, <2>1 DEF IInv, LockInv, InCriticalSection
    <3>2. QED
      BY <1>1, <2>1, <3>1 DEF IInv, LockInv
  <2>2. QED
    BY <2>1 DEF InsertWaits
<1>2. ASSUME IInv, NEW r \in Attempts, pc[r] = "store"
      PROVE  ~ InsertConflicts(r)
  BY <1>2 DEF IInv, ClearInv, InsertConflicts, RowsOf, Expired
<1>3. IInv => InsertGoesThrough
  BY <1>1, <1>2 DEF InsertGoesThrough
<1>4. QED
  BY <1>3, Invariance, PTL

(* The operation of a key is committed at most once in the life of a record.  *)
THEOREM AtMostOnce == Spec => []AtMostOncePerWindow
<1>1. IInv => AtMostOncePerWindow
  BY DEF IInv
<1>2. QED
  BY <1>1, Invariance, PTL

(* The table never loses the newest execution of a key.                       *)
THEOREM NewestRecorded == Spec => []NewestExecutionRecorded
<1>1. IInv => NewestExecutionRecorded
  BY DEF IInv, TableInv, NewestExecutionRecorded
<1>2. QED
  BY <1>1, Invariance, PTL

(* A result is only shown to a request with the key and payload it is for.    *)
THEOREM FaithfulReplay == Spec => []ReplayFaithful
<1>1. IInv => ReplayFaithful
  BY DEF IInv
<1>2. QED
  BY <1>1, Invariance, PTL

(* The mirror outlives the record by the delay of one SET at most.            *)
THEOREM BoundedMirror == Spec => []MirrorLifeBounded
<1>1. IInv => MirrorLifeBounded
  BY DEF IInv, MirrorInv, MirrorLifeBounded
<1>2. QED
  BY <1>1, Invariance, PTL

----------------------------------------------------------------------------
(* Refinement.  Committed operations are the effects of the promise, at work   *)
(* are the holders of a lock, and have met one the attempts that are rolled    *)
(* back after lock_timeout.                                                    *)
Effects == {[key |-> a.key, hash |-> a.hash, resp |-> a.resp,
             expires |-> a.expires] : a \in executed}

Met == {r \in Attempts : pc[r] = "rollback"}

(* Every committed execution is an effect of the promise. *)
LEMMA EffectOf ==
  ASSUME NEW a \in executed
  PROVE  \E e \in Effects : /\ e.key = a.key /\ e.hash = a.hash
                            /\ e.resp = a.resp /\ e.expires = a.expires
<1>1. [key |-> a.key, hash |-> a.hash, resp |-> a.resp, expires |-> a.expires]
        \in Effects
  BY DEF Effects
<1>2. QED
  BY <1>1

(* A step of an attempt that neither enters nor leaves the rollback meets     *)
(* nobody; one that ends is no longer among those who met another.            *)
LEMMA MetKept ==
  ASSUME TypeOK, NEW r \in Attempts, NEW p \in Points \ {"rollback"},
         pc[r] # "rollback", Goto(r, p)
  PROVE  UNCHANGED Met
BY DEF TypeOK, Goto, Met

LEMMA MetLeft ==
  ASSUME TypeOK, NEW r \in Attempts, NEW how, NEW of, Answer(r, how, of)
  PROVE  Met' = Met \ {r}
BY DEF TypeOK, Answer, Goto, Met

(* An answer carried by a row of an execution is a result shown.              *)
LEMMA ShowStep ==
  ASSUME IInv, NEW r \in Attempts, outcome[r] = "none", NEW s \in Attempts,
         Answer(r, IF s = r THEN "created" ELSE "replayed", s),
         \E a \in executed : a.key = key[r] /\ a.hash = hash[r] /\ a.resp = s,
         holders' = holders \ {r},
         UNCHANGED <<now, key, hash, executed>>
  PROVE  Promise!ShowResult(r)
<1>1. PICK a \in executed : a.key = key[r] /\ a.hash = hash[r] /\ a.resp = s
  OBVIOUS
<1>2. PICK e \in Effects : e.key = a.key /\ e.hash = a.hash /\ e.resp = a.resp
  BY EffectOf
<1>3. /\ outcome' = [outcome EXCEPT ![r] = IF e.resp = r THEN "created" ELSE "replayed"]
      /\ reply' = [reply EXCEPT ![r] = e.resp]
  BY <1>1, <1>2 DEF Answer
<1>4. UNCHANGED <<now, key, hash, Effects>>
  BY DEF Effects
<1>5. Met' = Met \ {r}
  BY MetLeft DEF IInv
<1>6. QED
  BY <1>1, <1>2, <1>3, <1>4, <1>5 DEF Promise!ShowResult, Promise!Leave, Effects, Met

(* An answer without a result leaves the reply alone. *)
LEMMA RefusalStep ==
  ASSUME IInv, NEW r \in Attempts, outcome[r] = "none", NEW how \in Outcomes,
         Answer(r, how, r)
  PROVE  /\ outcome' = [outcome EXCEPT ![r] = how] /\ UNCHANGED reply
         /\ Met' = Met \ {r}
<1>1. reply[r] = r /\ reply \in [Attempts -> Attempts]
  BY DEF IInv, AnswerInv, TypeOK
<1>2. Met' = Met \ {r}
  BY MetLeft DEF IInv
<1>3. QED
  BY <1>1, <1>2 DEF Answer

(* Every step of the protocol is one of the promise, or none at all. *)
LEMMA StepSimulation ==
  ASSUME IInv, StoreNeverConflicts', [Next]_vars
  PROVE  [Promise!Next]_(Promise!vars)
<1> USE DEF IInv
<1> DEFINE Stutter == UNCHANGED <<now, key, hash, outcome, reply, executed,
                                  holders, Met>>
<1>0. Stutter => UNCHANGED Promise!vars
  BY DEF Promise!vars, Met
<1>a. \A r \in Attempts : pc[r] # "ended" => outcome[r] = "none"
  BY DEF AnswerInv
<1>b. {"cache", "begin", "lock", "lookup", "execute", "store", "commit",
       "mirror", "set"} \subseteq Points \ {"rollback"}
  BY DEF Points
<1>1. ASSUME NEW r \in Attempts, Start(r) PROVE [Promise!Next]_(Promise!vars)
  <2>1. UNCHANGED Met
    BY <1>b, <1>1, MetKept DEF Start
  <2>2. QED
    BY <1>0, <1>1, <2>1 DEF Start
<1>2. ASSUME NEW r \in Attempts, CacheHit(r) PROVE [Promise!Next]_(Promise!vars)
  <2>1. outcome[r] = "none" /\ pc[r] = "cache"
    BY <1>a, <1>2 DEF CacheHit
  <2>2. holders' = holders \ {r} /\ UNCHANGED <<now, key, hash, executed>>
    BY <1>2, <2>1 DEF CacheHit, LockInv
  <2>3. PICK e \in cache :
          /\ e.key = key[r]
          /\ IF e.hash = hash[r] THEN Answer(r, "replayed", e.resp)
                                 ELSE Answer(r, "mismatch", r)
    BY <1>2 DEF CacheHit
  <2>4. PICK a \in executed : a.key = e.key /\ a.hash = e.hash /\ a.resp = e.resp
    BY DEF MirrorInv
  <2>5. CASE e.hash = hash[r]
    <3>1. e.resp \in Attempts /\ e.resp # r
      BY <2>1, <2>4 DEF AnswerInv, TypeOK, Executions
    <3>2. Answer(r, IF e.resp = r THEN "created" ELSE "replayed", e.resp)
      BY <2>3, <2>5, <3>1
    <3>3. Promise!ShowResult(r)
      BY <2>1, <2>2, <2>3, <2>4, <2>5, <3>1, <3>2, ShowStep
    <3>4. QED
      BY <3>3 DEF Promise!Next
  <2>6. CASE e.hash # hash[r]
    <3>1. Answer(r, "mismatch", r)
      BY <2>3, <2>6
    <3>2. /\ outcome' = [outcome EXCEPT ![r] = "mismatch"] /\ UNCHANGED reply
          /\ Met' = Met \ {r}
      BY <2>1, <3>1, RefusalStep DEF Outcomes
    <3>3. \E x \in Effects : x.key = key[r] /\ x.hash # hash[r]
      BY <2>3, <2>4, <2>6, EffectOf
    <3>4. Promise!RefuseMismatch(r)
      BY <2>1, <2>2, <3>2, <3>3 DEF Promise!RefuseMismatch, Promise!Leave, Effects, Met
    <3>5. QED
      BY <3>4 DEF Promise!Next
  <2>7. QED
    BY <2>5, <2>6
<1>3. ASSUME NEW r \in Attempts, CacheMiss(r) PROVE [Promise!Next]_(Promise!vars)
  <2>1. UNCHANGED Met
    BY <1>b, <1>3, MetKept DEF CacheMiss
  <2>2. QED
    BY <1>0, <1>3, <2>1 DEF CacheMiss
<1>4. ASSUME NEW r \in Attempts, SetLockTimeout(r) PROVE [Promise!Next]_(Promise!vars)
  <2>1. UNCHANGED Met
    BY <1>b, <1>4, MetKept DEF SetLockTimeout
  <2>2. QED
    BY <1>0, <1>4, <2>1 DEF SetLockTimeout
<1>5. ASSUME NEW r \in Attempts, TakeLock(r) PROVE [Promise!Next]_(Promise!vars)
  <2>1. /\ outcome[r] = "none" /\ pc[r] = "lock" /\ Goto(r, "lookup")
        /\ LockFree(r) /\ holders' = holders \cup {r}
        /\ UNCHANGED <<now, key, hash, outcome, reply, executed>>
    BY <1>a, <1>5 DEF TakeLock
  <2>2. UNCHANGED Met
    BY <1>b, <2>1, MetKept
  <2>3. Promise!Begin(r)
    BY <2>1, <2>2 DEF Promise!Begin, Promise!Others, LockFree, Met
  <2>4. QED
    BY <2>3 DEF Promise!Next
<1>6. ASSUME NEW r \in Attempts, LockTimeout(r) PROVE [Promise!Next]_(Promise!vars)
  <2>1. /\ outcome[r] = "none" /\ ~ LockFree(r) /\ Goto(r, "rollback")
        /\ UNCHANGED <<now, key, hash, outcome, reply, executed, holders>>
    BY <1>a, <1>6 DEF LockTimeout
  <2>2. Met' = Met \cup {r}
    BY <2>1 DEF Met, Goto, TypeOK
  <2>3. Promise!Meet(r)
    BY <2>1, <2>2 DEF Promise!Meet, Promise!Others, LockFree, Met
  <2>4. QED
    BY <2>3 DEF Promise!Next
<1>6b. ASSUME NEW r \in Attempts, AnswerInProgress(r)
       PROVE  [Promise!Next]_(Promise!vars)
  <2>1. /\ outcome[r] = "none" /\ r \in Met /\ holders' = holders \ {r}
        /\ UNCHANGED <<now, key, hash, executed>>
    BY <1>a, <1>6b DEF AnswerInProgress, Met, LockInv
  <2>2. /\ outcome' = [outcome EXCEPT ![r] = "in_progress"] /\ UNCHANGED reply
        /\ Met' = Met \ {r}
    BY <1>6b, <2>1, RefusalStep DEF AnswerInProgress, Outcomes
  <2>3. Promise!RefuseInProgress(r)
    BY <2>1, <2>2 DEF Promise!RefuseInProgress, Promise!Leave, Met
  <2>4. QED
    BY <2>3 DEF Promise!Next
<1>7. ASSUME NEW r \in Attempts, LookupNone(r) PROVE [Promise!Next]_(Promise!vars)
  <2>1. UNCHANGED Met
    BY <1>b, <1>7, MetKept DEF LookupNone
  <2>2. QED
    BY <1>0, <1>7, <2>1 DEF LookupNone
<1>8. ASSUME NEW r \in Attempts, LookupMismatch(r) PROVE [Promise!Next]_(Promise!vars)
  <2>1. /\ outcome[r] = "none" /\ holders' = holders \ {r}
        /\ UNCHANGED <<now, key, hash, executed>>
    BY <1>a, <1>8 DEF LookupMismatch, Release
  <2>2. /\ outcome' = [outcome EXCEPT ![r] = "mismatch"] /\ UNCHANGED reply
        /\ Met' = Met \ {r}
    BY <1>8, <2>1, RefusalStep DEF LookupMismatch, Outcomes
  <2>3. PICK x \in records : x.key = key[r] /\ x.hash # hash[r]
    BY <1>8 DEF LookupMismatch, Found, RowsOf
  <2>4. PICK a \in executed : a.key = x.key /\ a.hash = x.hash
    BY DEF TableInv, Backed
  <2>5. \E e \in Effects : e.key = key[r] /\ e.hash # hash[r]
    BY <2>3, <2>4, EffectOf
  <2>6. Promise!RefuseMismatch(r)
    BY <2>1, <2>2, <2>5 DEF Promise!RefuseMismatch, Promise!Leave, Effects, Met
  <2>7. QED
    BY <2>6 DEF Promise!Next
<1>9. ASSUME NEW r \in Attempts, LookupReplay(r) PROVE [Promise!Next]_(Promise!vars)
  <2>1. UNCHANGED Met
    BY <1>b, <1>9, MetKept DEF LookupReplay
  <2>2. QED
    BY <1>0, <1>9, <2>1 DEF LookupReplay
<1>10. ASSUME NEW r \in Attempts, Execute(r) PROVE [Promise!Next]_(Promise!vars)
  <2>1. UNCHANGED Met
    BY <1>b, <1>10, MetKept DEF Execute
  <2>2. QED
    BY <1>0, <1>10, <2>1 DEF Execute
<1>11. ASSUME NEW r \in Attempts, Store(r) PROVE [Promise!Next]_(Promise!vars)
  <2>1. ~ InsertConflicts(r)
    BY <1>11 DEF Store, InsertConflicts, RowsOf, Expired, ClearInv
  <2>2. /\ pc[r] = "store" /\ Goto(r, "commit")
        /\ UNCHANGED <<now, key, hash, outcome, reply, executed, holders>>
    BY <1>11, <2>1 DEF Store
  <2>3. UNCHANGED Met
    BY <1>b, <2>2, MetKept
  <2>4. QED
    BY <1>0, <2>2, <2>3
<1>12. ASSUME NEW r \in Attempts, Commit(r) PROVE [Promise!Next]_(Promise!vars)
  <2> DEFINE n == [key |-> key[r], hash |-> hash[r], resp |-> r,
                   start |-> txStart[r], expires |-> row[r].expires]
             f == [key |-> key[r], hash |-> hash[r], resp |-> r,
                   expires |-> row[r].expires]
  <2>1. /\ executed' = executed \cup {n} /\ pc[r] = "commit" /\ outcome[r] = "none"
        /\ r \in holders /\ holders' = holders \ {r} /\ Goto(r, "mirror")
        /\ UNCHANGED <<now, key, hash, outcome, reply>>
    BY <1>a, <1>12 DEF Commit, Release, LockInv, InCriticalSection
  <2>2. Effects' = Effects \cup {f}
    <3> DEFINE g(a) == [key |-> a.key, hash |-> a.hash, resp |-> a.resp,
                        expires |-> a.expires]
    <3>1. g(n) = f
      OBVIOUS
    <3>2. Effects = {g(a) : a \in executed} /\ Effects' = {g(a) : a \in executed'}
      BY DEF Effects
    <3> HIDE DEF n, f, g
    <3>3. QED
      BY <2>1, <3>1, <3>2
  <2>3. row[r].expires \in 0 .. now + TTL
    BY <2>1 DEF ClearInv, TypeOK, Rows
  <2>4. ASSUME NEW e \in Effects
        PROVE  e.resp # r /\ (e.key = key[r] => e.expires <= now)
    <3>1. PICK a \in executed : e = [key |-> a.key, hash |-> a.hash,
                                     resp |-> a.resp, expires |-> a.expires]
      BY DEF Effects
    <3>2. a.resp # r
      BY <2>1 DEF AnswerInv
    <3>3. ASSUME a.key = key[r] PROVE a.expires <= now
      <4>1. PICK x \in records : x.key = a.key /\ a.expires <= x.expires
        BY DEF TableInv
      <4>2. x.expires <= txStart[r] /\ txStart[r] <= now
        BY <2>1, <3>3, <4>1 DEF ClearInv
      <4>3. a.expires \in Nat /\ x.expires \in Nat /\ txStart[r] \in Nat /\ now \in Nat
        BY DEF TypeOK, Rows, Executions
      <4>4. QED
        BY <4>1, <4>2, <4>3
    <3>4. QED
      BY <3>1, <3>2, <3>3
  <2>5. UNCHANGED Met
    BY <1>b, <2>1, MetKept
  <2>6. Promise!Effect(r)
    BY <2>1, <2>2, <2>3, <2>4, <2>5 DEF Promise!Effect, Effects, Met
  <2>7. QED
    BY <2>6 DEF Promise!Next
<1>13. ASSUME NEW r \in Attempts, MirrorSkip(r) PROVE [Promise!Next]_(Promise!vars)
  <2>1. /\ outcome[r] = "none" /\ pc[r] \in {"mirror", "set"} /\ AnswerRow(r)
        /\ holders' = holders \ {r} /\ UNCHANGED <<now, key, hash, executed>>
    BY <1>a, <1>13 DEF MirrorSkip, Release
  <2>2. row[r].resp \in Attempts
    BY DEF TypeOK, Rows
  <2>3. \E a \in executed :
          a.key = key[r] /\ a.hash = hash[r] /\ a.resp = row[r].resp
    BY <2>1 DEF MirrorInv, Carries, Backed
  <2>4. Promise!ShowResult(r)
    BY <2>1, <2>2, <2>3, ShowStep DEF AnswerRow
  <2>5. QED
    BY <2>4 DEF Promise!Next
<1>14. ASSUME NEW r \in Attempts, MirrorSend(r) PROVE [Promise!Next]_(Promise!vars)
  <2>1. UNCHANGED Met
    BY <1>b, <1>14, MetKept DEF MirrorSend
  <2>2. QED
    BY <1>0, <1>14, <2>1 DEF MirrorSend
<1>15. ASSUME NEW r \in Attempts, RedisSet(r) PROVE [Promise!Next]_(Promise!vars)
  BY <1>0, <1>15 DEF RedisSet, Met
<1>16. ASSUME NEW r \in Attempts, MirrorAnswer(r) PROVE [Promise!Next]_(Promise!vars)
  <2>1. /\ outcome[r] = "none" /\ pc[r] \in {"mirror", "set"} /\ AnswerRow(r)
        /\ holders' = holders \ {r} /\ UNCHANGED <<now, key, hash, executed>>
    BY <1>a, <1>16 DEF MirrorAnswer, Release
  <2>2. row[r].resp \in Attempts
    BY DEF TypeOK, Rows
  <2>3. \E a \in executed :
          a.key = key[r] /\ a.hash = hash[r] /\ a.resp = row[r].resp
    BY <2>1 DEF MirrorInv, Carries, Backed
  <2>4. Promise!ShowResult(r)
    BY <2>1, <2>2, <2>3, ShowStep DEF AnswerRow
  <2>5. QED
    BY <2>4 DEF Promise!Next
<1>17. ASSUME NEW r \in Attempts, Abort(r) PROVE [Promise!Next]_(Promise!vars)
  <2>1. /\ outcome[r] = "none" /\ holders' = holders \ {r}
        /\ UNCHANGED <<now, key, hash, executed>>
    BY <1>a, <1>17 DEF Abort, InFlight, Release
  <2>2. /\ outcome' = [outcome EXCEPT ![r] = "error"] /\ UNCHANGED reply
        /\ Met' = Met \ {r}
    BY <1>17, <2>1, RefusalStep DEF Abort, Outcomes
  <2>3. Promise!Failure(r)
    BY <2>1, <2>2 DEF Promise!Failure, Promise!Leave, Met
  <2>4. QED
    BY <2>3 DEF Promise!Next
<1>18. CASE CacheLoss
  BY <1>0, <1>18 DEF CacheLoss, Met
<1>19. CASE Tick
  <2>1. Promise!TimePasses
    BY <1>19 DEF Tick, Promise!TimePasses
  <2>2. QED
    BY <2>1 DEF Promise!Next
<1>20. CASE UNCHANGED vars
  BY <1>0, <1>20 DEF vars, Met
<1> QED
  BY <1>1, <1>2, <1>3, <1>4, <1>5, <1>6, <1>6b, <1>7, <1>8, <1>9, <1>10, <1>11,
     <1>12, <1>13, <1>14, <1>15, <1>16, <1>17, <1>18, <1>19, <1>20
     DEF Next, Progress, Done

(* The protocol keeps what IDEMPOTENCY_KEY_HEADER tells the client: every step *)
(* of it is a step of the promise or changes nothing the client can see.       *)
THEOREM Implements == Spec => ImplementsPromise
<1>1. Init => Promise!Init
  BY DEF Init, Promise!Init
<1>2. IInv /\ IInv' /\ [Next]_vars => [Promise!Next]_(Promise!vars)
  BY StepSimulation DEF IInv
<1>3. QED
  BY <1>1, <1>2, Invariance, PTL DEF Spec, ImplementsPromise, Promise!Spec
=============================================================================
