---------------------------- MODULE LoginProofs ----------------------------
(***************************************************************************)
(* Proofs about Login, for any number of requests, however they overlap, and *)
(* any limits.                                                               *)
(***************************************************************************)
EXTENDS Login, FiniteSetTheorems, TLAPS

USE MaxAttemptsAssumption, LockDurationAssumption, MaxSessionsAssumption,
    BoundsAssumption

(* The lockout row has one lock.                                             *)
LockInv == \A r, s \in lockHeld : r = s

(* The login that a session is named after has committed.                    *)
Created(i) == pc[i] \in {"purge", "ended"}

(* A session row has one lock; whatever names a session (a row, a lock, an   *)
(* eviction, what a request has loaded) names one that was created; and who  *)
(* is about to write a session back holds its lock, so it is still there.    *)
RowInv ==
  /\ \A g, h \in rowHeld : g[2] = h[2] => g[1] = h[1]
  /\ \A h \in rowHeld : Created(h[2])
  /\ \A s \in sessions : Created(s.id)
  /\ \A i \in evicted : Created(i)
  /\ \A r \in Logins :
       pc[r] \in {"reuse", "reuse_row", "commit_reuse", "evict", "evict_row"}
         => Created(target[r].id)
  /\ \A r \in Logins :
       pc[r] = "commit_reuse" => <<r, target[r].id>> \in rowHeld /\ target[r].id \in Ids

(* It has written the lockout row, if it had to. *)
Flushed(r) == pc[r] \in {"reuse_row", "commit_reuse", "commit_new"}

(* Who is about to write the lockout row holds its lock; a failure writes     *)
(* one more than the row has and a lock at least as late; and the lock that  *)
(* anybody else had loaded has run out.                                      *)
LoadedInv ==
  /\ lockout.until <= now + LockDuration
  /\ \A r \in Logins :
       pc[r] = "failing" =>
         /\ r \in lockHeld
         /\ snap[r].failed = lockout.failed + 1
         /\ lockout.until <= snap[r].until /\ snap[r].until <= now + LockDuration
         /\ Exhausted(snap[r].failed) => snap[r].until # 0
  /\ \A r \in Logins : Flushed(r) /\ DirtyLockout(r) => r \in lockHeld
  /\ \A r \in Logins :
       InFlight(r) /\ pc[r] # "failing" => snap[r].until <= now

IInv ==
  TypeOK /\ LockInv /\ RowInv /\ LoadedInv /\ NoFailureLost /\ EvictedStaysOut

----------------------------------------------------------------------------
(* A set whose members are equal has one at most.                            *)
LEMMA AtMostOne ==
  ASSUME NEW S, \A x, y \in S : x = y
  PROVE  IsFiniteSet(S) /\ Cardinality(S) \in Nat /\ Cardinality(S) <= 1
  <1>1. CASE S = {}
    BY <1>1, FS_EmptySet
  <1>2. CASE S # {}
    <2>1. PICK x : S = {x}
      BY <1>2
    <2>2. IsFiniteSet({x}) /\ Cardinality({x}) = 1
      BY FS_Singleton, Zenon
    <2>3. IsFiniteSet(S) /\ Cardinality(S) = 1
      BY <2>1, <2>2, Zenon
    <2> QED
      BY <2>3
  <1> QED
    BY <1>1, <1>2

(* ReleaseLocks takes the locks of one request away.                         *)
LEMMA ReleaseGood ==
  ASSUME TypeOK, LockInv, NEW r \in Logins, ReleaseLocks(r)
  PROVE  /\ lockHeld' \subseteq lockHeld /\ rowHeld' \subseteq rowHeld
         /\ \A h \in rowHeld : h[1] # r => h \in rowHeld'
         /\ LockInv'
  <1>1. lockHeld' = lockHeld \ {r} /\ rowHeld' = {h \in rowHeld : h[1] # r}
    BY DEF ReleaseLocks
  <1>2. lockHeld' \subseteq lockHeld /\ LockInv'
    BY <1>1 DEF LockInv
  <1>3. rowHeld' \subseteq rowHeld /\ \A h \in rowHeld : h[1] # r => h \in rowHeld'
    BY <1>1, Zenon
  <1> QED
    BY <1>2, <1>3

LEMMA ResetGood ==
  ASSUME TypeOK, NEW r \in Logins, ResetLockout(r)
  PROVE  /\ lockout' \in Lockouts /\ failures' \in Nat
         /\ NoFailureLost => NoFailureLost'
  BY DEF ResetLockout, TypeOK, Lockouts, NoFailureLost

LEMMA InitIInv == Init => IInv
  <1> SUFFICES ASSUME Init PROVE IInv
    OBVIOUS
  <1>1. TypeOK
    BY FS_EmptySet DEF Init, TypeOK, Lockouts, SessionRows, Points, Outcomes
  <1>2. LockInv /\ RowInv /\ NoFailureLost /\ EvictedStaysOut
    BY DEF Init, LockInv, RowInv, NoFailureLost, EvictedStaysOut, Ids
  <1>3. LoadedInv
    BY DEF Init, LoadedInv, Flushed, InFlight
  <1> QED
    BY <1>1, <1>2, <1>3 DEF IInv

----------------------------------------------------------------------------
LEMMA LockStep == TypeOK /\ LockInv /\ [Next]_vars => LockInv'
  <1> SUFFICES ASSUME TypeOK, LockInv, [Next]_vars PROVE LockInv'
    OBVIOUS
  <1>1. ASSUME NEW r \in Logins, ReleaseLocks(r) PROVE LockInv'
    BY <1>1, ReleaseGood
  <1>2. ASSUME NEW r \in Logins, LockLockout(r) \/ FlushLockout(r) PROVE LockInv'
    BY <1>2 DEF LockLockout, FlushLockout, LockInv
  <1>3. CASE UNCHANGED lockHeld
    BY <1>3 DEF LockInv
  <1> QED
    BY <1>1, <1>2, <1>3 DEF Next, UnknownUser, Load, Progress, Abort, Tick, Done,
       VerifyWrong, VerifyDenied, VerifyRight, CommitFailure, FindDevice, Count,
       SelectVictim, FlushReuse, CommitReuse, FlushDelete, CommitNew, Purge, vars, locks

(* Every step keeps the types.                                               *)
LEMMA TypeStep == TypeOK /\ LockInv /\ [Next]_vars => TypeOK'
  <1> SUFFICES ASSUME TypeOK, LockInv, [Next]_vars PROVE TypeOK'
    OBVIOUS
  <1> USE DEF TypeOK
  <1>0. lockHeld' \subseteq Logins => Cardinality(lockHeld') <= 1
    BY LockStep, AtMostOne DEF LockInv
  <1>a. ASSUME NEW r \in Logins, NEW p \in Points, Goto(r, p)
        PROVE  pc' \in [Logins -> Points]
    BY <1>a DEF Goto
  <1>b. ASSUME NEW r \in Logins, NEW a \in Outcomes, Answer(r, a)
        PROVE  pc' \in [Logins -> Points] /\ outcome' \in [Logins -> Outcomes]
    BY <1>b DEF Answer, Goto, Points
  <1>c. ASSUME NEW r \in Logins, ReleaseLocks(r)
        PROVE  lockHeld' \subseteq Logins /\ rowHeld' \subseteq Logins \X Logins
    BY <1>c, ReleaseGood
  <1>1. ASSUME NEW r \in Logins, UnknownUser(r) \/ VerifyDenied(r) \/ Purge(r)
        PROVE  TypeOK'
    BY <1>1, <1>b DEF UnknownUser, VerifyDenied, Purge, db, locks, Outcomes
  <1>2. ASSUME NEW r \in Logins, Load(r) PROVE TypeOK'
    <2>1. pc' \in [Logins -> Points] /\ outcome' \in [Logins -> Outcomes]
      BY <1>2, <1>a, <1>b DEF Load, Points, Outcomes
    <2> QED
      BY <1>2, <2>1 DEF Load, db, locks
  <1>3. ASSUME NEW r \in Logins, VerifyWrong(r) \/ VerifyRight(r) \/ Count(r)
        PROVE  TypeOK'
    <2>1. pc' \in [Logins -> Points]
      BY <1>3, <1>a DEF VerifyWrong, VerifyRight, Count, Points
    <2> QED
      BY <1>3, <2>1 DEF VerifyWrong, VerifyRight, Count, db, locks
  <1>4. ASSUME NEW r \in Logins, LockLockout(r) \/ FlushLockout(r) PROVE TypeOK'
    <2>1. pc' \in [Logins -> Points]
      BY <1>4 DEF LockLockout, FlushLockout, Goto, Points
    <2>2. lockHeld' \subseteq Logins
      BY <1>4 DEF LockLockout, FlushLockout
    <2>3. snap' \in [Logins -> Lockouts]
      BY <1>4 DEF LockLockout, FlushLockout, Raised, Lockouts
    <2> QED
      BY <1>0, <1>4, <2>1, <2>2, <2>3 DEF LockLockout, FlushLockout, db
  <1>5. ASSUME NEW r \in Logins, CommitFailure(r) PROVE TypeOK'
    <2>1. lockout' \in Lockouts /\ failures' \in Nat
      BY <1>5 DEF CommitFailure, Lockouts
    <2>2. pc' \in [Logins -> Points] /\ outcome' \in [Logins -> Outcomes]
      BY <1>5, <1>b DEF CommitFailure, Outcomes
    <2>3. lockHeld' \subseteq Logins /\ rowHeld' \subseteq Logins \X Logins
      BY <1>5, <1>c DEF CommitFailure
    <2> QED
      BY <1>0, <1>5, <2>1, <2>2, <2>3 DEF CommitFailure
  <1>6. ASSUME NEW r \in Logins, FindDevice(r) \/ SelectVictim(r) PROVE TypeOK'
    <2>1. pc' \in [Logins -> Points]
      BY <1>6, <1>a DEF FindDevice, SelectVictim, Points
    <2>a. \A s \in SessionRows : [s EXCEPT !.used = now] \in SessionRows
      BY DEF SessionRows
    <2>2. target' \in [Logins -> SessionRows]
      BY <1>6, <2>a DEF FindDevice, SelectVictim
    <2> QED
      BY <1>6, <2>1, <2>2 DEF FindDevice, SelectVictim, db, locks
  <1>7. ASSUME NEW r \in Logins, FlushReuse(r) PROVE TypeOK'
    <2>1. /\ pc' \in [Logins -> Points] /\ outcome' \in [Logins -> Outcomes]
          /\ lockHeld' \subseteq Logins /\ rowHeld' \subseteq Logins \X Logins
      <3>1. CASE ReuseExists(r)
        BY <1>7, <1>a, <3>1 DEF FlushReuse, LockRow, SessionRows, Points
      <3>2. CASE ~ ReuseExists(r)
        BY <1>7, <1>b, <1>c, <3>2 DEF FlushReuse, Outcomes
      <3> QED
        BY <3>1, <3>2
    <2> QED
      BY <1>0, <1>7, <2>1 DEF FlushReuse, db
  <1>8. ASSUME NEW r \in Logins, CommitReuse(r) PROVE TypeOK'
    <2>1. sessions' \subseteq SessionRows
      BY <1>8 DEF CommitReuse, SessionRows
    <2>2. lockout' \in Lockouts /\ failures' \in Nat
      BY <1>8, ResetGood DEF CommitReuse
    <2>3. pc' \in [Logins -> Points] /\ outcome' \in [Logins -> Outcomes]
      BY <1>8, <1>b DEF CommitReuse, Outcomes
    <2>4. lockHeld' \subseteq Logins /\ rowHeld' \subseteq Logins \X Logins
      BY <1>8, <1>c DEF CommitReuse
    <2> QED
      BY <1>0, <1>8, <2>1, <2>2, <2>3, <2>4 DEF CommitReuse
  <1>9. ASSUME NEW r \in Logins, FlushDelete(r) PROVE TypeOK'
    <2>1. pc' \in [Logins -> Points]
      BY <1>9, <1>a DEF FlushDelete, Points
    <2>2. rowHeld' \subseteq Logins \X Logins
      BY <1>9 DEF FlushDelete, LockRow, SessionRows
    <2> QED
      BY <1>9, <2>1, <2>2 DEF FlushDelete, db
  <1>10. ASSUME NEW r \in Logins, CommitNew(r) PROVE TypeOK'
    <2>1. sessions' \subseteq SessionRows
      BY <1>10 DEF CommitNew, SessionRows
    <2>2. lockout' \in Lockouts /\ failures' \in Nat
      BY <1>10, ResetGood DEF CommitNew
    <2>3. pc' \in [Logins -> Points] /\ outcome' \in [Logins -> Outcomes]
      BY <1>10, <1>a, <1>b DEF CommitNew, Outcomes, Points
    <2>4. lockHeld' \subseteq Logins /\ rowHeld' \subseteq Logins \X Logins
      BY <1>10, <1>c DEF CommitNew
    <2>5. evicted' \subseteq Logins /\ overtaken' \subseteq Logins
      BY <1>10 DEF CommitNew, Victims
    <2> QED
      BY <1>0, <1>10, <2>1, <2>2, <2>3, <2>4, <2>5 DEF CommitNew
  <1>11. ASSUME NEW r \in Logins, Abort(r) PROVE TypeOK'
    BY <1>0, <1>11, <1>b, <1>c DEF Abort, db, Outcomes
  <1>12. CASE Tick \/ Done \/ UNCHANGED vars
    BY <1>12 DEF Tick, Done, vars, db, locks
  <1> QED
    BY <1>1, <1>2, <1>3, <1>4, <1>5, <1>6, <1>7, <1>8, <1>9, <1>10, <1>11, <1>12
       DEF Next, Progress

(* The counter: raised with the history under the lock, reset with it.       *)
LEMMA FailureStep ==
  TypeOK /\ LoadedInv /\ NoFailureLost /\ [Next]_vars => NoFailureLost'
  <1> SUFFICES ASSUME TypeOK, LoadedInv, NoFailureLost, [Next]_vars PROVE NoFailureLost'
    OBVIOUS
  <1>1. ASSUME NEW r \in Logins, CommitFailure(r) PROVE NoFailureLost'
    BY <1>1 DEF CommitFailure, LoadedInv, NoFailureLost
  <1>2. ASSUME NEW r \in Logins, ResetLockout(r) PROVE NoFailureLost'
    BY <1>2, ResetGood
  <1>3. CASE UNCHANGED <<lockout, failures>>
    BY <1>3 DEF NoFailureLost
  <1> QED
    BY <1>1, <1>2, <1>3 DEF Next, UnknownUser, Load, Progress, Abort, Tick, Done,
       VerifyWrong, VerifyDenied, VerifyRight, LockLockout, FindDevice, Count,
       SelectVictim, FlushLockout, FlushReuse, CommitReuse, FlushDelete, CommitNew,
       Purge, vars, db

(* Once created, a session's name stays taken.                               *)
LEMMA CreatedStays ==
  ASSUME TypeOK, [Next]_vars, NEW i \in Logins, Created(i)
  PROVE  Created(i)'
  <1>1. ASSUME NEW r \in Logins, NEW p, Goto(r, p), r # i PROVE Created(i)'
    BY <1>1 DEF Goto, Created, TypeOK
  <1>2. ASSUME NEW r \in Logins, Progress(r) \/ UnknownUser(r) \/ Load(r) \/ Abort(r)
        PROVE  Created(i)'
    <2>1. CASE r # i
      BY <1>1, <1>2, <2>1 DEF Progress, UnknownUser, Load, Abort, VerifyWrong, VerifyDenied,
         VerifyRight, LockLockout, CommitFailure, FindDevice, Count, SelectVictim,
         FlushLockout, FlushReuse, CommitReuse, FlushDelete, CommitNew, Purge, Answer
    <2>2. CASE r = i
      <3>1. Purge(i) \/ (Abort(i) /\ pc[i] = "purge")
        BY <1>2, <2>2 DEF Created, Progress, UnknownUser, Load, Abort, InFlight,
           VerifyWrong, VerifyDenied, VerifyRight, LockLockout, CommitFailure, FindDevice,
           Count, SelectVictim, FlushLockout, FlushReuse, CommitReuse, FlushDelete, CommitNew
      <3> QED
        BY <3>1 DEF Purge, Abort, Answer, Goto, Created, TypeOK
    <2> QED
      BY <2>1, <2>2
  <1>3. CASE UNCHANGED pc
    BY <1>3 DEF Created
  <1> QED
    BY <1>2, <1>3 DEF Next, Tick, Done, vars

(* A request that names no session keeps the rows' invariant, whatever row   *)
(* locks it lets go.                                                         *)
LEMMA RowsKept ==
  ASSUME TypeOK, RowInv, [Next]_vars, NEW r \in Logins,
         UNCHANGED <<sessions, evicted, target>>,
         rowHeld' \subseteq rowHeld,
         \A h \in rowHeld : h[1] # r => h \in rowHeld',
         \A s \in Logins : s # r => pc'[s] = pc[s],
         pc'[r] \notin {"reuse", "reuse_row", "commit_reuse", "evict", "evict_row"}
  PROVE  RowInv'
  <1> USE DEF RowInv
  <1>1. \A h \in rowHeld' : h[2] \in Logins /\ Created(h[2])'
    BY CreatedStays DEF TypeOK
  <1>2. \A s \in sessions : Created(s.id)'
    BY CreatedStays DEF TypeOK, SessionRows
  <1>3. \A i \in evicted : Created(i)'
    BY CreatedStays DEF TypeOK
  <1>4. \A s \in Logins :
          pc'[s] \in {"reuse", "reuse_row", "commit_reuse", "evict", "evict_row"}
            => Created(target[s].id)'
    BY CreatedStays DEF TypeOK, SessionRows
  <1>5. \A s \in Logins :
          pc'[s] = "commit_reuse" => <<s, target[s].id>> \in rowHeld' /\ target[s].id \in Ids
    <2> SUFFICES ASSUME NEW s \in Logins, pc'[s] = "commit_reuse"
                 PROVE  <<s, target[s].id>> \in rowHeld' /\ target[s].id \in Ids
      OBVIOUS
    <2>1. s # r /\ pc[s] = "commit_reuse"
      OBVIOUS
    <2>2. <<s, target[s].id>> \in rowHeld /\ <<s, target[s].id>>[1] # r
      BY <2>1
    <2> QED
      BY <2>1, <2>2
  <1>6. Ids' = Ids
    BY DEF Ids
  <1> QED
    BY <1>1, <1>2, <1>3, <1>4, <1>5, <1>6

(* One more lock, of the row the request has loaded.                         *)
LEMMA LockRowGood ==
  ASSUME TypeOK, RowInv, NEW r \in Logins, RowFree(r), LockRow(r),
         Created(target[r].id)
  PROVE  /\ \A g, h \in rowHeld' : g[2] = h[2] => g[1] = h[1]
         /\ \A h \in rowHeld' : h[2] \in Logins /\ Created(h[2])
         /\ rowHeld \subseteq rowHeld' /\ <<r, target[r].id>> \in rowHeld'
  <1>1. rowHeld' = rowHeld \cup {<<r, target[r].id>>}
    BY DEF LockRow
  <1>2. \A h \in rowHeld : h[2] = target[r].id => h[1] = r
    BY DEF RowFree
  <1>3. \A g, h \in rowHeld' : g[2] = h[2] => g[1] = h[1]
    BY <1>1, <1>2 DEF RowInv
  <1>4. \A h \in rowHeld' : h[2] \in Logins /\ Created(h[2])
    BY <1>1 DEF RowInv, TypeOK, SessionRows
  <1> QED
    BY <1>1, <1>3, <1>4

LEMMA RowStep == IInv /\ [Next]_vars => RowInv'
  <1> SUFFICES ASSUME IInv, [Next]_vars PROVE RowInv'
    OBVIOUS
  <1>0. TypeOK /\ LockInv /\ RowInv /\ TypeOK'
    BY TypeStep DEF IInv
  <1> DEFINE Naming == {"reuse", "reuse_row", "commit_reuse", "evict", "evict_row"}
  <1>c. \A i \in Logins : Created(i) => Created(i)'
    BY <1>0, CreatedStays
  <1>1. ASSUME NEW r \in Logins,
               UnknownUser(r) \/ Load(r) \/ VerifyWrong(r) \/ VerifyDenied(r)
                 \/ VerifyRight(r) \/ LockLockout(r) \/ Count(r) \/ Purge(r)
        PROVE  RowInv'
    <2>1. /\ UNCHANGED <<sessions, evicted, target, rowHeld>>
          /\ \A s \in Logins : s # r => pc'[s] = pc[s]
          /\ pc'[r] \notin Naming
      BY <1>0, <1>1 DEF UnknownUser, Load, VerifyWrong, VerifyDenied, VerifyRight,
         LockLockout, Count, Purge, Answer, Goto, TypeOK, db, locks
    <2> QED
      BY <1>0, <2>1, RowsKept
  <1>2. ASSUME NEW r \in Logins,
               CommitFailure(r) \/ Abort(r) \/ (FlushReuse(r) /\ ~ ReuseExists(r))
        PROVE  RowInv'
    <2>1. /\ UNCHANGED <<sessions, evicted, target>> /\ ReleaseLocks(r)
          /\ \A s \in Logins : s # r => pc'[s] = pc[s]
          /\ pc'[r] \notin Naming
      BY <1>0, <1>2 DEF CommitFailure, Abort, FlushReuse, Answer, Goto, TypeOK, db
    <2> QED
      BY <1>0, <2>1, ReleaseGood, RowsKept
  <1>3. ASSUME NEW r \in Logins, FindDevice(r) \/ SelectVictim(r) PROVE RowInv'
    <2>1. /\ UNCHANGED <<sessions, evicted, rowHeld>>
          /\ \A s \in Logins : s # r => pc'[s] = pc[s] /\ target'[s] = target[s]
          /\ pc'[r] \in {"reuse", "evict"} => \E t \in sessions : target'[r].id = t.id
          /\ pc'[r] \in {"reuse", "evict", "count", "insert"}
      BY <1>0, <1>3 DEF FindDevice, SelectVictim, Goto, TypeOK, SessionRows, db, locks
    <2>2. \A h \in rowHeld : h[2] \in Logins /\ Created(h[2])'
      BY <1>0, <1>c DEF RowInv, TypeOK
    <2>3. /\ \A s \in sessions : s.id \in Logins /\ Created(s.id)'
          /\ \A i \in evicted : Created(i)'
      BY <1>0, <1>c DEF RowInv, TypeOK, SessionRows
    <2>4. \A s \in Logins : pc'[s] \in Naming => Created(target[s].id)'
      BY <1>0, <1>c, <2>1, <2>3 DEF RowInv, TypeOK, SessionRows
    <2>5. \A s \in Logins :
            pc'[s] = "commit_reuse" => <<s, target'[s].id>> \in rowHeld /\ target'[s].id \in Ids
      BY <1>0, <2>1 DEF RowInv
    <2> QED
      BY <1>0, <2>1, <2>2, <2>3, <2>4, <2>5 DEF RowInv, Ids
  <1>4. ASSUME NEW r \in Logins, FlushLockout(r) PROVE RowInv'
    <2>1. /\ UNCHANGED <<sessions, evicted, rowHeld, target>>
          /\ \A s \in Logins : s # r => pc'[s] = pc[s]
          /\ pc[r] \in {"reuse", "evict", "insert"}
          /\ pc'[r] = CASE pc[r] = "reuse"  -> "reuse_row"
                        [] pc[r] = "evict"  -> "evict_row"
                        [] pc[r] = "insert" -> "commit_new"
      BY <1>0, <1>4 DEF FlushLockout, Goto, TypeOK, db
    <2>2. \A s \in Logins : pc'[s] \in Naming => pc[s] \in Naming
      BY <2>1
    <2>3. \A s \in Logins : pc'[s] = "commit_reuse" => pc[s] = "commit_reuse"
      BY <2>1
    <2>4. \A h \in rowHeld : h[2] \in Logins
      BY <1>0 DEF TypeOK
    <2>5. /\ \A s \in sessions : s.id \in Logins
          /\ \A s \in Logins : target[s].id \in Logins
      BY <1>0 DEF TypeOK, SessionRows
    <2>6. evicted \subseteq Logins
      BY <1>0 DEF TypeOK
    <2> QED
      BY <1>0, <1>c, <2>1, <2>2, <2>3, <2>4, <2>5, <2>6 DEF RowInv, Ids
  <1>5. ASSUME NEW r \in Logins,
               FlushDelete(r) \/ (FlushReuse(r) /\ ReuseExists(r))
        PROVE  RowInv'
    <2>1. /\ UNCHANGED <<sessions, evicted, target>>
          /\ \A s \in Logins : s # r => pc'[s] = pc[s]
          /\ pc[r] \in Naming /\ pc'[r] \in {"insert", "commit_reuse"}
          /\ pc'[r] = "commit_reuse" => target[r].id \in Ids
          /\ RowFree(r) /\ LockRow(r)
      BY <1>0, <1>5 DEF FlushDelete, FlushReuse, ReuseExists, Goto, TypeOK, db
    <2>2. /\ \A g, h \in rowHeld' : g[2] = h[2] => g[1] = h[1]
          /\ \A h \in rowHeld' : h[2] \in Logins /\ Created(h[2])
          /\ rowHeld \subseteq rowHeld' /\ <<r, target[r].id>> \in rowHeld'
      <3>1. Created(target[r].id)
        BY <1>0, <2>1 DEF RowInv
      <3> QED
        BY <1>0, <2>1, <3>1, LockRowGood
    <2>3. /\ \A s \in sessions : s.id \in Logins /\ Created(s.id)'
          /\ \A i \in evicted : Created(i)'
          /\ \A h \in rowHeld' : Created(h[2])'
      BY <1>0, <1>c, <2>2 DEF RowInv, TypeOK, SessionRows
    <2>4. \A s \in Logins : pc'[s] \in Naming => Created(target[s].id)'
      BY <1>0, <1>c, <2>1 DEF RowInv, TypeOK, SessionRows
    <2>5. \A s \in Logins :
            pc'[s] = "commit_reuse" => <<s, target[s].id>> \in rowHeld' /\ target[s].id \in Ids
      BY <1>0, <2>1, <2>2 DEF RowInv
    <2> QED
      BY <2>1, <2>2, <2>3, <2>4, <2>5 DEF RowInv, Ids
  <1>6. ASSUME NEW r \in Logins, CommitReuse(r) PROVE RowInv'
    <2>1. /\ UNCHANGED <<evicted, target>> /\ ReleaseLocks(r)
          /\ \A s \in Logins : s # r => pc'[s] = pc[s]
          /\ pc[r] = "commit_reuse" /\ pc'[r] = "ended"
          /\ sessions' = {s \in sessions : s.id # target[r].id} \cup {target[r]}
      BY <1>0, <1>6 DEF CommitReuse, Answer, Goto, TypeOK
    <2>2. /\ rowHeld' \subseteq rowHeld
          /\ \A h \in rowHeld : h[1] # r => h \in rowHeld'
      BY <1>0, <2>1, ReleaseGood
    <2>4. Ids \subseteq Ids'
      <3> SUFFICES ASSUME NEW s \in sessions PROVE \E t \in sessions' : t.id = s.id
        BY DEF Ids
      <3> QED
        BY <2>1
    <2>5. Created(target[r].id) /\ target[r].id \in Logins
      BY <1>0, <2>1 DEF RowInv, TypeOK, SessionRows
    <2>6. \A s \in sessions' : Created(s.id)'
      <3> SUFFICES ASSUME NEW s \in sessions' PROVE s.id \in Logins /\ Created(s.id)
        BY <1>c
      <3> QED
        BY <1>0, <2>1, <2>5 DEF RowInv, TypeOK, SessionRows
    <2>7. /\ \A i \in evicted : Created(i)'
          /\ \A h \in rowHeld' : Created(h[2])'
      BY <1>0, <1>c, <2>2 DEF RowInv, TypeOK
    <2>8. \A s \in Logins : pc'[s] \in Naming => Created(target[s].id)'
      BY <1>0, <1>c, <2>1 DEF RowInv, TypeOK, SessionRows
    <2>9. \A s \in Logins :
            pc'[s] = "commit_reuse" => <<s, target[s].id>> \in rowHeld' /\ target[s].id \in Ids'
      <3> SUFFICES ASSUME NEW s \in Logins, pc'[s] = "commit_reuse"
                   PROVE  <<s, target[s].id>> \in rowHeld' /\ target[s].id \in Ids'
        OBVIOUS
      <3>1. s # r /\ pc[s] = "commit_reuse"
        BY <2>1
      <3>2. <<s, target[s].id>> \in rowHeld /\ <<s, target[s].id>>[1] # r
        BY <1>0, <3>1 DEF RowInv
      <3> QED
        BY <1>0, <2>2, <2>4, <3>1, <3>2 DEF RowInv
    <2>10. \A g, h \in rowHeld' : g[2] = h[2] => g[1] = h[1]
      BY <1>0, <2>2 DEF RowInv
    <2> QED
      BY <2>1, <2>6, <2>7, <2>8, <2>9, <2>10 DEF RowInv
  <1>7. ASSUME NEW r \in Logins, CommitNew(r) PROVE RowInv'
    <2>1. /\ UNCHANGED target /\ ReleaseLocks(r)
          /\ \A s \in Logins : s # r => pc'[s] = pc[s]
          /\ pc[r] = "commit_new" /\ pc'[r] \in {"purge", "ended"}
          /\ sessions' = {s \in sessions : s.id \notin Victims(r)}
                           \cup {[id |-> r, created |-> started[r], used |-> 0]}
          /\ evicted' = evicted \cup Victims(r)
      BY <1>0, <1>7 DEF CommitNew, Answer, Goto, TypeOK
    <2>2. /\ rowHeld' \subseteq rowHeld
          /\ \A h \in rowHeld : h[1] # r => h \in rowHeld'
      BY <1>0, <2>1, ReleaseGood
    <2>3. Created(r)'
      BY <2>1 DEF Created
    <2>4. \A i \in Victims(r) : /\ i \in Logins /\ Created(i)
                                /\ \E h \in rowHeld : h[1] = r /\ h[2] = i
      BY <1>0 DEF Victims, RowInv, TypeOK
    <2>5. \A s \in sessions' : Created(s.id)'
      BY <1>0, <1>c, <2>1, <2>3 DEF RowInv, TypeOK, SessionRows
    <2>6. \A i \in evicted' : Created(i)'
      BY <1>0, <1>c, <2>1, <2>4 DEF RowInv, TypeOK
    <2>7. \A h \in rowHeld' : Created(h[2])'
      BY <1>0, <1>c, <2>2 DEF RowInv, TypeOK
    <2>8. \A s \in Logins : pc'[s] \in Naming => Created(target[s].id)'
      BY <1>0, <1>c, <2>1 DEF RowInv, TypeOK, SessionRows
    <2>9. ASSUME NEW s \in Logins, pc'[s] = "commit_reuse"
          PROVE  <<s, target[s].id>> \in rowHeld' /\ target[s].id \in Ids'
      <3>1. s # r /\ pc[s] = "commit_reuse"
        BY <2>1, <2>9
      <3>2. <<s, target[s].id>> \in rowHeld /\ target[s].id \in Ids
        BY <1>0, <3>1 DEF RowInv
      <3>3. target[s].id \notin Victims(r)
        BY <1>0, <2>4, <3>1, <3>2 DEF RowInv
      <3>4. target[s].id \in Ids'
        BY <2>1, <3>2, <3>3 DEF Ids
      <3>5. <<s, target[s].id>>[1] # r
        BY <3>1
      <3> QED
        BY <2>2, <3>2, <3>4, <3>5
    <2>10. \A g, h \in rowHeld' : g[2] = h[2] => g[1] = h[1]
      BY <1>0, <2>2 DEF RowInv
    <2> QED
      BY <2>1, <2>5, <2>6, <2>7, <2>8, <2>9, <2>10 DEF RowInv
  <1>8. CASE UNCHANGED <<sessions, evicted, target, rowHeld, pc>>
    BY <1>0, <1>8 DEF RowInv, Ids, Created
  <1> QED
    BY <1>1, <1>2, <1>3, <1>4, <1>5, <1>6, <1>7, <1>8
       DEF Next, Progress, Tick, Done, vars, db, locks

(* An evicted session is neither written back nor created again.             *)
LEMMA EvictedStep == IInv /\ [Next]_vars => EvictedStaysOut'
  <1> SUFFICES ASSUME IInv, [Next]_vars PROVE EvictedStaysOut'
    OBVIOUS
  <1>0. TypeOK /\ RowInv /\ EvictedStaysOut
    BY DEF IInv
  <1>1. ASSUME NEW r \in Logins, CommitReuse(r) PROVE EvictedStaysOut'
    <2>1. /\ pc[r] = "commit_reuse" /\ UNCHANGED evicted
          /\ sessions' = {s \in sessions : s.id # target[r].id} \cup {target[r]}
      BY <1>1 DEF CommitReuse
    <2>3. target[r].id \in Ids
      BY <1>0, <2>1 DEF RowInv
    <2>4. Ids' \subseteq Ids
      BY <2>1, <2>3 DEF Ids
    <2> QED
      BY <1>0, <2>1, <2>4 DEF EvictedStaysOut
  <1>2. ASSUME NEW r \in Logins, CommitNew(r) PROVE EvictedStaysOut'
    <2>1. /\ pc[r] = "commit_new"
          /\ sessions' = {s \in sessions : s.id \notin Victims(r)}
                           \cup {[id |-> r, created |-> started[r], used |-> 0]}
          /\ evicted' = evicted \cup Victims(r)
      BY <1>2 DEF CommitNew
    <2>2. r \notin evicted /\ r \notin Victims(r)
      BY <1>0, <2>1 DEF RowInv, Victims, Created
    <2>3. Ids' \subseteq (Ids \ Victims(r)) \cup {r}
      BY <2>1 DEF Ids
    <2> QED
      BY <1>0, <2>1, <2>2, <2>3 DEF EvictedStaysOut
  <1>3. CASE UNCHANGED <<sessions, evicted>>
    BY <1>0, <1>3 DEF EvictedStaysOut, Ids
  <1> QED
    BY <1>1, <1>2, <1>3 DEF Next, UnknownUser, Load, Progress, Abort, Tick, Done,
       VerifyWrong, VerifyDenied, VerifyRight, LockLockout, CommitFailure, FindDevice,
       Count, SelectVictim, FlushLockout, FlushReuse, FlushDelete, Purge, vars, db

(* What r writes of the lockout row: nothing, unless it holds its lock.      *)
LEMMA ResetHeld ==
  ASSUME TypeOK, LoadedInv, NEW r \in Logins, ResetLockout(r),
         pc[r] \in {"commit_reuse", "commit_new"}
  PROVE  /\ lockout'.until <= lockout.until
         /\ \/ r \in lockHeld
            \/ lockout'.until = lockout.until /\ lockout'.failed = lockout.failed
  BY DEF LoadedInv, Flushed, ResetLockout, DirtyLockout, TypeOK, Lockouts

(* What a step of r leaves to the others, as long as r has the lock of the   *)
(* row it writes.                                                            *)
LEMMA OthersLoaded ==
  ASSUME TypeOK, LockInv, LoadedInv, NEW r \in Logins, NEW s \in Logins, s # r,
         pc'[s] = pc[s], snap'[s] = snap[s], now' = now,
         s \in lockHeld => s \in lockHeld',
         \/ r \in lockHeld
         \/ lockout'.until = lockout.until /\ lockout'.failed = lockout.failed
  PROVE  /\ pc'[s] = "failing" =>
              /\ s \in lockHeld'
              /\ snap'[s].failed = lockout'.failed + 1
              /\ lockout'.until <= snap'[s].until /\ snap'[s].until <= now' + LockDuration
              /\ Exhausted(snap'[s].failed) => snap'[s].until # 0
         /\ (Flushed(s) /\ DirtyLockout(s))' => s \in lockHeld'
         /\ InFlight(s)' /\ pc'[s] # "failing" => snap'[s].until <= now'
  <1>1. pc[s] = "failing" => s \in lockHeld /\ r \notin lockHeld
    BY DEF LoadedInv, LockInv
  <1>2. (Flushed(s) /\ DirtyLockout(s))' => s \in lockHeld'
    BY DEF LoadedInv, Flushed, DirtyLockout
  <1>3. InFlight(s)' => InFlight(s)
    BY DEF InFlight
  <1> QED
    BY <1>1, <1>2, <1>3 DEF LoadedInv

LEMMA LoadedStep == IInv /\ [Next]_vars => LoadedInv'
  <1> SUFFICES ASSUME IInv, [Next]_vars PROVE LoadedInv'
    OBVIOUS
  <1>0. TypeOK /\ LockInv /\ LoadedInv /\ now \in Nat
        /\ lockout.until \in Nat /\ lockout.failed \in Nat
    BY DEF IInv, TypeOK, Lockouts
  <1> DEFINE Mine(r) ==
               /\ pc'[r] = "failing" =>
                    /\ r \in lockHeld'
                    /\ snap'[r].failed = lockout'.failed + 1
                    /\ lockout'.until <= snap'[r].until
                    /\ snap'[r].until <= now' + LockDuration
                    /\ Exhausted(snap'[r].failed) => snap'[r].until # 0
               /\ (Flushed(r) /\ DirtyLockout(r))' => r \in lockHeld'
               /\ InFlight(r)' /\ pc'[r] # "failing" => snap'[r].until <= now'
  <1>a. ASSUME NEW r \in Logins, now' = now,
               \A s \in Logins : s # r => pc'[s] = pc[s] /\ snap'[s] = snap[s]
                                        /\ (s \in lockHeld => s \in lockHeld'),
               \/ r \in lockHeld
               \/ lockout'.until = lockout.until /\ lockout'.failed = lockout.failed,
               lockout'.until <= now + LockDuration, Mine(r)
        PROVE  LoadedInv'
    <2>1. ASSUME NEW s \in Logins, s # r PROVE Mine(s)
      BY <1>0, <1>a, <2>1, OthersLoaded
    <2>2. \A s \in Logins : Mine(s)
      BY <1>a, <2>1
    <2> QED
      BY <1>a, <2>2 DEF LoadedInv, Exhausted
  <1>1. ASSUME NEW r \in Logins,
               \/ UnknownUser(r) \/ VerifyWrong(r) \/ VerifyDenied(r) \/ VerifyRight(r)
               \/ FindDevice(r) \/ Count(r) \/ SelectVictim(r) \/ FlushDelete(r)
               \/ Purge(r)
        PROVE  LoadedInv'
    <2>1. /\ UNCHANGED <<now, lockout, lockHeld, snap>>
          /\ \A s \in Logins : s # r => pc'[s] = pc[s]
          /\ pc'[r] \in {"ended", "wrong", "device", "reuse", "count", "select", "insert",
                         "evict"}
      BY <1>0, <1>1 DEF UnknownUser, VerifyWrong, VerifyDenied, VerifyRight, FindDevice,
         Count, SelectVictim, FlushDelete, Purge, Answer, Goto, TypeOK, db, locks
    <2>2. InFlight(r)' => InFlight(r) /\ pc[r] # "failing"
      BY <1>0, <1>1, <2>1 DEF UnknownUser, VerifyWrong, VerifyDenied, VerifyRight, FindDevice,
         Count, SelectVictim, FlushDelete, Purge, Answer, Goto, InFlight, TypeOK
    <2>3. Mine(r)
      BY <1>0, <2>1, <2>2 DEF LoadedInv, Flushed
    <2> QED
      BY <1>0, <1>a, <2>1, <2>3 DEF LoadedInv
  <1>2. ASSUME NEW r \in Logins, Load(r) PROVE LoadedInv'
    <2>1. /\ UNCHANGED <<now, lockout, lockHeld>> /\ snap'[r] = lockout
          /\ \A s \in Logins : s # r => pc'[s] = pc[s] /\ snap'[s] = snap[s]
          /\ pc'[r] \in {"ended", "verify"}
          /\ pc'[r] = "verify" => ~ LockInForce
      BY <1>0, <1>2 DEF Load, Answer, Goto, TypeOK, db, locks
    <2>2. Mine(r)
      BY <1>0, <2>1 DEF LockInForce, InFlight, Flushed
    <2> QED
      BY <1>0, <1>a, <2>1, <2>2 DEF LoadedInv
  <1>3. ASSUME NEW r \in Logins, LockLockout(r) PROVE LoadedInv'
    <2>1. /\ UNCHANGED <<now, lockout>> /\ lockHeld = {} /\ r \in lockHeld'
          /\ snap'[r] = Raised(lockout) /\ pc'[r] = "failing"
          /\ \A s \in Logins : s # r => pc'[s] = pc[s] /\ snap'[s] = snap[s]
      BY <1>0, <1>3 DEF LockLockout, Goto, TypeOK, db
    <2>2. /\ snap'[r].failed = lockout.failed + 1
          /\ snap'[r].until = IF Exhausted(lockout.failed + 1) THEN now + LockDuration
                                                              ELSE lockout.until
      BY <2>1 DEF Raised
    <2>3. Mine(r)
      BY <1>0, <2>1, <2>2 DEF LoadedInv, Flushed
    <2> QED
      BY <1>0, <1>a, <2>1, <2>3 DEF LoadedInv
  <1>4. ASSUME NEW r \in Logins, CommitFailure(r) PROVE LoadedInv'
    <2>1. /\ now' = now /\ snap' = snap /\ pc'[r] = "ended" /\ r \in lockHeld
          /\ \A s \in Logins : s # r => pc'[s] = pc[s] /\ (s \in lockHeld => s \in lockHeld')
          /\ lockout'.until \in {snap[r].until, lockout.until}
      BY <1>0, <1>4 DEF CommitFailure, ReleaseLocks, Answer, Goto, TypeOK, LoadedInv
    <2>2. lockout'.until <= now + LockDuration
      BY <1>0, <1>4, <2>1 DEF LoadedInv, CommitFailure
    <2>3. Mine(r)
      BY <2>1 DEF InFlight, Flushed
    <2> QED
      BY <1>0, <1>a, <2>1, <2>2, <2>3
  <1>5. ASSUME NEW r \in Logins, CommitReuse(r) \/ CommitNew(r) PROVE LoadedInv'
    <2>1. /\ now' = now /\ snap' = snap /\ pc'[r] \in {"ended", "purge"}
          /\ pc[r] \in {"commit_reuse", "commit_new"} /\ ResetLockout(r)
          /\ \A s \in Logins : s # r => pc'[s] = pc[s] /\ (s \in lockHeld => s \in lockHeld')
      BY <1>0, <1>5 DEF CommitReuse, CommitNew, ReleaseLocks, Answer, Goto, TypeOK
    <2>2. /\ lockout'.until <= lockout.until
          /\ \/ r \in lockHeld
             \/ lockout'.until = lockout.until /\ lockout'.failed = lockout.failed
      BY <1>0, <2>1, ResetHeld
    <2>3. lockout'.until \in Nat
      BY <1>0, <2>1, ResetGood DEF Lockouts
    <2>4. Mine(r)
      BY <1>0, <2>1 DEF LoadedInv, InFlight, Flushed
    <2>5. lockout'.until <= now + LockDuration
      BY <1>0, <2>2, <2>3 DEF LoadedInv
    <2> QED
      BY <1>0, <1>a, <2>1, <2>2, <2>4, <2>5
  <1>6. ASSUME NEW r \in Logins, FlushLockout(r) PROVE LoadedInv'
    <2>1. /\ UNCHANGED <<now, lockout, snap>>
          /\ \A s \in Logins : s # r => pc'[s] = pc[s]
          /\ pc[r] \in {"reuse", "evict", "insert"}
          /\ pc'[r] \in {"reuse_row", "evict_row", "commit_new"}
          /\ IF DirtyLockout(r) THEN lockHeld \subseteq {r} /\ lockHeld' = {r}
                                ELSE lockHeld' = lockHeld
      BY <1>0, <1>6 DEF FlushLockout, Goto, TypeOK, db
    <2>2. \A s \in Logins : s # r => (s \in lockHeld => s \in lockHeld')
      BY <2>1
    <2>3. Mine(r)
      BY <1>0, <2>1 DEF LoadedInv, InFlight, DirtyLockout
    <2> QED
      BY <1>0, <1>a, <2>1, <2>2, <2>3 DEF LoadedInv
  <1>7. ASSUME NEW r \in Logins, FlushReuse(r) \/ Abort(r) PROVE LoadedInv'
    <2>1. /\ UNCHANGED <<now, lockout, snap>>
          /\ \A s \in Logins : s # r => pc'[s] = pc[s] /\ (s \in lockHeld => s \in lockHeld')
          /\ \/ pc'[r] = "ended"
             \/ pc[r] = "reuse_row" /\ pc'[r] = "commit_reuse" /\ lockHeld' = lockHeld
      BY <1>0, <1>7 DEF FlushReuse, Abort, ReleaseLocks, Answer, Goto, TypeOK, db
    <2>2. Mine(r)
      BY <1>0, <2>1 DEF LoadedInv, InFlight, Flushed, DirtyLockout
    <2> QED
      BY <1>0, <1>a, <2>1, <2>2 DEF LoadedInv
  <1>8. CASE Tick \/ Done \/ UNCHANGED vars
    <2>1. UNCHANGED <<pc, lockout, lockHeld, snap>> /\ now' \in {now, now + 1}
      BY <1>8 DEF Tick, Done, vars, db, locks
    <2>2. /\ \A r \in Logins : snap[r].until \in Nat
          /\ \A r \in Logins : InFlight(r)' <=> InFlight(r)
          /\ \A r \in Logins :
               (Flushed(r) /\ DirtyLockout(r))' <=> Flushed(r) /\ DirtyLockout(r)
      BY <1>0, <2>1 DEF TypeOK, Lockouts, InFlight, Flushed, DirtyLockout
    <2> QED
      BY <1>0, <2>1, <2>2 DEF LoadedInv, Exhausted
  <1> QED
    BY <1>1, <1>2, <1>3, <1>4, <1>5, <1>6, <1>7, <1>8 DEF Next, Progress

LEMMA InvariantHolds == Spec => []IInv
  <1>1. IInv /\ [Next]_vars => IInv'
    BY LockStep, TypeStep, RowStep, LoadedStep, FailureStep, EvictedStep DEF IInv
  <1> QED
    BY InitIInv, <1>1, PTL DEF Spec

(* Every reachable state has the right types, and one request at most holds  *)
(* the lock of the lockout row.                                              *)
THEOREM TypeCorrect == Spec => []TypeOK
  <1>1. IInv => TypeOK
    BY DEF IInv
  <1> QED
    BY InvariantHolds, <1>1, PTL

(* However many logins overlap, none of their failures is lost.              *)
THEOREM FailuresCounted == Spec => []NoFailureLost
  <1>1. IInv => NoFailureLost
    BY DEF IInv
  <1> QED
    BY InvariantHolds, <1>1, PTL

(* However many logins overlap, no evicted session comes back.               *)
THEOREM EvictionFinal == Spec => []EvictedStaysOut
  <1>1. IInv => EvictedStaysOut
    BY DEF IInv
  <1> QED
    BY InvariantHolds, <1>1, PTL

----------------------------------------------------------------------------
(* However logins overlap, they never wait for each other in a circle. *)

(* The next statement of r needs the lock of the lockout row, which s has.   *)
WaitsForLockout(r, s) ==
  /\ \/ pc[r] = "wrong"
     \/ pc[r] \in {"reuse", "evict", "insert"} /\ DirtyLockout(r)
  /\ r # s /\ s \in lockHeld

(* It needs the lock of a session's row, which s has. *)
WaitsForRow(r, s) ==
  /\ pc[r] \in {"reuse_row", "evict_row"}
  /\ r # s /\ <<s, target[r].id>> \in rowHeld

WaitsFor(r, s) == WaitsForLockout(r, s) \/ WaitsForRow(r, s)

HoldsRow(r) == \E i \in Logins : <<r, i>> \in rowHeld

(* How far a transaction has come in the order lockout row, session row.     *)
Place(r) == IF HoldsRow(r) THEN 2 ELSE IF r \in lockHeld THEN 1 ELSE 0

NoCircle == \A r, s \in Logins : WaitsFor(r, s) => Place(r) < Place(s)

(* A request that may not take its next row lock waits for somebody.         *)
LEMMA WaitsAreGuards ==
  ASSUME TypeOK, LockInv, NEW r \in Logins
  PROVE  /\ pc[r] = "wrong" =>
              (lockHeld = {} <=> r \notin lockHeld
                                   /\ ~ \E s \in Logins : WaitsForLockout(r, s))
         /\ pc[r] \in {"reuse", "evict", "insert"} /\ DirtyLockout(r) =>
              (lockHeld \subseteq {r} <=> ~ \E s \in Logins : WaitsForLockout(r, s))
         /\ pc[r] \in {"reuse_row", "evict_row"} =>
              (RowFree(r) <=> ~ \E s \in Logins : WaitsForRow(r, s))
  <1>1. lockHeld \subseteq Logins
    BY DEF TypeOK
  <1>2. ASSUME pc[r] \in {"reuse_row", "evict_row"}
        PROVE  RowFree(r) <=> ~ \E s \in Logins : WaitsForRow(r, s)
    <2>1. ASSUME ~ RowFree(r)
          PROVE  \E s \in Logins : WaitsForRow(r, s)
      <3>1. PICK h \in rowHeld : h[2] = target[r].id /\ h[1] # r
        BY <2>1 DEF RowFree
      <3>2. h = <<h[1], h[2]>> /\ h[1] \in Logins
        BY <3>1 DEF TypeOK
      <3> QED
        BY <1>2, <3>1, <3>2 DEF WaitsForRow
    <2>2. ASSUME NEW s \in Logins, WaitsForRow(r, s)
          PROVE  ~ RowFree(r)
      BY <2>2 DEF WaitsForRow, RowFree
    <2> QED
      BY <2>1, <2>2
  <1> QED
    BY <1>1, <1>2 DEF WaitsForLockout

(* Who has written a session row has written the lockout row before, if it   *)
(* was to be written at all; who waits has written no session row, but for   *)
(* one that goes on to insert its own.                                       *)
Ordered(r) ==
  /\ r \in lockHeld => pc[r] \in {"failing", "reuse_row", "commit_reuse",
                                  "evict_row", "insert", "commit_new"}
  /\ HoldsRow(r) => pc[r] \in {"commit_reuse", "insert", "commit_new"}
  /\ DirtyLockout(r) /\ (pc[r] = "evict_row" \/ (pc[r] = "insert" /\ HoldsRow(r)))
       => r \in lockHeld

OrderInv == \A r \in Logins : Ordered(r)

(* What a step of one request leaves to the others.                          *)
LEMMA OthersOrdered ==
  ASSUME OrderInv, NEW s \in Logins,
         pc'[s] = pc[s], snap'[s] = snap[s],
         s \in lockHeld' <=> s \in lockHeld,
         \A i \in Logins : <<s, i>> \in rowHeld' <=> <<s, i>> \in rowHeld
  PROVE  Ordered(s)'
  <1>1. (HoldsRow(s)' <=> HoldsRow(s)) /\ (DirtyLockout(s)' <=> DirtyLockout(s))
    BY DEF HoldsRow, DirtyLockout
  <1> QED
    BY <1>1 DEF OrderInv, Ordered

LEMMA OrderStep == TypeOK /\ LockInv /\ OrderInv /\ [Next]_vars => OrderInv'
  <1> SUFFICES ASSUME TypeOK, LockInv, OrderInv, [Next]_vars PROVE OrderInv'
    OBVIOUS
  <1> DEFINE Holding == {"failing", "reuse_row", "commit_reuse", "evict_row",
                         "insert", "commit_new"}
  <1>a. ASSUME NEW r \in Logins, NEW p, Goto(r, p), UNCHANGED <<snap, lockHeld, rowHeld>>,
               pc[r] \notin Holding, p # "evict_row"
        PROVE  OrderInv'
    <2>1. ASSUME NEW s \in Logins, s # r PROVE Ordered(s)'
      BY <1>a, <2>1, OthersOrdered DEF Goto, TypeOK
    <2>2. Ordered(r)'
      <3>1. r \notin lockHeld' /\ ~ HoldsRow(r)'
        BY <1>a DEF OrderInv, Ordered, HoldsRow
      <3>2. pc'[r] # "evict_row"
        BY <1>a DEF Goto, TypeOK
      <3> QED
        BY <3>1, <3>2 DEF Ordered
    <2> QED
      BY <2>1, <2>2 DEF OrderInv
  <1>b. ASSUME NEW r \in Logins, NEW p, Goto(r, p), ReleaseLocks(r), UNCHANGED snap,
               p \in {"ended", "purge"}
        PROVE  OrderInv'
    <2>1. ASSUME NEW s \in Logins, s # r PROVE Ordered(s)'
      BY <1>b, <2>1, OthersOrdered DEF Goto, ReleaseLocks, TypeOK
    <2>2. Ordered(r)'
      <3>1. r \notin lockHeld' /\ ~ HoldsRow(r)' /\ pc'[r] = p
        BY <1>b DEF Goto, ReleaseLocks, HoldsRow, TypeOK
      <3> QED
        BY <1>b, <3>1 DEF Ordered
    <2> QED
      BY <2>1, <2>2 DEF OrderInv
  <1>1. ASSUME NEW r \in Logins,
               \/ UnknownUser(r) \/ VerifyWrong(r) \/ VerifyDenied(r) \/ VerifyRight(r)
               \/ FindDevice(r) \/ Count(r) \/ SelectVictim(r) \/ Purge(r)
        PROVE  OrderInv'
    <2>1. PICK p : Goto(r, p) /\ p # "evict_row"
      BY <1>1 DEF UnknownUser, VerifyWrong, VerifyDenied, VerifyRight, FindDevice, Count,
         SelectVictim, Purge, Answer
    <2>2. pc[r] \notin Holding /\ UNCHANGED <<snap, lockHeld, rowHeld>>
      BY <1>1 DEF UnknownUser, VerifyWrong, VerifyDenied, VerifyRight, FindDevice, Count,
         SelectVictim, Purge, locks
    <2> QED
      BY <1>a, <2>1, <2>2
  <1>2. ASSUME NEW r \in Logins, Load(r) PROVE OrderInv'
    <2>1. \E p \in {"ended", "verify"} : Goto(r, p)
      BY <1>2 DEF Load, Answer
    <2>2. /\ pc[r] = "idle" /\ pc'[r] \in {"ended", "verify"}
          /\ \A s \in Logins : s # r => pc'[s] = pc[s] /\ snap'[s] = snap[s]
          /\ lockHeld' = lockHeld /\ rowHeld' = rowHeld
      BY <1>2, <2>1 DEF Load, Goto, TypeOK, locks
    <2>3. ASSUME NEW s \in Logins, s # r PROVE Ordered(s)'
      BY <2>2, <2>3, OthersOrdered
    <2>4. Ordered(r)'
      <3>1. r \notin lockHeld' /\ ~ HoldsRow(r)'
        BY <2>2 DEF OrderInv, Ordered, HoldsRow
      <3> QED
        BY <2>2, <3>1 DEF Ordered
    <2> QED
      BY <2>3, <2>4 DEF OrderInv
  <1>3. ASSUME NEW r \in Logins,
               \/ CommitFailure(r) \/ (FlushReuse(r) /\ ~ ReuseExists(r))
               \/ CommitReuse(r) \/ CommitNew(r) \/ Abort(r)
        PROVE  OrderInv'
    <2>1. PICK p \in {"ended", "purge"} : Goto(r, p)
      BY <1>3 DEF CommitFailure, FlushReuse, CommitReuse, CommitNew, Abort, Answer
    <2>2. ReleaseLocks(r) /\ UNCHANGED snap
      BY <1>3 DEF CommitFailure, FlushReuse, CommitReuse, CommitNew, Abort
    <2> QED
      BY <1>b, <2>1, <2>2
  <1>4. ASSUME NEW r \in Logins, LockLockout(r) PROVE OrderInv'
    <2>1. ASSUME NEW s \in Logins, s # r PROVE Ordered(s)'
      BY <1>4, <2>1, OthersOrdered DEF LockLockout, Goto, TypeOK
    <2>2. Ordered(r)'
      <3>1. pc'[r] = "failing" /\ ~ HoldsRow(r)'
        BY <1>4 DEF LockLockout, Goto, OrderInv, Ordered, HoldsRow, TypeOK
      <3> QED
        BY <3>1 DEF Ordered
    <2> QED
      BY <2>1, <2>2 DEF OrderInv
  <1>5. ASSUME NEW r \in Logins, FlushLockout(r) PROVE OrderInv'
    <2>1. /\ UNCHANGED <<snap, rowHeld>>
          /\ IF DirtyLockout(r) THEN lockHeld \subseteq {r} /\ lockHeld' = {r}
                                ELSE lockHeld' = lockHeld
      BY <1>5 DEF FlushLockout
    <2>2. \/ pc[r] = "reuse"  /\ pc'[r] = "reuse_row"
          \/ pc[r] = "evict"  /\ pc'[r] = "evict_row"
          \/ pc[r] = "insert" /\ pc'[r] = "commit_new"
      BY <1>5 DEF FlushLockout, Goto, TypeOK
    <2>3. \A s \in Logins : s # r => pc'[s] = pc[s]
      BY <1>5 DEF FlushLockout, Goto, TypeOK
    <2>4. ASSUME NEW s \in Logins, s # r PROVE Ordered(s)'
      <3>1. s \in lockHeld' <=> s \in lockHeld
        BY <2>1, <2>4
      <3> QED
        BY <2>1, <2>3, <2>4, <3>1, OthersOrdered
    <2>5. Ordered(r)'
      <3>1. (HoldsRow(r)' <=> HoldsRow(r)) /\ (DirtyLockout(r)' <=> DirtyLockout(r))
        BY <2>1 DEF HoldsRow, DirtyLockout
      <3>2. DirtyLockout(r) => r \in lockHeld'
        BY <2>1
      <3>3. HoldsRow(r) => pc[r] = "insert"
        BY <2>2 DEF OrderInv, Ordered
      <3> QED
        BY <2>2, <3>1, <3>2, <3>3 DEF Ordered
    <2> QED
      BY <2>4, <2>5 DEF OrderInv
  <1>6. ASSUME NEW r \in Logins, (FlushReuse(r) /\ ReuseExists(r)) \/ FlushDelete(r)
        PROVE  OrderInv'
    <2>1. /\ UNCHANGED <<snap, lockHeld>> /\ LockRow(r)
          /\ \/ pc[r] = "reuse_row" /\ pc'[r] = "commit_reuse"
             \/ pc[r] = "evict_row" /\ pc'[r] = "insert"
          /\ \A s \in Logins : s # r => pc'[s] = pc[s]
      BY <1>6 DEF FlushReuse, FlushDelete, Goto, TypeOK
    <2>2. ASSUME NEW s \in Logins, s # r PROVE Ordered(s)'
      BY <2>1, <2>2, OthersOrdered DEF LockRow
    <2>3. Ordered(r)'
      BY <2>1 DEF OrderInv, Ordered, DirtyLockout
    <2> QED
      BY <2>2, <2>3 DEF OrderInv
  <1>7. CASE Tick \/ Done \/ UNCHANGED vars
    <2>1. UNCHANGED <<pc, snap, lockHeld, rowHeld>>
      BY <1>7 DEF Tick, Done, vars, locks
    <2> QED
      BY <2>1, OthersOrdered DEF OrderInv
  <1> QED
    BY <1>1, <1>2, <1>3, <1>4, <1>5, <1>6, <1>7 DEF Next, Progress

LEMMA WaitsForLater ==
  ASSUME TypeOK, LockInv, OrderInv, NEW r \in Logins, NEW s \in Logins,
         WaitsFor(r, s)
  PROVE  Place(r) < Place(s)
  <1>1. CASE WaitsForLockout(r, s)
    <2>1. r \notin lockHeld /\ s \in lockHeld
      BY <1>1 DEF WaitsForLockout, LockInv
    <2>2. ~ HoldsRow(r)
      BY <1>1, <2>1 DEF WaitsForLockout, OrderInv, Ordered
    <2> QED
      BY <2>1, <2>2 DEF Place
  <1>2. CASE WaitsForRow(r, s)
    <2>1. ~ HoldsRow(r)
      BY <1>2 DEF WaitsForRow, OrderInv, Ordered
    <2>2. HoldsRow(s)
      BY <1>2 DEF WaitsForRow, HoldsRow, TypeOK, SessionRows
    <2> QED
      BY <2>1, <2>2 DEF Place
  <1> QED
    BY <1>1, <1>2 DEF WaitsFor

(* However many logins overlap, they never wait for each other in a circle:  *)
(* whom one waits for is further on in the order lockout row, session row,   *)
(* in which a flush writes and which the FOR UPDATE of a failure respects.   *)
THEOREM LocksNeverCircle == Spec => []NoCircle
  <1>1. Init => OrderInv
    BY DEF Init, OrderInv, Ordered, HoldsRow
  <1>2. IInv => TypeOK /\ LockInv
    BY DEF IInv
  <1>3. IInv /\ OrderInv => NoCircle
    BY WaitsForLater DEF NoCircle, IInv
  <1> QED
    BY InvariantHolds, OrderStep, <1>1, <1>2, <1>3, PTL DEF Spec

----------------------------------------------------------------------------
(* The rules of the lockout, which a success does not hold the lock for. *)

LEMMA LockoutStep ==
  ASSUME IInv, [Next]_vars
  PROVE  /\ lockout.until > now /\ lockout'.until < lockout.until =>
              \E r \in Logins : Resets(r) /\ snap[r].until \in 1..now
         /\ ~ Unguarded /\ Unguarded' =>
              \E r \in Logins : Resets(r) /\ snap[r].failed = 0 /\ snap[r].until # 0
  <1>0. /\ TypeOK /\ LoadedInv /\ now \in Nat
        /\ lockout.until \in Nat /\ lockout.failed \in Nat
        /\ \A r \in Logins : snap[r].until \in Nat /\ snap[r].failed \in Nat
    BY DEF IInv, TypeOK, Lockouts
  <1>1. ASSUME NEW r \in Logins, CommitFailure(r)
        PROVE  lockout'.until >= lockout.until /\ (~ Unguarded => ~ Unguarded')
    <2>1. /\ pc[r] = "failing" /\ lockout'.failed = snap[r].failed
          /\ lockout'.until = IF Exhausted(snap[r].failed) THEN snap[r].until
                                                           ELSE lockout.until
      BY <1>1 DEF CommitFailure
    <2>2. /\ lockout.until <= snap[r].until
          /\ Exhausted(snap[r].failed) => snap[r].until # 0
      BY <1>0, <2>1 DEF LoadedInv
    <2> QED
      BY <1>0, <2>1, <2>2 DEF Unguarded, Exhausted
  <1>2. ASSUME NEW r \in Logins, CommitReuse(r) \/ CommitNew(r)
        PROVE  /\ Resets(r) /\ snap[r].until <= now
               /\ lockout'.failed = IF snap[r].failed # 0 THEN 0 ELSE lockout.failed
               /\ lockout'.until = IF snap[r].until # 0 THEN 0 ELSE lockout.until
    <2>1. pc[r] \in {"commit_reuse", "commit_new"} /\ pc'[r] \in {"ended", "purge"}
      BY <1>0, <1>2 DEF CommitReuse, CommitNew, Answer, Goto, TypeOK
    <2>2. snap[r].until <= now
      BY <1>0, <2>1 DEF LoadedInv, InFlight
    <2> QED
      BY <1>2, <2>1, <2>2 DEF Resets, CommitReuse, CommitNew, ResetLockout
  <1>3. ASSUME NEW r \in Logins, CommitReuse(r) \/ CommitNew(r)
        PROVE  /\ lockout'.until < lockout.until => snap[r].until \in 1..now
               /\ ~ Unguarded /\ Unguarded' => snap[r].failed = 0 /\ snap[r].until # 0
    <2>1. lockout'.until < lockout.until => snap[r].until \in 1..now
      BY <1>0, <1>2, <1>3
    <2>2. ~ Unguarded /\ Unguarded' => snap[r].failed = 0 /\ snap[r].until # 0
      BY <1>0, <1>2, <1>3 DEF Unguarded
    <2> QED
      BY <2>1, <2>2
  <1>4. CASE UNCHANGED lockout
    BY <1>0, <1>4 DEF Unguarded
  <1>5. \/ UNCHANGED lockout
        \/ \E r \in Logins : CommitFailure(r) \/ CommitReuse(r) \/ CommitNew(r)
    BY DEF Next, UnknownUser, Load, Progress, Abort, Tick, Done, VerifyWrong,
       VerifyDenied, VerifyRight, LockLockout, FindDevice, Count, SelectVictim,
       FlushLockout, FlushReuse, FlushDelete, Purge, vars, db
  <1>6. ASSUME NEW r \in Logins, CommitFailure(r)
        PROVE  ~ (lockout'.until < lockout.until) /\ ~ (~ Unguarded /\ Unguarded')
    <2>1. lockout'.until \in Nat
      BY <1>0, <1>6 DEF CommitFailure
    <2> QED
      BY <1>0, <1>1, <1>6, <2>1
  <1> QED
    BY <1>2, <1>3, <1>4, <1>5, <1>6

(* However logins overlap, a lock in force is cut short only by a success    *)
(* whose login had loaded an earlier lock, run out by then.                  *)
THEOREM LockKept == Spec => LockNeverShortened
  <1>1. IInv /\ [Next]_vars =>
          [lockout.until > now /\ lockout'.until < lockout.until =>
             \E r \in Logins : Resets(r) /\ snap[r].until \in 1..now]_vars
    BY LockoutStep
  <1> QED
    BY InvariantHolds, <1>1, PTL DEF Spec, LockNeverShortened

(* However logins overlap, the failure that exhausts the attempts locks the  *)
(* account; only a success that had loaded a lock without failures can take  *)
(* the lock away and leave the count.                                        *)
THEOREM ExhaustedIsLocked == Spec => LockedWhenExhausted
  <1>1. IInv /\ [Next]_vars =>
          [~ Unguarded /\ Unguarded' =>
             \E r \in Logins : Resets(r) /\ snap[r].failed = 0 /\ snap[r].until # 0]_vars
    BY LockoutStep
  <1> QED
    BY InvariantHolds, <1>1, PTL DEF Spec, LockedWhenExhausted

----------------------------------------------------------------------------
(* The cap, which a login tests without a lock. *)

(* What a login that was not overtaken knows of the sessions is still so: it *)
(* has room for its own, or deletes one of those there are.                  *)
RoomFor(r) ==
  /\ pc[r] = "select" => sessions # {}
  /\ pc[r] \in {"evict", "evict_row"} => target[r].id \in Ids
  /\ pc[r] \in {"insert", "commit_new"}
       => Cardinality(sessions) < MaxSessions \/ Ids \cap Victims(r) # {}

CapInv == IsFiniteSet(sessions) /\ \A r \in Logins \ overtaken : RoomFor(r)

(* Adding one session, or one in the place of another.                       *)
LEMMA OneMore ==
  ASSUME NEW S, IsFiniteSet(S), NEW T, NEW x, T \subseteq S
  PROVE  /\ IsFiniteSet(T \cup {x}) /\ Cardinality(T \cup {x}) \in Nat
         /\ Cardinality(T \cup {x}) <= Cardinality(S) + 1
         /\ (\E s \in S : s \notin T) => Cardinality(T \cup {x}) <= Cardinality(S)
  <1>1. Cardinality(S) \in Nat
    BY FS_CardinalityType
  <1>2. IsFiniteSet(T) /\ Cardinality(T) <= Cardinality(S)
    BY FS_Subset
  <1>3. Cardinality(T) \in Nat
    BY <1>2, FS_CardinalityType
  <1>4. /\ IsFiniteSet(T \cup {x})
        /\ Cardinality(T \cup {x}) = IF x \in T THEN Cardinality(T) ELSE Cardinality(T) + 1
    BY <1>2, FS_AddElement
  <1>5. ASSUME \E s \in S : s \notin T PROVE Cardinality(T \cup {x}) <= Cardinality(S)
    <2>1. S # T
      BY <1>5
    <2>2. Cardinality(T) # Cardinality(S)
      BY <2>1, FS_Subset
    <2> QED
      BY <1>1, <1>2, <1>3, <1>4, <2>2
  <1> QED
    BY <1>1, <1>2, <1>3, <1>4, <1>5

(* A session used again takes its own place: no session comes or goes.       *)
LEMMA ReuseKeepsIds ==
  ASSUME TypeOK, RowInv, IsFiniteSet(sessions), NEW r \in Logins, CommitReuse(r)
  PROVE  /\ IsFiniteSet(sessions') /\ Cardinality(sessions') \in Nat
         /\ Cardinality(sessions') <= Cardinality(sessions) /\ Ids' = Ids
  <1> DEFINE Rest == {s \in sessions : s.id # target[r].id}
  <1>1. sessions' = Rest \cup {target[r]} /\ pc[r] = "commit_reuse"
    BY DEF CommitReuse
  <1>2. target[r].id \in Ids
    BY <1>1 DEF RowInv
  <1>3. Rest \subseteq sessions /\ \E s \in sessions : s \notin Rest
    BY <1>2 DEF Ids
  <1>4. Ids' = Ids
    BY <1>1, <1>2 DEF Ids
  <1> HIDE DEF Rest
  <1> QED
    BY <1>1, <1>3, <1>4, OneMore

(* A new session comes on top of those that stay.                            *)
LEMMA NewGrows ==
  ASSUME TypeOK, IsFiniteSet(sessions), NEW r \in Logins, CommitNew(r)
  PROVE  /\ IsFiniteSet(sessions') /\ Cardinality(sessions') \in Nat
         /\ Cardinality(sessions') <= Cardinality(sessions) + 1
         /\ Ids \cap Victims(r) # {} => Cardinality(sessions') <= Cardinality(sessions)
  <1> DEFINE Rest == {s \in sessions : s.id \notin Victims(r)}
  <1>1. sessions' = Rest \cup {[id |-> r, created |-> started[r], used |-> 0]}
    BY DEF CommitNew
  <1>2. /\ Rest \subseteq sessions
        /\ Ids \cap Victims(r) # {} => \E s \in sessions : s \notin Rest
    BY DEF Ids
  <1> HIDE DEF Rest
  <1> QED
    BY <1>1, <1>2, OneMore

LEMMA CapInvStep ==
  ASSUME IInv, CapInv, [Next]_vars
  PROVE  CapInv'
  <1>0. /\ TypeOK /\ RowInv /\ IsFiniteSet(sessions) /\ Cardinality(sessions) \in Nat
        /\ \A r \in Logins \ overtaken : RoomFor(r)
    BY FS_CardinalityType DEF IInv, CapInv
  <1>a. ASSUME NEW r \in Logins, UNCHANGED <<sessions, overtaken>>,
               \A s \in Logins : s # r => pc'[s] = pc[s] /\ target'[s] = target[s]
                                          /\ Victims(s)' = Victims(s),
               r \notin overtaken => RoomFor(r)'
        PROVE  CapInv'
    <2>1. ASSUME NEW s \in Logins \ overtaken, s # r PROVE RoomFor(s)'
      BY <1>0, <1>a, <2>1 DEF RoomFor, Ids
    <2> QED
      BY <1>0, <1>a, <2>1 DEF CapInv
  <1>1. ASSUME NEW r \in Logins,
               \/ UnknownUser(r) \/ Load(r) \/ VerifyWrong(r) \/ VerifyDenied(r)
               \/ VerifyRight(r) \/ LockLockout(r) \/ FindDevice(r) \/ Purge(r)
        PROVE  CapInv'
    <2>1. /\ UNCHANGED <<sessions, overtaken, rowHeld>>
          /\ \A s \in Logins : s # r => pc'[s] = pc[s] /\ target'[s] = target[s]
          /\ pc'[r] \in {"ended", "verify", "wrong", "device", "failing", "reuse", "count"}
      BY <1>0, <1>1 DEF UnknownUser, Load, VerifyWrong, VerifyDenied, VerifyRight,
         LockLockout, FindDevice, Purge, Answer, Goto, TypeOK, db, locks
    <2> QED
      BY <1>a, <2>1 DEF RoomFor, Victims
  <1>2. ASSUME NEW r \in Logins, CommitFailure(r) \/ Abort(r) \/ FlushReuse(r)
        PROVE  CapInv'
    <2>1. /\ UNCHANGED <<sessions, overtaken, target>>
          /\ \A s \in Logins : s # r => pc'[s] = pc[s]
          /\ pc'[r] \in {"ended", "commit_reuse"}
          /\ rowHeld' = rowHeld \cup {<<r, target[r].id>>}
               \/ rowHeld' = {h \in rowHeld : h[1] # r}
      BY <1>0, <1>2 DEF CommitFailure, Abort, FlushReuse, LockRow, ReleaseLocks, Answer,
         Goto, TypeOK, db
    <2>2. \A s \in Logins : s # r => Victims(s)' = Victims(s)
      BY <2>1 DEF Victims
    <2> QED
      BY <1>a, <2>1, <2>2 DEF RoomFor
  <1>3. ASSUME NEW r \in Logins, Count(r) PROVE CapInv'
    <2>1. /\ UNCHANGED <<sessions, overtaken, rowHeld, target>>
          /\ \A s \in Logins : s # r => pc'[s] = pc[s]
          /\ \/ pc'[r] = "select" /\ Cardinality(sessions) >= MaxSessions
             \/ pc'[r] = "insert" /\ Cardinality(sessions) < MaxSessions
      BY <1>0, <1>3 DEF Count, AtCap, Goto, TypeOK, db, locks
    <2>2. pc'[r] = "select" => sessions # {}
      BY <2>1, FS_EmptySet
    <2> QED
      BY <1>a, <2>1, <2>2 DEF RoomFor, Victims
  <1>4. ASSUME NEW r \in Logins, SelectVictim(r) PROVE CapInv'
    <2>1. /\ UNCHANGED <<sessions, overtaken, rowHeld>> /\ pc[r] = "select"
          /\ \A s \in Logins : s # r => pc'[s] = pc[s] /\ target'[s] = target[s]
          /\ sessions # {} => pc'[r] = "evict" /\ \E s \in sessions : target'[r] = s
      BY <1>0, <1>4 DEF SelectVictim, Goto, TypeOK, db, locks
    <2>2. r \notin overtaken => RoomFor(r)'
      BY <1>0, <2>1 DEF RoomFor, Ids
    <2> QED
      BY <1>a, <2>1, <2>2 DEF Victims
  <1>5. ASSUME NEW r \in Logins, FlushLockout(r) PROVE CapInv'
    <2>1. /\ UNCHANGED <<sessions, overtaken, rowHeld, target>>
          /\ \A s \in Logins : s # r => pc'[s] = pc[s]
          /\ \/ pc[r] = "reuse"  /\ pc'[r] = "reuse_row"
             \/ pc[r] = "evict"  /\ pc'[r] = "evict_row"
             \/ pc[r] = "insert" /\ pc'[r] = "commit_new"
      BY <1>0, <1>5 DEF FlushLockout, Goto, TypeOK, db
    <2>2. r \notin overtaken => RoomFor(r)'
      BY <1>0, <2>1 DEF RoomFor, Ids, Victims
    <2> QED
      BY <1>a, <2>1, <2>2 DEF Victims
  <1>6. ASSUME NEW r \in Logins, FlushDelete(r) PROVE CapInv'
    <2>1. /\ UNCHANGED <<sessions, overtaken, target>>
          /\ \A s \in Logins : s # r => pc'[s] = pc[s]
          /\ pc[r] = "evict_row" /\ pc'[r] = "insert"
          /\ rowHeld' = rowHeld \cup {<<r, target[r].id>>}
      BY <1>0, <1>6 DEF FlushDelete, LockRow, Goto, TypeOK, db
    <2>2. \A s \in Logins : s # r => Victims(s)' = Victims(s)
      BY <2>1 DEF Victims
    <2>3. target[r].id \in Victims(r)'
      <3>1. <<r, target[r].id>> \in {g \in rowHeld' : g[1] = r}
        BY <2>1
      <3> QED
        BY <3>1 DEF Victims
    <2>4. r \notin overtaken => RoomFor(r)'
      BY <1>0, <2>1, <2>3 DEF RoomFor, Ids
    <2> QED
      BY <1>a, <2>1, <2>2, <2>4
  <1>7. ASSUME NEW r \in Logins, CommitReuse(r) PROVE CapInv'
    <2>1. /\ UNCHANGED <<overtaken, target>> /\ pc'[r] = "ended"
          /\ \A s \in Logins : s # r => pc'[s] = pc[s]
          /\ rowHeld' = {h \in rowHeld : h[1] # r}
      BY <1>0, <1>7 DEF CommitReuse, ReleaseLocks, Answer, Goto, TypeOK
    <2>2. /\ IsFiniteSet(sessions') /\ Cardinality(sessions') \in Nat
          /\ Cardinality(sessions') <= Cardinality(sessions) /\ Ids' = Ids
      BY <1>0, <1>7, ReuseKeepsIds
    <2>3. ASSUME NEW s \in Logins \ overtaken, s # r PROVE RoomFor(s)'
      <3>1. Victims(s)' = Victims(s)
        BY <2>1, <2>3 DEF Victims
      <3>2. sessions # {} => sessions' # {}
        BY <2>2 DEF Ids
      <3> QED
        BY <1>0, <2>1, <2>2, <2>3, <3>1, <3>2 DEF RoomFor
    <2>4. RoomFor(r)'
      BY <2>1 DEF RoomFor
    <2> QED
      BY <2>1, <2>2, <2>3, <2>4 DEF CapInv
  <1>8. ASSUME NEW r \in Logins, CommitNew(r) PROVE CapInv'
    <2>1. /\ overtaken' = overtaken \cup {q \in Logins \ {r} : Counted(q)}
          /\ pc'[r] \in {"ended", "purge"}
          /\ \A s \in Logins : s # r => pc'[s] = pc[s]
      BY <1>0, <1>8 DEF CommitNew, Answer, Goto, TypeOK
    <2>2. IsFiniteSet(sessions')
      BY <1>0, <1>8, NewGrows
    <2>3. ASSUME NEW s \in Logins \ overtaken' PROVE RoomFor(s)'
      BY <2>1, <2>3 DEF RoomFor, Counted
    <2> QED
      BY <2>2, <2>3 DEF CapInv
  <1>9. CASE Tick \/ Done \/ UNCHANGED vars
    <2>1. UNCHANGED <<pc, sessions, overtaken, rowHeld, target>>
      BY <1>9 DEF Tick, Done, vars, db, locks
    <2> QED
      BY <2>1 DEF CapInv, RoomFor, Ids, Victims
  <1> QED
    BY <1>1, <1>2, <1>3, <1>4, <1>5, <1>6, <1>7, <1>8, <1>9 DEF Next, Progress

LEMMA CapStep ==
  ASSUME IInv, CapInv, [Next]_vars,
         Cardinality(sessions') > MaxSessions,
         Cardinality(sessions') > Cardinality(sessions)
  PROVE  \E r \in overtaken : Resets(r)
  <1>0. /\ TypeOK /\ RowInv /\ IsFiniteSet(sessions) /\ Cardinality(sessions) \in Nat
    BY FS_CardinalityType DEF IInv, CapInv
  <1>a. sessions' = sessions \/ \E r \in Logins : CommitReuse(r) \/ CommitNew(r)
    BY DEF Next, UnknownUser, Load, Progress, Abort, Tick, Done, VerifyWrong,
       VerifyDenied, VerifyRight, LockLockout, CommitFailure, FindDevice, Count,
       SelectVictim, FlushLockout, FlushReuse, FlushDelete, Purge, vars, db
  <1>b. sessions' # sessions
    BY <1>0
  <1>1. PICK r \in Logins : CommitReuse(r) \/ CommitNew(r)
    BY <1>a, <1>b
  <1>2. ~ CommitReuse(r)
    BY <1>0, ReuseKeepsIds
  <1>3. /\ CommitNew(r) /\ pc[r] = "commit_new" /\ pc'[r] \in {"ended", "purge"}
    BY <1>0, <1>1, <1>2 DEF CommitNew, Answer, Goto, TypeOK
  <1>4. r \in overtaken
    <2>1. /\ Cardinality(sessions') \in Nat
          /\ Cardinality(sessions') <= Cardinality(sessions) + 1
          /\ Ids \cap Victims(r) # {} => Cardinality(sessions') <= Cardinality(sessions)
      BY <1>0, <1>3, NewGrows
    <2>2. r \notin overtaken =>
            Cardinality(sessions) < MaxSessions \/ Ids \cap Victims(r) # {}
      BY <1>3 DEF CapInv, RoomFor
    <2> QED
      BY <1>0, <2>1, <2>2
  <1> QED
    BY <1>3, <1>4 DEF Resets

(* However logins overlap, a session above the cap is that of a login which  *)
(* another one's new session overtook between its count and its commit.      *)
THEOREM CapHolds == Spec => CapKept
  <1>1. Init => CapInv
    BY FS_EmptySet DEF Init, CapInv, RoomFor
  <1>2. IInv /\ CapInv /\ [Next]_vars => CapInv'
    BY CapInvStep
  <1>3. IInv /\ CapInv /\ [Next]_vars =>
          [Cardinality(sessions') > MaxSessions
             /\ Cardinality(sessions') > Cardinality(sessions) =>
             \E r \in overtaken : Resets(r)]_vars
    BY CapStep
  <1> QED
    BY InvariantHolds, <1>1, <1>2, <1>3, PTL DEF Spec, CapKept
=============================================================================
