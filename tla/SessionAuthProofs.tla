------------------------- MODULE SessionAuthProofs -------------------------
(***************************************************************************)
(* Proofs about SessionAuth, for any sets of sessions and requests and any   *)
(* life of tokens and entries.                                               *)
(***************************************************************************)
EXTENDS SessionAuth, TLAPS

USE TokenLifeAssumption, RequestTimeAssumption

(* A session that was invalidated is gone, so whoever begins afterwards will  *)
(* find no row, and never comes to write an entry.                           *)
LateInv ==
  /\ \A s \in Sessions : purge[s] # "none" => row[s] = "gone"
  /\ \A r \in late : row[of[r]] = "gone" /\ pc[r] \notin {"idle", "set"}

(* A request about to write an entry read its row before the eviction.       *)
ReadInv ==
  \A r \in Requests :
    pc[r] = "set" =>
      /\ readAt[r] <= now
      /\ row[of[r]] # "absent"
      /\ row[of[r]] = "gone" => readAt[r] <= goneAt[of[r]]

(* An entry is no older than TokenLife, and that of a session which is gone  *)
(* was written in time.                                                      *)
EntryInv ==
  \A e \in cache :
    /\ now < e.expires
    /\ row[e.session] # "absent"
    /\ row[e.session] = "live" => e.expires <= now + TokenLife
    /\ row[e.session] = "gone" =>
         e.expires <= goneAt[e.session] + RequestTime + TokenLife
    /\ pc[e.by] = "ended"

IInv == TypeOK /\ LateInv /\ ReadInv /\ EntryInv /\ NoLateRefill

(* The invariant holds at the start: nothing has been written yet.           *)
LEMMA InitIInv == Init => IInv
  BY DEF Init, IInv, TypeOK, LateInv, ReadInv, EntryInv, NoLateRefill

(* Where an entry comes from: it was there, or Set or Fail has just written   *)
(* it from a row read no more than RequestTime ago.                          *)
LEMMA WithEntryGood ==
  ASSUME IInv, NEW r \in Requests, pc[r] = "set",
         now <= readAt[r] + RequestTime,
         NEW e \in WithEntry(r), e \notin cache
  PROVE  /\ e \in Entries /\ e.session = of[r] /\ e.by = r /\ r \notin late
         /\ now < e.expires /\ row[of[r]] # "absent"
         /\ row[of[r]] = "live" => e.expires <= now + TokenLife
         /\ row[of[r]] = "gone" =>
              e.expires <= goneAt[of[r]] + RequestTime + TokenLife
  <1>1. e = [session |-> of[r], expires |-> now + TokenLife, by |-> r]
    BY DEF WithEntry, Without, EntryLife
  <1>2. now \in Nat /\ of[r] \in Sessions /\ readAt[r] \in Nat
        /\ goneAt[of[r]] \in Nat
    BY DEF IInv, TypeOK
  <1>3. readAt[r] <= now /\ row[of[r]] # "absent"
        /\ (row[of[r]] = "gone" => readAt[r] <= goneAt[of[r]])
    BY DEF IInv, ReadInv
  <1>4. r \notin late
    BY DEF IInv, LateInv
  <1> QED
    BY <1>1, <1>2, <1>3, <1>4 DEF Entries

(* Every step keeps the types. *)
LEMMA TypeStep == IInv /\ [Next]_vars => TypeOK'
  <1> SUFFICES ASSUME IInv, [Next]_vars PROVE TypeOK'
    OBVIOUS
  <1> USE DEF IInv, TypeOK
  <1>1. ASSUME NEW s \in Sessions, LogIn(s) PROVE TypeOK'
    BY <1>1 DEF LogIn
  <1>2. ASSUME NEW s \in Sessions, Purge(s) \/ PurgeFails(s) PROVE TypeOK'
    BY <1>2 DEF Purge, PurgeFails, Without
  <1>3. ASSUME NEW r \in Requests, Begin(r) PROVE TypeOK'
    BY <1>3 DEF Begin, Answer, sessions
  <1>4. ASSUME NEW r \in Requests, Hit(r) \/ Miss(r) PROVE TypeOK'
    BY <1>4 DEF Hit, Miss, Answer, sessions
  <1>5. ASSUME NEW r \in Requests, Select(r) PROVE TypeOK'
    BY <1>5 DEF Select, Answer, sessions
  <1>6. ASSUME NEW r \in Requests, Set(r) \/ Fail(r) PROVE TypeOK'
    <2>1. cache' = cache \/ cache' = WithEntry(r)
      BY <1>6 DEF Set, Fail
    <2>2. WithEntry(r) \subseteq Entries
      BY DEF WithEntry, Without, Entries, EntryLife
    <2>3. \A e, f \in WithEntry(r) : e.session = f.session => e = f
      BY DEF WithEntry, Without
    <2> QED
      BY <1>6, <2>1, <2>2, <2>3 DEF Set, Fail, Answer, sessions
  <1>7. CASE CacheLoss
    BY <1>7 DEF CacheLoss, sessions
  <1>8. CASE Tick
    BY <1>8 DEF Tick, sessions
  <1>9. CASE Done \/ UNCHANGED vars
    BY <1>9 DEF Done, vars
  <1> QED
    BY <1>1, <1>2, <1>3, <1>4, <1>5, <1>6, <1>7, <1>8, <1>9 DEF Next

(* Only a session that is gone is invalidated, and it never comes back.      *)
LEMMA LateStep == IInv /\ [Next]_vars => LateInv'
  <1> SUFFICES ASSUME IInv, [Next]_vars PROVE LateInv'
    OBVIOUS
  <1> USE DEF IInv, TypeOK, LateInv
  <1>1. ASSUME NEW s \in Sessions, LogIn(s) PROVE LateInv'
    BY <1>1 DEF LogIn
  <1>2. ASSUME NEW s \in Sessions, Purge(s) \/ PurgeFails(s) PROVE LateInv'
    BY <1>2 DEF Purge, PurgeFails
  <1>3. ASSUME NEW r \in Requests, Begin(r) PROVE LateInv'
    BY <1>3 DEF Begin, Answer, sessions
  <1>4. ASSUME NEW r \in Requests, Hit(r) \/ Miss(r) PROVE LateInv'
    BY <1>4 DEF Hit, Miss, Answer, sessions
  <1>5. ASSUME NEW r \in Requests, Select(r) PROVE LateInv'
    BY <1>5 DEF Select, Answer, sessions
  <1>6. ASSUME NEW r \in Requests, Set(r) \/ Fail(r) PROVE LateInv'
    BY <1>6 DEF Set, Fail, Answer, sessions
  <1>7. CASE CacheLoss \/ Tick
    BY <1>7 DEF CacheLoss, Tick, sessions
  <1>8. CASE Done \/ UNCHANGED vars
    BY <1>8 DEF Done, vars
  <1> QED
    BY <1>1, <1>2, <1>3, <1>4, <1>5, <1>6, <1>7, <1>8 DEF Next

(* An eviction comes after every read of the row it removes. *)
LEMMA ReadStep == IInv /\ [Next]_vars => ReadInv'
  <1> SUFFICES ASSUME IInv, [Next]_vars PROVE ReadInv'
    OBVIOUS
  <1> USE DEF IInv, TypeOK, ReadInv
  <1>1. ASSUME NEW s \in Sessions, LogIn(s) PROVE ReadInv'
    BY <1>1 DEF LogIn
  <1>2. ASSUME NEW s \in Sessions, Purge(s) \/ PurgeFails(s) PROVE ReadInv'
    BY <1>2 DEF Purge, PurgeFails
  <1>3. ASSUME NEW r \in Requests, Begin(r) PROVE ReadInv'
    BY <1>3 DEF Begin, Answer, sessions
  <1>4. ASSUME NEW r \in Requests, Hit(r) \/ Miss(r) PROVE ReadInv'
    BY <1>4 DEF Hit, Miss, Answer, sessions
  <1>5. ASSUME NEW r \in Requests, Select(r) PROVE ReadInv'
    BY <1>5 DEF Select, Answer, sessions
  <1>6. ASSUME NEW r \in Requests, Set(r) \/ Fail(r) PROVE ReadInv'
    BY <1>6 DEF Set, Fail, Answer, sessions
  <1>7. CASE CacheLoss
    BY <1>7 DEF CacheLoss, sessions
  <1>8. CASE Tick
    BY <1>8 DEF Tick, sessions
  <1>9. CASE Done \/ UNCHANGED vars
    BY <1>9 DEF Done, vars
  <1> QED
    BY <1>1, <1>2, <1>3, <1>4, <1>5, <1>6, <1>7, <1>8, <1>9 DEF Next

(* The entries: LogIn turns live sessions into gone ones at the present time, *)
(* Set and Fail write, everything else removes or leaves them.               *)
LEMMA EntryStep == IInv /\ [Next]_vars => EntryInv' /\ NoLateRefill'
  <1> SUFFICES ASSUME IInv, [Next]_vars, NEW e \in cache'
               PROVE  /\ now' < e.expires
                      /\ row'[e.session] # "absent"
                      /\ row'[e.session] = "live" => e.expires <= now' + TokenLife
                      /\ row'[e.session] = "gone" =>
                           e.expires <= goneAt'[e.session] + RequestTime + TokenLife
                      /\ pc'[e.by] = "ended"
                      /\ e.by \notin late'
    BY DEF EntryInv, NoLateRefill
  <1> DEFINE Good == /\ now' < e.expires
                     /\ row'[e.session] # "absent"
                     /\ row'[e.session] = "live" => e.expires <= now' + TokenLife
                     /\ row'[e.session] = "gone" =>
                          e.expires <= goneAt'[e.session] + RequestTime + TokenLife
                     /\ pc'[e.by] = "ended"
                     /\ e.by \notin late'
  <1> now \in Nat /\ \A s \in Sessions : goneAt[s] \in Nat
    BY DEF IInv, TypeOK
  <1>a. ASSUME e \in cache
        PROVE  /\ e.session \in Sessions /\ e.by \in Requests /\ e.expires \in Nat
               /\ now < e.expires
               /\ row[e.session] # "absent"
               /\ row[e.session] = "live" => e.expires <= now + TokenLife
               /\ row[e.session] = "gone" =>
                    e.expires <= goneAt[e.session] + RequestTime + TokenLife
               /\ pc[e.by] = "ended"
               /\ e.by \notin late
    BY <1>a DEF IInv, TypeOK, Entries, EntryInv, NoLateRefill
  <1>1. ASSUME NEW s \in Sessions, LogIn(s) PROVE Good
    <2>1. e \in cache /\ now' = now /\ pc' = pc /\ late' = late
      BY <1>1 DEF LogIn
    <2>2. CASE row' = [row EXCEPT ![s] = "live"] /\ UNCHANGED <<goneAt, purge>>
      BY <1>1, <1>a, <2>1, <2>2 DEF LogIn, IInv, TypeOK
    <2>3. ASSUME NEW v \in Sessions, row[v] = "live",
                 row' = [row EXCEPT ![s] = "live", ![v] = "gone"],
                 goneAt' = [goneAt EXCEPT ![v] = now]
          PROVE Good
      <3>1. row[s] = "absent"
        BY <1>1 DEF LogIn
      <3>2. CASE e.session = v
        BY <1>a, <2>1, <2>3, <3>1, <3>2 DEF IInv, TypeOK
      <3>3. CASE e.session # v
        BY <1>a, <2>1, <2>3, <3>1, <3>3 DEF IInv, TypeOK
      <3> QED
        BY <3>2, <3>3
    <2> QED
      BY <1>1, <2>2, <2>3 DEF LogIn
  <1>2. ASSUME NEW s \in Sessions, Purge(s) \/ PurgeFails(s) PROVE Good
    BY <1>2, <1>a DEF Purge, PurgeFails, Without
  <1>3. ASSUME NEW r \in Requests, Begin(r) PROVE Good
    BY <1>3, <1>a DEF Begin, Answer, sessions, IInv, TypeOK
  <1>4. ASSUME NEW r \in Requests, Hit(r) \/ Miss(r) PROVE Good
    BY <1>4, <1>a DEF Hit, Miss, Answer, sessions, IInv, TypeOK
  <1>5. ASSUME NEW r \in Requests, Select(r) PROVE Good
    BY <1>5, <1>a DEF Select, Answer, sessions, IInv, TypeOK
  <1>6. ASSUME NEW r \in Requests, Set(r) \/ Fail(r) PROVE Good
    <2>1. now' = now /\ row' = row /\ goneAt' = goneAt /\ late' = late
          /\ pc' = [pc EXCEPT ![r] = "ended"] /\ pc[r] # "ended"
      BY <1>6 DEF Set, Fail, Answer, sessions
    <2>2. CASE e \in cache
      BY <2>1, <2>2, <1>a DEF IInv, TypeOK
    <2>3. CASE e \notin cache
      <3>1. pc[r] = "set" /\ now <= readAt[r] + RequestTime /\ e \in WithEntry(r)
        BY <1>6, <2>3 DEF Set, Fail
      <3>2. /\ e.session = of[r] /\ e.by = r /\ r \notin late
            /\ now < e.expires /\ row[of[r]] # "absent"
            /\ row[of[r]] = "live" => e.expires <= now + TokenLife
            /\ row[of[r]] = "gone" =>
                 e.expires <= goneAt[of[r]] + RequestTime + TokenLife
        BY <3>1, <2>3, WithEntryGood
      <3> QED
        BY <2>1, <3>2 DEF IInv, TypeOK
    <2> QED
      BY <2>2, <2>3
  <1>7. CASE CacheLoss
    BY <1>7, <1>a DEF CacheLoss, sessions
  <1>8. CASE Tick
    BY <1>8, <1>a DEF Tick, sessions
  <1>9. CASE Done \/ UNCHANGED vars
    BY <1>9, <1>a DEF Done, vars
  <1> QED
    BY <1>1, <1>2, <1>3, <1>4, <1>5, <1>6, <1>7, <1>8, <1>9 DEF Next

(* The parts together are inductive. *)
LEMMA Invariance == Spec => []IInv
  <1>1. IInv /\ [Next]_vars => IInv'
    BY TypeStep, LateStep, ReadStep, EntryStep DEF IInv
  <1> QED
    BY InitIInv, <1>1, PTL DEF Spec

(* Every reachable state is type correct. *)
THEOREM TypeCorrect == Spec => []TypeOK
  <1>1. IInv => TypeOK
    BY DEF IInv
  <1> QED
    BY Invariance, <1>1, PTL

(* The entry of an evicted session never outlives the eviction by more than  *)
(* one TokenLife and the time of one request.                                *)
THEOREM BoundedDisagreement == Spec => []DisagreementBounded
  <1>1. IInv => DisagreementBounded
    BY DEF IInv, EntryInv, DisagreementBounded
  <1> QED
    BY Invariance, <1>1, PTL

(* No request that begins after the invalidation brings the entry back. *)
THEOREM NeverRefilledLate == Spec => []NoLateRefill
  <1>1. IInv => NoLateRefill
    BY DEF IInv
  <1> QED
    BY Invariance, <1>1, PTL

(* A token is accepted only for a session that exists, or did recently. *)
THEOREM AcceptedRecentlyLive == Spec => AcceptsRecentlyLive
  <1> DEFINE Recent(r) == \/ row[of[r]] = "live"
                          \/ /\ row[of[r]] = "gone"
                             /\ now < goneAt[of[r]] + RequestTime + TokenLife
             Step == \A r \in Requests :
                       outcome[r] = "none" /\ outcome'[r] = "accepted" => Recent(r)
  <1>1. IInv /\ [Next]_vars => [Step]_vars
    <2> SUFFICES ASSUME IInv, Next, NEW r \in Requests,
                        outcome[r] = "none", outcome'[r] = "accepted"
                 PROVE  Recent(r)
      OBVIOUS
    <2> /\ now \in Nat /\ readAt[r] \in Nat /\ of[r] \in Sessions
        /\ goneAt[of[r]] \in Nat /\ outcome \in [Requests -> {"none", "accepted", "expired", "revoked", "unavailable"}]
        /\ row[of[r]] \in {"absent", "live", "gone"}
      BY DEF IInv, TypeOK
    <2>1. Hit(r) \/ Set(r)
      BY DEF Next, LogIn, Purge, PurgeFails, Begin, Hit, Miss, Select, Set, Fail,
             CacheLoss, Tick, Done, Answer, sessions, vars
    <2>2. CASE Hit(r)
      <3>1. PICK e \in cache : e.session = of[r]
        BY <2>2 DEF Hit
      <3>2. e.expires \in Nat /\ now < e.expires /\ row[of[r]] # "absent"
            /\ (row[of[r]] = "gone" =>
                  e.expires <= goneAt[of[r]] + RequestTime + TokenLife)
        BY <3>1 DEF IInv, TypeOK, Entries, EntryInv
      <3> QED
        BY <3>2
    <2>3. CASE Set(r)
      BY <2>3 DEF Set, IInv, ReadInv
    <2> QED
      BY <2>1, <2>2, <2>3
  <1> QED
    BY Invariance, <1>1, PTL DEF Spec, AcceptsRecentlyLive
=============================================================================
