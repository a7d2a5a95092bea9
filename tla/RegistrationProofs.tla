------------------------- MODULE RegistrationProofs -------------------------
(***************************************************************************)
(* Proofs about Registration, for any finite set of registrations, whatever  *)
(* they ask for, any limit, and any lock ids.                                *)
(***************************************************************************)
EXTENDS Registration, FiniteSetTheorems, TLAPS

USE RequestsAssumption, MaxStudentsAssumption

(* The points at which a request has all of its locks. *)
Inside ==
  {"count_phone", "count_email", "insert", "indexed", "inserted", "stored"}

(* The points after each of the counts, and after each of the unique indexes *)
(* of user_credentials.                                                      *)
PhoneCounted == {"count_email", "insert", "indexed", "inserted", "stored"}

EmailCounted == {"insert", "indexed", "inserted", "stored"}

WithUsername == {"indexed", "inserted", "stored"}

WithEmail == {"inserted", "stored"}

(* Two transactions never hold the same advisory lock. *)
HeldInv ==
  \A g, h \in held :
    g[2] = h[2] /\ LockId(g[1], g[2]) = LockId(h[1], g[2]) => g[1] = h[1]

(* What a request's point says about its locks, its account and its answer.  *)
PlaceInv ==
  /\ \A r \in Requests : pc[r] \in Inside => Missing(r) = {}
  /\ \A r \in accounts : pc[r] \in {"respond", "ended"}
  /\ \A r \in Requests : pc[r] = "respond" => r \in accounts
  /\ \A r \in Requests : pc[r] # "ended" => outcome[r] = "none"

(* No idempotency key registers two accounts. *)
OneAccountPerKey ==
  \A r, s \in accounts : want[r].key = want[s].key => r = s

(* The key of a request that holds the key's lock is not used. *)
KeyInv == \A r \in Requests : <<r, "key">> \in held => Known(r) = {}

(* A count that was below the limit stays so until the request commits.      *)
CountInv ==
  /\ \A r \in Requests :
       pc[r] \in PhoneCounted => PhoneCount(r) < Limit(r)
  /\ \A r \in Requests :
       pc[r] \in EmailCounted /\ IsStudent(r) => EmailCount(r) < Limit(r)
  /\ \A r \in accounts : PhoneCount(r) <= Limit(r)
  /\ \A r \in accounts : IsStudent(r) => EmailCount(r) <= Limit(r)

(* The unique indexes, over committed accounts and entries to come. *)
Usernames == accounts \cup {r \in Requests : pc[r] \in WithUsername}

Emails == accounts \cup {r \in Requests : pc[r] \in WithEmail}

IndexInv ==
  /\ \A r, s \in Usernames : SameUsername(r, s) => r = s
  /\ \A r, s \in Emails : SameIndexedEmail(r, s) => r = s

IInv ==
  TypeOK /\ HeldInv /\ PlaceInv /\ KeyInv /\ CountInv /\ IndexInv /\ OneAccountPerKey

----------------------------------------------------------------------------
(* The invariant holds before any request has started. *)
LEMMA InitIInv == Init => IInv
  <1> SUFFICES ASSUME Init PROVE IInv
    OBVIOUS
  <1>1. TypeOK /\ HeldInv /\ PlaceInv /\ KeyInv /\ IndexInv /\ OneAccountPerKey
    BY DEF Init, TypeOK, HeldInv, PlaceInv, Inside, KeyInv, IndexInv, Usernames,
           Emails, WithUsername, WithEmail, OneAccountPerKey, Outcomes
  <1>2. CountInv
    BY DEF Init, CountInv, PhoneCounted, EmailCounted
  <1> QED
    BY <1>1, <1>2 DEF IInv

(* Counts are of finite sets, and limits are positive. *)
LEMMA CountsFinite ==
  ASSUME TypeOK
  PROVE  /\ IsFiniteSet(accounts)
         /\ \A r \in Requests : PhoneCount(r) \in Nat /\ EmailCount(r) \in Nat
         /\ \A r \in Requests : Limit(r) \in Nat \ {0}
  <1>1. \A S \in SUBSET accounts : IsFiniteSet(S) /\ Cardinality(S) \in Nat
    BY FS_Subset, FS_CardinalityType DEF TypeOK
  <1>2. IsFiniteSet(accounts)
    BY <1>1
  <1>3. ASSUME NEW r \in Requests PROVE PhoneCount(r) \in Nat /\ EmailCount(r) \in Nat
    BY <1>1 DEF PhoneCount, EmailCount
  <1> QED
    BY <1>2, <1>3 DEF Limit

(* One more account raises a count by one at most, and only for those that   *)
(* share its pool and its contact.                                           *)
LEMMA CountGrows ==
  ASSUME TypeOK, NEW q \in Requests, accounts' = accounts \cup {q}, want' = want,
         NEW r \in Requests
  PROVE  /\ PhoneCount(r)' <= PhoneCount(r) + 1
         /\ ~ (SamePool(r, q) /\ want[q].phone = want[r].phone)
              => PhoneCount(r)' = PhoneCount(r)
         /\ EmailCount(r)' <= EmailCount(r) + 1
         /\ ~ (want[q].type = want[r].type /\ want[q].email = want[r].email)
              => EmailCount(r)' = EmailCount(r)
         /\ Limit(r)' = Limit(r)
  <1> DEFINE P == {s \in accounts : SamePool(r, s) /\ want[s].phone = want[r].phone}
             M == {s \in accounts : want[s].type = want[r].type
                                    /\ want[s].email = want[r].email}
             P1 == {s \in accounts \cup {q} :
                      SamePool(r, s) /\ want[s].phone = want[r].phone}
             M1 == {s \in accounts \cup {q} : want[s].type = want[r].type
                                    /\ want[s].email = want[r].email}
  <1>1. IsFiniteSet(P) /\ IsFiniteSet(M)
    BY CountsFinite, FS_Subset
  <1>2. /\ PhoneCount(r) = Cardinality(P)  /\ EmailCount(r) = Cardinality(M)
        /\ PhoneCount(r)' = Cardinality(P1) /\ EmailCount(r)' = Cardinality(M1)
    BY DEF PhoneCount, EmailCount, SamePool, IsStudent
  <1>3. P1 = (IF SamePool(r, q) /\ want[q].phone = want[r].phone THEN P \cup {q} ELSE P)
    OBVIOUS
  <1>4. M1 = (IF want[q].type = want[r].type /\ want[q].email = want[r].email
                THEN M \cup {q} ELSE M)
    OBVIOUS
  <1>5. Limit(r)' = Limit(r)
    BY DEF Limit, IsStudent
  <1> HIDE DEF P, M, P1, M1
  <1>6. ASSUME NEW S, IsFiniteSet(S)
        PROVE  Cardinality(S) \in Nat /\ Cardinality(S \cup {q}) <= Cardinality(S) + 1
    <2>1. Cardinality(S) \in Nat
      BY <1>6, FS_CardinalityType
    <2>2. Cardinality(S \cup {q}) =
            IF q \in S THEN Cardinality(S) ELSE Cardinality(S) + 1
      BY <1>6, FS_AddElement
    <2> QED
      BY <2>1, <2>2
  <1>7. /\ Cardinality(P) \in Nat /\ Cardinality(P \cup {q}) <= Cardinality(P) + 1
        /\ Cardinality(M) \in Nat /\ Cardinality(M \cup {q}) <= Cardinality(M) + 1
    BY <1>1, <1>6
  <1> QED
    BY <1>2, <1>3, <1>4, <1>5, <1>7

(* Requests with all of their locks share neither a key nor a phone, and no  *)
(* two students among them an email: equal values have equal lock ids.       *)
LEMMA LocksExclude ==
  ASSUME TypeOK, HeldInv, PlaceInv, NEW r \in Requests, NEW s \in Requests,
         pc[r] \in Inside, pc[s] \in Inside, r # s
  PROVE  /\ want[r].phone # want[s].phone
         /\ want[r].key # want[s].key
         /\ IsStudent(r) /\ IsStudent(s) => want[r].email # want[s].email
  <1>1. \A n \in Needs(r) : <<r, n>> \in held
    BY DEF PlaceInv, Missing
  <1>2. \A n \in Needs(s) : <<s, n>> \in held
    BY DEF PlaceInv, Missing
  <1>3. ASSUME NEW n, n \in Needs(r), n \in Needs(s) PROVE want[r][n] # want[s][n]
    BY <1>1, <1>2, <1>3 DEF HeldInv, LockId
  <1>4. {"phone", "key"} \subseteq Needs(r) \cap Needs(s)
        /\ (IsStudent(r) /\ IsStudent(s) => "email" \in Needs(r) \cap Needs(s))
    BY DEF Needs
  <1> QED
    BY <1>3, <1>4

----------------------------------------------------------------------------
(* Steps. *)

(* Only Commit adds an account, and what is asked for never changes. *)
LEMMA WhoCommits ==
  ASSUME [Next]_vars
  PROVE  /\ want' = want
         /\ accounts' = accounts \/ \E r \in Requests : Commit(r)
  BY DEF Next, Progress, vars, Start, AnswerKnown, Answer, Goto, TakeLock, Locked,
         LockTimeout, CountPhone, CountEmail,
           InsertUsername, InsertEmail, StoreRecord, Commit, Respond, Abort, Done

(* Every step keeps the types; the locks of a request go with its answer.    *)
LEMMA TypeStep == TypeOK /\ [Next]_vars => TypeOK'
  <1> SUFFICES ASSUME TypeOK, [Next]_vars PROVE TypeOK'
    OBVIOUS
  <1> USE DEF TypeOK, Outcomes, Namespaces
  <1>a. ASSUME NEW r \in Requests, NEW how \in Outcomes, Answer(r, how),
               UNCHANGED <<want, accounts>>
        PROVE  TypeOK'
    BY <1>a DEF Answer, Goto
  <1>1. ASSUME NEW r \in Requests, Start(r) PROVE TypeOK'
    <2>1. CASE AnswerKnown(r)
      BY <1>1, <2>1, <1>a DEF Start, AnswerKnown
    <2>2. CASE Goto(r, "locks") /\ UNCHANGED <<held, outcome>>
      BY <1>1, <2>2 DEF Start, Goto
    <2> QED
      BY <1>1, <2>1, <2>2 DEF Start
  <1>2. ASSUME NEW r \in Requests, TakeLock(r) PROVE TypeOK'
    <2>1. CASE AnswerKnown(r)
      BY <1>2, <2>1, <1>a DEF TakeLock, AnswerKnown
    <2>2. CASE \E n \in Namespaces : held' = held \cup {<<r, n>>} /\ UNCHANGED <<pc, outcome>>
      BY <1>2, <2>2 DEF TakeLock
    <2> QED
      BY <1>2, <2>1, <2>2 DEF TakeLock
  <1>3. ASSUME NEW r \in Requests, Locked(r) PROVE TypeOK'
    BY <1>3 DEF Locked, Goto
  <1>4. ASSUME NEW r \in Requests, LockTimeout(r) PROVE TypeOK'
    BY <1>4, <1>a DEF LockTimeout
  <1>5. ASSUME NEW r \in Requests, CountPhone(r) PROVE TypeOK'
    <2>1. CASE Answer(r, "phone_full")
      BY <1>5, <2>1, <1>a DEF CountPhone
    <2>2. CASE Goto(r, "count_email") /\ UNCHANGED <<held, outcome>>
      BY <1>5, <2>2 DEF CountPhone, Goto
    <2> QED
      BY <1>5, <2>1, <2>2 DEF CountPhone
  <1>6. ASSUME NEW r \in Requests, CountEmail(r) PROVE TypeOK'
    <2>1. CASE Answer(r, "email_full")
      BY <1>6, <2>1, <1>a DEF CountEmail
    <2>2. CASE Goto(r, "insert") /\ UNCHANGED <<held, outcome>>
      BY <1>6, <2>2 DEF CountEmail, Goto
    <2> QED
      BY <1>6, <2>1, <2>2 DEF CountEmail
  <1>7. ASSUME NEW r \in Requests, InsertUsername(r) PROVE TypeOK'
    <2>1. CASE Answer(r, "username_taken")
      BY <1>7, <2>1, <1>a DEF InsertUsername
    <2>2. CASE Goto(r, "indexed") /\ UNCHANGED <<held, outcome>>
      BY <1>7, <2>2 DEF InsertUsername, Goto
    <2> QED
      BY <1>7, <2>1, <2>2 DEF InsertUsername
  <1>7b. ASSUME NEW r \in Requests, InsertEmail(r) PROVE TypeOK'
    <2>1. CASE Answer(r, "email_full")
      BY <1>7b, <2>1, <1>a DEF InsertEmail
    <2>2. CASE Goto(r, "inserted") /\ UNCHANGED <<held, outcome>>
      BY <1>7b, <2>2 DEF InsertEmail, Goto
    <2> QED
      BY <1>7b, <2>1, <2>2 DEF InsertEmail
  <1>7c. ASSUME NEW r \in Requests, StoreRecord(r) PROVE TypeOK'
    <2>1. CASE Answer(r, "conflict")
      BY <1>7c, <2>1, <1>a DEF StoreRecord
    <2>2. CASE Goto(r, "stored") /\ UNCHANGED <<held, outcome>>
      BY <1>7c, <2>2 DEF StoreRecord, Goto
    <2> QED
      BY <1>7c, <2>1, <2>2 DEF StoreRecord
  <1>8. ASSUME NEW r \in Requests, Commit(r) PROVE TypeOK'
    BY <1>8 DEF Commit, Goto
  <1>9. ASSUME NEW r \in Requests, Respond(r) \/ Abort(r) PROVE TypeOK'
    BY <1>9, <1>a DEF Respond, Abort
  <1>10. CASE Done \/ UNCHANGED vars
    BY <1>10 DEF Done, vars
  <1> QED
    BY <1>1, <1>2, <1>3, <1>4, <1>5, <1>6, <1>7, <1>7b, <1>7c, <1>8, <1>9, <1>10
       DEF Next, Progress

(* A lock is granted only when no other transaction holds it. *)
LEMMA HeldStep == TypeOK /\ HeldInv /\ [Next]_vars => HeldInv'
  <1> SUFFICES ASSUME TypeOK, HeldInv, [Next]_vars PROVE HeldInv'
    OBVIOUS
  <1>1. want' = want
    BY WhoCommits
  <1>2. CASE held' \subseteq held
    BY <1>1, <1>2 DEF HeldInv, LockId
  <1>3. ASSUME NEW r \in Requests, TakeLock(r) PROVE HeldInv'
    <2>1. CASE AnswerKnown(r)
      BY <2>1, <1>2 DEF AnswerKnown, Answer
    <2>2. ASSUME NEW n \in Namespaces, LockFree(r, n), held' = held \cup {<<r, n>>}
          PROVE  HeldInv'
      BY <1>1, <2>2 DEF HeldInv, LockId, LockFree
    <2> QED
      BY <1>3, <2>1, <2>2 DEF TakeLock
  <1>4. held' \subseteq held \/ \E r \in Requests : TakeLock(r)
    BY DEF Next, Progress, vars, Start, AnswerKnown, Answer, Locked, LockTimeout,
           CountPhone, CountEmail,
           InsertUsername, InsertEmail, StoreRecord, Commit, Respond, Abort, Done
  <1> QED
    BY <1>2, <1>3, <1>4

(* The locks of other requests are left alone, and a request that goes on    *)
(* keeps its own.                                                            *)
LEMMA PlaceStep == TypeOK /\ PlaceInv /\ [Next]_vars => PlaceInv'
  <1> SUFFICES ASSUME TypeOK, PlaceInv, [Next]_vars PROVE PlaceInv'
    OBVIOUS
  <1> USE DEF PlaceInv, Inside
  <1>1. want' = want
        /\ pc \in [Requests -> {"idle", "locks", "count_phone", "count_email",
              "insert", "indexed", "inserted", "stored", "respond", "ended"}]
        /\ outcome \in [Requests -> Outcomes] /\ accounts \subseteq Requests
    BY WhoCommits DEF TypeOK
  <1>2. ASSUME \A r \in Requests : pc'[r] \in Inside =>
                   /\ pc[r] \in Inside \/ Missing(r) = {}
                   /\ \A n \in Namespaces : <<r, n>> \in held => <<r, n>> \in held'
        PROVE  \A r \in Requests : pc'[r] \in Inside => Missing(r)' = {}
    BY <1>1, <1>2 DEF Missing, Needs, Namespaces, IsStudent
  <1>a. ASSUME NEW r \in Requests, NEW how, Answer(r, how), accounts' = accounts
        PROVE  PlaceInv'
    <2>1. \A q \in Requests : pc'[q] = IF q = r THEN "ended" ELSE pc[q]
      BY <1>1, <1>a DEF Answer, Goto
    <2>2. \A q \in Requests \ {r} : outcome'[q] = outcome[q]
      BY <1>1, <1>a DEF Answer
    <2>3. \A q \in Requests \ {r}, n \in Namespaces :
            <<q, n>> \in held => <<q, n>> \in held'
      BY <1>a DEF Answer
    <2>4. \A q \in Requests : pc'[q] \in Inside => Missing(q)' = {}
      BY <1>2, <2>1, <2>3
    <2> QED
      BY <1>1, <1>a, <2>1, <2>2, <2>4
  <1>b. ASSUME NEW r \in Requests, NEW point, Goto(r, point),
               point \in Inside => pc[r] \in Inside \/ Missing(r) = {},
               pc[r] # "ended",
               \A q \in Requests, n \in Namespaces :
                 point \in Inside \/ q # r =>
                   (<<q, n>> \in held => <<q, n>> \in held'),
               point # "respond" => accounts' = accounts /\ pc[r] # "respond"
                                    /\ r \notin accounts,
               point = "respond" => accounts' = accounts \cup {r},
               outcome' = outcome
        PROVE  PlaceInv'
    <2>1. \A q \in Requests : pc'[q] = IF q = r THEN point ELSE pc[q]
      BY <1>1, <1>b DEF Goto
    <2>2. \A q \in Requests : pc'[q] \in Inside => Missing(q)' = {}
      BY <1>2, <1>b, <2>1
    <2> QED
      BY <1>1, <1>b, <2>1, <2>2
  <1>3. ASSUME NEW r \in Requests, Start(r) PROVE PlaceInv'
    <2>1. CASE AnswerKnown(r)
      BY <1>3, <2>1, <1>a DEF Start, AnswerKnown
    <2>2. CASE Goto(r, "locks") /\ UNCHANGED <<held, outcome>>
      BY <1>3, <2>2, <1>b DEF Start
    <2> QED
      BY <1>3, <2>1, <2>2 DEF Start
  <1>4. ASSUME NEW r \in Requests, TakeLock(r) PROVE PlaceInv'
    <2>1. CASE AnswerKnown(r)
      BY <1>4, <2>1, <1>a DEF TakeLock, AnswerKnown
    <2>2. ASSUME NEW n \in Namespaces, held' = held \cup {<<r, n>>},
                 UNCHANGED <<pc, outcome>>
          PROVE  PlaceInv'
      <3>1. \A q \in Requests : pc'[q] \in Inside => Missing(q)' = {}
        BY <1>2, <2>2
      <3> QED
        BY <1>4, <2>2, <3>1 DEF TakeLock
    <2> QED
      BY <1>4, <2>1, <2>2 DEF TakeLock
  <1>5. ASSUME NEW r \in Requests, Locked(r) PROVE PlaceInv'
    BY <1>5, <1>b DEF Locked
  <1>6. ASSUME NEW r \in Requests, LockTimeout(r) \/ Respond(r) \/ Abort(r)
        PROVE  PlaceInv'
    BY <1>6, <1>a DEF LockTimeout, Respond, Abort
  <1>7. ASSUME NEW r \in Requests, CountPhone(r) PROVE PlaceInv'
    <2>1. CASE Answer(r, "phone_full")
      BY <1>7, <2>1, <1>a DEF CountPhone
    <2>2. CASE Goto(r, "count_email") /\ UNCHANGED <<held, outcome>>
      BY <1>7, <2>2, <1>b DEF CountPhone
    <2> QED
      BY <1>7, <2>1, <2>2 DEF CountPhone
  <1>8. ASSUME NEW r \in Requests, CountEmail(r) PROVE PlaceInv'
    <2>1. CASE Answer(r, "email_full")
      BY <1>8, <2>1, <1>a DEF CountEmail
    <2>2. CASE Goto(r, "insert") /\ UNCHANGED <<held, outcome>>
      BY <1>8, <2>2, <1>b DEF CountEmail
    <2> QED
      BY <1>8, <2>1, <2>2 DEF CountEmail
  <1>9. ASSUME NEW r \in Requests, InsertUsername(r) PROVE PlaceInv'
    <2>1. CASE Answer(r, "username_taken")
      BY <1>9, <2>1, <1>a DEF InsertUsername
    <2>2. CASE Goto(r, "indexed") /\ UNCHANGED <<held, outcome>>
      BY <1>9, <2>2, <1>b DEF InsertUsername
    <2> QED
      BY <1>9, <2>1, <2>2 DEF InsertUsername
  <1>9b. ASSUME NEW r \in Requests, InsertEmail(r) PROVE PlaceInv'
    <2>1. CASE Answer(r, "email_full")
      BY <1>9b, <2>1, <1>a DEF InsertEmail
    <2>2. CASE Goto(r, "inserted") /\ UNCHANGED <<held, outcome>>
      BY <1>9b, <2>2, <1>b DEF InsertEmail
    <2> QED
      BY <1>9b, <2>1, <2>2 DEF InsertEmail
  <1>9c. ASSUME NEW r \in Requests, StoreRecord(r) PROVE PlaceInv'
    <2>1. CASE Answer(r, "conflict")
      BY <1>9c, <2>1, <1>a DEF StoreRecord
    <2>2. CASE Goto(r, "stored") /\ UNCHANGED <<held, outcome>>
      BY <1>9c, <2>2, <1>b DEF StoreRecord
    <2> QED
      BY <1>9c, <2>1, <2>2 DEF StoreRecord
  <1>10. ASSUME NEW r \in Requests, Commit(r) PROVE PlaceInv'
    BY <1>10, <1>b DEF Commit
  <1>11. CASE Done \/ UNCHANGED vars
    BY <1>1, <1>11 DEF Done, vars, Missing, Needs, IsStudent
  <1> QED
    BY <1>3, <1>4, <1>5, <1>6, <1>7, <1>8, <1>9, <1>9b, <1>9c, <1>10, <1>11
       DEF Next, Progress

(* A key's lock is granted when no account has the key, and the account that *)
(* another request commits has another key.                                  *)
LEMMA KeyStep ==
  TypeOK /\ HeldInv /\ PlaceInv /\ KeyInv /\ OneAccountPerKey /\ [Next]_vars
    => KeyInv' /\ OneAccountPerKey'
  <1> SUFFICES ASSUME TypeOK, HeldInv, PlaceInv, KeyInv, OneAccountPerKey, [Next]_vars
               PROVE  KeyInv' /\ OneAccountPerKey'
    OBVIOUS
  <1> USE DEF KeyInv, Known, OneAccountPerKey
  <1>1. want' = want
    BY WhoCommits
  <1>2. CASE accounts' = accounts /\ held' \subseteq held
    BY <1>1, <1>2
  <1>3. ASSUME NEW r \in Requests, TakeLock(r) PROVE KeyInv' /\ OneAccountPerKey'
    <2>1. CASE AnswerKnown(r)
      BY <1>2, <1>3, <2>1 DEF TakeLock, AnswerKnown, Answer
    <2>2. ASSUME NEW n \in Namespaces, ~ (n = "key" /\ Known(r) # {}),
                 held' = held \cup {<<r, n>>}
          PROVE  KeyInv' /\ OneAccountPerKey'
      BY <1>1, <1>3, <2>2 DEF TakeLock
    <2> QED
      BY <1>3, <2>1, <2>2 DEF TakeLock
  <1>4. ASSUME NEW r \in Requests, Commit(r) PROVE KeyInv' /\ OneAccountPerKey'
    <2>1. <<r, "key">> \in held
      BY <1>4 DEF Commit, PlaceInv, Inside, Missing, Needs
    <2>2. \A q \in Requests : <<q, "key">> \in held' =>
            <<q, "key">> \in held /\ q # r /\ want[q].key # want[r].key
      BY <1>4, <2>1 DEF Commit, HeldInv, LockId
    <2>3. Known(r) = {}
      BY <2>1
    <2>4. KeyInv'
      BY <1>1, <1>4, <2>2 DEF Commit
    <2> QED
      BY <1>1, <1>4, <2>3, <2>4 DEF Commit
  <1>5. \/ accounts' = accounts /\ held' \subseteq held
        \/ \E r \in Requests : TakeLock(r) \/ Commit(r)
    BY DEF Next, Progress, vars, Start, AnswerKnown, Answer, Locked, LockTimeout,
           CountPhone, CountEmail,
           InsertUsername, InsertEmail, StoreRecord, Respond, Abort, Done
  <1> QED
    BY <1>2, <1>3, <1>4, <1>5

(* Those who share a pool and a contact have the same count and limit.       *)
LEMMA CountsShared ==
  ASSUME NEW q \in Requests, NEW r \in Requests
  PROVE  /\ SamePool(q, r) => Limit(q) = Limit(r)
         /\ SamePool(q, r) /\ want[q].phone = want[r].phone
              => PhoneCount(q) = PhoneCount(r)
         /\ want[q].type = want[r].type /\ want[q].email = want[r].email
              => EmailCount(q) = EmailCount(r)
  <1>1. SamePool(q, r) => Limit(q) = Limit(r)
    BY DEF SamePool, Limit
  <1>2. ASSUME SamePool(q, r), want[q].phone = want[r].phone
        PROVE  PhoneCount(q) = PhoneCount(r)
    <2>1. {s \in accounts : SamePool(q, s) /\ want[s].phone = want[q].phone}
            = {s \in accounts : SamePool(r, s) /\ want[s].phone = want[r].phone}
      BY <1>2 DEF SamePool
    <2> QED
      BY <2>1 DEF PhoneCount
  <1>3. ASSUME want[q].type = want[r].type, want[q].email = want[r].email
        PROVE  EmailCount(q) = EmailCount(r)
    BY <1>3 DEF EmailCount
  <1> QED
    BY <1>1, <1>2, <1>3

(* A count is made with the locks of its contacts held, so nobody else       *)
(* commits an account that it would have counted.                            *)
LEMMA CountStep ==
  TypeOK /\ HeldInv /\ PlaceInv /\ CountInv /\ [Next]_vars => CountInv'
  <1> SUFFICES ASSUME TypeOK, HeldInv, PlaceInv, CountInv, [Next]_vars PROVE CountInv'
    OBVIOUS
  <1> USE DEF PhoneCounted, EmailCounted
  <1>1. want' = want /\ accounts \subseteq Requests
    BY WhoCommits DEF TypeOK
  <1>2. ASSUME accounts' = accounts
        PROVE  \A r \in Requests : /\ PhoneCount(r)' = PhoneCount(r)
                                   /\ EmailCount(r)' = EmailCount(r)
                                   /\ Limit(r)' = Limit(r)
    BY <1>1, <1>2 DEF PhoneCount, EmailCount, Limit, SamePool, IsStudent
  <1>3. \A r \in Requests : IsStudent(r)' = IsStudent(r)
    BY <1>1 DEF IsStudent
  <1>4. ASSUME accounts' = accounts,
               \A r \in Requests :
                 /\ pc'[r] \in PhoneCounted =>
                      \/ pc[r] \in PhoneCounted
                      \/ PhoneCount(r) < Limit(r)
                 /\ pc'[r] \in EmailCounted =>
                      \/ pc[r] \in EmailCounted
                      \/ EmailCount(r) < Limit(r)
        PROVE  CountInv'
    BY <1>1, <1>2, <1>3, <1>4 DEF CountInv
  <1>5. ASSUME NEW r \in Requests, CountPhone(r) PROVE CountInv'
    <2>1. accounts' = accounts /\ PhoneCount(r) \in Nat /\ Limit(r) \in Nat
      BY <1>5, CountsFinite DEF CountPhone
    <2>2. CASE Answer(r, "phone_full")
      BY <1>4, <2>1, <2>2 DEF Answer, Goto, TypeOK
    <2>3. CASE ~ (PhoneCount(r) >= Limit(r)) /\ Goto(r, "count_email")
      BY <1>4, <2>1, <2>3 DEF Goto, TypeOK
    <2> QED
      BY <1>5, <2>2, <2>3 DEF CountPhone
  <1>6. ASSUME NEW r \in Requests, CountEmail(r) PROVE CountInv'
    <2>1. accounts' = accounts /\ EmailCount(r) \in Nat /\ Limit(r) \in Nat
      BY <1>6, CountsFinite DEF CountEmail
    <2>2. CASE Answer(r, "email_full")
      BY <1>4, <2>1, <2>2 DEF Answer, Goto, TypeOK
    <2>3. CASE ~ (EmailCount(r) >= Limit(r)) /\ Goto(r, "insert")
      BY <1>4, <1>6, <2>1, <2>3 DEF CountEmail, Goto, TypeOK
    <2> QED
      BY <1>6, <2>2, <2>3 DEF CountEmail
  <1>7. ASSUME NEW r \in Requests, Commit(r) PROVE CountInv'
    <2>1. accounts' = accounts \cup {r} /\ pc[r] = "stored"
          /\ \A q \in Requests : pc'[q] = IF q = r THEN "respond" ELSE pc[q]
      BY <1>7 DEF Commit, Goto, TypeOK
    <2>2. /\ PhoneCount(r) < Limit(r)
          /\ IsStudent(r) => EmailCount(r) < Limit(r)
      BY <2>1 DEF CountInv
    <2>3. ASSUME NEW q \in Requests
          PROVE  /\ PhoneCount(q)' <= PhoneCount(q) + 1
                 /\ ~ (SamePool(q, r) /\ want[r].phone = want[q].phone)
                      => PhoneCount(q)' = PhoneCount(q)
                 /\ EmailCount(q)' <= EmailCount(q) + 1
                 /\ ~ (want[r].type = want[q].type /\ want[r].email = want[q].email)
                      => EmailCount(q)' = EmailCount(q)
                 /\ Limit(q)' = Limit(q)
                 /\ PhoneCount(q) \in Nat /\ EmailCount(q) \in Nat
                 /\ PhoneCount(q)' \in Nat /\ EmailCount(q)' \in Nat
                 /\ Limit(q) \in Nat
      <3>1. \A S \in SUBSET accounts' : Cardinality(S) \in Nat
        <4>1. accounts' \in SUBSET Requests
          BY <1>1, <2>1
        <4> QED
          BY <4>1, FS_Subset, FS_CardinalityType
      <3>2. PhoneCount(q)' \in Nat /\ EmailCount(q)' \in Nat
        BY <3>1 DEF PhoneCount, EmailCount
      <3> QED
        BY <1>1, <2>1, <3>2, CountGrows, CountsFinite
    <2>4. ASSUME NEW q \in Requests, q # r, pc[q] \in Inside
          PROVE  /\ PhoneCount(q)' = PhoneCount(q)
                 /\ IsStudent(q) => EmailCount(q)' = EmailCount(q)
      <3>1. /\ want[q].phone # want[r].phone
            /\ IsStudent(q) /\ IsStudent(r) => want[q].email # want[r].email
        BY <2>1, <2>4, LocksExclude DEF Inside
      <3> QED
        BY <2>3, <3>1 DEF IsStudent
    <2>5. ASSUME NEW q \in accounts \cup {r}
          PROVE  /\ PhoneCount(q)' <= Limit(q)'
                 /\ IsStudent(q) => EmailCount(q)' <= Limit(q)'
      <3>1. q \in Requests
        BY <1>1
      <3>2. \/ PhoneCount(q)' = PhoneCount(q) /\ q \in accounts
            \/ PhoneCount(q) = PhoneCount(r) /\ Limit(q) = Limit(r)
        BY <2>3, <3>1, CountsShared
      <3>3. \/ EmailCount(q)' = EmailCount(q) /\ q \in accounts
            \/ EmailCount(q) = EmailCount(r) /\ Limit(q) = Limit(r)
               /\ (IsStudent(q) <=> IsStudent(r))
        <4>1. want[q].type = want[r].type => SamePool(q, r)
          BY DEF SamePool, IsStudent
        <4> QED
          BY <2>3, <3>1, <4>1, CountsShared DEF SamePool
      <3>4. q \in accounts => /\ PhoneCount(q) <= Limit(q)
                              /\ IsStudent(q) => EmailCount(q) <= Limit(q)
        BY DEF CountInv
      <3> QED
        BY <2>2, <2>3, <3>1, <3>2, <3>3, <3>4
    <2>6. \A q \in Requests :
            pc'[q] \in PhoneCounted =>
              /\ PhoneCount(q)' < Limit(q)'
              /\ pc'[q] \in EmailCounted /\ IsStudent(q) =>
                   EmailCount(q)' < Limit(q)'
      BY <2>1, <2>3, <2>4 DEF CountInv, Inside
    <2> QED
      BY <1>3, <1>1, <2>1, <2>5, <2>6 DEF CountInv
  <1>8. ASSUME NEW r \in Requests,
               \/ Start(r) \/ TakeLock(r) \/ Locked(r) \/ LockTimeout(r)
               \/ InsertUsername(r) \/ InsertEmail(r) \/ StoreRecord(r)
               \/ Respond(r) \/ Abort(r)
        PROVE  CountInv'
    <2>1. accounts' = accounts
          /\ \A q \in Requests :
               /\ pc'[q] \in PhoneCounted => pc[q] \in PhoneCounted
               /\ pc'[q] \in EmailCounted => pc[q] \in EmailCounted
      BY <1>8 DEF Start, TakeLock, AnswerKnown, Locked, LockTimeout,
                  InsertUsername, InsertEmail, StoreRecord, Respond, Abort, Answer,
                  Goto, TypeOK
    <2> QED
      BY <1>4, <2>1
  <1>9. CASE Done \/ UNCHANGED vars
    BY <1>4, <1>9 DEF Done, vars
  <1> QED
    BY <1>5, <1>6, <1>7, <1>8, <1>9 DEF Next, Progress

(* The unique indexes admit an entry only if neither a committed account nor *)
(* an entry to come clashes with it.                                         *)
LEMMA IndexStep == TypeOK /\ IndexInv /\ [Next]_vars => IndexInv'
  <1> SUFFICES ASSUME TypeOK, IndexInv, [Next]_vars PROVE IndexInv'
    OBVIOUS
  <1> USE DEF WithUsername, WithEmail
  <1>1. want' = want
    BY WhoCommits
  <1>2. /\ \A r, s \in Requests : SameUsername(r, s)' <=> SameUsername(r, s)
        /\ \A r, s \in Requests : SameIndexedEmail(r, s)' <=> SameIndexedEmail(r, s)
    BY <1>1 DEF SameUsername, SameIndexedEmail, IsStudent
  <1>3. Usernames \subseteq Requests /\ Emails \subseteq Requests
    BY DEF Usernames, Emails, TypeOK
  <1>4. CASE Usernames' \subseteq Usernames /\ Emails' \subseteq Emails
    BY <1>2, <1>3, <1>4 DEF IndexInv
  <1>5. ASSUME NEW r \in Requests, InsertUsername(r), Goto(r, "indexed")
        PROVE  IndexInv'
    <2>1. \A s \in accounts : ~ SameUsername(r, s)
      BY <1>5 DEF InsertUsername, Answer, Goto, TypeOK
    <2>2. Usernames' = Usernames \cup {r} /\ Emails' = Emails
      BY <1>5 DEF InsertUsername, Goto, Usernames, Emails, TypeOK
    <2>3. \A s \in Usernames : s # r => ~ SameUsername(r, s) /\ ~ SameUsername(s, r)
      BY <1>5, <2>1 DEF InsertUsername, UsernameWaits, Usernames, SameUsername
    <2> QED
      BY <1>2, <1>3, <2>2, <2>3 DEF IndexInv
  <1>6. ASSUME NEW r \in Requests, InsertEmail(r), Goto(r, "inserted")
        PROVE  IndexInv'
    <2>1. \A s \in accounts : ~ SameIndexedEmail(r, s)
      BY <1>6 DEF InsertEmail, Answer, Goto, TypeOK
    <2>2. Usernames' = Usernames /\ Emails' = Emails \cup {r}
      BY <1>6 DEF InsertEmail, Goto, Usernames, Emails, TypeOK
    <2>3. \A s \in Emails : s # r =>
            ~ SameIndexedEmail(r, s) /\ ~ SameIndexedEmail(s, r)
      BY <1>6, <2>1 DEF InsertEmail, EmailWaits, Emails, SameIndexedEmail
    <2> QED
      BY <1>2, <1>3, <2>2, <2>3 DEF IndexInv
  <1>7. ASSUME NEW r \in Requests,
               \/ Commit(r) \/ StoreRecord(r)
               \/ InsertUsername(r) /\ ~ Goto(r, "indexed")
               \/ InsertEmail(r) /\ ~ Goto(r, "inserted")
        PROVE  IndexInv'
    <2>1. Usernames' \subseteq Usernames /\ Emails' \subseteq Emails
      BY <1>7 DEF Commit, StoreRecord, InsertUsername, InsertEmail, Answer, Goto,
                  Usernames, Emails, TypeOK
    <2> QED
      BY <1>4, <2>1
  <1>8. \/ Usernames' \subseteq Usernames /\ Emails' \subseteq Emails
        \/ \E r \in Requests :
             Commit(r) \/ StoreRecord(r) \/ InsertUsername(r) \/ InsertEmail(r)
    BY DEF Next, Progress, vars, Start, AnswerKnown, Answer, Goto, TakeLock, Locked,
           LockTimeout, CountPhone, CountEmail, Respond, Abort, Done, Usernames,
           Emails, TypeOK
  <1> QED
    BY <1>4, <1>5, <1>6, <1>7, <1>8

(* The parts together are inductive. *)
LEMMA Invariance == Spec => []IInv
  <1>1. IInv /\ [Next]_vars => IInv'
    BY TypeStep, HeldStep, PlaceStep, KeyStep, CountStep, IndexStep DEF IInv
  <1> QED
    BY InitIInv, <1>1, PTL DEF Spec

----------------------------------------------------------------------------
(* Results. *)

(* Every reachable state is type correct, and an advisory lock belongs to an *)
(* open transaction.                                                         *)
THEOREM TypeCorrect == Spec => []TypeOK
  <1>1. IInv => TypeOK
    BY DEF IInv
  <1> QED
    BY Invariance, <1>1, PTL

(* No idempotency key registers two accounts. *)
THEOREM OnePerKey == Spec => []OneAccountPerKey
  <1>1. IInv => OneAccountPerKey
    BY DEF IInv
  <1> QED
    BY Invariance, <1>1, PTL

(* The accounts of a pool with the email of a request. *)
EmailPool(r) == {s \in accounts : SamePool(r, s) /\ want[s].email = want[r].email}

(* Students' emails are counted by account type, which is their pool; among  *)
(* the others the index leaves room for one.                                 *)
LEMMA EmailPoolCount ==
  ASSUME IInv, NEW r \in Requests
  PROVE  /\ IsFiniteSet(EmailPool(r)) /\ Cardinality(EmailPool(r)) \in Nat
         /\ IsStudent(r) => Cardinality(EmailPool(r)) = EmailCount(r)
         /\ EmailCount(r) <= Cardinality(EmailPool(r))
         /\ r \in accounts /\ ~ IsStudent(r) => Cardinality(EmailPool(r)) <= 1
  <1> DEFINE M == {s \in accounts : want[s].type = want[r].type
                                    /\ want[s].email = want[r].email}
  <1>1. /\ IsFiniteSet(EmailPool(r)) /\ Cardinality(EmailPool(r)) \in Nat
        /\ Cardinality(M) <= Cardinality(EmailPool(r))
    <2>1. IsFiniteSet(EmailPool(r))
      BY CountsFinite, FS_Subset DEF IInv, EmailPool
    <2>2. M \in SUBSET EmailPool(r)
      BY DEF EmailPool, SamePool, IsStudent
    <2> QED
      BY <2>1, <2>2, FS_Subset, FS_CardinalityType
  <1>2. EmailCount(r) = Cardinality(M)
    BY DEF EmailCount
  <1>3. IsStudent(r) => M = EmailPool(r)
    BY DEF EmailPool, SamePool, IsStudent
  <1>4. ASSUME r \in accounts, ~ IsStudent(r) PROVE Cardinality(EmailPool(r)) <= 1
    <2>1. EmailPool(r) \in SUBSET {r}
      BY <1>4 DEF EmailPool, SamePool, IInv, IndexInv, Emails, SameIndexedEmail
    <2>2. IsFiniteSet({r}) /\ Cardinality({r}) = 1
      BY FS_Singleton
    <2> QED
      BY <2>1, <2>2, FS_Subset
  <1> QED
    BY <1>1, <1>2, <1>3, <1>4

(* No contact is shared by more accounts of a pool than its limit, however   *)
(* registrations overlap.                                                    *)
THEOREM LimitsHold == Spec => []ContactLimits
  <1>1. IInv => ContactLimits
    <2> SUFFICES ASSUME IInv, NEW r \in accounts
                 PROVE  PhoneCount(r) <= Limit(r) /\ Cardinality(EmailPool(r)) <= Limit(r)
      BY DEF ContactLimits, EmailPool
    <2>1. r \in Requests
      BY DEF IInv, TypeOK
    <2>2. PhoneCount(r) <= Limit(r) /\ (IsStudent(r) => EmailCount(r) <= Limit(r))
      BY DEF IInv, CountInv
    <2> QED
      BY <2>1, <2>2, EmailPoolCount DEF Limit
  <1> QED
    BY Invariance, <1>1, PTL

----------------------------------------------------------------------------
(* Nobody waits in a circle. *)

(* The transaction of r waits for that of s: for an advisory lock, or for an *)
(* entry of a unique index that has not been committed.                      *)
WaitsForLock(r, n, s) ==
  /\ pc[r] = "locks" /\ NextLock(r, n)
  /\ r # s /\ <<s, n>> \in held /\ LockId(s, n) = LockId(r, n)

WaitsForEntry(r, s) ==
  /\ r # s
  /\ \/ pc[r] = "insert"   /\ pc[s] \in WithUsername /\ SameUsername(r, s)
     \/ pc[r] = "indexed"  /\ pc[s] \in WithEmail    /\ SameIndexedEmail(r, s)
     \/ pc[r] = "inserted" /\ pc[s] = "stored" /\ want[s].key = want[r].key

WaitsFor(r, s) ==
  WaitsForEntry(r, s) \/ \E n \in Namespaces : WaitsForLock(r, n, s)

(* How far a transaction has come in the order of the locks, key, phone,     *)
(* email, and then of the entries, username, email, record.                  *)
Place(r) ==
  IF pc[r] = "stored" THEN 7
  ELSE IF pc[r] = "inserted" THEN 6
  ELSE IF pc[r] = "indexed" THEN 5
  ELSE IF pc[r] = "insert" THEN 4
  ELSE IF <<r, "email">> \in held THEN 3
  ELSE IF <<r, "phone">> \in held THEN 2
  ELSE IF <<r, "key">> \in held THEN 1
  ELSE 0

NoCircle == \A r, s \in Requests : WaitsFor(r, s) => Place(r) < Place(s)

(* A request that may not take its next lock or entry waits for somebody.    *)
LEMMA WaitsAreGuards ==
  ASSUME TypeOK, NEW r \in Requests
  PROVE  /\ \A n \in Namespaces :
              pc[r] = "locks" /\ NextLock(r, n) =>
                (LockFree(r, n) <=> ~ \E s \in Requests : WaitsForLock(r, n, s))
         /\ LET waiting == \E s \in Requests : WaitsForEntry(r, s)
            IN  /\ pc[r] = "insert"   => (UsernameWaits(r) <=> waiting)
                /\ pc[r] = "indexed"  => (EmailWaits(r) <=> waiting)
                /\ pc[r] = "inserted" => (RecordWaits(r) <=> waiting)
  <1>1. ASSUME NEW n \in Namespaces, pc[r] = "locks", NextLock(r, n)
        PROVE  LockFree(r, n) <=> ~ \E s \in Requests : WaitsForLock(r, n, s)
    <2>1. ASSUME ~ LockFree(r, n)
          PROVE  \E s \in Requests : WaitsForLock(r, n, s)
      <3>1. PICK h \in held : h[2] = n /\ LockId(h[1], n) = LockId(r, n) /\ h[1] # r
        BY <2>1 DEF LockFree
      <3>2. h = <<h[1], n>> /\ h[1] \in Requests
        BY <3>1 DEF TypeOK
      <3> QED
        BY <1>1, <3>1, <3>2 DEF WaitsForLock
    <2>2. ASSUME NEW s \in Requests, WaitsForLock(r, n, s)
          PROVE  ~ LockFree(r, n)
      BY <2>2 DEF WaitsForLock, LockFree
    <2> QED
      BY <2>1, <2>2
  <1>2. /\ pc[r] = "insert" =>
             (UsernameWaits(r) <=> \E s \in Requests : WaitsForEntry(r, s))
        /\ pc[r] = "indexed" =>
             (EmailWaits(r) <=> \E s \in Requests : WaitsForEntry(r, s))
        /\ pc[r] = "inserted" =>
             (RecordWaits(r) <=> \E s \in Requests : WaitsForEntry(r, s))
    BY DEF UsernameWaits, EmailWaits, RecordWaits, WaitsForEntry, WithUsername,
           WithEmail
  <1> QED
    BY <1>1, <1>2

(* A later lock is held with all of the earlier ones. *)
OrderInv ==
  \A r \in Requests :
    /\ <<r, "phone">> \in held => <<r, "key">> \in held
    /\ <<r, "email">> \in held => <<r, "phone">> \in held

LEMMA OrderStep == TypeOK /\ OrderInv /\ [Next]_vars => OrderInv'
  <1> SUFFICES ASSUME TypeOK, OrderInv, [Next]_vars PROVE OrderInv'
    OBVIOUS
  <1>1. ASSUME NEW r \in Requests, held' = {h \in held : h[1] # r}
        PROVE  OrderInv'
    BY <1>1 DEF OrderInv
  <1>2. CASE UNCHANGED held
    BY <1>2 DEF OrderInv
  <1>3. ASSUME NEW r \in Requests, TakeLock(r), ~ UNCHANGED held
        PROVE  OrderInv'
    <2>1. PICK n \in Namespaces :
            NextLock(r, n)
            /\ (held' = {h \in held : h[1] # r} \/ held' = held \cup {<<r, n>>})
      BY <1>3 DEF TakeLock, AnswerKnown, Answer
    <2>2. CASE held' = held \cup {<<r, n>>}
      <3>1. n = "phone" => <<r, "key">> \in held
        BY <2>1 DEF NextLock, Missing, Needs
      <3>2. n = "email" => <<r, "phone">> \in held
        BY <2>1 DEF NextLock, Missing, Needs
      <3> QED
        BY <2>2, <3>1, <3>2 DEF OrderInv, Namespaces
    <2> QED
      BY <1>1, <2>1, <2>2
  <1>4. ASSUME NEW r \in Requests,
               Start(r) \/ Progress(r) \/ LockTimeout(r) \/ Abort(r)
        PROVE  OrderInv'
    <2>1. \/ TakeLock(r) \/ UNCHANGED held \/ held' = {h \in held : h[1] # r}
      BY <1>4 DEF Start, Progress, LockTimeout, Abort, AnswerKnown, Answer, Locked,
         CountPhone, CountEmail,
           InsertUsername, InsertEmail, StoreRecord, Commit, Respond
    <2> QED
      BY <1>1, <1>2, <1>3, <2>1
  <1>5. CASE Done \/ UNCHANGED vars
    BY <1>2, <1>5 DEF Done, vars
  <1> QED
    BY <1>4, <1>5 DEF Next

LEMMA WaitsForLater ==
  ASSUME OrderInv, NEW r \in Requests, NEW s \in Requests,
         WaitsFor(r, s)
  PROVE  Place(r) < Place(s)
  <1>1. CASE WaitsForEntry(r, s)
    BY <1>1 DEF WaitsForEntry, WithUsername, WithEmail, Place
  <1>2. ASSUME NEW n \in Namespaces, WaitsForLock(r, n, s)
        PROVE  Place(r) < Place(s)
    <2> DEFINE Rank == IF n = "email" THEN 3 ELSE IF n = "phone" THEN 2 ELSE 1
    <2>1. Place(s) >= Rank
      BY <1>2 DEF WaitsForLock, Place, Namespaces
    <2>2. pc[r] = "locks" /\ NextLock(r, n) /\ <<r, n>> \notin held
      BY <1>2 DEF WaitsForLock, NextLock, Missing
    <2>3. n = "key" => <<r, "phone">> \notin held /\ <<r, "email">> \notin held
      BY <2>2 DEF OrderInv
    <2>4. n = "phone" => <<r, "email">> \notin held
      BY <2>2 DEF OrderInv
    <2>5. Place(r) < Rank
      BY <2>2, <2>3, <2>4 DEF Place, Namespaces
    <2>6. Place(r) \in Nat /\ Place(s) \in Nat /\ Rank \in Nat
      BY DEF Place
    <2> QED
      BY <2>1, <2>5, <2>6
  <1> QED
    BY <1>1, <1>2 DEF WaitsFor

(* However many registrations overlap, and whatever lock ids collide, they   *)
(* never wait for each other in a circle: whom one waits for is further on   *)
(* in the order of the locks and then of the entries, which is that of       *)
(* acquire_idempotency_lock, acquire_contact_locks, register_user and        *)
(* store_idempotency_record.                                                 *)
THEOREM LocksNeverCircle == Spec => []NoCircle
  <1>1. Init => OrderInv
    BY DEF Init, OrderInv
  <1>2. IInv => TypeOK
    BY DEF IInv
  <1>3. IInv /\ OrderInv => NoCircle
    BY WaitsForLater DEF NoCircle, IInv
  <1>4. TypeOK /\ OrderInv /\ [Next]_vars => OrderInv'
    BY OrderStep
  <1> QED
    BY Invariance, <1>1, <1>2, <1>3, <1>4, PTL DEF Spec

----------------------------------------------------------------------------
(* Refinement. *)

(* Registry counts as Registration does: its FiniteSets is the same. *)
LEMMA SameCardinality == \A S : Atomic!Cardinality(S) = Cardinality(S)
  BY DEF Cardinality, Atomic!Cardinality

(* What the registry calls full, in the words of Registration. *)
LEMMA SameFull ==
  ASSUME NEW r \in Requests
  PROVE  /\ Atomic!PhoneFull(r) <=> PhoneCount(r) >= Limit(r)
         /\ Atomic!EmailFull(r) <=> Cardinality(EmailPool(r)) >= Limit(r)
  <1> USE DEF Limit, SamePool, IsStudent, Atomic!Limit, Atomic!SamePool, Atomic!IsStudent
  <1>1. Atomic!Limit(r) = Limit(r)
    OBVIOUS
  <1>2. {s \in accounts : Atomic!SamePool(r, s) /\ want[s].phone = want[r].phone}
          = {s \in accounts : SamePool(r, s) /\ want[s].phone = want[r].phone}
    OBVIOUS
  <1>3. {s \in accounts : Atomic!SamePool(r, s) /\ want[s].email = want[r].email}
          = EmailPool(r)
    BY DEF EmailPool
  <1> QED
    BY <1>1, <1>2, <1>3, SameCardinality DEF PhoneCount, Atomic!PhoneFull, Atomic!EmailFull

(* An answer that is a refusal or a confirmation of Registry.                *)
LEMMA AnswerSimulation ==
  ASSUME IInv, NEW r \in Requests, NEW how, pc[r] # "ended", Answer(r, how),
         UNCHANGED <<want, accounts>>,
         \/ how = "phone_full" /\ Atomic!PhoneFull(r)
         \/ how = "email_full" /\ Atomic!EmailFull(r)
         \/ how = "username_taken" /\ Atomic!UsernameTaken(r)
         \/ how = "mismatch" /\ Atomic!KeyUsed(r)
         \/ how \in {"in_progress", "error"}
         \/ how = "created" /\ r \in accounts
         \/ how = "replayed" /\ \E s \in accounts : want[s] = want[r]
  PROVE  Atomic!Next
  <1>1. Atomic!Answer(r, how)
    BY DEF Atomic!Answer, Answer, IInv, PlaceInv
  <1>2. Atomic!Refuse(r) \/ Atomic!Confirm(r) \/ Atomic!Replay(r)
    BY <1>1 DEF Atomic!Refuse, Atomic!Confirm, Atomic!Replay
  <1> QED
    BY <1>2 DEF Atomic!Next

(* A stored result is one of an equal request, or its key is used.           *)
LEMMA KnownSimulation ==
  ASSUME IInv, NEW r \in Requests, pc[r] # "ended", AnswerKnown(r),
         UNCHANGED <<want, accounts>>
  PROVE  Atomic!Next
  BY AnswerSimulation DEF AnswerKnown, Known, Atomic!KeyUsed

(* Every step is one of the registry, or none at all.                        *)
LEMMA StepSimulation == IInv /\ [Next]_vars => [Atomic!Next]_(Atomic!vars)
  <1> SUFFICES ASSUME IInv, [Next]_vars PROVE Atomic!Next \/ UNCHANGED Atomic!vars
    OBVIOUS
  <1>1. CASE UNCHANGED <<want, accounts, outcome>>
    BY <1>1 DEF Atomic!vars
  <1>2. ASSUME NEW r \in Requests, Start(r) PROVE Atomic!Next \/ UNCHANGED Atomic!vars
    BY <1>1, <1>2, KnownSimulation DEF Start
  <1>3. ASSUME NEW r \in Requests, TakeLock(r) PROVE Atomic!Next \/ UNCHANGED Atomic!vars
    BY <1>1, <1>3, KnownSimulation DEF TakeLock
  <1>4. ASSUME NEW r \in Requests, Locked(r) PROVE Atomic!Next \/ UNCHANGED Atomic!vars
    BY <1>1, <1>4 DEF Locked
  <1>5. ASSUME NEW r \in Requests, LockTimeout(r) \/ Abort(r) \/ Respond(r)
        PROVE  Atomic!Next \/ UNCHANGED Atomic!vars
    BY <1>5, AnswerSimulation DEF LockTimeout, Abort, Respond, IInv, PlaceInv
  <1>6. ASSUME NEW r \in Requests, CountPhone(r) PROVE Atomic!Next \/ UNCHANGED Atomic!vars
    BY <1>1, <1>6, SameFull, AnswerSimulation DEF CountPhone
  <1>7. ASSUME NEW r \in Requests, CountEmail(r) PROVE Atomic!Next \/ UNCHANGED Atomic!vars
    <2>1. EmailCount(r) >= Limit(r) => Atomic!EmailFull(r)
      BY SameFull, EmailPoolCount, CountsFinite DEF IInv
    <2> QED
      BY <1>1, <1>7, <2>1, AnswerSimulation DEF CountEmail
  <1>8. ASSUME NEW r \in Requests, InsertUsername(r)
        PROVE  Atomic!Next \/ UNCHANGED Atomic!vars
    <2>1. (\E s \in accounts : SameUsername(r, s)) => Atomic!UsernameTaken(r)
      BY DEF SameUsername, Atomic!UsernameTaken
    <2> QED
      BY <1>1, <1>8, <2>1, AnswerSimulation DEF InsertUsername
  <1>8b. ASSUME NEW r \in Requests, InsertEmail(r)
         PROVE  Atomic!Next \/ UNCHANGED Atomic!vars
    <2>1. (\E s \in accounts : SameIndexedEmail(r, s)) => Atomic!EmailFull(r)
      <3>1. (\E s \in accounts : SameIndexedEmail(r, s)) =>
              EmailPool(r) # {} /\ Limit(r) = 1
        BY DEF SameIndexedEmail, EmailPool, SamePool, Limit
      <3>2. EmailPool(r) # {} => Cardinality(EmailPool(r)) >= 1
        BY EmailPoolCount, FS_EmptySet
      <3> QED
        BY SameFull, <3>1, <3>2
    <2> QED
      BY <1>1, <1>8b, <2>1, AnswerSimulation DEF InsertEmail
  <1>8c. ASSUME NEW r \in Requests, StoreRecord(r)
         PROVE  Atomic!Next \/ UNCHANGED Atomic!vars
    <2>1. Known(r) = {}
      BY <1>8c DEF StoreRecord, IInv, PlaceInv, Inside, Missing, Needs, KeyInv
    <2> QED
      BY <1>1, <1>8c, <2>1 DEF StoreRecord
  <1>9. ASSUME NEW r \in Requests, Commit(r) PROVE Atomic!Next \/ UNCHANGED Atomic!vars
    <2>1. pc[r] = "stored" /\ r \in Usernames /\ r \in Emails
      BY <1>9 DEF Commit, Usernames, Emails, WithUsername, WithEmail
    <2>2. r \notin accounts
      BY <2>1 DEF IInv, PlaceInv
    <2>3. ~ Atomic!PhoneFull(r)
      <3>1. PhoneCount(r) < Limit(r) /\ PhoneCount(r) \in Nat /\ Limit(r) \in Nat
        BY <2>1, CountsFinite DEF IInv, CountInv, PhoneCounted
      <3> QED
        BY SameFull, <3>1
    <2>4. \A s \in accounts : ~ SameUsername(r, s) /\ ~ SameIndexedEmail(r, s)
      BY <2>1, <2>2 DEF IInv, IndexInv, Usernames, Emails
    <2>5. ~ Atomic!EmailFull(r)
      <3>1. Limit(r) \in Nat \ {0}
        BY CountsFinite DEF IInv
      <3>2. CASE IsStudent(r)
        BY SameFull, <2>1, <3>1, <3>2, EmailPoolCount
           DEF IInv, CountInv, EmailCounted
      <3>3. CASE ~ IsStudent(r)
        <4>1. EmailPool(r) = {}
          BY <2>4, <3>3 DEF EmailPool, SamePool, SameIndexedEmail
        <4> QED
          BY SameFull, <3>1, <4>1, FS_EmptySet
      <3> QED
        BY <3>2, <3>3
    <2>6. ~ Atomic!UsernameTaken(r)
      BY <2>4 DEF SameUsername, Atomic!UsernameTaken
    <2>7. \A s \in accounts : want[s].key # want[r].key
      <3>1. Known(r) = {}
        BY <2>1 DEF IInv, PlaceInv, Inside, Missing, Needs, KeyInv
      <3> QED
        BY <3>1 DEF Known
    <2>8. Atomic!Register(r)
      BY <1>9, <2>3, <2>5, <2>6, <2>7 DEF Commit, Atomic!Register
    <2> QED
      BY <2>8 DEF Atomic!Next
  <1>10. CASE Done \/ UNCHANGED vars
    BY <1>1, <1>10 DEF Done, vars
  <1> QED
    BY <1>2, <1>3, <1>4, <1>5, <1>6, <1>7, <1>8, <1>8b, <1>8c, <1>9, <1>10
       DEF Next, Progress

(* Whatever its requests, the code registers them as if each took one step   *)
(* within the limits, or was refused for a reason that holds.                *)
THEOREM Implements == Spec => ImplementsRegistry
  <1>1. Init => Atomic!Init
    BY DEF Init, Atomic!Init
  <1> QED
    BY <1>1, Invariance, StepSimulation, PTL DEF Spec, ImplementsRegistry, Atomic!Spec
=============================================================================
