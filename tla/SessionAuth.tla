---------------------------- MODULE SessionAuth ----------------------------
(***************************************************************************)
(* get_current_user (core/dependencies.py) against the eviction of a session *)
(* by a login (auth/services.py).                                            *)
(*                                                                          *)
(* Whether the token of a session is accepted is decided by an entry in      *)
(* Redis, and without one by the row in PostgreSQL, after which the entry is *)
(* written.  A login that evicts a session commits first and invalidates the *)
(* entry afterwards.  No operation changes access_token_version or the       *)
(* status of an account, and only an active account logs in: an entry says   *)
(* no more than that the session exists.                                     *)
(***************************************************************************)
EXTENDS Naturals, FiniteSets

CONSTANTS
  Sessions,      \* ids of user_sessions, never used again
  Requests,      \* authenticated requests; each is used once
  TokenLife,     \* ACCESS_TOKEN_EXPIRES_MINUTES, of tokens and of entries
  RequestTime,   \* how long after its SELECT a request may still SET the entry
  MaxTime        \* bound on the clock

ASSUME TokenLifeAssumption   == TokenLife \in Nat \ {0}
ASSUME RequestTimeAssumption == RequestTime \in Nat
ASSUME MaxTimeAssumption     == MaxTime \in Nat

VARIABLES
  now,
  row,        \* each session's row: absent, live, or gone for good
  loginAt,    \* when it was added
  goneAt,     \* when its eviction was committed
  purge,      \* how far the invalidation of its entry has come
  cache,      \* the entries in Redis: session, expiry, the request that set it
  pc,         \* where each request is
  of,         \* the session its token names
  readAt,     \* when it read the session's row
  outcome,    \* how it was answered
  late        \* history: requests that began after the purge of their session

vars == <<now, row, loginAt, goneAt, purge, cache, pc, of, readAt, outcome, late>>

sessions == <<row, loginAt, goneAt, purge>>

Entries == [session : Sessions, expires : Nat, by : Requests]

(* Redis has one entry under a key, and the key names a session. *)
TypeOK ==
  /\ now \in Nat
  /\ row \in [Sessions -> {"absent", "live", "gone"}]
  /\ loginAt \in [Sessions -> Nat]
  /\ goneAt \in [Sessions -> Nat]
  /\ purge \in [Sessions -> {"none", "pending", "done", "failed"}]
  /\ cache \subseteq Entries
  /\ \A e, f \in cache : e.session = f.session => e = f
  /\ pc \in [Requests -> {"idle", "cache", "select", "set", "ended"}]
  /\ of \in [Requests -> Sessions]
  /\ readAt \in [Requests -> Nat]
  /\ outcome \in [Requests -> {"none", "accepted", "expired", "revoked", "unavailable"}]
  /\ late \subseteq Requests

Init ==
  /\ now = 0
  /\ row = [s \in Sessions |-> "absent"]
  /\ loginAt = [s \in Sessions |-> 0]
  /\ goneAt = [s \in Sessions |-> 0]
  /\ purge = [s \in Sessions |-> "none"]
  /\ cache = {}
  /\ pc = [r \in Requests |-> "idle"]
  /\ of \in [Requests -> Sessions]
  /\ readAt = [r \in Requests |-> 0]
  /\ outcome = [r \in Requests |-> "none"]
  /\ late = {}

----------------------------------------------------------------------------
(* Logins. *)

Without(s) == {e \in cache : e.session # s}

(* Mutant: the entry is invalidated before the eviction is committed, when   *)
(* the login that evicts has chosen the session.                             *)
BugLogIn(s) ==
  /\ row[s] = "absent"
  /\ loginAt' = [loginAt EXCEPT ![s] = now]
  /\ \/ /\ row' = [row EXCEPT ![s] = "live"]
        /\ UNCHANGED <<goneAt, purge, cache>>
     \/ \E v \in Sessions :
          /\ row[v] = "live" /\ purge[v] = "none"
          /\ purge' = [purge EXCEPT ![v] = "done"]
          /\ cache' = Without(v)
          /\ UNCHANGED <<row, goneAt>>
     \/ \E v \in Sessions :
          /\ row[v] = "live" /\ purge[v] = "done"
          /\ row' = [row EXCEPT ![s] = "live", ![v] = "gone"]
          /\ goneAt' = [goneAt EXCEPT ![v] = now]
          /\ UNCHANGED <<purge, cache>>
  /\ UNCHANGED <<now, pc, of, readAt, outcome, late>>

(* login commits a new session; at the cap, with the eviction of another,    *)
(* whose entry it then still has to invalidate.                              *)
LogIn(s) ==
  /\ row[s] = "absent"
  /\ loginAt' = [loginAt EXCEPT ![s] = now]
  /\ \/ /\ row' = [row EXCEPT ![s] = "live"]
        /\ UNCHANGED <<goneAt, purge>>
     \/ \E v \in Sessions :
          /\ row[v] = "live"
          /\ row' = [row EXCEPT ![s] = "live", ![v] = "gone"]
          /\ goneAt' = [goneAt EXCEPT ![v] = now]
          /\ purge' = [purge EXCEPT ![v] = "pending"]
  /\ UNCHANGED <<now, cache, pc, of, readAt, outcome, late>>

(* delete_cache_critical of the evicted session's entry. *)
Purge(v) ==
  /\ purge[v] = "pending"
  /\ cache' = Without(v)
  /\ purge' = [purge EXCEPT ![v] = "done"]
  /\ UNCHANGED <<now, row, loginAt, goneAt, pc, of, readAt, outcome, late>>

(* RedisError, answered with 503, or a crash: the eviction stands, and the   *)
(* DEL may have taken effect or not.                                         *)
PurgeFails(v) ==
  /\ purge[v] = "pending"
  /\ cache' \in {cache, Without(v)}
  /\ purge' = [purge EXCEPT ![v] = "failed"]
  /\ UNCHANGED <<now, row, loginAt, goneAt, pc, of, readAt, outcome, late>>

----------------------------------------------------------------------------
(* Authenticated requests. *)

Answer(r, how) ==
  /\ pc' = [pc EXCEPT ![r] = "ended"]
  /\ outcome' = [outcome EXCEPT ![r] = how]

(* When a token of the session can have been made: a login from a new device *)
(* or one that uses the session again, while it had not been evicted.        *)
IssuedAt(s) ==
  {t \in loginAt[s] .. now : row[s] = "gone" => t <= goneAt[s]}

(* decode_access_token *)
Begin(r) ==
  /\ pc[r] = "idle"
  /\ row[of[r]] # "absent"
  /\ \E t \in IssuedAt(of[r]) :
       IF now < t + TokenLife
         THEN pc' = [pc EXCEPT ![r] = "cache"] /\ UNCHANGED outcome
         ELSE Answer(r, "expired")
  /\ late' = IF purge[of[r]] = "done" THEN late \cup {r} ELSE late
  /\ UNCHANGED <<now, sessions, cache, of, readAt>>

(* Mutant: every use of an entry renews it. *)
BugHit(r) ==
  /\ pc[r] = "cache"
  /\ \E e \in cache :
       /\ e.session = of[r]
       /\ cache' = (cache \ {e}) \cup {[e EXCEPT !.expires = now + TokenLife]}
  /\ Answer(r, "accepted")
  /\ UNCHANGED <<now, sessions, of, readAt, late>>

(* _read_atv_cache finds the entry: the database is not asked. *)
Hit(r) ==
  /\ pc[r] = "cache"
  /\ \E e \in cache : e.session = of[r]
  /\ Answer(r, "accepted")
  /\ UNCHANGED <<now, sessions, cache, of, readAt, late>>

Miss(r) ==
  /\ pc[r] = "cache"
  /\ \A e \in cache : e.session # of[r]
  /\ pc' = [pc EXCEPT ![r] = "select"]
  /\ UNCHANGED <<now, sessions, cache, of, readAt, outcome, late>>

(* UserSessionRepository.get_by_id and the tests on what it returns. *)
Select(r) ==
  /\ pc[r] = "select"
  /\ IF row[of[r]] = "live"
       THEN /\ pc' = [pc EXCEPT ![r] = "set"]
            /\ readAt' = [readAt EXCEPT ![r] = now]
            /\ UNCHANGED outcome
       ELSE Answer(r, "revoked") /\ UNCHANGED readAt
  /\ UNCHANGED <<now, sessions, cache, of, late>>

(* Mutant: the SET has no EX argument. *)
BugEntryLife == MaxTime + 1

EntryLife == TokenLife

(* Mutant: the key names the token, not the session. *)
BugWithEntry(r) ==
  cache \cup {[session |-> of[r], expires |-> now + EntryLife, by |-> r]}

(* redis.set, applied a while after the row was read. *)
WithEntry(r) ==
  Without(of[r]) \cup {[session |-> of[r], expires |-> now + EntryLife, by |-> r]}

Set(r) ==
  /\ pc[r] = "set"
  /\ now <= readAt[r] + RequestTime
  /\ cache' = WithEntry(r)
  /\ Answer(r, "accepted")
  /\ UNCHANGED <<now, sessions, of, readAt, late>>

(* A RedisError of the GET or of the SET: 503, and the SET may have been     *)
(* applied; a crash or a database error: the same, but for the status code.  *)
Fail(r) ==
  /\ pc[r] \in {"cache", "select", "set"}
  /\ \/ UNCHANGED cache
     \/ /\ pc[r] = "set"
        /\ now <= readAt[r] + RequestTime
        /\ cache' = WithEntry(r)
  /\ Answer(r, "unavailable")
  /\ UNCHANGED <<now, sessions, of, readAt, late>>

----------------------------------------------------------------------------
(* Redis restarts without its data, or evicts an entry. *)
CacheLoss ==
  /\ \E e \in cache : cache' = cache \ {e}
  /\ UNCHANGED <<now, sessions, pc, of, readAt, outcome, late>>

Tick ==
  /\ now < MaxTime
  /\ now' = now + 1
  /\ cache' = {e \in cache : e.expires > now + 1}
  /\ UNCHANGED <<sessions, pc, of, readAt, outcome, late>>

(* The clock has run out; nothing more need happen. *)
Done == now = MaxTime /\ UNCHANGED vars

Next ==
  \/ \E s \in Sessions : LogIn(s) \/ Purge(s) \/ PurgeFails(s)
  \/ \E r \in Requests :
       Begin(r) \/ Hit(r) \/ Miss(r) \/ Select(r) \/ Set(r) \/ Fail(r)
  \/ CacheLoss
  \/ Tick
  \/ Done

Spec == Init /\ [][Next]_vars

----------------------------------------------------------------------------
(* Properties. *)

(* How long cache and database can disagree: the entry of an evicted session *)
(* is gone one TokenLife after the eviction, plus the time of the request     *)
(* that wrote it late.                                                       *)
DisagreementBounded ==
  \A e \in cache :
    row[e.session] = "gone" =>
      e.expires <= goneAt[e.session] + RequestTime + TokenLife

(* "The cached value and the database can disagree for the length of a TTL    *)
(* [...] the worst case is one TTL" (docs/adr/0004): no entry is left of a    *)
(* session evicted one TokenLife ago.                                        *)
DisagreementWithinTTL ==
  \A e \in cache :
    row[e.session] = "gone" => now < goneAt[e.session] + TokenLife

(* A request that begins after a completed invalidation never brings the     *)
(* entry back: only one that had read the row before the eviction can.       *)
NoLateRefill == \A e \in cache : e.by \notin late

(* An accepted token is that of a session which exists, or did within that   *)
(* same time.                                                                *)
AcceptsRecentlyLive ==
  [][\A r \in Requests :
       outcome[r] = "none" /\ outcome'[r] = "accepted" =>
         \/ row[of[r]] = "live"
         \/ /\ row[of[r]] = "gone"
            /\ now < goneAt[of[r]] + RequestTime + TokenLife]_vars
=============================================================================
