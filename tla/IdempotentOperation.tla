------------------------ MODULE IdempotentOperation ------------------------
(***************************************************************************)
(* What a client may rely on when it repeats a request under one            *)
(* Idempotency-Key (the description of IDEMPOTENCY_KEY_HEADER and the        *)
(* docstrings of acquire_idempotency_lock and RegisterUserUseCase.execute):  *)
(* an operation takes effect in one step, a second time only after the       *)
(* window of the first has passed, every result a client is shown is that of *)
(* an operation which took effect for its own key and payload, and nobody is *)
(* told to wait who has not met another attempt at work on the key.          *)
(* No cache, no transaction and no record appears here.                      *)
(***************************************************************************)
EXTENDS Naturals

CONSTANTS
  Attempts, Keys, Hashes, TTL,
  Class         \* keys of one class may be taken for one another

VARIABLES
  now,
  key, hash,    \* what each attempt asks for
  effects,      \* the operations that took effect, each with its window's end
  working,      \* the attempts at work, one of a class at a time
  met,          \* those that have met another at work
  outcome,      \* how each attempt was answered
  reply         \* whose result the answer carries

vars == <<now, key, hash, effects, working, met, outcome, reply>>

Init ==
  /\ now = 0
  /\ key \in [Attempts -> Keys]
  /\ hash \in [Attempts -> Hashes]
  /\ effects = {} /\ working = {} /\ met = {}
  /\ outcome = [r \in Attempts |-> "none"]
  /\ reply = [r \in Attempts |-> r]

Others(r) == {s \in working \ {r} : Class[key[s]] = Class[key[r]]}

(* Work on a key begins when nobody is at work on it, ...                    *)
Begin(r) ==
  /\ outcome[r] = "none"
  /\ Others(r) = {}
  /\ working' = working \cup {r}
  /\ UNCHANGED <<now, key, hash, effects, met, outcome, reply>>

(* ... and who comes meanwhile may take note of it.                          *)
Meet(r) ==
  /\ outcome[r] = "none"
  /\ Others(r) # {}
  /\ met' = met \cup {r}
  /\ UNCHANGED <<now, key, hash, effects, working, outcome, reply>>

(* The operation of r takes effect, once, and outside the window of every    *)
(* earlier one of the same key.                                              *)
Effect(r) ==
  /\ outcome[r] = "none" /\ r \in working
  /\ \A e \in effects : e.resp # r /\ (e.key = key[r] => e.expires <= now)
  /\ \E t \in 0 .. now + TTL :
       effects' = effects \cup
         {[key |-> key[r], hash |-> hash[r], resp |-> r, expires |-> t]}
  /\ working' = working \ {r}
  /\ UNCHANGED <<now, key, hash, met, outcome, reply>>

(* An answer ends the attempt. *)
Leave(r) == working' = working \ {r} /\ met' = met \ {r}

(* The client is shown the result of its own operation, or of an equal one.  *)
ShowResult(r) ==
  /\ outcome[r] = "none"
  /\ \E e \in effects :
       /\ e.key = key[r] /\ e.hash = hash[r]
       /\ outcome' = [outcome EXCEPT ![r] =
                        IF e.resp = r THEN "created" ELSE "replayed"]
       /\ reply' = [reply EXCEPT ![r] = e.resp]
  /\ Leave(r)
  /\ UNCHANGED <<now, key, hash, effects>>

(* The key was used with another payload. *)
RefuseMismatch(r) ==
  /\ outcome[r] = "none"
  /\ \E e \in effects : e.key = key[r] /\ e.hash # hash[r]
  /\ outcome' = [outcome EXCEPT ![r] = "mismatch"]
  /\ Leave(r)
  /\ UNCHANGED <<now, key, hash, effects, reply>>

(* "Already in progress" is only said to who has met another at work. *)
RefuseInProgress(r) ==
  /\ outcome[r] = "none"
  /\ r \in met
  /\ outcome' = [outcome EXCEPT ![r] = "in_progress"]
  /\ Leave(r)
  /\ UNCHANGED <<now, key, hash, effects, reply>>

(* The attempt fails, before its operation took effect or after. *)
Failure(r) ==
  /\ outcome[r] = "none"
  /\ outcome' = [outcome EXCEPT ![r] = "error"]
  /\ Leave(r)
  /\ UNCHANGED <<now, key, hash, effects, reply>>

TimePasses ==
  /\ now' = now + 1
  /\ UNCHANGED <<key, hash, effects, working, met, outcome, reply>>

Next ==
  \/ \E r \in Attempts :
       \/ Begin(r) \/ Meet(r) \/ Effect(r) \/ ShowResult(r) \/ RefuseMismatch(r)
       \/ RefuseInProgress(r) \/ Failure(r)
  \/ TimePasses

Spec == Init /\ [][Next]_vars
=============================================================================
