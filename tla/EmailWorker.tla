---------------------------- MODULE EmailWorker ----------------------------
(***************************************************************************)
(* The email queue (emails/repository.py) and the worker that drains it      *)
(* (workers/email_worker.py).  Every application process runs one worker; it *)
(* reads a batch of due rows without locking them, sends them one by one     *)
(* from its own copies, and commits after each.  The provider is external:   *)
(* it accepts a message or not, and the worker may not learn which.          *)
(*                                                                          *)
(* One tick is RETRY_DELAY.  scheduled_for is kept as the number of ticks    *)
(* that remain until the row is due, so no absolute clock is needed.         *)
(***************************************************************************)
EXTENDS Naturals, FiniteSets

CONSTANTS
  Emails,          \* row ids, ordered as the query orders them
  Workers,         \* one per running application process
  MaxRetries,      \* emails.max_retries
  BatchSize,       \* EMAIL_WORKER_BATCH_SIZE
  MaxDisruptions,  \* bound on crashes, database errors and lost replies
  MaxAttempts      \* bound on the sends of one email

ASSUME EmailsAssumption      == Emails \subseteq Nat
ASSUME MaxRetriesAssumption  == MaxRetries \in Nat \ {0}
ASSUME BatchSizeAssumption   == BatchSize \in Nat \ {0}
ASSUME DisruptionsAssumption == MaxDisruptions \in Nat
ASSUME AttemptsAssumption    == MaxAttempts \in Nat

VARIABLES
  status,       \* emails.status; "absent" until the row is committed
  retries,      \* emails.retry_count
  due,          \* ticks until emails.scheduled_for
  pc,           \* where each worker is
  batch,        \* the rows of its batch it has not processed yet
  copy,         \* retry_count in its copies of those rows
  full,         \* the batch had BatchSize rows
  delivered,    \* how often the provider accepted the email
  attempts,     \* how often it was sent
  disruptions   \* crashes, database errors and lost replies so far

rows  == <<status, retries, due>>
vars  == <<status, retries, due, pc, batch, copy, full, delivered, attempts,
           disruptions>>

Points == {"stopped", "sweep", "send", "accepted", "record_sent",
           "record_failed", "sleep"}

TypeOK ==
  /\ status \in [Emails -> {"absent", "PENDING", "SENT", "FAILED"}]
  /\ retries \in [Emails -> 0 .. MaxRetries]
  /\ due \in [Emails -> Nat]
  /\ pc \in [Workers -> Points]
  /\ batch \in [Workers -> SUBSET Emails]
  /\ copy \in [Workers -> [Emails -> 0 .. MaxRetries]]
  /\ full \in [Workers -> BOOLEAN]
  /\ delivered \in [Emails -> Nat]
  /\ attempts \in [Emails -> Nat]
  /\ disruptions \in 0 .. MaxDisruptions

(* lifespan starts run_email_worker, which sweeps at once. *)
Init ==
  /\ status = [e \in Emails |-> "absent"]
  /\ retries = [e \in Emails |-> 0]
  /\ due = [e \in Emails |-> 0]
  /\ pc = [w \in Workers |-> "sweep"]
  /\ batch = [w \in Workers |-> {}]
  /\ copy = [w \in Workers |-> [e \in Emails |-> 0]]
  /\ full = [w \in Workers |-> FALSE]
  /\ delivered = [e \in Emails |-> 0]
  /\ attempts = [e \in Emails |-> 0]
  /\ disruptions = 0

----------------------------------------------------------------------------
(* Mutants of the WHERE clause: no test of the status; retried rows left out. *)
BugDueAnyStatus(e) == status[e] # "absent" /\ due[e] = 0

BugDueFirstTry(e) == status[e] = "PENDING" /\ due[e] = 0 /\ retries[e] = 0

(* status = PENDING AND scheduled_for <= now() *)
IsDue(e) == status[e] = "PENDING" /\ due[e] = 0

(* The BatchSize due rows with the smallest ids. *)
PendingBatch ==
  {e \in Emails :
     /\ IsDue(e)
     /\ Cardinality({d \in Emails : IsDue(d) /\ d < e}) < BatchSize}

(* "for record in batch": the rows are processed in the order of their ids. *)
IsCurrent(w, e) == e \in batch[w] /\ \A d \in batch[w] : e <= d

Goto(w, point) == pc' = [pc EXCEPT ![w] = point]

(* Mutant: a failed email is tried again before the batch goes on. *)
BugNextInBatch(w, e) ==
  IF pc[w] = "record_failed"
    THEN Goto(w, "send") /\ UNCHANGED batch
    ELSE /\ batch' = [batch EXCEPT ![w] = @ \ {e}]
         /\ Goto(w, IF batch[w] \ {e} # {} THEN "send" ELSE "sleep")

(* The loops of _run_sweep: the next record, the next batch after a full     *)
(* one, or the end of the sweep.                                             *)
NextInBatch(w, e) ==
  /\ batch' = [batch EXCEPT ![w] = @ \ {e}]
  /\ Goto(w, IF batch[w] \ {e} # {} THEN "send"
             ELSE IF full[w] THEN "sweep" ELSE "sleep")

(* Mutant: mark_failed_attempt gives up only beyond max_retries. *)
BugExhausted(n) == n > MaxRetries

Exhausted(n) == n >= MaxRetries

(* Mutant: the attempt is not counted. *)
BugCounted(w, e) == copy[w][e]

Counted(w, e) == copy[w][e] + 1

(* mark_failed_attempt, on the worker's copy: of the columns, those it has   *)
(* changed are written.                                                      *)
MarkFailedAttempt(w, e) ==
  LET n == Counted(w, e) IN
    /\ retries' = [retries EXCEPT ![e] = n]
    /\ IF Exhausted(n)
         THEN status' = [status EXCEPT ![e] = "FAILED"] /\ UNCHANGED due
         ELSE due' = [due EXCEPT ![e] = n] /\ UNCHANGED status

MarkSent(e) ==
  /\ status' = [status EXCEPT ![e] = "SENT"]
  /\ UNCHANGED <<retries, due>>

(* The UPDATE the worker has pending. *)
Written(w, e) ==
  \/ pc[w] = "record_sent"   /\ MarkSent(e)
  \/ pc[w] = "record_failed" /\ MarkFailedAttempt(w, e)

----------------------------------------------------------------------------
(* A transaction that adds an email commits. *)
Enqueue(e) ==
  /\ status[e] = "absent"
  /\ status' = [status EXCEPT ![e] = "PENDING"]
  /\ UNCHANGED <<retries, due, pc, batch, copy, full, delivered, attempts, disruptions>>

(* get_pending_batch; nothing due ends the sweep. *)
LoadBatch(w) ==
  /\ pc[w] = "sweep"
  /\ batch' = [batch EXCEPT ![w] = PendingBatch]
  /\ copy' = [copy EXCEPT ![w] = retries]
  /\ full' = [full EXCEPT ![w] = Cardinality(PendingBatch) = BatchSize]
  /\ Goto(w, IF PendingBatch = {} THEN "sleep" ELSE "send")
  /\ UNCHANGED <<status, retries, due, delivered, attempts, disruptions>>

(* The provider accepts the message; its reply is still under way. *)
Accept(w) ==
  /\ pc[w] = "send"
  /\ \E e \in Emails :
       /\ IsCurrent(w, e)
       /\ attempts[e] < MaxAttempts
       /\ attempts' = [attempts EXCEPT ![e] = @ + 1]
       /\ delivered' = [delivered EXCEPT ![e] = @ + 1]
  /\ Goto(w, "accepted")
  /\ UNCHANGED <<status, retries, due, batch, copy, full, disruptions>>

(* send_email returns. *)
SendReturns(w) ==
  /\ pc[w] = "accepted"
  /\ Goto(w, "record_sent")
  /\ UNCHANGED <<status, retries, due, batch, copy, full, delivered, attempts, disruptions>>

(* Mutant: send_email_safe in the worker, the failure swallowed. *)
BugSendRejected(w) ==
  /\ pc[w] = "send"
  /\ \E e \in Emails :
       /\ IsCurrent(w, e)
       /\ attempts[e] < MaxAttempts
       /\ attempts' = [attempts EXCEPT ![e] = @ + 1]
  /\ Goto(w, "record_sent")
  /\ UNCHANGED <<status, retries, due, batch, copy, full, delivered, disruptions>>

(* send_email raises: the provider refused or was not reached. *)
SendRejected(w) ==
  /\ pc[w] = "send"
  /\ \E e \in Emails :
       /\ IsCurrent(w, e)
       /\ attempts[e] < MaxAttempts
       /\ attempts' = [attempts EXCEPT ![e] = @ + 1]
  /\ Goto(w, "record_failed")
  /\ UNCHANGED <<status, retries, due, batch, copy, full, delivered, disruptions>>

Disrupt ==
  /\ disruptions < MaxDisruptions
  /\ disruptions' = disruptions + 1

(* send_email raises although the message was accepted: the reply timed out. *)
ReplyLost(w) ==
  /\ pc[w] = "accepted"
  /\ Disrupt
  /\ Goto(w, "record_failed")
  /\ UNCHANGED <<status, retries, due, batch, copy, full, delivered, attempts>>

(* The outcome of one email is committed and the loop goes on. *)
Record(w) ==
  /\ pc[w] \in {"record_sent", "record_failed"}
  /\ \E e \in Emails : IsCurrent(w, e) /\ Written(w, e) /\ NextInBatch(w, e)
  /\ UNCHANGED <<copy, full, delivered, attempts, disruptions>>

(* A sweep breaks off in a database call.  If that was a COMMIT, the server  *)
(* may have applied it.  The session and the rest of the batch are dropped.  *)
BreakOff(w, point) ==
  /\ \/ \E e \in Emails : IsCurrent(w, e) /\ Written(w, e)
     \/ UNCHANGED rows
  /\ batch' = [batch EXCEPT ![w] = {}]
  /\ Disrupt
  /\ Goto(w, point)
  /\ UNCHANGED <<copy, full, delivered, attempts>>

(* A database error: run_email_worker logs it and waits for the next sweep.  *)
SweepFails(w) ==
  /\ pc[w] \in {"sweep", "record_sent", "record_failed"}
  /\ BreakOff(w, "sleep")

(* The worker is cancelled by lifespan, or its process dies, at any await. *)
Stop(w) ==
  /\ pc[w] # "stopped"
  /\ BreakOff(w, "stopped")

Restart(w) ==
  /\ pc[w] = "stopped"
  /\ Goto(w, "sweep")
  /\ UNCHANGED <<status, retries, due, batch, copy, full, delivered, attempts, disruptions>>

(* asyncio.sleep(EMAIL_WORKER_INTERVAL) ends. *)
Wake(w) ==
  /\ pc[w] = "sleep"
  /\ Goto(w, "sweep")
  /\ UNCHANGED <<status, retries, due, batch, copy, full, delivered, attempts, disruptions>>

Tick ==
  /\ \E e \in Emails : due[e] > 0
  /\ due' = [e \in Emails |-> IF due[e] > 0 THEN due[e] - 1 ELSE 0]
  /\ UNCHANGED <<status, retries, pc, batch, copy, full, delivered, attempts, disruptions>>

Work(w) ==
  \/ LoadBatch(w) \/ Accept(w) \/ SendReturns(w) \/ SendRejected(w)
  \/ Record(w) \/ Wake(w) \/ Restart(w)

Next ==
  \/ \E e \in Emails : Enqueue(e)
  \/ \E w \in Workers : Work(w) \/ ReplyLost(w) \/ SweepFails(w) \/ Stop(w)
  \/ Tick

Spec == Init /\ [][Next]_vars

(* The event loop runs the worker; sleeps end and sends return, as every     *)
(* client timeout of core/email/providers.py is finite; a stopped process is *)
(* started again; time passes.                                               *)
FairSpec == Spec /\ WF_vars(Tick) /\ \A w \in Workers : WF_vars(Work(w))

----------------------------------------------------------------------------
(* Properties. *)

(* A row is SENT only if the provider accepted the email. *)
SentMeansDelivered ==
  \A e \in Emails : status[e] = "SENT" => delivered[e] > 0

(* At-least-once delivery sends a duplicate only for a crash, a database     *)
(* error or a lost reply: one each at most.                                  *)
DuplicatesNeedDisruption ==
  \A e \in Emails : delivered[e] <= 1 + disruptions

(* A row is given up exactly when its retries are used up. *)
GivenUpWhenExhausted ==
  \A e \in Emails : status[e] = "FAILED" <=> retries[e] = MaxRetries

(* No email is tried more often than max_retries, crashes and database      *)
(* errors aside.                                                             *)
AttemptsBounded ==
  \A e \in Emails : attempts[e] <= MaxRetries + disruptions

(* What a single worker still has in hand is as it read it: pending, due and *)
(* with the same retry count, although it neither locks nor reads again.     *)
BatchCurrent ==
  \A w \in Workers : \A e \in batch[w] : IsDue(e) /\ copy[w][e] = retries[e]

(* SENT and FAILED are final. *)
OutcomeFinal ==
  [][\A e \in Emails :
       status[e] \in {"SENT", "FAILED"} => status'[e] = status[e]]_status

(* Every email that was queued is sent or given up. *)
EventuallySettled ==
  \A e \in Emails :
    status[e] = "PENDING" ~> status[e] \in {"SENT", "FAILED"}
=============================================================================
