------------------------- MODULE EmailWorkerProofs -------------------------
(***************************************************************************)
(* Proofs about EmailWorker, for any set of emails and any limits: first     *)
(* what holds for any number of workers on the same rows, then what needs    *)
(* the worker to be alone.                                                   *)
(***************************************************************************)
EXTENDS EmailWorker, TLAPS

USE EmailsAssumption, MaxRetriesAssumption, BatchSizeAssumption,
    DisruptionsAssumption, AttemptsAssumption

(* A row in the queue has a retry left, in the table and in every copy of it *)
(* that a worker still means to process.                                     *)
RetryLeft ==
  /\ \A e \in Emails : status[e] \in {"absent", "PENDING"} => retries[e] < MaxRetries
  /\ \A w \in Workers : \A e \in batch[w] : copy[w][e] < MaxRetries

(* The email a worker is about to mark as sent has been delivered.           *)
AcceptedInv ==
  \A w \in Workers :
    pc[w] \in {"accepted", "record_sent"} =>
      \A e \in batch[w] : IsCurrent(w, e) => delivered[e] > 0

IInv == TypeOK /\ RetryLeft /\ AcceptedInv /\ SentMeansDelivered

----------------------------------------------------------------------------
(* The first row of a batch is one.                                          *)
LEMMA CurrentUnique ==
  ASSUME TypeOK, NEW w \in Workers, NEW d, NEW e, IsCurrent(w, d), IsCurrent(w, e)
  PROVE  d = e
  <1>1. d <= e /\ e <= d /\ d \in Nat /\ e \in Nat
    BY DEF IsCurrent, TypeOK
  <1> QED
    BY <1>1

(* An UPDATE of the worker writes values of the right types, and leaves a    *)
(* retry to the rows it leaves in the queue.                                 *)
LEMMA WrittenGood ==
  ASSUME IInv, NEW w \in Workers, NEW e \in batch[w], Written(w, e)
  PROVE  /\ status' \in [Emails -> {"absent", "PENDING", "SENT", "FAILED"}]
         /\ retries' \in [Emails -> 0 .. MaxRetries]
         /\ due' \in [Emails -> Nat]
         /\ \A d \in Emails : status'[d] \in {"absent", "PENDING"}
                               => retries'[d] < MaxRetries
         /\ \A d \in Emails : d # e => /\ status'[d] = status[d]
                                       /\ retries'[d] = retries[d]
                                       /\ due'[d] = due[d]
         /\ pc[w] \in {"record_sent", "record_failed"}
         /\ status'[e] = "SENT" => status[e] = "SENT" \/ pc[w] = "record_sent"
  <1> USE DEF IInv, TypeOK, RetryLeft
  <1>0. e \in Emails /\ copy[w][e] \in 0 .. MaxRetries /\ copy[w][e] < MaxRetries
    OBVIOUS
  <1>1. CASE pc[w] = "record_sent" /\ MarkSent(e)
    BY <1>0, <1>1 DEF MarkSent
  <1>2. CASE pc[w] = "record_failed" /\ MarkFailedAttempt(w, e)
    <2>1. Counted(w, e) \in 0 .. MaxRetries
      BY <1>0 DEF Counted
    <2>2. retries' = [retries EXCEPT ![e] = Counted(w, e)]
      BY <1>2 DEF MarkFailedAttempt
    <2>3. CASE Counted(w, e) >= MaxRetries
      <3>1. status' = [status EXCEPT ![e] = "FAILED"] /\ UNCHANGED due
        BY <1>2, <2>3 DEF MarkFailedAttempt, Exhausted
      <3> QED
        BY <1>0, <1>2, <2>1, <2>2, <3>1
    <2>4. CASE Counted(w, e) < MaxRetries
      <3>1. due' = [due EXCEPT ![e] = Counted(w, e)] /\ UNCHANGED status
        BY <1>2, <2>1, <2>4 DEF MarkFailedAttempt, Exhausted
      <3> QED
        BY <1>0, <1>2, <2>1, <2>2, <2>4, <3>1
    <2> QED
      BY <2>1, <2>3, <2>4
  <1> QED
    BY <1>1, <1>2 DEF Written

(* The invariant holds at the start.                                         *)
LEMMA InitIInv == Init => IInv
  BY DEF Init, IInv, TypeOK, RetryLeft, AcceptedInv, SentMeansDelivered, Points

(* What is left of a batch belongs to it, and the row that comes first       *)
(* decides only what is done with it.                                        *)
LEMMA NextInBatchGood ==
  ASSUME TypeOK, NEW w \in Workers, NEW e, NextInBatch(w, e)
  PROVE  /\ batch' = [batch EXCEPT ![w] = batch[w] \ {e}]
         /\ pc' \in [Workers -> Points]
         /\ pc'[w] \in {"send", "sweep", "sleep"}
         /\ \A v \in Workers : v # w => pc'[v] = pc[v]
  BY DEF NextInBatch, Goto, TypeOK, Points

(* Every step keeps the types.                                               *)
LEMMA TypeStep == IInv /\ [Next]_vars => TypeOK'
  <1> SUFFICES ASSUME IInv, [Next]_vars PROVE TypeOK'
    OBVIOUS
  <1> USE DEF TypeOK
  <1>0. TypeOK
    BY DEF IInv
  <1>1. ASSUME NEW e \in Emails, Enqueue(e) PROVE TypeOK'
    BY <1>0, <1>1 DEF Enqueue
  <1>2. ASSUME NEW w \in Workers, LoadBatch(w) PROVE TypeOK'
    <2>1. PendingBatch \subseteq Emails
      BY DEF PendingBatch
    <2>2. pc' \in [Workers -> Points]
      BY <1>0, <1>2 DEF LoadBatch, Goto, Points
    <2>3. batch' \in [Workers -> SUBSET Emails]
      BY <1>0, <1>2, <2>1 DEF LoadBatch
    <2>4. full' \in [Workers -> BOOLEAN]
      BY <1>0, <1>2 DEF LoadBatch
    <2>5. copy' \in [Workers -> [Emails -> 0 .. MaxRetries]]
      BY <1>0, <1>2 DEF LoadBatch
    <2> QED
      BY <1>0, <1>2, <2>2, <2>3, <2>4, <2>5 DEF LoadBatch
  <1>3. ASSUME NEW w \in Workers, Accept(w) \/ SendRejected(w) PROVE TypeOK'
    <2>1. PICK e \in Emails : attempts' = [attempts EXCEPT ![e] = attempts[e] + 1]
      BY <1>3 DEF Accept, SendRejected
    <2>2. attempts' \in [Emails -> Nat]
      BY <1>0, <2>1
    <2>3. delivered' \in [Emails -> Nat]
      <3>1. CASE Accept(w)
        <4>1. PICK d \in Emails : delivered' = [delivered EXCEPT ![d] = delivered[d] + 1]
          BY <3>1 DEF Accept
        <4> QED
          BY <1>0, <4>1
      <3>2. CASE SendRejected(w)
        BY <1>0, <3>2 DEF SendRejected
      <3> QED
        BY <1>3, <3>1, <3>2
    <2>4. pc' \in [Workers -> Points]
      BY <1>0, <1>3 DEF Accept, SendRejected, Goto, Points
    <2>5. UNCHANGED <<status, retries, due, batch, copy, full, disruptions>>
      BY <1>3 DEF Accept, SendRejected
    <2> QED
      BY <1>0, <2>2, <2>3, <2>4, <2>5
  <1>4. ASSUME NEW w \in Workers, SendReturns(w) \/ Restart(w) \/ Wake(w)
        PROVE  TypeOK'
    BY <1>0, <1>4 DEF SendReturns, Restart, Wake, Goto, Points
  <1>5. ASSUME NEW w \in Workers, ReplyLost(w) PROVE TypeOK'
    BY <1>0, <1>5 DEF ReplyLost, Disrupt, Goto, Points
  <1>6. ASSUME NEW w \in Workers, Record(w) PROVE TypeOK'
    <2>1. PICK e \in Emails : IsCurrent(w, e) /\ Written(w, e) /\ NextInBatch(w, e)
      BY <1>6 DEF Record
    <2>2. e \in batch[w]
      BY <2>1 DEF IsCurrent
    <2>3. /\ status' \in [Emails -> {"absent", "PENDING", "SENT", "FAILED"}]
          /\ retries' \in [Emails -> 0 .. MaxRetries]
          /\ due' \in [Emails -> Nat]
      BY <2>1, <2>2, WrittenGood
    <2>4. pc' \in [Workers -> Points] /\ batch' = [batch EXCEPT ![w] = batch[w] \ {e}]
      BY <1>0, <2>1, NextInBatchGood
    <2> QED
      BY <1>0, <1>6, <2>3, <2>4 DEF Record
  <1>7. ASSUME NEW w \in Workers, NEW p \in Points, BreakOff(w, p) PROVE TypeOK'
    <2>1. /\ status' \in [Emails -> {"absent", "PENDING", "SENT", "FAILED"}]
          /\ retries' \in [Emails -> 0 .. MaxRetries]
          /\ due' \in [Emails -> Nat]
      <3>1. CASE UNCHANGED rows
        BY <1>0, <3>1 DEF rows
      <3>2. ASSUME NEW e \in Emails, IsCurrent(w, e), Written(w, e)
            PROVE  /\ status' \in [Emails -> {"absent", "PENDING", "SENT", "FAILED"}]
                   /\ retries' \in [Emails -> 0 .. MaxRetries]
                   /\ due' \in [Emails -> Nat]
        BY <3>2, WrittenGood DEF IsCurrent
      <3> QED
        BY <1>7, <3>1, <3>2 DEF BreakOff
    <2> QED
      BY <1>0, <1>7, <2>1 DEF BreakOff, Disrupt, Goto
  <1>8. ASSUME NEW w \in Workers, SweepFails(w) \/ Stop(w) PROVE TypeOK'
    BY <1>7, <1>8 DEF SweepFails, Stop, Points
  <1>9. CASE Tick
    BY <1>0, <1>9 DEF Tick
  <1>10. CASE UNCHANGED vars
    BY <1>0, <1>10 DEF vars
  <1> QED
    BY <1>1, <1>2, <1>3, <1>4, <1>5, <1>6, <1>8, <1>9, <1>10 DEF Next, Work

(* No step takes a delivery back.                                            *)
LEMMA DeliveredGrows ==
  ASSUME TypeOK, [Next]_vars, NEW e \in Emails
  PROVE  delivered'[e] >= delivered[e]
  <1>1. ASSUME NEW w \in Workers, Accept(w) PROVE delivered'[e] >= delivered[e]
    <2>1. PICK d \in Emails : delivered' = [delivered EXCEPT ![d] = delivered[d] + 1]
      BY <1>1 DEF Accept
    <2> QED
      BY <2>1 DEF TypeOK
  <1>2. CASE UNCHANGED delivered
    BY <1>2 DEF TypeOK
  <1> QED
    BY <1>1, <1>2 DEF Next, Work, Enqueue, LoadBatch, SendReturns, SendRejected,
       Record, Wake, Restart, ReplyLost, SweepFails, Stop, BreakOff, Tick, vars

(* The rows a step of a worker may change are its own.                       *)
LEMMA BreakOffGood ==
  ASSUME IInv, NEW w \in Workers, NEW p \in Points, BreakOff(w, p)
  PROVE  /\ \A d \in Emails : status'[d] \in {"absent", "PENDING"}
                               => retries'[d] < MaxRetries
         /\ \A d \in Emails : status'[d] = "SENT" => delivered[d] > 0
         /\ batch' = [batch EXCEPT ![w] = {}]
         /\ pc' = [pc EXCEPT ![w] = p]
         /\ UNCHANGED <<copy, delivered>>
  <1>1. CASE UNCHANGED rows
    BY <1>1 DEF BreakOff, Goto, rows, IInv, RetryLeft, SentMeansDelivered
  <1>2. ASSUME NEW e \in Emails, IsCurrent(w, e), Written(w, e)
        PROVE  /\ \A d \in Emails : status'[d] \in {"absent", "PENDING"}
                                   => retries'[d] < MaxRetries
               /\ \A d \in Emails : status'[d] = "SENT" => delivered[d] > 0
    <2>1. e \in batch[w]
      BY <1>2 DEF IsCurrent
    <2>2. /\ \A d \in Emails : status'[d] \in {"absent", "PENDING"}
                               => retries'[d] < MaxRetries
          /\ \A d \in Emails : d # e => status'[d] = status[d]
          /\ status'[e] = "SENT" => status[e] = "SENT" \/ pc[w] = "record_sent"
      BY <1>2, <2>1, WrittenGood
    <2>3. pc[w] = "record_sent" => delivered[e] > 0
      BY <1>2, <2>1 DEF IInv, AcceptedInv
    <2>4. \A d \in Emails : status[d] = "SENT" => delivered[d] > 0
      BY DEF IInv, SentMeansDelivered
    <2> QED
      BY <2>2, <2>3, <2>4
  <1> QED
    BY <1>1, <1>2 DEF BreakOff, Goto

LEMMA RetryStep == IInv /\ [Next]_vars => RetryLeft'
  <1> SUFFICES ASSUME IInv, [Next]_vars PROVE RetryLeft'
    OBVIOUS
  <1> USE DEF RetryLeft
  <1>0. TypeOK /\ RetryLeft
    BY DEF IInv
  <1>1. ASSUME NEW e \in Emails, Enqueue(e) PROVE RetryLeft'
    BY <1>0, <1>1 DEF Enqueue, TypeOK
  <1>2. ASSUME NEW w \in Workers, LoadBatch(w) PROVE RetryLeft'
    <2>1. \A e \in PendingBatch : e \in Emails /\ retries[e] < MaxRetries
      BY <1>0 DEF PendingBatch, IsDue
    <2>2. \A v \in Workers : \A e \in batch'[v] : copy'[v][e] < MaxRetries
      BY <1>0, <1>2, <2>1 DEF LoadBatch, TypeOK
    <2> QED
      BY <1>0, <1>2, <2>2 DEF LoadBatch
  <1>3. ASSUME NEW w \in Workers, Record(w) PROVE RetryLeft'
    <2>1. PICK e \in Emails : IsCurrent(w, e) /\ Written(w, e) /\ NextInBatch(w, e)
      BY <1>3 DEF Record
    <2>2. \A d \in Emails : status'[d] \in {"absent", "PENDING"}
                           => retries'[d] < MaxRetries
      BY <2>1, WrittenGood DEF IsCurrent
    <2>3. \A v \in Workers : batch'[v] \subseteq batch[v]
      BY <1>0, <2>1, NextInBatchGood, SMTT(30) DEF TypeOK
    <2> QED
      BY <1>0, <1>3, <2>2, <2>3 DEF Record
  <1>4. ASSUME NEW w \in Workers, SweepFails(w) \/ Stop(w) PROVE RetryLeft'
    <2>1. PICK p \in Points : BreakOff(w, p)
      BY <1>4 DEF SweepFails, Stop, Points
    <2>2. /\ \A d \in Emails : status'[d] \in {"absent", "PENDING"}
                               => retries'[d] < MaxRetries
          /\ batch' = [batch EXCEPT ![w] = {}]
          /\ copy' = copy
      BY <2>1, BreakOffGood
    <2>3. \A v \in Workers : batch'[v] \subseteq batch[v]
      BY <1>0, <2>2 DEF TypeOK
    <2> QED
      BY <1>0, <2>2, <2>3
  <1>5. CASE UNCHANGED <<status, retries, batch, copy>>
    BY <1>0, <1>5
  <1> QED
    BY <1>1, <1>2, <1>3, <1>4, <1>5 DEF Next, Work, Accept, SendReturns, SendRejected,
       Wake, Restart, ReplyLost, Tick, vars

LEMMA AcceptedStep == IInv /\ [Next]_vars => AcceptedInv'
  <1> SUFFICES ASSUME IInv, [Next]_vars,
                      NEW v \in Workers, pc'[v] \in {"accepted", "record_sent"},
                      NEW d \in batch'[v], IsCurrent(v, d)'
               PROVE  delivered'[d] > 0
    BY DEF AcceptedInv
  <1>0. TypeOK /\ AcceptedInv /\ TypeOK'
    BY TypeStep DEF IInv
  <1>a. d \in Emails /\ delivered[d] \in Nat /\ delivered'[d] \in Nat
    BY <1>0 DEF TypeOK
  <1>b. delivered'[d] >= delivered[d]
    BY <1>0, <1>a, DeliveredGrows
  <1>c. CASE pc[v] \in {"accepted", "record_sent"} /\ batch'[v] = batch[v]
    BY <1>0, <1>a, <1>b, <1>c DEF AcceptedInv, IsCurrent
  <1>2. ASSUME NEW w \in Workers, LoadBatch(w) PROVE delivered'[d] > 0
    BY <1>0, <1>2, <1>c DEF LoadBatch, Goto, TypeOK
  <1>3. ASSUME NEW w \in Workers, Accept(w) PROVE delivered'[d] > 0
    <2>1. CASE v # w
      BY <1>0, <1>3, <1>c, <2>1 DEF Accept, Goto, TypeOK
    <2>2. CASE v = w
      <3>1. PICK e \in Emails : /\ IsCurrent(w, e)
                                /\ delivered' = [delivered EXCEPT ![e] = delivered[e] + 1]
        BY <1>3 DEF Accept
      <3>2. IsCurrent(w, d)
        BY <1>3, <2>2 DEF Accept, IsCurrent
      <3>3. d = e
        BY <1>0, <3>1, <3>2, CurrentUnique
      <3> QED
        BY <1>0, <1>a, <3>1, <3>3 DEF TypeOK
    <2> QED
      BY <2>1, <2>2
  <1>4. ASSUME NEW w \in Workers, SendReturns(w) PROVE delivered'[d] > 0
    BY <1>0, <1>4, <1>c DEF SendReturns, Goto, TypeOK
  <1>5. ASSUME NEW w \in Workers, Record(w) PROVE delivered'[d] > 0
    <2>1. PICK e \in Emails : IsCurrent(w, e) /\ Written(w, e) /\ NextInBatch(w, e)
      BY <1>5 DEF Record
    <2> QED
      BY <1>0, <1>c, <2>1, NextInBatchGood DEF TypeOK
  <1>6. ASSUME NEW w \in Workers, SweepFails(w) \/ Stop(w) PROVE delivered'[d] > 0
    <2>1. PICK p \in {"sleep", "stopped"} : BreakOff(w, p)
      BY <1>6 DEF SweepFails, Stop
    <2> QED
      BY <1>0, <1>c, <2>1 DEF BreakOff, Goto, TypeOK
  <1>7. ASSUME NEW w \in Workers,
               SendRejected(w) \/ Wake(w) \/ Restart(w) \/ ReplyLost(w)
        PROVE  delivered'[d] > 0
    BY <1>0, <1>7, <1>c DEF SendRejected, Wake, Restart, ReplyLost, Goto, TypeOK
  <1>8. CASE UNCHANGED <<pc, batch>>
    BY <1>c, <1>8
  <1> QED
    BY <1>2, <1>3, <1>4, <1>5, <1>6, <1>7, <1>8 DEF Next, Work, Enqueue, Tick, vars

LEMMA SentStep == IInv /\ [Next]_vars => SentMeansDelivered'
  <1> SUFFICES ASSUME IInv, [Next]_vars, NEW d \in Emails, status'[d] = "SENT"
               PROVE  delivered'[d] > 0
    BY DEF SentMeansDelivered
  <1>0. TypeOK /\ TypeOK' /\ delivered'[d] >= delivered[d]
    BY TypeStep, DeliveredGrows DEF IInv
  <1>a. delivered[d] \in Nat /\ delivered'[d] \in Nat
    BY <1>0 DEF TypeOK
  <1>1. CASE delivered[d] > 0
    BY <1>0, <1>a, <1>1
  <1>2. CASE status[d] = "SENT"
    BY <1>1, <1>2 DEF IInv, SentMeansDelivered
  <1>3. ASSUME NEW e \in Emails, Enqueue(e) PROVE delivered'[d] > 0
    BY <1>0, <1>2, <1>3 DEF Enqueue, TypeOK
  <1>4. ASSUME NEW w \in Workers, Record(w) PROVE delivered'[d] > 0
    <2>1. PICK e \in Emails : IsCurrent(w, e) /\ Written(w, e)
      BY <1>4 DEF Record
    <2> QED
      BY <1>1, <1>2, <2>1, WrittenGood DEF IsCurrent, IInv, AcceptedInv
  <1>5. ASSUME NEW w \in Workers, SweepFails(w) \/ Stop(w) PROVE delivered'[d] > 0
    <2>1. PICK p \in Points : BreakOff(w, p)
      BY <1>5 DEF SweepFails, Stop, Points
    <2> QED
      BY <1>1, <2>1, BreakOffGood
  <1>6. CASE UNCHANGED status
    BY <1>2, <1>6
  <1> QED
    BY <1>3, <1>4, <1>5, <1>6 DEF Next, Work, LoadBatch, Accept, SendReturns,
       SendRejected, Wake, Restart, ReplyLost, Tick, vars

LEMMA InvariantHolds == Spec => []IInv
  <1>1. IInv /\ [Next]_vars => IInv'
    BY TypeStep, RetryStep, AcceptedStep, SentStep DEF IInv
  <1> QED
    BY InitIInv, <1>1, PTL DEF Spec

(* Every reachable state of any number of workers has the right types.       *)
THEOREM TypeCorrect == Spec => []TypeOK
  <1>1. IInv => TypeOK
    BY DEF IInv
  <1> QED
    BY InvariantHolds, <1>1, PTL

(* However many workers share the queue and whatever breaks off: a row is    *)
(* SENT only if the provider accepted the email.                             *)
THEOREM SentDelivered == Spec => []SentMeansDelivered
  <1>1. IInv => SentMeansDelivered
    BY DEF IInv
  <1> QED
    BY InvariantHolds, <1>1, PTL

----------------------------------------------------------------------------
(* The one worker of a deployment with one process.  Between its read of a   *)
(* batch and its writes nothing else changes the rows, so its copies stay    *)
(* true; every send is then accounted for by a retry, by the outcome of the  *)
(* row, by the email the worker has in hand, or by a disruption.             *)
SingleWorker == \E w : Workers = {w}

(* The worker has sent e, or the provider has accepted it, and the outcome   *)
(* is not yet recorded.                                                      *)
InHand(w, e)    == pc[w] \in {"accepted", "record_sent", "record_failed"} /\ IsCurrent(w, e)
AcceptedBy(w, e) == pc[w] \in {"accepted", "record_sent"} /\ IsCurrent(w, e)

(* record_failed may follow a lost reply, which is a disruption.             *)
DeliveryInv ==
  \A e \in Emails :
    /\ delivered[e] <= 1 + disruptions
    /\ \A w \in Workers :
         ~AcceptedBy(w, e) /\ status[e] # "SENT" => delivered[e] <= disruptions

AttemptInv ==
  \A e \in Emails :
    /\ attempts[e] <= retries[e] + disruptions + 1
    /\ \A w \in Workers :
         ~InHand(w, e) /\ status[e] # "SENT" => attempts[e] <= retries[e] + disruptions

SoloInv ==
  IInv /\ BatchCurrent /\ GivenUpWhenExhausted /\ DeliveryInv /\ AttemptInv

LEMMA InitSoloInv == Init => SoloInv
  <1> SUFFICES ASSUME Init PROVE SoloInv
    OBVIOUS
  <1>1. IInv
    BY InitIInv
  <1>2. BatchCurrent /\ GivenUpWhenExhausted
    BY DEF Init, BatchCurrent, GivenUpWhenExhausted
  <1>3. DeliveryInv /\ AttemptInv
    BY DEF Init, DeliveryInv, AttemptInv
  <1> QED
    BY <1>1, <1>2, <1>3 DEF SoloInv

(* What the worker writes to a row it has read: from PENDING to SENT, or one *)
(* retry more and FAILED when it was the last.                               *)
LEMMA WrittenAlone ==
  ASSUME SoloInv, NEW w \in Workers, NEW e \in batch[w], Written(w, e)
  PROVE  /\ e \in Emails /\ status[e] = "PENDING" /\ due[e] = 0
         /\ \/ /\ pc[w] = "record_sent"
               /\ status' = [status EXCEPT ![e] = "SENT"]
               /\ UNCHANGED <<retries, due>>
            \/ /\ pc[w] = "record_failed"
               /\ retries' = [retries EXCEPT ![e] = retries[e] + 1]
               /\ \/ /\ retries[e] + 1 = MaxRetries
                     /\ status' = [status EXCEPT ![e] = "FAILED"]
                     /\ UNCHANGED due
                  \/ /\ retries[e] + 1 < MaxRetries
                     /\ UNCHANGED status
                     /\ due' = [due EXCEPT ![e] = retries[e] + 1]
  <1>1. /\ e \in Emails /\ status[e] = "PENDING" /\ due[e] = 0
        /\ copy[w][e] = retries[e] /\ copy[w][e] < MaxRetries
        /\ retries[e] \in Nat
    BY DEF SoloInv, IInv, TypeOK, RetryLeft, BatchCurrent, IsDue
  <1>2. CASE pc[w] = "record_sent" /\ MarkSent(e)
    BY <1>1, <1>2 DEF MarkSent
  <1>3. CASE pc[w] = "record_failed" /\ MarkFailedAttempt(w, e)
    <2>1. Counted(w, e) = retries[e] + 1
      BY <1>1 DEF Counted
    <2> QED
      BY <1>1, <1>3, <2>1 DEF MarkFailedAttempt, Exhausted
  <1> QED
    BY <1>2, <1>3 DEF Written

(* The two ways a step of the worker ends: with the row it was to write      *)
(* recorded, or broken off.                                                  *)
LEMMA RecordAlone ==
  ASSUME SoloInv, NEW w, Workers = {w}, Record(w)
  PROVE  SoloInv'
  <1> USE DEF SoloInv
  <1>0. /\ TypeOK /\ TypeOK' /\ IInv' /\ w \in Workers
    <2>1. [Next]_vars
      BY DEF Next, Work
    <2> QED
      BY <2>1, TypeStep, RetryStep, AcceptedStep, SentStep DEF IInv
  <1>1. PICK e \in Emails : IsCurrent(w, e) /\ Written(w, e) /\ NextInBatch(w, e)
    BY DEF Record
  <1>2. e \in batch[w]
    BY <1>1 DEF IsCurrent
  <1>3. /\ UNCHANGED <<copy, delivered, attempts, disruptions>>
        /\ batch'[w] = batch[w] \ {e}
        /\ pc'[w] \in {"send", "sweep", "sleep"}
    BY <1>0, <1>1, NextInBatchGood DEF Record, TypeOK
  <1>4. /\ status[e] = "PENDING" /\ due[e] = 0
        /\ \/ /\ pc[w] = "record_sent"
              /\ status' = [status EXCEPT ![e] = "SENT"]
              /\ UNCHANGED <<retries, due>>
           \/ /\ pc[w] = "record_failed"
              /\ retries' = [retries EXCEPT ![e] = retries[e] + 1]
              /\ \/ /\ retries[e] + 1 = MaxRetries
                    /\ status' = [status EXCEPT ![e] = "FAILED"]
                    /\ UNCHANGED due
                 \/ /\ retries[e] + 1 < MaxRetries
                    /\ UNCHANGED status
                    /\ due' = [due EXCEPT ![e] = retries[e] + 1]
    BY <1>0, <1>1, <1>2, WrittenAlone
  <1>5. BatchCurrent'
    <2> SUFFICES ASSUME NEW d \in batch[w], d # e
                 PROVE  IsDue(d)' /\ copy'[w][d] = retries'[d]
      BY <1>0, <1>3 DEF BatchCurrent
    <2>1. d \in Emails /\ IsDue(d) /\ copy[w][d] = retries[d]
      BY <1>0 DEF BatchCurrent, TypeOK
    <2> QED
      BY <1>0, <1>3, <1>4, <2>1 DEF IsDue, TypeOK
  <1>6. GivenUpWhenExhausted'
    <2> SUFFICES ASSUME NEW d \in Emails
                 PROVE  status'[d] = "FAILED" <=> retries'[d] = MaxRetries
      BY DEF GivenUpWhenExhausted
    <2> QED
      BY <1>0, <1>4 DEF GivenUpWhenExhausted, TypeOK, IInv, RetryLeft
  <1>7. DeliveryInv'
    <2> SUFFICES ASSUME NEW d \in Emails
                 PROVE  /\ delivered[d] <= 1 + disruptions
                        /\ status'[d] # "SENT" => delivered[d] <= disruptions
      BY <1>0, <1>3 DEF DeliveryInv
    <2>1. CASE d = e
      <3>1. ~(pc[w] = "record_failed" /\ AcceptedBy(w, e))
        BY DEF AcceptedBy
      <3> QED
        BY <1>0, <1>4, <2>1, <3>1 DEF DeliveryInv, TypeOK
    <2>2. CASE d # e
      <3>1. ~AcceptedBy(w, d)
        BY <1>0, <1>1, <2>2, CurrentUnique DEF AcceptedBy
      <3> QED
        BY <1>0, <1>4, <2>2, <3>1 DEF DeliveryInv, TypeOK
    <2> QED
      BY <2>1, <2>2
  <1>8. AttemptInv'
    <2> SUFFICES ASSUME NEW d \in Emails
                 PROVE  /\ attempts[d] <= retries'[d] + disruptions + 1
                        /\ status'[d] # "SENT" => attempts[d] <= retries'[d] + disruptions
      BY <1>0, <1>3 DEF AttemptInv
    <2>0. attempts[d] \in Nat /\ retries[d] \in Nat /\ disruptions \in Nat
      BY <1>0 DEF TypeOK
    <2>1. CASE d = e
      BY <1>0, <1>4, <2>0, <2>1 DEF AttemptInv, TypeOK
    <2>2. CASE d # e
      <3>1. ~InHand(w, d)
        BY <1>0, <1>1, <2>2, CurrentUnique DEF InHand
      <3> QED
        BY <1>0, <1>4, <2>0, <2>2, <3>1 DEF AttemptInv, TypeOK
    <2> QED
      BY <2>1, <2>2
  <1> QED
    BY <1>0, <1>5, <1>6, <1>7, <1>8

LEMMA BreakOffAlone ==
  ASSUME SoloInv, NEW w, Workers = {w}, SweepFails(w) \/ Stop(w)
  PROVE  SoloInv'
  <1> USE DEF SoloInv
  <1>0. /\ TypeOK /\ TypeOK' /\ IInv' /\ w \in Workers
    <2>1. [Next]_vars
      BY DEF Next
    <2> QED
      BY <2>1, TypeStep, RetryStep, AcceptedStep, SentStep DEF IInv
  <1>1. PICK p \in {"sleep", "stopped"} : BreakOff(w, p)
    BY DEF SweepFails, Stop
  <1>2. /\ UNCHANGED <<copy, delivered, attempts>>
        /\ batch'[w] = {} /\ disruptions' = disruptions + 1 /\ disruptions \in Nat
    BY <1>0, <1>1 DEF BreakOff, Disrupt, TypeOK
  <1>3. \/ UNCHANGED rows
        \/ \E e \in Emails :
             /\ status[e] = "PENDING"
             /\ \/ /\ status' = [status EXCEPT ![e] = "SENT"]
                   /\ UNCHANGED <<retries, due>>
                \/ /\ retries' = [retries EXCEPT ![e] = retries[e] + 1]
                   /\ \/ /\ retries[e] + 1 = MaxRetries
                         /\ status' = [status EXCEPT ![e] = "FAILED"]
                      \/ /\ retries[e] + 1 < MaxRetries
                         /\ UNCHANGED status
    <2>1. ASSUME NEW e \in Emails, IsCurrent(w, e), Written(w, e)
          PROVE  /\ status[e] = "PENDING"
                 /\ \/ /\ status' = [status EXCEPT ![e] = "SENT"]
                       /\ UNCHANGED <<retries, due>>
                    \/ /\ retries' = [retries EXCEPT ![e] = retries[e] + 1]
                       /\ \/ /\ retries[e] + 1 = MaxRetries
                             /\ status' = [status EXCEPT ![e] = "FAILED"]
                          \/ /\ retries[e] + 1 < MaxRetries
                             /\ UNCHANGED status
      <3>1. e \in batch[w]
        BY <2>1 DEF IsCurrent
      <3> QED
        BY <1>0, <2>1, <3>1, WrittenAlone
    <2> QED
      BY <1>1, <2>1 DEF BreakOff
  <1>4. BatchCurrent'
    BY <1>0, <1>2 DEF BatchCurrent
  <1>5. GivenUpWhenExhausted'
    <2> SUFFICES ASSUME NEW d \in Emails
                 PROVE  status'[d] = "FAILED" <=> retries'[d] = MaxRetries
      BY DEF GivenUpWhenExhausted
    <2> QED
      BY <1>0, <1>3 DEF GivenUpWhenExhausted, TypeOK, IInv, RetryLeft, rows
  <1>6. DeliveryInv'
    <2> SUFFICES ASSUME NEW d \in Emails PROVE delivered[d] <= disruptions + 1
      BY <1>0, <1>2 DEF DeliveryInv, TypeOK
    <2> QED
      BY <1>0, <1>2 DEF DeliveryInv, TypeOK
  <1>7. AttemptInv'
    <2> SUFFICES ASSUME NEW d \in Emails PROVE attempts[d] <= retries'[d] + disruptions + 1
      BY <1>0, <1>2 DEF AttemptInv, TypeOK
    <2>1. attempts[d] <= retries[d] + disruptions + 1 /\ attempts[d] \in Nat
          /\ retries[d] \in Nat
      BY <1>0 DEF AttemptInv, TypeOK
    <2>2. retries'[d] \in Nat /\ retries'[d] >= retries[d]
      BY <1>0, <1>3, <2>1 DEF TypeOK, rows
    <2> QED
      BY <1>2, <2>1, <2>2
  <1> QED
    BY <1>0, <1>4, <1>5, <1>6, <1>7

(* A send, accepted or refused, is of a row that is still pending, and the   *)
(* worker then has it in hand.                                               *)
LEMMA SendAlone ==
  ASSUME SoloInv, NEW w, Workers = {w}, Accept(w) \/ SendRejected(w)
  PROVE  SoloInv'
  <1> USE DEF SoloInv
  <1>0. /\ TypeOK /\ TypeOK' /\ IInv' /\ w \in Workers
    <2>1. [Next]_vars
      BY DEF Next, Work
    <2> QED
      BY <2>1, TypeStep, RetryStep, AcceptedStep, SentStep DEF IInv
  <1>1. PICK e \in Emails :
          /\ IsCurrent(w, e)
          /\ attempts' = [attempts EXCEPT ![e] = attempts[e] + 1]
          /\ \/ /\ delivered' = [delivered EXCEPT ![e] = delivered[e] + 1]
                /\ pc'[w] = "accepted"
             \/ UNCHANGED delivered /\ pc'[w] = "record_failed"
    BY <1>0 DEF Accept, SendRejected, Goto, TypeOK
  <1>2. /\ UNCHANGED <<status, retries, due, batch, copy, disruptions>>
        /\ pc[w] = "send"
    BY DEF Accept, SendRejected
  <1>3. status[e] = "PENDING" /\ ~InHand(w, e) /\ ~AcceptedBy(w, e)
    BY <1>0, <1>1, <1>2 DEF BatchCurrent, IsCurrent, IsDue, InHand, AcceptedBy
  <1>4. BatchCurrent' /\ GivenUpWhenExhausted'
    BY <1>2 DEF BatchCurrent, GivenUpWhenExhausted, IsDue
  <1>5. IsCurrent(w, e)'
    BY <1>1, <1>2 DEF IsCurrent
  <1>6. \A d \in Emails : ~AcceptedBy(w, d) /\ ~InHand(w, d)
    BY <1>2 DEF AcceptedBy, InHand
  <1>7. DeliveryInv'
    <2> SUFFICES ASSUME NEW d \in Emails
                 PROVE  /\ delivered'[d] <= 1 + disruptions
                        /\ ~AcceptedBy(w, d)' /\ status[d] # "SENT"
                             => delivered'[d] <= disruptions
      BY <1>0, <1>2 DEF DeliveryInv
    <2>1. CASE d = e
      BY <1>0, <1>1, <1>3, <1>5, <2>1 DEF DeliveryInv, AcceptedBy, TypeOK
    <2>2. CASE d # e
      BY <1>0, <1>1, <1>6, <2>2 DEF DeliveryInv, TypeOK
    <2> QED
      BY <2>1, <2>2
  <1>8. AttemptInv'
    <2> SUFFICES ASSUME NEW d \in Emails
                 PROVE  /\ attempts'[d] <= retries[d] + disruptions + 1
                        /\ ~InHand(w, d)' /\ status[d] # "SENT"
                             => attempts'[d] <= retries[d] + disruptions
      BY <1>0, <1>2 DEF AttemptInv
    <2>1. CASE d = e
      BY <1>0, <1>1, <1>3, <1>5, <2>1 DEF AttemptInv, InHand, TypeOK
    <2>2. CASE d # e
      BY <1>0, <1>1, <1>6, <2>2 DEF AttemptInv, TypeOK
    <2> QED
      BY <2>1, <2>2
  <1> QED
    BY <1>0, <1>4, <1>7, <1>8

LEMMA SoloStep ==
  ASSUME NEW w, Workers = {w}, SoloInv, [Next]_vars
  PROVE  SoloInv'
  <1> USE DEF SoloInv
  <1>0. /\ TypeOK /\ TypeOK' /\ IInv' /\ w \in Workers
    BY TypeStep, RetryStep, AcceptedStep, SentStep DEF IInv
  <1>1. ASSUME NEW e \in Emails, Enqueue(e) PROVE SoloInv'
    <2>1. /\ status' = [status EXCEPT ![e] = "PENDING"] /\ status[e] = "absent"
          /\ UNCHANGED <<retries, due, pc, batch, copy, delivered, attempts, disruptions>>
      BY <1>1 DEF Enqueue
    <2>2. BatchCurrent' /\ GivenUpWhenExhausted'
      BY <1>0, <2>1 DEF BatchCurrent, GivenUpWhenExhausted, IsDue, TypeOK
    <2>3. DeliveryInv' /\ AttemptInv'
      BY <1>0, <2>1 DEF DeliveryInv, AttemptInv, AcceptedBy, InHand, IsCurrent, TypeOK
    <2> QED
      BY <1>0, <2>2, <2>3
  <1>2. CASE LoadBatch(w)
    <2>1. /\ batch'[w] = PendingBatch /\ copy'[w] = retries
          /\ pc[w] = "sweep" /\ pc'[w] \in {"send", "sleep"}
          /\ UNCHANGED <<status, retries, due, delivered, attempts, disruptions>>
      BY <1>0, <1>2 DEF LoadBatch, Goto, TypeOK
    <2>a. \A e \in batch'[w] : IsDue(e) /\ copy'[w][e] = retries[e]
      BY <1>0, <1>2, <2>1 DEF PendingBatch
    <2>b. BatchCurrent'
      BY <2>1, <2>a DEF BatchCurrent, IsDue
    <2>2. BatchCurrent' /\ GivenUpWhenExhausted'
      BY <2>1, <2>b DEF GivenUpWhenExhausted
    <2>3. DeliveryInv' /\ AttemptInv'
      BY <1>0, <2>1 DEF DeliveryInv, AttemptInv, AcceptedBy, InHand
    <2> QED
      BY <1>0, <2>2, <2>3
  <1>3. CASE SendReturns(w)
    <2>1. /\ pc[w] = "accepted" /\ pc'[w] = "record_sent"
          /\ UNCHANGED <<status, retries, due, batch, copy, delivered, attempts, disruptions>>
      BY <1>0, <1>3 DEF SendReturns, Goto, TypeOK
    <2>2. BatchCurrent' /\ GivenUpWhenExhausted' /\ DeliveryInv' /\ AttemptInv'
      BY <1>0, <2>1 DEF BatchCurrent, GivenUpWhenExhausted, IsDue, DeliveryInv,
         AttemptInv, AcceptedBy, InHand, IsCurrent
    <2> QED
      BY <1>0, <2>2
  <1>4. CASE ReplyLost(w)
    <2>1. /\ pc[w] = "accepted" /\ pc'[w] = "record_failed"
          /\ disruptions' = disruptions + 1
          /\ UNCHANGED <<status, retries, due, batch, copy, delivered, attempts>>
      BY <1>0, <1>4 DEF ReplyLost, Disrupt, Goto, TypeOK
    <2>2. BatchCurrent' /\ GivenUpWhenExhausted'
      BY <1>0, <2>1 DEF BatchCurrent, GivenUpWhenExhausted, IsDue
    <2>3. DeliveryInv'
      BY <1>0, <2>1 DEF DeliveryInv, TypeOK
    <2>4. AttemptInv'
      BY <1>0, <2>1 DEF AttemptInv, InHand, IsCurrent, TypeOK
    <2> QED
      BY <1>0, <2>2, <2>3, <2>4
  <1>5. CASE Wake(w) \/ Restart(w)
    <2>1. /\ pc[w] \in {"sleep", "stopped"} /\ pc'[w] = "sweep"
          /\ UNCHANGED <<status, retries, due, batch, copy, delivered, attempts, disruptions>>
      BY <1>0, <1>5 DEF Wake, Restart, Goto, TypeOK
    <2>2. BatchCurrent' /\ GivenUpWhenExhausted' /\ DeliveryInv' /\ AttemptInv'
      BY <1>0, <2>1 DEF BatchCurrent, GivenUpWhenExhausted, IsDue, DeliveryInv,
         AttemptInv, AcceptedBy, InHand
    <2> QED
      BY <1>0, <2>2
  <1>6. CASE Tick
    <2>1. /\ due' = [d \in Emails |-> IF due[d] > 0 THEN due[d] - 1 ELSE 0]
          /\ UNCHANGED <<status, retries, pc, batch, copy, delivered, attempts, disruptions>>
      BY <1>6 DEF Tick
    <2>2. BatchCurrent' /\ GivenUpWhenExhausted'
      BY <1>0, <2>1 DEF BatchCurrent, GivenUpWhenExhausted, IsDue, TypeOK
    <2>3. DeliveryInv' /\ AttemptInv'
      BY <1>0, <2>1 DEF DeliveryInv, AttemptInv, AcceptedBy, InHand, IsCurrent
    <2> QED
      BY <1>0, <2>2, <2>3
  <1>7. CASE UNCHANGED vars
    BY <1>0, <1>7 DEF vars, BatchCurrent, GivenUpWhenExhausted, IsDue, DeliveryInv,
       AttemptInv, AcceptedBy, InHand, IsCurrent
  <1> QED
    BY <1>0, <1>1, <1>2, <1>3, <1>4, <1>5, <1>6, <1>7, SendAlone, RecordAlone,
       BreakOffAlone DEF Next, Work

LEMMA SoloInvariance == SingleWorker => (Spec => []SoloInv)
  <1> SUFFICES ASSUME SingleWorker PROVE Spec => []SoloInv
    OBVIOUS
  <1>1. SoloInv /\ [Next]_vars => SoloInv'
    BY SoloStep DEF SingleWorker
  <1> QED
    BY InitSoloInv, <1>1, PTL DEF Spec

(* What the one worker holds is what the table says, without a lock.         *)
THEOREM CopiesCurrent == SingleWorker => (Spec => []BatchCurrent)
  <1>1. SoloInv => BatchCurrent
    BY DEF SoloInv
  <1> QED
    BY SoloInvariance, <1>1, PTL

(* It gives a row up exactly when the retries of the row are used up.        *)
THEOREM GivenUp == SingleWorker => (Spec => []GivenUpWhenExhausted)
  <1>1. SoloInv => GivenUpWhenExhausted
    BY DEF SoloInv
  <1> QED
    BY SoloInvariance, <1>1, PTL

(* Every duplicate it delivers has a crash, a database error or a lost reply *)
(* of its own.                                                               *)
THEOREM DuplicatesExplained == SingleWorker => (Spec => []DuplicatesNeedDisruption)
  <1>1. SoloInv => DuplicatesNeedDisruption
    BY DEF SoloInv, DeliveryInv, DuplicatesNeedDisruption
  <1> QED
    BY SoloInvariance, <1>1, PTL

(* It tries an email at most max_retries times, disruptions aside.           *)
THEOREM AttemptsLimited == SingleWorker => (Spec => []AttemptsBounded)
  <1> SUFFICES ASSUME SingleWorker PROVE Spec => []AttemptsBounded
    OBVIOUS
  <1>1. SoloInv => AttemptsBounded
    <2> SUFFICES ASSUME SoloInv, NEW e \in Emails
                 PROVE  attempts[e] <= MaxRetries + disruptions
      BY DEF AttemptsBounded
    <2>1. PICK w : Workers = {w}
      BY DEF SingleWorker
    <2>2. /\ attempts[e] \in Nat /\ retries[e] \in 0 .. MaxRetries /\ disruptions \in Nat
          /\ attempts[e] <= retries[e] + disruptions + 1
      BY DEF SoloInv, IInv, TypeOK, AttemptInv
    <2>3. CASE retries[e] = MaxRetries
      <3>1. status[e] = "FAILED"
        BY <2>3 DEF SoloInv, GivenUpWhenExhausted
      <3>2. ~InHand(w, e)
        BY <2>1, <3>1 DEF SoloInv, BatchCurrent, InHand, IsCurrent, IsDue
      <3> QED
        BY <2>1, <2>2, <2>3, <3>1, <3>2 DEF SoloInv, AttemptInv
    <2> QED
      BY <2>2, <2>3
  <1> QED
    BY SoloInvariance, <1>1, PTL

(* It never takes an outcome back.                                           *)
THEOREM OutcomesFinal == SingleWorker => (Spec => OutcomeFinal)
  <1> SUFFICES ASSUME SingleWorker PROVE Spec => OutcomeFinal
    OBVIOUS
  <1> DEFINE Final(e) == status[e] \in {"SENT", "FAILED"} => status'[e] = status[e]
  <1>1. SoloInv /\ [Next]_vars => [\A e \in Emails : Final(e)]_status
    <2> SUFFICES ASSUME SoloInv, [Next]_vars, NEW d \in Emails,
                        status[d] \in {"SENT", "FAILED"}
                 PROVE  status'[d] = status[d]
      OBVIOUS
    <2>0. TypeOK
      BY DEF SoloInv, IInv
    <2>1. ASSUME NEW w \in Workers, NEW e \in Emails, IsCurrent(w, e), Written(w, e)
          PROVE  status'[d] = status[d]
      <3>1. e \in batch[w]
        BY <2>1 DEF IsCurrent
      <3> QED
        BY <2>0, <2>1, <3>1, WrittenAlone DEF TypeOK
    <2>2. ASSUME NEW e \in Emails, Enqueue(e) PROVE status'[d] = status[d]
      BY <2>0, <2>2 DEF Enqueue, TypeOK
    <2>3. CASE UNCHANGED status
      BY <2>3
    <2> QED
      BY <2>1, <2>2, <2>3 DEF Next, Work, LoadBatch, Accept, SendReturns, SendRejected,
         Record, Wake, Restart, ReplyLost, SweepFails, Stop, BreakOff, Tick, vars, rows
  <1> QED
    BY SoloInvariance, <1>1, PTL DEF Spec, OutcomeFinal
=============================================================================
