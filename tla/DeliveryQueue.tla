---------------------------- MODULE DeliveryQueue ----------------------------
(***************************************************************************)
(* Mail to recipients elsewhere: the table outgoing_queue, the column      *)
(* messages.transport_status, and the one worker that empties the queue    *)
(* (internal/queue/worker.go with QueueReady ... RetryQueue of             *)
(* internal/store).                                                        *)
(*                                                                         *)
(* Every statement of the worker is a step of its own, because the process *)
(* may stop between any two of them and every statement may fail: the      *)
(* worker ignores most errors.  Time passes in half-hours, the unit of the *)
(* retry delays and of the recovery lease; the worker polls every 30       *)
(* seconds, so it may start a batch at any time.                           *)
(*                                                                         *)
(* Left out: what is sent and to which host, DKIM signing (a failure of    *)
(* it is a failed delivery), the error texts, and Worker.Wake, which       *)
(* nothing calls.                                                          *)
(*                                                                         *)
(* Definitions whose names end in Mutant are plausible mistakes that no    *)
(* specification uses: they show that the properties notice them.          *)
(***************************************************************************)
EXTENDS Integers, Sequences, FiniteSets, FiniteSetsExt

CONSTANTS
  Message,      \* messages.id of what users submit
  Recipient,    \* addresses elsewhere
  MaxAttempts,  \* Options.MaxAttempts
  BatchSize,    \* Options.BatchSize
  MaxOverdue,   \* bound of the model: half-hours a row is known to be overdue
  MaxFaults     \* bound of the model: how often something goes wrong

ASSUME DeliveryQueueAssumption ==
  /\ MaxAttempts \in Nat \ {0} /\ BatchSize \in Nat \ {0}
  /\ MaxOverdue \in Nat /\ MaxFaults \in Nat
  /\ IsFiniteSet(Message) /\ IsFiniteSet(Recipient)

Lease == 1  \* half-hours after which a delivery counts as abandoned

VARIABLES
  queue,      \* outgoing_queue, by message and recipient (UNIQUE)
  transport,  \* messages.transport_status of the messages submitted
  worker,     \* where the worker is, the rest of its batch, the status it read
  accepted,   \* how often a remote server took the message for a recipient
  faults,     \* how often something went wrong so far
  missed      \* history: messages whose status was not refreshed after the
              \* last change to their rows

vars == <<queue, transport, worker, accepted, faults, missed>>

Item == Message \X Recipient
MessageOf(i) == i[1]

Final == {"delivered", "failed"}
Verdicts == {"delivered", "partial", "failed"}

\* next_attempt and updated_at are kept as the half-hours until the one and
\* since the other; next_attempt is read in queued rows only, and 0 elsewhere.
QueueRow == [status : {"queued", "delivering"} \cup Final,
             attempts : 0..(MaxAttempts + MaxFaults),
             wait : -MaxOverdue..48,
             age : 0..(Lease + 1)]

NewRow == [status |-> "queued", attempts |-> 0, wait |-> 0, age |-> 0]

\* The statement of runBatch that comes next.
Place == {"rest", "select", "claim", "deliver", "complete", "retry", "count", "write"}

\* A row of the batch, with the attempts QueueReady read (ClaimQueue adds one).
BatchRow == [id : DOMAIN queue, attempts : 0..(MaxAttempts + MaxFaults)]

WorkerState == [at : Place, batch : Seq(BatchRow), status : {"queued"} \cup Verdicts]

\* Between two batches; also the state of a process that has just started.
Resting == [at |-> "rest", batch |-> <<>>, status |-> "queued"]

-----------------------------------------------------------------------------
(* What the statements select and compute. *)

ItemsOf(m) == {i \in DOMAIN queue : MessageOf(i) = m}

\* The status RefreshMessageTransportStatus derives from the rows of message m.
\* The mutant forgets the rows in delivery.
Derived_Mutant(m) ==
  LET some(status) == \E i \in ItemsOf(m) : queue[i].status = status
  IN  IF some("queued") THEN "queued"
      ELSE IF ~some("failed") THEN "delivered"
      ELSE IF some("delivered") THEN "partial" ELSE "failed"

Derived(m) ==
  LET some(status) == \E i \in ItemsOf(m) : queue[i].status = status
  IN  IF some("queued") \/ some("delivering") THEN "queued"
      ELSE IF ~some("failed") THEN "delivered"
      ELSE IF some("delivered") THEN "partial" ELSE "failed"

Smaller(a, b) == IF a < b THEN a ELSE b
Larger(a, b) == IF a > b THEN a ELSE b

\* 1 << 0, ..., 1 << 6
PowersOfTwo == <<1, 2, 4, 8, 16, 32, 64>>

\* The delay after attempt number attempts, in half-hours: doubled each time,
\* at most a day.
RetryDelay_Mutant(attempts) ==
  Smaller(PowersOfTwo[Smaller(Larger(attempts - 1, 0), 4) + 1], 48)

RetryDelay(attempts) ==
  Smaller(PowersOfTwo[Smaller(Larger(attempts - 1, 0), 6) + 1], 48)

\* A delivery whose worker is gone.  The mutants forget the status, take the
\* wrong one, and forget the lease.
Stale_Mutant(i) == queue[i].age > Lease

Stale_StuckMutant(i) == queue[i].status = "queued" /\ queue[i].age > Lease

Stale_EagerMutant(i) == queue[i].status = "delivering"

Stale(i) == queue[i].status = "delivering" /\ queue[i].age > Lease

Ready == {i \in DOMAIN queue : queue[i].status = "queued" /\ queue[i].wait <= 0}

\* ORDER BY next_attempt LIMIT BatchSize, with the attempts read.  Rows due at
\* the same time, and rows overdue by MaxOverdue, come in any order.
Selection(s) ==
  /\ \A j, k \in DOMAIN s :
       /\ s[j] = s[k] => j = k
       /\ j < k => queue[s[j]].wait <= queue[s[k]].wait
  /\ \A i \in Ready \ {s[k] : k \in DOMAIN s} :
       /\ Len(s) = BatchSize
       /\ \A k \in DOMAIN s : queue[s[k]].wait <= queue[i].wait

Batches ==
  {[k \in DOMAIN s |-> [id |-> s[k], attempts |-> queue[s[k]].attempts]] :
     s \in {t \in UNION {[1..n -> Ready] : n \in 0..BatchSize} : Selection(t)}}

-----------------------------------------------------------------------------
Init ==
  /\ queue = [i \in {} |-> i]
  /\ transport = [m \in {} |-> m]
  /\ worker = Resting
  /\ accepted = [i \in Item |-> 0]
  /\ faults = 0
  /\ missed = {}

\* Service.Send, and DATA on a submission port: the message and a row for each
\* recipient elsewhere, in one transaction.  DATA leaves the status that the
\* parser gives every message, "received".
Submit(m, recipients) ==
  /\ m \notin DOMAIN transport
  /\ \E status \in {"received", IF recipients = {} THEN "delivered" ELSE "queued"} :
       transport' = [n \in DOMAIN transport \cup {m} |->
                       IF n = m THEN status ELSE transport[n]]
  /\ queue' = [i \in DOMAIN queue \cup ({m} \X recipients) |->
                 IF i \in DOMAIN queue THEN queue[i] ELSE NewRow]
  /\ UNCHANGED <<worker, accepted, faults, missed>>

-----------------------------------------------------------------------------
(* The worker: runBatch, statement by statement. *)

At(where) == worker.at = where

Current == worker.batch[1]

Goto(where) == worker' = [worker EXCEPT !.at = where]

\* To the next row of the batch, or out of it.
NextItem ==
  worker' = IF Len(worker.batch) = 1 THEN Resting
            ELSE [at |-> "claim", batch |-> Tail(worker.batch), status |-> "queued"]

RecoverStaleQueue ==
  /\ At("rest")
  /\ queue' = [i \in DOMAIN queue |->
                 IF Stale(i)
                 THEN [status |-> "queued", attempts |-> queue[i].attempts,
                       wait |-> 0, age |-> 0]
                 ELSE queue[i]]
  /\ Goto("select")
  /\ UNCHANGED <<transport, accepted, faults, missed>>

QueueReady ==
  /\ At("select")
  /\ \E batch \in Batches :
       worker' = IF batch = <<>> THEN Resting
                 ELSE [at |-> "claim", batch |-> batch, status |-> "queued"]
  /\ UNCHANGED <<queue, transport, accepted, faults, missed>>

\* Rows that are not queued any more are passed over.
ClaimQueue ==
  /\ At("claim")
  /\ IF queue[Current.id].status = "queued"
     THEN /\ queue' = [queue EXCEPT ![Current.id] =
                         [status |-> "delivering", wait |-> 0, age |-> 0,
                          attempts |-> queue[Current.id].attempts + 1]]
          /\ worker' = [worker EXCEPT !.at = "deliver",
                        !.batch[1] = [id |-> Current.id, attempts |-> Current.attempts + 1]]
     ELSE NextItem /\ UNCHANGED queue
  /\ UNCHANGED <<transport, accepted, faults, missed>>

\* A server takes the message and acknowledges it.
Delivered ==
  /\ At("deliver")
  /\ accepted' = [accepted EXCEPT ![Current.id] = @ + 1]
  /\ Goto("complete")
  /\ UNCHANGED <<queue, transport, faults, missed>>

\* The message cannot be read or signed, or no server takes and acknowledges it.
DeliveryFailed ==
  /\ At("deliver")
  /\ Goto("retry")
  /\ UNCHANGED <<queue, transport, accepted, faults, missed>>

CompleteQueue ==
  /\ At("complete")
  /\ queue' = [queue EXCEPT ![Current.id] =
                  [status |-> "delivered", attempts |-> queue[Current.id].attempts,
                   wait |-> 0, age |-> 0]]
  /\ Goto("count")
  /\ UNCHANGED <<transport, accepted, faults, missed>>

\* The mutants: one attempt too many, and no refresh after a failure.
RetryQueue_Mutant ==
  LET failed == Current.attempts > MaxAttempts
  IN  /\ At("retry")
      /\ queue' = [queue EXCEPT ![Current.id] =
           [status   |-> IF failed THEN "failed" ELSE "queued",
            attempts |-> queue[Current.id].attempts,
            wait     |-> IF failed THEN 0 ELSE RetryDelay(Current.attempts),
            age      |-> 0]]
      /\ Goto("count")
      /\ UNCHANGED <<transport, accepted, faults, missed>>

RetryQueue_NoRefreshMutant ==
  LET failed == Current.attempts >= MaxAttempts
  IN  /\ At("retry")
      /\ queue' = [queue EXCEPT ![Current.id] =
           [status   |-> IF failed THEN "failed" ELSE "queued",
            attempts |-> queue[Current.id].attempts,
            wait     |-> IF failed THEN 0 ELSE RetryDelay(Current.attempts),
            age      |-> 0]]
      /\ NextItem
      /\ UNCHANGED <<transport, accepted, faults, missed>>

RetryQueue ==
  LET failed == Current.attempts >= MaxAttempts
  IN  /\ At("retry")
      /\ queue' = [queue EXCEPT ![Current.id] =
           [status   |-> IF failed THEN "failed" ELSE "queued",
            attempts |-> queue[Current.id].attempts,
            wait     |-> IF failed THEN 0 ELSE RetryDelay(Current.attempts),
            age      |-> 0]]
      /\ Goto("count")
      /\ UNCHANGED <<transport, accepted, faults, missed>>

\* RefreshMessageTransportStatus is two statements, not one transaction.
CountRows ==
  /\ At("count")
  /\ worker' = [worker EXCEPT !.at = "write", !.status = Derived(MessageOf(Current.id))]
  /\ UNCHANGED <<queue, transport, accepted, faults, missed>>

WriteTransportStatus ==
  /\ At("write")
  /\ transport' = [transport EXCEPT ![MessageOf(Current.id)] = worker.status]
  /\ missed' = missed \ {MessageOf(Current.id)}
  /\ NextItem
  /\ UNCHANGED <<queue, accepted, faults>>

WorkerStep ==
  \/ RecoverStaleQueue \/ QueueReady \/ ClaimQueue
  \/ Delivered \/ DeliveryFailed
  \/ CompleteQueue \/ RetryQueue
  \/ CountRows \/ WriteTransportStatus

-----------------------------------------------------------------------------
(* What goes wrong, MaxFaults times at most. *)

Fault == faults < MaxFaults /\ faults' = faults + 1

MissRefresh ==
  missed' = IF worker.at \in {"count", "write"}
            THEN missed \cup {MessageOf(Current.id)} ELSE missed

\* A server takes the message but QUIT fails.  The worker turns to the next
\* host, or gives the attempt up.
DeliveredUnheard ==
  /\ Fault
  /\ At("deliver")
  /\ accepted' = [accepted EXCEPT ![Current.id] = @ + 1]
  /\ UNCHANGED <<queue, transport, worker, missed>>

\* The database refuses a statement, and the worker goes on without it.
StatementFails ==
  /\ Fault
  /\ \/ worker.at \in {"claim", "count", "write"} /\ NextItem
     \/ worker.at \in {"complete", "retry"} /\ Goto("count")
  /\ MissRefresh
  /\ UNCHANGED <<queue, transport, accepted>>

\* The process stops and starts again, or selecting the batch fails.
Stop ==
  /\ Fault
  /\ worker # Resting
  /\ worker' = Resting
  /\ MissRefresh
  /\ UNCHANGED <<queue, transport, accepted>>

\* Half an hour passes.
Elapsed(row) ==
  [status   |-> row.status,
   attempts |-> row.attempts,
   wait     |-> IF row.status = "queued" /\ row.wait > -MaxOverdue
                THEN row.wait - 1 ELSE row.wait,
   age      |-> Smaller(row.age + 1, Lease + 1)]

Tick ==
  /\ queue' = [i \in DOMAIN queue |-> Elapsed(queue[i])]
  /\ UNCHANGED <<transport, worker, accepted, faults, missed>>

-----------------------------------------------------------------------------
Step ==
  \/ \E m \in Message, recipients \in SUBSET Recipient : Submit(m, recipients)
  \/ WorkerStep
  \/ DeliveredUnheard \/ StatementFails \/ Stop

Next == Step \/ Tick

\* Run polls for as long as the process runs, SMTP has timeouts, and a process
\* that stops is started again by systemd: the worker takes a step again and
\* again.  Time passes.
Spec == Init /\ [][Next]_vars /\ WF_vars(WorkerStep) /\ WF_vars(Tick)

-----------------------------------------------------------------------------
(***************************************************************************)
(*                               Properties                                *)
(***************************************************************************)

\* The rows have their types, the worker a batch of rows that exist, and every
\* message submitted a status.
TypeOK ==
  /\ DOMAIN queue \subseteq Item
  /\ \A i \in DOMAIN queue : queue[i] \in QueueRow
  /\ DOMAIN transport \subseteq Message
  /\ \A m \in DOMAIN transport : transport[m] \in {"received", "queued"} \cup Verdicts
  /\ worker \in WorkerState
  /\ accepted \in [Item -> Nat]
  /\ faults \in 0..MaxFaults
  /\ missed \subseteq DOMAIN transport

\* The queue keeps the promise of the outbox: a recipient is settled once,
\* as delivered only if a server took the message, and a message is called
\* delivered, partial or failed only when all its recipients are settled, and
\* rightly so, whatever stops, fails or is repeated in between.
Outcome(row) == IF row.status \in Final THEN row.status ELSE "pending"
PublicVerdict(status) == IF status \in Verdicts THEN status ELSE "none"

outcome == [i \in DOMAIN queue |-> Outcome(queue[i])]
taken   == {i \in Item : accepted[i] > 0}
verdict == [m \in DOMAIN transport |-> PublicVerdict(transport[m])]

Promise == INSTANCE Outbox WITH outcome <- outcome, taken <- taken, verdict <- verdict

PromiseKept == Promise!OutboxSpec

\* When all recipients of a message are settled and the worker is done with it,
\* its status says so, except after a refresh that was cut short: such a
\* message is shown as "queued" (or "received") for good, since nothing but the
\* worker's next row of the message would refresh it.
Settled(m) == \A i \in ItemsOf(m) : queue[i].status \in Final

Refreshing(m) == worker.at \in {"count", "write"} /\ MessageOf(Current.id) = m

TransportCurrent ==
  \A m \in DOMAIN transport :
    ItemsOf(m) # {} /\ Settled(m) /\ ~Refreshing(m) /\ m \notin missed =>
      transport[m] = Derived(m)

Excess(n, limit) == IF n > limit THEN n - limit ELSE 0

\* A recipient gets a message twice only for a reason: all the additional
\* copies together are not more than the things that went wrong.
DuplicatesAccounted ==
  SumFunction([i \in Item |-> Excess(accepted[i], 1)]) <= faults

\* Likewise for the attempts beyond MaxAttempts: one for each attempt whose
\* end was not recorded.
AttemptsAccounted ==
  SumFunction([i \in DOMAIN queue |-> Excess(queue[i].attempts, MaxAttempts)]) <= faults

\* At most MaxAttempts attempts (docs/operations.md, line 168).  It fails: the
\* recovery of an abandoned delivery leaves attempts alone, and a row that has
\* used its last attempt is claimed once more.
AttemptsBounded == \A i \in DOMAIN queue : queue[i].attempts <= MaxAttempts

\* Every recipient is settled in the end.
EverySettles ==
  \A i \in Item :
    i \in DOMAIN queue ~> i \in DOMAIN queue /\ queue[i].status \in Final

-----------------------------------------------------------------------------
(***************************************************************************)
(* The inductive invariant behind TypeOK, TransportCurrent and PromiseKept *)
(* (DeliveryQueueProofs).                                                  *)
(***************************************************************************)
Delivering == worker.at \in {"deliver", "complete", "retry"}

Attended(i) == Delivering /\ Current.id = i

\* While there is one worker, what it read about the rows of its batch stays
\* true: the row it delivers is its own, and those that wait are still queued.
BatchCurrent ==
  /\ worker.batch = <<>> <=> worker.at \in {"rest", "select"}
  /\ \A j, k \in 1..Len(worker.batch) :
       worker.batch[j].id = worker.batch[k].id => j = k
  /\ \A k \in 1..Len(worker.batch) :
       k > 1 \/ worker.at = "claim" =>
         /\ queue[worker.batch[k].id].status = "queued"
         /\ queue[worker.batch[k].id].attempts = worker.batch[k].attempts
  /\ Delivering => /\ queue[Current.id].status = "delivering"
                   /\ queue[Current.id].attempts = Current.attempts

\* A row that nobody delivers has an attempt left, or something went wrong.
AttemptsLeft ==
  \A i \in DOMAIN queue :
    /\ queue[i].attempts <= MaxAttempts + faults
    /\ queue[i].status = "queued" => queue[i].attempts < MaxAttempts + faults
    /\ queue[i].status = "delivering" /\ ~Attended(i) =>
         queue[i].attempts < MaxAttempts + faults

\* What counts as delivered was accepted.
DeliveredAccepted ==
  /\ \A i \in DOMAIN queue : queue[i].status = "delivered" => accepted[i] > 0
  /\ worker.at = "complete" => accepted[Current.id] > 0

\* A verdict is what the rows say now.
VerdictTrue ==
  /\ \A i \in DOMAIN queue : MessageOf(i) \in DOMAIN transport
  /\ \A m \in DOMAIN transport :
       transport[m] \in Verdicts => transport[m] = Derived(m)
  /\ worker.at = "write" => worker.status = Derived(MessageOf(Current.id))

QInv ==
  /\ TypeOK
  /\ BatchCurrent
  /\ AttemptsLeft
  /\ DeliveredAccepted
  /\ VerdictTrue
  /\ TransportCurrent

-----------------------------------------------------------------------------
(***************************************************************************)
(* What DuplicatesAccounted and AttemptsAccounted need: what went wrong    *)
(* also pays for the copy and the attempt that it makes possible.          *)
(***************************************************************************)
Completing(i) == worker.at = "complete" /\ Current.id = i

\* A server may still take the message for i.
Deliverable(i) ==
  i \in DOMAIN queue /\ queue[i].status \notin Final /\ ~Completing(i)

\* The row may still be claimed.
Claimable(i) ==
  i \in DOMAIN queue /\ queue[i].status \notin Final /\ ~Attended(i)

CopiesOwed(i) == Excess(accepted[i] + (IF Deliverable(i) THEN 1 ELSE 0), 1)

AttemptsOwed(i) ==
  IF i \in DOMAIN queue
  THEN Excess(queue[i].attempts + (IF Claimable(i) THEN 1 ELSE 0), MaxAttempts)
  ELSE 0

FaultsPay ==
  /\ \A i \in Item \ DOMAIN queue : accepted[i] = 0
  /\ SumFunction([i \in Item |-> CopiesOwed(i)]) <= faults
  /\ SumFunction([i \in Item |-> AttemptsOwed(i)]) <= faults

=============================================================================
