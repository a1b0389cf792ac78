------------------------- MODULE DeliveryQueueProofs -------------------------
(***************************************************************************)
(* QInv is an inductive invariant of DeliveryQueue, and with it the queue  *)
(* implements Outbox; FaultsPay bounds the copies and the attempts in      *)
(* excess; RInv is one of RetryWindow and keeps the times between          *)
(* attempts.  All of it for every number of messages, recipients, attempts *)
(* and faults.                                                             *)
(***************************************************************************)
EXTENDS RetryWindow, Sums, TLAPS

-----------------------------------------------------------------------------
(* Facts about the operators. *)

LEMMA RetryDelayType == ASSUME NEW a \in Nat PROVE RetryDelay(a) \in 0..48
<1> DEFINE e == Smaller(Larger(a - 1, 0), 6) + 1
<1>1. e \in 1..7  BY DEF Smaller, Larger
<1>2. PowersOfTwo \in [1..7 -> 0..64]  BY DEF PowersOfTwo
<1>3. PowersOfTwo[e] \in 0..64  BY <1>1, <1>2
<1> QED  BY <1>3 DEF RetryDelay, Smaller

LEMMA ElapsedType ==
  ASSUME NEW row \in QueueRow
  PROVE  /\ Elapsed(row) \in QueueRow
         /\ Elapsed(row).status = row.status
         /\ Elapsed(row).attempts = row.attempts
<1>1. Smaller(row.age + 1, Lease + 1) \in 0..(Lease + 1)
  BY DEF QueueRow, Smaller, Lease
<1> DEFINE later == IF row.status = "queued" /\ row.wait > -MaxOverdue
                    THEN row.wait - 1 ELSE row.wait
<1>2. later \in -MaxOverdue..48
  BY DeliveryQueueAssumption DEF QueueRow
<1>3. Elapsed(row) = [status |-> row.status, attempts |-> row.attempts,
                      wait |-> later, age |-> Smaller(row.age + 1, Lease + 1)]
  BY DEF Elapsed
<1> HIDE DEF later
<1> QED  BY <1>1, <1>2, <1>3 DEF QueueRow

\* What is left of a sequence without its head.
LEMMA TailOf ==
  ASSUME NEW S, NEW s \in Seq(S), s # <<>>
  PROVE  /\ Len(s) \in Nat /\ Len(s) >= 1
         /\ s[1] \in S
         /\ Tail(s) \in Seq(S)
         /\ Len(Tail(s)) = Len(s) - 1
         /\ \A k \in 1..Len(Tail(s)) : Tail(s)[k] = s[k + 1]
         /\ Len(s) # 1 => Tail(s) # <<>>
<1>1. Len(s) \in Nat /\ Len(s) >= 1  OBVIOUS
<1>2. Len(Tail(s)) = Len(s) - 1  OBVIOUS
<1>3. \A k \in 1..Len(Tail(s)) : Tail(s)[k] = s[k + 1]  OBVIOUS
<1>4. s[1] \in S /\ Tail(s) \in Seq(S)  OBVIOUS
<1> QED  BY <1>1, <1>2, <1>3, <1>4

LEMMA HeadReplaced ==
  ASSUME NEW S, NEW s \in Seq(S), s # <<>>, NEW r \in S
  PROVE  /\ [s EXCEPT ![1] = r] \in Seq(S)
         /\ [s EXCEPT ![1] = r] # <<>>
         /\ Len([s EXCEPT ![1] = r]) = Len(s)
         /\ [s EXCEPT ![1] = r][1] = r
         /\ \A k \in 1..Len(s) : k > 1 => [s EXCEPT ![1] = r][k] = s[k]
<1> DEFINE t == [s EXCEPT ![1] = r]
<1>1. t \in Seq(S) /\ Len(t) = Len(s)  OBVIOUS
<1>2. t[1] = r  OBVIOUS
<1>3. \A k \in 1..Len(s) : k > 1 => t[k] = s[k]  OBVIOUS
<1>4. t # <<>>  BY <1>1
<1> QED  BY <1>1, <1>2, <1>3, <1>4

LEMMA SeqGrows ==
  ASSUME NEW S, NEW T, S \subseteq T, NEW s \in Seq(S) PROVE s \in Seq(T)
OBVIOUS

\* The rows of the batch exist.
LEMMA BatchRows ==
  ASSUME TypeOK
  PROVE  /\ worker.at \in Place /\ worker.status \in {"queued"} \cup Verdicts
         /\ worker.batch \in Seq(BatchRow)
         /\ Len(worker.batch) \in Nat
         /\ \A k \in 1..Len(worker.batch) :
              /\ worker.batch[k].id \in DOMAIN queue
              /\ worker.batch[k].attempts \in 0..(MaxAttempts + MaxFaults)
         /\ worker.batch # <<>> =>
              /\ 1 \in 1..Len(worker.batch)
              /\ Current.id \in DOMAIN queue
              /\ Current.attempts \in 0..(MaxAttempts + MaxFaults)
<1>1. /\ worker.batch \in Seq(BatchRow)
      /\ worker.at \in Place /\ worker.status \in {"queued"} \cup Verdicts
  BY DEF TypeOK, WorkerState
<1>2. Len(worker.batch) \in Nat
      /\ \A k \in 1..Len(worker.batch) : worker.batch[k] \in BatchRow
  BY <1>1
<1>3. worker.batch # <<>> => 1 \in 1..Len(worker.batch)
  BY <1>1, TailOf
<1> QED  BY <1>1, <1>2, <1>3 DEF BatchRow, Current

\* What Goto changes.
LEMMA GotoType ==
  ASSUME TypeOK, NEW where \in Place, Goto(where)
  PROVE  /\ worker'.at = where /\ worker'.batch = worker.batch
         /\ worker'.status = worker.status
         /\ worker' \in WorkerState
BY DEF Goto, TypeOK, WorkerState

LEMMA DerivedType ==
  ASSUME NEW m PROVE Derived(m) \in {"queued"} \cup Verdicts
BY DEF Derived, Verdicts

\* A message is settled iff its rows give a verdict.
LEMMA DerivedSettled ==
  ASSUME TypeOK, NEW m PROVE Derived(m) \in Verdicts <=> Settled(m)
BY DEF Derived, Verdicts, Settled, Final, ItemsOf, TypeOK, QueueRow

\* The status of a message follows from the statuses of its rows.
LEMMA DerivedSame ==
  ASSUME DOMAIN queue' = DOMAIN queue, NEW m,
         \A i \in ItemsOf(m) : queue'[i].status = queue[i].status
  PROVE  Derived(m)' = Derived(m) /\ ItemsOf(m)' = ItemsOf(m) /\ Settled(m)' = Settled(m)
BY DEF Derived, ItemsOf, Settled

\* After NextItem the batch is what is left of it.
LEMMA NextItemType ==
  ASSUME worker.batch \in Seq(BatchRow), worker.batch # <<>>, NextItem
  PROVE  /\ worker'.at \in {"rest", "claim"}
         /\ worker'.status = "queued"
         /\ worker'.batch \in Seq(BatchRow)
         /\ worker' \in WorkerState
         /\ worker'.at = "rest" <=> worker'.batch = <<>>
         /\ Len(worker'.batch) \in Nat
         /\ \A k \in 1..Len(worker'.batch) :
              k + 1 \in 1..Len(worker.batch) /\ worker'.batch[k] = worker.batch[k + 1]
<1> DEFINE rest == Tail(worker.batch)
<1>1. /\ Len(worker.batch) \in Nat /\ rest \in Seq(BatchRow)
      /\ Len(rest) = Len(worker.batch) - 1
      /\ \A k \in 1..Len(rest) : rest[k] = worker.batch[k + 1]
      /\ Len(worker.batch) # 1 => rest # <<>>
  BY TailOf
<1>2. CASE Len(worker.batch) = 1
  BY <1>2 DEF NextItem, Resting, WorkerState, Place
<1>3. CASE Len(worker.batch) # 1
  <2>1. worker' = [at |-> "claim", batch |-> rest, status |-> "queued"]
    BY <1>3 DEF NextItem
  <2> HIDE DEF rest
  <2> QED  BY <1>1, <1>3, <2>1 DEF WorkerState, Place
<1> QED  BY <1>2, <1>3

-----------------------------------------------------------------------------
(***************************************************************************)
(* What a step must do to keep VerdictTrue and TransportCurrent: either no *)
(* message gets another status from its rows, or one row that is not       *)
(* settled changes.                                                        *)
(***************************************************************************)
LEMMA DerivedKept ==
  ASSUME QInv,
         DOMAIN queue' = DOMAIN queue,
         \A m : Derived(m)' = Derived(m) /\ Settled(m)' = Settled(m),
         transport' = transport, missed \subseteq missed',
         \A m : Refreshing(m) => Refreshing(m)' \/ m \in missed',
         worker'.at = "write" => worker'.status = Derived(MessageOf(worker'.batch[1].id))
  PROVE  VerdictTrue' /\ TransportCurrent'
<1>1. \A m : ItemsOf(m)' = ItemsOf(m)
  BY DEF ItemsOf
<1>2. VerdictTrue'
  BY DEF QInv, VerdictTrue, Current
<1>3. TransportCurrent'
  BY <1>1 DEF QInv, TransportCurrent
<1> QED  BY <1>2, <1>3

\* Nothing changes in the rows.
LEMMA QueueKept ==
  ASSUME QInv,
         queue' = queue, transport' = transport, missed \subseteq missed',
         \A m : Refreshing(m) => Refreshing(m)' \/ m \in missed',
         worker'.at = "write" => worker'.status = Derived(MessageOf(worker'.batch[1].id))
  PROVE  VerdictTrue' /\ TransportCurrent'
<1>1. \A m : Derived(m)' = Derived(m) /\ Settled(m)' = Settled(m)
  BY DerivedSame
<1> QED  BY <1>1, DerivedKept

LEMMA OneRow ==
  ASSUME QInv, NEW c \in DOMAIN queue, NEW row \in QueueRow,
         queue' = [queue EXCEPT ![c] = row],
         queue[c].status \notin Final,
         transport' = transport, missed' = missed,
         worker.at \notin {"count", "write"}, worker'.at # "write",
         row.status \in Final => worker'.at = "count" /\ worker'.batch[1].id = c
  PROVE  /\ DOMAIN queue' = DOMAIN queue
         /\ queue'[c] = row
         /\ \A i \in DOMAIN queue : i # c => queue'[i] = queue[i]
         /\ \A i \in DOMAIN queue : queue'[i] \in QueueRow
         /\ VerdictTrue' /\ TransportCurrent'
<1>1. DOMAIN queue' = DOMAIN queue  OBVIOUS
<1>2. queue'[c] = row /\ \A i \in DOMAIN queue : i # c => queue'[i] = queue[i]
  OBVIOUS
<1>3. \A i \in DOMAIN queue : queue'[i] \in QueueRow
  BY <1>2 DEF QInv, TypeOK
<1>4. ASSUME NEW m, m # MessageOf(c)
      PROVE  Derived(m)' = Derived(m) /\ ItemsOf(m)' = ItemsOf(m) /\ Settled(m)' = Settled(m)
  <2>1. \A i \in ItemsOf(m) : queue'[i].status = queue[i].status
    BY <1>2, <1>4 DEF ItemsOf
  <2> QED  BY <1>1, <2>1, DerivedSame
<1>5. ~Settled(MessageOf(c)) /\ transport[MessageOf(c)] \notin Verdicts
  <2>1. ~Settled(MessageOf(c))  BY DEF Settled, ItemsOf
  <2>2. Derived(MessageOf(c)) \notin Verdicts  BY <2>1, DerivedSettled DEF QInv
  <2>3. MessageOf(c) \in DOMAIN transport  BY DEF QInv, VerdictTrue
  <2> QED  BY <2>1, <2>2, <2>3 DEF QInv, VerdictTrue
<1>6. VerdictTrue'
  BY <1>1, <1>4, <1>5 DEF QInv, VerdictTrue
<1>7. TransportCurrent'
  <2> SUFFICES ASSUME NEW m \in DOMAIN transport', ItemsOf(m)' # {}, Settled(m)',
                      ~Refreshing(m)', m \notin missed'
               PROVE  transport'[m] = Derived(m)'
    BY DEF TransportCurrent
  <2>1. CASE m = MessageOf(c)
    <3>1. c \in ItemsOf(m)'  BY <1>1, <2>1 DEF ItemsOf
    <3>2. row.status \in Final  BY <1>2, <3>1 DEF Settled
    <3>3. Refreshing(m)'  BY <2>1, <3>2 DEF Refreshing, Current
    <3> QED  BY <3>3
  <2>2. CASE m # MessageOf(c)
    BY <1>4, <2>2 DEF QInv, TransportCurrent, Refreshing
  <2> QED  BY <2>1, <2>2
<1> QED  BY <1>1, <1>2, <1>3, <1>6, <1>7

-----------------------------------------------------------------------------
(* The initial state, and the steps that are not the worker's. *)

LEMMA InitStep == Init => QInv
<1> SUFFICES ASSUME Init PROVE QInv  OBVIOUS
<1> USE DeliveryQueueAssumption
<1>1. TypeOK  BY DEF Init, TypeOK, Resting, Verdicts, WorkerState, Place
<1>2. BatchCurrent  BY DEF Init, BatchCurrent, Resting, Delivering
<1>3. AttemptsLeft /\ DeliveredAccepted
  BY DEF Init, AttemptsLeft, DeliveredAccepted, Resting
<1>4. VerdictTrue /\ TransportCurrent
  BY DEF Init, VerdictTrue, TransportCurrent, Resting
<1> QED  BY <1>1, <1>2, <1>3, <1>4 DEF QInv

LEMMA SubmitStep ==
  ASSUME QInv, NEW m \in Message, NEW recipients \in SUBSET Recipient,
         Submit(m, recipients)
  PROVE  QInv'
<1> DEFINE new == {m} \X recipients
<1>1. /\ DOMAIN queue' = DOMAIN queue \cup new
      /\ \A i \in DOMAIN queue : queue'[i] = queue[i]
      /\ \A i \in DOMAIN queue' : i \notin DOMAIN queue =>
           queue'[i] = NewRow /\ MessageOf(i) = m
  BY DEF Submit, MessageOf
<1>2. /\ DOMAIN transport' = DOMAIN transport \cup {m}
      /\ transport'[m] \in {"received", "queued", "delivered"}
      /\ transport'[m] = "delivered" => recipients = {}
      /\ \A n \in DOMAIN transport : transport'[n] = transport[n]
      /\ m \notin DOMAIN transport
  BY DEF Submit
<1>3. UNCHANGED <<worker, accepted, faults, missed>>
  BY DEF Submit
<1>4. \A i \in DOMAIN queue : MessageOf(i) # m
  BY <1>2 DEF QInv, VerdictTrue
<1>5. ASSUME NEW n, n # m
      PROVE  ItemsOf(n)' = ItemsOf(n) /\ Derived(n)' = Derived(n) /\ Settled(n)' = Settled(n)
  <2>1. ItemsOf(n)' = ItemsOf(n)  BY <1>1, <1>5 DEF ItemsOf
  <2>2. \A i \in ItemsOf(n) : queue'[i] = queue[i]  BY <1>1 DEF ItemsOf
  <2> QED  BY <2>1, <2>2 DEF Derived, Settled
<1>6. TypeOK'
  <2>1. NewRow \in QueueRow
    BY DeliveryQueueAssumption DEF NewRow, QueueRow, Lease
  <2>2. DOMAIN queue' \subseteq Item /\ \A i \in DOMAIN queue' : queue'[i] \in QueueRow
    BY <1>1, <2>1 DEF QInv, TypeOK, Item
  <2>3. DOMAIN transport' \subseteq Message /\ missed' \subseteq DOMAIN transport'
        /\ \A n \in DOMAIN transport' : transport'[n] \in {"received", "queued"} \cup Verdicts
    BY <1>2, <1>3 DEF QInv, TypeOK, Verdicts
  <2>4. worker' \in WorkerState'
    <3>1. BatchRow \subseteq BatchRow'  BY <1>1 DEF BatchRow
    <3>2. worker.batch \in Seq(BatchRow')  BY <3>1, BatchRows, SeqGrows DEF QInv
    <3> QED  BY <1>3, <3>2 DEF QInv, TypeOK, WorkerState
  <2> QED  BY <1>3, <2>2, <2>3, <2>4 DEF QInv, TypeOK
<1>7. BatchCurrent'
  <2>1. \A k \in 1..Len(worker.batch) : worker.batch[k].id \in DOMAIN queue
    BY BatchRows DEF QInv
  <2>2. worker.batch # <<>> => 1 \in 1..Len(worker.batch)
    BY BatchRows DEF QInv
  <2> QED  BY <1>1, <1>3, <2>1, <2>2 DEF QInv, BatchCurrent, Delivering, Current
<1>8. AttemptsLeft'
  BY <1>1, <1>3, DeliveryQueueAssumption
    DEF QInv, TypeOK, AttemptsLeft, Attended, Delivering, Current, NewRow
<1>9. DeliveredAccepted'
  BY <1>1, <1>3 DEF QInv, DeliveredAccepted, Current, NewRow
<1>10. VerdictTrue'
  <2>1. transport'[m] \in Verdicts => transport'[m] = Derived(m)'
    <3> SUFFICES ASSUME transport'[m] \in Verdicts PROVE transport'[m] = Derived(m)'
      OBVIOUS
    <3>1. transport'[m] = "delivered" /\ recipients = {}  BY <1>2 DEF Verdicts
    <3>2. ItemsOf(m)' = {}  BY <1>1, <1>4, <3>1 DEF ItemsOf
    <3> QED  BY <3>1, <3>2 DEF Derived
  <2>2. worker.at = "write" => MessageOf(Current.id) # m
    <3> SUFFICES ASSUME worker.at = "write" PROVE Current.id \in DOMAIN queue
      BY <1>4
    <3>1. worker.batch # <<>>  BY DEF QInv, BatchCurrent
    <3> QED  BY <3>1, BatchRows DEF QInv
  <2>3. worker.at = "write" => worker'.status = Derived(MessageOf(Current.id))'
    BY <1>3, <1>5, <2>2 DEF QInv, VerdictTrue, Current
  <2>4. \A i \in DOMAIN queue' : MessageOf(i) \in DOMAIN transport'
    BY <1>1, <1>2 DEF QInv, VerdictTrue
  <2>5. \A n \in DOMAIN transport' :
          transport'[n] \in Verdicts => transport'[n] = Derived(n)'
    BY <1>2, <1>5, <2>1 DEF QInv, VerdictTrue
  <2> QED  BY <1>3, <2>3, <2>4, <2>5 DEF VerdictTrue
<1>11. TransportCurrent'
  <2> SUFFICES ASSUME NEW n \in DOMAIN transport', ItemsOf(n)' # {}, Settled(n)',
                      ~Refreshing(n)', n \notin missed'
               PROVE  transport'[n] = Derived(n)'
    BY DEF TransportCurrent
  <2>1. CASE n = m
    <3>1. PICK i \in ItemsOf(m)' : TRUE  BY <2>1
    <3>2. queue'[i] = NewRow  BY <1>1, <1>4, <3>1 DEF ItemsOf
    <3> QED  BY <2>1, <3>1, <3>2 DEF Settled, NewRow, Final
  <2>2. CASE n # m
    BY <1>2, <1>3, <1>5, <2>2 DEF QInv, TransportCurrent, Refreshing, Current
  <2> QED  BY <2>1, <2>2
<1> QED  BY <1>6, <1>7, <1>8, <1>9, <1>10, <1>11 DEF QInv

LEMMA TickStep ==
  ASSUME QInv, Tick PROVE QInv'
<1>1. /\ DOMAIN queue' = DOMAIN queue
      /\ \A i \in DOMAIN queue :
           /\ queue'[i] \in QueueRow
           /\ queue'[i].status = queue[i].status
           /\ queue'[i].attempts = queue[i].attempts
  BY ElapsedType DEF Tick, QInv, TypeOK
<1>2. UNCHANGED <<transport, worker, accepted, faults, missed>>
  BY DEF Tick
<1>3. TypeOK'  BY <1>1, <1>2 DEF QInv, TypeOK, WorkerState, BatchRow
<1>4. worker.batch # <<>> => 1 \in 1..Len(worker.batch)
  BY BatchRows DEF QInv
<1>5. \A k \in 1..Len(worker.batch) : worker.batch[k].id \in DOMAIN queue
  BY BatchRows DEF QInv
<1>6. BatchCurrent'
  BY <1>1, <1>2, <1>4, <1>5 DEF QInv, BatchCurrent, Delivering, Current
<1>7. AttemptsLeft' /\ DeliveredAccepted'
  BY <1>1, <1>2 DEF QInv, AttemptsLeft, DeliveredAccepted, Attended, Delivering, Current
<1>8. \A m : Derived(m)' = Derived(m) /\ Settled(m)' = Settled(m)
  BY <1>1, DerivedSame DEF ItemsOf
<1>9. VerdictTrue' /\ TransportCurrent'
  <2>1. \A m : Refreshing(m) => Refreshing(m)'
    BY <1>2 DEF Refreshing, Current
  <2>2. worker'.at = "write" => worker'.status = Derived(MessageOf(worker'.batch[1].id))
    BY <1>2 DEF QInv, VerdictTrue, Current
  <2> QED  BY <1>1, <1>2, <1>8, <2>1, <2>2, DerivedKept
<1> QED  BY <1>3, <1>6, <1>7, <1>9 DEF QInv

-----------------------------------------------------------------------------
(* The steps of the worker. *)

LEMMA RecoverStaleQueueStep ==
  ASSUME QInv, RecoverStaleQueue PROVE QInv'
<1>1. /\ worker.at = "rest" /\ worker.batch = <<>>
      /\ worker'.at = "select" /\ worker'.batch = <<>> /\ worker'.status = worker.status
      /\ worker' \in WorkerState
  BY GotoType DEF RecoverStaleQueue, At, QInv, BatchCurrent, Place
<1>2. UNCHANGED <<transport, accepted, faults, missed>>
  BY DEF RecoverStaleQueue
<1>3. DOMAIN queue' = DOMAIN queue
      /\ \A i \in DOMAIN queue :
           \/ queue'[i] = queue[i]
           \/ /\ queue[i].status = "delivering"
              /\ queue'[i] = [status |-> "queued", attempts |-> queue[i].attempts,
                              wait |-> 0, age |-> 0]
  BY DEF RecoverStaleQueue, Stale
<1>4. \A i \in DOMAIN queue :
        /\ queue'[i] \in QueueRow
        /\ queue'[i].attempts = queue[i].attempts
        /\ \/ queue'[i].status = queue[i].status
           \/ queue[i].status = "delivering" /\ queue'[i].status = "queued"
  BY <1>3, DeliveryQueueAssumption DEF QInv, TypeOK, QueueRow, Lease
<1>5. TypeOK'
  BY <1>1, <1>2, <1>3, <1>4 DEF QInv, TypeOK, WorkerState, BatchRow
<1>6. BatchCurrent'
  BY <1>1 DEF BatchCurrent, Delivering
<1>7. AttemptsLeft' /\ DeliveredAccepted'
  BY <1>1, <1>2, <1>3, <1>4 DEF QInv, AttemptsLeft, DeliveredAccepted, Attended, Delivering
<1>8. \A m : Derived(m)' = Derived(m) /\ Settled(m)' = Settled(m)
  <2> TAKE m
  <2>1. ItemsOf(m)' = ItemsOf(m)  BY <1>3 DEF ItemsOf
  <2>2. \A i \in ItemsOf(m) :
          \/ queue'[i].status = queue[i].status
          \/ queue[i].status = "delivering" /\ queue'[i].status = "queued"
    BY <1>4 DEF ItemsOf
  <2> QED  BY <2>1, <2>2 DEF Derived, Settled, Final
<1>9. VerdictTrue' /\ TransportCurrent'
  BY <1>1, <1>2, <1>3, <1>8, DerivedKept DEF Refreshing
<1> QED  BY <1>5, <1>6, <1>7, <1>9 DEF QInv

LEMMA BatchesType ==
  ASSUME TypeOK, NEW batch \in Batches
  PROVE  /\ batch \in Seq(BatchRow)
         /\ \A k \in 1..Len(batch) :
              /\ batch[k].id \in DOMAIN queue
              /\ queue[batch[k].id].status = "queued"
              /\ queue[batch[k].id].attempts = batch[k].attempts
         /\ \A j, k \in 1..Len(batch) : batch[j].id = batch[k].id => j = k
<1>0. PICK n \in 0..BatchSize : \E s \in [1..n -> Ready] :
        /\ Selection(s)
        /\ batch = [k \in DOMAIN s |-> [id |-> s[k], attempts |-> queue[s[k]].attempts]]
  BY DEF Batches
<1>1. PICK s \in [1..n -> Ready] :
        /\ Selection(s)
        /\ batch = [k \in DOMAIN s |-> [id |-> s[k], attempts |-> queue[s[k]].attempts]]
  BY <1>0
<1>2. n \in Nat /\ DOMAIN s = 1..n  BY DeliveryQueueAssumption
<1>3. \A k \in 1..n : s[k] \in DOMAIN queue /\ queue[s[k]].status = "queued"
  BY <1>2 DEF Ready
<1>4. \A k \in 1..n : batch[k].id = s[k] /\ batch[k].attempts = queue[s[k]].attempts
  BY <1>1, <1>2
<1>5. batch \in [1..n -> BatchRow]
  <2>1. \A k \in 1..n : [id |-> s[k], attempts |-> queue[s[k]].attempts] \in BatchRow
    BY <1>3 DEF TypeOK, QueueRow, BatchRow
  <2> QED  BY <1>1, <1>2, <2>1
<1>6. batch \in Seq(BatchRow) /\ Len(batch) = n  BY <1>2, <1>5
<1>7. \A j, k \in 1..n : s[j] = s[k] => j = k  BY <1>1, <1>2 DEF Selection
<1> QED  BY <1>2, <1>3, <1>4, <1>6, <1>7

LEMMA QueueReadyStep ==
  ASSUME QInv, QueueReady PROVE QInv'
<1>1. UNCHANGED <<queue, transport, accepted, faults, missed>> /\ worker.at = "select"
  BY DEF QueueReady, At
<1>2. PICK batch \in Batches :
        worker' = IF batch = <<>> THEN Resting
                  ELSE [at |-> "claim", batch |-> batch, status |-> "queued"]
  BY DEF QueueReady
<1>3. /\ worker'.at = IF batch = <<>> THEN "rest" ELSE "claim"
      /\ worker'.batch = batch /\ worker'.status = "queued"
      /\ worker' = [at |-> worker'.at, batch |-> batch, status |-> "queued"]
  BY <1>2 DEF Resting
<1>4. batch \in Seq(BatchRow)  BY BatchesType DEF QInv
<1>5. TypeOK'
  <2>1. worker' \in WorkerState  BY <1>3, <1>4 DEF WorkerState, Place
  <2> QED  BY <1>1, <2>1 DEF QInv, TypeOK, WorkerState, BatchRow
<1>6. BatchCurrent'
  BY <1>1, <1>3, BatchesType DEF QInv, BatchCurrent, Delivering
<1>7. AttemptsLeft' /\ DeliveredAccepted'
  BY <1>1, <1>3 DEF QInv, AttemptsLeft, DeliveredAccepted, Attended, Delivering
<1>8. VerdictTrue' /\ TransportCurrent'
  BY <1>1, <1>3, QueueKept DEF Refreshing
<1> QED  BY <1>5, <1>6, <1>7, <1>8 DEF QInv

LEMMA ClaimQueueStep ==
  ASSUME QInv, ClaimQueue PROVE QInv'
<1> DEFINE c == Current.id
<1>1. /\ UNCHANGED <<transport, accepted, faults, missed>>
      /\ worker.at = "claim" /\ worker.batch # <<>>
  BY DEF ClaimQueue, At, QInv, BatchCurrent
<1>2. /\ 1 \in 1..Len(worker.batch) /\ c \in DOMAIN queue
      /\ queue[c].status = "queued" /\ queue[c].attempts = Current.attempts
  BY <1>1, BatchRows DEF QInv, BatchCurrent, Current
<1> DEFINE row  == [status |-> "delivering", wait |-> 0, age |-> 0,
                    attempts |-> queue[c].attempts + 1]
           head == [id |-> c, attempts |-> Current.attempts + 1]
<1>3. /\ queue' = [queue EXCEPT ![c] = row]
      /\ worker' = [worker EXCEPT !.at = "deliver", !.batch[1] = head]
  BY <1>2 DEF ClaimQueue
<1>4. queue[c].attempts + 1 \in 0..(MaxAttempts + MaxFaults)
      /\ queue[c].attempts + 1 <= MaxAttempts + faults
  <2>1. queue[c].attempts < MaxAttempts + faults
    BY <1>2 DEF QInv, AttemptsLeft
  <2>2. queue[c].attempts \in Nat /\ faults \in 0..MaxFaults
    BY <1>2, DeliveryQueueAssumption DEF QInv, TypeOK, QueueRow
  <2> QED  BY <2>1, <2>2, DeliveryQueueAssumption
<1>5. row \in QueueRow
  BY <1>4, DeliveryQueueAssumption DEF QueueRow, Lease
<1>6. head \in BatchRow
  BY <1>2, <1>4 DEF BatchRow
<1>7. /\ worker'.at = "deliver" /\ worker'.status = worker.status
      /\ worker'.batch = [worker.batch EXCEPT ![1] = head]
      /\ worker' = [at |-> "deliver", batch |-> worker'.batch, status |-> worker.status]
  BY <1>3 DEF QInv, TypeOK, WorkerState
<1>8. /\ worker'.batch \in Seq(BatchRow) /\ worker'.batch # <<>>
      /\ Len(worker'.batch) = Len(worker.batch)
      /\ worker'.batch[1] = head
      /\ \A k \in 1..Len(worker.batch) : k > 1 => worker'.batch[k] = worker.batch[k]
  BY <1>1, <1>6, <1>7, BatchRows, HeadReplaced DEF QInv
<1>9. /\ DOMAIN queue' = DOMAIN queue /\ queue'[c] = row
      /\ \A i \in DOMAIN queue : i # c => queue'[i] = queue[i]
      /\ \A i \in DOMAIN queue : queue'[i] \in QueueRow
      /\ VerdictTrue' /\ TransportCurrent'
  BY <1>1, <1>2, <1>3, <1>5, <1>7, OneRow DEF Final
<1>10. TypeOK'
  <2>1. worker' \in WorkerState
    BY <1>7, <1>8, BatchRows DEF QInv, WorkerState, Place
  <2> QED  BY <1>1, <1>9, <2>1 DEF QInv, TypeOK, WorkerState, BatchRow
<1>11. Len(worker.batch) \in Nat
       /\ \A k \in 1..Len(worker.batch) : worker.batch[k].id \in DOMAIN queue
  BY BatchRows DEF QInv
<1>12. \A k \in 1..Len(worker.batch) : k > 1 => worker.batch[k].id # c
  BY <1>2 DEF QInv, BatchCurrent, Current
<1>13. BatchCurrent'
  <2>1. \A j, k \in 1..Len(worker'.batch) : worker'.batch[j].id = worker'.batch[k].id => j = k
    BY <1>8, <1>11, <1>12 DEF QInv, BatchCurrent
  <2>2. \A k \in 1..Len(worker'.batch) : k > 1 =>
          /\ queue'[worker'.batch[k].id].status = "queued"
          /\ queue'[worker'.batch[k].id].attempts = worker'.batch[k].attempts
    BY <1>8, <1>9, <1>11, <1>12 DEF QInv, BatchCurrent
  <2>3. queue'[worker'.batch[1].id].status = "delivering"
        /\ queue'[worker'.batch[1].id].attempts = worker'.batch[1].attempts
    BY <1>2, <1>8, <1>9
  <2> QED  BY <1>7, <1>8, <2>1, <2>2, <2>3 DEF BatchCurrent, Delivering, Current
<1>14. AttemptsLeft'
  BY <1>1, <1>4, <1>7, <1>8, <1>9 DEF QInv, AttemptsLeft, Attended, Delivering, Current
<1>15. DeliveredAccepted'
  BY <1>1, <1>7, <1>9 DEF QInv, DeliveredAccepted
<1> QED  BY <1>9, <1>10, <1>13, <1>14, <1>15 DEF QInv

\* In all statements after the first two the worker has a current row.
LEMMA HasCurrent ==
  ASSUME QInv, worker.at \notin {"rest", "select"}
  PROVE  /\ worker.batch # <<>> /\ 1 \in 1..Len(worker.batch)
         /\ Current.id \in DOMAIN queue /\ Current.id \in Item
         /\ Current.attempts \in Nat
         /\ MessageOf(Current.id) \in DOMAIN transport
<1>1. worker.batch # <<>>  BY DEF QInv, BatchCurrent
<1>2. /\ 1 \in 1..Len(worker.batch) /\ Current.id \in DOMAIN queue
      /\ Current.attempts \in Nat
  BY <1>1, BatchRows, DeliveryQueueAssumption DEF QInv
<1> QED  BY <1>1, <1>2 DEF QInv, TypeOK, VerdictTrue

LEMMA AttemptsKept ==
  ASSUME QInv, queue' = queue, faults' \in Nat, faults <= faults',
         \A i : Attended(i) => Attended(i)' \/ faults < faults'
  PROVE  AttemptsLeft'
<1> SUFFICES ASSUME NEW i \in DOMAIN queue
             PROVE  /\ queue[i].attempts <= MaxAttempts + faults'
                    /\ queue[i].status = "queued" => queue[i].attempts < MaxAttempts + faults'
                    /\ queue[i].status = "delivering" /\ ~Attended(i)' =>
                         queue[i].attempts < MaxAttempts + faults'
  BY DEF AttemptsLeft
<1>1. queue[i].attempts \in Int /\ faults \in Int
  BY DEF QInv, TypeOK, QueueRow
<1> QED  BY <1>1, DeliveryQueueAssumption DEF QInv, AttemptsLeft

\* The rows left of a batch are still queued.
LEMMA NextItemBatch ==
  ASSUME QInv, worker.at \notin {"rest", "select"}, NextItem, queue' = queue
  PROVE  /\ BatchCurrent'
         /\ worker'.at \in {"rest", "claim"}
         /\ worker' \in WorkerState'
<1>1. /\ worker'.at \in {"rest", "claim"} /\ worker' \in WorkerState
      /\ worker'.at = "rest" <=> worker'.batch = <<>>
      /\ Len(worker'.batch) \in Nat
      /\ \A k \in 1..Len(worker'.batch) :
           k + 1 \in 1..Len(worker.batch) /\ worker'.batch[k] = worker.batch[k + 1]
  BY HasCurrent, BatchRows, NextItemType DEF QInv
<1>2. \A j, k \in 1..Len(worker'.batch) : worker'.batch[j].id = worker'.batch[k].id => j = k
  <2> TAKE j, k \in 1..Len(worker'.batch)
  <2> HAVE worker'.batch[j].id = worker'.batch[k].id
  <2>1. worker.batch[j + 1].id = worker.batch[k + 1].id  BY <1>1
  <2>2. j + 1 = k + 1  BY <1>1, <2>1 DEF QInv, BatchCurrent
  <2> QED  BY <1>1, <2>2
<1>3. \A k \in 1..Len(worker'.batch) :
        /\ queue'[worker'.batch[k].id].status = "queued"
        /\ queue'[worker'.batch[k].id].attempts = worker'.batch[k].attempts
  <2> TAKE k \in 1..Len(worker'.batch)
  <2>1. k + 1 > 1  BY <1>1
  <2> QED  BY <1>1, <2>1 DEF QInv, BatchCurrent
<1>4. BatchCurrent'
  BY <1>1, <1>2, <1>3 DEF BatchCurrent, Delivering
<1> QED  BY <1>1, <1>4 DEF WorkerState, BatchRow

\* The worker goes on with the same row, which does not change.
LEMMA SameBatch ==
  ASSUME QInv, worker.at \notin {"rest", "select", "claim"},
         worker'.at \in {"deliver", "complete", "retry", "count", "write"},
         worker'.batch = worker.batch, Delivering' => Delivering, queue' = queue
  PROVE  BatchCurrent'
BY HasCurrent DEF QInv, BatchCurrent, Delivering, Current

LEMMA DeliveredStep ==
  ASSUME QInv, Delivered PROVE QInv'
<1>1. /\ UNCHANGED <<queue, transport, faults, missed>> /\ worker.at = "deliver"
      /\ accepted' = [accepted EXCEPT ![Current.id] = @ + 1]
      /\ worker'.at = "complete" /\ worker'.batch = worker.batch
      /\ worker' \in WorkerState
  BY GotoType DEF Delivered, At, Place, QInv
<1>2. Current.id \in Item  BY <1>1, HasCurrent
<1>3. accepted' \in [Item -> Nat] /\ accepted'[Current.id] > 0
      /\ \A i \in Item : accepted[i] > 0 => accepted'[i] > 0
  <2>1. accepted \in [Item -> Nat]  BY DEF QInv, TypeOK
  <2> QED  BY <1>1, <1>2, <2>1
<1>4. TypeOK'
  BY <1>1, <1>3 DEF QInv, TypeOK, WorkerState, BatchRow
<1>5. BatchCurrent'
  BY <1>1, SameBatch DEF Delivering
<1>6. AttemptsLeft'
  BY <1>1 DEF QInv, AttemptsLeft, Attended, Delivering, Current
<1>7. DeliveredAccepted'
  BY <1>1, <1>3 DEF QInv, TypeOK, DeliveredAccepted, Current
<1>8. VerdictTrue' /\ TransportCurrent'
  BY <1>1, QueueKept DEF Refreshing
<1> QED  BY <1>4, <1>5, <1>6, <1>7, <1>8 DEF QInv

LEMMA DeliveryFailedStep ==
  ASSUME QInv, DeliveryFailed PROVE QInv'
<1>1. /\ UNCHANGED <<queue, transport, accepted, faults, missed>> /\ worker.at = "deliver"
      /\ worker'.at = "retry" /\ worker'.batch = worker.batch
      /\ worker' \in WorkerState
  BY GotoType DEF DeliveryFailed, At, Place, QInv
<1>2. TypeOK'
  BY <1>1 DEF QInv, TypeOK, WorkerState, BatchRow
<1>3. BatchCurrent'
  BY <1>1, SameBatch DEF Delivering
<1>4. AttemptsLeft' /\ DeliveredAccepted'
  BY <1>1 DEF QInv, AttemptsLeft, DeliveredAccepted, Attended, Delivering, Current
<1>5. VerdictTrue' /\ TransportCurrent'
  BY <1>1, QueueKept DEF Refreshing
<1> QED  BY <1>2, <1>3, <1>4, <1>5 DEF QInv

LEMMA CountRowsStep ==
  ASSUME QInv, CountRows PROVE QInv'
<1>1. UNCHANGED <<queue, transport, accepted, faults, missed>> /\ worker.at = "count"
  BY DEF CountRows, At
<1> DEFINE status == Derived(MessageOf(Current.id))
<1>2. status \in {"queued"} \cup Verdicts  BY DerivedType
<1>3. worker' = [worker EXCEPT !.at = "write", !.status = status]
  BY DEF CountRows
<1> HIDE DEF status
<1>4. /\ worker'.at = "write" /\ worker'.batch = worker.batch
      /\ worker'.status = status /\ worker' \in WorkerState
  BY <1>2, <1>3 DEF QInv, TypeOK, WorkerState, Place
<1>5. TypeOK'
  BY <1>1, <1>4 DEF QInv, TypeOK, WorkerState, BatchRow
<1>6. BatchCurrent'
  BY <1>1, <1>4, SameBatch DEF Delivering
<1>7. AttemptsLeft' /\ DeliveredAccepted'
  BY <1>1, <1>4 DEF QInv, AttemptsLeft, DeliveredAccepted, Attended, Delivering, Current
<1>8. VerdictTrue' /\ TransportCurrent'
  BY <1>1, <1>4, QueueKept DEF Refreshing, Current, status
<1> QED  BY <1>5, <1>6, <1>7, <1>8 DEF QInv

LEMMA WriteTransportStatusStep ==
  ASSUME QInv, WriteTransportStatus PROVE QInv'
<1> DEFINE m == MessageOf(Current.id)
<1>1. /\ UNCHANGED <<queue, accepted, faults>> /\ worker.at = "write" /\ NextItem
      /\ transport' = [transport EXCEPT ![m] = worker.status]
      /\ missed' = missed \ {m}
  BY DEF WriteTransportStatus, At
<1>2. m \in DOMAIN transport  BY <1>1, HasCurrent
<1>3. BatchCurrent' /\ worker'.at \in {"rest", "claim"} /\ worker' \in WorkerState'
  BY <1>1, NextItemBatch
<1>4. /\ DOMAIN transport' = DOMAIN transport
      /\ transport'[m] = worker.status
      /\ \A n \in DOMAIN transport : n # m => transport'[n] = transport[n]
      /\ worker.status = Derived(m)
  BY <1>1, <1>2 DEF QInv, VerdictTrue
<1>5. TypeOK'
  <2>1. \A n \in DOMAIN transport' : transport'[n] \in {"received", "queued"} \cup Verdicts
    BY <1>4, BatchRows DEF QInv, TypeOK
  <2> QED  BY <1>1, <1>3, <1>4, <2>1 DEF QInv, TypeOK
<1>6. AttemptsLeft' /\ DeliveredAccepted'
  BY <1>1, <1>3 DEF QInv, AttemptsLeft, DeliveredAccepted, Attended, Delivering
<1>7. \A n : Derived(n)' = Derived(n) /\ ItemsOf(n)' = ItemsOf(n) /\ Settled(n)' = Settled(n)
  BY <1>1, DerivedSame
<1>8. VerdictTrue'
  BY <1>1, <1>3, <1>4, <1>7 DEF QInv, VerdictTrue
<1>9. TransportCurrent'
  BY <1>1, <1>4, <1>7 DEF QInv, TransportCurrent, Refreshing
<1> QED  BY <1>3, <1>5, <1>6, <1>8, <1>9 DEF QInv

\* CompleteQueue and RetryQueue write the row the worker attends to.
LEMMA RowWritten ==
  ASSUME QInv, worker.at \in {"complete", "retry"}, Goto("count"),
         NEW row \in QueueRow, queue' = [queue EXCEPT ![Current.id] = row],
         UNCHANGED <<transport, accepted, faults, missed>>,
         row.status # "delivering",
         row.status = "delivered" => accepted[Current.id] > 0,
         row.attempts = queue[Current.id].attempts,
         row.status = "queued" => row.attempts < MaxAttempts
  PROVE  QInv'
<1> DEFINE c == Current.id
<1>1. /\ worker'.at = "count" /\ worker'.batch = worker.batch
      /\ worker' \in WorkerState
  BY GotoType DEF Place, QInv
<1>2. /\ worker.batch # <<>> /\ c \in DOMAIN queue
      /\ queue[c].status = "delivering"
  BY HasCurrent DEF QInv, BatchCurrent, Delivering
<1>3. /\ DOMAIN queue' = DOMAIN queue /\ queue'[c] = row
      /\ \A i \in DOMAIN queue : i # c => queue'[i] = queue[i]
      /\ \A i \in DOMAIN queue : queue'[i] \in QueueRow
      /\ VerdictTrue' /\ TransportCurrent'
  BY <1>1, <1>2, OneRow DEF Final, Current
<1>4. TypeOK'
  BY <1>1, <1>3 DEF QInv, TypeOK, WorkerState, BatchRow
<1>5. BatchCurrent'
  <2>1. \A k \in 1..Len(worker.batch) :
          worker.batch[k].id \in DOMAIN queue /\ (k > 1 => worker.batch[k].id # c)
    BY <1>2, HasCurrent, BatchRows DEF QInv, BatchCurrent, Current
  <2> QED  BY <1>1, <1>2, <1>3, <2>1 DEF QInv, BatchCurrent, Delivering
<1>6. AttemptsLeft'
  <2>1. faults \in Nat /\ queue[c].attempts <= MaxAttempts + faults
        /\ queue[c].attempts \in Nat
    BY <1>2, DeliveryQueueAssumption DEF QInv, TypeOK, AttemptsLeft, QueueRow
  <2>2. row.status = "queued" => row.attempts < MaxAttempts + faults
    BY <2>1, DeliveryQueueAssumption
  <2>3. \A i \in DOMAIN queue : i # c => ~Attended(i)
    BY DEF Attended
  <2> QED
    BY <1>1, <1>3, <2>1, <2>2, <2>3 DEF QInv, AttemptsLeft, Attended
<1>7. DeliveredAccepted'
  BY <1>1, <1>3 DEF QInv, DeliveredAccepted
<1> QED  BY <1>3, <1>4, <1>5, <1>6, <1>7 DEF QInv

LEMMA CompleteQueueStep ==
  ASSUME QInv, CompleteQueue PROVE QInv'
<1> DEFINE c == Current.id
           row == [status |-> "delivered", attempts |-> queue[c].attempts,
                   wait |-> 0, age |-> 0]
<1>1. c \in DOMAIN queue /\ queue[c] \in QueueRow
      /\ worker.at = "complete"
  BY HasCurrent DEF CompleteQueue, At, QInv, TypeOK
<1>2. queue' = [queue EXCEPT ![c] = row]
  BY <1>1 DEF CompleteQueue
<1>3. row \in QueueRow /\ row.status = "delivered" /\ row.attempts = queue[c].attempts
  BY <1>1, DeliveryQueueAssumption DEF QueueRow, Final, Lease
<1> HIDE DEF row
<1> QED  BY <1>1, <1>2, <1>3, RowWritten DEF CompleteQueue, QInv, DeliveredAccepted

LEMMA RetryQueueStep ==
  ASSUME QInv, RetryQueue PROVE QInv'
<1> DEFINE c == Current.id
           failed == Current.attempts >= MaxAttempts
           row == [status   |-> IF failed THEN "failed" ELSE "queued",
                   attempts |-> queue[c].attempts,
                   wait     |-> IF failed THEN 0 ELSE RetryDelay(Current.attempts),
                   age      |-> 0]
<1>1. /\ c \in DOMAIN queue /\ queue[c] \in QueueRow
      /\ worker.at = "retry" /\ Current.attempts \in Nat
      /\ queue[c].attempts = Current.attempts
  BY HasCurrent DEF RetryQueue, At, QInv, TypeOK, BatchCurrent, Delivering
<1>2. queue' = [queue EXCEPT ![c] = row]
  BY DEF RetryQueue
<1>3. row \in QueueRow
  BY <1>1, RetryDelayType, DeliveryQueueAssumption DEF QueueRow, Final, Lease
<1>4. /\ row.status \in {"failed", "queued"} /\ row.attempts = queue[c].attempts
      /\ row.status = "queued" => row.attempts < MaxAttempts
  BY <1>1, DeliveryQueueAssumption
<1> HIDE DEF row
<1> QED  BY <1>1, <1>2, <1>3, <1>4, RowWritten DEF RetryQueue

-----------------------------------------------------------------------------
(* What goes wrong. *)

LEMMA FaultType ==
  ASSUME QInv, Fault PROVE faults' \in 0..MaxFaults /\ faults < faults' /\ faults' \in Nat
BY DeliveryQueueAssumption DEF Fault, QInv, TypeOK

LEMMA DeliveredUnheardStep ==
  ASSUME QInv, DeliveredUnheard PROVE QInv'
<1>1. /\ UNCHANGED <<queue, transport, worker, missed>> /\ worker.at = "deliver"
      /\ accepted' = [accepted EXCEPT ![Current.id] = @ + 1]
      /\ faults' \in 0..MaxFaults /\ faults < faults' /\ faults' \in Nat
  BY FaultType DEF DeliveredUnheard, At
<1>2. Current.id \in Item  BY <1>1, HasCurrent
<1>3. accepted' \in [Item -> Nat]
      /\ \A i \in Item : accepted[i] > 0 => accepted'[i] > 0
  <2>1. accepted \in [Item -> Nat]  BY DEF QInv, TypeOK
  <2> QED  BY <1>1, <1>2, <2>1
<1>4. TypeOK'
  BY <1>1, <1>3 DEF QInv, TypeOK, WorkerState, BatchRow
<1>5. BatchCurrent'
  BY <1>1, SameBatch DEF Delivering
<1>6. AttemptsLeft'
  BY <1>1, AttemptsKept DEF QInv, TypeOK
<1>7. DeliveredAccepted'
  BY <1>1, <1>3 DEF QInv, TypeOK, DeliveredAccepted
<1>8. VerdictTrue' /\ TransportCurrent'
  BY <1>1, QueueKept DEF Refreshing
<1> QED  BY <1>4, <1>5, <1>6, <1>7, <1>8 DEF QInv

\* Nothing but the worker's place changes, and missed records what the worker
\* leaves undone.
LEMMA WorkerLeaves ==
  ASSUME QInv, Fault, UNCHANGED <<queue, transport, accepted>>, MissRefresh,
         worker' \in WorkerState', BatchCurrent',
         worker'.at \in {"rest", "claim", "count"},
         worker.at \in {"rest", "select"} => worker'.at \in {"rest"}
  PROVE  QInv'
<1>0. queue' = queue /\ transport' = transport /\ accepted' = accepted
  OBVIOUS
<1>1. faults' \in 0..MaxFaults /\ faults < faults' /\ faults' \in Nat
  BY FaultType
<1>2. /\ missed \subseteq missed' /\ missed' \subseteq DOMAIN transport
      /\ worker.at \in {"count", "write"} => MessageOf(Current.id) \in missed'
  BY HasCurrent DEF MissRefresh, QInv, TypeOK
<1>3. TypeOK'
  BY <1>0, <1>1, <1>2 DEF QInv, TypeOK
<1>4. AttemptsLeft'
  <2>1. \A i : Attended(i) => Attended(i)' \/ faults < faults'  BY <1>1
  <2> QED  BY <1>0, <1>1, <2>1, AttemptsKept DEF QInv, TypeOK
<1>5. DeliveredAccepted'
  BY <1>0 DEF QInv, DeliveredAccepted
<1>6. VerdictTrue' /\ TransportCurrent'
  <2>1. \A m : Refreshing(m) => Refreshing(m)' \/ m \in missed'
    BY <1>2 DEF Refreshing
  <2> QED  BY <1>0, <1>2, <2>1, QueueKept
<1> QED  BY <1>3, <1>4, <1>5, <1>6 DEF QInv

LEMMA StatementFailsStep ==
  ASSUME QInv, StatementFails PROVE QInv'
<1>1. UNCHANGED <<queue, transport, accepted>> /\ Fault /\ MissRefresh
  BY DEF StatementFails
<1>2. CASE worker.at \in {"claim", "count", "write"} /\ NextItem
  BY <1>1, <1>2, NextItemBatch, WorkerLeaves
<1>3. CASE worker.at \in {"complete", "retry"} /\ Goto("count")
  <2>1. /\ worker'.at = "count" /\ worker'.batch = worker.batch
        /\ worker' \in WorkerState
    BY <1>3, GotoType DEF Place, QInv
  <2>2. BatchCurrent'
    BY <1>1, <1>3, <2>1, SameBatch DEF Delivering
  <2>3. worker' \in WorkerState'  BY <1>1, <2>1 DEF WorkerState, BatchRow
  <2> QED  BY <1>1, <1>3, <2>1, <2>2, <2>3, WorkerLeaves
<1> QED  BY <1>2, <1>3 DEF StatementFails

LEMMA StopStep ==
  ASSUME QInv, Stop PROVE QInv'
<1>1. /\ UNCHANGED <<queue, transport, accepted>> /\ Fault /\ MissRefresh
      /\ worker' = Resting
  BY DEF Stop
<1>2. worker' \in WorkerState' /\ worker'.at = "rest" /\ worker'.batch = <<>>
  BY <1>1 DEF Resting, WorkerState, Place
<1>3. BatchCurrent'  BY <1>2 DEF BatchCurrent, Delivering
<1> QED  BY <1>1, <1>2, <1>3, WorkerLeaves

-----------------------------------------------------------------------------
(* The theorems. *)

LEMMA Stutters ==
  ASSUME QInv, UNCHANGED vars PROVE QInv'
<1>1. UNCHANGED <<queue, transport, worker, accepted, faults, missed>>
  BY DEF vars
<1>2. TypeOK'  BY <1>1 DEF QInv, TypeOK, WorkerState, BatchRow
<1>3. BatchCurrent'  BY <1>1 DEF QInv, BatchCurrent, Delivering, Current
<1>4. AttemptsLeft'  BY <1>1 DEF QInv, AttemptsLeft, Attended, Delivering, Current
<1>5. DeliveredAccepted'  BY <1>1 DEF QInv, DeliveredAccepted, Current
<1>6. VerdictTrue'  BY <1>1 DEF QInv, VerdictTrue, Derived, ItemsOf, Current
<1>7. TransportCurrent'
  BY <1>1 DEF QInv, TransportCurrent, Settled, Refreshing, Derived, ItemsOf, Current
<1> QED  BY <1>2, <1>3, <1>4, <1>5, <1>6, <1>7 DEF QInv

LEMMA NextStep == ASSUME QInv, [Next]_vars PROVE QInv'
<1>1. CASE UNCHANGED vars
  BY <1>1, Stutters
<1>2. ASSUME NEW m \in Message, NEW recipients \in SUBSET Recipient, Submit(m, recipients)
      PROVE  QInv'
  BY <1>2, SubmitStep
<1>3. CASE WorkerStep
  BY <1>3, RecoverStaleQueueStep, QueueReadyStep, ClaimQueueStep, DeliveredStep,
    DeliveryFailedStep, CompleteQueueStep, RetryQueueStep, CountRowsStep,
    WriteTransportStatusStep DEF WorkerStep
<1>4. CASE DeliveredUnheard \/ StatementFails \/ Stop
  BY <1>4, DeliveredUnheardStep, StatementFailsStep, StopStep
<1>5. CASE Tick
  BY <1>5, TickStep
<1> QED  BY <1>1, <1>2, <1>3, <1>4, <1>5 DEF Next, Step

\* QInv holds in every state of every behaviour of the queue and its worker.
THEOREM QueueInductive == Spec => []QInv
<1>1. Init => QInv  BY InitStep
<1>2. QInv /\ [Next]_vars => QInv'  BY NextStep
<1> QED  BY <1>1, <1>2, PTL DEF Spec

\* The tables keep their types; in particular a row is never tried more often
\* than MaxAttempts plus the number of things that went wrong.
THEOREM QueueTypeCorrect == Spec => []TypeOK
<1>1. QInv => TypeOK  BY DEF QInv
<1> QED  BY <1>1, QueueInductive, PTL

\* After the last recipient of a message is settled, its transport_status says
\* what became of them, unless the refresh was cut short.
THEOREM AlwaysTransportCurrent == Spec => []TransportCurrent
<1>1. QInv => TransportCurrent  BY DEF QInv
<1> QED  BY <1>1, QueueInductive, PTL

-----------------------------------------------------------------------------
(* The queue implements the outbox. *)

LEMMA OutboxInitially == Init => Promise!OutboxInit
<1> SUFFICES ASSUME Init PROVE Promise!OutboxInit  OBVIOUS
<1>1. outcome = [i \in {} |-> i]  BY DEF Init, outcome
<1>2. taken = {}  BY DEF Init, taken
<1>3. verdict = [m \in {} |-> m]  BY DEF Init, verdict
<1> QED  BY <1>1, <1>2, <1>3 DEF Promise!OutboxInit

\* A step that settles nobody, delivers nothing and publishes nothing.
LEMMA OutboxStutter ==
  ASSUME DOMAIN queue' = DOMAIN queue,
         \A i \in DOMAIN queue :
           \/ queue'[i].status = queue[i].status
           \/ queue[i].status \notin Final /\ queue'[i].status \notin Final,
         accepted' = accepted, transport' = transport
  PROVE  UNCHANGED Promise!outboxVars
<1>1. outcome' = outcome
  <2>1. \A i \in DOMAIN queue : Outcome(queue'[i]) = Outcome(queue[i])  BY DEF Outcome
  <2> QED  BY <2>1 DEF outcome
<1>2. taken' = taken  BY DEF taken
<1>3. verdict' = verdict  BY DEF verdict
<1> QED  BY <1>1, <1>2, <1>3 DEF Promise!outboxVars

LEMMA OutboxTake ==
  ASSUME QInv, worker.at = "deliver",
         accepted' = [accepted EXCEPT ![Current.id] = @ + 1],
         queue' = queue, transport' = transport
  PROVE  Promise!OutboxNext
<1> DEFINE c == Current.id
<1>1. c \in DOMAIN queue /\ c \in Item  BY HasCurrent
<1>2. outcome[c] = "pending" /\ c \in DOMAIN outcome
  BY <1>1 DEF QInv, BatchCurrent, Delivering, outcome, Outcome, Final
<1>3. taken' = taken \cup {c}
  <2>1. accepted \in [Item -> Nat]  BY DEF QInv, TypeOK
  <2>2. \A i \in Item : accepted'[i] > 0 <=> accepted[i] > 0 \/ i = c
    BY <1>1, <2>1
  <2> QED  BY <1>1, <2>2 DEF taken
<1>4. outcome' = outcome /\ verdict' = verdict  BY DEF outcome, verdict
<1>5. Promise!Take(c)  BY <1>2, <1>3, <1>4 DEF Promise!Take
<1> QED  BY <1>2, <1>5 DEF Promise!OutboxNext

\* The row the worker attends to is settled, or not settled.
LEMMA OutboxSettle ==
  ASSUME QInv, worker.at \in {"complete", "retry"},
         NEW row, queue' = [queue EXCEPT ![Current.id] = row],
         row.status \in Final \cup {"queued"},
         row.status = "delivered" => worker.at = "complete",
         accepted' = accepted, transport' = transport
  PROVE  Promise!OutboxNext \/ UNCHANGED Promise!outboxVars
<1> DEFINE c == Current.id
<1>1. /\ c \in DOMAIN queue /\ c \in Item
      /\ queue[c].status = "delivering"
  BY HasCurrent DEF QInv, BatchCurrent, Delivering
<1>2. /\ DOMAIN queue' = DOMAIN queue /\ queue'[c] = row
      /\ \A i \in DOMAIN queue : i # c => queue'[i] = queue[i]
  BY <1>1
<1>3. CASE row.status = "queued"
  <2>1. queue[c].status \notin Final /\ queue'[c].status \notin Final
    BY <1>1, <1>2, <1>3 DEF Final
  <2>2. \A i \in DOMAIN queue : i # c => queue'[i].status = queue[i].status
    BY <1>2
  <2> QED  BY <1>2, <2>1, <2>2, OutboxStutter
<1>4. CASE row.status \in Final
  <2>1. outcome' = [outcome EXCEPT ![c] = row.status]
    <3>1. Outcome(row) = row.status  BY <1>4 DEF Outcome
    <3> QED  BY <1>1, <1>2, <3>1 DEF outcome
  <2>2. c \in DOMAIN outcome /\ outcome[c] = "pending"
    BY <1>1 DEF outcome, Outcome, Final
  <2>3. row.status = "delivered" => c \in taken
    BY <1>1 DEF QInv, DeliveredAccepted, taken
  <2>4. taken' = taken /\ verdict' = verdict  BY DEF taken, verdict
  <2>5. Promise!Settle(c, row.status)
    BY <2>1, <2>2, <2>3, <2>4 DEF Promise!Settle
  <2> QED  BY <1>4, <2>2, <2>5 DEF Promise!OutboxNext, Final
<1> QED  BY <1>3, <1>4

LEMMA OutboxSubmit ==
  ASSUME QInv, NEW m \in Message, NEW recipients \in SUBSET Recipient,
         Submit(m, recipients)
  PROVE  Promise!OutboxNext
<1> DEFINE new == {m} \X recipients
<1>1. /\ queue' = [i \in DOMAIN queue \cup new |->
                    IF i \in DOMAIN queue THEN queue[i] ELSE NewRow]
      /\ m \notin DOMAIN transport
      /\ accepted' = accepted
  BY DEF Submit
<1>2. PICK status \in {"received", IF recipients = {} THEN "delivered" ELSE "queued"} :
        transport' = [n \in DOMAIN transport \cup {m} |->
                        IF n = m THEN status ELSE transport[n]]
  BY DEF Submit
<1>3. outcome' = [i \in DOMAIN outcome \cup new |->
                    IF i \in DOMAIN outcome THEN outcome[i] ELSE "pending"]
  <2>1. Outcome(NewRow) = "pending"  BY DEF Outcome, NewRow, Final
  <2>2. DOMAIN outcome = DOMAIN queue /\ DOMAIN outcome' = DOMAIN queue \cup new
    BY <1>1 DEF outcome
  <2>3. \A i \in DOMAIN queue \cup new :
          outcome'[i] = IF i \in DOMAIN queue THEN outcome[i] ELSE "pending"
    BY <1>1, <2>1 DEF outcome
  <2>4. outcome' = [i \in DOMAIN queue' |-> outcome'[i]]  BY DEF outcome
  <2> QED  BY <1>1, <2>2, <2>3, <2>4
<1>4. /\ PublicVerdict(status) \in {"none", "delivered"}
      /\ PublicVerdict(status) = "delivered" => recipients = {}
  BY DEF PublicVerdict, Verdicts
<1>5. /\ m \notin DOMAIN verdict
      /\ verdict' = [n \in DOMAIN verdict \cup {m} |->
                       IF n = m THEN PublicVerdict(status) ELSE verdict[n]]
  BY <1>1, <1>2 DEF verdict
<1>6. taken' = taken  BY <1>1 DEF taken
<1>7. Promise!Submit(m, recipients)
  BY <1>3, <1>4, <1>5, <1>6 DEF Promise!Submit
<1> QED  BY <1>7 DEF Promise!OutboxNext

\* The status a settled message gets is the summary of its outcomes.
LEMMA DerivedSummary ==
  ASSUME QInv, NEW m, Settled(m), ItemsOf(m) # {}
  PROVE  Promise!Summary(m) = Derived(m)
<1> DEFINE some(status) == \E i \in ItemsOf(m) : queue[i].status = status
           outcomes == {outcome[i] : i \in {j \in DOMAIN outcome : j[1] = m}}
<1>1. \A i \in ItemsOf(m) : i \in DOMAIN queue /\ queue[i].status \in Final
  BY DEF Settled, ItemsOf
<1>2. {j \in DOMAIN outcome : j[1] = m} = ItemsOf(m)
      /\ \A i \in ItemsOf(m) : outcome[i] = queue[i].status
  BY <1>1 DEF outcome, Outcome, ItemsOf, MessageOf
<1>3. /\ outcomes \subseteq Final
      /\ "delivered" \in outcomes <=> some("delivered")
      /\ "failed" \in outcomes <=> some("failed")
      /\ some("delivered") \/ some("failed")
  BY <1>1, <1>2 DEF Final
<1>4. ~some("queued") /\ ~some("delivering")
  BY <1>1 DEF Final
<1>5. Promise!Summary(m) = IF outcomes = {"delivered", "failed"} THEN "partial"
                           ELSE IF outcomes = {"failed"} THEN "failed" ELSE "delivered"
  BY DEF Promise!Summary
<1>6. Derived(m) = IF ~some("failed") THEN "delivered"
                   ELSE IF some("delivered") THEN "partial" ELSE "failed"
  BY <1>4 DEF Derived
<1>7. CASE some("delivered") /\ some("failed")
  <2>1. outcomes = {"delivered", "failed"}  BY <1>3, <1>7 DEF Final
  <2> QED  BY <1>5, <1>6, <1>7, <2>1
<1>8. CASE ~some("delivered")
  <2>1. outcomes = {"failed"} /\ some("failed")  BY <1>3, <1>8 DEF Final
  <2> QED  BY <1>5, <1>6, <1>8, <2>1
<1>9. CASE ~some("failed")
  <2>1. outcomes = {"delivered"}  BY <1>3, <1>9 DEF Final
  <2> QED  BY <1>5, <1>6, <1>9, <2>1
<1> QED  BY <1>7, <1>8, <1>9

LEMMA OutboxPublish ==
  ASSUME QInv, WriteTransportStatus
  PROVE  Promise!OutboxNext \/ UNCHANGED Promise!outboxVars
<1> DEFINE m == MessageOf(Current.id)
<1>1. /\ queue' = queue /\ accepted' = accepted /\ worker.at = "write"
      /\ transport' = [transport EXCEPT ![m] = worker.status]
  BY DEF WriteTransportStatus, At
<1>2. m \in DOMAIN transport /\ Current.id \in ItemsOf(m)
  BY <1>1, HasCurrent DEF ItemsOf
<1>3. worker.status = Derived(m)
  BY <1>1 DEF QInv, VerdictTrue
<1>4. outcome' = outcome /\ taken' = taken
  BY <1>1 DEF outcome, taken
<1>5. verdict' = [verdict EXCEPT ![m] = PublicVerdict(Derived(m))]
  BY <1>1, <1>2, <1>3 DEF verdict
<1>6. CASE verdict[m] = PublicVerdict(Derived(m))
  <2>1. verdict' = verdict  BY <1>2, <1>5, <1>6 DEF verdict
  <2> QED  BY <1>4, <2>1 DEF Promise!outboxVars
<1>7. CASE verdict[m] # PublicVerdict(Derived(m))
  <2>1. transport[m] \notin Verdicts /\ verdict[m] = "none"
    BY <1>2, <1>7 DEF QInv, VerdictTrue, verdict, PublicVerdict
  <2>2. Derived(m) \in Verdicts  BY <1>7, <2>1 DEF PublicVerdict
  <2>3. Settled(m)  BY <2>2, DerivedSettled DEF QInv
  <2>4. Promise!Summary(m) = PublicVerdict(Derived(m))
    BY <1>2, <2>2, <2>3, DerivedSummary DEF PublicVerdict
  <2>5. \A i \in DOMAIN outcome : i[1] = m => outcome[i] # "pending"
    BY <2>3 DEF outcome, Outcome, Settled, ItemsOf, MessageOf, Final
  <2>6. Promise!Publish(m)
    BY <1>4, <1>5, <2>1, <2>4, <2>5 DEF Promise!Publish
  <2>7. m \in DOMAIN verdict  BY <1>2 DEF verdict
  <2> QED  BY <2>6, <2>7 DEF Promise!OutboxNext
<1> QED  BY <1>6, <1>7

LEMMA OutboxStep ==
  ASSUME QInv, [Next]_vars PROVE [Promise!OutboxNext]_Promise!outboxVars
<1>1. ASSUME queue' = queue, accepted' = accepted, transport' = transport
      PROVE  UNCHANGED Promise!outboxVars
  BY <1>1 DEF Promise!outboxVars, outcome, taken, verdict
<1>2. CASE UNCHANGED vars
  BY <1>1, <1>2 DEF vars
<1>3. ASSUME NEW m \in Message, NEW recipients \in SUBSET Recipient, Submit(m, recipients)
      PROVE  Promise!OutboxNext
  BY <1>3, OutboxSubmit
<1>4. CASE Tick
  <2>1. \A i \in DOMAIN queue : queue'[i].status = queue[i].status
    BY <1>4, ElapsedType DEF Tick, QInv, TypeOK
  <2>2. DOMAIN queue' = DOMAIN queue /\ accepted' = accepted /\ transport' = transport
    BY <1>4 DEF Tick
  <2> QED  BY <2>1, <2>2, OutboxStutter
<1>5. CASE RecoverStaleQueue
  <2>1. \A i \in DOMAIN queue :
          \/ queue'[i].status = queue[i].status
          \/ queue[i].status \notin Final /\ queue'[i].status \notin Final
    <3> TAKE i \in DOMAIN queue
    <3>1. \/ queue'[i] = queue[i]
          \/ queue[i].status = "delivering" /\ queue'[i].status = "queued"
      BY <1>5 DEF RecoverStaleQueue, Stale
    <3> QED  BY <3>1 DEF Final
  <2>2. DOMAIN queue' = DOMAIN queue /\ accepted' = accepted /\ transport' = transport
    BY <1>5 DEF RecoverStaleQueue
  <2> QED  BY <2>1, <2>2, OutboxStutter
<1>6. CASE ClaimQueue
  <2>1. Current.id \in DOMAIN queue  BY <1>6, HasCurrent DEF ClaimQueue, At
  <2>2. \A i \in DOMAIN queue :
          \/ queue'[i].status = queue[i].status
          \/ queue[i].status \notin Final /\ queue'[i].status \notin Final
    <3> TAKE i \in DOMAIN queue
    <3>1. \/ queue'[i] = queue[i]
          \/ queue[i].status = "queued" /\ queue'[i].status = "delivering"
      BY <1>6, <2>1 DEF ClaimQueue
    <3> QED  BY <3>1 DEF Final
  <2>3. DOMAIN queue' = DOMAIN queue /\ accepted' = accepted /\ transport' = transport
    BY <1>6 DEF ClaimQueue
  <2> QED  BY <2>2, <2>3, OutboxStutter
<1>7. CASE Delivered \/ DeliveredUnheard
  BY <1>7, OutboxTake DEF Delivered, DeliveredUnheard, At
<1>8. CASE CompleteQueue
  BY <1>8, OutboxSettle DEF CompleteQueue, At, Final
<1>9. CASE RetryQueue
  <2> DEFINE failed == Current.attempts >= MaxAttempts
             row == [status   |-> IF failed THEN "failed" ELSE "queued",
                     attempts |-> queue[Current.id].attempts,
                     wait     |-> IF failed THEN 0 ELSE RetryDelay(Current.attempts),
                     age      |-> 0]
  <2>1. row.status \in {"failed", "queued"}  OBVIOUS
  <2>2. queue' = [queue EXCEPT ![Current.id] = row]  BY <1>9 DEF RetryQueue
  <2>3. worker.at = "retry" /\ accepted' = accepted /\ transport' = transport
    BY <1>9 DEF RetryQueue, At
  <2> HIDE DEF row
  <2> QED  BY <2>1, <2>2, <2>3, OutboxSettle DEF Final
<1>10. CASE WriteTransportStatus
  BY <1>10, OutboxPublish
<1>11. CASE QueueReady \/ DeliveryFailed \/ CountRows \/ StatementFails \/ Stop
  BY <1>1, <1>11 DEF QueueReady, DeliveryFailed, CountRows, StatementFails, Stop
<1> QED
  BY <1>2, <1>3, <1>4, <1>5, <1>6, <1>7, <1>8, <1>9, <1>10, <1>11
    DEF Next, Step, WorkerStep

\* The queue and its worker keep the promise of the outbox.
THEOREM QueueImplementsOutbox == Spec => PromiseKept
<1>1. Init => Promise!OutboxInit  BY OutboxInitially
<1>2. QInv /\ [Next]_vars => [Promise!OutboxNext]_Promise!outboxVars  BY OutboxStep
<1>3. Spec => []QInv  BY QueueInductive
<1> QED  BY <1>1, <1>2, <1>3, PTL DEF Spec, PromiseKept, Promise!OutboxSpec

-----------------------------------------------------------------------------
(***************************************************************************)
(* What a step can do to the row i, in terms of the row alone.             *)
(***************************************************************************)
SameRow(i) ==
  /\ i \in DOMAIN queue' <=> i \in DOMAIN queue
  /\ i \in DOMAIN queue => queue'[i] = queue[i]
SameAccepted(i) == accepted'[i] = accepted[i]

Untouched(i) ==
  /\ SameRow(i) /\ SameAccepted(i)
  /\ Attended(i)' = Attended(i) /\ Completing(i)' = Completing(i)

Submitted(i) ==
  /\ i \notin DOMAIN queue /\ i \in DOMAIN queue' /\ queue'[i] = NewRow
  /\ SameAccepted(i) /\ ~Attended(i)' /\ ~Completing(i)'

Recovered(i) ==
  /\ i \in DOMAIN queue /\ i \in DOMAIN queue' /\ Stale(i) /\ ~Attended(i)
  /\ queue'[i] = [status |-> "queued", attempts |-> queue[i].attempts, wait |-> 0, age |-> 0]
  /\ SameAccepted(i) /\ ~Attended(i)' /\ ~Completing(i)'

Begun(i) ==
  /\ i \in DOMAIN queue /\ i \in DOMAIN queue'
  /\ queue[i].status = "queued" /\ worker.at = "claim" /\ Current.id = i
  /\ queue'[i] = [status |-> "delivering", wait |-> 0, age |-> 0,
                  attempts |-> queue[i].attempts + 1]
  /\ SameAccepted(i) /\ Attended(i)' /\ ~Completing(i)'

Taken(i) ==
  /\ i \in DOMAIN queue /\ SameRow(i) /\ queue[i].status = "delivering"
  /\ accepted'[i] = accepted[i] + 1
  /\ Attended(i) /\ Attended(i)' /\ ~Completing(i)
  /\ Completing(i)' \/ faults' = faults + 1

Completed(i) ==
  /\ i \in DOMAIN queue /\ i \in DOMAIN queue' /\ Completing(i) /\ Attended(i)
  /\ queue'[i] = [status |-> "delivered", attempts |-> queue[i].attempts, wait |-> 0, age |-> 0]
  /\ SameAccepted(i) /\ ~Attended(i)' /\ ~Completing(i)'

Retried(i) ==
  /\ i \in DOMAIN queue /\ i \in DOMAIN queue' /\ Attended(i) /\ ~Completing(i)
  /\ queue[i].status = "delivering"
  /\ LET failed == queue[i].attempts >= MaxAttempts
     IN  queue'[i] = [status   |-> IF failed THEN "failed" ELSE "queued",
                      attempts |-> queue[i].attempts,
                      wait     |-> IF failed THEN 0 ELSE RetryDelay(queue[i].attempts),
                      age      |-> 0]
  /\ SameAccepted(i) /\ ~Attended(i)' /\ ~Completing(i)'

Dropped(i) ==
  /\ i \in DOMAIN queue /\ SameRow(i) /\ queue[i].status = "delivering"
  /\ SameAccepted(i)
  /\ Attended(i) /\ ~Attended(i)' /\ ~Completing(i)'
  /\ faults' = faults + 1

Aged(i) ==
  /\ i \in DOMAIN queue /\ i \in DOMAIN queue'
  /\ queue'[i] = Elapsed(queue[i])
  /\ SameAccepted(i) /\ Attended(i)' = Attended(i) /\ Completing(i)' = Completing(i)

\* What Step can do; time is the other thing.
RowStep(i) ==
  \/ Untouched(i) \/ Submitted(i) \/ Recovered(i) \/ Begun(i)
  \/ Taken(i) \/ Completed(i) \/ Retried(i) \/ Dropped(i)

LEMMA AcceptedType ==
  ASSUME QInv
  PROVE  accepted \in [Item -> Nat] /\ DOMAIN queue \subseteq Item /\ faults \in Nat
BY DeliveryQueueAssumption DEF QInv, TypeOK

\* A worker in any other place attends to no row.
LEMMA Unattended ==
  ASSUME worker.at \notin {"deliver", "complete", "retry"}, NEW i
  PROVE  ~Attended(i) /\ ~Completing(i)
BY DEF Attended, Delivering, Completing

LEMMA SubmitRows ==
  ASSUME QInv, NEW m \in Message, NEW recipients \in SUBSET Recipient, Submit(m, recipients)
  PROVE  faults' = faults /\ \A i \in Item : RowStep(i)
<1>1. /\ UNCHANGED <<worker, accepted, faults>>
      /\ queue' = [i \in DOMAIN queue \cup ({m} \X recipients) |->
                     IF i \in DOMAIN queue THEN queue[i] ELSE NewRow]
      /\ m \notin DOMAIN transport
  BY DEF Submit
<1>2. /\ DOMAIN queue' = DOMAIN queue \cup ({m} \X recipients)
      /\ \A i \in DOMAIN queue' : queue'[i] = IF i \in DOMAIN queue THEN queue[i] ELSE NewRow
  BY <1>1
<1> SUFFICES ASSUME NEW i \in Item
             PROVE  RowStep(i)
  BY <1>1
<1>3. CASE i \in DOMAIN queue' /\ i \notin DOMAIN queue
  <2>1. ~Attended(i) /\ ~Completing(i)
    BY <1>3, HasCurrent, Unattended DEF Attended, Delivering, Completing
  <2> QED BY <1>1, <1>2, <1>3, <2>1
       DEF RowStep, Submitted, SameAccepted, Attended, Delivering, Completing, Current
<1>4. CASE i \in DOMAIN queue
  BY <1>1, <1>2, <1>4
     DEF RowStep, Untouched, SameRow, SameAccepted, Attended, Delivering, Completing, Current
<1>5. CASE i \notin DOMAIN queue'
  BY <1>1, <1>2, <1>5
     DEF RowStep, Untouched, SameRow, SameAccepted, Attended, Delivering, Completing, Current
<1> QED BY <1>3, <1>4, <1>5

\* The worker goes on, and no row is attended to before or after.
LEMMA WorkerPasses ==
  ASSUME queue' = queue, accepted' = accepted,
         worker.at \notin {"deliver", "complete", "retry"},
         worker'.at \notin {"deliver", "complete", "retry"}
  PROVE  \A i \in Item : RowStep(i)
BY DEF RowStep, Untouched, SameRow, SameAccepted, Attended, Delivering, Completing

LEMMA RecoverRows ==
  ASSUME QInv, RecoverStaleQueue
  PROVE  faults' = faults /\ \A i \in Item : RowStep(i)
<1>1. /\ UNCHANGED <<accepted, faults>> /\ worker.at = "rest" /\ worker'.at = "select"
      /\ queue' = [i \in DOMAIN queue |->
                     IF Stale(i)
                     THEN [status |-> "queued", attempts |-> queue[i].attempts,
                           wait |-> 0, age |-> 0]
                     ELSE queue[i]]
  BY GotoType DEF RecoverStaleQueue, At, QInv, Place
<1> SUFFICES ASSUME NEW i \in Item
             PROVE  RowStep(i)
  BY <1>1
<1>2. ~Attended(i) /\ ~Completing(i) /\ ~Attended(i)' /\ ~Completing(i)'
  BY <1>1 DEF Attended, Delivering, Completing
<1>3. CASE i \in DOMAIN queue /\ Stale(i)
  BY <1>1, <1>2, <1>3 DEF RowStep, Recovered, SameAccepted
<1>4. CASE ~(i \in DOMAIN queue /\ Stale(i))
  <2>1. DOMAIN queue' = DOMAIN queue
    BY <1>1
  <2>2. i \in DOMAIN queue => queue'[i] = queue[i]
    BY <1>1, <1>4
  <2>3. SameRow(i) /\ SameAccepted(i)
    BY <1>1, <2>1, <2>2 DEF SameRow, SameAccepted
  <2>4. Attended(i)' = Attended(i) /\ Completing(i)' = Completing(i)
    BY <1>1 DEF Attended, Delivering, Completing
  <2> QED BY <2>3, <2>4 DEF RowStep, Untouched
<1> QED BY <1>3, <1>4

LEMMA QueueReadyRows ==
  ASSUME QInv, QueueReady
  PROVE  faults' = faults /\ \A i \in Item : RowStep(i)
<1>1. UNCHANGED <<queue, accepted, faults>> /\ worker.at = "select"
        /\ worker'.at \in {"rest", "claim"}
  BY DEF QueueReady, At, Resting
<1> QED BY <1>1, WorkerPasses

LEMMA ClaimRows ==
  ASSUME QInv, ClaimQueue
  PROVE  faults' = faults /\ \A i \in Item : RowStep(i)
<1> DEFINE c == Current.id
<1>1. UNCHANGED <<accepted, faults>> /\ worker.at = "claim" /\ worker.batch # <<>>
  BY DEF ClaimQueue, At, QInv, BatchCurrent
<1>2. /\ 1 \in 1..Len(worker.batch) /\ c \in DOMAIN queue /\ queue[c].status = "queued"
      /\ worker \in WorkerState /\ worker.batch \in Seq(BatchRow)
  BY <1>1, BatchRows DEF QInv, TypeOK, BatchCurrent, Current
<1>3. /\ queue' = [queue EXCEPT ![c] = [status |-> "delivering", wait |-> 0, age |-> 0,
                                        attempts |-> queue[c].attempts + 1]]
      /\ worker' = [worker EXCEPT !.at = "deliver",
                    !.batch[1] = [id |-> c, attempts |-> Current.attempts + 1]]
  BY <1>2 DEF ClaimQueue
<1>4. worker'.at = "deliver" /\ worker'.batch[1].id = c
  BY <1>2, <1>3 DEF WorkerState
<1> SUFFICES ASSUME NEW i \in Item
             PROVE  RowStep(i)
  BY <1>1
<1>5. CASE i = c
  BY <1>1, <1>2, <1>3, <1>4, <1>5
     DEF RowStep, Begun, SameAccepted, Attended, Delivering, Completing, Current
<1>6. CASE i # c
  BY <1>1, <1>2, <1>3, <1>4, <1>6
     DEF RowStep, Untouched, SameRow, SameAccepted, Attended, Delivering, Completing, Current
<1> QED BY <1>5, <1>6

\* At most the row attended to changes, or its acceptance.
LEMMA OtherRows ==
  ASSUME NEW c, c = Current.id,
         \A i \in Item : i # c => SameRow(i) /\ SameAccepted(i),
         worker'.batch = worker.batch \/ worker'.at \notin {"deliver", "complete", "retry"},
         NEW i \in Item, i # c
  PROVE  RowStep(i)
BY DEF RowStep, Untouched, Attended, Delivering, Completing, Current

LEMMA DeliverRows ==
  ASSUME QInv, Delivered \/ DeliveryFailed
  PROVE  faults' = faults /\ \A i \in Item : RowStep(i)
<1> DEFINE c == Current.id
<1>1. UNCHANGED <<queue, faults>> /\ worker.at = "deliver"
  BY DEF Delivered, DeliveryFailed, At
<1>2. /\ c \in DOMAIN queue /\ c \in Item /\ queue[c].status = "delivering"
      /\ Attended(c) /\ ~Completing(c)
  BY <1>1, HasCurrent DEF QInv, BatchCurrent, Attended, Delivering, Completing
<1>3. worker'.batch = worker.batch /\ worker'.at \in {"complete", "retry"}
  BY GotoType DEF Delivered, DeliveryFailed, QInv, Place
<1>4. Attended(c)'
  BY <1>3 DEF Attended, Delivering, Current
<1>5. CASE Delivered
  <2>1. accepted' = [accepted EXCEPT ![c] = @ + 1] /\ worker'.at = "complete"
    BY <1>5, GotoType DEF Delivered, QInv, Place
  <2>2. Taken(c)
    BY <1>1, <1>2, <1>3, <1>4, <2>1, AcceptedType
       DEF Taken, SameRow, Completing, Current
  <2>3. \A i \in Item : i # c => SameRow(i) /\ SameAccepted(i)
    BY <1>1, <2>1, AcceptedType DEF SameRow, SameAccepted
  <2> QED BY <1>1, <1>3, <2>2, <2>3, OtherRows DEF RowStep
<1>6. CASE DeliveryFailed
  <2>1. accepted' = accepted /\ worker'.at = "retry"
    BY <1>6, GotoType DEF DeliveryFailed, QInv, Place
  <2>2. Untouched(c)
    BY <1>1, <1>2, <1>4, <2>1 DEF Untouched, SameRow, SameAccepted, Completing
  <2>3. \A i \in Item : i # c => SameRow(i) /\ SameAccepted(i)
    BY <1>1, <2>1 DEF SameRow, SameAccepted
  <2> QED BY <1>1, <1>3, <2>2, <2>3, OtherRows DEF RowStep
<1> QED BY <1>5, <1>6

LEMMA UnheardRows ==
  ASSUME QInv, DeliveredUnheard
  PROVE  faults' = faults + 1 /\ \A i \in Item : RowStep(i)
<1> DEFINE c == Current.id
<1>1. /\ UNCHANGED <<queue, worker>> /\ worker.at = "deliver" /\ faults' = faults + 1
      /\ accepted' = [accepted EXCEPT ![c] = @ + 1]
  BY DEF DeliveredUnheard, At, Fault
<1>2. /\ c \in DOMAIN queue /\ c \in Item /\ queue[c].status = "delivering"
      /\ Attended(c) /\ Attended(c)' /\ ~Completing(c)
  BY <1>1, HasCurrent DEF QInv, BatchCurrent, Attended, Delivering, Completing, Current
<1>3. Taken(c)
  BY <1>1, <1>2, AcceptedType DEF Taken, SameRow
<1>4. \A i \in Item : i # c => SameRow(i) /\ SameAccepted(i)
  BY <1>1, AcceptedType DEF SameRow, SameAccepted
<1> QED BY <1>1, <1>3, <1>4, OtherRows DEF RowStep

LEMMA WriteRows ==
  ASSUME QInv, CompleteQueue \/ RetryQueue
  PROVE  faults' = faults /\ \A i \in Item : RowStep(i)
<1> DEFINE c == Current.id
<1>1. /\ UNCHANGED <<accepted, faults>> /\ worker.at \in {"complete", "retry"}
      /\ worker'.at = "count"
  BY GotoType DEF CompleteQueue, RetryQueue, At, QInv, Place
<1>2. /\ c \in DOMAIN queue /\ c \in Item /\ queue[c].status = "delivering"
      /\ queue[c].attempts = Current.attempts
      /\ Attended(c) /\ ~Attended(c)' /\ ~Completing(c)'
  BY <1>1, HasCurrent DEF QInv, BatchCurrent, Attended, Delivering, Completing
<1>3. CASE CompleteQueue
  <2>1. queue' = [queue EXCEPT ![c] = [status |-> "delivered", attempts |-> queue[c].attempts,
                                       wait |-> 0, age |-> 0]]
        /\ Completing(c)
    BY <1>3 DEF CompleteQueue, At, Completing
  <2>2. Completed(c)
    BY <1>1, <1>2, <2>1 DEF Completed, SameAccepted
  <2>3. \A i \in Item : i # c => SameRow(i) /\ SameAccepted(i)
    BY <1>1, <2>1 DEF SameRow, SameAccepted
  <2> QED BY <1>1, <2>2, <2>3, OtherRows DEF RowStep
<1>4. CASE RetryQueue
  <2> DEFINE failed == queue[c].attempts >= MaxAttempts
             row == [status   |-> IF failed THEN "failed" ELSE "queued",
                     attempts |-> queue[c].attempts,
                     wait     |-> IF failed THEN 0 ELSE RetryDelay(queue[c].attempts),
                     age      |-> 0]
  <2>1. queue' = [queue EXCEPT ![c] = row] /\ ~Completing(c)
    BY <1>2, <1>4 DEF RetryQueue, At, Completing
  <2> HIDE DEF row
  <2>2. queue'[c] = row /\ c \in DOMAIN queue'
    BY <1>2, <2>1
  <2>3. Retried(c)
    BY <1>1, <1>2, <2>1, <2>2 DEF Retried, SameAccepted, row
  <2>4. \A i \in Item : i # c => SameRow(i) /\ SameAccepted(i)
    BY <1>1, <2>1 DEF SameRow, SameAccepted
  <2> QED BY <1>1, <2>3, <2>4, OtherRows DEF RowStep
<1> QED BY <1>3, <1>4

LEMMA RefreshRows ==
  ASSUME QInv, CountRows \/ WriteTransportStatus
  PROVE  faults' = faults /\ \A i \in Item : RowStep(i)
<1>1. UNCHANGED <<queue, accepted, faults>> /\ worker.at \in {"count", "write"}
  BY DEF CountRows, WriteTransportStatus, At
<1>2. CASE CountRows
  <2>1. worker'.at = "write"
    BY <1>2 DEF CountRows, QInv, TypeOK, WorkerState
  <2> QED BY <1>1, <2>1, WorkerPasses
<1>3. CASE WriteTransportStatus
  <2>1. worker'.at \in {"rest", "claim"}
    BY <1>1, <1>3, NextItemBatch DEF WriteTransportStatus
  <2> QED BY <1>1, <2>1, WorkerPasses
<1> QED BY <1>2, <1>3

\* The row attended to, if there is one, is left as it is.
LEMMA FaultRows ==
  ASSUME QInv, StatementFails \/ Stop
  PROVE  faults' = faults + 1 /\ \A i \in Item : RowStep(i)
<1>1. UNCHANGED <<queue, accepted>> /\ faults' = faults + 1
  BY DEF StatementFails, Stop, Fault
<1>2. worker'.at \in {"rest", "claim", "count"}
  <2>1. CASE Stop
    BY <2>1 DEF Stop, Resting
  <2>2. CASE worker.at \in {"claim", "count", "write"} /\ NextItem
    BY <1>1, <2>2, NextItemBatch
  <2>3. CASE Goto("count")
    BY <2>3, GotoType DEF QInv, Place
  <2> QED BY <2>1, <2>2, <2>3 DEF StatementFails
<1> SUFFICES ASSUME NEW i \in Item
             PROVE  RowStep(i)
  BY <1>1
<1>3. ~Attended(i)' /\ ~Completing(i)' /\ SameRow(i) /\ SameAccepted(i)
  BY <1>1, <1>2 DEF Attended, Delivering, Completing, SameRow, SameAccepted
<1>4. CASE Attended(i)
  <2>1. i \in DOMAIN queue /\ queue[i].status = "delivering"
    BY <1>4, HasCurrent DEF QInv, BatchCurrent, Attended, Delivering
  <2> QED BY <1>1, <1>3, <1>4, <2>1 DEF RowStep, Dropped
<1>5. CASE ~Attended(i)
  BY <1>3, <1>5 DEF RowStep, Untouched, Attended, Delivering, Completing
<1> QED BY <1>4, <1>5

LEMMA StepRows ==
  ASSUME QInv, Step
  PROVE  faults' \in {faults, faults + 1} /\ \A i \in Item : RowStep(i)
BY SubmitRows, RecoverRows, QueueReadyRows, ClaimRows, DeliverRows, WriteRows, RefreshRows,
   UnheardRows, FaultRows DEF Step, WorkerStep

LEMMA TickRows ==
  ASSUME QInv, Tick
  PROVE  /\ faults' = faults /\ DOMAIN queue' = DOMAIN queue
         /\ \A i \in DOMAIN queue : Aged(i)
BY DEF Tick, Aged, SameAccepted, Attended, Delivering, Completing, Current

-----------------------------------------------------------------------------
(* What went wrong pays for every further copy and attempt. *)

LEMMA OwedType ==
  ASSUME QInv
  PROVE  /\ [i \in Item |-> CopiesOwed(i)] \in [Item -> Nat]
         /\ [i \in Item |-> AttemptsOwed(i)] \in [Item -> Nat]
<1>1. \A i \in Item : CopiesOwed(i) \in Nat
  BY AcceptedType DEF CopiesOwed, Excess
<1>2. \A i \in Item : AttemptsOwed(i) \in Nat
  BY DeliveryQueueAssumption DEF QInv, TypeOK, QueueRow, AttemptsOwed, Excess
<1> QED BY <1>1, <1>2

LEMMA ItemFinite == IsFiniteSet(Item)
BY DeliveryQueueAssumption, FS_Product DEF Item

LEMMA SumsCompared ==
  ASSUME NEW S, IsFiniteSet(S), NEW f \in [S -> Nat], NEW h \in [S -> Nat],
         \A x \in S : h[x] <= f[x]
  PROVE  /\ SumFunction(h) <= SumFunction(f)
         /\ SumFunction(h) \in Nat /\ SumFunction(f) \in Nat
<1>1. S \in SUBSET (S \cap S) /\ S \in SUBSET S /\ DOMAIN f = S /\ DOMAIN h = S
  OBVIOUS
<1>2. SumFunctionOnSet(h, S) <= SumFunctionOnSet(f, S)
  BY <1>1, SumMonotone
<1> QED BY <1>1, <1>2, SumType DEF SumFunction

\* A sum grows by one at most if only one of its terms does.
LEMMA SumsOneApart ==
  ASSUME NEW S, IsFiniteSet(S), NEW f \in [S -> Nat], NEW h \in [S -> Nat], NEW c,
         \A x \in S : x # c => h[x] <= f[x],
         \A x \in S : h[x] <= f[x] + 1
  PROVE  /\ SumFunction(h) <= SumFunction(f) + 1
         /\ SumFunction(h) \in Nat /\ SumFunction(f) \in Nat
<1>1. S \in SUBSET (S \cap S) /\ S \in SUBSET S /\ DOMAIN f = S /\ DOMAIN h = S
  OBVIOUS
<1>2. \A x \in S : IF x = c THEN h[x] <= f[x] + 1 ELSE h[x] <= f[x]
  OBVIOUS
<1>3. SumFunctionOnSet(h, S) <= SumFunctionOnSet(f, S) + 1
  BY <1>1, <1>2, SumOneMore
<1> QED BY <1>1, <1>3, SumType DEF SumFunction

\* What is paid for before a step is paid for after it.
LEMMA StillPaid ==
  ASSUME NEW f \in [Item -> Nat], NEW h \in [Item -> Nat], NEW n \in Nat,
         NEW p \in {n, n + 1}, NEW c, SumFunction(f) <= n,
         \A i \in Item : h[i] <= f[i] \/ (i = c /\ p = n + 1 /\ h[i] <= f[i] + 1)
  PROVE  SumFunction(h) <= p
<1>1. CASE p = n
  <2>1. \A i \in Item : h[i] <= f[i]
    BY <1>1
  <2>2. SumFunction(h) <= SumFunction(f) /\ SumFunction(h) \in Nat /\ SumFunction(f) \in Nat
    BY <2>1, ItemFinite, SumsCompared
  <2> QED BY <1>1, <2>2
<1>2. CASE p = n + 1
  <2>1. (\A i \in Item : i # c => h[i] <= f[i]) /\ \A i \in Item : h[i] <= f[i] + 1
    BY <1>2
  <2>2. /\ SumFunction(h) <= SumFunction(f) + 1
        /\ SumFunction(h) \in Nat /\ SumFunction(f) \in Nat
    BY <2>1, ItemFinite, SumsOneApart
  <2> QED BY <1>2, <2>2
<1> QED BY <1>1, <1>2

\* What is owed for one row.
LEMMA CopiesStep ==
  ASSUME QInv, NEW i \in Item, RowStep(i),
         i \notin DOMAIN queue => accepted[i] = 0
  PROVE  /\ i \notin DOMAIN queue' => accepted'[i] = 0
         /\ \/ CopiesOwed(i)' <= CopiesOwed(i)
            \/ i = Current.id /\ faults' = faults + 1 /\ CopiesOwed(i)' <= CopiesOwed(i) + 1
<1>1. accepted[i] \in Nat
  BY AcceptedType
<1>2. CASE Untouched(i)
  BY <1>1, <1>2
     DEF Untouched, SameRow, SameAccepted, CopiesOwed, Deliverable, Excess
<1>3. CASE Submitted(i)
  BY <1>3 DEF Submitted, SameAccepted, CopiesOwed, Deliverable, Excess
<1>4. CASE Recovered(i)
  BY <1>1, <1>4
     DEF Recovered, Stale, SameAccepted, CopiesOwed, Deliverable, Excess, Final,
         Attended, Delivering, Completing
<1>5. CASE Begun(i)
  BY <1>1, <1>5
     DEF Begun, SameAccepted, CopiesOwed, Deliverable, Excess, Final, Completing
<1>6. CASE Taken(i)
  BY <1>1, <1>6
     DEF Taken, SameRow, CopiesOwed, Deliverable, Excess, Final, Attended
<1>7. CASE Completed(i)
  BY <1>1, <1>7
     DEF Completed, SameAccepted, CopiesOwed, Deliverable, Excess, Final
<1>8. CASE Retried(i)
  BY <1>1, <1>8
     DEF Retried, SameAccepted, CopiesOwed, Deliverable, Excess, Final
<1>9. CASE Dropped(i)
  BY <1>1, <1>9
     DEF Dropped, SameRow, SameAccepted, CopiesOwed, Deliverable, Excess, Final, Attended
<1> QED BY <1>2, <1>3, <1>4, <1>5, <1>6, <1>7, <1>8, <1>9 DEF RowStep

LEMMA AttemptsStep ==
  ASSUME QInv, NEW i \in Item, RowStep(i)
  PROVE  \/ AttemptsOwed(i)' <= AttemptsOwed(i)
         \/ i = Current.id /\ faults' = faults + 1 /\ AttemptsOwed(i)' <= AttemptsOwed(i) + 1
<1> USE DeliveryQueueAssumption
<1>1. i \in DOMAIN queue => queue[i].attempts \in Nat
  BY DEF QInv, TypeOK, QueueRow
<1>2. CASE Untouched(i)
  BY <1>1, <1>2 DEF Untouched, SameRow, AttemptsOwed, Claimable, Excess
<1>3. CASE Submitted(i)
  BY <1>3 DEF Submitted, NewRow, AttemptsOwed, Claimable, Excess
<1>4. CASE Recovered(i)
  BY <1>1, <1>4 DEF Recovered, Stale, AttemptsOwed, Claimable, Excess, Final
<1>5. CASE Begun(i)
  BY <1>1, <1>5 DEF Begun, AttemptsOwed, Claimable, Excess, Final, Attended, Delivering
<1>6. CASE Taken(i)
  BY <1>1, <1>6 DEF Taken, SameRow, AttemptsOwed, Claimable, Excess
<1>7. CASE Completed(i)
  BY <1>1, <1>7 DEF Completed, AttemptsOwed, Claimable, Excess, Final
<1>8. CASE Retried(i)
  BY <1>1, <1>8 DEF Retried, AttemptsOwed, Claimable, Excess, Final
<1>9. CASE Dropped(i)
  BY <1>1, <1>9 DEF Dropped, SameRow, AttemptsOwed, Claimable, Excess, Final, Attended
<1> QED BY <1>2, <1>3, <1>4, <1>5, <1>6, <1>7, <1>8, <1>9 DEF RowStep

LEMMA FaultsPayInit == Init => FaultsPay
<1> SUFFICES ASSUME Init
             PROVE  FaultsPay
  OBVIOUS
<1> DEFINE zero == [i \in Item |-> 0]
<1>1. \A i \in Item : CopiesOwed(i) = 0 /\ AttemptsOwed(i) = 0
  BY DEF Init, CopiesOwed, AttemptsOwed, Deliverable, Excess
<1>2. [i \in Item |-> CopiesOwed(i)] = zero /\ [i \in Item |-> AttemptsOwed(i)] = zero
  BY <1>1
<1>3. zero \in [Item -> Nat] /\ DOMAIN zero = Item /\ \A i \in Item : zero[i] = 0
  OBVIOUS
<1> HIDE DEF zero
<1>4. Cardinality(Item) \in Nat /\ Item \in SUBSET Item
  BY ItemFinite, FS_CardinalityType
<1>5. SumFunctionOnSet(zero, Item) = 0 * Cardinality(Item)
  BY <1>3, <1>4, ItemFinite, SumConstant
<1>6. SumFunction(zero) = 0
  BY <1>3, <1>4, <1>5 DEF SumFunction
<1> QED BY <1>2, <1>6 DEF FaultsPay, Init

LEMMA FaultsPayStep ==
  ASSUME QInv, QInv', FaultsPay, Step
  PROVE  FaultsPay'
<1> DEFINE f == [i \in Item |-> CopiesOwed(i)]
           g == [i \in Item |-> AttemptsOwed(i)]
           h == [i \in Item |-> CopiesOwed(i)']
           k == [i \in Item |-> AttemptsOwed(i)']
           c == Current.id
<1>0. \A i \in Item \ DOMAIN queue' : accepted'[i] = 0
  BY CopiesStep, StepRows DEF FaultsPay
<1>1. f \in [Item -> Nat] /\ g \in [Item -> Nat]
  BY OwedType
<1>2. h \in [Item -> Nat]
  <2>1. accepted' \in [Item -> Nat]
    BY DEF QInv, TypeOK
  <2> QED BY <2>1 DEF CopiesOwed, Excess
<1>3. k \in [Item -> Nat]
  <2>1. \A i \in DOMAIN queue' : queue'[i].attempts \in Nat
    BY DeliveryQueueAssumption DEF QInv, TypeOK, QueueRow
  <2> QED BY <2>1, DeliveryQueueAssumption DEF AttemptsOwed, Excess
<1>4. faults \in Nat /\ faults' \in {faults, faults + 1}
  BY AcceptedType, StepRows
<1>5. \A i \in Item :
        h[i] <= f[i] \/ (i = c /\ faults' = faults + 1 /\ h[i] <= f[i] + 1)
  BY CopiesStep, StepRows DEF FaultsPay
<1>6. \A i \in Item :
        k[i] <= g[i] \/ (i = c /\ faults' = faults + 1 /\ k[i] <= g[i] + 1)
  BY AttemptsStep, StepRows
<1>7. SumFunction(f) <= faults /\ SumFunction(g) <= faults
  BY DEF FaultsPay
<1> HIDE DEF f, g, h, k, c
<1>8. SumFunction(h) <= faults'
  <2>1. f \in [Item -> Nat] /\ SumFunction(f) <= faults
    BY <1>1, <1>7
  <2> QED BY <1>2, <1>4, <1>5, <2>1, StillPaid
<1>9. SumFunction(k) <= faults'
  BY <1>1, <1>3, <1>4, <1>6, <1>7, StillPaid
<1> QED BY <1>0, <1>8, <1>9 DEF FaultsPay, h, k

LEMMA FaultsPayTick ==
  ASSUME QInv, FaultsPay, Tick \/ UNCHANGED vars
  PROVE  FaultsPay'
<1>1. /\ UNCHANGED <<worker, accepted, faults>> /\ DOMAIN queue' = DOMAIN queue
      /\ \A i \in DOMAIN queue : /\ queue'[i].status = queue[i].status
                                 /\ queue'[i].attempts = queue[i].attempts
  BY DEF Tick, Elapsed, vars
<1>2. \A i \in Item : CopiesOwed(i)' = CopiesOwed(i) /\ AttemptsOwed(i)' = AttemptsOwed(i)
  BY <1>1 DEF CopiesOwed, AttemptsOwed, Deliverable, Claimable, Attended, Delivering,
              Completing, Current
<1>3. /\ [i \in Item |-> CopiesOwed(i)]' = [i \in Item |-> CopiesOwed(i)]
      /\ [i \in Item |-> AttemptsOwed(i)]' = [i \in Item |-> AttemptsOwed(i)]
  BY <1>2
<1> QED BY <1>1, <1>3 DEF FaultsPay

\* What follows from FaultsPay: less is spent than is owed.
LEMMA CopiesAccounted ==
  ASSUME QInv, FaultsPay
  PROVE  DuplicatesAccounted
<1> DEFINE f == [i \in Item |-> Excess(accepted[i], 1)]
           h == [i \in Item |-> CopiesOwed(i)]
<1>1. \A i \in Item : accepted[i] \in Nat
  BY AcceptedType
<1>2. f \in [Item -> Nat] /\ h \in [Item -> Nat] /\ \A i \in Item : f[i] <= h[i]
  BY <1>1 DEF CopiesOwed, Excess
<1>3. SumFunction(h) <= faults
  BY DEF FaultsPay
<1>4. faults \in Nat /\ Item \in SUBSET (Item \cap Item) /\ Item \in SUBSET Item
  BY AcceptedType
<1> HIDE DEF f, h
<1>5. SumFunctionOnSet(f, Item) <= SumFunctionOnSet(h, Item)
  BY <1>2, <1>4, ItemFinite, SumMonotone
<1>6. SumFunctionOnSet(f, Item) \in Nat /\ SumFunctionOnSet(h, Item) \in Nat
  BY <1>2, <1>4, ItemFinite, SumType
<1>7. DOMAIN f = Item /\ DOMAIN h = Item
  BY DEF f, h
<1>8. SumFunction(f) <= faults
  BY <1>3, <1>4, <1>5, <1>6, <1>7 DEF SumFunction
<1> QED BY <1>8 DEF DuplicatesAccounted, f

LEMMA AttemptsPaid ==
  ASSUME QInv, FaultsPay
  PROVE  AttemptsAccounted
<1> DEFINE f == [i \in DOMAIN queue |-> Excess(queue[i].attempts, MaxAttempts)]
           h == [i \in Item |-> AttemptsOwed(i)]
<1>1. \A i \in DOMAIN queue : i \in Item /\ queue[i].attempts \in Nat
  BY DeliveryQueueAssumption DEF QInv, TypeOK, QueueRow
<1>2. /\ f \in [DOMAIN queue -> Nat] /\ h \in [Item -> Nat]
      /\ \A i \in DOMAIN queue : f[i] <= h[i]
  BY <1>1, OwedType, DeliveryQueueAssumption DEF AttemptsOwed, Excess
<1>3. SumFunction(h) <= faults
  BY DEF FaultsPay
<1>4. /\ faults \in Nat /\ DOMAIN queue \in SUBSET (DOMAIN queue \cap Item)
      /\ Item \in SUBSET Item /\ DOMAIN queue \in SUBSET Item
      /\ DOMAIN queue \in SUBSET DOMAIN queue
  BY AcceptedType
<1>5. IsFiniteSet(DOMAIN queue)
  BY <1>4, ItemFinite, FS_Subset
<1>6. DOMAIN f = DOMAIN queue /\ DOMAIN h = Item
  OBVIOUS
<1> HIDE DEF f, h
<1>7. SumFunctionOnSet(f, DOMAIN queue) <= SumFunctionOnSet(h, DOMAIN queue)
  BY <1>2, <1>4, <1>5, ItemFinite, SumMonotone
<1>8. SumFunctionOnSet(h, DOMAIN queue) <= SumFunctionOnSet(h, Item)
  BY <1>2, <1>4, ItemFinite, SumSubset
<1>9. /\ SumFunctionOnSet(f, DOMAIN queue) \in Nat
      /\ SumFunctionOnSet(h, DOMAIN queue) \in Nat /\ SumFunctionOnSet(h, Item) \in Nat
  BY <1>2, <1>4, <1>5, ItemFinite, SumType
<1>10. SumFunction(f) <= faults
  BY <1>3, <1>4, <1>6, <1>7, <1>8, <1>9 DEF SumFunction
<1> QED BY <1>10 DEF AttemptsAccounted, f

\* What went wrong so far pays for every copy of a message beyond the first and for
\* every attempt beyond MaxAttempts, one by one.
THEOREM FaultsAlwaysPay == Spec => []FaultsPay
<1>1. Init => FaultsPay
  BY FaultsPayInit
<1>2. ASSUME QInv, QInv', FaultsPay, [Next]_vars
      PROVE  FaultsPay'
  BY <1>2, FaultsPayStep, FaultsPayTick DEF Next
<1> QED BY <1>1, <1>2, QueueInductive, PTL DEF Spec

\* A recipient gets a message twice only when something went wrong, and no
\* more often than things went wrong: a server's answer that is not heard or
\* not recorded (worker.go, deliverOne; mail.go, CompleteQueue).
THEOREM DuplicatesAlwaysAccounted == Spec => []DuplicatesAccounted
<1>1. QInv /\ FaultsPay => DuplicatesAccounted
  BY CopiesAccounted
<1> QED BY <1>1, QueueInductive, FaultsAlwaysPay, PTL

\* The attempts beyond MaxAttempts are paid for by attempts whose end was not
\* recorded (mail.go, RecoverStaleQueue and RetryQueue).
THEOREM AttemptsAlwaysAccounted == Spec => []AttemptsAccounted
<1>1. QInv /\ FaultsPay => AttemptsAccounted
  BY AttemptsPaid
<1> QED BY <1>1, QueueInductive, FaultsAlwaysPay, PTL


-----------------------------------------------------------------------------
(***************************************************************************)
(* The retry window: RInv is an inductive invariant of RetrySpec.          *)
(***************************************************************************)

LEMMA Powers ==
  /\ PowersOfTwo[1] = 1 /\ PowersOfTwo[2] = 2 /\ PowersOfTwo[3] = 4 /\ PowersOfTwo[4] = 8
  /\ PowersOfTwo[5] = 16 /\ PowersOfTwo[6] = 32 /\ PowersOfTwo[7] = 64
BY DEF PowersOfTwo

\* What has been waited, and the next delay.
LEMMA WaitedStep ==
  ASSUME NEW a \in Nat
  PROVE  /\ RetryDelay(a + 1) \in 1..48
         /\ Waited(a) \in Nat
         /\ Waited(a + 1) = Waited(a) + RetryDelay(a + 1)
<1> DEFINE e == Smaller(Larger(a + 1 - 1, 0), 6)
<1>1. RetryDelay(a + 1) = Smaller(PowersOfTwo[e + 1], 48)
  BY DEF RetryDelay
<1>2. e = IF a < 6 THEN a ELSE 6
  BY DEF Smaller, Larger
<1> HIDE DEF e
<1>3. CASE a \in 0..5
  <2>1. e = a /\ a + 1 \in Nat /\ a + 1 <= 6
    BY <1>2, <1>3
  <2>2. /\ Waited(a) = PowersOfTwo[a + 1] - 1
        /\ Waited(a + 1) = PowersOfTwo[a + 1 + 1] - 1
        /\ RetryDelay(a + 1) = Smaller(PowersOfTwo[a + 1], 48)
    BY <1>1, <2>1 DEF Waited
  <2>3. /\ PowersOfTwo[a + 1] \in 1..32
        /\ PowersOfTwo[a + 1 + 1] = 2 * PowersOfTwo[a + 1]
    <3>1. a = 0 \/ a = 1 \/ a = 2 \/ a = 3 \/ a = 4 \/ a = 5
      BY <1>3
    <3> QED BY <3>1, Powers
  <2> QED BY <2>2, <2>3 DEF Smaller
<1>4. CASE a >= 6
  <2>1. e = 6 /\ RetryDelay(a + 1) = 48
    BY <1>1, <1>2, <1>4, Powers DEF Smaller
  <2>2. Waited(a) = 63 + 48 * (a - 6)
    BY <1>4, Powers DEF Waited
  <2>3. Waited(a + 1) = 63 + 48 * (a + 1 - 6)
    BY <1>4 DEF Waited
  <2> QED BY <1>4, <2>1, <2>2, <2>3
<1> QED BY <1>3, <1>4

LEMMA WaitedMore ==
  ASSUME NEW a \in Nat, NEW b \in Nat, a <= b
  PROVE  Waited(a) <= Waited(b)
<1>1. \A n \in 0..6 : Waited(n) = PowersOfTwo[n + 1] - 1
  BY DEF Waited
<1>2. \A n \in Nat : n >= 6 => Waited(n) = 63 + 48 * (n - 6)
  BY Powers DEF Waited
<1>3. \A m, n \in 0..6 : m <= n => Waited(m) <= Waited(n) /\ Waited(n) <= 63
  <2> SUFFICES ASSUME NEW m \in 0..6, NEW n \in 0..6, m <= n
               PROVE  PowersOfTwo[m + 1] <= PowersOfTwo[n + 1] /\ PowersOfTwo[n + 1] <= 64
    <3> QED BY <1>1, Powers DEF PowersOfTwo
  <2>1. \/ m = 0 \/ m = 1 \/ m = 2 \/ m = 3 \/ m = 4 \/ m = 5 \/ m = 6
    OBVIOUS
  <2>2. \/ n = 0 \/ n = 1 \/ n = 2 \/ n = 3 \/ n = 4 \/ n = 5 \/ n = 6
    OBVIOUS
  <2> QED BY <2>1, <2>2, Powers
<1>4. CASE b <= 6
  BY <1>3, <1>4
<1>5. CASE a <= 6 /\ b > 6
  <2>1. Waited(a) <= 63 /\ Waited(a) \in Nat
    <3>1. a \in 0..6 /\ a <= a
      BY <1>5
    <3> QED BY <1>3, <3>1, WaitedStep
  <2>2. Waited(b) = 63 + 48 * (b - 6)
    BY <1>2, <1>5
  <2> QED BY <1>5, <2>1, <2>2
<1>6. CASE a > 6
  <2>1. Waited(a) = 63 + 48 * (a - 6) /\ Waited(b) = 63 + 48 * (b - 6)
    BY <1>2, <1>6
  <2> QED BY <1>6, <2>1
<1> QED BY <1>4, <1>5, <1>6

LEMMA WaitedAll == Waited(0) = 0 /\ Waited(11) = 303
BY Powers DEF Waited

\* In a step, attempts begin with the claim of the row and in no other way.
LEMMA ClaimedBegun ==
  ASSUME QInv, NEW i \in Item, RowStep(i)
  PROVE  Claimed(i) <=> Begun(i)
<1>1. i \in DOMAIN queue => queue[i].attempts \in Nat
  BY DeliveryQueueAssumption DEF QInv, TypeOK, QueueRow
<1>2. CASE Untouched(i) \/ Taken(i) \/ Dropped(i)
  BY <1>1, <1>2 DEF Untouched, Taken, Dropped, SameRow, Claimed, Begun
<1>3. CASE Submitted(i)
  BY <1>3 DEF Submitted, Claimed, Begun
<1>4. CASE Recovered(i)
  BY <1>1, <1>4 DEF Recovered, Claimed, Begun
<1>5. CASE Begun(i)
  BY <1>1, <1>5 DEF Begun, Claimed
<1>6. CASE Completed(i)
  BY <1>1, <1>6 DEF Completed, Claimed, Begun
<1>7. CASE Retried(i)
  BY <1>1, <1>7 DEF Retried, Claimed, Begun
<1> QED BY <1>2, <1>3, <1>4, <1>5, <1>6, <1>7 DEF RowStep

\* The row that is claimed is due.
LEMMA BegunDue ==
  ASSUME QInv, BatchDue, NEW i \in Item, Begun(i)
  PROVE  queue[i].wait <= 0
<1>1. worker.batch # <<>> /\ worker.at = "claim"
  BY DEF Begun, QInv, BatchCurrent
<1>2. 1 \in 1..Len(worker.batch)
  BY <1>1, BatchRows DEF QInv
<1> QED BY <1>1, <1>2 DEF BatchDue, Begun, Current

-----------------------------------------------------------------------------
(* The rows of the batch stay due. *)

LEMMA DueByNext ==
  ASSUME QInv, BatchDue, worker.batch # <<>>, NextItem, queue' = queue
  PROVE  BatchDue'
<1>1. \A k \in 1..Len(worker'.batch) :
        k + 1 \in 1..Len(worker.batch) /\ worker'.batch[k] = worker.batch[k + 1]
  BY NextItemType DEF QInv, TypeOK, WorkerState
<1> SUFFICES ASSUME NEW k \in 1..Len(worker'.batch)
             PROVE  queue'[worker'.batch[k].id].wait <= 0
  BY DEF BatchDue
<1>2. k + 1 \in 1..Len(worker.batch) /\ k + 1 > 1 /\ worker'.batch[k] = worker.batch[k + 1]
  BY <1>1
<1> QED BY <1>2 DEF BatchDue

\* Nothing but the row attended to changes, and the batch goes on from it.
LEMMA DueBehind ==
  ASSUME QInv, BatchDue, worker'.at # "claim",
         Len(worker'.batch) = Len(worker.batch),
         \A k \in 1..Len(worker.batch) : k > 1 => worker'.batch[k] = worker.batch[k],
         \A i \in DOMAIN queue : i # Current.id => queue'[i] = queue[i]
  PROVE  BatchDue'
<1> SUFFICES ASSUME NEW k \in 1..Len(worker.batch), k > 1
             PROVE  queue'[worker'.batch[k].id].wait <= 0
  BY DEF BatchDue
<1>1. worker.batch[k].id \in DOMAIN queue /\ 1 \in 1..Len(worker.batch)
  BY BatchRows DEF QInv
<1>2. worker.batch[k].id # Current.id
  BY <1>1 DEF QInv, BatchCurrent, Current
<1> QED BY <1>1, <1>2 DEF BatchDue

LEMMA BatchesDue ==
  ASSUME NEW batch \in Batches
  PROVE  \A k \in 1..Len(batch) : queue[batch[k].id].wait <= 0
<1>1. PICK n \in 0..BatchSize : \E s \in [1..n -> Ready] :
        batch = [k \in DOMAIN s |-> [id |-> s[k], attempts |-> queue[s[k]].attempts]]
  BY DEF Batches
<1>2. PICK s \in [1..n -> Ready] :
        batch = [k \in DOMAIN s |-> [id |-> s[k], attempts |-> queue[s[k]].attempts]]
  BY <1>1
<1>3. n \in Nat /\ DOMAIN s = 1..n
  BY <1>1, DeliveryQueueAssumption
<1>4. Len(batch) = n /\ \A k \in 1..n : batch[k].id = s[k] /\ s[k] \in Ready
  BY <1>2, <1>3
<1> QED BY <1>4 DEF Ready

LEMMA BatchDueStep ==
  ASSUME QInv, BatchDue, Step
  PROVE  BatchDue'
<1>0. worker \in WorkerState /\ worker.batch \in Seq(BatchRow)
  BY BatchRows DEF QInv, TypeOK
<1>1. ASSUME NEW m \in Message, NEW recipients \in SUBSET Recipient, Submit(m, recipients)
      PROVE  BatchDue'
  <2>1. worker' = worker /\ \A i \in DOMAIN queue : queue'[i] = queue[i]
    BY <1>1 DEF Submit
  <2> QED BY <2>1, BatchRows DEF QInv, BatchDue
<1>2. CASE RecoverStaleQueue
  <2>1. worker.batch = <<>> /\ worker'.batch = worker.batch
    BY <1>2, GotoType DEF RecoverStaleQueue, At, QInv, BatchCurrent, Place
  <2> QED BY <2>1 DEF BatchDue
<1>3. CASE QueueReady
  <2>1. queue' = queue
    BY <1>3 DEF QueueReady
  <2>2. PICK batch \in Batches :
          worker' = IF batch = <<>> THEN Resting
                    ELSE [at |-> "claim", batch |-> batch, status |-> "queued"]
    BY <1>3 DEF QueueReady
  <2>3. \A k \in 1..Len(batch) : queue[batch[k].id].wait <= 0
    BY BatchesDue, <2>2 DEF QInv
  <2> QED BY <2>1, <2>2, <2>3 DEF BatchDue, Resting
<1>4. CASE ClaimQueue
  <2> DEFINE c == Current.id
             r == [id |-> c, attempts |-> Current.attempts + 1]
  <2>1. worker.at = "claim" /\ worker.batch # <<>>
    BY <1>4 DEF ClaimQueue, At, QInv, BatchCurrent
  <2>2. 1 \in 1..Len(worker.batch) /\ c \in DOMAIN queue /\ queue[c].status = "queued"
    BY <2>1, BatchRows DEF QInv, BatchCurrent, Current
  <2>3. /\ worker' = [worker EXCEPT !.at = "deliver", !.batch[1] = r]
        /\ \A i \in DOMAIN queue : i # c => queue'[i] = queue[i]
    BY <1>4, <2>2 DEF ClaimQueue
  <2> HIDE DEF r, c
  <2>4. worker'.at = "deliver" /\ worker'.batch = [worker.batch EXCEPT ![1] = r]
    BY <1>0, <2>3 DEF WorkerState
  <2>5. /\ Len(worker'.batch) = Len(worker.batch)
        /\ \A k \in 1..Len(worker.batch) : k > 1 => worker'.batch[k] = worker.batch[k]
    BY <1>0, <2>4
  <2> QED BY <2>3, <2>4, <2>5, DueBehind DEF c
<1>5. CASE Delivered \/ DeliveryFailed \/ CompleteQueue \/ RetryQueue
  <2>1. worker'.at # "claim" /\ worker'.batch = worker.batch
    BY <1>5, GotoType DEF Delivered, DeliveryFailed, CompleteQueue, RetryQueue, QInv, Place
  <2>2. \A i \in DOMAIN queue : i # Current.id => queue'[i] = queue[i]
    BY <1>5 DEF Delivered, DeliveryFailed, CompleteQueue, RetryQueue
  <2> QED BY <2>1, <2>2, DueBehind
<1>6. CASE CountRows
  <2>1. worker'.at = "write" /\ worker'.batch = worker.batch /\ queue' = queue
    BY <1>0, <1>6 DEF CountRows, WorkerState
  <2> QED BY <2>1, DueBehind
<1>7. CASE WriteTransportStatus
  <2>1. worker.batch # <<>> /\ NextItem /\ queue' = queue
    BY <1>7 DEF WriteTransportStatus, At, QInv, BatchCurrent
  <2> QED BY <2>1, DueByNext
<1>8. CASE DeliveredUnheard
  BY <1>8 DEF DeliveredUnheard, BatchDue
<1>9. CASE StatementFails
  <2>1. queue' = queue
    BY <1>9 DEF StatementFails
  <2>2. CASE worker.at \in {"claim", "count", "write"} /\ NextItem
    <3>1. worker.batch # <<>>
      BY <2>2 DEF QInv, BatchCurrent
    <3> QED BY <2>1, <2>2, <3>1, DueByNext
  <2>3. CASE Goto("count")
    <3>1. worker'.at # "claim" /\ worker'.batch = worker.batch
      BY <2>3, GotoType DEF QInv, Place
    <3> QED BY <2>1, <3>1, DueBehind
  <2> QED BY <1>9, <2>2, <2>3 DEF StatementFails
<1>10. CASE Stop
  BY <1>10 DEF Stop, Resting, BatchDue
<1> QED BY <1>1, <1>2, <1>3, <1>4, <1>5, <1>6, <1>7, <1>8, <1>9, <1>10 DEF Step, WorkerStep
-----------------------------------------------------------------------------
(* What a step keeps of WindowKept and SpacingKept, row by row. *)

\* Whatever goes wrong, the bound falls by a day at most, and it rises by less
\* than the delay with each attempt.
LEMMA EarliestType ==
  ASSUME NEW a \in Nat, NEW f \in Nat
  PROVE  /\ Earliest(a, f) \in Int /\ Earliest(a, f) <= Horizon
         /\ Earliest(0, f) <= 0
         /\ Earliest(a, f + 1) <= Earliest(a, f)
         /\ Earliest(a + 1, f) <= Earliest(a, f) + RetryDelay(a + 1)
         /\ Earliest(a + 1, f + 1) <= Earliest(a, f)
<1> DEFINE w == Waited(a)
           d == RetryDelay(a + 1)
<1>1. Horizon \in Nat \ {0}
  BY RetryWindowAssumption
<1>2. w \in Nat /\ d \in 1..48 /\ Waited(a + 1) = w + d /\ Waited(0) = 0
  BY WaitedStep, WaitedAll
<1> HIDE DEF w, d
<1>3. /\ Earliest(a, f) = Smaller(w - 48 * f, Horizon)
      /\ Earliest(a, f + 1) = Smaller(w - 48 * (f + 1), Horizon)
      /\ Earliest(a + 1, f) = Smaller(w + d - 48 * f, Horizon)
      /\ Earliest(a + 1, f + 1) = Smaller(w + d - 48 * (f + 1), Horizon)
      /\ Earliest(0, f) = Smaller(0 - 48 * f, Horizon)
  BY <1>2 DEF Earliest, w
<1>4. /\ Earliest(a, f) \in Int /\ Earliest(a, f) <= Horizon
      /\ Earliest(0, f) <= 0
      /\ Earliest(a, f + 1) <= Earliest(a, f)
      /\ Earliest(a + 1, f) <= Earliest(a, f) + d
      /\ Earliest(a + 1, f + 1) <= Earliest(a, f)
  BY <1>1, <1>2, <1>3 DEF Smaller
<1> QED BY <1>4 DEF d

\* What a step makes of the bound, whether something goes wrong in it or not.
LEMMA EarliestStep ==
  ASSUME NEW f \in Nat, NEW g \in {f, f + 1}, NEW a \in Nat
  PROVE  /\ Earliest(a, f) \in Int /\ Earliest(a, g) \in Int /\ Earliest(a, g) <= Earliest(a, f)
         /\ Earliest(0, g) \in Int /\ Earliest(0, g) <= 0
         /\ Earliest(a + 1, g) \in Int
         /\ Earliest(a + 1, g) <= Earliest(a, f) + RetryDelay(a + 1)
         /\ g = f + 1 => Earliest(a + 1, g) <= Earliest(a, f)
<1>0. RetryDelay(a + 1) \in 1..48
  BY WaitedStep
<1>1. f + 1 \in Nat /\ a + 1 \in Nat /\ 0 \in Nat /\ g \in Nat
  OBVIOUS
<1>2. /\ Earliest(a, f) \in Int /\ Earliest(a, g) \in Int
      /\ Earliest(0, g) \in Int /\ Earliest(0, g) <= 0
      /\ Earliest(a + 1, g) \in Int /\ Earliest(a + 1, f) \in Int
  BY <1>1, EarliestType
<1>3. /\ Earliest(a, f + 1) <= Earliest(a, f)
      /\ Earliest(a + 1, f) <= Earliest(a, f) + RetryDelay(a + 1)
      /\ Earliest(a + 1, f + 1) <= Earliest(a, f)
  BY EarliestType
<1>4. CASE g = f
  BY <1>0, <1>1, <1>2, <1>3, <1>4
<1>5. CASE g = f + 1
  <2>1. Earliest(a + 1, g) <= Earliest(a, f) /\ Earliest(a, g) <= Earliest(a, f)
    BY <1>3, <1>5
  <2> QED BY <1>0, <1>2, <2>1
<1> QED BY <1>4, <1>5

\* Nothing begins.
LEMMA SinceKept ==
  ASSUME SinceTypeOK, Begin, NEW i \in Item, ~Claimed(i)
  PROVE  since'[i] = since[i]
BY DEF Begin

LEMMA RowType ==
  ASSUME QInv, SinceTypeOK, NEW i \in Item
  PROVE  /\ since[i].first \in Nat /\ since[i].latest \in Nat
         /\ since[i].first <= Horizon /\ since[i].latest <= Horizon
         /\ i \in DOMAIN queue => /\ queue[i].attempts \in Nat /\ queue[i].wait \in Int
                                  /\ queue[i].age \in Nat
<1>1. /\ since[i].first \in Nat /\ since[i].latest \in Nat
      /\ since[i].first <= Horizon /\ since[i].latest <= Horizon
  BY RetryWindowAssumption DEF SinceTypeOK
<1>2. i \in DOMAIN queue => /\ queue[i].attempts \in Nat /\ queue[i].wait \in Int
                            /\ queue[i].age \in Nat
  BY DeliveryQueueAssumption DEF QInv, TypeOK, QueueRow, Lease
<1> QED BY <1>1, <1>2

LEMMA WindowStep ==
  ASSUME QInv, QInv', SinceTypeOK, BatchDue, Begin, faults' \in {faults, faults + 1},
         NEW i \in Item, RowStep(i), i \in DOMAIN queue => WindowOf(i), i \in DOMAIN queue'
  PROVE  WindowOf(i)'
<1> DEFINE a == queue[i].attempts
           first == since[i].first
           Before(n) == Earliest(n, faults)
           After(n) == Earliest(n, faults')
<1>1. /\ first \in Nat /\ first <= Horizon
      /\ i \in DOMAIN queue => a \in Nat /\ queue[i].wait \in Int
  BY RowType
<1>2. \A n \in Nat :
        /\ Before(n) \in Int /\ After(n) \in Int /\ After(n) <= Before(n)
        /\ After(0) \in Int /\ After(0) <= 0
        /\ After(n + 1) \in Int
        /\ After(n + 1) <= Before(n) + RetryDelay(n + 1)
        /\ faults' = faults + 1 => After(n + 1) <= Before(n)
  BY EarliestStep, AcceptedType
<1>3. i \in DOMAIN queue =>
        /\ queue[i].status = "queued" => first + Larger(queue[i].wait, 0) >= Before(a)
        /\ queue[i].status = "delivering" =>
             /\ a > 0
             /\ Attended(i) => first >= Before(a - 1)
             /\ ~Attended(i) => first >= Before(a)
        /\ queue[i].status = "failed" => first >= Before(MaxAttempts - 1)
  BY DEF WindowOf
<1>4. MaxAttempts - 1 \in Nat
  BY DeliveryQueueAssumption
<1> SUFFICES
      /\ queue'[i].status = "queued" =>
           since'[i].first + Larger(queue'[i].wait, 0) >= After(queue'[i].attempts)
      /\ queue'[i].status = "delivering" =>
           /\ queue'[i].attempts > 0
           /\ Attended(i)' => since'[i].first >= After(queue'[i].attempts - 1)
           /\ ~Attended(i)' => since'[i].first >= After(queue'[i].attempts)
      /\ queue'[i].status = "failed" => since'[i].first >= After(MaxAttempts - 1)
  BY DEF WindowOf
<1> HIDE DEF Before, After
<1>5. CASE Untouched(i) \/ Taken(i)
  <2>1. /\ i \in DOMAIN queue /\ queue'[i] = queue[i]
        /\ Attended(i)' = Attended(i) \/ (Attended(i) /\ Attended(i)')
    BY <1>5 DEF Untouched, Taken, SameRow
  <2>2. since'[i] = since[i]
    BY <1>1, <2>1, SinceKept DEF Claimed
  <2>3. /\ After(a) <= Before(a) /\ Before(a) \in Int /\ After(a) \in Int
        /\ After(MaxAttempts - 1) <= Before(MaxAttempts - 1)
        /\ Before(MaxAttempts - 1) \in Int /\ After(MaxAttempts - 1) \in Int
    BY <1>1, <1>2, <1>4, <2>1
  <2>4. a > 0 => /\ After(a - 1) <= Before(a - 1)
                 /\ Before(a - 1) \in Int /\ After(a - 1) \in Int
    <3>1. a > 0 => a - 1 \in Nat
      BY <1>1, <2>1
    <3> QED BY <1>2, <3>1
  <2>5. Larger(queue[i].wait, 0) \in Int
    BY <1>1, <2>1 DEF Larger
  <2>6. queue'[i].status = "queued" => first + Larger(queue[i].wait, 0) >= After(a)
    BY <1>1, <1>3, <2>1, <2>3, <2>5
  <2>7. queue'[i].status = "delivering" =>
          /\ a > 0
          /\ Attended(i) => first >= After(a - 1)
          /\ ~Attended(i) => first >= After(a)
    BY <1>1, <1>3, <2>1, <2>3, <2>4
  <2>8. queue'[i].status = "failed" => first >= After(MaxAttempts - 1)
    BY <1>1, <1>3, <2>1, <2>3
  <2> QED BY <2>1, <2>2, <2>6, <2>7, <2>8
<1>6. CASE Submitted(i)
  <2>1. queue'[i] = NewRow /\ ~Claimed(i)
    BY <1>6 DEF Submitted, Claimed
  <2>2. since'[i] = since[i]
    BY <2>1, SinceKept
  <2>3. After(0) <= 0 /\ After(0) \in Int
    BY <1>2
  <2> QED BY <1>1, <2>1, <2>2, <2>3 DEF NewRow, Larger
<1>7. CASE Recovered(i)
  <2>1. queue'[i].status = "queued" /\ queue'[i].attempts = a /\ queue'[i].wait = 0
    BY <1>7 DEF Recovered
  <2>2. since'[i] = since[i]
    BY <1>1, <1>7, <2>1, SinceKept DEF Claimed, Recovered
  <2>3. first >= Before(a) /\ After(a) <= Before(a) /\ Before(a) \in Int /\ After(a) \in Int
    BY <1>1, <1>2, <1>3, <1>7 DEF Recovered, Stale
  <2>4. first + Larger(0, 0) >= After(a)
    BY <1>1, <2>3 DEF Larger
  <2> QED BY <2>1, <2>2, <2>4
<1>8. CASE Begun(i)
  <2>1. Claimed(i) /\ queue[i].wait <= 0 /\ a \in Nat /\ queue[i].wait \in Int
    BY <1>1, <1>8, ClaimedBegun, BegunDue DEF Begun
  <2>2. since'[i].first = IF a = 0 THEN 0 ELSE first
    BY <2>1 DEF Begin
  <2>3. first + Larger(queue[i].wait, 0) >= Before(a)
    BY <1>3, <1>8 DEF Begun
  <2>4. first >= Before(a)
    BY <1>1, <2>1, <2>3 DEF Larger
  <2>5. After(a) <= Before(a) /\ Before(a) \in Int /\ After(a) \in Int /\ After(0) <= 0
    BY <1>2, <2>1
  <2>6. since'[i].first >= After(a)
    BY <1>1, <2>2, <2>4, <2>5
  <2>7. queue'[i].status = "delivering" /\ queue'[i].attempts = a + 1 /\ Attended(i)'
    BY <1>8 DEF Begun
  <2>8. queue'[i].attempts > 0 /\ queue'[i].attempts - 1 = a
    BY <2>1, <2>7
  <2> QED BY <2>6, <2>7, <2>8
<1>9. CASE Completed(i)
  BY <1>9 DEF Completed
<1>10. CASE Retried(i)
  <2>1. i \in DOMAIN queue /\ a \in Nat /\ a > 0 /\ first >= Before(a - 1)
    BY <1>1, <1>3, <1>10 DEF Retried
  <2>2. queue'[i].attempts = a /\ since'[i] = since[i]
    BY <1>10, <2>1, SinceKept DEF Retried, Claimed
  <2>3. a - 1 \in Nat /\ a - 1 + 1 = a
    BY <2>1
  <2>4. /\ After(a - 1) <= Before(a - 1) /\ After(a) <= Before(a - 1) + RetryDelay(a)
        /\ Before(a - 1) \in Int /\ After(a - 1) \in Int /\ After(a) \in Int
    BY <1>2, <2>3
  <2>5. RetryDelay(a) \in 1..48
    BY <2>3, WaitedStep
  <2>6. CASE a >= MaxAttempts
    <3>1. queue'[i].status = "failed"
      BY <1>10, <2>6 DEF Retried
    <3>2. Waited(MaxAttempts - 1) <= Waited(a - 1)
      BY <1>4, <2>1, <2>3, <2>6, WaitedMore, DeliveryQueueAssumption
    <3>3. Waited(MaxAttempts - 1) \in Nat /\ Waited(a - 1) \in Nat /\ faults' \in Nat
      BY <1>4, <2>3, WaitedStep, AcceptedType
    <3>4. After(MaxAttempts - 1) <= After(a - 1)
      BY <3>2, <3>3, RetryWindowAssumption DEF After, Earliest, Smaller
    <3>5. After(MaxAttempts - 1) \in Int
      BY <1>2, <1>4
    <3>6. first >= After(MaxAttempts - 1)
      BY <1>1, <2>1, <2>4, <3>4, <3>5
    <3> QED BY <2>2, <3>1, <3>6
  <2>7. CASE ~(a >= MaxAttempts)
    <3>1. queue'[i].status = "queued" /\ queue'[i].wait = RetryDelay(a)
      BY <1>10, <2>7 DEF Retried
    <3>2. Larger(RetryDelay(a), 0) = RetryDelay(a)
      BY <2>5 DEF Larger
    <3>3. first + RetryDelay(a) >= After(a)
      BY <1>1, <2>1, <2>4, <2>5
    <3> QED BY <2>2, <3>1, <3>2, <3>3
  <2> QED BY <2>6, <2>7
<1>11. CASE Dropped(i)
  <2>1. /\ i \in DOMAIN queue /\ queue'[i] = queue[i] /\ queue[i].status = "delivering"
        /\ Attended(i) /\ ~Attended(i)' /\ faults' = faults + 1
    BY <1>11 DEF Dropped, SameRow
  <2>2. since'[i] = since[i]
    BY <1>1, <2>1, SinceKept DEF Claimed
  <2>3. a > 0 /\ a - 1 \in Nat /\ a - 1 + 1 = a /\ first >= Before(a - 1)
    BY <1>1, <1>3, <2>1
  <2>4. After(a) <= Before(a - 1) /\ Before(a - 1) \in Int /\ After(a) \in Int
    BY <1>2, <2>1, <2>3
  <2>5. first >= After(a)
    BY <1>1, <2>3, <2>4
  <2> QED BY <2>1, <2>2, <2>3, <2>5
<1> QED BY <1>5, <1>6, <1>7, <1>8, <1>9, <1>10, <1>11 DEF RowStep

LEMMA SpacingStep ==
  ASSUME QInv, QInv', SinceTypeOK, BatchDue, Begin,
         NEW i \in Item, RowStep(i), i \in DOMAIN queue => SpacingOf(i), i \in DOMAIN queue'
  PROVE  SpacingOf(i)'
<1>1. /\ since[i].latest \in Nat
      /\ i \in DOMAIN queue => /\ queue[i].attempts \in Nat /\ queue[i].wait \in Int
                               /\ queue[i].age \in Nat
  BY RowType
<1>2. CASE Untouched(i) \/ Taken(i) \/ Dropped(i)
  <2>1. i \in DOMAIN queue /\ queue'[i] = queue[i] /\ ~Claimed(i)
    BY <1>1, <1>2 DEF Untouched, Taken, Dropped, SameRow, Claimed
  <2> QED BY <2>1, SinceKept DEF SpacingOf
<1>3. CASE Submitted(i)
  BY <1>3 DEF Submitted, NewRow, SpacingOf
<1>4. CASE Recovered(i)
  <2>1. ~Claimed(i)
    BY <1>1, <1>4 DEF Recovered, Claimed
  <2>2. since'[i] = since[i]
    BY <2>1, SinceKept
  <2>3. since[i].latest >= 1
    BY <1>1, <1>4 DEF Recovered, Stale, Lease, SpacingOf
  <2>4. queue'[i].status = "queued" /\ queue'[i].wait = 0
    BY <1>4 DEF Recovered
  <2> QED BY <1>1, <2>2, <2>3, <2>4 DEF SpacingOf, Larger
<1>5. CASE Begun(i)
  BY <1>5 DEF Begun, SpacingOf
<1>6. CASE Completed(i)
  BY <1>6 DEF Completed, SpacingOf
<1>7. CASE Retried(i)
  <2>1. ~Claimed(i) /\ i \in DOMAIN queue
    BY <1>1, <1>7 DEF Retried, Claimed
  <2>2. since'[i] = since[i]
    BY <2>1, SinceKept
  <2>3. queue'[i].status = "queued" => queue'[i].wait = RetryDelay(queue'[i].attempts)
                                       /\ queue'[i].attempts \in Nat
    BY <1>1, <1>7 DEF Retried
  <2>4. queue'[i].status \in {"queued", "failed"}
    BY <1>7 DEF Retried
  <2>5. ASSUME queue'[i].status = "queued", queue'[i].attempts > 0
        PROVE  since'[i].latest + Larger(queue'[i].wait, 0) >= 1
    <3> DEFINE n == queue'[i].attempts
    <3>1. n \in Nat /\ n - 1 \in Nat /\ n - 1 + 1 = n /\ queue'[i].wait = RetryDelay(n)
      BY <2>3, <2>5
    <3>2. RetryDelay(n) \in 1..48
      BY <3>1, WaitedStep
    <3> QED BY <1>1, <2>2, <3>1, <3>2 DEF Larger
  <2> QED BY <2>4, <2>5 DEF SpacingOf
<1> QED BY <1>2, <1>3, <1>4, <1>5, <1>6, <1>7 DEF RowStep

LEMMA SinceStep ==
  ASSUME SinceTypeOK, Begin \/ Later
  PROVE  SinceTypeOK'
<1> USE RetryWindowAssumption DEF SinceTypeOK
<1>1. CASE Begin
  <2> SUFFICES ASSUME NEW i \in Item
               PROVE  since'[i] \in [first : 0..Horizon, latest : 0..Horizon]
    BY <1>1 DEF Begin
  <2> QED BY <1>1 DEF Begin
<1>2. CASE Later
  <2> SUFFICES ASSUME NEW i \in Item
               PROVE  since'[i] \in [first : 0..Horizon, latest : 0..Horizon]
    BY <1>2 DEF Later
  <2>1. since'[i] = [first  |-> Smaller(since[i].first + 1, Horizon),
                     latest |-> Smaller(since[i].latest + 1, Horizon)]
    BY <1>2 DEF Later
  <2>2. since[i].first \in 0..Horizon /\ since[i].latest \in 0..Horizon
    OBVIOUS
  <2> QED BY <2>1, <2>2 DEF Smaller
<1> QED BY <1>1, <1>2

\* Half an hour passes while nothing is attended to.
LEMMA WaitingRows ==
  ASSUME QInv, SinceTypeOK, WindowKept, SpacingKept, Waiting, Tick, Later,
         NEW i \in DOMAIN queue'
  PROVE  WindowOf(i)' /\ SpacingOf(i)'
<1>1. /\ i \in DOMAIN queue /\ i \in Item /\ queue'[i] = Elapsed(queue[i])
      /\ faults' = faults /\ worker' = worker
  BY AcceptedType DEF Tick
<1>2. ~Attended(i) /\ ~Attended(i)'
  BY <1>1 DEF Waiting, At, Attended, Delivering
<1>3. /\ since[i].first \in Nat /\ since[i].latest \in Nat
      /\ since[i].first <= Horizon /\ since[i].latest <= Horizon
      /\ queue[i].attempts \in Nat /\ queue[i].wait \in Int /\ queue[i].age \in Nat
  BY <1>1, RowType
<1>4. /\ since'[i].first = Smaller(since[i].first + 1, Horizon)
      /\ since'[i].latest = Smaller(since[i].latest + 1, Horizon)
  BY <1>1 DEF Later
<1>5. /\ queue'[i].status = queue[i].status /\ queue'[i].attempts = queue[i].attempts
      /\ queue'[i].wait = IF queue[i].status = "queued" /\ queue[i].wait > -MaxOverdue
                          THEN queue[i].wait - 1 ELSE queue[i].wait
  BY <1>1 DEF Elapsed
<1>6. Horizon \in Nat \ {0} /\ MaxOverdue \in Nat /\ MaxAttempts - 1 \in Nat /\ faults \in Nat
  BY DeliveryQueueAssumption, RetryWindowAssumption, AcceptedType
<1> DEFINE bound == Earliest(queue[i].attempts, faults)
           last == Earliest(MaxAttempts - 1, faults)
<1>7. bound \in Int /\ last \in Int /\ bound <= Horizon /\ last <= Horizon
  BY <1>3, <1>6, EarliestType
<1>8. /\ queue[i].status = "queued" => since[i].first + Larger(queue[i].wait, 0) >= bound
      /\ queue[i].status = "delivering" => queue[i].attempts > 0 /\ since[i].first >= bound
      /\ queue[i].status = "failed" => since[i].first >= last
  BY <1>1, <1>2 DEF WindowKept, WindowOf
<1>9. WindowOf(i)' <=>
        /\ queue[i].status = "queued" => since'[i].first + Larger(queue'[i].wait, 0) >= bound
        /\ queue[i].status = "delivering" => queue[i].attempts > 0 /\ since'[i].first >= bound
        /\ queue[i].status = "failed" => since'[i].first >= last
  BY <1>1, <1>2, <1>5 DEF WindowOf
<1> HIDE DEF bound, last
<1>10. since'[i].first \in Nat /\ (since'[i].first = since[i].first + 1 \/ since'[i].first = Horizon)
  BY <1>3, <1>4, <1>6 DEF Smaller
<1>11. since'[i].latest \in Nat
       /\ (since'[i].latest = since[i].latest + 1 \/ since'[i].latest = Horizon)
  BY <1>3, <1>4, <1>6 DEF Smaller
<1>12. queue[i].status = "queued" =>
         /\ Larger(queue'[i].wait, 0) \in Nat /\ Larger(queue[i].wait, 0) \in Nat
         /\ Larger(queue'[i].wait, 0) + 1 >= Larger(queue[i].wait, 0)
  BY <1>3, <1>5, <1>6 DEF Larger
<1>13. WindowOf(i)'
  BY <1>3, <1>6, <1>7, <1>8, <1>9, <1>10, <1>12
<1>14. SpacingOf(i)'
  <2>1. since'[i].latest >= 1
    BY <1>3, <1>6, <1>11
  <2>2. Larger(queue'[i].wait, 0) >= 0 /\ Larger(queue'[i].wait, 0) \in Int
    BY <1>3, <1>5 DEF Larger
  <2> QED BY <1>11, <2>1, <2>2 DEF SpacingOf
<1> QED BY <1>13, <1>14

LEMMA RetryInitially == RetryInit => RInv
<1> SUFFICES ASSUME RetryInit
             PROVE  RInv
  OBVIOUS
<1>1. QInv
  BY InitStep DEF RetryInit
<1>2. SinceTypeOK
  BY RetryWindowAssumption DEF RetryInit, SinceTypeOK
<1>3. BatchDue /\ WindowKept /\ SpacingKept
  BY DEF RetryInit, Init, Resting, BatchDue, WindowKept, SpacingKept
<1> QED BY <1>1, <1>2, <1>3 DEF RInv

LEMMA RetryStep ==
  ASSUME RInv, [RetryNext]_retryVars
  PROVE  RInv'
<1>1. QInv'
  <2>1. [Next]_vars
    BY DEF RetryNext, retryVars, Next
  <2> QED BY <2>1, NextStep DEF RInv
<1>2. CASE Step /\ Begin
  <2>1. faults' \in {faults, faults + 1} /\ \A i \in Item : RowStep(i)
    BY <1>2, StepRows DEF RInv
  <2>2. SinceTypeOK' /\ BatchDue'
    BY <1>2, SinceStep, BatchDueStep DEF RInv
  <2>3. DOMAIN queue' \subseteq Item /\ DOMAIN queue \subseteq Item
    BY <1>1 DEF RInv, QInv, TypeOK
  <2>4. ASSUME NEW i \in DOMAIN queue'
        PROVE  WindowOf(i)' /\ SpacingOf(i)'
    <3>1. i \in Item /\ RowStep(i)
      BY <2>1, <2>3
    <3>2. i \in DOMAIN queue => WindowOf(i) /\ SpacingOf(i)
      BY DEF RInv, WindowKept, SpacingKept
    <3>3. QInv /\ SinceTypeOK /\ BatchDue /\ Begin
      BY <1>2 DEF RInv
    <3>4. WindowOf(i)'
      BY <1>1, <2>1, <3>1, <3>2, <3>3, WindowStep
    <3>5. SpacingOf(i)'
      BY <1>1, <3>1, <3>2, <3>3, SpacingStep
    <3> QED BY <3>4, <3>5
  <2> QED BY <1>1, <2>2, <2>4 DEF RInv, WindowKept, SpacingKept
<1>3. CASE Waiting /\ Tick /\ Later
  <2>1. QInv /\ SinceTypeOK /\ WindowKept /\ SpacingKept
    BY DEF RInv
  <2>2. SinceTypeOK'
    BY <1>3, <2>1, SinceStep
  <2>3. worker.batch = <<>> /\ worker' = worker
    BY <1>3, <2>1 DEF Waiting, Tick, At, QInv, BatchCurrent
  <2>4. BatchDue'
    BY <2>3 DEF BatchDue
  <2>5. \A i \in DOMAIN queue' : WindowOf(i)' /\ SpacingOf(i)'
    BY <1>3, <2>1, WaitingRows
  <2> QED BY <1>1, <2>2, <2>4, <2>5 DEF RInv, WindowKept, SpacingKept
<1>4. CASE UNCHANGED retryVars
  BY <1>4, <1>1
     DEF retryVars, vars, RInv, SinceTypeOK, BatchDue, WindowKept, SpacingKept,
         WindowOf, SpacingOf, Attended, Delivering, Current
<1> QED BY <1>2, <1>3, <1>4 DEF RetryNext

\* RInv holds in every state of every behaviour of the queue with its clock.
THEOREM RetryInductive == RetrySpec => []RInv
<1>1. RetryInit => RInv
  BY RetryInitially
<1>2. RInv /\ [RetryNext]_retryVars => RInv'
  BY RetryStep
<1> QED BY <1>1, <1>2, PTL DEF RetrySpec

\* Between two attempts for one recipient there is half an hour at least,
\* whatever fails, stops or is abandoned in between (mail.go, RetryQueue,
\* QueueReady and RecoverStaleQueue).
THEOREM AttemptsAlwaysSpaced == RetrySpec => AttemptsSpaced
<1>1. ASSUME RInv, [RetryNext]_retryVars
      PROVE  [\A i \in Item : Claimed(i) /\ queue[i].attempts > 0 =>
                since[i].latest >= 1]_retryVars
  <2> SUFFICES ASSUME RetryNext, NEW i \in Item, Claimed(i), queue[i].attempts > 0
               PROVE  since[i].latest >= 1
    BY <1>1
  <2>1. QInv /\ SinceTypeOK /\ BatchDue /\ SpacingKept
    BY <1>1 DEF RInv
  <2>2. since[i].latest \in Nat /\ i \in DOMAIN queue /\ queue[i].wait \in Int
    BY <2>1, RowType DEF Claimed
  <2>3. CASE Step
    <3>1. RowStep(i)
      BY <2>1, <2>3, StepRows
    <3>2. Begun(i) /\ queue[i].wait <= 0
      BY <2>1, <3>1, ClaimedBegun, BegunDue
    <3>3. since[i].latest + Larger(queue[i].wait, 0) >= 1
      BY <2>1, <2>2, <3>2 DEF SpacingKept, SpacingOf, Begun
    <3> QED BY <2>2, <3>2, <3>3 DEF Larger
  <2>4. CASE Tick
    <3>1. queue'[i].attempts = queue[i].attempts
      BY <2>2, <2>4 DEF Tick, Elapsed
    <3>2. queue[i].attempts \in Nat
      BY <2>1, <2>2, RowType
    <3> QED BY <3>1, <3>2 DEF Claimed
  <2> QED BY <2>3, <2>4 DEF RetryNext
<1> QED BY <1>1, RetryInductive, PTL DEF RetrySpec, AttemptsSpaced

\* A recipient is given up when the delays after all attempts but the last have
\* passed, less a day at most for each attempt whose end was not recorded, and
\* not before (mail.go, RetryQueue).
THEOREM TriesAlwaysUntil == RetrySpec => []TriesUntil
<1>1. ASSUME RInv
      PROVE  TriesUntil
  <2>1. faults \in Nat /\ faults <= MaxFaults /\ MaxFaults \in Nat /\ MaxAttempts - 1 \in Nat
    BY <1>1, DeliveryQueueAssumption DEF RInv, QInv, TypeOK
  <2>2. Waited(MaxAttempts - 1) \in Nat
    BY <2>1, WaitedStep
  <2>3. Earliest(MaxAttempts - 1, MaxFaults) <= Earliest(MaxAttempts - 1, faults)
    BY <2>1, <2>2, RetryWindowAssumption DEF Earliest, Smaller
  <2>4. Earliest(MaxAttempts - 1, MaxFaults) \in Int /\ Earliest(MaxAttempts - 1, faults) \in Int
    BY <2>1, EarliestType
  <2> SUFFICES ASSUME NEW i \in DOMAIN queue, queue[i].status = "failed"
               PROVE  since[i].first >= Earliest(MaxAttempts - 1, MaxFaults)
    BY DEF TriesUntil
  <2>5. since[i].first \in Nat
    BY <1>1, RowType, AcceptedType DEF RInv
  <2>6. since[i].first >= Earliest(MaxAttempts - 1, faults)
    BY <1>1 DEF RInv, WindowKept, WindowOf
  <2> QED BY <2>3, <2>4, <2>5, <2>6
<1> QED BY <1>1, RetryInductive, PTL

\* With twelve attempts, the default (config.go), and one of them cut short,
\* the queue tries for five days at least before it gives a recipient up.
THEOREM GivesUpAfterFiveDays ==
  ASSUME MaxAttempts >= 12, MaxFaults <= 1, Horizon >= 240
  PROVE  RetrySpec => []GiveUpWindow
<1>1. ASSUME RInv, TriesUntil
      PROVE  GiveUpWindow
  <2>1. MaxFaults \in Nat /\ MaxAttempts - 1 \in Nat /\ 11 <= MaxAttempts - 1
    BY DeliveryQueueAssumption
  <2>2. Waited(MaxAttempts - 1) \in Nat /\ Waited(MaxAttempts - 1) >= 303
    BY <2>1, WaitedAll, WaitedMore, WaitedStep
  <2>3. Earliest(MaxAttempts - 1, MaxFaults) \in Int
    BY <2>1, EarliestType
  <2>4. Earliest(MaxAttempts - 1, MaxFaults) >= 240
    BY <2>1, <2>2, RetryWindowAssumption DEF Earliest, Smaller
  <2>5. \A i \in DOMAIN queue : since[i].first \in Nat
    BY <1>1, RowType, AcceptedType DEF RInv
  <2> QED BY <1>1, <2>3, <2>4, <2>5 DEF TriesUntil, GiveUpWindow, FailedAfter, HalfHoursPerDay
<1> QED BY <1>1, RetryInductive, TriesAlwaysUntil, PTL

=============================================================================
