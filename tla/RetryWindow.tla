----------------------------- MODULE RetryWindow -----------------------------
(***************************************************************************)
(* The delivery queue with the time that has passed since the first and    *)
(* since the latest attempt for each recipient: how close attempts follow  *)
(* each other, and how long the queue tries before it gives up.  The       *)
(* additional variable only records; it restricts nothing.                 *)
(***************************************************************************)
EXTENDS DeliveryQueue

CONSTANT Horizon  \* bound of the model: half-hours counted

ASSUME RetryWindowAssumption == Horizon \in Nat \ {0}

VARIABLE since  \* for each recipient, half-hours since the two attempts

retryVars == <<vars, since>>

Claimed(i) ==
  i \in DOMAIN queue /\ queue'[i].attempts > queue[i].attempts

RetryInit == Init /\ since = [i \in Item |-> [first |-> 0, latest |-> 0]]

\* An attempt begins with the claim of its row.
Begin ==
  since' = [i \in Item |->
    IF ~Claimed(i) THEN since[i]
    ELSE [first |-> IF queue[i].attempts = 0 THEN 0 ELSE since[i].first, latest |-> 0]]

Later == since' = [i \in Item |-> [first  |-> Smaller(since[i].first + 1, Horizon),
                                   latest |-> Smaller(since[i].latest + 1, Horizon)]]

\* Time passes only while the worker has nothing to do.  It polls every 30
\* seconds and an attempt is over in less than half an hour; a slower worker
\* would only make the times measured here longer.
Waiting == At("rest") /\ Ready = {} /\ ~\E i \in DOMAIN queue : Stale(i)

RetryNext ==
  \/ Step /\ Begin
  \/ Waiting /\ Tick /\ Later

RetrySpec == RetryInit /\ [][RetryNext]_retryVars

-----------------------------------------------------------------------------
(* Properties.  The comment in RetryQueue (mail.go, lines 691-693) states    *)
(* what they are measured by.                                                *)

HalfHoursPerDay == 48

\* Between two attempts for one recipient there are at least 30 minutes, also
\* when the first of them was abandoned ("a retry interval of at least 30
\* minutes").
AttemptsSpaced ==
  [][\A i \in Item : Claimed(i) /\ queue[i].attempts > 0 => since[i].latest >= 1]_retryVars

FailedAfter(days) ==
  \A i \in DOMAIN queue :
    queue[i].status = "failed" => since[i].first >= days * HalfHoursPerDay

\* The queue does not give up within five days of the first attempt, not even
\* when one attempt was cut short and its delay with it ("a give-up window of at
\* least 4-5 days").
GiveUpWindow == FailedAfter(5)

\* It does not give up within seven days ("span more than seven days").  It
\* fails: there are eleven delays between twelve attempts, 303 half-hours, and
\* the one after the twelfth attempt is not waited for.
SevenDays == FailedAfter(7)

-----------------------------------------------------------------------------
(***************************************************************************)
(* The inductive invariant behind AttemptsSpaced and GiveUpWindow          *)
(* (DeliveryQueueProofs).                                                  *)
(***************************************************************************)

\* Half-hours waited after the first so many attempts: 1 + 2 + ... + 32, then
\* 48 each time.
Waited(attempts) ==
  IF attempts <= 6 THEN PowersOfTwo[attempts + 1] - 1 ELSE 63 + 48 * (attempts - 6)

\* Not sooner than this has an attempt after so many others begun: each thing
\* that went wrong has saved a day at most.
Earliest(attempts, wrong) == Smaller(Waited(attempts) - 48 * wrong, Horizon)

SinceTypeOK == since \in [Item -> [first : 0..Horizon, latest : 0..Horizon]]

\* The rows of the batch that are not claimed yet are due.
BatchDue ==
  \A k \in 1..Len(worker.batch) :
    k > 1 \/ worker.at = "claim" => queue[worker.batch[k].id].wait <= 0

\* When an attempt began or, of a row that waits, will begin.
WindowOf(i) ==
  /\ queue[i].status = "queued" =>
       since[i].first + Larger(queue[i].wait, 0) >= Earliest(queue[i].attempts, faults)
  /\ queue[i].status = "delivering" =>
       /\ queue[i].attempts > 0
       /\ since[i].first >=
            Earliest(IF Attended(i) THEN queue[i].attempts - 1 ELSE queue[i].attempts,
                     faults)
  /\ queue[i].status = "failed" => since[i].first >= Earliest(MaxAttempts - 1, faults)

SpacingOf(i) ==
  /\ queue[i].status = "queued" /\ queue[i].attempts > 0 =>
       since[i].latest + Larger(queue[i].wait, 0) >= 1
  /\ queue[i].status = "delivering" /\ queue[i].age > 0 => since[i].latest >= 1

WindowKept == \A i \in DOMAIN queue : WindowOf(i)
SpacingKept == \A i \in DOMAIN queue : SpacingOf(i)

\* How long the queue tries, for every number of attempts and of things that go
\* wrong.
TriesUntil ==
  \A i \in DOMAIN queue :
    queue[i].status = "failed" => since[i].first >= Earliest(MaxAttempts - 1, MaxFaults)

RInv == QInv /\ SinceTypeOK /\ BatchDue /\ WindowKept /\ SpacingKept

=============================================================================
