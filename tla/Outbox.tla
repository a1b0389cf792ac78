-------------------------------- MODULE Outbox --------------------------------
(***************************************************************************)
(* What the delivery queue promises for mail to recipients elsewhere.      *)
(* Every recipient of a message is pending until it is settled, once and   *)
(* for good.  It is settled as delivered only if a remote server has taken *)
(* the message, and a verdict on the whole message appears only when all   *)
(* its recipients are settled, says what became of them, and stays.        *)
(*                                                                         *)
(* The promise does not exclude that a recipient is settled as failed      *)
(* although a remote server took the message: an acknowledgement may be    *)
(* lost each time.                                                         *)
(***************************************************************************)
CONSTANTS Message, Recipient

VARIABLES
  outcome,  \* for each recipient of a message sent: pending, delivered, failed
  taken,    \* the recipients whose server has taken the message
  verdict   \* for each message sent: none, or what became of it

outboxVars == <<outcome, taken, verdict>>

\* What the outcomes of all recipients of message m amount to.
Summary(m) ==
  LET outcomes == {outcome[i] : i \in {j \in DOMAIN outcome : j[1] = m}}
  IN  IF outcomes = {"delivered", "failed"} THEN "partial"
      ELSE IF outcomes = {"failed"} THEN "failed"
      ELSE "delivered"

OutboxInit ==
  /\ outcome = [i \in {} |-> i]
  /\ taken = {}
  /\ verdict = [m \in {} |-> m]

\* A message without recipients elsewhere may be called delivered at once.
Submit(m, recipients) ==
  /\ m \notin DOMAIN verdict
  /\ outcome' = [i \in DOMAIN outcome \cup ({m} \X recipients) |->
                   IF i \in DOMAIN outcome THEN outcome[i] ELSE "pending"]
  /\ \E v \in {"none", "delivered"} :
       /\ v = "delivered" => recipients = {}
       /\ verdict' = [n \in DOMAIN verdict \cup {m} |-> IF n = m THEN v ELSE verdict[n]]
  /\ UNCHANGED taken

Take(i) ==
  /\ outcome[i] = "pending"
  /\ taken' = taken \cup {i}
  /\ UNCHANGED <<outcome, verdict>>

Settle(i, o) ==
  /\ outcome[i] = "pending"
  /\ o = "delivered" => i \in taken
  /\ outcome' = [outcome EXCEPT ![i] = o]
  /\ UNCHANGED <<taken, verdict>>

Publish(m) ==
  /\ verdict[m] = "none"
  /\ \A i \in DOMAIN outcome : i[1] = m => outcome[i] # "pending"
  /\ verdict' = [verdict EXCEPT ![m] = Summary(m)]
  /\ UNCHANGED <<outcome, taken>>

OutboxNext ==
  \/ \E m \in Message, recipients \in SUBSET Recipient : Submit(m, recipients)
  \/ \E i \in DOMAIN outcome : Take(i) \/ \E o \in {"delivered", "failed"} : Settle(i, o)
  \/ \E m \in DOMAIN verdict : Publish(m)

OutboxSpec == OutboxInit /\ [][OutboxNext]_outboxVars

=============================================================================
