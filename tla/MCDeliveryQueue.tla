--------------------------- MODULE MCDeliveryQueue ---------------------------
(* DeliveryQueue in two parts: one message for two recipients with two       *)
(* faults, and two messages with three rows, of which a batch takes two,     *)
(* with one fault.  `part` tells which; the run explores the sum of the two. *)
EXTENDS DeliveryQueue

CONSTANTS m1, m2, r1, r2

VARIABLE part

MCInit == Init /\ part \in {"faults", "rows"}

MCNext ==
  /\ UNCHANGED part
  /\ Next
  /\ part = "faults" => DOMAIN transport' \subseteq {m1}
  /\ part = "rows" => DOMAIN queue' \subseteq {<<m1, r1>>, <<m1, r2>>, <<m2, r1>>} /\ faults' < MaxFaults

MCSpec == MCInit /\ [][MCNext]_<<vars, part>> /\ WF_vars(WorkerStep) /\ WF_vars(Tick)
=============================================================================
