--------------------------- MODULE MCConnections ---------------------------
(* ConnLimit, PreAuthGuard and GuardedReader, each checked by itself: they   *)
(* share no state, and `subject` is the one that moves in a behaviour, so    *)
(* that the run explores the sum of their state spaces.                      *)
EXTENDS ConnLimit, PreAuthGuard, GuardedReader

CONSTANTS c1, c2, c3, a1, a2, k1, k2

VARIABLE subject

\* Two connections from one address with one key, and one from elsewhere.
MCAddressOf == [c \in {c1, c2, c3} |-> IF c = c3 THEN a2 ELSE a1]
MCKeyOf == [c \in {c1, c2, c3} |-> IF c = c3 THEN k2 ELSE k1]

MCInit ==
  /\ subject \in {"limiter", "guard", "reader"}
  /\ ConnInit /\ GuardInit /\ ReaderInit

MCNext ==
  /\ UNCHANGED subject
  /\ \/ subject = "limiter" /\ ConnNext /\ UNCHANGED <<guardVars, readerVars>>
     \/ subject = "guard" /\ GuardNext /\ UNCHANGED <<connVars, readerVars>>
     \/ subject = "reader" /\ ReaderNext /\ UNCHANGED <<connVars, guardVars>>

\* Only PreAuthGuard states fairness; nothing of it is enabled while another moves.
MCSpec == MCInit /\ [][MCNext]_<<subject, connVars, guardVars, readerVars>> /\ GuardFairness
=============================================================================
