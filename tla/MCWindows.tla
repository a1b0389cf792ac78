----------------------------- MODULE MCWindows -----------------------------
(* RetryWindow, AuthLimiter and LoginLimiter, what the program does by the   *)
(* clock, each checked by itself: they share no state, and `subject` is the  *)
(* one that moves in a behaviour, so that the run explores the sum of their  *)
(* state spaces.                                                             *)
EXTENDS RetryWindow, AuthLimiter, LoginLimiter, TLC

VARIABLE subject

\* Addresses, accounts and requests are only compared; no property is temporal
\* beyond one step.
MCSymmetry ==
  Permutations(IP \cup Client) \cup Permutations(Account)
    \cup Permutations(WebAccount) \cup Permutations(WebRequest)

MCInit ==
  /\ subject \in {"queue", "limiter", "web"}
  /\ RetryInit /\ LimiterInit /\ WebInit

MCNext ==
  /\ UNCHANGED subject
  /\ \/ subject = "queue" /\ RetryNext /\ UNCHANGED <<limiterVars, webVars>>
     \/ subject = "limiter" /\ LimiterNext /\ UNCHANGED <<retryVars, webVars>>
     \/ subject = "web" /\ WebNext /\ UNCHANGED <<retryVars, limiterVars>>

MCSpec == MCInit /\ [][MCNext]_<<subject, retryVars, limiterVars, webVars>>
=============================================================================
