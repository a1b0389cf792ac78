----------------------------- MODULE MCAccounts -----------------------------
(* Accounts with symmetry, in two parts: web requests that compete for       *)
(* sessions, and a mail connection beside one session and one request at a   *)
(* time, with one more change of the password.  `part` tells which; the run  *)
(* explores the sum of the two.                                              *)
EXTENDS Accounts, TLC

VARIABLE part

MCInit == Init /\ part \in {"web", "mail"}

AtMostOne(f) == \A x, y \in DOMAIN f : f[x] # None /\ f[y] # None => x = y

MCNext ==
  /\ UNCHANGED part
  /\ Next
  /\ part = "web" =>
       /\ UNCHANGED <<apps, conn>>
       /\ \A u \in User : users'[u].auth < MaxVersion /\ users'[u].protocol < MaxVersion
  /\ part = "mail" => AtMostOne(sessions') /\ AtMostOne(request')

MCSpec == MCInit /\ [][MCNext]_<<vars, part>>

Symmetry == Permutations(User) \cup Permutations(Token) \cup
            Permutations(AppPassword) \cup Permutations(Request)
=============================================================================
