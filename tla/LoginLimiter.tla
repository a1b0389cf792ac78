---------------------------- MODULE LoginLimiter ----------------------------
(***************************************************************************)
(* The limiter of the web server (loginLimiter in internal/httpapi) and    *)
(* the two handlers that use it.  It keeps the times of the allowed        *)
(* attempts per key in windows that slide; a login is charged to the       *)
(* client's address and then to the account, a first-run setup to the      *)
(* address alone with a longer window.  When the table is full, keys whose *)
(* last attempt is older than the window of the current call are dropped.  *)
(*                                                                         *)
(* Times are ages in units that the windows are multiples of, up to the    *)
(* first one that is older than the longest; a key's attempts are counted  *)
(* by age.                                                                 *)
(***************************************************************************)
EXTENDS Integers, FiniteSets, Functions

CONSTANTS
  Client,         \* addresses of web clients
  WebAccount,     \* account names as they are typed
  WebRequest,     \* logins that can be in progress at a time
  SetupLimit, SetupWindow,    \* 10 in an hour
  ClientLimit, AccountLimit,  \* 100 and 10
  LoginWindow,                \* in 15 minutes
  MaxKeys         \* 10000

ASSUME LoginLimiterAssumption ==
  /\ {SetupLimit, SetupWindow, ClientLimit, AccountLimit, LoginWindow, MaxKeys} \subseteq Nat \ {0}
  /\ LoginWindow <= SetupWindow

VARIABLES
  attempts,  \* loginLimiter.attempts: key -> how many attempts of each age
  web,       \* of each request: its stage and account
  ready,     \* the first administrator exists
  granted    \* per account and age: attempts allowed within LoginWindow and since the
             \* last success; not in the code

webVars == <<attempts, web, ready, granted>>

SetupKey(c) == <<"setup", c>>
ClientKey(c) == <<"login-ip", c>>
AccountKey(a) == <<"login-account", a>>

NoRequest == [stage |-> "none", account |-> "none"]

Age == 0..(SetupWindow + 1)

\* `allow` drops the keys whose last attempt is older than the window when a new
\* key finds the table full; the mutant looks at the first attempt.
Purged_Mutant(table, key, window) ==
  IF key \in DOMAIN table \/ Cardinality(DOMAIN table) < MaxKeys THEN table
  ELSE [k \in {x \in DOMAIN table : \A t \in Age : table[x][t] > 0 => t <= window} |-> table[k]]

Purged(table, key, window) ==
  IF key \in DOMAIN table \/ Cardinality(DOMAIN table) < MaxKeys THEN table
  ELSE [k \in {x \in DOMAIN table : \E t \in 0..window : table[x][t] > 0} |-> table[k]]

Recent(table, key, window) ==
  [t \in 0..(window - 1) |-> IF key \in DOMAIN table THEN table[key][t] ELSE 0]

TableFull(table, key) == key \notin DOMAIN table /\ Cardinality(DOMAIN table) >= MaxKeys

Permits(table, key, limit, window) ==
  /\ ~TableFull(Purged(table, key, window), key)
  /\ SumFunction(Recent(table, key, window)) < limit

\* The table after `allow`.
Charged(table, key, limit, window) ==
  LET purged == Purged(table, key, window)
      recent == Recent(table, key, window)
      new == IF SumFunction(recent) < limit THEN 1 ELSE 0
      times == [t \in Age |-> IF t >= window THEN 0 ELSE IF t = 0 THEN recent[0] + new ELSE recent[t]] IN
  IF TableFull(purged, key) THEN purged
  ELSE [k \in DOMAIN purged \cup {key} |-> IF k = key THEN times ELSE purged[k]]

Cleared(table, key) == [k \in DOMAIN table \ {key} |-> table[k]]

WebInit ==
  /\ attempts = [k \in {} |-> [t \in Age |-> 0]]
  /\ web = [r \in WebRequest |-> NoRequest]
  /\ ready = FALSE
  /\ granted = [a \in WebAccount |-> [t \in 0..(LoginWindow - 1) |-> 0]]

\* The handler `setup`: nothing, or the administrator is made, or a session as well;
\* then its budget is cleared.
TrySetup(c, made, session) ==
  LET k == SetupKey(c) table == Charged(attempts, k, SetupLimit, SetupWindow) IN
  /\ made => ~ready /\ Permits(attempts, k, SetupLimit, SetupWindow)
  /\ attempts' = IF made /\ session THEN Cleared(table, k) ELSE table
  /\ ready' = (ready \/ made)
  /\ UNCHANGED <<web, granted>>

\* The handler `login`: the address is charged, under a lock of its own ...
ChargeClient(r, c, a) ==
  LET k == ClientKey(c) IN
  /\ web[r] = NoRequest
  /\ attempts' = Charged(attempts, k, ClientLimit, LoginWindow)
  /\ web' = IF Permits(attempts, k, ClientLimit, LoginWindow)
            THEN [web EXCEPT ![r] = [stage |-> "client", account |-> a]] ELSE web
  /\ UNCHANGED <<ready, granted>>

\* ... and then the account, before the password is verified.
ChargeAccount(r) ==
  LET a == web[r].account k == AccountKey(a) IN
  /\ web[r].stage = "client"
  /\ attempts' = Charged(attempts, k, AccountLimit, LoginWindow)
  /\ IF Permits(attempts, k, AccountLimit, LoginWindow)
     THEN /\ web' = [web EXCEPT ![r].stage = "verifying"]
          /\ granted' = [granted EXCEPT ![a][0] = @ + 1]
     ELSE web' = [web EXCEPT ![r] = NoRequest] /\ UNCHANGED granted
  /\ UNCHANGED ready

\* The password is wrong (or the session could not be made), or right.
FinishLogin(r, right) ==
  LET a == web[r].account IN
  /\ web[r].stage = "verifying" /\ (right => ready)
  /\ web' = [web EXCEPT ![r] = NoRequest]
  /\ attempts' = IF right THEN Cleared(attempts, AccountKey(a)) ELSE attempts
  /\ granted' = IF right THEN [granted EXCEPT ![a] = [t \in DOMAIN @ |-> 0]] ELSE granted
  /\ UNCHANGED ready

\* Attempts a unit of time later; what is older than every window stays so.
Shifted(counts) ==
  [t \in DOMAIN counts |->
     (IF t = 0 THEN 0 ELSE counts[t - 1]) + (IF t > SetupWindow THEN counts[t] ELSE 0)]

WebTick ==
  /\ attempts' = [k \in DOMAIN attempts |-> Shifted(attempts[k])]
  /\ granted' = [a \in WebAccount |-> Shifted(granted[a])]
  /\ UNCHANGED <<web, ready>>

WebNext ==
  \/ WebTick
  \/ \E c \in Client, made, session \in BOOLEAN : TrySetup(c, made, session)
  \/ \E r \in WebRequest :
       \/ \E c \in Client, a \in WebAccount : ChargeClient(r, c, a)
       \/ ChargeAccount(r) \/ \E right \in BOOLEAN : FinishLogin(r, right)

WebSpec == WebInit /\ [][WebNext]_webVars

-----------------------------------------------------------------------------
(* Properties. *)

WebTypeOK ==
  /\ web \in [WebRequest -> [stage : {"none", "client", "verifying"},
                             account : WebAccount \cup {"none"}]]
  /\ ready \in BOOLEAN
  /\ attempts \in [DOMAIN attempts -> [Age -> Nat]]
  /\ granted \in [WebAccount -> [0..(LoginWindow - 1) -> Nat]]

\* The table stays within its bound, although no sweep ever shrinks it.
WebTableBounded == IsFiniteSet(DOMAIN attempts) /\ Cardinality(DOMAIN attempts) <= MaxKeys

\* An account's password is verified at most AccountLimit times in any interval of
\* LoginWindow without a success, also when the table is full and purged by calls
\* with other windows, and whoever logs in at the same time.
WebGuessesBounded == \A a \in WebAccount : SumFunction(granted[a]) <= AccountLimit

=============================================================================
