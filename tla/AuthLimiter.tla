---------------------------- MODULE AuthLimiter ----------------------------
(***************************************************************************)
(* The limiter of failed logins that SMTP and IMAP use                     *)
(* (internal/authlimit).  A request calls Allow, verifies the password     *)
(* without the lock, and calls Failure or Success; requests overlap.       *)
(*                                                                         *)
(* One table holds a bucket per remote address and per account; windows    *)
(* have a fixed start, blocks an end.  Instants are kept as the time since *)
(* or until them, in units that the windows and blocks are multiples of,   *)
(* up to the point from which no comparison tells them apart.              *)
(***************************************************************************)
EXTENDS Integers, FiniteSets, Functions

CONSTANTS
  IP,             \* remote addresses
  Account,        \* account names; IP and Account are disjoint
  MaxFailures,    \* 5
  Window,         \* 10 minutes
  Block,          \* 15 minutes
  MaxEntries,     \* 16384
  SweepEvery,     \* 1 minute
  MaxIPAttempts,  \* 60
  IPWindow,       \* 1 minute
  IPBlock,        \* 1 minute
  MaxVerifying    \* bound: logins in progress at a time

ASSUME AuthLimiterAssumption ==
  /\ IsFiniteSet(IP) /\ IsFiniteSet(Account) /\ IP \cap Account = {}
  /\ {MaxFailures, MaxIPAttempts, Window, Block, SweepEvery, IPWindow, IPBlock} \subseteq Nat \ {0}
  /\ {MaxEntries, MaxVerifying} \subseteq Nat /\ MaxEntries >= 2

VARIABLES
  buckets,    \* key -> bucket
  nextSweep,  \* time until nextSweep
  verifying,  \* logins in progress, counted by address and account
  allowed,    \* per address and age: attempts allowed within IPWindow; not in the code
  guessed     \* per account and age: wrong passwords within Window and since the
              \* last success; not in the code

limiterVars == <<buckets, nextSweep, verifying, allowed, guessed>>

Retention ==
  CHOOSE m \in {Window, Block, IPWindow, IPBlock} :
    \A d \in {Window, Block, IPWindow, IPBlock} : d <= m

\* failureWindowStart and attemptWindowStart are ages, the blockedUntil fields
\* times left, and idle is the time since touchedAt, which Failure sets at once
\* in a bucket of its own.
NewBucket ==
  [failures |-> 0, failureWindow |-> 0, failureBlock |-> 0,
   attempts |-> 0, attemptWindow |-> 0, attemptBlock |-> 0, idle |-> 0]

Blocked(b) == b.failureBlock > 0 \/ b.attemptBlock > 0

Expired(b) == ~Blocked(b) /\ b.idle >= Retention

\* sweepIfDue of a table.
Swept(table) == [k \in {x \in DOMAIN table : ~Expired(table[x])} |-> table[k]]

SweepIfDue(table, force) == IF force \/ nextSweep = 0 THEN Swept(table) ELSE table

RollFailures(b) ==
  IF b.failureWindow >= Window THEN [b EXCEPT !.failures = 0, !.failureWindow = 0] ELSE b

RollAttempts(b) ==
  IF b.attemptWindow >= IPWindow THEN [b EXCEPT !.attempts = 0, !.attemptWindow = 0] ELSE b

Bucket(table, k) == IF k \in DOMAIN table THEN table[k] ELSE NewBucket

With(table, k, b) == [x \in DOMAIN table \cup {k} |-> IF x = k THEN b ELSE table[x]]

Exceeds(table, ip, account) == Cardinality(DOMAIN table \cup {ip, account}) > MaxEntries

\* The table as Allow finds it: swept when due, and again when it is full.  The
\* mutant leaves a full table to the next sweep.
SweptFor_Mutant(ip, account) == SweepIfDue(buckets, FALSE)

SweptFor(ip, account) ==
  LET table == SweepIfDue(buckets, FALSE) IN
  IF Exceeds(table, ip, account) THEN SweepIfDue(table, TRUE) ELSE table

NextSweepFor(ip, account) ==
  IF nextSweep = 0 \/ Exceeds(SweepIfDue(buckets, FALSE), ip, account)
  THEN SweepEvery ELSE nextSweep

LimiterInit ==
  /\ nextSweep = 0
  /\ buckets = [k \in {} |-> NewBucket]
  /\ verifying = [q \in IP \X Account |-> 0]
  /\ allowed = [i \in IP |-> [t \in 0..(IPWindow - 1) |-> 0]]
  /\ guessed = [a \in Account |-> [t \in 0..(Window - 1) |-> 0]]

\* Allow: no room for the buckets of the request.
RefuseNew(ip, account) ==
  /\ Exceeds(SweptFor(ip, account), ip, account)
  /\ buckets' = SweptFor(ip, account)
  /\ nextSweep' = NextSweepFor(ip, account)
  /\ UNCHANGED <<verifying, allowed, guessed>>

\* Allow: one of the two buckets is blocked.  The address comes first; a blocked
\* address leaves the account untouched.
RefuseBlocked(ip, account) ==
  LET table == SweptFor(ip, account)
      ipBucket == Bucket(table, ip)
      accountBucket == Bucket(table, account) IN
  /\ ~Exceeds(table, ip, account)
  /\ Blocked(ipBucket) \/ Blocked(accountBucket)
  /\ buckets' = IF Blocked(ipBucket) THEN table
                ELSE With(table, ip, RollAttempts(RollFailures(ipBucket)))
  /\ nextSweep' = NextSweepFor(ip, account)
  /\ UNCHANGED <<verifying, allowed, guessed>>

Charge(b) ==
  LET n == b.attempts + 1 IN
  [b EXCEPT !.attempts = n,
            !.attemptBlock = IF n >= MaxIPAttempts THEN IPBlock ELSE @]

Touch(b) == [RollAttempts(RollFailures(b)) EXCEPT !.idle = 0]

Allow(ip, account) ==
  LET table == SweptFor(ip, account)
      ipBucket == Bucket(table, ip)
      accountBucket == Bucket(table, account) IN
  /\ SumFunction(verifying) < MaxVerifying
  /\ ~Exceeds(table, ip, account)
  /\ ~Blocked(ipBucket) /\ ~Blocked(accountBucket)
  /\ buckets' = With(With(table, account, Touch(accountBucket)), ip, Charge(Touch(ipBucket)))
  /\ nextSweep' = NextSweepFor(ip, account)
  /\ verifying' = [verifying EXCEPT ![<<ip, account>>] = @ + 1]
  /\ allowed' = [allowed EXCEPT ![ip][0] = @ + 1]
  /\ UNCHANGED guessed

\* One more failure; the mutant blocks one too late.
Fail_Mutant(b) ==
  LET n == RollFailures(b).failures + 1 IN
  [RollFailures(b) EXCEPT !.failures = n, !.idle = 0,
            !.failureBlock = IF n > MaxFailures THEN Block ELSE @]

Fail(b) ==
  LET n == RollFailures(b).failures + 1 IN
  [RollFailures(b) EXCEPT !.failures = n, !.idle = 0,
            !.failureBlock = IF n >= MaxFailures THEN Block ELSE @]

\* A bucket that is gone comes back only when there is room.
FailKey(table, k) ==
  IF k \notin DOMAIN table /\ Cardinality(DOMAIN table) >= MaxEntries THEN table
  ELSE With(table, k, Fail(Bucket(table, k)))

\* The password was wrong.
Failure(ip, account) ==
  /\ verifying[<<ip, account>>] > 0
  /\ buckets' = FailKey(FailKey(buckets, ip), account)
  /\ verifying' = [verifying EXCEPT ![<<ip, account>>] = @ - 1]
  /\ guessed' = [guessed EXCEPT ![account][0] = @ + 1]
  /\ UNCHANGED <<nextSweep, allowed>>

\* The password was right.
Success(ip, account) ==
  /\ verifying[<<ip, account>>] > 0
  /\ buckets' = [k \in DOMAIN buckets \ {account} |-> buckets[k]]
  /\ verifying' = [verifying EXCEPT ![<<ip, account>>] = @ - 1]
  /\ guessed' = [guessed EXCEPT ![account] = [t \in DOMAIN @ |-> 0]]
  /\ UNCHANGED <<nextSweep, allowed>>

Up(t, max) == IF t < max THEN t + 1 ELSE max

Down(t) == IF t > 0 THEN t - 1 ELSE 0

\* Counts of a window that has ended are never read, nor is the attempt window of
\* an account.
Aged(k, b) ==
  [failures |-> IF b.failureWindow + 1 >= Window THEN 0 ELSE b.failures,
   failureWindow |-> Up(b.failureWindow, Window),
   failureBlock |-> Down(b.failureBlock),
   attempts |-> IF b.attemptWindow + 1 >= IPWindow THEN 0 ELSE b.attempts,
   attemptWindow |-> IF k \in IP THEN Up(b.attemptWindow, IPWindow) ELSE 0,
   attemptBlock |-> Down(b.attemptBlock),
   idle |-> Up(b.idle, Retention)]

Older(counts) == [t \in DOMAIN counts |-> IF t = 0 THEN 0 ELSE counts[t - 1]]

LimiterTick ==
  /\ buckets' = [k \in DOMAIN buckets |-> Aged(k, buckets[k])]
  /\ nextSweep' = Down(nextSweep)
  /\ allowed' = [i \in IP |-> Older(allowed[i])]
  /\ guessed' = [a \in Account |-> Older(guessed[a])]
  /\ UNCHANGED verifying

LimiterNext ==
  \/ LimiterTick
  \/ \E ip \in IP, account \in Account :
       \/ RefuseNew(ip, account) \/ RefuseBlocked(ip, account) \/ Allow(ip, account)
       \/ Failure(ip, account) \/ Success(ip, account)

LimiterSpec == LimiterInit /\ [][LimiterNext]_limiterVars

-----------------------------------------------------------------------------
(* Properties. *)

Keys == IP \cup Account

Buckets ==
  [failures : Nat, failureWindow : 0..Window, failureBlock : 0..Block,
   attempts : Nat, attemptWindow : 0..IPWindow, attemptBlock : 0..IPBlock, idle : 0..Retention]

LimiterTypeOK ==
  /\ buckets \in [DOMAIN buckets -> Buckets] /\ DOMAIN buckets \subseteq Keys
  /\ nextSweep \in 0..SweepEvery
  /\ verifying \in [IP \X Account -> Nat]
  /\ allowed \in [IP -> [0..(IPWindow - 1) -> Nat]]
  /\ guessed \in [Account -> [0..(Window - 1) -> Nat]]

\* The table stays within its bound, although Failure makes buckets again that
\* another request's Success has deleted in the meantime.
TableBounded == Cardinality(DOMAIN buckets) <= MaxEntries

\* In any interval of a window's length, not only in the windows with fixed starts,
\* and whatever addresses the guesses come from, an account's password is guessed
\* wrong at most as often as in two windows that end just short of the block and in
\* the verifications in progress at the end (a success in between starts the count
\* anew).  In the place of the first window there can be verifications that were in
\* progress when the account's bucket was removed, by a success or a sweep: while
\* the table is full, Failure does not count them.  An address gets less than twice
\* its budget of verifications, also when all succeed.  Both need a block that is
\* not shorter than the window, as configured.
GuessingBounded ==
  /\ Block >= Window =>
       \A a \in Account :
         SumFunction(guessed[a]) <=
           IF MaxVerifying > MaxFailures - 1 THEN MaxFailures - 1 + 2 * MaxVerifying
           ELSE 2 * (MaxFailures - 1) + MaxVerifying
  /\ IPBlock >= IPWindow => \A i \in IP : SumFunction(allowed[i]) <= 2 * MaxIPAttempts - 1

\* Nobody is refused for lack of space while the table keeps a bucket that is due
\* to be swept: a full table does not lock newcomers out until the next sweep.
StaleSwept ==
  [][(\E ip \in IP, account \in Account : RefuseNew(ip, account)) =>
       \A k \in DOMAIN buckets' : ~Expired(buckets'[k])]_limiterVars

=============================================================================
