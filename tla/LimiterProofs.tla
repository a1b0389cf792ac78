---------------------------- MODULE LimiterProofs ----------------------------
(***************************************************************************)
(* Proofs about AuthLimiter and LoginLimiter, for all limits and however   *)
(* requests overlap: their tables stay within their bounds, a full table   *)
(* of the former has been swept before it turns anybody away, and what is  *)
(* guessed and attempted in any interval as long as a window is bounded.   *)
(*                                                                         *)
(* For the bounds of AuthLimiter, each bucket is related to the counts by  *)
(* age of its key (AccountGood, AddressGood), first step by step for one   *)
(* bucket and then for the table (GuessInv, AttemptInv).                   *)
(***************************************************************************)
EXTENDS AuthLimiter, LoginLimiter, Sums

-----------------------------------------------------------------------------
(* AuthLimiter: buckets and tables.                                          *)

IsTable(table) == table \in [DOMAIN table -> Buckets] /\ DOMAIN table \subseteq Keys

LEMMA Durations ==
  /\ MaxFailures \in Nat \ {0} /\ MaxIPAttempts \in Nat \ {0} /\ SweepEvery \in Nat \ {0}
  /\ Window \in Nat \ {0} /\ Block \in Nat \ {0} /\ IPWindow \in Nat \ {0}
  /\ IPBlock \in Nat \ {0} /\ MaxEntries \in Nat /\ MaxEntries >= 2
  BY AuthLimiterAssumption

LEMMA RetentionNat == Retention \in Nat
  <1> DEFINE D == {Window, Block, IPWindow, IPBlock}
  <1>1. \E m \in D : \A d \in D : d <= m
    BY Durations
  <1>2. Retention \in D
    BY <1>1 DEF Retention
  <1> QED
    BY <1>2, Durations

LEMMA NewBucketType == NewBucket \in Buckets
  BY Durations, RetentionNat DEF NewBucket, Buckets

LEMMA BucketUpdates ==
  ASSUME NEW b \in Buckets
  PROVE  /\ \A n \in Nat : [b EXCEPT !.failures = n] \in Buckets
         /\ \A n \in Nat : [b EXCEPT !.attempts = n] \in Buckets
         /\ [b EXCEPT !.failureWindow = 0] \in Buckets
         /\ [b EXCEPT !.attemptWindow = 0] \in Buckets
         /\ [b EXCEPT !.idle = 0] \in Buckets
         /\ [b EXCEPT !.failureBlock = Block] \in Buckets
         /\ [b EXCEPT !.attemptBlock = IPBlock] \in Buckets
         /\ b.failures + 1 \in Nat /\ b.attempts + 1 \in Nat
  BY Durations, RetentionNat DEF Buckets

LEMMA RolledFailures == ASSUME NEW b \in Buckets PROVE RollFailures(b) \in Buckets
  <1> DEFINE r == [b EXCEPT !.failures = 0]
  <1>1. r \in Buckets /\ [r EXCEPT !.failureWindow = 0] \in Buckets
    BY BucketUpdates
  <1>2. [b EXCEPT !.failures = 0, !.failureWindow = 0] = [r EXCEPT !.failureWindow = 0]
    BY DEF Buckets
  <1> QED
    BY <1>1, <1>2 DEF RollFailures

LEMMA RolledAttempts == ASSUME NEW b \in Buckets PROVE RollAttempts(b) \in Buckets
  <1> DEFINE r == [b EXCEPT !.attempts = 0]
  <1>1. r \in Buckets /\ [r EXCEPT !.attemptWindow = 0] \in Buckets
    BY BucketUpdates
  <1>2. [b EXCEPT !.attempts = 0, !.attemptWindow = 0] = [r EXCEPT !.attemptWindow = 0]
    BY DEF Buckets
  <1> QED
    BY <1>1, <1>2 DEF RollAttempts

LEMMA Touched == ASSUME NEW b \in Buckets PROVE Touch(b) \in Buckets
  <1>1. RollAttempts(RollFailures(b)) \in Buckets
    BY RolledFailures, RolledAttempts
  <1> QED
    BY <1>1, BucketUpdates DEF Touch

LEMMA ChargedBucket == ASSUME NEW b \in Buckets PROVE Charge(b) \in Buckets
  <1> DEFINE n == b.attempts + 1
             r == [b EXCEPT !.attempts = n]
  <1>1. r \in Buckets
    BY BucketUpdates
  <1>2. [r EXCEPT !.attemptBlock = IPBlock] \in Buckets
    BY <1>1, BucketUpdates
  <1>3. Charge(b) \in {r, [r EXCEPT !.attemptBlock = IPBlock]}
    BY DEF Charge, Buckets
  <1> QED
    BY <1>1, <1>2, <1>3

LEMMA Failed == ASSUME NEW b \in Buckets PROVE Fail(b) \in Buckets
  <1> DEFINE rolled == RollFailures(b)
             n == rolled.failures + 1
             r == [rolled EXCEPT !.failures = n]
             s == [r EXCEPT !.idle = 0]
  <1>1. rolled \in Buckets
    BY RolledFailures
  <1>2. Fail(b) = [rolled EXCEPT !.failures = n, !.idle = 0,
                     !.failureBlock = IF n >= MaxFailures THEN Block ELSE @]
    BY DEF Fail
  <1> HIDE DEF rolled
  <1>3. s \in Buckets /\ [s EXCEPT !.failureBlock = Block] \in Buckets
    <2>1. r \in Buckets
      BY <1>1, BucketUpdates
    <2>2. s \in Buckets
      BY <2>1, BucketUpdates
    <2> QED
      BY <2>2, BucketUpdates
  <1>4. Fail(b) \in {s, [s EXCEPT !.failureBlock = Block]}
    BY <1>1, <1>2 DEF Buckets
  <1> QED
    BY <1>3, <1>4

LEMMA BucketSteps ==
  ASSUME NEW b \in Buckets
  PROVE  /\ Charge(Touch(b)) \in Buckets /\ Touch(b) \in Buckets /\ Fail(b) \in Buckets
         /\ RollAttempts(RollFailures(b)) \in Buckets
  BY RolledFailures, RolledAttempts, Touched, ChargedBucket, Failed

LEMMA AgedType ==
  ASSUME NEW b \in Buckets, NEW k
  PROVE  Aged(k, b) \in Buckets
  BY Durations, RetentionNat DEF Aged, Up, Down, Buckets

LEMMA WithType ==
  ASSUME NEW table, IsTable(table), NEW k \in Keys, NEW b \in Buckets
  PROVE  IsTable(With(table, k, b)) /\ DOMAIN With(table, k, b) = DOMAIN table \cup {k}
  BY DEF IsTable, With

LEMMA BucketType ==
  ASSUME NEW table, IsTable(table), NEW k
  PROVE  Bucket(table, k) \in Buckets
  BY NewBucketType DEF IsTable, Bucket

LEMMA SweepType ==
  ASSUME NEW table, IsTable(table), NEW force
  PROVE  /\ IsTable(SweepIfDue(table, force))
         /\ DOMAIN SweepIfDue(table, force) \subseteq DOMAIN table
  BY DEF IsTable, SweepIfDue, Swept

LEMMA SweptForType ==
  ASSUME IsTable(buckets), NEW ip, NEW account
  PROVE  /\ IsTable(SweptFor(ip, account))
         /\ DOMAIN SweptFor(ip, account) \subseteq DOMAIN buckets
  <1> DEFINE table == SweepIfDue(buckets, FALSE)
  <1>1. IsTable(table) /\ DOMAIN table \subseteq DOMAIN buckets
    BY SweepType
  <1>2. IsTable(SweepIfDue(table, TRUE)) /\ DOMAIN SweepIfDue(table, TRUE) \subseteq DOMAIN table
    BY <1>1, SweepType
  <1> QED
    BY <1>1, <1>2 DEF SweptFor

LEMMA NextSweepType ==
  ASSUME nextSweep \in 0..SweepEvery, NEW ip, NEW account
  PROVE  NextSweepFor(ip, account) \in 0..SweepEvery
  <1>1. NextSweepFor(ip, account) \in {SweepEvery, nextSweep}
    BY Zenon DEF NextSweepFor
  <1> QED
    BY <1>1, Durations

LEMMA FiniteKeys ==
  ASSUME NEW S \in SUBSET Keys
  PROVE  IsFiniteSet(S) /\ Cardinality(S) \in Nat
  <1>1. IsFiniteSet(Keys)
    BY AuthLimiterAssumption, FS_Union DEF Keys
  <1> QED
    BY <1>1, FS_Subset, FS_CardinalityType

LEMMA SmallerTable ==
  ASSUME NEW T \in SUBSET Keys, NEW S \in SUBSET T
  PROVE  Cardinality(S) <= Cardinality(T)
  BY FiniteKeys, FS_Subset

-----------------------------------------------------------------------------
(* The table of AuthLimiter stays within its bound.                          *)

LimiterInv == LimiterTypeOK /\ TableBounded

LEMMA LimiterInvInit == LimiterInit => LimiterInv
  <1> SUFFICES ASSUME LimiterInit
               PROVE  LimiterInv
    OBVIOUS
  <1> USE DEF LimiterInit
  <1>1. DOMAIN buckets = {} /\ buckets \in [DOMAIN buckets -> Buckets]
    BY NewBucketType
  <1>2. LimiterTypeOK
    BY <1>1, Durations DEF LimiterTypeOK
  <1>3. TableBounded
    BY <1>1, Durations, FS_EmptySet DEF TableBounded
  <1> QED
    BY <1>2, <1>3 DEF LimiterInv

LEMMA RefusalKeepsInv ==
  ASSUME LimiterInv, NEW ip \in IP, NEW account \in Account,
         RefuseNew(ip, account) \/ RefuseBlocked(ip, account)
  PROVE  LimiterInv'
  <1> DEFINE table == SweptFor(ip, account)
             rolled == RollAttempts(RollFailures(Bucket(table, ip)))
  <1>1. IsTable(table) /\ DOMAIN table \subseteq DOMAIN buckets /\ DOMAIN buckets \subseteq Keys
    BY SweptForType DEF LimiterInv, LimiterTypeOK, IsTable
  <1>2. Cardinality(DOMAIN table) <= MaxEntries
    <2>1. Cardinality(DOMAIN table) <= Cardinality(DOMAIN buckets)
      BY <1>1, SmallerTable
    <2>2. Cardinality(DOMAIN table) \in Nat /\ Cardinality(DOMAIN buckets) \in Nat
      BY <1>1, FiniteKeys
    <2> QED
      BY <2>1, <2>2, Durations DEF LimiterInv, TableBounded
  <1>3. nextSweep' \in 0..SweepEvery /\ UNCHANGED <<verifying, allowed, guessed>>
    BY NextSweepType DEF LimiterInv, LimiterTypeOK, RefuseNew, RefuseBlocked
  <1>4. CASE buckets' = table
    BY <1>1, <1>2, <1>3, <1>4 DEF LimiterInv, LimiterTypeOK, TableBounded, IsTable
  <1>5. CASE buckets' = With(table, ip, rolled) /\ ~Exceeds(table, ip, account)
    <2>1. ip \in Keys /\ account \in Keys
      BY DEF Keys
    <2>2. rolled \in Buckets
      BY <1>1, BucketType, BucketSteps
    <2> HIDE DEF table, rolled
    <2>3. IsTable(buckets') /\ DOMAIN buckets' = DOMAIN table \cup {ip}
      BY <1>1, <1>5, <2>1, <2>2, WithType
    <2>4. DOMAIN table \cup {ip, account} \in SUBSET Keys
      BY <1>1, <2>1
    <2>5. Cardinality(DOMAIN buckets') <= Cardinality(DOMAIN table \cup {ip, account})
      BY <2>3, <2>4, SmallerTable
    <2>6. /\ Cardinality(DOMAIN buckets') \in Nat
          /\ Cardinality(DOMAIN table \cup {ip, account}) \in Nat
      BY <2>3, <2>4, FiniteKeys
    <2>7. Cardinality(DOMAIN buckets') <= MaxEntries
      BY <1>5, <2>5, <2>6, Durations DEF Exceeds
    <2> QED
      BY <1>3, <2>3, <2>7 DEF LimiterInv, LimiterTypeOK, TableBounded, IsTable
  <1>6. buckets' = table \/ (buckets' = With(table, ip, rolled) /\ ~Exceeds(table, ip, account))
    BY DEF RefuseNew, RefuseBlocked
  <1> QED
    BY <1>4, <1>5, <1>6

LEMMA AllowKeepsInv ==
  ASSUME LimiterInv, NEW ip \in IP, NEW account \in Account, Allow(ip, account)
  PROVE  LimiterInv'
  <1> DEFINE table == SweptFor(ip, account)
             first == With(table, account, Touch(Bucket(table, account)))
             charged == Charge(Touch(Bucket(table, ip)))
  <1>1. IsTable(table) /\ DOMAIN table \subseteq Keys
    BY SweptForType DEF LimiterInv, LimiterTypeOK, IsTable
  <1>2. ip \in Keys /\ account \in Keys
    BY DEF Keys
  <1>3. IsTable(first) /\ DOMAIN first = DOMAIN table \cup {account}
    <2>1. Touch(Bucket(table, account)) \in Buckets
      BY <1>1, BucketType, BucketSteps
    <2> HIDE DEF table
    <2> QED
      BY <1>1, <1>2, <2>1, WithType
  <1>4. charged \in Buckets
    BY <1>1, BucketType, BucketSteps
  <1>5. buckets' = With(first, ip, charged) /\ ~Exceeds(table, ip, account)
    BY DEF Allow
  <1>6. IsTable(buckets') /\ DOMAIN buckets' = DOMAIN table \cup {ip, account}
    <2> HIDE DEF table, first, charged
    <2>1. IsTable(With(first, ip, charged)) /\ DOMAIN With(first, ip, charged) = DOMAIN first \cup {ip}
      BY <1>2, <1>3, <1>4, WithType
    <2> QED
      BY <1>3, <1>5, <2>1
  <1>7. Cardinality(DOMAIN buckets') <= MaxEntries
    <2>1. DOMAIN buckets' \in SUBSET Keys
      BY <1>6 DEF IsTable
    <2>2. Cardinality(DOMAIN buckets') \in Nat
      BY <2>1, FiniteKeys
    <2> QED
      BY <1>5, <1>6, <2>2, Durations DEF Exceeds
  <1>8. nextSweep' \in 0..SweepEvery
    BY NextSweepType DEF LimiterInv, LimiterTypeOK, Allow
  <1>9. /\ verifying' \in [IP \X Account -> Nat] /\ guessed' = guessed
        /\ allowed' \in [IP -> [0..(IPWindow - 1) -> Nat]]
    <2>1. /\ verifying' = [verifying EXCEPT ![<<ip, account>>] = @ + 1] /\ guessed' = guessed
          /\ allowed' = [allowed EXCEPT ![ip][0] = @ + 1]
      BY DEF Allow
    <2>2. verifying' \in [IP \X Account -> Nat]
      BY <2>1 DEF LimiterInv, LimiterTypeOK
    <2>3. allowed' \in [IP -> [0..(IPWindow - 1) -> Nat]]
      <3> DEFINE Ages == 0..(IPWindow - 1)
      <3>1. allowed \in [IP -> [Ages -> Nat]] /\ 0 \in Ages
        BY Durations DEF LimiterInv, LimiterTypeOK
      <3> HIDE DEF Ages
      <3>2. allowed[ip] \in [Ages -> Nat] /\ allowed[ip][0] + 1 \in Nat
        BY <3>1
      <3>3. [allowed[ip] EXCEPT ![0] = @ + 1] \in [Ages -> Nat]
        BY <3>2
      <3>4. allowed' \in [IP -> [Ages -> Nat]]
        BY <2>1, <3>1, <3>3
      <3> QED
        BY <3>4 DEF Ages
    <2> QED
      BY <2>1, <2>2, <2>3
  <1> QED
    BY <1>6, <1>7, <1>8, <1>9 DEF LimiterInv, LimiterTypeOK, TableBounded, IsTable

\* Failure may make a bucket again that has been deleted, if there is room.
LEMMA FailKeyBounded ==
  ASSUME NEW table, IsTable(table), Cardinality(DOMAIN table) <= MaxEntries, NEW k \in Keys
  PROVE  IsTable(FailKey(table, k)) /\ Cardinality(DOMAIN FailKey(table, k)) <= MaxEntries
  <1>1. CASE k \notin DOMAIN table /\ Cardinality(DOMAIN table) >= MaxEntries
    BY <1>1 DEF FailKey
  <1>2. CASE ~(k \notin DOMAIN table /\ Cardinality(DOMAIN table) >= MaxEntries)
    <2> DEFINE failed == Fail(Bucket(table, k))
    <2>1. failed \in Buckets
      BY BucketType, BucketSteps
    <2>2. FailKey(table, k) = With(table, k, failed)
      BY <1>2 DEF FailKey
    <2> HIDE DEF failed
    <2>3. IsTable(FailKey(table, k)) /\ DOMAIN FailKey(table, k) = DOMAIN table \cup {k}
      BY <2>1, <2>2, WithType
    <2>4. IsFiniteSet(DOMAIN table) /\ Cardinality(DOMAIN table) \in Nat
      BY FiniteKeys DEF IsTable
    <2>5. Cardinality(DOMAIN table \cup {k})
            = IF k \in DOMAIN table THEN Cardinality(DOMAIN table) ELSE Cardinality(DOMAIN table) + 1
      BY <2>4, FS_AddElement
    <2> QED
      BY <1>2, <2>3, <2>4, <2>5, Durations
  <1> QED
    BY <1>1, <1>2

LEMMA FailureKeepsInv ==
  ASSUME LimiterInv, NEW ip \in IP, NEW account \in Account, Failure(ip, account)
  PROVE  LimiterInv'
  <1>1. ip \in Keys /\ account \in Keys
    BY DEF Keys
  <1>2. IsTable(FailKey(buckets, ip)) /\ Cardinality(DOMAIN FailKey(buckets, ip)) <= MaxEntries
    BY <1>1, FailKeyBounded DEF LimiterInv, LimiterTypeOK, TableBounded, IsTable
  <1>3. IsTable(buckets') /\ Cardinality(DOMAIN buckets') <= MaxEntries
    BY <1>1, <1>2, FailKeyBounded DEF Failure
  <1>4. /\ verifying' \in [IP \X Account -> Nat] /\ nextSweep' = nextSweep /\ allowed' = allowed
        /\ guessed' \in [Account -> [0..(Window - 1) -> Nat]]
    <2>1. nextSweep' = nextSweep /\ allowed' = allowed
      BY DEF Failure
    <2>2. verifying' \in [IP \X Account -> Nat]
      <3> DEFINE q == <<ip, account>>
      <3>1. q \in IP \X Account /\ verifying[q] \in Nat /\ verifying[q] > 0
        BY DEF LimiterInv, LimiterTypeOK, Failure
      <3>2. verifying' = [verifying EXCEPT ![q] = @ - 1]
        BY DEF Failure
      <3> HIDE DEF q
      <3>3. verifying[q] - 1 \in Nat
        BY <3>1
      <3> QED
        BY <3>1, <3>2, <3>3 DEF LimiterInv, LimiterTypeOK
    <2>3. guessed' \in [Account -> [0..(Window - 1) -> Nat]]
      <3>1. guessed[account][0] + 1 \in Nat /\ 0 \in 0..(Window - 1)
        BY Durations DEF LimiterInv, LimiterTypeOK
      <3>2. guessed' = [guessed EXCEPT ![account] = [guessed[account] EXCEPT ![0] = guessed[account][0] + 1]]
        BY DEF Failure
      <3> QED
        BY <3>1, <3>2 DEF LimiterInv, LimiterTypeOK
    <2> QED
      BY <2>1, <2>2, <2>3
  <1> QED
    BY <1>3, <1>4 DEF LimiterInv, LimiterTypeOK, TableBounded, IsTable

LEMMA SuccessKeepsInv ==
  ASSUME LimiterInv, NEW ip \in IP, NEW account \in Account, Success(ip, account)
  PROVE  LimiterInv'
  <1>1. /\ buckets' \in [DOMAIN buckets' -> Buckets] /\ DOMAIN buckets' \subseteq DOMAIN buckets
        /\ DOMAIN buckets \subseteq Keys
    BY DEF LimiterInv, LimiterTypeOK, Success
  <1>2. Cardinality(DOMAIN buckets') <= Cardinality(DOMAIN buckets)
    BY <1>1, SmallerTable
  <1>3. Cardinality(DOMAIN buckets') \in Nat /\ Cardinality(DOMAIN buckets) \in Nat
    BY <1>1, FiniteKeys
  <1>4. Cardinality(DOMAIN buckets') <= MaxEntries
    BY <1>2, <1>3, Durations DEF LimiterInv, TableBounded
  <1>5. /\ verifying' \in [IP \X Account -> Nat] /\ nextSweep' = nextSweep /\ allowed' = allowed
        /\ guessed' \in [Account -> [0..(Window - 1) -> Nat]]
    <2>1. nextSweep' = nextSweep /\ allowed' = allowed
      BY DEF Success
    <2>2. verifying' \in [IP \X Account -> Nat]
      <3> DEFINE q == <<ip, account>>
      <3>1. q \in IP \X Account /\ verifying[q] \in Nat /\ verifying[q] > 0
        BY DEF LimiterInv, LimiterTypeOK, Success
      <3>2. verifying' = [verifying EXCEPT ![q] = @ - 1]
        BY DEF Success
      <3> HIDE DEF q
      <3>3. verifying[q] - 1 \in Nat
        BY <3>1
      <3> QED
        BY <3>1, <3>2, <3>3 DEF LimiterInv, LimiterTypeOK
    <2>3. guessed' \in [Account -> [0..(Window - 1) -> Nat]]
      BY Durations DEF LimiterInv, LimiterTypeOK, Success
    <2> QED
      BY <2>1, <2>2, <2>3
  <1> QED
    BY <1>1, <1>4, <1>5 DEF LimiterInv, LimiterTypeOK, TableBounded

LEMMA TickKeepsInv ==
  ASSUME LimiterInv, LimiterTick
  PROVE  LimiterInv'
  <1>1. DOMAIN buckets' = DOMAIN buckets /\ buckets' \in [DOMAIN buckets' -> Buckets]
    BY AgedType DEF LimiterInv, LimiterTypeOK, LimiterTick
  <1>2. nextSweep' \in 0..SweepEvery
    BY Durations DEF LimiterInv, LimiterTypeOK, LimiterTick, Down
  <1>3. ASSUME NEW n \in Nat \ {0}, NEW counts \in [0..(n - 1) -> Nat]
        PROVE  Older(counts) \in [0..(n - 1) -> Nat]
    BY DEF Older
  <1>4. allowed' \in [IP -> [0..(IPWindow - 1) -> Nat]]
    BY <1>3, Durations DEF LimiterInv, LimiterTypeOK, LimiterTick
  <1>5. guessed' \in [Account -> [0..(Window - 1) -> Nat]]
    BY <1>3, Durations DEF LimiterInv, LimiterTypeOK, LimiterTick
  <1>6. verifying' = verifying
    BY DEF LimiterTick
  <1> QED
    BY <1>1, <1>2, <1>4, <1>5, <1>6 DEF LimiterInv, LimiterTypeOK, TableBounded

LEMMA LimiterInvStep == LimiterInv /\ [LimiterNext]_limiterVars => LimiterInv'
  <1> SUFFICES ASSUME LimiterInv, [LimiterNext]_limiterVars
               PROVE  LimiterInv'
    OBVIOUS
  <1>1. CASE LimiterTick
    BY <1>1, TickKeepsInv
  <1>2. ASSUME NEW ip \in IP, NEW account \in Account,
               \/ RefuseNew(ip, account) \/ RefuseBlocked(ip, account) \/ Allow(ip, account)
               \/ Failure(ip, account) \/ Success(ip, account)
        PROVE  LimiterInv'
    BY <1>2, RefusalKeepsInv, AllowKeepsInv, FailureKeepsInv, SuccessKeepsInv
  <1>3. CASE UNCHANGED limiterVars
    BY <1>3 DEF limiterVars, LimiterInv, LimiterTypeOK, TableBounded
  <1> QED
    BY <1>1, <1>2, <1>3 DEF LimiterNext

\* The buckets of authlimit.Limiter never exceed maxEntries, for any sets of
\* addresses and accounts and any number of overlapping requests.
THEOREM TableAlwaysBounded == LimiterSpec => [](LimiterTypeOK /\ TableBounded)
  <1>1. LimiterInv <=> LimiterTypeOK /\ TableBounded
    BY DEF LimiterInv
  <1> QED
    BY <1>1, LimiterInvInit, LimiterInvStep, PTL DEF LimiterSpec

\* Whoever Allow turns away for lack of space, the table holds no bucket that a
\* sweep would drop.
THEOREM StaleAlwaysSwept == LimiterSpec => StaleSwept
  <1>1. ASSUME NEW ip \in IP, NEW account \in Account, RefuseNew(ip, account)
        PROVE  \A k \in DOMAIN buckets' : ~Expired(buckets'[k])
    <2> DEFINE table == SweepIfDue(buckets, FALSE)
    <2>1. Exceeds(SweptFor(ip, account), ip, account) /\ buckets' = SweptFor(ip, account)
      BY <1>1 DEF RefuseNew
    <2>2. buckets' = Swept(table)
      BY <2>1 DEF SweptFor, SweepIfDue
    <2> HIDE DEF table
    <2> QED
      BY <2>2 DEF Swept
  <1>2. [LimiterNext]_limiterVars =>
          [(\E ip \in IP, account \in Account : RefuseNew(ip, account)) =>
             \A k \in DOMAIN buckets' : ~Expired(buckets'[k])]_limiterVars
    BY <1>1
  <1> QED
    BY <1>2, PTL DEF LimiterSpec, StaleSwept

-----------------------------------------------------------------------------
(* Counts by age.                                                           *)

LEMMA AgesFinite ==
  ASSUME NEW n \in Nat \ {0}
  PROVE  IsFiniteSet(0..(n - 1)) /\ 0 \in 0..(n - 1)
  <1>1. IsFiniteSet(0..(n - 1))
    BY FS_Interval
  <1> QED
    BY <1>1

LEMMA SumOfAll ==
  ASSUME NEW S, IsFiniteSet(S), NEW f \in [S -> Nat]
  PROVE  SumFunction(f) = SumFunctionOnSet(f, S) /\ SumFunction(f) \in Nat
  <1>1. SumFunction(f) = SumFunctionOnSet(f, S)
    BY DEF SumFunction
  <1>2. S \in SUBSET S
    OBVIOUS
  <1> QED
    BY <1>1, <1>2, SumType

\* One more of one of the counts.
LEMMA OneMore ==
  ASSUME NEW S, IsFiniteSet(S), NEW c \in S, NEW counts \in [S -> Nat]
  PROVE  /\ [counts EXCEPT ![c] = @ + 1] \in [S -> Nat]
         /\ SumFunction([counts EXCEPT ![c] = @ + 1]) = SumFunction(counts) + 1
         /\ SumFunction(counts) \in Nat
  <1>1. PICK h \in [S -> Nat] : h = [counts EXCEPT ![c] = @ + 1]
    <2>1. counts[c] + 1 \in Nat
      OBVIOUS
    <2> QED
      BY <2>1
  <1>2. h[c] = counts[c] + 1 /\ (\A t \in S \ {c} : h[t] = counts[t]) /\ S \in SUBSET S
    BY <1>1
  <1>3. SumFunctionOnSet(h, S) = SumFunctionOnSet(counts, S) + 1
    <2>1. SumFunctionOnSet(h, S)
            = IF c \in S THEN SumFunctionOnSet(counts, S) + 1 ELSE SumFunctionOnSet(counts, S)
      BY <1>2, SumIncreased
    <2> QED
      BY <2>1
  <1>4. /\ SumFunction(h) = SumFunctionOnSet(h, S)
        /\ SumFunction(counts) = SumFunctionOnSet(counts, S) /\ SumFunction(counts) \in Nat
    BY SumOfAll
  <1> QED
    BY <1>1, <1>3, <1>4

-----------------------------------------------------------------------------
(* AuthLimiter: what a bucket tells of the wrong guesses for its account.    *)

Total(f, S) == SumFunctionOnSet(f, S)

GuessAges == 0..(Window - 1)

\* What can be guessed before the window of the bucket begins.
Spare == IF MaxVerifying > MaxFailures - 1 THEN MaxVerifying ELSE MaxFailures - 1

\* The ages of guesses that are still within Window when the block has ended, and
\* those of them that the bucket's window has.
Outlasting(b) == {t \in GuessAges : t + b.failureBlock < Window}

InWindow(b) == {t \in Outlasting(b) : t < b.failureWindow}

\* A bucket b and the guesses g of its account: there are none since the bucket was
\* touched; those of the window are counted; after as many as MaxFailures, nothing
\* of the window outlasts the block; when the window has ended, fewer do.
Untouched(b, g) == \A t \in GuessAges : t < b.idle => g[t] = 0

Counted(b, g) ==
  b.failureWindow < Window =>
    Total(g, Outlasting(b)) <= b.failures + Spare /\ Total(g, InWindow(b)) <= b.failures

BlockLasts(b, g) ==
  b.failureWindow < Window /\ b.failures >= MaxFailures =>
    b.failureWindow + b.failureBlock >= Window /\ Total(g, Outlasting(b)) = 0

WindowEnded(b, g) ==
  b.failureWindow >= Window => Total(g, Outlasting(b)) <= MaxFailures - 1

AccountGood(b, g) == Untouched(b, g) /\ Counted(b, g) /\ BlockLasts(b, g) /\ WindowEnded(b, g)

LEMMA Limits ==
  /\ MaxVerifying \in Nat /\ Spare \in Nat /\ Spare >= MaxVerifying /\ Spare >= MaxFailures - 1
  /\ Spare + (MaxFailures - 1) =
       IF MaxVerifying > MaxFailures - 1 THEN MaxFailures - 1 + MaxVerifying
       ELSE 2 * (MaxFailures - 1)
  <1>1. MaxVerifying \in Nat /\ MaxFailures \in Nat \ {0}
    BY AuthLimiterAssumption
  <1> QED
    BY <1>1 DEF Spare

LEMMA RetentionLongest ==
  Retention \in Nat /\ Retention >= Window /\ Retention >= IPWindow
  <1> DEFINE D == {Window, Block, IPWindow, IPBlock}
  <1>1. \E m \in D : \A d \in D : d <= m
    BY Durations
  <1>2. Retention \in D /\ (\A d \in D : d <= Retention)
    BY <1>1 DEF Retention
  <1> QED
    BY <1>2, Durations

LEMMA GuessAgesAre ==
  /\ IsFiniteSet(GuessAges) /\ 0 \in GuessAges
  /\ \A t \in GuessAges : t \in Nat /\ t < Window /\ (t # 0 => t - 1 \in GuessAges)
  BY AgesFinite, Durations DEF GuessAges

LEMMA BucketFields ==
  ASSUME NEW b \in Buckets
  PROVE  /\ b.failures \in Nat /\ b.failureWindow \in Nat /\ b.failureWindow <= Window
         /\ b.failureBlock \in Nat /\ b.attempts \in Nat /\ b.attemptWindow \in Nat
         /\ b.attemptWindow <= IPWindow /\ b.attemptBlock \in Nat /\ b.idle \in Nat
  BY Durations, RetentionNat DEF Buckets

LEMMA OutlastingTotals ==
  ASSUME NEW b, NEW g \in [GuessAges -> Nat]
  PROVE  /\ Outlasting(b) \in SUBSET GuessAges /\ InWindow(b) \in SUBSET GuessAges
         /\ Total(g, Outlasting(b)) \in Nat /\ Total(g, InWindow(b)) \in Nat
         /\ Total(g, GuessAges) \in Nat
  <1>1. Outlasting(b) \in SUBSET GuessAges /\ InWindow(b) \in SUBSET GuessAges
    BY DEF Outlasting, InWindow
  <1>2. GuessAges \in SUBSET GuessAges /\ IsFiniteSet(GuessAges)
    BY GuessAgesAre
  <1> QED
    BY <1>1, <1>2, SumType DEF Total

\* Guesses that are older than what is touched are not counted.
LEMMA FewGuesses ==
  ASSUME NEW g \in [GuessAges -> Nat], Total(g, GuessAges) <= Spare
  PROVE  AccountGood(NewBucket, g)
  <1>1. NewBucket.failures = 0 /\ NewBucket.failureWindow = 0 /\ NewBucket.idle = 0
        /\ NewBucket.failureBlock = 0
    BY DEF NewBucket
  <1>2. InWindow(NewBucket) = {}
    BY <1>1, GuessAgesAre DEF InWindow, Outlasting
  <1>3. Outlasting(NewBucket) = GuessAges
    BY <1>1, GuessAgesAre DEF Outlasting
  <1>4. Total(g, {}) = 0
    BY SumEmpty DEF Total
  <1>5. Untouched(NewBucket, g)
    BY <1>1, GuessAgesAre DEF Untouched
  <1>6. Counted(NewBucket, g)
    BY <1>1, <1>2, <1>3, <1>4, Limits DEF Counted
  <1>7. BlockLasts(NewBucket, g) /\ WindowEnded(NewBucket, g)
    BY <1>1, Durations DEF BlockLasts, WindowEnded
  <1> QED
    BY <1>5, <1>6, <1>7 DEF AccountGood

\* Only some fields of a bucket matter.
LEMMA SameFields ==
  ASSUME NEW b, NEW c, NEW g,
         c.failures = b.failures, c.failureWindow = b.failureWindow,
         c.failureBlock = b.failureBlock, c.idle = b.idle \/ c.idle = 0, AccountGood(b, g)
  PROVE  AccountGood(c, g)
  <1>1. Outlasting(c) = Outlasting(b)
    BY DEF Outlasting
  <1>2. InWindow(c) = InWindow(b)
    BY <1>1 DEF InWindow
  <1>3. Untouched(c, g)
    BY GuessAgesAre DEF Untouched, AccountGood
  <1> QED
    BY <1>1, <1>2, <1>3 DEF AccountGood, Counted, BlockLasts, WindowEnded

LEMMA RolledIsGood ==
  ASSUME NEW b \in Buckets, NEW g \in [GuessAges -> Nat], AccountGood(b, g)
  PROVE  AccountGood(RollFailures(b), g) /\ RollFailures(b).failureWindow < Window
  <1> DEFINE r == RollFailures(b)
  <1>1. CASE b.failureWindow < Window
    BY <1>1, BucketFields, Durations DEF RollFailures
  <1>2. CASE b.failureWindow >= Window
    <2>1. /\ r.failures = 0 /\ r.failureWindow = 0 /\ r.failureBlock = b.failureBlock
          /\ r.idle = b.idle
      BY <1>2 DEF RollFailures, Buckets
    <2> HIDE DEF r
    <2>2. Outlasting(r) = Outlasting(b)
      BY <2>1 DEF Outlasting
    <2>3. InWindow(r) = {}
      BY <2>1, GuessAgesAre DEF InWindow, Outlasting
    <2>4. Total(g, {}) = 0 /\ Total(g, Outlasting(b)) \in Nat
      BY SumEmpty, OutlastingTotals DEF Total
    <2>5. Total(g, Outlasting(b)) <= MaxFailures - 1
      BY <1>2 DEF AccountGood, WindowEnded
    <2>6. Counted(r, g)
      BY <2>1, <2>2, <2>3, <2>4, <2>5, Limits, Durations DEF Counted
    <2>7. Untouched(r, g)
      BY <2>1 DEF AccountGood, Untouched
    <2>8. BlockLasts(r, g) /\ WindowEnded(r, g)
      BY <2>1, Durations DEF BlockLasts, WindowEnded
    <2> QED
      BY <2>1, <2>6, <2>7, <2>8, Durations DEF AccountGood, r
  <1> QED
    BY <1>1, <1>2, BucketFields, Durations

LEMMA TouchedIsGood ==
  ASSUME NEW b \in Buckets, NEW g \in [GuessAges -> Nat], AccountGood(b, g)
  PROVE  AccountGood(Touch(b), g)
  <1> DEFINE r == RollFailures(b)
  <1>1. r \in Buckets /\ AccountGood(r, g)
    BY RolledFailures, RolledIsGood
  <1> HIDE DEF r
  <1>2. /\ [RollAttempts(r) EXCEPT !.idle = 0].failures = r.failures
        /\ [RollAttempts(r) EXCEPT !.idle = 0].failureWindow = r.failureWindow
        /\ [RollAttempts(r) EXCEPT !.idle = 0].failureBlock = r.failureBlock
        /\ [RollAttempts(r) EXCEPT !.idle = 0].idle = 0
    BY <1>1 DEF RollAttempts, Buckets
  <1>3. AccountGood([RollAttempts(r) EXCEPT !.idle = 0], g)
    BY <1>1, <1>2, SameFields
  <1> QED
    BY <1>3 DEF Touch, r

\* The block that follows MaxFailures outlasts the window.
LEMMA FailedIsGood ==
  ASSUME Block >= Window, NEW b \in Buckets, NEW g \in [GuessAges -> Nat], AccountGood(b, g),
         NEW h \in [GuessAges -> Nat], h[0] = g[0] + 1, \A t \in GuessAges \ {0} : h[t] = g[t]
  PROVE  AccountGood(Fail(b), h)
  <1> DEFINE r == RollFailures(b)
             f == Fail(b)
  <1>1. r \in Buckets /\ AccountGood(r, g) /\ r.failureWindow < Window
    BY RolledFailures, RolledIsGood
  <1>2. f = [r EXCEPT !.failures = r.failures + 1, !.idle = 0,
                      !.failureBlock = IF r.failures + 1 >= MaxFailures THEN Block ELSE @]
    BY DEF Fail
  <1> HIDE DEF r
  <1>3. /\ f.failures = r.failures + 1 /\ f.failureWindow = r.failureWindow /\ f.idle = 0
        /\ f.failureBlock = IF r.failures + 1 >= MaxFailures THEN Block ELSE r.failureBlock
    BY <1>1, <1>2 DEF Buckets
  <1>4. /\ r.failures \in Nat /\ r.failureWindow \in Nat /\ r.failureBlock \in Nat
    BY <1>1, BucketFields
  <1> HIDE DEF f
  <1>5. Untouched(f, h)
    <2>1. f.idle = 0
      BY <1>3
    <2>2. \A t \in GuessAges : ~(t < 0)
      BY GuessAgesAre
    <2> QED
      BY <2>1, <2>2 DEF Untouched
  <1>6. WindowEnded(f, h)
    BY <1>1, <1>3, <1>4, Durations DEF WindowEnded
  <1>7. ASSUME r.failures + 1 >= MaxFailures
        PROVE  AccountGood(f, h)
    <2>1. f.failureBlock = Block
      BY <1>3, <1>7
    <2>2. Outlasting(f) = {} /\ InWindow(f) = {}
      BY <2>1, GuessAgesAre, Durations DEF Outlasting, InWindow
    <2>3. Total(h, {}) = 0
      BY SumEmpty DEF Total
    <2>4. Counted(f, h)
      BY <1>3, <1>4, <2>2, <2>3, Limits DEF Counted
    <2>5. BlockLasts(f, h)
      BY <1>3, <1>4, <2>1, <2>2, <2>3, Durations DEF BlockLasts
    <2> QED
      BY <1>5, <1>6, <2>4, <2>5 DEF AccountGood
  <1>8. ASSUME ~(r.failures + 1 >= MaxFailures)
        PROVE  AccountGood(f, h)
    <2>1. f.failureBlock = r.failureBlock
      BY <1>3, <1>8
    <2>2. Outlasting(f) = Outlasting(r)
      BY <2>1 DEF Outlasting
    <2>3. InWindow(f) = InWindow(r)
      BY <1>3, <2>2 DEF InWindow
    <2>4. /\ Outlasting(r) \in SUBSET GuessAges /\ InWindow(r) \in SUBSET GuessAges
          /\ Total(g, Outlasting(r)) \in Nat /\ Total(g, InWindow(r)) \in Nat
      BY OutlastingTotals
    <2>5. \A S \in SUBSET GuessAges :
            Total(h, S) = IF 0 \in S THEN Total(g, S) + 1 ELSE Total(g, S)
      BY GuessAgesAre, SumIncreased DEF Total
    <2>6. /\ Total(h, Outlasting(r)) <= Total(g, Outlasting(r)) + 1
          /\ Total(h, InWindow(r)) <= Total(g, InWindow(r)) + 1
      BY <2>4, <2>5
    <2>7. Total(h, Outlasting(r)) \in Nat /\ Total(h, InWindow(r)) \in Nat
      BY OutlastingTotals
    <2>8. Counted(f, h)
      BY <1>1, <1>3, <1>4, <2>2, <2>3, <2>4, <2>6, <2>7, Limits DEF AccountGood, Counted
    <2>9. BlockLasts(f, h)
      BY <1>3, <1>8 DEF BlockLasts
    <2> QED
      BY <1>5, <1>6, <2>8, <2>9 DEF AccountGood
  <1>9. AccountGood(f, h)
    BY <1>7, <1>8
  <1> QED
    BY <1>9 DEF f

LEMMA ExpiredHasNoGuesses ==
  ASSUME NEW b \in Buckets, NEW g \in [GuessAges -> Nat], AccountGood(b, g), Expired(b)
  PROVE  Total(g, GuessAges) = 0
  <1>1. \A t \in GuessAges : g[t] = 0
    BY GuessAgesAre, RetentionLongest, BucketFields, Durations DEF AccountGood, Untouched, Expired
  <1>2. GuessAges \in SUBSET GuessAges
    OBVIOUS
  <1> QED
    BY <1>1, <1>2, GuessAgesAre, SumZero DEF Total

LEMMA UnblockedHasFewGuesses ==
  ASSUME NEW b \in Buckets, NEW g \in [GuessAges -> Nat], AccountGood(b, g), ~Blocked(b)
  PROVE  Total(g, GuessAges) <= MaxFailures - 1 + Spare
  <1>1. b.failureBlock = 0
    BY BucketFields DEF Blocked
  <1>2. Outlasting(b) = GuessAges
    BY <1>1, GuessAgesAre DEF Outlasting
  <1>3. Total(g, GuessAges) \in Nat
    BY OutlastingTotals
  <1>4. CASE b.failureWindow >= Window
    BY <1>2, <1>3, <1>4, Limits, Durations DEF AccountGood, WindowEnded
  <1>5. CASE b.failureWindow < Window
    <2>1. ~(b.failures >= MaxFailures)
      BY <1>1, <1>5, BucketFields, Durations DEF AccountGood, BlockLasts
    <2>2. Total(g, GuessAges) <= b.failures + Spare
      BY <1>2, <1>5 DEF AccountGood, Counted
    <2> QED
      BY <1>3, <2>1, <2>2, BucketFields, Limits, Durations
  <1> QED
    BY <1>4, <1>5, BucketFields, Durations

\* A unit of time later.
LEMMA OlderCounts ==
  ASSUME NEW n \in Nat \ {0}, NEW S, S = 0..(n - 1), NEW g \in [S -> Nat]
  PROVE  /\ Older(g) \in [S -> Nat]
         /\ \A t \in S : Older(g)[t] = IF t = 0 THEN 0 ELSE g[t - 1]
  BY DEF Older

LEMMA OlderGuesses ==
  ASSUME NEW g \in [GuessAges -> Nat]
  PROVE  /\ Older(g) \in [GuessAges -> Nat]
         /\ \A t \in GuessAges : Older(g)[t] = IF t = 0 THEN 0 ELSE g[t - 1]
  BY OlderCounts, Durations DEF GuessAges

LEMMA OlderTotal ==
  ASSUME NEW g \in [GuessAges -> Nat], NEW R \in SUBSET GuessAges, NEW Q \in SUBSET GuessAges,
         \A t \in R : t # 0 => t - 1 \in Q
  PROVE  Total(Older(g), R) <= Total(g, Q)
  <1>1. PICK h \in [GuessAges -> Nat] : h = Older(g)
    BY OlderGuesses
  <1>2. \A t \in GuessAges : h[t] = IF t = 0 THEN 0 ELSE g[t - 1]
    BY <1>1, OlderGuesses
  <1>3. MovedUp(g, h, R, Q)
    BY <1>2, GuessAgesAre DEF MovedUp
  <1>4. SumFunctionOnSet(h, R) <= SumFunctionOnSet(g, Q)
    BY <1>3, GuessAgesAre, SumShifted
  <1> QED
    BY <1>1, <1>4 DEF Total

LEMMA AgedIsGood ==
  ASSUME NEW b \in Buckets, NEW k, NEW g \in [GuessAges -> Nat], AccountGood(b, g)
  PROVE  AccountGood(Aged(k, b), Older(g))
  <1>1. PICK c \in Buckets : c = Aged(k, b)
    BY AgedType
  <1>2. PICK h \in [GuessAges -> Nat] : h = Older(g)
    BY OlderGuesses
  <1>3. /\ c.failures = IF b.failureWindow + 1 >= Window THEN 0 ELSE b.failures
        /\ c.failureWindow = IF b.failureWindow < Window THEN b.failureWindow + 1 ELSE Window
        /\ c.failureBlock = IF b.failureBlock > 0 THEN b.failureBlock - 1 ELSE 0
        /\ c.idle = IF b.idle < Retention THEN b.idle + 1 ELSE Retention
    BY <1>1 DEF Aged, Up, Down
  <1>4. /\ b.failures \in Nat /\ b.failureWindow \in Nat /\ b.failureWindow <= Window
        /\ b.failureBlock \in Nat /\ b.idle \in Nat /\ b.idle <= Retention
        /\ c.failureWindow \in Nat /\ c.failureBlock \in Nat /\ c.idle \in Nat
    BY BucketFields, RetentionNat DEF Buckets
  <1>5. \A t \in GuessAges : h[t] = IF t = 0 THEN 0 ELSE g[t - 1]
    BY <1>2, OlderGuesses
  <1>6. /\ Outlasting(b) \in SUBSET GuessAges /\ InWindow(b) \in SUBSET GuessAges
        /\ Outlasting(c) \in SUBSET GuessAges /\ InWindow(c) \in SUBSET GuessAges
        /\ Total(g, Outlasting(b)) \in Nat /\ Total(g, InWindow(b)) \in Nat
        /\ Total(h, Outlasting(c)) \in Nat /\ Total(h, InWindow(c)) \in Nat
    BY OutlastingTotals
  <1>7. \A t \in Outlasting(c) : t # 0 => t - 1 \in Outlasting(b)
    BY <1>3, <1>4, GuessAgesAre, Durations DEF Outlasting
  <1>8. \A t \in InWindow(c) : t # 0 => t - 1 \in InWindow(b)
    <2>1. \A t \in InWindow(c) : t # 0 => t - 1 < b.failureWindow
      BY <1>3, <1>4, GuessAgesAre, Durations DEF InWindow, Outlasting
    <2> QED
      BY <1>7, <2>1 DEF InWindow
  <1>9. Total(h, Outlasting(c)) <= Total(g, Outlasting(b))
    BY <1>2, <1>6, <1>7, OlderTotal
  <1>10. Total(h, InWindow(c)) <= Total(g, InWindow(b))
    BY <1>2, <1>6, <1>8, OlderTotal
  <1>11. Untouched(c, h)
    <2> SUFFICES ASSUME NEW t \in GuessAges, t < c.idle
                 PROVE  h[t] = 0
      BY DEF Untouched
    <2>1. CASE t = 0
      BY <1>5, <2>1
    <2>2. CASE t # 0
      <3>1. t - 1 \in GuessAges /\ t - 1 < b.idle
        BY <1>3, <1>4, <2>2, GuessAgesAre, RetentionNat
      <3>2. g[t - 1] = 0
        BY <3>1 DEF AccountGood, Untouched
      <3> QED
        BY <1>5, <2>2, <3>2
    <2> QED
      BY <2>1, <2>2
  <1>12. ASSUME b.failureWindow + 1 < Window
         PROVE  AccountGood(c, h)
    <2>1. c.failures = b.failures /\ c.failureWindow = b.failureWindow + 1 /\ b.failureWindow < Window
      BY <1>3, <1>4, <1>12, Durations
    <2>2. Counted(c, h)
      BY <1>4, <1>6, <1>9, <1>10, <2>1, Limits DEF AccountGood, Counted
    <2>3. BlockLasts(c, h)
      <3> SUFFICES ASSUME c.failures >= MaxFailures
                   PROVE  c.failureWindow + c.failureBlock >= Window /\ Total(h, Outlasting(c)) = 0
        BY DEF BlockLasts
      <3>1. b.failureWindow + b.failureBlock >= Window /\ Total(g, Outlasting(b)) = 0
        BY <2>1 DEF AccountGood, BlockLasts
      <3> QED
        BY <1>3, <1>4, <1>6, <1>9, <2>1, <3>1, Durations
    <2>4. WindowEnded(c, h)
      BY <1>4, <1>12, <2>1, Durations DEF WindowEnded
    <2> QED
      BY <1>11, <2>2, <2>3, <2>4 DEF AccountGood
  <1>13. ASSUME ~(b.failureWindow + 1 < Window)
         PROVE  AccountGood(c, h)
    <2>1. c.failureWindow = Window
      BY <1>3, <1>4, <1>13, Durations
    <2>2. Counted(c, h) /\ BlockLasts(c, h)
      BY <2>1, Durations DEF Counted, BlockLasts
    <2>3. Total(h, Outlasting(c)) <= MaxFailures - 1
      <3>1. CASE b.failureWindow >= Window
        BY <1>6, <1>9, <3>1, Durations DEF AccountGood, WindowEnded
      <3>2. CASE b.failureWindow < Window /\ b.failures >= MaxFailures
        BY <1>6, <1>9, <3>2, Durations DEF AccountGood, BlockLasts
      <3>3. CASE b.failureWindow < Window /\ ~(b.failures >= MaxFailures)
        <4>1. \A t \in Outlasting(c) : t # 0 => t - 1 \in InWindow(b)
          <5>1. \A t \in Outlasting(c) : t # 0 => t - 1 < b.failureWindow
            BY <1>4, <1>6, <1>13, <3>3, GuessAgesAre, Durations
          <5> QED
            BY <1>7, <5>1 DEF InWindow
        <4>2. Total(h, Outlasting(c)) <= Total(g, InWindow(b))
          BY <1>2, <1>6, <4>1, OlderTotal
        <4>3. Total(g, InWindow(b)) <= b.failures
          BY <3>3 DEF AccountGood, Counted
        <4> QED
          BY <1>4, <1>6, <3>3, <4>2, <4>3, Durations
      <3> QED
        BY <1>4, <3>1, <3>2, <3>3, Durations
    <2> QED
      BY <1>11, <2>2, <2>3 DEF AccountGood, WindowEnded
  <1> QED
    BY <1>1, <1>2, <1>12, <1>13

-----------------------------------------------------------------------------
(* AuthLimiter: what a bucket tells of the attempts of its address.          *)

AttemptAges == 0..(IPWindow - 1)

\* The attempts of the bucket's window, those before it, and those that are still
\* within IPWindow when the block has ended.
Current(b) == {t \in AttemptAges : t <= b.attemptWindow}

Earlier(b) == {t \in AttemptAges : t > b.attemptWindow}

Remaining(b) == {t \in AttemptAges : t + b.attemptBlock < IPWindow}

\* A bucket b and the attempts k of its address: there are none since the bucket
\* was touched; those of the window are counted and end in a block; those before
\* the window are fewer than it takes to block.
Unused(b, k) == \A t \in AttemptAges : t < b.idle => k[t] = 0

AttemptsCounted(b, k) ==
  b.attemptWindow < IPWindow =>
    /\ Total(k, Current(b)) <= b.attempts /\ b.attempts <= MaxIPAttempts
    /\ Total(k, Earlier(b)) <= MaxIPAttempts - 1

AttemptsBlock(b, k) ==
  b.attemptWindow < IPWindow /\ b.attempts >= MaxIPAttempts =>
    b.attemptWindow + b.attemptBlock >= IPWindow /\ Total(k, Remaining(b)) = 0

AttemptsEnded(b, k) ==
  b.attemptWindow >= IPWindow =>
    /\ Total(k, AttemptAges) <= MaxIPAttempts /\ k[0] = 0
    /\ Total(k, Remaining(b)) <= MaxIPAttempts - 1

AddressGood(b, k) ==
  Unused(b, k) /\ AttemptsCounted(b, k) /\ AttemptsBlock(b, k) /\ AttemptsEnded(b, k)

LEMMA AttemptAgesAre ==
  /\ IsFiniteSet(AttemptAges) /\ 0 \in AttemptAges
  /\ \A t \in AttemptAges : t \in Nat /\ t < IPWindow /\ (t # 0 => t - 1 \in AttemptAges)
                             /\ ~(t < 0)
  BY AgesFinite, Durations DEF AttemptAges

LEMMA AttemptTotals ==
  ASSUME NEW b, NEW k \in [AttemptAges -> Nat]
  PROVE  /\ Current(b) \in SUBSET AttemptAges /\ Earlier(b) \in SUBSET AttemptAges
         /\ Remaining(b) \in SUBSET AttemptAges /\ Total(k, Current(b)) \in Nat
         /\ Total(k, Earlier(b)) \in Nat /\ Total(k, Remaining(b)) \in Nat
         /\ Total(k, AttemptAges) \in Nat
  <1>1. /\ Current(b) \in SUBSET AttemptAges /\ Earlier(b) \in SUBSET AttemptAges
        /\ Remaining(b) \in SUBSET AttemptAges
    BY DEF Current, Earlier, Remaining
  <1>2. AttemptAges \in SUBSET AttemptAges /\ IsFiniteSet(AttemptAges)
    BY AttemptAgesAre
  <1> QED
    BY <1>1, <1>2, SumType DEF Total

LEMMA FewerAttempts ==
  ASSUME NEW k \in [AttemptAges -> Nat], NEW Q \in SUBSET AttemptAges, NEW R \in SUBSET Q
  PROVE  Total(k, R) <= Total(k, Q)
  BY AttemptAgesAre, SumSubset DEF Total

LEMMA NoAttempts ==
  ASSUME NEW k \in [AttemptAges -> Nat], \A t \in AttemptAges : k[t] = 0
  PROVE  AddressGood(NewBucket, k)
  <1>1. NewBucket.attempts = 0 /\ NewBucket.attemptWindow = 0
    BY DEF NewBucket
  <1>2. \A R \in SUBSET AttemptAges : Total(k, R) = 0
    <2> SUFFICES ASSUME NEW R \in SUBSET AttemptAges
                 PROVE  Total(k, R) = 0
      OBVIOUS
    <2>1. \A t \in R : k[t] = 0
      OBVIOUS
    <2> QED
      BY <2>1, AttemptAgesAre, SumZero DEF Total
  <1>3. Total(k, Current(NewBucket)) = 0 /\ Total(k, Earlier(NewBucket)) = 0
    BY <1>2 DEF Current, Earlier
  <1>4. AttemptsCounted(NewBucket, k)
    BY <1>1, <1>3, Durations DEF AttemptsCounted
  <1>5. AttemptsBlock(NewBucket, k) /\ AttemptsEnded(NewBucket, k)
    BY <1>1, Durations DEF AttemptsBlock, AttemptsEnded
  <1>6. Unused(NewBucket, k)
    BY DEF Unused
  <1> QED
    BY <1>4, <1>5, <1>6 DEF AddressGood

LEMMA SameAttempts ==
  ASSUME NEW b, NEW c, NEW k,
         c.attempts = b.attempts, c.attemptWindow = b.attemptWindow,
         c.attemptBlock = b.attemptBlock, c.idle = b.idle \/ c.idle = 0, AddressGood(b, k)
  PROVE  AddressGood(c, k)
  <1>1. Current(c) = Current(b) /\ Earlier(c) = Earlier(b) /\ Remaining(c) = Remaining(b)
    BY DEF Current, Earlier, Remaining
  <1>2. Unused(c, k)
    BY AttemptAgesAre DEF Unused, AddressGood
  <1> QED
    BY <1>1, <1>2 DEF AddressGood, AttemptsCounted, AttemptsBlock, AttemptsEnded

\* Failures leave the attempts alone.
LEMMA FailedAddress ==
  ASSUME NEW b \in Buckets, NEW k \in [AttemptAges -> Nat], AddressGood(b, k)
  PROVE  AddressGood(RollFailures(b), k) /\ AddressGood(Fail(b), k)
         /\ RollFailures(b).attemptBlock = b.attemptBlock
  <1>1. PICK r \in Buckets : r = RollFailures(b)
    BY RolledFailures
  <1>2. PICK f \in Buckets : f = Fail(b)
    BY Failed
  <1>3. /\ r.attempts = b.attempts /\ r.attemptWindow = b.attemptWindow
        /\ r.attemptBlock = b.attemptBlock /\ r.idle = b.idle
    BY <1>1 DEF RollFailures, Buckets
  <1>4. f = [r EXCEPT !.failures = r.failures + 1, !.idle = 0,
                      !.failureBlock = IF r.failures + 1 >= MaxFailures THEN Block ELSE @]
    BY <1>1, <1>2 DEF Fail
  <1>5. /\ f.attempts = r.attempts /\ f.attemptWindow = r.attemptWindow
        /\ f.attemptBlock = r.attemptBlock /\ f.idle = 0
    BY <1>4 DEF Buckets
  <1>6. AddressGood(r, k)
    BY <1>3, SameAttempts
  <1>7. AddressGood(f, k)
    BY <1>5, <1>6, SameAttempts
  <1> QED
    BY <1>1, <1>2, <1>3, <1>6, <1>7

\* An address that is not blocked has spent less than its budget before the window
\* that begins.
LEMMA RolledAddress ==
  ASSUME NEW b \in Buckets, NEW k \in [AttemptAges -> Nat], AddressGood(b, k), b.attemptBlock = 0
  PROVE  /\ AddressGood(RollAttempts(b), k) /\ RollAttempts(b).attemptWindow < IPWindow
         /\ RollAttempts(b).attemptBlock = 0
  <1>1. PICK r \in Buckets : r = RollAttempts(b)
    BY RolledAttempts
  <1>2. CASE ~(b.attemptWindow >= IPWindow)
    BY <1>2, BucketFields, Durations DEF RollAttempts
  <1>3. CASE b.attemptWindow >= IPWindow
    <2>1. /\ r.attempts = 0 /\ r.attemptWindow = 0 /\ r.attemptBlock = 0 /\ r.idle = b.idle
      BY <1>1, <1>3 DEF RollAttempts, Buckets
    <2>2. \A t \in Current(r) : k[t] = 0
      <3>1. \A t \in Current(r) : t = 0
        BY <2>1, AttemptAgesAre DEF Current
      <3>2. k[0] = 0
        BY <1>3 DEF AddressGood, AttemptsEnded
      <3> QED
        BY <3>1, <3>2
    <2>3. Total(k, Current(r)) = 0
      BY <2>2, AttemptTotals, AttemptAgesAre, SumZero DEF Total
    <2>4. Remaining(b) = AttemptAges
      BY AttemptAgesAre DEF Remaining
    <2>5. Total(k, AttemptAges) <= MaxIPAttempts - 1
      BY <1>3, <2>4 DEF AddressGood, AttemptsEnded
    <2>6. Total(k, Earlier(r)) <= Total(k, AttemptAges) /\ Total(k, Earlier(r)) \in Nat
          /\ Total(k, AttemptAges) \in Nat
      <3>1. Earlier(r) \in SUBSET AttemptAges /\ AttemptAges \in SUBSET AttemptAges
        BY AttemptTotals
      <3> QED
        BY <3>1, FewerAttempts, AttemptTotals
    <2>7. AttemptsCounted(r, k)
      BY <2>1, <2>3, <2>5, <2>6, Durations DEF AttemptsCounted
    <2>8. AttemptsBlock(r, k) /\ AttemptsEnded(r, k)
      BY <2>1, Durations DEF AttemptsBlock, AttemptsEnded
    <2>9. Unused(r, k)
      BY <2>1 DEF Unused, AddressGood
    <2> QED
      BY <1>1, <2>1, <2>7, <2>8, <2>9, Durations DEF AddressGood
  <1> QED
    BY <1>2, <1>3

LEMMA TouchedAddress ==
  ASSUME NEW b \in Buckets, NEW k \in [AttemptAges -> Nat], AddressGood(b, k), b.attemptBlock = 0
  PROVE  /\ AddressGood(Touch(b), k) /\ Touch(b).attemptWindow < IPWindow
         /\ Touch(b).attemptBlock = 0 /\ Touch(b).idle = 0
  <1>1. PICK r \in Buckets : r = RollFailures(b)
    BY RolledFailures
  <1>2. AddressGood(r, k) /\ r.attemptBlock = 0
    BY <1>1, FailedAddress
  <1>3. PICK a \in Buckets : a = RollAttempts(r)
    BY RolledAttempts
  <1>4. AddressGood(a, k) /\ a.attemptWindow < IPWindow /\ a.attemptBlock = 0
    BY <1>2, <1>3, RolledAddress
  <1>5. PICK c \in Buckets : c = Touch(b)
    BY Touched
  <1>6. c = [a EXCEPT !.idle = 0]
    BY <1>1, <1>3, <1>5 DEF Touch
  <1>7. /\ c.attempts = a.attempts /\ c.attemptWindow = a.attemptWindow
        /\ c.attemptBlock = a.attemptBlock /\ c.idle = 0
    BY <1>6 DEF Buckets
  <1>8. AddressGood(c, k)
    BY <1>4, <1>7, SameAttempts
  <1> QED
    BY <1>4, <1>5, <1>7, <1>8

\* The block that follows MaxIPAttempts outlasts the window.
LEMMA ChargedAddress ==
  ASSUME IPBlock >= IPWindow, NEW b \in Buckets, NEW k \in [AttemptAges -> Nat],
         AddressGood(b, k), b.attemptWindow < IPWindow, b.attemptBlock = 0, b.idle = 0,
         NEW m \in [AttemptAges -> Nat], m[0] = k[0] + 1, \A t \in AttemptAges \ {0} : m[t] = k[t]
  PROVE  AddressGood(Charge(b), m)
  <1>1. PICK c \in Buckets : c = Charge(b)
    BY ChargedBucket
  <1>2. /\ c.attempts = b.attempts + 1 /\ c.attemptWindow = b.attemptWindow /\ c.idle = 0
        /\ c.attemptBlock = IF b.attempts + 1 >= MaxIPAttempts THEN IPBlock ELSE 0
    BY <1>1 DEF Charge, Buckets
  <1>3. /\ b.attempts \in Nat /\ b.attemptWindow \in Nat
    BY BucketFields
  <1>4. b.attempts < MaxIPAttempts
    BY <1>3, Durations DEF AddressGood, AttemptsBlock
  <1>5. Current(c) = Current(b) /\ Earlier(c) = Earlier(b)
    BY <1>2 DEF Current, Earlier
  <1>6. \A R \in SUBSET AttemptAges : Total(m, R) = IF 0 \in R THEN Total(k, R) + 1 ELSE Total(k, R)
    BY AttemptAgesAre, SumIncreased DEF Total
  <1>7. 0 \in Current(b) /\ ~(0 \in Earlier(b))
    BY <1>3, AttemptAgesAre DEF Current, Earlier
  <1>8. /\ Total(m, Current(c)) = Total(k, Current(b)) + 1
        /\ Total(m, Earlier(c)) = Total(k, Earlier(b))
    BY <1>5, <1>6, <1>7, AttemptTotals
  <1>9. Total(k, Current(b)) \in Nat /\ Total(k, Earlier(b)) \in Nat
    BY AttemptTotals
  <1>10. AttemptsCounted(c, m)
    BY <1>2, <1>3, <1>4, <1>8, <1>9, Durations DEF AddressGood, AttemptsCounted
  <1>11. AttemptsBlock(c, m)
    <2> SUFFICES ASSUME c.attempts >= MaxIPAttempts
                 PROVE  c.attemptWindow + c.attemptBlock >= IPWindow /\ Total(m, Remaining(c)) = 0
      BY DEF AttemptsBlock
    <2>1. c.attemptBlock = IPBlock
      BY <1>2
    <2>2. Remaining(c) = {}
      BY <2>1, AttemptAgesAre, Durations DEF Remaining
    <2>3. Total(m, {}) = 0
      BY SumEmpty DEF Total
    <2> QED
      BY <1>2, <1>3, <2>1, <2>2, <2>3, Durations
  <1>12. AttemptsEnded(c, m)
    BY <1>2, <1>3, Durations DEF AttemptsEnded
  <1>13. Unused(c, m)
    <2>1. \A t \in AttemptAges : ~(t < 0)
      BY AttemptAgesAre
    <2> QED
      BY <1>2, <2>1 DEF Unused
  <1> QED
    BY <1>1, <1>10, <1>11, <1>12, <1>13 DEF AddressGood

LEMMA ExpiredHasNoAttempts ==
  ASSUME NEW b \in Buckets, NEW k, AddressGood(b, k), Expired(b)
  PROVE  \A t \in AttemptAges : k[t] = 0
  BY AttemptAgesAre, RetentionLongest, BucketFields, Durations DEF AddressGood, Unused, Expired

LEMMA AttemptsBounded ==
  ASSUME NEW b \in Buckets, NEW k \in [AttemptAges -> Nat], AddressGood(b, k)
  PROVE  Total(k, AttemptAges) <= 2 * MaxIPAttempts - 1
  <1>1. /\ Total(k, AttemptAges) \in Nat /\ Total(k, Current(b)) \in Nat
        /\ Total(k, Earlier(b)) \in Nat
    BY AttemptTotals
  <1>2. CASE b.attemptWindow >= IPWindow
    BY <1>1, <1>2, Durations DEF AddressGood, AttemptsEnded
  <1>3. CASE b.attemptWindow < IPWindow
    <2>1. AttemptAges = Current(b) \cup Earlier(b) /\ Current(b) \cap Earlier(b) = {}
      BY AttemptAgesAre, BucketFields DEF Current, Earlier
    <2>2. Current(b) \in SUBSET AttemptAges /\ Earlier(b) \in SUBSET AttemptAges
      BY AttemptTotals
    <2>3. Total(k, Current(b) \cup Earlier(b)) = Total(k, Current(b)) + Total(k, Earlier(b))
      BY <2>1, <2>2, AttemptAgesAre, SumUnion DEF Total
    <2>4. Total(k, AttemptAges) = Total(k, Current(b)) + Total(k, Earlier(b))
      BY <2>1, <2>3
    <2>5. /\ Total(k, Current(b)) <= MaxIPAttempts /\ Total(k, Earlier(b)) <= MaxIPAttempts - 1
      BY <1>1, <1>3, BucketFields, Durations DEF AddressGood, AttemptsCounted
    <2> QED
      BY <1>1, <2>4, <2>5, Durations
  <1> QED
    BY <1>2, <1>3, BucketFields, Durations

LEMMA OlderAttempts ==
  ASSUME NEW k \in [AttemptAges -> Nat]
  PROVE  /\ Older(k) \in [AttemptAges -> Nat]
         /\ \A t \in AttemptAges : Older(k)[t] = IF t = 0 THEN 0 ELSE k[t - 1]
  BY OlderCounts, Durations DEF AttemptAges

LEMMA OlderAttemptTotal ==
  ASSUME NEW k \in [AttemptAges -> Nat],
         NEW R \in SUBSET AttemptAges, NEW Q \in SUBSET AttemptAges,
         \A t \in R : t # 0 => t - 1 \in Q
  PROVE  Total(Older(k), R) <= Total(k, Q)
  <1>1. PICK h \in [AttemptAges -> Nat] : h = Older(k)
    BY OlderAttempts
  <1>2. \A t \in AttemptAges : h[t] = IF t = 0 THEN 0 ELSE k[t - 1]
    BY <1>1, OlderAttempts
  <1>3. MovedUp(k, h, R, Q)
    BY <1>2, AttemptAgesAre DEF MovedUp
  <1>4. SumFunctionOnSet(h, R) <= SumFunctionOnSet(k, Q)
    BY <1>3, AttemptAgesAre, SumShifted
  <1> QED
    BY <1>1, <1>4 DEF Total

LEMMA AgedAddress ==
  ASSUME NEW b \in Buckets, NEW i \in IP, NEW k \in [AttemptAges -> Nat], AddressGood(b, k)
  PROVE  AddressGood(Aged(i, b), Older(k))
  <1>1. PICK c \in Buckets : c = Aged(i, b)
    BY AgedType
  <1>2. PICK m \in [AttemptAges -> Nat] : m = Older(k)
    BY OlderAttempts
  <1>3. /\ c.attempts = IF b.attemptWindow + 1 >= IPWindow THEN 0 ELSE b.attempts
        /\ c.attemptWindow = IF b.attemptWindow < IPWindow THEN b.attemptWindow + 1 ELSE IPWindow
        /\ c.attemptBlock = IF b.attemptBlock > 0 THEN b.attemptBlock - 1 ELSE 0
        /\ c.idle = IF b.idle < Retention THEN b.idle + 1 ELSE Retention
    BY <1>1 DEF Aged, Up, Down
  <1>4. /\ b.attempts \in Nat /\ b.attemptWindow \in Nat /\ b.attemptWindow <= IPWindow
        /\ b.attemptBlock \in Nat /\ b.idle \in Nat /\ b.idle <= Retention
        /\ c.attemptWindow \in Nat /\ c.attemptBlock \in Nat /\ c.idle \in Nat
    BY BucketFields, RetentionNat DEF Buckets
  <1>5. /\ m[0] = 0
        /\ \A t \in AttemptAges : m[t] = IF t = 0 THEN 0 ELSE k[t - 1]
    BY <1>2, OlderAttempts, AttemptAgesAre
  <1>6. /\ Total(k, Current(b)) \in Nat /\ Total(k, Earlier(b)) \in Nat
        /\ Total(k, Remaining(b)) \in Nat /\ Total(k, AttemptAges) \in Nat
        /\ Total(m, Current(c)) \in Nat /\ Total(m, Earlier(c)) \in Nat
        /\ Total(m, Remaining(c)) \in Nat /\ Total(m, AttemptAges) \in Nat
    BY AttemptTotals
  <1>7. Total(m, Remaining(c)) <= Total(k, Remaining(b))
    <2>1. \A t \in Remaining(c) : t # 0 => t - 1 \in Remaining(b)
      BY <1>3, <1>4, AttemptAgesAre, Durations DEF Remaining
    <2> QED
      BY <1>2, <2>1, AttemptTotals, OlderAttemptTotal
  <1>8. Total(m, Remaining(c)) <= Total(m, AttemptAges)
    BY AttemptTotals, FewerAttempts
  <1>9. Unused(c, m)
    <2> SUFFICES ASSUME NEW t \in AttemptAges, t < c.idle
                 PROVE  m[t] = 0
      BY DEF Unused
    <2>1. CASE t = 0
      BY <1>5, <2>1
    <2>2. CASE t # 0
      <3>1. t - 1 \in AttemptAges /\ t - 1 < b.idle
        BY <1>3, <1>4, <2>2, AttemptAgesAre, RetentionNat
      <3>2. k[t - 1] = 0
        BY <3>1 DEF AddressGood, Unused
      <3> QED
        BY <1>5, <2>2, <3>2
    <2> QED
      BY <2>1, <2>2
  <1>10. ASSUME b.attemptWindow + 1 < IPWindow
         PROVE  AddressGood(c, m)
    <2>1. /\ c.attempts = b.attempts /\ c.attemptWindow = b.attemptWindow + 1
          /\ b.attemptWindow < IPWindow
      BY <1>3, <1>4, <1>10, Durations
    <2>2. Total(m, Current(c)) <= Total(k, Current(b))
      <3>1. \A t \in Current(c) : t # 0 => t - 1 \in Current(b)
        BY <1>4, <2>1, AttemptAgesAre DEF Current
      <3> QED
        BY <1>2, <3>1, AttemptTotals, OlderAttemptTotal
    <2>3. Total(m, Earlier(c)) <= Total(k, Earlier(b))
      <3>1. \A t \in Earlier(c) : t # 0 => t - 1 \in Earlier(b)
        BY <1>4, <2>1, AttemptAgesAre DEF Earlier
      <3> QED
        BY <1>2, <3>1, AttemptTotals, OlderAttemptTotal
    <2>4. AttemptsCounted(c, m)
      BY <1>4, <1>6, <2>1, <2>2, <2>3, Durations DEF AddressGood, AttemptsCounted
    <2>5. AttemptsBlock(c, m)
      <3> SUFFICES ASSUME c.attempts >= MaxIPAttempts
                   PROVE  c.attemptWindow + c.attemptBlock >= IPWindow /\ Total(m, Remaining(c)) = 0
        BY DEF AttemptsBlock
      <3>1. b.attemptWindow + b.attemptBlock >= IPWindow /\ Total(k, Remaining(b)) = 0
        BY <2>1 DEF AddressGood, AttemptsBlock
      <3> QED
        BY <1>3, <1>4, <1>6, <1>7, <2>1, <3>1, Durations
    <2>6. AttemptsEnded(c, m)
      BY <1>4, <1>10, <2>1, Durations DEF AttemptsEnded
    <2> QED
      BY <1>9, <2>4, <2>5, <2>6 DEF AddressGood
  <1>11. ASSUME ~(b.attemptWindow + 1 < IPWindow)
         PROVE  AddressGood(c, m)
    <2>1. c.attemptWindow = IPWindow
      BY <1>3, <1>4, <1>11, Durations
    <2>2. AttemptsCounted(c, m) /\ AttemptsBlock(c, m)
      BY <2>1, Durations DEF AttemptsCounted, AttemptsBlock
    <2>3. Total(m, AttemptAges) <= MaxIPAttempts /\ Total(m, Remaining(c)) <= MaxIPAttempts - 1
      <3>1. ASSUME b.attemptWindow >= IPWindow
            PROVE  Total(m, AttemptAges) <= MaxIPAttempts /\ Total(m, Remaining(c)) <= MaxIPAttempts - 1
        <4>1. AttemptAges \in SUBSET AttemptAges
              /\ (\A t \in AttemptAges : t # 0 => t - 1 \in AttemptAges)
          BY AttemptAgesAre
        <4>2. Total(m, AttemptAges) <= Total(k, AttemptAges)
          BY <1>2, <4>1, OlderAttemptTotal
        <4> QED
          BY <1>6, <1>7, <3>1, <4>2, Durations DEF AddressGood, AttemptsEnded
      <3>2. ASSUME b.attemptWindow < IPWindow
            PROVE  Total(m, AttemptAges) <= MaxIPAttempts /\ Total(m, Remaining(c)) <= MaxIPAttempts - 1
        <4>1. \A t \in AttemptAges : t # 0 => t - 1 \in Current(b)
          BY <1>4, <1>11, <3>2, AttemptAgesAre, Durations DEF Current
        <4>2. AttemptAges \in SUBSET AttemptAges /\ Current(b) \in SUBSET AttemptAges
          BY AttemptTotals
        <4>3. Total(m, AttemptAges) <= Total(k, Current(b))
          BY <1>2, <4>1, <4>2, OlderAttemptTotal
        <4>4. Total(k, Current(b)) <= b.attempts /\ b.attempts <= MaxIPAttempts
          BY <3>2 DEF AddressGood, AttemptsCounted
        <4>5. b.attempts >= MaxIPAttempts => Total(k, Remaining(b)) = 0
          BY <3>2 DEF AddressGood, AttemptsBlock
        <4> QED
          BY <1>4, <1>6, <1>7, <1>8, <4>3, <4>4, <4>5, Durations
      <3> QED
        BY <1>4, <3>1, <3>2, Durations
    <2> QED
      BY <1>5, <1>9, <2>2, <2>3 DEF AddressGood, AttemptsEnded
  <1> QED
    BY <1>1, <1>2, <1>10, <1>11

-----------------------------------------------------------------------------
(* AuthLimiter: what the table tells of all accounts and addresses.          *)

\* The verifications of an account in progress.
InProgress(logins, a) == Total(logins, IP \X {a})

\* Without a bucket, an account's guesses and verifications are no more than the
\* verifications that were in progress when its bucket was removed.
AccountFine(table, guesses, logins, a) ==
  IF a \in DOMAIN table THEN AccountGood(table[a], guesses[a])
  ELSE Total(guesses[a], GuessAges) + InProgress(logins, a) <= MaxVerifying

AddressFine(table, counts, i) ==
  IF i \in DOMAIN table THEN AddressGood(table[i], counts[i])
  ELSE \A t \in AttemptAges : counts[i][t] = 0

AccountsGood(table, guesses, logins) == \A a \in Account : AccountFine(table, guesses, logins, a)

AddressesGood(table, counts) == \A i \in IP : AddressFine(table, counts, i)

\* A verification in progress may still become a guess.
GuessesFew(guesses, logins) ==
  \A a \in Account :
    Total(guesses[a], GuessAges) + InProgress(logins, a) <= MaxFailures - 1 + Spare + MaxVerifying

IsLogins(logins) == logins \in [IP \X Account -> Nat] /\ SumFunction(logins) <= MaxVerifying

IsGuesses(guesses) == guesses \in [Account -> [GuessAges -> Nat]]

IsCounts(counts) == counts \in [IP -> [AttemptAges -> Nat]]

SameAt(T, U, x) == (x \in DOMAIN T <=> x \in DOMAIN U) /\ (x \in DOMAIN T => U[x] = T[x])

LEMMA FinitePairs ==
  /\ IsFiniteSet(IP \X Account)
  /\ \A a \in Account : IP \X {a} \in SUBSET (IP \X Account)
  BY AuthLimiterAssumption, FS_Product

LEMMA ProgressBounded ==
  ASSUME NEW logins \in [IP \X Account -> Nat], NEW a \in Account
  PROVE  /\ InProgress(logins, a) \in Nat /\ SumFunction(logins) \in Nat
         /\ InProgress(logins, a) <= SumFunction(logins)
  <1> DEFINE S == IP \X Account
  <1>1. IsFiniteSet(S) /\ IP \X {a} \in SUBSET S /\ S \in SUBSET S
    BY FinitePairs
  <1>2. logins \in [S -> Nat]
    OBVIOUS
  <1> HIDE DEF S
  <1>3. SumFunctionOnSet(logins, IP \X {a}) <= SumFunctionOnSet(logins, S)
    BY <1>1, <1>2, SumSubset
  <1>4. SumFunctionOnSet(logins, IP \X {a}) \in Nat
    BY <1>1, <1>2, SumType
  <1>5. SumFunction(logins) = SumFunctionOnSet(logins, S) /\ SumFunction(logins) \in Nat
    BY <1>1, <1>2, SumOfAll
  <1> QED
    BY <1>3, <1>4, <1>5 DEF InProgress, Total

LEMMA LoginsBounded ==
  ASSUME NEW logins, IsLogins(logins), NEW a \in Account
  PROVE  InProgress(logins, a) \in Nat /\ InProgress(logins, a) <= MaxVerifying
  <1>1. logins \in [IP \X Account -> Nat] /\ SumFunction(logins) <= MaxVerifying
    BY DEF IsLogins
  <1>2. PICK m \in Nat : m = InProgress(logins, a)
    BY <1>1, ProgressBounded
  <1>3. PICK n \in Nat : n = SumFunction(logins)
    BY <1>1, ProgressBounded
  <1>4. m <= n
    BY <1>1, <1>2, <1>3, ProgressBounded
  <1> QED
    BY <1>1, <1>2, <1>3, <1>4, Limits

SameElsewhere(logins, others, ip, account) ==
  \A p \in (IP \X Account) \ {<<ip, account>>} : others[p] = logins[p]

\* One login begins or ends.
LEMMA ProgressChanged ==
  ASSUME NEW logins \in [IP \X Account -> Nat], NEW others \in [IP \X Account -> Nat],
         NEW ip \in IP, NEW account \in Account,
         SameElsewhere(logins, others, ip, account)
  PROVE  /\ InProgress(logins, account) + others[<<ip, account>>]
              = InProgress(others, account) + logins[<<ip, account>>]
         /\ SumFunction(logins) + others[<<ip, account>>]
              = SumFunction(others) + logins[<<ip, account>>]
  <1> DEFINE S == IP \X Account
  <1>1. PICK q \in S : q = <<ip, account>>
    OBVIOUS
  <1>2. IsFiniteSet(S) /\ (\A a \in Account : IP \X {a} \in SUBSET S) /\ S \in SUBSET S
    BY FinitePairs
  <1>3. logins \in [S -> Nat] /\ others \in [S -> Nat] /\ \A p \in S \ {q} : logins[p] = others[p]
    BY <1>1 DEF SameElsewhere
  <1>4. q \in IP \X {account}
    BY <1>1
  <1> HIDE DEF S
  <1>5. ASSUME NEW R \in SUBSET S, q \in R
        PROVE  SumFunctionOnSet(logins, R) + others[q] = SumFunctionOnSet(others, R) + logins[q]
    <2>1. \A p \in R \ {q} : logins[p] = others[p]
      BY <1>3
    <2> QED
      BY <1>2, <1>3, <1>5, <2>1, SumChanged
  <1>6. InProgress(logins, account) + others[q] = InProgress(others, account) + logins[q]
    BY <1>2, <1>4, <1>5 DEF InProgress, Total
  <1>7. SumFunction(logins) + others[q] = SumFunction(others) + logins[q]
    <2>1. /\ SumFunction(logins) = SumFunctionOnSet(logins, S)
          /\ SumFunction(others) = SumFunctionOnSet(others, S)
      BY <1>2, <1>3, SumOfAll
    <2> QED
      BY <1>1, <1>2, <1>5, <2>1
  <1> QED
    BY <1>1, <1>6, <1>7

LEMMA ProgressElsewhere ==
  ASSUME NEW logins \in [IP \X Account -> Nat], NEW others \in [IP \X Account -> Nat],
         NEW ip \in IP, NEW account \in Account,
         SameElsewhere(logins, others, ip, account),
         NEW a \in Account, a # account
  PROVE  InProgress(others, a) = InProgress(logins, a)
  <1> DEFINE S == IP \X Account
             R == IP \X {a}
  <1>1. IsFiniteSet(S) /\ R \in SUBSET (S \cap S)
    BY FinitePairs
  <1>2. \A p \in R : logins[p] = others[p]
    BY DEF SameElsewhere
  <1>3. logins \in [S -> Nat] /\ others \in [S -> Nat]
    OBVIOUS
  <1> HIDE DEF S, R
  <1>4. SumFunctionOnSet(logins, R) = SumFunctionOnSet(others, R)
    BY <1>1, <1>2, <1>3, SumSame
  <1> QED
    BY <1>4 DEF InProgress, Total, R

LEMMA WithElsewhere ==
  ASSUME NEW table, NEW k, NEW b
  PROVE  /\ k \in DOMAIN With(table, k, b) /\ With(table, k, b)[k] = b
         /\ \A x : x # k => SameAt(table, With(table, k, b), x)
  BY DEF With, SameAt

LEMMA FailKeyElsewhere ==
  ASSUME NEW table, NEW k
  PROVE  \A x : x # k => SameAt(table, FailKey(table, k), x)
  <1>1. CASE k \notin DOMAIN table /\ Cardinality(DOMAIN table) >= MaxEntries
    BY <1>1 DEF FailKey, SameAt
  <1>2. CASE ~(k \notin DOMAIN table /\ Cardinality(DOMAIN table) >= MaxEntries)
    BY <1>2, WithElsewhere DEF FailKey
  <1> QED
    BY <1>1, <1>2

LEMMA SameAccount ==
  ASSUME NEW T, NEW U, NEW guesses, NEW others, NEW logins, NEW later, NEW a,
         SameAt(T, U, a), others[a] = guesses[a], InProgress(later, a) = InProgress(logins, a),
         AccountFine(T, guesses, logins, a)
  PROVE  AccountFine(U, others, later, a)
  BY DEF SameAt, AccountFine

LEMMA SameAddress ==
  ASSUME NEW T, NEW U, NEW counts, NEW others, NEW i,
         SameAt(T, U, i), others[i] = counts[i], AddressFine(T, counts, i)
  PROVE  AddressFine(U, others, i)
  BY DEF SameAt, AddressFine

LEMMA KeysDiffer ==
  ASSUME NEW i \in IP, NEW a \in Account
  PROVE  i # a
  BY AuthLimiterAssumption

\* The bucket that a request finds or makes is good.
LEMMA AccountBucket ==
  ASSUME NEW table, NEW guesses, IsGuesses(guesses), NEW logins, IsLogins(logins), NEW a \in Account,
         AccountFine(table, guesses, logins, a)
  PROVE  AccountGood(Bucket(table, a), guesses[a])
  <1>1. CASE a \in DOMAIN table
    BY <1>1 DEF Bucket, AccountFine
  <1>2. CASE a \notin DOMAIN table
    <2>1. PICK g \in [GuessAges -> Nat] : g = guesses[a]
      BY DEF IsGuesses
    <2>2. Total(g, GuessAges) + InProgress(logins, a) <= MaxVerifying
      BY <1>2, <2>1 DEF AccountFine
    <2>3. InProgress(logins, a) \in Nat /\ Total(g, GuessAges) \in Nat
      BY ProgressBounded, OutlastingTotals DEF IsLogins
    <2>4. Total(g, GuessAges) <= Spare
      BY <2>2, <2>3, Limits
    <2>5. AccountGood(NewBucket, g)
      BY <2>4, FewGuesses
    <2> QED
      BY <1>2, <2>1, <2>5 DEF Bucket
  <1> QED
    BY <1>1, <1>2

LEMMA AddressBucket ==
  ASSUME NEW table, NEW counts, IsCounts(counts), NEW i \in IP, AddressFine(table, counts, i)
  PROVE  AddressGood(Bucket(table, i), counts[i])
  <1>1. CASE i \in DOMAIN table
    BY <1>1 DEF Bucket, AddressFine
  <1>2. CASE i \notin DOMAIN table
    <2>1. PICK k \in [AttemptAges -> Nat] : k = counts[i]
      BY DEF IsCounts
    <2>2. \A t \in AttemptAges : k[t] = 0
      BY <1>2, <2>1 DEF AddressFine
    <2>3. AddressGood(NewBucket, k)
      BY <2>2, NoAttempts
    <2> QED
      BY <1>2, <2>1, <2>3 DEF Bucket
  <1> QED
    BY <1>1, <1>2

\* What a sweep drops has nothing more to tell.
LEMMA SweepKeepsAccounts ==
  ASSUME NEW table, IsTable(table), NEW guesses, IsGuesses(guesses), NEW logins, IsLogins(logins),
         AccountsGood(table, guesses, logins)
  PROVE  AccountsGood(Swept(table), guesses, logins)
  <1> SUFFICES ASSUME NEW a \in Account
               PROVE  AccountFine(Swept(table), guesses, logins, a)
    BY DEF AccountsGood
  <1>1. AccountFine(table, guesses, logins, a)
    BY DEF AccountsGood
  <1>2. CASE a \in DOMAIN table /\ Expired(table[a])
    <2>1. PICK g \in [GuessAges -> Nat] : g = guesses[a]
      BY DEF IsGuesses
    <2>2. PICK b \in Buckets : b = table[a]
      BY <1>2 DEF IsTable
    <2>3. AccountGood(b, g)
      BY <1>1, <1>2, <2>1, <2>2 DEF AccountFine
    <2>4. Total(g, GuessAges) = 0
      BY <1>2, <2>2, <2>3, ExpiredHasNoGuesses
    <2>5. InProgress(logins, a) \in Nat /\ InProgress(logins, a) <= MaxVerifying
      BY LoginsBounded
    <2>6. Total(guesses[a], GuessAges) + InProgress(logins, a) <= MaxVerifying
      BY <2>1, <2>4, <2>5
    <2>7. a \notin DOMAIN Swept(table)
      BY <1>2 DEF Swept
    <2> QED
      BY <1>1, <2>6, <2>7 DEF AccountFine
  <1>3. CASE ~(a \in DOMAIN table /\ Expired(table[a]))
    <2>1. SameAt(table, Swept(table), a)
      BY <1>3 DEF Swept, SameAt
    <2> QED
      BY <1>1, <2>1, SameAccount
  <1> QED
    BY <1>2, <1>3

LEMMA SweepKeepsAddresses ==
  ASSUME NEW table, IsTable(table), NEW counts, AddressesGood(table, counts)
  PROVE  AddressesGood(Swept(table), counts)
  <1> SUFFICES ASSUME NEW i \in IP
               PROVE  AddressFine(Swept(table), counts, i)
    BY DEF AddressesGood
  <1>1. AddressFine(table, counts, i)
    BY DEF AddressesGood
  <1>2. CASE i \in DOMAIN table /\ Expired(table[i])
    <2>1. PICK b \in Buckets : b = table[i]
      BY <1>2 DEF IsTable
    <2>2. AddressGood(b, counts[i])
      BY <1>1, <1>2, <2>1 DEF AddressFine
    <2>3. \A t \in AttemptAges : counts[i][t] = 0
      BY <1>2, <2>1, <2>2, ExpiredHasNoAttempts
    <2>4. i \notin DOMAIN Swept(table)
      BY <1>2 DEF Swept
    <2> QED
      BY <1>1, <2>3, <2>4 DEF AddressFine
  <1>3. CASE ~(i \in DOMAIN table /\ Expired(table[i]))
    <2>1. SameAt(table, Swept(table), i)
      BY <1>3 DEF Swept, SameAt
    <2> QED
      BY <1>1, <2>1, SameAddress
  <1> QED
    BY <1>2, <1>3

LEMMA SweptForChoices ==
  ASSUME IsTable(buckets), NEW ip, NEW account
  PROVE  /\ IsTable(Swept(buckets))
         /\ \/ SweptFor(ip, account) = buckets \/ SweptFor(ip, account) = Swept(buckets)
            \/ SweptFor(ip, account) = Swept(Swept(buckets))
  <1>1. IsTable(Swept(buckets))
    BY DEF IsTable, Swept
  <1> QED
    BY <1>1, Zenon DEF SweptFor, SweepIfDue

LEMMA SweptForKeepsAccounts ==
  ASSUME IsTable(buckets), NEW ip, NEW account, IsGuesses(guessed), IsLogins(verifying),
         AccountsGood(buckets, guessed, verifying)
  PROVE  AccountsGood(SweptFor(ip, account), guessed, verifying)
  <1>1. PICK table : table = Swept(buckets)
    OBVIOUS
  <1>2. IsTable(table) /\ AccountsGood(table, guessed, verifying)
    BY <1>1, SweptForChoices, SweepKeepsAccounts
  <1>3. AccountsGood(Swept(table), guessed, verifying)
    BY <1>2, SweepKeepsAccounts
  <1> QED
    BY <1>1, <1>2, <1>3, SweptForChoices

LEMMA SweptForKeepsAddresses ==
  ASSUME IsTable(buckets), NEW ip, NEW account, AddressesGood(buckets, allowed)
  PROVE  AddressesGood(SweptFor(ip, account), allowed)
  <1>1. PICK table : table = Swept(buckets)
    OBVIOUS
  <1>2. IsTable(table) /\ AddressesGood(table, allowed)
    BY <1>1, SweptForChoices, SweepKeepsAddresses
  <1>3. AddressesGood(Swept(table), allowed)
    BY <1>2, SweepKeepsAddresses
  <1> QED
    BY <1>1, <1>2, <1>3, SweptForChoices

-----------------------------------------------------------------------------
(* AuthLimiter: guesses are bounded.                                         *)

GuessInv ==
  /\ IsTable(buckets) /\ IsGuesses(guessed) /\ IsLogins(verifying)
  /\ AccountsGood(buckets, guessed, verifying) /\ GuessesFew(guessed, verifying)

AttemptInv == IsTable(buckets) /\ IsCounts(allowed) /\ AddressesGood(buckets, allowed)

LEMMA NoGuesses ==
  /\ [t \in 0..(Window - 1) |-> 0] \in [GuessAges -> Nat]
  /\ Total([t \in 0..(Window - 1) |-> 0], GuessAges) = 0
  <1>1. PICK g \in [GuessAges -> Nat] : g = [t \in 0..(Window - 1) |-> 0]
    BY DEF GuessAges
  <1>2. (\A t \in GuessAges : g[t] = 0) /\ GuessAges \in SUBSET GuessAges
    BY <1>1 DEF GuessAges
  <1>3. Total(g, GuessAges) = 0
    BY <1>2, GuessAgesAre, SumZero DEF Total
  <1> QED
    BY <1>1, <1>3

LEMMA RefusalKeepsGuesses ==
  ASSUME GuessInv, NEW ip \in IP, NEW account \in Account, IsTable(buckets'),
         RefuseNew(ip, account) \/ RefuseBlocked(ip, account)
  PROVE  GuessInv'
  <1> DEFINE table == SweptFor(ip, account)
             rolled == RollAttempts(RollFailures(Bucket(table, ip)))
  <1>1. AccountsGood(table, guessed, verifying)
    BY SweptForKeepsAccounts DEF GuessInv
  <1>2. buckets' = table \/ buckets' = With(table, ip, rolled)
    BY DEF RefuseNew, RefuseBlocked
  <1>3. verifying' = verifying /\ guessed' = guessed
    BY DEF RefuseNew, RefuseBlocked
  <1> HIDE DEF table, rolled
  <1>4. ASSUME NEW a \in Account
        PROVE  AccountFine(buckets', guessed, verifying, a)
    <2>1. SameAt(table, table, a)
      BY DEF SameAt
    <2>2. SameAt(table, With(table, ip, rolled), a)
      BY WithElsewhere, KeysDiffer
    <2>3. SameAt(table, buckets', a)
      BY <1>2, <2>1, <2>2
    <2>4. AccountFine(table, guessed, verifying, a)
      BY <1>1 DEF AccountsGood
    <2> QED
      BY <2>3, <2>4, SameAccount
  <1>5. AccountsGood(buckets', guessed', verifying')
    BY <1>3, <1>4 DEF AccountsGood
  <1> QED
    BY <1>3, <1>5 DEF GuessInv

LEMMA AllowKeepsGuesses ==
  ASSUME GuessInv, NEW ip \in IP, NEW account \in Account, IsTable(buckets'), Allow(ip, account)
  PROVE  GuessInv'
  <1> DEFINE table == SweptFor(ip, account)
             b == Bucket(table, account)
             first == With(table, account, Touch(b))
             charged == Charge(Touch(Bucket(table, ip)))
  <1>1. AccountsGood(table, guessed, verifying) /\ IsTable(table)
    BY SweptForKeepsAccounts, SweptForType DEF GuessInv
  <1>2. /\ buckets' = With(first, ip, charged) /\ guessed' = guessed /\ ~Blocked(b)
        /\ SumFunction(verifying) < MaxVerifying
        /\ verifying' = [verifying EXCEPT ![<<ip, account>>] = @ + 1]
    BY DEF Allow
  <1> HIDE DEF table, charged
  <1>3. b \in Buckets
    BY <1>1, BucketType
  <1>4. PICK g \in [GuessAges -> Nat] : g = guessed[account]
    BY DEF GuessInv, IsGuesses
  <1>5. AccountGood(b, g)
    BY <1>1, <1>4, AccountBucket DEF GuessInv, AccountsGood
  <1> HIDE DEF b
  <1>6. PICK v \in [IP \X Account -> Nat] : v = verifying
    BY DEF GuessInv, IsLogins
  <1>7. PICK w \in [IP \X Account -> Nat] : w = verifying'
    <2>1. verifying[<<ip, account>>] + 1 \in Nat
      BY <1>6
    <2> QED
      BY <1>2, <1>6, <2>1
  <1>8. /\ w[<<ip, account>>] = v[<<ip, account>>] + 1 /\ v[<<ip, account>>] \in Nat
        /\ SameElsewhere(v, w, ip, account)
    BY <1>2, <1>6, <1>7 DEF SameElsewhere
  <1>9. IsLogins(w)
    <2>1. SumFunction(v) + w[<<ip, account>>] = SumFunction(w) + v[<<ip, account>>]
      BY <1>8, ProgressChanged
    <2>2. SumFunction(v) \in Nat /\ SumFunction(w) \in Nat
      BY ProgressBounded
    <2>3. SumFunction(w) <= MaxVerifying
      BY <1>2, <1>6, <1>8, <2>1, <2>2, Limits
    <2> QED
      BY <2>3 DEF IsLogins
  <1>10. \A a \in Account \ {account} : InProgress(w, a) = InProgress(v, a)
    <2>1. SameElsewhere(v, w, ip, account)
      BY <1>8
    <2>2. ASSUME NEW a \in Account, a # account
          PROVE  InProgress(w, a) = InProgress(v, a)
      BY <2>1, <2>2, ProgressElsewhere
    <2> QED
      BY <2>2
  <1>11. AccountsGood(buckets', guessed, w)
    <2> SUFFICES ASSUME NEW a \in Account
                 PROVE  AccountFine(buckets', guessed, w, a)
      BY DEF AccountsGood
    <2>1. SameAt(first, buckets', a)
      BY <1>2, WithElsewhere, KeysDiffer
    <2>2. CASE a = account
      <3>1. account \in DOMAIN first /\ first[account] = Touch(b)
        BY WithElsewhere
      <3>2. AccountGood(Touch(b), g)
        BY <1>3, <1>5, TouchedIsGood
      <3> QED
        BY <1>4, <2>1, <2>2, <3>1, <3>2 DEF SameAt, AccountFine
    <2>3. CASE a # account
      <3>1. SameAt(table, first, a)
        BY <2>3, WithElsewhere
      <3>2. SameAt(table, buckets', a)
        BY <2>1, <3>1 DEF SameAt
      <3>3. AccountFine(table, guessed, v, a)
        BY <1>1, <1>6 DEF AccountsGood
      <3> QED
        BY <1>10, <2>3, <3>2, <3>3, SameAccount
    <2> QED
      BY <2>2, <2>3
  <1>12. GuessesFew(guessed, w)
    <2> SUFFICES ASSUME NEW a \in Account
                 PROVE  Total(guessed[a], GuessAges) + InProgress(w, a)
                          <= MaxFailures - 1 + Spare + MaxVerifying
      BY DEF GuessesFew
    <2>1. CASE a = account
      <3>1. Total(g, GuessAges) <= MaxFailures - 1 + Spare
        BY <1>2, <1>3, <1>5, UnblockedHasFewGuesses
      <3>2. InProgress(w, a) \in Nat /\ InProgress(w, a) <= MaxVerifying
        BY <1>9, LoginsBounded
      <3>3. Total(g, GuessAges) \in Nat
        BY OutlastingTotals
      <3> QED
        BY <1>4, <2>1, <3>1, <3>2, <3>3, Limits, Durations
    <2>2. CASE a # account
      BY <1>6, <1>10, <2>2 DEF GuessInv, GuessesFew
    <2> QED
      BY <2>1, <2>2
  <1> QED
    BY <1>2, <1>7, <1>9, <1>11, <1>12 DEF GuessInv

LEMMA FailureKeepsGuesses ==
  ASSUME Block >= Window, GuessInv, NEW ip \in IP, NEW account \in Account, IsTable(buckets'),
         IsTable(FailKey(buckets, ip)), Failure(ip, account)
  PROVE  GuessInv'
  <1> DEFINE first == FailKey(buckets, ip)
  <1>1. /\ buckets' = FailKey(first, account) /\ verifying[<<ip, account>>] > 0
        /\ verifying' = [verifying EXCEPT ![<<ip, account>>] = @ - 1]
        /\ guessed' = [guessed EXCEPT ![account][0] = @ + 1]
    BY DEF Failure
  <1> HIDE DEF first
  <1>2. PICK v \in [IP \X Account -> Nat] : v = verifying
    BY DEF GuessInv, IsLogins
  <1>3. PICK w \in [IP \X Account -> Nat] : w = verifying'
    <2>1. verifying[<<ip, account>>] - 1 \in Nat
      BY <1>1, <1>2
    <2> QED
      BY <1>1, <1>2, <2>1
  <1>4. /\ v[<<ip, account>>] = w[<<ip, account>>] + 1 /\ w[<<ip, account>>] \in Nat
        /\ SameElsewhere(v, w, ip, account)
    BY <1>1, <1>2, <1>3 DEF SameElsewhere
  <1>5. PICK g \in [GuessAges -> Nat] : g = guessed[account]
    BY DEF GuessInv, IsGuesses
  <1>6. PICK h \in [GuessAges -> Nat] : h = [g EXCEPT ![0] = g[0] + 1]
    <2>1. g[0] + 1 \in Nat
      BY GuessAgesAre
    <2> QED
      BY <2>1
  <1>7. guessed' = [guessed EXCEPT ![account] = h] /\ IsGuesses(guessed')
    BY <1>1, <1>5, <1>6 DEF GuessInv, IsGuesses
  <1>8. h[0] = g[0] + 1 /\ \A t \in GuessAges \ {0} : h[t] = g[t]
    BY <1>6, GuessAgesAre
  <1>9. guessed'[account] = h /\ \A a \in Account \ {account} : guessed'[a] = guessed[a]
    BY <1>7 DEF GuessInv, IsGuesses
  <1>10. \A a \in Account \ {account} : InProgress(w, a) = InProgress(v, a)
    <2>1. SameElsewhere(v, w, ip, account)
      BY <1>4
    <2>2. ASSUME NEW a \in Account, a # account
          PROVE  InProgress(w, a) = InProgress(v, a)
      BY <2>1, <2>2, ProgressElsewhere
    <2> QED
      BY <2>2
  <1>11. Total(h, GuessAges) = Total(g, GuessAges) + 1
    <2>1. GuessAges \in SUBSET GuessAges
      OBVIOUS
    <2>2. SumFunctionOnSet(h, GuessAges)
            = IF 0 \in GuessAges THEN SumFunctionOnSet(g, GuessAges) + 1
              ELSE SumFunctionOnSet(g, GuessAges)
      BY <1>8, <2>1, GuessAgesAre, SumIncreased
    <2> QED
      BY <2>2, GuessAgesAre DEF Total
  <1>12. /\ InProgress(v, account) = InProgress(w, account) + 1
         /\ InProgress(w, account) \in Nat /\ InProgress(v, account) \in Nat
         /\ SumFunction(v) = SumFunction(w) + 1
         /\ SumFunction(v) \in Nat /\ SumFunction(w) \in Nat
    <2>1. /\ InProgress(v, account) + w[<<ip, account>>]
                = InProgress(w, account) + v[<<ip, account>>]
          /\ SumFunction(v) + w[<<ip, account>>] = SumFunction(w) + v[<<ip, account>>]
      BY <1>4, ProgressChanged
    <2>2. /\ InProgress(w, account) \in Nat /\ InProgress(v, account) \in Nat
          /\ SumFunction(v) \in Nat /\ SumFunction(w) \in Nat
      BY ProgressBounded
    <2> QED
      BY <1>4, <2>1, <2>2
  <1>13. IsLogins(w)
    <2>1. SumFunction(v) <= MaxVerifying
      BY <1>2 DEF GuessInv, IsLogins
    <2> QED
      BY <1>12, <2>1, Limits DEF IsLogins
  <1>14. Total(h, GuessAges) + InProgress(w, account) = Total(g, GuessAges) + InProgress(v, account)
    <2>1. Total(g, GuessAges) \in Nat
      BY OutlastingTotals
    <2> QED
      BY <1>11, <1>12, <2>1
  <1>15. AccountsGood(buckets', guessed', w)
    <2> SUFFICES ASSUME NEW a \in Account
                 PROVE  AccountFine(buckets', guessed', w, a)
      BY DEF AccountsGood
    <2>1. SameAt(buckets, first, a)
      BY FailKeyElsewhere, KeysDiffer DEF first
    <2>2. AccountFine(first, guessed, v, a)
      <3>1. AccountFine(buckets, guessed, v, a)
        BY <1>2 DEF GuessInv, AccountsGood
      <3> QED
        BY <2>1, <3>1, SameAccount
    <2>3. CASE a # account
      <3>1. SameAt(first, buckets', a)
        BY <1>1, <2>3, FailKeyElsewhere
      <3> QED
        BY <1>9, <1>10, <2>2, <2>3, <3>1, SameAccount
    <2>4. CASE a = account /\ account \notin DOMAIN first /\ Cardinality(DOMAIN first) >= MaxEntries
      <3>1. buckets' = first
        BY <1>1, <2>4 DEF FailKey
      <3>2. Total(g, GuessAges) + InProgress(v, account) <= MaxVerifying
        BY <1>5, <2>2, <2>4 DEF AccountFine
      <3> QED
        BY <1>9, <1>14, <2>4, <3>1, <3>2 DEF AccountFine
    <2>5. CASE a = account /\ ~(account \notin DOMAIN first /\ Cardinality(DOMAIN first) >= MaxEntries)
      <3> DEFINE b == Bucket(first, account)
      <3>1. buckets' = With(first, account, Fail(b))
        BY <1>1, <2>5 DEF FailKey
      <3>2. AccountGood(b, g)
        BY <1>2, <1>5, <2>2, <2>5, AccountBucket DEF GuessInv
      <3>3. b \in Buckets
        BY BucketType DEF first
      <3> HIDE DEF b
      <3>4. AccountGood(Fail(b), h)
        BY <1>8, <3>2, <3>3, FailedIsGood
      <3>5. account \in DOMAIN buckets' /\ buckets'[account] = Fail(b)
        BY <3>1, WithElsewhere
      <3> QED
        BY <1>9, <2>5, <3>4, <3>5 DEF AccountFine
    <2> QED
      BY <2>3, <2>4, <2>5
  <1>16. GuessesFew(guessed', w)
    <2> SUFFICES ASSUME NEW a \in Account
                 PROVE  Total(guessed'[a], GuessAges) + InProgress(w, a)
                          <= MaxFailures - 1 + Spare + MaxVerifying
      BY DEF GuessesFew
    <2>1. Total(guessed[a], GuessAges) + InProgress(v, a) <= MaxFailures - 1 + Spare + MaxVerifying
      BY <1>2 DEF GuessInv, GuessesFew
    <2>2. CASE a = account
      BY <1>5, <1>9, <1>14, <2>1, <2>2
    <2>3. CASE a # account
      BY <1>9, <1>10, <2>1, <2>3
    <2> QED
      BY <2>2, <2>3
  <1> QED
    BY <1>3, <1>7, <1>13, <1>15, <1>16 DEF GuessInv

LEMMA SuccessKeepsGuesses ==
  ASSUME GuessInv, NEW ip \in IP, NEW account \in Account, IsTable(buckets'), Success(ip, account)
  PROVE  GuessInv'
  <1>1. /\ buckets' = [k \in DOMAIN buckets \ {account} |-> buckets[k]]
        /\ verifying[<<ip, account>>] > 0
        /\ verifying' = [verifying EXCEPT ![<<ip, account>>] = @ - 1]
        /\ guessed' = [guessed EXCEPT ![account] = [t \in DOMAIN @ |-> 0]]
    BY DEF Success
  <1>2. PICK v \in [IP \X Account -> Nat] : v = verifying
    BY DEF GuessInv, IsLogins
  <1>3. PICK w \in [IP \X Account -> Nat] : w = verifying'
    <2>1. verifying[<<ip, account>>] - 1 \in Nat
      BY <1>1, <1>2
    <2> QED
      BY <1>1, <1>2, <2>1
  <1>4. /\ v[<<ip, account>>] = w[<<ip, account>>] + 1 /\ w[<<ip, account>>] \in Nat
        /\ SameElsewhere(v, w, ip, account)
    BY <1>1, <1>2, <1>3 DEF SameElsewhere
  <1>5. PICK h \in [GuessAges -> Nat] : h = [t \in GuessAges |-> 0]
    OBVIOUS
  <1>6. guessed' = [guessed EXCEPT ![account] = h] /\ IsGuesses(guessed')
    BY <1>1, <1>5 DEF GuessInv, IsGuesses
  <1>7. guessed'[account] = h /\ \A a \in Account \ {account} : guessed'[a] = guessed[a]
    BY <1>6 DEF GuessInv, IsGuesses
  <1>8. Total(h, GuessAges) = 0
    BY <1>5, NoGuesses DEF GuessAges
  <1>9. \A a \in Account \ {account} : InProgress(w, a) = InProgress(v, a)
    <2>1. SameElsewhere(v, w, ip, account)
      BY <1>4
    <2>2. ASSUME NEW a \in Account, a # account
          PROVE  InProgress(w, a) = InProgress(v, a)
      BY <2>1, <2>2, ProgressElsewhere
    <2> QED
      BY <2>2
  <1>10. IsLogins(w)
    <2>1. SumFunction(v) + w[<<ip, account>>] = SumFunction(w) + v[<<ip, account>>]
      BY <1>4, ProgressChanged
    <2>2. SumFunction(v) \in Nat /\ SumFunction(w) \in Nat
      BY ProgressBounded
    <2>3. SumFunction(v) <= MaxVerifying
      BY <1>2 DEF GuessInv, IsLogins
    <2> QED
      BY <1>4, <2>1, <2>2, <2>3, Limits DEF IsLogins
  <1>11. InProgress(w, account) \in Nat /\ InProgress(w, account) <= MaxVerifying
    BY <1>10, LoginsBounded
  <1>12. AccountsGood(buckets', guessed', w)
    <2> SUFFICES ASSUME NEW a \in Account
                 PROVE  AccountFine(buckets', guessed', w, a)
      BY DEF AccountsGood
    <2>1. CASE a = account
      <3>1. a \notin DOMAIN buckets'
        BY <1>1, <2>1
      <3>2. Total(guessed'[a], GuessAges) + InProgress(w, a) <= MaxVerifying
        BY <1>7, <1>8, <1>11, <2>1
      <3> QED
        BY <3>1, <3>2 DEF AccountFine
    <2>2. CASE a # account
      <3>1. SameAt(buckets, buckets', a)
        BY <1>1, <2>2 DEF SameAt
      <3>2. AccountFine(buckets, guessed, v, a)
        BY <1>2 DEF GuessInv, AccountsGood
      <3> QED
        BY <1>7, <1>9, <2>2, <3>1, <3>2, SameAccount
    <2> QED
      BY <2>1, <2>2
  <1>13. GuessesFew(guessed', w)
    <2> SUFFICES ASSUME NEW a \in Account
                 PROVE  Total(guessed'[a], GuessAges) + InProgress(w, a)
                          <= MaxFailures - 1 + Spare + MaxVerifying
      BY DEF GuessesFew
    <2>1. Total(guessed[a], GuessAges) + InProgress(v, a) <= MaxFailures - 1 + Spare + MaxVerifying
      BY <1>2 DEF GuessInv, GuessesFew
    <2>2. CASE a = account
      BY <1>7, <1>8, <1>11, <2>2, Limits, Durations
    <2>3. CASE a # account
      BY <1>7, <1>9, <2>1, <2>3
    <2> QED
      BY <2>2, <2>3
  <1> QED
    BY <1>3, <1>6, <1>10, <1>12, <1>13 DEF GuessInv

LEMMA TickKeepsGuesses ==
  ASSUME GuessInv, IsTable(buckets'), LimiterTick
  PROVE  GuessInv'
  <1>1. /\ buckets' = [k \in DOMAIN buckets |-> Aged(k, buckets[k])]
        /\ guessed' = [a \in Account |-> Older(guessed[a])] /\ verifying' = verifying
    BY DEF LimiterTick
  <1>2. IsGuesses(guessed')
    BY <1>1, OlderGuesses DEF GuessInv, IsGuesses
  <1>3. ASSUME NEW a \in Account
        PROVE  /\ AccountFine(buckets', guessed', verifying, a)
               /\ Total(guessed'[a], GuessAges) + InProgress(verifying, a)
                    <= MaxFailures - 1 + Spare + MaxVerifying
    <2>1. PICK g \in [GuessAges -> Nat] : g = guessed[a]
      BY DEF GuessInv, IsGuesses
    <2>2. PICK h \in [GuessAges -> Nat] : h = Older(g)
      BY OlderGuesses
    <2>3. guessed'[a] = h
      BY <1>1, <2>1, <2>2
    <2>4. Total(h, GuessAges) <= Total(g, GuessAges)
      <3>1. /\ GuessAges \in SUBSET GuessAges
            /\ \A t \in GuessAges : t # 0 => t - 1 \in GuessAges
        BY GuessAgesAre
      <3> QED
        BY <2>2, <3>1, OlderTotal
    <2>5. /\ Total(h, GuessAges) \in Nat /\ Total(g, GuessAges) \in Nat
          /\ InProgress(verifying, a) \in Nat
      BY OutlastingTotals, LoginsBounded DEF GuessInv
    <2>6. AccountFine(buckets, guessed, verifying, a)
      BY DEF GuessInv, AccountsGood
    <2>7. Total(g, GuessAges) + InProgress(verifying, a) <= MaxFailures - 1 + Spare + MaxVerifying
      BY <2>1 DEF GuessInv, GuessesFew
    <2>8. AccountFine(buckets', guessed', verifying, a)
      <3>1. CASE a \in DOMAIN buckets
        <4>1. buckets'[a] = Aged(a, buckets[a]) /\ a \in DOMAIN buckets'
          BY <1>1, <3>1
        <4>2. PICK b \in Buckets : b = buckets[a]
          BY <3>1 DEF GuessInv, IsTable
        <4>3. AccountGood(b, g)
          BY <2>1, <2>6, <3>1, <4>2 DEF AccountFine
        <4>4. AccountGood(Aged(a, b), Older(g))
          BY <4>3, AgedIsGood
        <4> QED
          BY <2>2, <2>3, <4>1, <4>2, <4>4 DEF AccountFine
      <3>2. CASE a \notin DOMAIN buckets
        <4>1. a \notin DOMAIN buckets'
          BY <1>1, <3>2
        <4>2. Total(g, GuessAges) + InProgress(verifying, a) <= MaxVerifying
          BY <2>1, <2>6, <3>2 DEF AccountFine
        <4>3. Total(h, GuessAges) + InProgress(verifying, a) <= MaxVerifying
          BY <2>4, <2>5, <4>2, Limits
        <4> QED
          BY <2>3, <4>1, <4>3 DEF AccountFine
      <3> QED
        BY <3>1, <3>2
    <2> QED
      BY <2>3, <2>4, <2>5, <2>7, <2>8, Limits, Durations
  <1>4. AccountsGood(buckets', guessed', verifying') /\ GuessesFew(guessed', verifying')
    BY <1>1, <1>3 DEF AccountsGood, GuessesFew
  <1> QED
    BY <1>1, <1>2, <1>4 DEF GuessInv

LEMMA LogsTyped == LimiterInv => IsTable(buckets) /\ IsGuesses(guessed) /\ IsCounts(allowed)
  BY DEF LimiterInv, LimiterTypeOK, IsTable, IsGuesses, IsCounts, GuessAges, AttemptAges

LEMMA GuessInvInit == LimiterInit => GuessInv
  <1> SUFFICES ASSUME LimiterInit
               PROVE  GuessInv
    OBVIOUS
  <1>1. IsTable(buckets) /\ IsGuesses(guessed)
    BY LimiterInvInit, LogsTyped
  <1>2. DOMAIN buckets = {}
    BY DEF LimiterInit
  <1>3. PICK v \in [IP \X Account -> Nat] : v = verifying
    BY DEF LimiterInit
  <1>4. \A p \in IP \X Account : v[p] = 0
    BY <1>3 DEF LimiterInit
  <1>5. SumFunction(v) = 0
    <2> DEFINE S == IP \X Account
    <2>1. IsFiniteSet(S) /\ S \in SUBSET S /\ v \in [S -> Nat] /\ \A p \in S : v[p] = 0
      BY <1>4, FinitePairs
    <2> HIDE DEF S
    <2> QED
      BY <2>1, SumOfAll, SumZero
  <1>6. IsLogins(v)
    BY <1>5, Limits DEF IsLogins
  <1>7. ASSUME NEW a \in Account
        PROVE  Total(guessed[a], GuessAges) + InProgress(v, a) <= MaxVerifying
    <2>1. Total(guessed[a], GuessAges) = 0
      BY NoGuesses DEF LimiterInit
    <2>2. InProgress(v, a) \in Nat /\ InProgress(v, a) <= MaxVerifying
      BY <1>6, LoginsBounded
    <2> QED
      BY <2>1, <2>2
  <1>8. AccountsGood(buckets, guessed, v)
    BY <1>2, <1>7 DEF AccountsGood, AccountFine
  <1>9. GuessesFew(guessed, v)
    <2> SUFFICES ASSUME NEW a \in Account
                 PROVE  Total(guessed[a], GuessAges) + InProgress(v, a)
                          <= MaxFailures - 1 + Spare + MaxVerifying
      BY DEF GuessesFew
    <2>1. Total(guessed[a], GuessAges) = 0
      BY NoGuesses DEF LimiterInit
    <2>2. InProgress(v, a) \in Nat /\ InProgress(v, a) <= MaxVerifying
      BY <1>6, LoginsBounded
    <2> QED
      BY <2>1, <2>2, Limits, Durations
  <1> QED
    BY <1>1, <1>3, <1>6, <1>8, <1>9 DEF GuessInv

LEMMA GuessInvStep ==
  ASSUME Block >= Window, LimiterInv, GuessInv, [LimiterNext]_limiterVars
  PROVE  GuessInv'
  <1>1. LimiterInv'
    BY LimiterInvStep
  <1>2. IsTable(buckets')
    BY <1>1 DEF LimiterInv, LimiterTypeOK, IsTable
  <1>3. CASE LimiterTick
    BY <1>2, <1>3, TickKeepsGuesses
  <1>4. ASSUME NEW ip \in IP, NEW account \in Account, Failure(ip, account)
        PROVE  GuessInv'
    <2>1. IsTable(FailKey(buckets, ip))
      <3>1. ip \in Keys
        BY DEF Keys
      <3> QED
        BY <3>1, FailKeyBounded DEF GuessInv, LimiterInv, TableBounded
    <2> QED
      BY <1>2, <1>4, <2>1, FailureKeepsGuesses
  <1>5. ASSUME NEW ip \in IP, NEW account \in Account,
               \/ RefuseNew(ip, account) \/ RefuseBlocked(ip, account) \/ Allow(ip, account)
               \/ Success(ip, account)
        PROVE  GuessInv'
    BY <1>2, <1>5, RefusalKeepsGuesses, AllowKeepsGuesses, SuccessKeepsGuesses
  <1>6. CASE UNCHANGED limiterVars
    BY <1>6 DEF limiterVars, GuessInv
  <1> QED
    BY <1>3, <1>4, <1>5, <1>6 DEF LimiterNext

-----------------------------------------------------------------------------
(* AuthLimiter: attempts are bounded.                                        *)

LEMMA RefusalKeepsAttempts ==
  ASSUME AttemptInv, NEW ip \in IP, NEW account \in Account, IsTable(buckets'),
         RefuseNew(ip, account) \/ RefuseBlocked(ip, account)
  PROVE  AttemptInv'
  <1> DEFINE table == SweptFor(ip, account)
             b == Bucket(table, ip)
  <1>1. AddressesGood(table, allowed) /\ IsTable(table)
    BY SweptForKeepsAddresses, SweptForType DEF AttemptInv
  <1>2. /\ allowed' = allowed
        /\ \/ buckets' = table
           \/ buckets' = With(table, ip, RollAttempts(RollFailures(b))) /\ ~Blocked(b)
    BY DEF RefuseNew, RefuseBlocked
  <1> HIDE DEF table
  <1>3. b \in Buckets
    BY <1>1, BucketType
  <1>4. PICK k \in [AttemptAges -> Nat] : k = allowed[ip]
    BY DEF AttemptInv, IsCounts
  <1>5. AddressGood(b, k)
    BY <1>1, <1>4, AddressBucket DEF AttemptInv, AddressesGood
  <1> HIDE DEF b
  <1>6. ASSUME ~Blocked(b)
        PROVE  AddressGood(RollAttempts(RollFailures(b)), k)
    <2>1. b.attemptBlock = 0
      BY <1>3, <1>6, BucketFields DEF Blocked
    <2>2. PICK r \in Buckets : r = RollFailures(b)
      BY <1>3, RolledFailures
    <2>3. AddressGood(r, k) /\ r.attemptBlock = 0
      BY <1>3, <1>5, <2>1, <2>2, FailedAddress
    <2>4. AddressGood(RollAttempts(r), k)
      BY <2>3, RolledAddress
    <2> QED
      BY <2>2, <2>4
  <1>7. ASSUME NEW i \in IP
        PROVE  AddressFine(buckets', allowed, i)
    <2>1. AddressFine(table, allowed, i)
      BY <1>1 DEF AddressesGood
    <2>2. CASE buckets' = table
      BY <2>1, <2>2
    <2>3. CASE buckets' = With(table, ip, RollAttempts(RollFailures(b))) /\ ~Blocked(b)
      <3>1. CASE i = ip
        <4>1. i \in DOMAIN buckets' /\ buckets'[i] = RollAttempts(RollFailures(b))
          BY <2>3, <3>1, WithElsewhere
        <4> QED
          BY <1>4, <1>6, <2>3, <3>1, <4>1 DEF AddressFine
      <3>2. CASE i # ip
        <4>1. SameAt(table, buckets', i)
          BY <2>3, <3>2, WithElsewhere
        <4> QED
          BY <2>1, <4>1, SameAddress
      <3> QED
        BY <3>1, <3>2
    <2> QED
      BY <1>2, <2>2, <2>3
  <1> QED
    BY <1>2, <1>7 DEF AttemptInv, AddressesGood

LEMMA AllowKeepsAttempts ==
  ASSUME IPBlock >= IPWindow, AttemptInv, NEW ip \in IP, NEW account \in Account,
         IsTable(buckets'), Allow(ip, account)
  PROVE  AttemptInv'
  <1> DEFINE table == SweptFor(ip, account)
             b == Bucket(table, ip)
             first == With(table, account, Touch(Bucket(table, account)))
  <1>1. AddressesGood(table, allowed) /\ IsTable(table)
    BY SweptForKeepsAddresses, SweptForType DEF AttemptInv
  <1>2. /\ buckets' = With(first, ip, Charge(Touch(b))) /\ ~Blocked(b)
        /\ allowed' = [allowed EXCEPT ![ip][0] = @ + 1]
    BY DEF Allow
  <1> HIDE DEF table
  <1>3. b \in Buckets
    BY <1>1, BucketType
  <1>4. PICK k \in [AttemptAges -> Nat] : k = allowed[ip]
    BY DEF AttemptInv, IsCounts
  <1>5. AddressGood(b, k)
    BY <1>1, <1>4, AddressBucket DEF AttemptInv, AddressesGood
  <1> HIDE DEF b
  <1>6. PICK m \in [AttemptAges -> Nat] : m = [k EXCEPT ![0] = k[0] + 1]
    <2>1. k[0] + 1 \in Nat
      BY AttemptAgesAre
    <2> QED
      BY <2>1
  <1>7. allowed' = [allowed EXCEPT ![ip] = m] /\ IsCounts(allowed')
    BY <1>2, <1>4, <1>6 DEF AttemptInv, IsCounts
  <1>8. m[0] = k[0] + 1 /\ \A t \in AttemptAges \ {0} : m[t] = k[t]
    BY <1>6, AttemptAgesAre
  <1>9. allowed'[ip] = m /\ \A i \in IP \ {ip} : allowed'[i] = allowed[i]
    BY <1>7 DEF AttemptInv, IsCounts
  <1>10. AddressGood(Charge(Touch(b)), m)
    <2>1. b.attemptBlock = 0
      BY <1>2, <1>3, BucketFields DEF Blocked
    <2>2. PICK c \in Buckets : c = Touch(b)
      BY <1>3, Touched
    <2>3. AddressGood(c, k) /\ c.attemptWindow < IPWindow /\ c.attemptBlock = 0 /\ c.idle = 0
      BY <1>3, <1>5, <2>1, <2>2, TouchedAddress
    <2>4. AddressGood(Charge(c), m)
      BY <1>8, <2>3, ChargedAddress
    <2> QED
      BY <2>2, <2>4
  <1>11. ASSUME NEW i \in IP
         PROVE  AddressFine(buckets', allowed', i)
    <2>1. CASE i = ip
      <3>1. i \in DOMAIN buckets' /\ buckets'[i] = Charge(Touch(b))
        BY <1>2, <2>1, WithElsewhere
      <3> QED
        BY <1>9, <1>10, <2>1, <3>1 DEF AddressFine
    <2>2. CASE i # ip
      <3>1. SameAt(table, first, i)
        BY WithElsewhere, KeysDiffer
      <3> HIDE DEF first
      <3>2. SameAt(first, buckets', i)
        BY <1>2, <2>2, WithElsewhere
      <3>3. SameAt(table, buckets', i)
        BY <3>1, <3>2 DEF SameAt
      <3>4. AddressFine(table, allowed, i)
        BY <1>1 DEF AddressesGood
      <3> QED
        BY <1>9, <2>2, <3>3, <3>4, SameAddress
    <2> QED
      BY <2>1, <2>2
  <1> QED
    BY <1>7, <1>11 DEF AttemptInv, AddressesGood

LEMMA FailureKeepsAttempts ==
  ASSUME AttemptInv, NEW ip \in IP, NEW account \in Account, IsTable(buckets'), Failure(ip, account)
  PROVE  AttemptInv'
  <1> DEFINE first == FailKey(buckets, ip)
             b == Bucket(buckets, ip)
  <1>1. buckets' = FailKey(first, account) /\ allowed' = allowed
    BY DEF Failure
  <1>2. b \in Buckets
    BY BucketType DEF AttemptInv
  <1>3. PICK k \in [AttemptAges -> Nat] : k = allowed[ip]
    BY DEF AttemptInv, IsCounts
  <1>4. AddressGood(b, k)
    BY <1>3, AddressBucket DEF AttemptInv, AddressesGood
  <1> HIDE DEF b
  <1>5. AddressGood(Fail(b), k)
    BY <1>2, <1>4, FailedAddress
  <1>6. first = buckets \/ first = With(buckets, ip, Fail(b))
    BY DEF FailKey, b
  <1> HIDE DEF first
  <1>7. ASSUME NEW i \in IP
        PROVE  AddressFine(buckets', allowed, i)
    <2>1. AddressFine(buckets, allowed, i)
      BY DEF AttemptInv, AddressesGood
    <2>2. SameAt(first, buckets', i)
      BY <1>1, FailKeyElsewhere, KeysDiffer
    <2>3. AddressFine(first, allowed, i)
      <3>1. CASE first = buckets
        BY <2>1, <3>1
      <3>2. CASE first = With(buckets, ip, Fail(b)) /\ i = ip
        <4>1. i \in DOMAIN first /\ first[i] = Fail(b)
          BY <3>2, WithElsewhere
        <4> QED
          BY <1>3, <1>5, <3>2, <4>1 DEF AddressFine
      <3>3. CASE first = With(buckets, ip, Fail(b)) /\ i # ip
        <4>1. SameAt(buckets, first, i)
          BY <3>3, WithElsewhere
        <4> QED
          BY <2>1, <4>1, SameAddress
      <3> QED
        BY <1>6, <3>1, <3>2, <3>3
    <2> QED
      BY <2>2, <2>3, SameAddress
  <1> QED
    BY <1>1, <1>7 DEF AttemptInv, AddressesGood

LEMMA SuccessKeepsAttempts ==
  ASSUME AttemptInv, NEW ip \in IP, NEW account \in Account, IsTable(buckets'), Success(ip, account)
  PROVE  AttemptInv'
  <1>1. buckets' = [k \in DOMAIN buckets \ {account} |-> buckets[k]] /\ allowed' = allowed
    BY DEF Success
  <1>2. ASSUME NEW i \in IP
        PROVE  AddressFine(buckets', allowed, i)
    <2>1. AddressFine(buckets, allowed, i)
      BY DEF AttemptInv, AddressesGood
    <2>2. i # account
      BY KeysDiffer
    <2>3. SameAt(buckets, buckets', i)
      BY <1>1, <2>2 DEF SameAt
    <2> QED
      BY <2>1, <2>3, SameAddress
  <1> QED
    BY <1>1, <1>2 DEF AttemptInv, AddressesGood

LEMMA TickKeepsAttempts ==
  ASSUME AttemptInv, IsTable(buckets'), LimiterTick
  PROVE  AttemptInv'
  <1>1. /\ buckets' = [k \in DOMAIN buckets |-> Aged(k, buckets[k])]
        /\ allowed' = [i \in IP |-> Older(allowed[i])]
    BY DEF LimiterTick
  <1>2. IsCounts(allowed')
    BY <1>1, OlderAttempts DEF AttemptInv, IsCounts
  <1>3. ASSUME NEW i \in IP
        PROVE  AddressFine(buckets', allowed', i)
    <2>1. PICK k \in [AttemptAges -> Nat] : k = allowed[i]
      BY DEF AttemptInv, IsCounts
    <2>2. PICK m \in [AttemptAges -> Nat] : m = Older(k)
      BY OlderAttempts
    <2>3. allowed'[i] = m
      BY <1>1, <2>1, <2>2
    <2>4. AddressFine(buckets, allowed, i)
      BY DEF AttemptInv, AddressesGood
    <2>5. CASE i \in DOMAIN buckets
      <3>1. buckets'[i] = Aged(i, buckets[i]) /\ i \in DOMAIN buckets'
        BY <1>1, <2>5
      <3>2. PICK b \in Buckets : b = buckets[i]
        BY <2>5 DEF AttemptInv, IsTable
      <3>3. AddressGood(b, k)
        BY <2>1, <2>4, <2>5, <3>2 DEF AddressFine
      <3>4. AddressGood(Aged(i, b), Older(k))
        BY <3>3, AgedAddress
      <3> QED
        BY <2>2, <2>3, <3>1, <3>2, <3>4 DEF AddressFine
    <2>6. CASE i \notin DOMAIN buckets
      <3>1. i \notin DOMAIN buckets'
        BY <1>1, <2>6
      <3>2. \A t \in AttemptAges : k[t] = 0
        BY <2>1, <2>4, <2>6 DEF AddressFine
      <3>3. \A t \in AttemptAges : m[t] = 0
        <4> SUFFICES ASSUME NEW t \in AttemptAges
                     PROVE  m[t] = 0
          OBVIOUS
        <4>1. m[t] = IF t = 0 THEN 0 ELSE k[t - 1]
          BY <2>2, OlderAttempts
        <4>2. t # 0 => t - 1 \in AttemptAges
          BY AttemptAgesAre
        <4> QED
          BY <3>2, <4>1, <4>2
      <3> QED
        BY <2>3, <3>1, <3>3 DEF AddressFine
    <2> QED
      BY <2>5, <2>6
  <1> QED
    BY <1>2, <1>3 DEF AttemptInv, AddressesGood

LEMMA AttemptInvInit == LimiterInit => AttemptInv
  <1> SUFFICES ASSUME LimiterInit
               PROVE  AttemptInv
    OBVIOUS
  <1>1. IsTable(buckets) /\ IsCounts(allowed)
    BY LimiterInvInit, LogsTyped
  <1>2. DOMAIN buckets = {} /\ \A i \in IP : \A t \in AttemptAges : allowed[i][t] = 0
    BY DEF LimiterInit, AttemptAges
  <1> QED
    BY <1>1, <1>2 DEF AttemptInv, AddressesGood, AddressFine

LEMMA AttemptInvStep ==
  ASSUME IPBlock >= IPWindow, LimiterInv, AttemptInv, [LimiterNext]_limiterVars
  PROVE  AttemptInv'
  <1>1. LimiterInv'
    BY LimiterInvStep
  <1>2. IsTable(buckets')
    BY <1>1 DEF LimiterInv, LimiterTypeOK, IsTable
  <1>3. CASE LimiterTick
    BY <1>2, <1>3, TickKeepsAttempts
  <1>4. ASSUME NEW ip \in IP, NEW account \in Account, Allow(ip, account)
        PROVE  AttemptInv'
    BY <1>2, <1>4, AllowKeepsAttempts
  <1>5. ASSUME NEW ip \in IP, NEW account \in Account,
               \/ RefuseNew(ip, account) \/ RefuseBlocked(ip, account) \/ Failure(ip, account)
               \/ Success(ip, account)
        PROVE  AttemptInv'
    BY <1>2, <1>5, RefusalKeepsAttempts, FailureKeepsAttempts, SuccessKeepsAttempts
  <1>6. CASE UNCHANGED limiterVars
    BY <1>6 DEF limiterVars, AttemptInv
  <1> QED
    BY <1>3, <1>4, <1>5, <1>6 DEF LimiterNext

\* The inductive invariant, under the conditions of the two bounds.
BoundInv ==
  LimiterInv /\ (Block >= Window => GuessInv) /\ (IPBlock >= IPWindow => AttemptInv)

LEMMA BoundInvBounds == BoundInv => GuessingBounded
  <1> SUFFICES ASSUME BoundInv
               PROVE  GuessingBounded
    OBVIOUS
  <1>1. ASSUME Block >= Window, NEW a \in Account
        PROVE  SumFunction(guessed[a]) <=
                 IF MaxVerifying > MaxFailures - 1 THEN MaxFailures - 1 + 2 * MaxVerifying
                 ELSE 2 * (MaxFailures - 1) + MaxVerifying
    <2>1. GuessInv
      BY <1>1 DEF BoundInv
    <2>2. PICK g \in [GuessAges -> Nat] : g = guessed[a]
      BY <2>1 DEF GuessInv, IsGuesses
    <2>3. SumFunction(g) = Total(g, GuessAges) /\ SumFunction(g) \in Nat
      BY GuessAgesAre, SumOfAll DEF Total
    <2>4. SumFunction(g) + InProgress(verifying, a) <= MaxFailures - 1 + Spare + MaxVerifying
      BY <2>1, <2>2, <2>3 DEF GuessInv, GuessesFew
    <2>5. InProgress(verifying, a) \in Nat
      BY <2>1, LoginsBounded DEF GuessInv
    <2>6. SumFunction(g) <= MaxFailures - 1 + Spare + MaxVerifying
      BY <2>3, <2>4, <2>5, Limits, Durations
    <2> QED
      BY <2>2, <2>3, <2>6, Limits, Durations
  <1>2. ASSUME IPBlock >= IPWindow, NEW i \in IP
        PROVE  SumFunction(allowed[i]) <= 2 * MaxIPAttempts - 1
    <2>1. AttemptInv
      BY <1>2 DEF BoundInv
    <2>2. PICK k \in [AttemptAges -> Nat] : k = allowed[i]
      BY <2>1 DEF AttemptInv, IsCounts
    <2>3. SumFunction(k) = Total(k, AttemptAges)
      BY AttemptAgesAre, SumOfAll DEF Total
    <2>4. PICK b \in Buckets : b = Bucket(buckets, i)
      BY <2>1, BucketType DEF AttemptInv
    <2>5. AddressGood(b, k)
      BY <2>1, <2>2, <2>4, AddressBucket DEF AttemptInv, AddressesGood
    <2>6. Total(k, AttemptAges) <= 2 * MaxIPAttempts - 1
      BY <2>5, AttemptsBounded
    <2> QED
      BY <2>2, <2>3, <2>6
  <1> QED
    BY <1>1, <1>2 DEF GuessingBounded

\* Whatever addresses guesses come from and however requests overlap: in any interval
\* as long as the window, an account's password is guessed wrong at most as often as
\* the blocks and the verifications in progress allow, and an address gets less than
\* twice its budget of verifications.
THEOREM GuessingAlwaysBounded == LimiterSpec => []GuessingBounded
  <1>1. LimiterInit => BoundInv
    BY LimiterInvInit, GuessInvInit, AttemptInvInit DEF BoundInv
  <1>2. BoundInv /\ [LimiterNext]_limiterVars => BoundInv'
    <2> SUFFICES ASSUME BoundInv, [LimiterNext]_limiterVars
                 PROVE  BoundInv'
      OBVIOUS
    <2>1. LimiterInv /\ LimiterInv'
      BY LimiterInvStep DEF BoundInv
    <2>2. ASSUME Block >= Window
          PROVE  GuessInv'
      BY <2>1, <2>2, GuessInvStep DEF BoundInv
    <2>3. ASSUME IPBlock >= IPWindow
          PROVE  AttemptInv'
      BY <2>1, <2>3, AttemptInvStep DEF BoundInv
    <2> QED
      BY <2>1, <2>2, <2>3 DEF BoundInv
  <1> QED
    BY <1>1, <1>2, BoundInvBounds, PTL DEF LimiterSpec

-----------------------------------------------------------------------------
(* LoginLimiter: tables and what `allow` does to them.                       *)

Small(table) == IsFiniteSet(DOMAIN table) /\ Cardinality(DOMAIN table) <= MaxKeys

Counts(table) == table \in [DOMAIN table -> [Age -> Nat]]

LEMMA WebDurations ==
  /\ LoginWindow \in Nat \ {0} /\ SetupWindow \in Nat \ {0} /\ LoginWindow <= SetupWindow
  /\ AccountLimit \in Nat \ {0} /\ MaxKeys \in Nat \ {0}
  BY LoginLimiterAssumption

LEMMA SmallerIsSmall ==
  ASSUME NEW table, Small(table), NEW smaller, DOMAIN smaller \subseteq DOMAIN table
  PROVE  Small(smaller)
  <1>1. /\ IsFiniteSet(DOMAIN smaller)
        /\ Cardinality(DOMAIN smaller) <= Cardinality(DOMAIN table)
    BY FS_Subset DEF Small
  <1>2. Cardinality(DOMAIN smaller) \in Nat /\ Cardinality(DOMAIN table) \in Nat
    BY <1>1, FS_CardinalityType DEF Small
  <1> QED
    BY <1>1, <1>2, WebDurations DEF Small

LEMMA PurgedTable ==
  ASSUME NEW table, NEW key, NEW window
  PROVE  /\ DOMAIN Purged(table, key, window) \subseteq DOMAIN table
         /\ \A k \in DOMAIN Purged(table, key, window) : Purged(table, key, window)[k] = table[k]
         /\ \A k \in DOMAIN table \ DOMAIN Purged(table, key, window) :
              \A t \in 0..window : ~(table[k][t] > 0)
  <1>1. CASE key \in DOMAIN table \/ Cardinality(DOMAIN table) < MaxKeys
    BY <1>1 DEF Purged
  <1>2. CASE ~(key \in DOMAIN table \/ Cardinality(DOMAIN table) < MaxKeys)
    <2> DEFINE kept == {x \in DOMAIN table : \E t \in 0..window : table[x][t] > 0}
    <2>1. Purged(table, key, window) = [k \in kept |-> table[k]]
      BY <1>2 DEF Purged
    <2>2. kept \subseteq DOMAIN table
      OBVIOUS
    <2>3. \A k \in DOMAIN table \ kept : \A t \in 0..window : ~(table[k][t] > 0)
      OBVIOUS
    <2> HIDE DEF kept
    <2> QED
      BY <2>1, <2>2, <2>3
  <1> QED
    BY <1>1, <1>2

ChargedRow(table, key, limit, window) ==
  LET recent == Recent(table, key, window) IN
  [t \in Age |->
     IF t >= window THEN 0
     ELSE IF t = 0 THEN recent[0] + (IF SumFunction(recent) < limit THEN 1 ELSE 0)
     ELSE recent[t]]

LEMMA ChargedFull ==
  ASSUME NEW table, NEW key, NEW limit, NEW window, TableFull(Purged(table, key, window), key)
  PROVE  Charged(table, key, limit, window) = Purged(table, key, window)
  BY DEF Charged

Adds(new, table, key, row) ==
  new = [k \in DOMAIN table \cup {key} |-> IF k = key THEN row ELSE table[k]]

LEMMA ChargedTable ==
  ASSUME NEW table, NEW key, NEW limit, NEW window, ~TableFull(Purged(table, key, window), key)
  PROVE  Adds(Charged(table, key, limit, window), Purged(table, key, window), key,
              ChargedRow(table, key, limit, window))
  BY DEF Charged, ChargedRow, Adds

\* `allow` adds a key only where the purged table has room.
LEMMA ChargedIsSmall ==
  ASSUME NEW table, Small(table), NEW key, NEW limit, NEW window
  PROVE  Small(Charged(table, key, limit, window))
  <1> DEFINE purged == Purged(table, key, window)
             charged == Charged(table, key, limit, window)
  <1>1. DOMAIN purged \subseteq DOMAIN table
    BY PurgedTable
  <1>2. Small(purged)
    BY <1>1, SmallerIsSmall
  <1>3. CASE TableFull(purged, key)
    BY <1>2, <1>3, ChargedFull
  <1>4. CASE ~TableFull(purged, key)
    <2>1. DOMAIN charged = DOMAIN purged \cup {key}
      <3>1. Adds(charged, purged, key, ChargedRow(table, key, limit, window))
        BY <1>4, ChargedTable
      <3> HIDE DEF charged, purged
      <3> QED
        BY <3>1 DEF Adds
    <2> HIDE DEF purged, charged
    <2>2. /\ IsFiniteSet(DOMAIN purged \cup {key})
          /\ Cardinality(DOMAIN purged \cup {key})
               = IF key \in DOMAIN purged THEN Cardinality(DOMAIN purged)
                 ELSE Cardinality(DOMAIN purged) + 1
      BY <1>2, FS_AddElement DEF Small
    <2>3. Cardinality(DOMAIN purged) \in Nat
      BY <1>2, FS_CardinalityType DEF Small
    <2>4. Small(charged)
      BY <1>2, <1>4, <2>1, <2>2, <2>3, WebDurations DEF Small, TableFull
    <2> QED
      BY <2>4 DEF charged
  <1> QED
    BY <1>3, <1>4

LEMMA ClearedTable ==
  ASSUME NEW table, Counts(table), Small(table), NEW key
  PROVE  Counts(Cleared(table, key)) /\ Small(Cleared(table, key))
  BY SmallerIsSmall DEF Cleared, Counts

-----------------------------------------------------------------------------
(* LoginLimiter: the attempts within LoginWindow.                            *)

LEMMA RecentType ==
  ASSUME NEW table, Counts(table), NEW key, NEW window \in {LoginWindow, SetupWindow}
  PROVE  Recent(table, key, window) \in [0..(window - 1) -> Nat]
  <1>1. \A t \in 0..(window - 1) : t \in Age
    BY WebDurations DEF Age
  <1>2. \A t \in 0..(window - 1) : (IF key \in DOMAIN table THEN table[key][t] ELSE 0) \in Nat
    BY <1>1 DEF Counts
  <1> QED
    BY <1>2 DEF Recent

LEMMA ChargedRowType ==
  ASSUME NEW table, Counts(table), NEW key, NEW limit, NEW window \in {LoginWindow, SetupWindow}
  PROVE  ChargedRow(table, key, limit, window) \in [Age -> Nat]
  <1> DEFINE recent == Recent(table, key, window)
             Value(t) == IF t >= window THEN 0
                         ELSE IF t = 0 THEN recent[0] + (IF SumFunction(recent) < limit THEN 1 ELSE 0)
                         ELSE recent[t]
  <1>1. recent \in [0..(window - 1) -> Nat]
    BY RecentType
  <1>2. window \in Nat \ {0} /\ (\A t \in Age : t \in Nat)
    BY WebDurations DEF Age
  <1>3. ChargedRow(table, key, limit, window) = [t \in Age |-> Value(t)]
    BY DEF ChargedRow
  <1> HIDE DEF recent
  <1>4. \A t \in Age : t < window => recent[t] \in Nat
    BY <1>1, <1>2
  <1>5. recent[0] \in Nat
    BY <1>1, <1>2
  <1>6. \A t \in Age : Value(t) \in Nat
    BY <1>2, <1>4, <1>5
  <1> QED
    BY <1>3, <1>6

LEMMA ChargedCounts ==
  ASSUME NEW table, Counts(table), NEW key, NEW limit, NEW window \in {LoginWindow, SetupWindow}
  PROVE  Counts(Charged(table, key, limit, window))
  <1> DEFINE purged == Purged(table, key, window)
             charged == Charged(table, key, limit, window)
  <1>1. purged \in [DOMAIN purged -> [Age -> Nat]]
    <2>1. \A k \in DOMAIN purged : purged[k] \in [Age -> Nat]
      BY PurgedTable DEF Counts
    <2>2. purged = [k \in DOMAIN purged |-> purged[k]]
      BY DEF Counts, Purged
    <2> HIDE DEF purged
    <2> QED
      BY <2>1, <2>2
  <1>2. CASE TableFull(purged, key)
    <2>1. charged = purged
      BY <1>2, ChargedFull
    <2> HIDE DEF purged, charged
    <2>2. Counts(charged)
      BY <1>1, <2>1 DEF Counts
    <2> QED
      BY <2>2 DEF charged
  <1>3. CASE ~TableFull(purged, key)
    <2>1. Adds(charged, purged, key, ChargedRow(table, key, limit, window))
      BY <1>3, ChargedTable
    <2>2. ChargedRow(table, key, limit, window) \in [Age -> Nat]
      BY ChargedRowType
    <2> HIDE DEF purged, charged
    <2>3. charged \in [DOMAIN purged \cup {key} -> [Age -> Nat]]
      BY <1>1, <2>1, <2>2 DEF Adds
    <2>4. Counts(charged)
      BY <2>3 DEF Counts
    <2> QED
      BY <2>4 DEF charged
  <1> QED
    BY <1>2, <1>3

\* What is counted for one key is not lost by a call for another, not even when its
\* entry is purged.
LEMMA RecentKept ==
  ASSUME NEW table, Counts(table), NEW key, NEW limit, NEW window \in {LoginWindow, SetupWindow},
         NEW other, other # key
  PROVE  Recent(Charged(table, key, limit, window), other, LoginWindow)
           = Recent(table, other, LoginWindow)
  <1> DEFINE purged == Purged(table, key, window)
             charged == Charged(table, key, limit, window)
             Value(tab, t) == IF other \in DOMAIN tab THEN tab[other][t] ELSE 0
  <1>1. \A t \in 0..(LoginWindow - 1) : t \in 0..window /\ t \in Age
    BY WebDurations DEF Age
  <1>2. /\ other \in DOMAIN charged <=> other \in DOMAIN purged
        /\ other \in DOMAIN purged => charged[other] = purged[other]
    <2>1. CASE TableFull(purged, key)
      BY <2>1, ChargedFull
    <2>2. CASE ~TableFull(purged, key)
      <3>1. Adds(charged, purged, key, ChargedRow(table, key, limit, window))
        BY <2>2, ChargedTable
      <3> HIDE DEF purged, charged
      <3> QED
        BY <3>1 DEF Adds
    <2> QED
      BY <2>1, <2>2
  <1>4. /\ other \in DOMAIN purged => other \in DOMAIN table /\ purged[other] = table[other]
        /\ other \in DOMAIN table /\ other \notin DOMAIN purged =>
             \A t \in 0..window : ~(table[other][t] > 0)
    BY PurgedTable
  <1>5. other \in DOMAIN table => \A t \in Age : table[other][t] \in Nat
    BY DEF Counts
  <1> HIDE DEF purged, charged
  <1>6. ASSUME NEW t \in 0..(LoginWindow - 1)
        PROVE  Value(charged, t) = Value(table, t)
    <2>1. CASE other \in DOMAIN purged
      BY <1>2, <1>4, <2>1
    <2>2. CASE other \notin DOMAIN purged /\ other \in DOMAIN table
      <3>1. table[other][t] \in Nat /\ ~(table[other][t] > 0)
        BY <1>1, <1>4, <1>5, <2>2
      <3>2. table[other][t] = 0
        BY <3>1
      <3> QED
        BY <1>2, <2>2, <3>2
    <2>3. CASE other \notin DOMAIN purged /\ other \notin DOMAIN table
      BY <1>2, <2>3
    <2> QED
      BY <2>1, <2>2, <2>3
  <1>7. Recent(charged, other, LoginWindow) = Recent(table, other, LoginWindow)
    BY <1>6 DEF Recent
  <1> QED
    BY <1>7 DEF charged

\* A call for the key itself counts one more if it is permitted.
LEMMA RecentCharged ==
  ASSUME NEW table, Counts(table), NEW key, NEW limit
  PROVE  Recent(Charged(table, key, limit, LoginWindow), key, LoginWindow)
           = IF Permits(table, key, limit, LoginWindow)
             THEN [Recent(table, key, LoginWindow) EXCEPT ![0] = @ + 1]
             ELSE Recent(table, key, LoginWindow)
  <1> DEFINE purged == Purged(table, key, LoginWindow)
             recent == Recent(table, key, LoginWindow)
             charged == Charged(table, key, limit, LoginWindow)
             new == IF SumFunction(recent) < limit THEN 1 ELSE 0
  <1>0. \A t \in 0..(LoginWindow - 1) : t \in Age /\ ~(t >= LoginWindow)
    BY WebDurations DEF Age
  <1>1. recent \in [0..(LoginWindow - 1) -> Nat]
    BY RecentType
  <1>2. Permits(table, key, limit, LoginWindow)
          <=> ~TableFull(purged, key) /\ SumFunction(recent) < limit
    BY DEF Permits
  <1>3. CASE TableFull(purged, key)
    <2>1. charged = purged /\ key \notin DOMAIN purged
      BY <1>3, ChargedFull DEF TableFull
    <2>2. key \notin DOMAIN table
      BY <2>1 DEF Purged
    <2>3. Recent(purged, key, LoginWindow) = recent
      BY <2>1, <2>2 DEF Recent
    <2> QED
      BY <1>2, <1>3, <2>1, <2>3
  <1>4. CASE ~TableFull(purged, key)
    <2>1. key \in DOMAIN charged /\ charged[key] = ChargedRow(table, key, limit, LoginWindow)
      <3>1. Adds(charged, purged, key, ChargedRow(table, key, limit, LoginWindow))
        BY <1>4, ChargedTable
      <3> HIDE DEF purged, charged
      <3> QED
        BY <3>1 DEF Adds
    <2>2. \A t \in 0..(LoginWindow - 1) :
            charged[key][t] = IF t = 0 THEN recent[0] + new ELSE recent[t]
      BY <1>0, <2>1 DEF ChargedRow
    <2>3. Recent(charged, key, LoginWindow)
            = [t \in 0..(LoginWindow - 1) |-> charged[key][t]]
      BY <2>1 DEF Recent
    <2> HIDE DEF recent, charged, purged
    <2>4. CASE SumFunction(recent) < limit
      <3>1. [recent EXCEPT ![0] = @ + 1]
              = [t \in 0..(LoginWindow - 1) |-> IF t = 0 THEN recent[0] + 1 ELSE recent[t]]
        BY <1>1
      <3>2. Recent(charged, key, LoginWindow) = [recent EXCEPT ![0] = @ + 1]
        BY <2>2, <2>3, <2>4, <3>1
      <3> QED
        BY <1>2, <1>4, <2>4, <3>2 DEF recent, charged
    <2>5. CASE ~(SumFunction(recent) < limit)
      <3>1. recent = [t \in 0..(LoginWindow - 1) |-> recent[t]]
        BY <1>1
      <3>2. 0 \in 0..(LoginWindow - 1) /\ recent[0] + 0 = recent[0]
        BY <1>1, WebDurations
      <3>3. Recent(charged, key, LoginWindow) = recent
        BY <2>2, <2>3, <2>5, <3>1, <3>2
      <3> QED
        BY <1>2, <1>4, <2>5, <3>3 DEF recent, charged
    <2> QED
      BY <2>4, <2>5
  <1> QED
    BY <1>3, <1>4

LEMMA RecentCleared ==
  ASSUME NEW table, NEW key, NEW other
  PROVE  Recent(Cleared(table, key), other, LoginWindow)
           = IF other = key THEN [t \in 0..(LoginWindow - 1) |-> 0]
             ELSE Recent(table, other, LoginWindow)
  BY DEF Recent, Cleared

LEMMA RecentShifted ==
  ASSUME NEW table, Counts(table), NEW key
  PROVE  Recent([k \in DOMAIN table |-> Shifted(table[k])], key, LoginWindow)
           = Shifted(Recent(table, key, LoginWindow))
  <1> DEFINE later == [k \in DOMAIN table |-> Shifted(table[k])]
             recent == Recent(table, key, LoginWindow)
  <1>1. \A t \in 0..(LoginWindow - 1) :
          t \in Age /\ ~(t > SetupWindow) /\ (t # 0 => t - 1 \in 0..(LoginWindow - 1))
    BY WebDurations DEF Age
  <1>2. Shifted(recent) = [t \in 0..(LoginWindow - 1) |-> (IF t = 0 THEN 0 ELSE recent[t - 1]) + 0]
    BY <1>1 DEF Shifted, Recent
  <1>3. CASE key \in DOMAIN table
    <2>1. \A t \in 0..(LoginWindow - 1) :
            later[key][t] = (IF t = 0 THEN 0 ELSE table[key][t - 1]) + 0
      BY <1>1, <1>3 DEF Shifted, Counts
    <2>2. \A t \in 0..(LoginWindow - 1) : t # 0 => table[key][t - 1] = recent[t - 1]
      BY <1>1, <1>3 DEF Recent
    <2>3. Recent(later, key, LoginWindow) = [t \in 0..(LoginWindow - 1) |-> later[key][t]]
      BY <1>3 DEF Recent
    <2> HIDE DEF later, recent
    <2>4. Recent(later, key, LoginWindow) = Shifted(recent)
      BY <1>2, <2>1, <2>2, <2>3
    <2> QED
      BY <2>4 DEF later, recent
  <1>4. CASE key \notin DOMAIN table
    <2>1. \A t \in 0..(LoginWindow - 1) : t # 0 => recent[t - 1] = 0
      BY <1>1, <1>4 DEF Recent
    <2>2. Recent(later, key, LoginWindow) = [t \in 0..(LoginWindow - 1) |-> 0]
      BY <1>4 DEF Recent
    <2> HIDE DEF later, recent
    <2>3. Recent(later, key, LoginWindow) = Shifted(recent)
      BY <1>2, <2>1, <2>2
    <2> QED
      BY <2>3 DEF later, recent
  <1> QED
    BY <1>3, <1>4

LEMMA ShiftedCounts ==
  ASSUME NEW counts \in [0..(LoginWindow - 1) -> Nat]
  PROVE  /\ Shifted(counts) \in [0..(LoginWindow - 1) -> Nat]
         /\ SumFunction(Shifted(counts)) <= SumFunction(counts)
  <1> DEFINE S == 0..(LoginWindow - 1)
             later == Shifted(counts)
  <1>1. IsFiniteSet(S)
    BY AgesFinite, WebDurations
  <1>2. \A t \in S : ~(t > SetupWindow) /\ t \in Nat /\ (t # 0 => t - 1 \in S)
    BY WebDurations
  <1>3. counts \in [S -> Nat]
    OBVIOUS
  <1> HIDE DEF S
  <1>4. \A t \in S : later[t] = IF t = 0 THEN 0 ELSE counts[t - 1]
    <2>1. \A t \in S : later[t] = (IF t = 0 THEN 0 ELSE counts[t - 1]) + 0
      BY <1>2, <1>3 DEF Shifted
    <2>2. \A t \in S : t # 0 => counts[t - 1] \in Nat
      BY <1>2, <1>3
    <2> HIDE DEF later
    <2> QED
      BY <2>1, <2>2
  <1>5. later \in [S -> Nat]
    <2>1. \A t \in S : later[t] \in Nat
      BY <1>2, <1>3, <1>4
    <2>2. later = [t \in S |-> later[t]]
      BY <1>3 DEF Shifted
    <2> HIDE DEF later
    <2> QED
      BY <2>1, <2>2
  <1>6. MovedUp(counts, later, S, S)
    BY <1>2, <1>4 DEF MovedUp
  <1> HIDE DEF later
  <1>7. SumFunctionOnSet(later, S) <= SumFunctionOnSet(counts, S)
    <2>1. S \in SUBSET S
      OBVIOUS
    <2> QED
      BY <1>1, <1>3, <1>5, <1>6, <2>1, SumShifted
  <1>8. SumFunction(later) = SumFunctionOnSet(later, S) /\ SumFunction(counts) = SumFunctionOnSet(counts, S)
    BY <1>1, <1>3, <1>5, SumOfAll
  <1> QED
    BY <1>5, <1>7, <1>8 DEF later, S

-----------------------------------------------------------------------------
(* LoginLimiter: the invariant.                                              *)

\* The attempts allowed for an account since its last success are those its entry
\* has within the window.
GrantedAreRecent ==
  \A a \in WebAccount :
    /\ granted[a] = Recent(attempts, AccountKey(a), LoginWindow)
    /\ SumFunction(granted[a]) <= AccountLimit

WebInv == WebTypeOK /\ Small(attempts) /\ GrantedAreRecent

LEMMA AccountKeys ==
  /\ \A a, b : AccountKey(a) = AccountKey(b) => a = b
  /\ \A a, c : AccountKey(a) # SetupKey(c) /\ AccountKey(a) # ClientKey(c)
  BY DEF AccountKey, SetupKey, ClientKey

LEMMA NothingGranted ==
  /\ [t \in 0..(LoginWindow - 1) |-> 0] \in [0..(LoginWindow - 1) -> Nat]
  /\ SumFunction([t \in 0..(LoginWindow - 1) |-> 0]) = 0
  <1> DEFINE S == 0..(LoginWindow - 1)
             none == [t \in S |-> 0]
  <1>1. IsFiniteSet(S)
    BY AgesFinite, WebDurations
  <1> HIDE DEF S
  <1>2. none \in [S -> Nat] /\ S \in SUBSET S /\ (\A t \in S : none[t] = 0)
    OBVIOUS
  <1> HIDE DEF none
  <1>3. SumFunctionOnSet(none, S) = 0
    BY <1>1, <1>2, SumZero
  <1>4. SumFunction(none) = 0
    BY <1>1, <1>2, <1>3, SumOfAll
  <1> QED
    BY <1>2, <1>4 DEF none, S

LEMMA WebInvInit == WebInit => WebInv
  <1> SUFFICES ASSUME WebInit
               PROVE  WebInv
    OBVIOUS
  <1>1. WebTypeOK
    BY NothingGranted DEF WebInit, WebTypeOK, NoRequest
  <1>2. Small(attempts)
    BY FS_EmptySet, WebDurations DEF WebInit, Small
  <1>3. ASSUME NEW a \in WebAccount
        PROVE  /\ granted[a] = Recent(attempts, AccountKey(a), LoginWindow)
               /\ SumFunction(granted[a]) <= AccountLimit
    <2>1. granted[a] = [t \in 0..(LoginWindow - 1) |-> 0]
      BY DEF WebInit
    <2>2. Recent(attempts, AccountKey(a), LoginWindow) = [t \in 0..(LoginWindow - 1) |-> 0]
      BY DEF WebInit, Recent
    <2> QED
      BY <2>1, <2>2, NothingGranted, WebDurations
  <1> QED
    BY <1>1, <1>2, <1>3 DEF WebInv, GrantedAreRecent

\* A call of `allow` for a key that is not an account's.
LEMMA OtherKeys ==
  ASSUME WebInv, NEW key, \A a \in WebAccount : AccountKey(a) # key, NEW limit,
         NEW window \in {LoginWindow, SetupWindow}
  PROVE  LET table == Charged(attempts, key, limit, window) IN
         /\ Counts(table) /\ Small(table)
         /\ \A a \in WebAccount : granted[a] = Recent(table, AccountKey(a), LoginWindow)
  <1>1. Counts(attempts) /\ Small(attempts)
    BY DEF WebInv, WebTypeOK, Counts
  <1>2. \A a \in WebAccount :
          Recent(Charged(attempts, key, limit, window), AccountKey(a), LoginWindow)
            = Recent(attempts, AccountKey(a), LoginWindow)
    BY <1>1, RecentKept
  <1> QED
    BY <1>1, <1>2, ChargedCounts, ChargedIsSmall DEF WebInv, GrantedAreRecent

LEMMA SetupKeepsInv ==
  ASSUME WebInv, NEW c \in Client, NEW made \in BOOLEAN, NEW session \in BOOLEAN,
         TrySetup(c, made, session)
  PROVE  WebInv'
  <1> DEFINE key == SetupKey(c)
             table == Charged(attempts, key, SetupLimit, SetupWindow)
  <1>1. \A a \in WebAccount : AccountKey(a) # key
    BY AccountKeys
  <1>2. /\ Counts(table) /\ Small(table)
        /\ \A a \in WebAccount : granted[a] = Recent(table, AccountKey(a), LoginWindow)
    <2> HIDE DEF key
    <2> QED
      BY <1>1, OtherKeys
  <1>3. attempts' = table \/ attempts' = Cleared(table, key)
    BY DEF TrySetup
  <1>4. web' = web /\ granted' = granted /\ ready' \in BOOLEAN
    BY DEF TrySetup, WebInv, WebTypeOK
  <1> HIDE DEF table, key
  <1>5. /\ Counts(attempts') /\ Small(attempts')
        /\ \A a \in WebAccount : granted[a] = Recent(attempts', AccountKey(a), LoginWindow)
    <2>1. Counts(Cleared(table, key)) /\ Small(Cleared(table, key))
      BY <1>2, ClearedTable
    <2>2. \A a \in WebAccount : Recent(Cleared(table, key), AccountKey(a), LoginWindow)
                                  = Recent(table, AccountKey(a), LoginWindow)
      BY <1>1, RecentCleared
    <2> QED
      BY <1>2, <1>3, <2>1, <2>2
  <1> QED
    BY <1>4, <1>5 DEF WebInv, WebTypeOK, GrantedAreRecent, Counts, Small

LEMMA ClientKeepsInv ==
  ASSUME WebInv, NEW r \in WebRequest, NEW c \in Client, NEW a \in WebAccount,
         ChargeClient(r, c, a)
  PROVE  WebInv'
  <1>1. \A b \in WebAccount : AccountKey(b) # ClientKey(c)
    BY AccountKeys
  <1>2. attempts' = Charged(attempts, ClientKey(c), ClientLimit, LoginWindow)
    BY DEF ChargeClient
  <1>3. /\ Counts(attempts') /\ Small(attempts')
        /\ \A b \in WebAccount : granted[b] = Recent(attempts', AccountKey(b), LoginWindow)
    BY <1>1, <1>2, OtherKeys
  <1>4. granted' = granted /\ ready' = ready
    BY DEF ChargeClient
  <1>5. web' \in [WebRequest -> [stage : {"none", "client", "verifying"},
                                 account : WebAccount \cup {"none"}]]
    <2>1. web' = web \/ web' = [web EXCEPT ![r] = [stage |-> "client", account |-> a]]
      BY DEF ChargeClient
    <2> QED
      BY <2>1 DEF WebInv, WebTypeOK
  <1> QED
    BY <1>3, <1>4, <1>5 DEF WebInv, WebTypeOK, GrantedAreRecent, Counts, Small

LEMMA OneMoreCount ==
  ASSUME NEW counts \in [0..(LoginWindow - 1) -> Nat]
  PROVE  /\ [counts EXCEPT ![0] = @ + 1] \in [0..(LoginWindow - 1) -> Nat]
         /\ SumFunction([counts EXCEPT ![0] = @ + 1]) = SumFunction(counts) + 1
         /\ SumFunction(counts) \in Nat
  BY AgesFinite, WebDurations, OneMore

LEMMA AccountKeepsInv ==
  ASSUME WebInv, NEW r \in WebRequest, ChargeAccount(r)
  PROVE  WebInv'
  <1> DEFINE a == web[r].account
             key == AccountKey(a)
             permitted == Permits(attempts, key, AccountLimit, LoginWindow)
  <1>0. Counts(attempts) /\ Small(attempts) /\ GrantedAreRecent
    BY DEF WebInv, WebTypeOK, Counts
  <1>1. attempts' = Charged(attempts, key, AccountLimit, LoginWindow) /\ ready' = ready
    BY DEF ChargeAccount
  <1>2. Counts(attempts') /\ Small(attempts')
    BY <1>0, <1>1, ChargedCounts, ChargedIsSmall
  <1>3. web' \in [WebRequest -> [stage : {"none", "client", "verifying"},
                                 account : WebAccount \cup {"none"}]]
    <2>1. web' = [web EXCEPT ![r] = NoRequest] \/ web' = [web EXCEPT ![r].stage = "verifying"]
      BY DEF ChargeAccount
    <2> QED
      BY <2>1 DEF WebInv, WebTypeOK, NoRequest
  <1>4. granted \in [WebAccount -> [0..(LoginWindow - 1) -> Nat]]
    BY DEF WebInv, WebTypeOK
  <1>5. granted' = IF permitted THEN [granted EXCEPT ![a][0] = @ + 1] ELSE granted
    BY DEF ChargeAccount
  <1>6. permitted => SumFunction(Recent(attempts, key, LoginWindow)) < AccountLimit
    BY DEF Permits
  <1>7. Recent(attempts', key, LoginWindow)
          = IF permitted THEN [Recent(attempts, key, LoginWindow) EXCEPT ![0] = @ + 1]
            ELSE Recent(attempts, key, LoginWindow)
    BY <1>0, <1>1, RecentCharged
  <1> HIDE DEF permitted
  <1>8. ASSUME NEW b \in WebAccount
        PROVE  /\ granted'[b] \in [0..(LoginWindow - 1) -> Nat]
               /\ granted'[b] = Recent(attempts', AccountKey(b), LoginWindow)
               /\ SumFunction(granted'[b]) <= AccountLimit
    <2>1. granted[b] = Recent(attempts, AccountKey(b), LoginWindow)
          /\ SumFunction(granted[b]) <= AccountLimit
      BY <1>0 DEF GrantedAreRecent
    <2>2. CASE b # a
      <3>1. AccountKey(b) # key
        BY <2>2, AccountKeys
      <3>2. granted'[b] = granted[b]
        BY <1>4, <1>5, <2>2
      <3>3. Recent(attempts', AccountKey(b), LoginWindow) = Recent(attempts, AccountKey(b), LoginWindow)
        <4> HIDE DEF key
        <4> QED
          BY <1>0, <1>1, <3>1, RecentKept
      <3> QED
        BY <1>4, <2>1, <3>2, <3>3
    <2>3. CASE b = a /\ ~permitted
      BY <1>4, <1>5, <1>7, <2>1, <2>3
    <2>4. CASE b = a /\ permitted
      <3>1. granted'[b] = [granted[b] EXCEPT ![0] = @ + 1]
        BY <1>4, <1>5, <2>4
      <3>2. /\ [granted[b] EXCEPT ![0] = @ + 1] \in [0..(LoginWindow - 1) -> Nat]
            /\ SumFunction([granted[b] EXCEPT ![0] = @ + 1]) = SumFunction(granted[b]) + 1
            /\ SumFunction(granted[b]) \in Nat
        BY <1>4, OneMoreCount
      <3>3. SumFunction(granted[b]) < AccountLimit
        BY <1>6, <2>1, <2>4
      <3>4. granted'[b] = Recent(attempts', AccountKey(b), LoginWindow)
        BY <1>7, <2>1, <2>4, <3>1
      <3>5. SumFunction(granted'[b]) <= AccountLimit
        BY <3>1, <3>2, <3>3, WebDurations
      <3> QED
        BY <3>1, <3>2, <3>4, <3>5
    <2> QED
      BY <2>2, <2>3, <2>4
  <1>9. granted' \in [WebAccount -> [0..(LoginWindow - 1) -> Nat]]
    <2>1. granted' = [b \in WebAccount |-> granted'[b]]
      BY <1>4, <1>5
    <2> QED
      BY <1>8, <2>1
  <1>10. WebTypeOK'
    BY <1>1, <1>2, <1>3, <1>9 DEF WebInv, WebTypeOK, Counts
  <1>11. GrantedAreRecent'
    BY <1>8 DEF GrantedAreRecent
  <1> QED
    BY <1>2, <1>10, <1>11 DEF WebInv, Small

LEMMA FinishKeepsInv ==
  ASSUME WebInv, NEW r \in WebRequest, NEW right \in BOOLEAN, FinishLogin(r, right)
  PROVE  WebInv'
  <1> DEFINE a == web[r].account
             key == AccountKey(a)
             none == [t \in 0..(LoginWindow - 1) |-> 0]
  <1>0. /\ Counts(attempts) /\ Small(attempts) /\ GrantedAreRecent
        /\ granted \in [WebAccount -> [0..(LoginWindow - 1) -> Nat]]
    BY DEF WebInv, WebTypeOK, Counts
  <1>1. web' = [web EXCEPT ![r] = NoRequest] /\ ready' = ready
    BY DEF FinishLogin
  <1>2. web' \in [WebRequest -> [stage : {"none", "client", "verifying"},
                                 account : WebAccount \cup {"none"}]]
    BY <1>1 DEF WebInv, WebTypeOK, NoRequest
  <1>3. CASE ~right
    <2>1. attempts' = attempts /\ granted' = granted
      BY <1>3 DEF FinishLogin
    <2> QED
      BY <1>1, <1>2, <2>1 DEF WebInv, WebTypeOK, GrantedAreRecent, Small
  <1>4. CASE right
    <2>1. attempts' = Cleared(attempts, key)
          /\ granted' = [granted EXCEPT ![a] = [t \in DOMAIN granted[a] |-> 0]]
      BY <1>4 DEF FinishLogin
    <2>2. Counts(attempts') /\ Small(attempts')
      BY <1>0, <2>1, ClearedTable
    <2>3. ASSUME NEW b \in WebAccount
          PROVE  /\ granted'[b] \in [0..(LoginWindow - 1) -> Nat]
                 /\ granted'[b] = Recent(attempts', AccountKey(b), LoginWindow)
                 /\ SumFunction(granted'[b]) <= AccountLimit
      <3>1. Recent(attempts', AccountKey(b), LoginWindow)
              = IF AccountKey(b) = key THEN none ELSE Recent(attempts, AccountKey(b), LoginWindow)
        BY <2>1, RecentCleared
      <3>2. AccountKey(b) = key <=> b = a
        BY AccountKeys
      <3>3. granted'[b] = IF b = a THEN none ELSE granted[b]
        BY <1>0, <2>1
      <3>4. granted[b] = Recent(attempts, AccountKey(b), LoginWindow)
            /\ SumFunction(granted[b]) <= AccountLimit
        BY <1>0 DEF GrantedAreRecent
      <3>5. none \in [0..(LoginWindow - 1) -> Nat] /\ SumFunction(none) <= AccountLimit
        BY NothingGranted, WebDurations
      <3> HIDE DEF none, key
      <3> QED
        BY <1>0, <3>1, <3>2, <3>3, <3>4, <3>5
    <2>4. granted' \in [WebAccount -> [0..(LoginWindow - 1) -> Nat]]
      <3>1. granted' = [b \in WebAccount |-> granted'[b]]
        BY <1>0, <2>1
      <3> QED
        BY <2>3, <3>1
    <2> QED
      BY <1>1, <1>2, <2>2, <2>3, <2>4 DEF WebInv, WebTypeOK, GrantedAreRecent, Counts, Small
  <1> QED
    BY <1>3, <1>4

LEMMA WebTickKeepsInv ==
  ASSUME WebInv, WebTick
  PROVE  WebInv'
  <1>0. /\ Counts(attempts) /\ Small(attempts) /\ GrantedAreRecent
        /\ granted \in [WebAccount -> [0..(LoginWindow - 1) -> Nat]]
    BY DEF WebInv, WebTypeOK, Counts
  <1>1. /\ attempts' = [k \in DOMAIN attempts |-> Shifted(attempts[k])]
        /\ granted' = [a \in WebAccount |-> Shifted(granted[a])]
        /\ web' = web /\ ready' = ready
    BY DEF WebTick
  <1>2. Counts(attempts')
    <2>1. ASSUME NEW counts \in [Age -> Nat]
          PROVE  Shifted(counts) \in [Age -> Nat]
      <3>1. \A t \in Age : t \in Nat /\ (t # 0 => t - 1 \in Age)
        BY WebDurations DEF Age
      <3>2. \A t \in Age : ((IF t = 0 THEN 0 ELSE counts[t - 1])
                              + (IF t > SetupWindow THEN counts[t] ELSE 0)) \in Nat
        BY <3>1
      <3> QED
        BY <3>2 DEF Shifted
    <2> QED
      BY <1>0, <1>1, <2>1 DEF Counts
  <1>3. Small(attempts')
    BY <1>0, <1>1 DEF Small
  <1>4. ASSUME NEW a \in WebAccount
        PROVE  /\ granted'[a] \in [0..(LoginWindow - 1) -> Nat]
               /\ granted'[a] = Recent(attempts', AccountKey(a), LoginWindow)
               /\ SumFunction(granted'[a]) <= AccountLimit
    <2>1. granted[a] = Recent(attempts, AccountKey(a), LoginWindow)
          /\ SumFunction(granted[a]) <= AccountLimit
      BY <1>0 DEF GrantedAreRecent
    <2>2. Recent(attempts', AccountKey(a), LoginWindow) = Shifted(granted[a])
      BY <1>0, <1>1, <2>1, RecentShifted
    <2>3. /\ Shifted(granted[a]) \in [0..(LoginWindow - 1) -> Nat]
          /\ SumFunction(Shifted(granted[a])) <= SumFunction(granted[a])
      BY <1>0, ShiftedCounts
    <2>4. SumFunction(Shifted(granted[a])) \in Nat /\ SumFunction(granted[a]) \in Nat
      BY <1>0, <2>3, OneMoreCount
    <2>5. granted'[a] = Shifted(granted[a])
      BY <1>1
    <2>6. SumFunction(granted'[a]) <= AccountLimit
      BY <2>1, <2>3, <2>4, <2>5, WebDurations
    <2> QED
      BY <2>2, <2>3, <2>5, <2>6
  <1>5. granted' \in [WebAccount -> [0..(LoginWindow - 1) -> Nat]]
    BY <1>1, <1>4
  <1>6. WebTypeOK'
    BY <1>1, <1>2, <1>5 DEF WebInv, WebTypeOK, Counts
  <1>7. GrantedAreRecent'
    BY <1>4 DEF GrantedAreRecent
  <1> QED
    BY <1>3, <1>6, <1>7 DEF WebInv, Small

LEMMA WebInvStep == WebInv /\ [WebNext]_webVars => WebInv'
  <1> SUFFICES ASSUME WebInv, [WebNext]_webVars
               PROVE  WebInv'
    OBVIOUS
  <1>1. CASE WebTick
    BY <1>1, WebTickKeepsInv
  <1>2. ASSUME NEW c \in Client, NEW made \in BOOLEAN, NEW session \in BOOLEAN,
               TrySetup(c, made, session)
        PROVE  WebInv'
    BY <1>2, SetupKeepsInv
  <1>3. ASSUME NEW r \in WebRequest, NEW c \in Client, NEW a \in WebAccount, ChargeClient(r, c, a)
        PROVE  WebInv'
    BY <1>3, ClientKeepsInv
  <1>4. ASSUME NEW r \in WebRequest, ChargeAccount(r)
        PROVE  WebInv'
    BY <1>4, AccountKeepsInv
  <1>5. ASSUME NEW r \in WebRequest, NEW right \in BOOLEAN, FinishLogin(r, right)
        PROVE  WebInv'
    BY <1>5, FinishKeepsInv
  <1>6. CASE UNCHANGED webVars
    BY <1>6 DEF webVars, WebInv, WebTypeOK, Small, GrantedAreRecent
  <1> QED
    BY <1>1, <1>2, <1>3, <1>4, <1>5, <1>6 DEF WebNext

\* The attempts of loginLimiter never exceed maxKeys, whichever windows and keys
\* the calls of `allow` have and however logins overlap.
THEOREM WebTableAlwaysBounded == WebSpec => [](WebTypeOK /\ WebTableBounded)
  <1>1. WebInv => WebTypeOK /\ WebTableBounded
    BY DEF WebInv, WebTableBounded, Small
  <1> QED
    BY <1>1, WebInvInit, WebInvStep, PTL DEF WebSpec

\* No account's password is verified more than AccountLimit times in any interval of
\* LoginWindow without a success, for any limits, however logins overlap, and also
\* when calls with the longer window of setup purge a full table: what is purged is
\* older than LoginWindow.
THEOREM WebGuessesAlwaysBounded == WebSpec => []WebGuessesBounded
  <1>1. WebInv => WebGuessesBounded
    BY DEF WebInv, GrantedAreRecent, WebGuessesBounded
  <1> QED
    BY <1>1, WebInvInit, WebInvStep, PTL DEF WebSpec

=============================================================================
