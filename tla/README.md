# Verification of Brclio Mail

TLA+ models of the mail server in this repository, the TLC configurations that
check them, and proofs that TLAPS checks. `PROJECT.json` lists the components,
the runs, the source lines behind every definition, the hazards of the code and
the theorems.

    tlc -workers 2 -config MailStore_stale.cfg MCMailStore.tla
    tlapm DeliveryQueueProofs.tla

## 1. The system

One Go process serves the web API, IMAP, SMTP on port 25 and two submission
ports, and delivers outgoing mail. All state that lasts is in one SQLite
database. `store.Open` makes every `BeginTx` a `BEGIN IMMEDIATE`, so store
transactions are serial; goroutines interleave *between* transactions and
single statements. This decides the grain of the models: one store transaction,
or one statement outside a transaction, is one action.

| Component | State | Operations | What is hard |
| --- | --- | --- | --- |
| Mail store (`internal/store/mail.go`, `imap.go`) | `messages`, `mailboxes`, `mailbox_entries` | save (with draft replacement, quota, archive limit), move, flags, expunge, COPY, MOVE, EXPUNGE, create, rename and delete mailbox | UIDs and UIDVALIDITY over the life of a mailbox; five operations that may delete a draft; limits checked in two places |
| Web handlers (`internal/httpapi/handlers_mail.go`, `internal/service`) | none of their own | compose, draft, flags, move, expunge | read first and change later, in separate statements |
| IMAP backend (`internal/imapserver/backend.go`) | the selected mailbox's name and id | APPEND, STORE, FETCH, COPY, MOVE, EXPUNGE, CREATE, DELETE, RENAME, STATUS | each command acts on a snapshot other sessions make stale |
| SMTP sessions (`internal/smtpserver`) | sender, recipients, account | AUTH, MAIL, RCPT, DATA, RSET | the account is checked again at each stage |
| Delivery queue (`internal/queue/worker.go`, `store/queue_status.go`, `store/mail.go`) | `outgoing_queue`, `messages.transport_status` | recover, select, claim, deliver, complete, retry, refresh | crashes between statements, ignored errors, lost acknowledgements, leases, delays |
| Accounts (`store/accounts.go`, `httpapi`; checked again by IMAP and SMTP) | users with two version counters, sessions, application passwords | create, update, log in, reset, revoke | checks before slow work; the last administrator |
| Directory (`store/setup.go`, `domains.go`, `smtp.go`, `accounts.go`, `service`) | domains, users and aliases, the first-run setup | set up, create, verify, suspend, resolve a sender or recipient | two processes set up at once; what was resolved is used later |
| Login limits (`authlimit`, `loginLimiter` in `httpapi/server.go`) | two tables in memory | allow, failure, success, sweep, purge | tables that are full; windows and blocks; overlapping logins |
| Connection limits (`connlimit`, `imapserver/guard.go`) | counters, places by key, deadlines, bytes of a command | accept, admit, extend a deadline, log in, close | closes by two goroutines; keys that come back; clients that never log in |
| Process (`cmd/brclio-mail/main.go`, `Start` and `Close` of the servers) | listeners, error channels, goroutines | bind, launch, fail, signal, shut down | an accept loop fails before or while anybody listens for it |
| Backup (`store/maintenance.go`) | files | snapshot, check, publish | concurrent backups, kills, a damaged file |
| Migrations (`store`), MIME (`mailcore`), configuration, web client, packaging | the schema; none | run once; pure functions | see section 5 |

Interactions: web, IMAP and SMTP handlers call the store; what they save may add
queue rows in the same transaction; the worker reads those rows and writes the
status of the message back; accounts own mailboxes and quotas. The worker shares
nothing with the handlers but the database: `Worker.Wake` has no caller, and the
worker polls.

What makes each component correct, in short: no message a user received or sent
is ever lost from the archive and no draft is ever kept in it; a UID names one
message; what one user or session does leaves the entries of others alone;
limits hold whichever path adds bytes; every recipient is settled once,
truthfully and in the end; nobody sends in another's name; a limit never loses
or gains a place and is never got around; a failure ends the process. `PROJECT.json` lists the hazards behind these,
each at its line.

## 2. The modules

### MailStore

The three tables, as functions from ids to rows, with the quotas of users and,
for each session, the rows its command has read and not yet used (`pending`).

* A store transaction is one action named after its Go function. `SaveMessage`
  is `saveMessage` as a whole: replacement of a draft, archive limit, quota of
  each addressee, insertion, `uid_next`. `Receive`, `Send`, `SaveDraft` and
  `CreateMessage` are its callers and decide the arguments.
* A command that acts on what it read earlier is two or more actions:
  `SelectedEntries` takes the snapshot; `IMAPCopyEntries`, `IMAPMoveEntries`,
  `IMAPSetEntryFlags` (one row at a time, in UID order) and `UpdateFlags` use it;
  `Abandon` is a deadline or a restart in between. `MoveMessage` and
  `ExpungeMessage` of the web look their entry up again inside the
  transaction, so what the handler read before does not matter.
* An operation that returns an error changes nothing and is not an action.
* `DeleteMailbox` is `IMAPDeleteMailbox`. `RenameMailbox` has the guard of its
  only caller, the IMAP handler; the store alone would rename Sent or Drafts,
  and the mutant of `SystemMailboxesStay` is exactly that.

Message content, flags other than `\Deleted`, `deleted_at`, subscriptions, audit
rows and suspended accounts are left out: no property depends on them. The id of
an entry is the mailbox and UID it was inserted with; in the code it is random,
and a move keeps it in both.

`ClientCache` composes the store with an IMAP client that remembers messages by
name, UIDVALIDITY and UID.

### Outbox and DeliveryQueue

`Outbox` is the abstract promise: a recipient is pending until it is settled,
once; it is settled as delivered only if a server took the message; a verdict on
the message appears only when all its recipients are settled, and is what became
of them.

`DeliveryQueue` is the code: the rows of `outgoing_queue` (with next attempt and
lease as half-hours from now), `transport_status`, and the worker with its batch
and the statement it is at. `RecoverStaleQueue`, `QueueReady`, `ClaimQueue`, the
delivery, `CompleteQueue` or `RetryQueue`, and the two statements of
`RefreshMessageTransportStatus` are separate actions, because the process may
stop between any two and every statement may fail (`Stop`, `StatementFails`): the
worker ignores most errors. `DeliveredUnheard` is a server that took the message
and a QUIT that failed. Faults are counted and bounded by `MaxFaults`.

The refinement mapping (`Promise == INSTANCE Outbox`): a row's outcome is its
final status or pending; a recipient is taken when a server accepted the message
at least once; a verdict is a `transport_status` that is one.

`RetryWindow` adds the time since the first and the latest attempt. In it, time
passes only while the worker has nothing to do. The real worker is only slower,
which makes intervals longer; the properties are lower bounds.

### Accounts

The rows of `users` (role, status and the two version counters), `sessions` with
the order of `last_seen_at`, `app_passwords`, and those who act for an account:
web requests and mail connections, with what they have read.

* A login is `BeginLogin`, which reads the row and is right about the password in
  it, and `CreateSession`, which inserts only if `auth_version` is still the one
  read. A request with a session is `Authorise`, `Touch` (`last_seen_at`) and
  then the handler, with the role read at first.
* A mail connection is authenticated in two reads, `ReadAccount` and then
  `AcceptPassword` or `AcceptAppPassword`. `InOrder` is the test of `ensureActive`
  and `requireActiveAuthentication`; a command starts with it and takes effect
  later. SMTP has its stages; that AUTH is not accepted twice and that RCPT needs
  MAIL is the SMTP library.
* Passwords are not kept. `cut` counts, for each user, the resets and suspensions,
  and sessions and connections remember the value at the time their credentials
  were read. The code has no such variable: the properties compare with it what
  the version counters let through.
* Tokens are random in the code. Here a token can be given out again when no
  request has it any more.

Two consequences of the code that the model contains: a request that was
authorised before a reset may still make an application password after it, and
an administrator who was demoted may finish the request in progress.

### Routing

The directory (domains, users, aliases), the setups in progress, one SMTP
session and one web request. `Initialize` is one transaction, after the count
and the slow work of `BeginSetup`; each process has its own mutex (`setup`), and
the database is shared. `Connect`, `Mail`, `Rcpt`, `Data` and `StoreSmtp` are the
stages of `transactionSession`, `BeginSend`, `ResolveNext` and `StoreSend` those
of `Service.Send`; administrators act between any two. `stored` is the message
stored last, for the properties. `MailStore` says what the stored copies are,
`Accounts` who may log in, and this module says who they are for.

### AuthLimiter and LoginLimiter

The two limiters of failed logins, by their tables. Instants are kept as ages,
capped where no comparison tells them apart; a tick makes all of them older.
`Allow`, `Failure` and `Success` are the methods of `authlimit.Limiter` with
the sweep inside; a login verifies its password between them, so that several
overlap (`verifying`). `TrySetup`, `ChargeClient`, `ChargeAccount` and
`FinishLogin` are the handlers around `loginLimiter`, with its purge of a full
table. `guessed`, `allowed` and `granted` count by age what was let through, and
are not in the code; `attempts` of the web's limiter is kept as counts by age too.

What `GuessingBounded` promises for an account is two windows that end just short
of a block, plus the verifications in progress. In the place of the first window
there may also be as many guesses as verifications overlap: `Success` and the
sweep remove a bucket, and while the table is full `Failure` does not make it
again, so that wrong passwords that were being verified are not counted. A bound
without this case does not hold, whenever more verifications overlap than it
takes failures to block.

### OpenConnections, ConnLimit, PreAuthGuard and GuardedReader

`OpenConnections` is the promise of a connection limiter: admitted connections,
a bound on all and one by address, and places that can be taken again. Two
modules implement it:

* `ConnLimit` is `internal/connlimit`, with the accept loops of SMTP and the
  goroutines that close connections: the socket first, then the place, once;
* `PreAuthGuard` is the guard of IMAP, which finds connections by their pair of
  addresses: admission, the deadline before login, the login that looks its
  connection up after verifying the password, and close. A client may come back
  with the same pair while an old login is in progress.

`GuardedReader` is `guardedIMAPConn.Read`: what the parser is given of a line, of
a literal, and of one command before login, in bytes.

### Serve and Backup

`Serve` is `serve` in `main.go` from the first bind to its return: `MainStep` is
the main goroutine, and the accept loops, their reports (`ReportWeb`,
`MailAcceptFails`) and the forwarders (`TakeError`, `ForwardError`) are
goroutines of their own. Channels are sequences with the capacities of the code.

`Backup` has one action for each call to the file system or the database in
`(*Store).Backup`, for several runs of the command at once. `Kill` may come
between any two; `Commit` is the server that goes on.

## 3. What the runs show

The properties are defined and explained in the modules. Every property of a
passing run has a mutant: a definition with a plausible mistake (names ending in
`Mutant`, next to the original) under which TLC finds it violated.

Components that share no state are checked in one run where each is small: the
MC module extends all of them, a variable (`subject`) that never changes says
which one moves, and TLC explores the *sum* of their state spaces. A property of
one component is about the behaviours in which that component moves. `part` in
`MCDeliveryQueue` and `MCAccounts` does the same for two sets of bounds.

| Run | Shows | Bounds, and why they are enough |
| --- | --- | --- |
| `mailboxes` | no dangling entry, no lost archive message, system mailboxes stay, validities distinct | two custom mailboxes, made up to twice, one message with two entries: enough to delete and make again with a draft in two mailboxes |
| `stale` | UIDs are distinct and ascend; MOVE conserves messages; expunged entries stay expunged | two sessions with snapshots and the web next to them, two entries, two UIDs in each mailbox |
| `sharing` | drafts stay private, steps touch one user, archive and quota limits hold | two users, one message at the archive limit and a second that may replace it, quotas of one and two copies that change |
| `system_cache` | caches of system mailboxes are sound | three messages, two entries at a time |
| `custom_cache` | violation: caches of custom mailboxes are not | the mailbox made twice |
| `queue` | the queue implements `Outbox`; statuses are current; everybody is settled; duplicates and attempts are accounted for | one message for two recipients with two faults, or three rows that compete for a batch of two with one fault; two attempts, a lease and a retry |
| `attempts` | violation: more than `MaxAttempts` attempts | one row, one fault |
| `windows` | attempts at least 30 minutes apart, no give-up within five days; guesses of a password are bounded by account and address; nobody is refused while stale buckets fill the table | the twelve attempts of the code, one of them cut short; limits of one to three, windows of two to four ticks, tables of two or three keys for four, so that they fill, sweeps come early and late, and logins overlap; the bound on guesses is reached |
| `week` | violation: the window is shorter than seven days | the twelve attempts, no fault |
| `accounts` | an administrator remains; sessions end with a reset or suspension, are bounded, and end for no other reason; a command starts only with good credentials | two users, two requests at a time and three tokens for two sessions each, or one mail connection with an application password; two requests are needed for administrators to act on each other and for a login to straddle a reset |
| `connections` | both limiters implement `OpenConnections`; a login lifts only its own limits; places come back; the bytes of a command are bounded | two connections from one address with one key and a third from elsewhere, two goroutines that close, totals of one and two; literals on each side of each limit |
| `service` | one setup; role addresses are reached; a message carries the sender's addresses and leaves from a verified domain; a failure ends the process; a backup is whole, recent and overwrites nothing | two processes in setup, two domains, three addresses, two recipients; all endpoints but one submission port; two backups to two paths while two transactions commit |

In `service` a behaviour of `Routing` is followed until a message is stored, as
nothing is kept of it afterwards; setup, SMTP and the web are three subjects
because they meet only in the directory, which all three change. With a limit of
one place in all, the guard admits no two connections with one key at a time;
the proof covers all limits, and a run with two was made by hand.

Mailbox runs use three of the six system mailboxes: the others play the same role
as a destination. `MaxUid`, `MaxEntries`, `MaxMessages` and `MaxMade` bound only
what may be inserted; they never refuse what the code would then handle
differently. Sessions and users are symmetric, as are messages and recipients
where no liveness is checked, and addresses and accounts of the limiters. The
store may have nothing left to insert; in `connections` and `service` the closed
connection, the process that has ended and the backup that is done are meant to
stop. These runs do not check deadlock; the others do.

**Fairness.** Three properties are about what must happen.

* `EverySettles` assumes weak fairness of the worker and of time. The worker takes
  a step again and again because `Run` polls for as long as the process runs, SMTP
  commands have timeouts, and systemd (`Restart=on-failure`) or the container
  runtime starts a process again that stops. Faults have no fairness and are
  finite: nothing ends if every delivery is cut short for ever. No fairness is
  assumed of a delivery's success.
* `PlacesComeBack` assumes that time passes, that a verification of a password
  ends (Login has a timeout of 15 seconds), and strong fairness of the read that
  finds its deadline passed: a client can put it off only with the commands it has
  sent ahead, which fit a buffer. Nothing is assumed of the client.
* `FailureStops` assumes that the main goroutine, the forwarders and the reports
  of the web listeners, when they can go on, do. No failure is assumed to happen.

**Disagreements found** (`findings` in `PROJECT.json`):

1. `CreateMailbox` takes one more than the largest UIDVALIDITY *at present*. After
   the newest mailbox is deleted, the next one gets its UIDVALIDITY, and under the
   same name a client shows cached messages for new ones. RFC 3501, which
   `docs/clients.md` names as the baseline, forbids it.
2. `docs/operations.md` promises at most twelve attempts. Recovery of an abandoned
   delivery does not look at the count. The passing run shows how far it goes: one
   more for each attempt whose end was not recorded.
3. The comment in `RetryQueue` says that twelve attempts span more than seven
   days. There are eleven delays between them: 303 half-hours, 6.3 days. What the
   comment wants of it, 4 to 5 days, holds.

Two more consequences of the code that the models contain without calling them
wrong: a COPY brings back a message that was expunged after its snapshot, and a
message whose last refresh was cut short stays "queued" for good
(`TransportCurrent` names this exception; `missed` records it).

## 4. What is proved

For every value of the constants that meets the assumptions of the modules, which
say only that sets that are counted or summed over are finite (messages and
recipients, users, addresses), limits are numbers, system mailboxes are distinct
names and addresses have domains; each `ASSUME` is a named assumption, evaluated
by the runs. Two results have a hypothesis of their own, named below: the bounds
on guesses (a block that is not shorter than its window) and the five days of the
queue (twelve attempts, one fault).

**Sums** has what the other proofs need of `SumFunctionOnSet`: it is a natural
number, adding an element adds its value, two sums that agree but for one value
differ by it, a sum over fewer or smaller values is no greater, and renaming or
shifting the arguments does not change it. All of it is by induction on finite
sets. The induction theorems of the library have an operator as a parameter,
which the provers cannot instantiate; here a property is given as the *set* of
what has it, and a set of naturals that is not empty has a least element
(`EveryNatural`, `EverySubset`).

**MailStoreProofs.** `Spec => []IInv`, and from it type correctness,
`Referential`, `UidsDistinct`, `DraftsArePrivate`, `ValiditiesDistinct` and the
action properties `UidsAscend`, `RetainedStay` and `ExpungedStay`. None of the
invariants is inductive alone:

* that insertion does not overwrite a row needs `IdsUsed`: every id that exists,
  or that a snapshot still names, is below what is handed out next;
* that a late COPY cannot give a draft to another user needs `SnapshotsOwned`:
  a draft in a snapshot belongs to the user of the command, as long as it exists;
* that a late STORE or MOVE hits the message it read needs
  `SnapshotsNameTheirMessage`, which again needs that ids are never used twice.

The proof has two layers. Lemmas say under which conditions on the inserted and
removed rows a change of the tables keeps the invariant; one lemma for each
action shows that it meets them.

Two results follow in the same layout. `SystemMailboxesStay` is inductive next
to `IInv`: a system mailbox is neither renamed nor deleted, and no mailbox gets a
name its user already has. `OwnEntriesOnly` goes through `TouchesOnly(u)`: each
action changes or removes rows of one user, also EXPUNGE and COPY, whose
inserted rows take ids that were not in use.

`MoveConserves` compares what a user sees before and after: a MOVE makes a copy
of each entry it removes, under an id that was free, and each user's rows show the
same messages. `ArchiveBounded` and `QuotaBoundsGrowth` are about sums over all
rows: a step either adds one message after comparing the sum (less what it
replaces) with the limit, or it only removes; for the quota, a copy adds at most
what the snapshot's rows were counted with, also when some of them are gone.
`SystemCacheSound` is inductive with `CInv`: what a client remembers of a system
mailbox is below its `uid_next`, so that nothing else can get that UID.

**DeliveryQueueProofs.** `Spec => []QInv`, type correctness, `TransportCurrent`,
and `Spec => PromiseKept`: the queue, with any number of faults, implements
`Outbox`. The key part of `QInv` is `BatchCurrent`: what the one worker read about
the rows of its batch stays true until it comes to them, because nobody else
changes them and recovery runs only between batches. `AttemptsLeft` gives the
bound on attempts, `DeliveredAccepted` that a delivered row was accepted, and
`VerdictTrue` that a published verdict is what the rows say now. Each step of
the code then is a step of `Outbox` (take, settle, publish, submit) or a stutter.

`DuplicatesAccounted` and `AttemptsAccounted` compare a sum over all rows with
the number of faults. `FaultsPay` makes them inductive: a row that could be
delivered (or claimed) once more without any further fault already counts the
copy (or attempt) that this would be. Each step then changes one row's share, and
raises the sum only if it is a fault.

`RInv` is for the times of `RetryWindow`: an attempt begins no sooner than the
delays before it add up to (`Earliest`), less a day for each thing that went
wrong, and half an hour at least after the one before. From it `AttemptsSpaced`,
`TriesUntil` for every number of attempts and faults, and `GiveUpWindow` under
`MaxAttempts >= 12`, at most one fault and a horizon of five days: 303 half-hours
less 48 are more than 240, and with a second fault they would not be.

**AccountsProofs.** `Spec => []AInv`, type correctness, `AdministratorRemains`,
`SessionsCurrent`, `CredentialsCurrent` and `CommandsAuthorised`, from
`AccountsAssumption` (finitely many users; no value is a missing one). The
invariant adds `LoginsKnow` and `ClientsKnow`: what a login or a connection
remembers of an account has an older version, or is still true. It is why a login
that straddles a reset is refused, and why the order of the two reads of
`Authenticate` matters: an application password found after the row was read is
covered by the version in the row. `SessionsBounded` and `SessionsStay` rest on
`OInv`, which adds that the sessions are finitely many and totally ordered by
`last_seen_at` (`SessionsOrdered`): then what `Evicted` keeps of a user is one
fewer than `MaxSessions`, exactly, if the user has as many.

**ConnectionsProofs.** `ConnInv`: each counter is the number of connections that
hold a place, an address has an entry exactly if it has such a connection, and a
place is given back only by the first goroutine after the socket is closed. From
it, sockets in use stay within the limits (`ParsersBounded`) and `ConnLimit`
implements `OpenConnections` (`LimitKept`). `GuardInv`: `byIP` is the number of
held connections by address, a held connection is held under its own key, and a
login that has found its connection has found the one that holds the place.
From it `GuardLimitKept` (the same refinement) and `LiftedByLogin`. `ReaderInv`:
the budget counts the bytes given, those waiting and those announced; from it
`CommandBounded`.

**LimiterProofs.** The tables of both limiters stay within their bounds
(`TableBounded`, `WebTableBounded`), with their types, and `StaleSwept` holds: a
refusal for space sweeps first. `Allow` inserts two keys at most and
tests the size after the sweep; `Failure` puts back a bucket only if there is
room; in the web's limiter the purge makes room or the attempt is refused.

`GuessingBounded` is about every interval of a window's length, while the code
counts in windows that start anywhere. `AccountGood` relates the bucket of an
account to the guesses by age: those of its window are counted; of all that will
still be recent when the present block has ended there are at most `Spare` more
than that; once `MaxFailures` are counted, none will be; when the window has
ended, fewer than `MaxFailures`. Here a block has to be as long as the window. An
account without a bucket has as many guesses and verifications in progress as
could be verified at a time (`AccountFine`). `AddressGood` is the same for the
attempts of an address. `WebGuessesBounded` holds because what was granted to an
account is what its key has recorded, or the key is gone after a success: the
purge drops only keys with nothing recent.

**ServeProofs.** `ServeInv`, and from it the two halves of `FailureStops` that
are safety: when `serve` has returned nothing listens (`NothingListens`), and the
failure of an accept loop that nobody was told of is in a channel or in the hands
of a goroutine that will send it (`FailureOnItsWay`). The invariant says for each
stage which listeners may be bound and who has launched what. `BackupInv` and
`PublishedOnce`, for any number of backups: a staging file belongs to one
backup, and is as recent as its command from the moment VACUUM begins.

**RoutingProofs.** `RoutingInv`, and from it `OneSetup`, `RolesReached` and
`Provenance`. The argument: users, aliases and verified domains are only added to
(`Grows`), so what a session was told at MAIL still holds at DATA
(`SessionChecked`); the one transaction that writes over rows, `Initialize`, finds
none (`NothingBefore`).

**Only model-checked.** Of the properties that the runs check, the three about
what must happen (`EverySettles`, `PlacesComeBack`, `FailureStops`): liveness
under fairness is out of the prover's reach. Every invariant, action property and
refinement of a passing run is a theorem.

## 5. Not modelled, and the plan

Not modelled:

* *MIME composition and parsing* (`internal/mailcore`): pure functions of bytes,
  whose correctness is that of formats and of library calls. An abstraction
  without the bytes has nothing left to check. What their callers depend on is in
  the models: the recipients of a message, its From header, its size.
* *Schema migrations*: one `BEGIN IMMEDIATE` transaction with SQL statements as
  its only content; the tables it ends with are the variables of the other
  modules.
* *Configuration, certificates*: read once; what they yield are constants.
* *The browser client and packaging*: no state of the service.
* *The byte formula of the archive limit* and free disk space: sizes of rows and
  of a file system; the models add up small numbers instead.

Left out because it depends on the environment: DNS, the remote servers' choices
(any outcome is possible).

Planned next: a composition of `MailStore` and `DeliveryQueue` in which a queue
row always finds its message; the safety halves of the liveness properties, as
`FailureOnItsWay` is for `FailureStops`: a recipient that is not settled is always
due, waiting or in the worker's batch, and a held place has a deadline or a
connection that will close.
