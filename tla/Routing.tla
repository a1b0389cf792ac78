------------------------------- MODULE Routing -------------------------------
(***************************************************************************)
(* Who gets a message: first-run setup, domains, users and aliases, and    *)
(* the three ways by which messages come in: SMTP on port 25, SMTP         *)
(* submission and the web.  Each resolves its recipients one after the     *)
(* other and stores the message later, while administrators go on.         *)
(*                                                                         *)
(* A user is named by the address it was created with; neither changes.    *)
(* Domains, users and aliases are never deleted, an alias never changes,   *)
(* and nothing takes the status "verified" back.                           *)
(*                                                                         *)
(* Left out: passwords, sessions and roles (Accounts), the rows that are   *)
(* stored and the sender's Sent copy (MailStore, DeliveryQueue), the       *)
(* syntax of addresses, "postmaster" without a domain, DKIM keys and audit *)
(* rows.  A statement or transaction is one action, except that the        *)
(* lookups for one recipient, over rows that are only added to, are one    *)
(* together.                                                               *)
(***************************************************************************)
EXTENDS Naturals, Sequences, FiniteSets, SequencesExt

CONSTANTS
  Domain,       \* domain names
  MailAddress,  \* addresses in these domains
  DomainOf,     \* the domain of each
  RoleAddress,  \* those that Initialize makes aliases for
  Process,      \* processes that serve one database
  NoAddress,    \* none, or one outside these domains
  MaxRcpts      \* bound: recipients of a message

ASSUME RoutingAssumption ==
  /\ DomainOf \in [MailAddress -> Domain]
  /\ RoleAddress \subseteq MailAddress
  /\ NoAddress \notin MailAddress

VARIABLES
  domains,   \* domains.status, or absent
  mailUsers, \* users.status, or absent
  aliases,   \* aliases: address -> target user, NoAddress without one
  setup,     \* of each process: the step of the Setup that holds its mutex
  founders,  \* users that a Setup has created; not in the code
  smtp,      \* the SMTP session
  send,      \* the web request to send
  stored     \* the message stored last; not in the code

routingVars == <<domains, mailUsers, aliases, setup, founders, smtp, send, stored>>

Users == {a \in MailAddress : mailUsers[a] # "absent"}
ActiveUser(a) == mailUsers[a] = "active"
Verified(a) == domains[DomainOf[a]] = "verified"
LocalDomain(a) == domains[DomainOf[a]] # "absent"

\* ResolveRecipient: an active user, else the active target of an alias.  The mutant
\* gives up on a suspended user.
ResolveRecipient_Mutant(a) ==
  IF mailUsers[a] # "absent" THEN IF ActiveUser(a) THEN a ELSE NoAddress
  ELSE IF aliases[a] # NoAddress /\ ActiveUser(aliases[a]) THEN aliases[a]
  ELSE NoAddress

ResolveRecipient(a) ==
  IF ActiveUser(a) THEN a
  ELSE IF aliases[a] # NoAddress /\ ActiveUser(aliases[a]) THEN aliases[a]
  ELSE NoAddress

\* SMTPFromAllowed.
FromAllowed(u, a) ==
  /\ Verified(a) /\ ActiveUser(u)
  /\ a = u \/ aliases[a] = u

Session(at, user, from, rcpts) ==
  [at |-> at, user |-> user, from |-> from, rcpts |-> rcpts]

NoSession == Session("none", NoAddress, NoAddress, <<>>)
NoSend == [at |-> "none", user |-> NoAddress, todo |-> <<>>, inboxes |-> <<>>, queued |-> {}]
NothingStored == [via |-> "none", user |-> NoAddress, from |-> NoAddress, header |-> NoAddress,
                  inboxes |-> <<>>, queued |-> {}]

RoutingInit ==
  /\ domains = [d \in Domain |-> "absent"]
  /\ mailUsers = [a \in MailAddress |-> "absent"]
  /\ aliases = [a \in MailAddress |-> NoAddress]
  /\ setup = [p \in Process |-> "idle"]
  /\ founders = {}
  /\ smtp = NoSession /\ send = NoSend /\ stored = NothingStored

-----------------------------------------------------------------------------
(* First-run setup, by the web or from the environment at the start.         *)

\* Setup takes the mutex and counts the users; then it hashes the password and
\* generates a key.
BeginSetup(p) ==
  /\ setup[p] = "idle" /\ Users = {}
  /\ setup' = [setup EXCEPT ![p] = "counted"]
  /\ UNCHANGED <<domains, mailUsers, aliases, founders, smtp, send, stored>>

\* Initialize: counts again in its transaction, and makes the domain, the
\* administrator and the aliases for the role addresses.  The mutant relies on the
\* count before.
Initialize_Mutant(p, a) ==
  /\ setup[p] = "counted" /\ a \notin Users
  /\ domains' = [domains EXCEPT ![DomainOf[a]] = "pending"]
  /\ mailUsers' = [mailUsers EXCEPT ![a] = "active"]
  /\ aliases' = [r \in MailAddress |->
       IF r \in RoleAddress \ {a} /\ DomainOf[r] = DomainOf[a] THEN a ELSE aliases[r]]
  /\ founders' = founders \cup {a}
  /\ setup' = [setup EXCEPT ![p] = "idle"]
  /\ UNCHANGED <<smtp, send, stored>>

Initialize(p, a) ==
  /\ setup[p] = "counted" /\ Users = {}
  /\ domains' = [domains EXCEPT ![DomainOf[a]] = "pending"]
  /\ mailUsers' = [mailUsers EXCEPT ![a] = "active"]
  /\ aliases' = [r \in MailAddress |->
       IF r \in RoleAddress \ {a} /\ DomainOf[r] = DomainOf[a] THEN a ELSE aliases[r]]
  /\ founders' = founders \cup {a}
  /\ setup' = [setup EXCEPT ![p] = "idle"]
  /\ UNCHANGED <<smtp, send, stored>>

\* The transaction finds users, or anything fails: nothing is kept.
SetupFails(p) ==
  /\ setup[p] = "counted"
  /\ setup' = [setup EXCEPT ![p] = "idle"]
  /\ UNCHANGED <<domains, mailUsers, aliases, founders, smtp, send, stored>>

-----------------------------------------------------------------------------
(* Administrators.                                                           *)

Unchanged == UNCHANGED <<setup, founders, smtp, send, stored>>

CreateDomain(d) ==
  /\ Users # {} /\ domains[d] = "absent"
  /\ domains' = [domains EXCEPT ![d] = "pending"]
  /\ UNCHANGED <<mailUsers, aliases>> /\ Unchanged

\* verifyDomain when the TXT record is there; it may be called again.
VerifyDomain(d) ==
  /\ domains[d] # "absent"
  /\ domains' = [domains EXCEPT ![d] = "verified"]
  /\ UNCHANGED <<mailUsers, aliases>> /\ Unchanged

CreateMailUser(a) ==
  /\ Users # {} /\ a \notin Users /\ LocalDomain(a)
  /\ mailUsers' = [mailUsers EXCEPT ![a] = "active"]
  /\ UNCHANGED <<domains, aliases>> /\ Unchanged

\* updateUser keeps one active administrator.
SetStatus(a, status) ==
  /\ a \in Users
  /\ status = "suspended" => \E b \in Users \ {a} : ActiveUser(b)
  /\ mailUsers' = [mailUsers EXCEPT ![a] = status]
  /\ UNCHANGED <<domains, aliases>> /\ Unchanged

CreateAlias(a, target) ==
  /\ aliases[a] = NoAddress /\ LocalDomain(a) /\ target \in Users
  /\ aliases' = [aliases EXCEPT ![a] = target]
  /\ UNCHANGED <<domains, mailUsers>> /\ Unchanged

-----------------------------------------------------------------------------
(* An SMTP session; user is NoAddress on port 25.                            *)

KeepTheRest == UNCHANGED <<domains, mailUsers, aliases, setup, founders, send>>

Connect(u) ==
  /\ smtp.at = "none"
  /\ u # NoAddress => ActiveUser(u)
  /\ smtp' = Session("mail", u, NoAddress, <<>>)
  /\ KeepTheRest /\ UNCHANGED stored

InOrder == smtp.user # NoAddress => ActiveUser(smtp.user)

\* MAIL; from is NoAddress for the null reverse-path, which submission refuses.
Mail(from) ==
  /\ smtp.at = "mail" /\ InOrder
  /\ smtp.user # NoAddress => from # NoAddress /\ FromAllowed(smtp.user, from)
  /\ smtp' = Session("rcpt", smtp.user, from, <<>>)
  /\ KeepTheRest /\ UNCHANGED stored

\* A refused MAIL has dropped what was collected; the library leaves the
\* transaction open, if there was one.
MailRefused ==
  /\ smtp.at \in {"mail", "rcpt"}
  /\ smtp' = Session(smtp.at, smtp.user, NoAddress, <<>>)
  /\ KeepTheRest /\ UNCHANGED stored

\* RCPT: a local user of a verified domain, or, on submission, an address whose
\* domain is not one of ours.
Rcpt(to) ==
  LET user == IF Verified(to) THEN ResolveRecipient(to) ELSE NoAddress
      known == \E i \in DOMAIN smtp.rcpts : smtp.rcpts[i].address = to IN
  /\ smtp.at = "rcpt" /\ InOrder /\ Len(smtp.rcpts) < MaxRcpts
  /\ user # NoAddress \/ (smtp.user # NoAddress /\ ~LocalDomain(to))
  /\ smtp' = IF known THEN smtp
             ELSE Session("rcpt", smtp.user, smtp.from,
                          Append(smtp.rcpts, [address |-> to, user |-> user]))
  /\ KeepTheRest /\ UNCHANGED stored

\* DATA: the account is checked, then the message is read.
Data ==
  /\ smtp.at = "rcpt" /\ InOrder /\ smtp.rcpts # <<>>
  /\ smtp' = Session("data", smtp.user, smtp.from, smtp.rcpts)
  /\ KeepTheRest /\ UNCHANGED stored

\* A user is delivered to once, whatever addresses it was named by.
AddInbox(inboxes, user) == IF Contains(inboxes, user) THEN inboxes ELSE Append(inboxes, user)

Inboxes(rcpts) ==
  FoldLeft(LAMBDA acc, r : IF r.user = NoAddress THEN acc ELSE AddInbox(acc, r.user), <<>>, rcpts)

Remote(rcpts) == {rcpts[i].address : i \in {j \in DOMAIN rcpts : rcpts[j].user = NoAddress}}

\* The From header: the submitter's own, or from outside one of no local domain.
HeaderAllowed(header) ==
  IF smtp.user # NoAddress THEN header # NoAddress /\ FromAllowed(smtp.user, header)
  ELSE header # NoAddress => ~LocalDomain(header)

\* The rest of DATA: the From header is checked and the message stored for those
\* whom RCPT found.
StoreSmtp(header) ==
  /\ smtp.at = "data" /\ HeaderAllowed(header)
  /\ stored' = [via |-> IF smtp.user = NoAddress THEN "inbound" ELSE "submission",
                user |-> smtp.user, from |-> smtp.from, header |-> header,
                inboxes |-> Inboxes(smtp.rcpts), queued |-> Remote(smtp.rcpts)]
  /\ smtp' = Session("mail", smtp.user, NoAddress, <<>>)
  /\ KeepTheRest

\* RSET, a refused DATA, or a new MAIL.
ResetSession ==
  /\ smtp.at \in {"rcpt", "data"}
  /\ smtp' = Session("mail", smtp.user, NoAddress, <<>>)
  /\ KeepTheRest /\ UNCHANGED stored

Disconnect ==
  /\ smtp.at # "none" /\ smtp' = NoSession
  /\ KeepTheRest /\ UNCHANGED stored

-----------------------------------------------------------------------------
(* Sending from the web, in production (DevMode is off).                     *)

KeepAllButSend == UNCHANGED <<domains, mailUsers, aliases, setup, founders, smtp>>

BeginSend(u, to) ==
  /\ send = NoSend /\ ActiveUser(u)
  /\ send' = [NoSend EXCEPT !.at = "resolve", !.user = u, !.todo = to]
  /\ KeepAllButSend /\ UNCHANGED stored

\* One recipient; whoever is not found here is queued for delivery elsewhere.
ResolveNext ==
  LET to == Head(send.todo) user == ResolveRecipient(to) IN
  /\ send.at = "resolve" /\ send.todo # <<>>
  /\ send' = [at |-> "resolve", user |-> send.user, todo |-> Tail(send.todo),
               inboxes |-> IF user = NoAddress THEN send.inboxes ELSE AddInbox(send.inboxes, user),
               queued |-> IF user = NoAddress THEN send.queued \cup {to} ELSE send.queued]
  /\ KeepAllButSend /\ UNCHANGED stored

\* The message is stored; it goes to other servers only from a verified domain (a
\* mutant without this check).
StoreSend_Mutant ==
  /\ send.at = "resolve" /\ send.todo = <<>>
  /\ stored' = [via |-> "web", user |-> send.user, from |-> send.user, header |-> send.user,
                inboxes |-> send.inboxes, queued |-> send.queued]
  /\ send' = NoSend
  /\ KeepAllButSend

StoreSend ==
  /\ send.at = "resolve" /\ send.todo = <<>>
  /\ send.queued # {} => Verified(send.user)
  /\ stored' = [via |-> "web", user |-> send.user, from |-> send.user, header |-> send.user,
                inboxes |-> send.inboxes, queued |-> send.queued]
  /\ send' = NoSend
  /\ KeepAllButSend

\* ErrDomainUnverified, or anything else fails.
SendFails ==
  /\ send.at = "resolve" /\ send' = NoSend
  /\ KeepAllButSend /\ UNCHANGED stored

-----------------------------------------------------------------------------
AdminStep ==
  \/ \E d \in Domain : CreateDomain(d) \/ VerifyDomain(d)
  \/ \E a \in MailAddress :
       \/ CreateMailUser(a)
       \/ \E status \in {"active", "suspended"} : SetStatus(a, status)
       \/ \E target \in MailAddress : CreateAlias(a, target)

Lists == {to \in UNION {[1..n -> MailAddress] : n \in 1..MaxRcpts} : IsInjective(to)}

RoutingNext ==
  \/ \E p \in Process :
       BeginSetup(p) \/ SetupFails(p) \/ \E a \in MailAddress : Initialize(p, a)
  \/ AdminStep
  \/ \E u \in MailAddress \cup {NoAddress} : Connect(u) \/ Mail(u) \/ StoreSmtp(u)
  \/ \E a \in MailAddress : Rcpt(a)
  \/ MailRefused \/ Data \/ ResetSession \/ Disconnect
  \/ \E u \in MailAddress, to \in Lists : BeginSend(u, to)
  \/ ResolveNext \/ StoreSend \/ SendFails

RoutingSpec == RoutingInit /\ [][RoutingNext]_routingVars

-----------------------------------------------------------------------------
(* Properties. *)

AnyAddress == MailAddress \cup {NoAddress}

Received == [address : MailAddress, user : AnyAddress]

Sessions ==
  [at : {"none", "mail", "rcpt", "data"}, user : AnyAddress, from : AnyAddress,
   rcpts : Seq(Received)]

RoutingTypeOK ==
  /\ domains \in [Domain -> {"absent", "pending", "verified"}]
  /\ mailUsers \in [MailAddress -> {"absent", "active", "suspended"}]
  /\ aliases \in [MailAddress -> AnyAddress]
  /\ setup \in [Process -> {"idle", "counted"}]
  /\ founders \subseteq MailAddress
  /\ smtp \in Sessions
  /\ send.at \in {"none", "resolve"} /\ send.user \in AnyAddress
  /\ stored.via \in {"none", "inbound", "submission", "web"}

\* One setup succeeds, of several requests and of several processes that share
\* the database, although each counts the users long before it creates one.
OneSetup == Cardinality(founders) <= 1

\* The role addresses of the first domain reach somebody as long as the first
\* administrator is active, also when an account with such an address was created
\* and suspended (docs/deployment.md, line 214).
RolesReached ==
  \A f \in founders, r \in RoleAddress :
    DomainOf[r] = DomainOf[f] /\ ActiveUser(f) => ResolveRecipient(r) # NoAddress

OwnAddress(a) == a \in MailAddress /\ (a = stored.user \/ aliases[a] = stored.user)

\* What is sent in an account's name carries addresses of that account only, in
\* the header and in the envelope, unless that has none; it leaves for other servers
\* only from a verified domain, and what comes in on port 25 never does: by every
\* way in, and whatever happens between the checks.
Provenance ==
  /\ stored.via \in {"submission", "web"} =>
       OwnAddress(stored.header) /\ (stored.from = NoAddress \/ OwnAddress(stored.from))
  /\ stored.queued # {} => stored.via # "inbound" /\ Verified(stored.header)

-----------------------------------------------------------------------------
(* The inductive invariant behind them. *)

\* Nothing is there before the first user, for Initialize to overwrite.
NothingBefore ==
  Users = {} => /\ founders = {}
                /\ \A d \in Domain : domains[d] = "absent"
                /\ \A a \in MailAddress : aliases[a] = NoAddress

\* The founder has the role addresses of its domain, and keeps them.
FounderReached ==
  founders = {} \/ \E f \in Users :
    /\ founders = {f}
    /\ \A r \in RoleAddress \ {f} : DomainOf[r] = DomainOf[f] => aliases[r] = f

Owns(u, a) == a \in MailAddress /\ (a = u \/ aliases[a] = u)

\* What was checked at MAIL and RCPT still holds when the message is stored.
SessionChecked ==
  /\ smtp.user # NoAddress =>
       smtp.user \in Users /\ (smtp.from # NoAddress => Owns(smtp.user, smtp.from))
  /\ smtp.user = NoAddress => \A i \in DOMAIN smtp.rcpts : smtp.rcpts[i].user # NoAddress

SenderKnown == send.at = "resolve" => send.user \in Users

StoredByKnown ==
  /\ stored.via \in {"submission", "web"} => stored.user \in Users
  /\ stored.via = "none" => stored.queued = {}

RoutingInv ==
  /\ RoutingTypeOK /\ NothingBefore /\ FounderReached /\ SessionChecked /\ SenderKnown
  /\ StoredByKnown /\ Provenance

=============================================================================
