------------------------------ MODULE Accounts ------------------------------
(***************************************************************************)
(* Users, web sessions and application passwords (store/accounts.go), and  *)
(* those who rely on them: web requests, IMAP connections and SMTP         *)
(* submission sessions.                                                    *)
(*                                                                         *)
(* A transaction or a statement of the store is one action.  A request     *)
(* reads who it acts for in one statement and acts in a later one, and a   *)
(* password takes long to verify, so an account can change in between.     *)
(*                                                                         *)
(* Left out: attempts with a wrong password, which change nothing here;    *)
(* the limits on attempts; names and quotas; last_login_at, updated_at,    *)
(* last_used_at, audit rows.  Which password a user has is not kept: only  *)
(* the number of times the credentials of before were cut off (cut).       *)
(*                                                                         *)
(* A definition whose name ends in _Mutant is the one after it with a      *)
(* plausible mistake, used by no specification.                            *)
(***************************************************************************)
EXTENDS Integers, FiniteSets

CONSTANTS
  User,         \* users.id
  Token,        \* sessions: the cookies given out
  AppPassword,  \* app_passwords.id
  Request,      \* web requests that can be in progress at the same time
  Connection,   \* IMAP connections and SMTP connections to a submission port
  None,         \* no request, session, connection or value
  MaxSessions,  \* maxActiveWebSessions
  MaxVersion    \* bound of the model: auth_version

AppRow == [user : User, revoked : BOOLEAN]

WebSession == [user : User, version : Nat, cut : Nat, expired : BOOLEAN]

ASSUME AccountsAssumption ==
  /\ MaxSessions \in Nat \ {0}
  /\ IsFiniteSet(User)
  /\ None \notin {"admin", "user", "active", "suspended"}
  /\ None \notin AppRow /\ None \notin WebSession

VARIABLES
  users,     \* users: role, status, auth_version, protocol_auth_version
  cut,       \* for each user, how often a reset or suspension cut credentials off
  sessions,  \* sessions: token_hash -> user, auth_version, expired; and cut then
  later,     \* <<s, t>>: t was last seen after s
  apps,      \* app_passwords: user_id, whether it is revoked
  request,   \* for each web request, what it has read so far
  conn       \* for each mail connection, the account it acts for

vars == <<users, cut, sessions, later, apps, request, conn>>

Roles == {"admin", "user"}
Statuses == {"active", "suspended"}

\* A user that does not exist yet has the status None.
Account == [role : Roles, status : Statuses \cup {None},
            auth : Nat, protocol : Nat]

NewAccount(role) == [role |-> role, status |-> "active", auth |-> 1, protocol |-> 1]
Absent == [role |-> "user", status |-> None, auth |-> 0, protocol |-> 0]

\* A login whose password was right for the row it read, and a request with a
\* session that was valid when it looked.
Login == [step : {"login"}, user : User, version : Nat, cut : Nat]
Authorised ==
  [step : {"touch", "handle"}, user : User, admin : BOOLEAN, token : Token]

\* A connection that verifies credentials, has an account, executes a command
\* that found the account in order, or lost its account again.  stage is how
\* far an SMTP transaction is.
MailClient ==
  [protocol : {"imap", "smtp"},
   step : {"verify", "ready", "busy", "anonymous"}, user : User, version : Nat,
   cut : Nat, via : AppPassword \cup {None}, stage : {"none", "mail", "rcpt"}]

-----------------------------------------------------------------------------
Active(u) == users[u].status = "active"

ActiveAdmins == {u \in User : users[u].role = "admin" /\ Active(u)}

Sessions == {t \in Token : sessions[t] # None}

SessionsOf(u) == {t \in Sessions : sessions[t].user = u}

LiveApp(a) == apps[a] # None /\ ~apps[a].revoked

\* UserForSession's row for a token.
Valid(t) ==
  /\ t \in Sessions
  /\ ~sessions[t].expired
  /\ Active(sessions[t].user)
  /\ sessions[t].version = users[sessions[t].user].auth

\* The tables when the sessions gone are deleted.
Without(table, gone) == [t \in Token |-> IF t \in gone THEN None ELSE table[t]]
Unseen(gone) == {p \in later : p[1] \notin gone /\ p[2] \notin gone}

\* s is the latest of the sessions.
Seen(pairs, s, all) ==
  {p \in pairs : p[1] # s} \cup {<<t, s>> : t \in all \ {s}}

Init ==
  /\ \E first \in User :
       users = [u \in User |-> IF u = first THEN NewAccount("admin") ELSE Absent]
  /\ cut = [u \in User |-> 0]
  /\ sessions = [t \in Token |-> None]
  /\ later = {}
  /\ apps = [a \in AppPassword |-> None]
  /\ request = [r \in Request |-> None]
  /\ conn = [c \in Connection |-> None]

-----------------------------------------------------------------------------
(* Web sessions. *)

\* Authenticate for the login handler: the row is read at once, the password
\* is compared with the hash in it and nothing is looked at again.
BeginLogin(r, u) ==
  /\ request[r] = None
  /\ Active(u)
  /\ request' = [request EXCEPT ![r] =
       [step |-> "login", user |-> u, version |-> users[u].auth, cut |-> cut[u]]]
  /\ UNCHANGED <<users, cut, sessions, later, apps, conn>>

Expired == {t \in Sessions : sessions[t].expired}

\* The sessions of u beyond the newest MaxSessions - 1.
Evicted_Mutant(u) ==
  {t \in SessionsOf(u) \ Expired :
     Cardinality({s \in SessionsOf(u) \ Expired : <<t, s>> \in later}) >= MaxSessions}
Evicted_OthersMutant(u) ==
  {t \in Sessions \ Expired :
     Cardinality({s \in Sessions \ Expired : <<t, s>> \in later}) >= MaxSessions - 1}
Evicted(u) ==
  {t \in SessionsOf(u) \ Expired :
     Cardinality({s \in SessionsOf(u) \ Expired : <<t, s>> \in later}) >= MaxSessions - 1}

\* The condition of the INSERT: the account is the one that was authenticated.
SameAccount_Mutant(u, version) == Active(u)
SameAccount(u, version) == Active(u) /\ users[u].auth = version

\* A token is random: no request has one that is given out.
Fresh(t) ==
  /\ sessions[t] = None
  /\ \A r \in Request : request[r] \in Authorised => request[r].token # t

\* The transaction inserts a session, or rolls back what it deleted.
CreateSession(r, t) ==
  LET u == request[r].user
      gone == Expired \cup Evicted(u)
  IN
  /\ request[r] # None /\ request[r].step = "login"
  /\ Fresh(t)
  /\ SameAccount(u, request[r].version)
  /\ sessions' = [Without(sessions, gone) EXCEPT ![t] =
       [user |-> u, version |-> users[u].auth, cut |-> request[r].cut,
        expired |-> FALSE]]
  /\ later' = Seen(Unseen(gone), t, Sessions \ gone)
  /\ request' = [request EXCEPT ![r] = None]
  /\ UNCHANGED <<users, cut, apps, conn>>

\* withUser and withAdmin: UserForSession reads the user,
Authorise(r, t) ==
  /\ request[r] = None
  /\ Valid(t)
  /\ request' = [request EXCEPT ![r] =
       [step |-> "touch", user |-> sessions[t].user,
        admin |-> users[sessions[t].user].role = "admin", token |-> t]]
  /\ UNCHANGED <<users, cut, sessions, later, apps, conn>>

\* and then updates last_seen_at, if the session is still there and the
\* statement does not fail.
Touch(r) ==
  /\ request[r] # None /\ request[r].step = "touch"
  /\ LET t == request[r].token
     IN  \/ t \in Sessions /\ later' = Seen(later, t, Sessions)
         \/ UNCHANGED later
  /\ request' = [request EXCEPT ![r].step = "handle"]
  /\ UNCHANGED <<users, cut, sessions, apps, conn>>

Handling(r) == request[r] # None /\ request[r].step = "handle"

Logout(r) ==
  /\ Handling(r)
  /\ sessions' = Without(sessions, {request[r].token})
  /\ later' = Unseen({request[r].token})
  /\ request' = [request EXCEPT ![r] = None]
  /\ UNCHANGED <<users, cut, apps, conn>>

\* Any other request, one that is refused, and one whose client or process is
\* gone before it is done.
EndRequest(r) ==
  /\ request[r] # None
  /\ request' = [request EXCEPT ![r] = None]
  /\ UNCHANGED <<users, cut, sessions, later, apps, conn>>

Expire(t) ==
  /\ t \in Sessions /\ ~sessions[t].expired
  /\ sessions' = [sessions EXCEPT ![t].expired = TRUE]
  /\ UNCHANGED <<users, cut, later, apps, request, conn>>

\* At the start of the process and every hour.
DeleteExpiredSessions ==
  /\ Expired # {}
  /\ sessions' = Without(sessions, Expired)
  /\ later' = Unseen(Expired)
  /\ UNCHANGED <<users, cut, apps, request, conn>>

-----------------------------------------------------------------------------
(* Application passwords. *)

CreateAppPassword(r, a) ==
  /\ Handling(r)
  /\ apps[a] = None
  /\ apps' = [apps EXCEPT ![a] = [user |-> request[r].user, revoked |-> FALSE]]
  /\ request' = [request EXCEPT ![r] = None]
  /\ UNCHANGED <<users, cut, sessions, later, conn>>

RevokeAppPassword_Mutant(r, a) ==
  /\ Handling(r)
  /\ LiveApp(a) /\ apps[a].user = request[r].user
  /\ apps' = [apps EXCEPT ![a].revoked = TRUE]
  /\ request' = [request EXCEPT ![r] = None]
  /\ UNCHANGED <<users, cut, sessions, later, conn>>
RevokeAppPassword(r, a) ==
  /\ Handling(r)
  /\ LiveApp(a) /\ apps[a].user = request[r].user
  /\ apps' = [apps EXCEPT ![a].revoked = TRUE]
  /\ users' = [users EXCEPT ![request[r].user].protocol = @ + 1]
  /\ request' = [request EXCEPT ![r] = None]
  /\ UNCHANGED <<cut, sessions, later, conn>>

-----------------------------------------------------------------------------
(* Administration. *)

Admin(r) == Handling(r) /\ request[r].admin

CreateUser(r, u, role) ==
  /\ Admin(r)
  /\ users[u] = Absent
  /\ users' = [users EXCEPT ![u] = NewAccount(role)]
  /\ request' = [request EXCEPT ![r] = None]
  /\ UNCHANGED <<cut, sessions, later, apps, conn>>

\* The columns a PATCH changes: None is a field that is not given.
UserUpdate == [role : Roles \cup {None}, status : Statuses \cup {None},
               password : BOOLEAN]

Given(value, old) == IF value = None THEN old ELSE value

\* The last active administrator stays one.
LastAdminKept_Mutant(u, update) ==
  u \in ActiveAdmins /\ Given(update.role, "admin") # "admin" =>
    Cardinality(ActiveAdmins) > 1
LastAdminKept(u, update) ==
  u \in ActiveAdmins /\ ( \/ Given(update.role, "admin") # "admin"
                          \/ Given(update.status, "active") # "active" ) =>
    Cardinality(ActiveAdmins) > 1

Bumps(update) == update.password \/ update.status # None
Cuts(update) == update.password \/ update.status = "suspended"

UpdateUser(r, u, update) ==
  /\ Admin(r)
  /\ ~(u = request[r].user /\ update.status = "suspended")
  /\ users[u] # Absent
  /\ LastAdminKept(u, update)
  /\ Bumps(update) => users[u].auth < MaxVersion
  /\ users' = [users EXCEPT ![u] =
       [role     |-> Given(update.role, @.role),
        status   |-> Given(update.status, @.status),
        auth     |-> IF Bumps(update) THEN @.auth + 1 ELSE @.auth,
        protocol |-> IF Bumps(update) THEN @.protocol + 1 ELSE @.protocol]]
  /\ IF Cuts(update)
     THEN /\ cut' = [cut EXCEPT ![u] = @ + 1]
          /\ sessions' = Without(sessions, SessionsOf(u))
          /\ later' = Unseen(SessionsOf(u))
          /\ apps' = [a \in AppPassword |->
               IF apps[a] # None /\ apps[a].user = u
               THEN [apps[a] EXCEPT !.revoked = TRUE] ELSE apps[a]]
     ELSE UNCHANGED <<cut, sessions, later, apps>>
  /\ request' = [request EXCEPT ![r] = None]
  /\ UNCHANGED conn

-----------------------------------------------------------------------------
(***************************************************************************)
(* Mail connections.  Store.Authenticate first reads the account, then     *)
(* compares the password with the hash it read, and only then looks for an *)
(* application password.                                                   *)
(***************************************************************************)
ReadAccount(c, u, protocol) ==
  /\ conn[c] = None
  /\ Active(u)
  /\ conn' = [conn EXCEPT ![c] =
       [protocol |-> protocol, step |-> "verify", user |-> u, version |-> users[u].protocol,
        cut |-> cut[u], via |-> None, stage |-> "none"]]
  /\ UNCHANGED <<users, cut, sessions, later, apps, request>>

At(c, step) == conn[c] # None /\ conn[c].step = step
Speaks(c, protocol) == conn[c] # None /\ conn[c].protocol = protocol

AcceptPassword(c) ==
  /\ At(c, "verify")
  /\ conn' = [conn EXCEPT ![c].step = "ready"]
  /\ UNCHANGED <<users, cut, sessions, later, apps, request>>

AcceptAppPassword(c, a) ==
  /\ At(c, "verify")
  /\ LiveApp(a) /\ apps[a].user = conn[c].user
  /\ conn' = [conn EXCEPT ![c].step = "ready", ![c].via = a]
  /\ UNCHANGED <<users, cut, sessions, later, apps, request>>

\* The test of ensureActive and of requireActiveAuthentication.
InOrder_Mutant(c) == Active(conn[c].user)
InOrder(c) ==
  /\ Active(conn[c].user)
  /\ users[conn[c].user].protocol = conn[c].version

\* An IMAP command begins with ensureActive.
ImapCommand(c) ==
  /\ Speaks(c, "imap")
  /\ At(c, "ready") /\ InOrder(c)
  /\ conn' = [conn EXCEPT ![c].step = "busy"]
  /\ UNCHANGED <<users, cut, sessions, later, apps, request>>

\* MAIL forgets the transaction before and may refuse the sender.
SmtpMail(c) ==
  /\ Speaks(c, "smtp")
  /\ At(c, "ready") /\ InOrder(c)
  /\ \E stage \in {"none", "mail"} : conn' = [conn EXCEPT ![c].stage = stage]
  /\ UNCHANGED <<users, cut, sessions, later, apps, request>>

SmtpRcpt(c) ==
  /\ Speaks(c, "smtp")
  /\ At(c, "ready") /\ InOrder(c)
  /\ conn[c].stage # "none"
  /\ conn' = [conn EXCEPT ![c].stage = "rcpt"]
  /\ UNCHANGED <<users, cut, sessions, later, apps, request>>

\* DATA checks the account and then reads the message from the client.
SmtpData_Mutant(c) ==
  /\ Speaks(c, "smtp")
  /\ At(c, "ready")
  /\ conn[c].stage = "rcpt"
  /\ conn' = [conn EXCEPT ![c].step = "busy"]
  /\ UNCHANGED <<users, cut, sessions, later, apps, request>>
SmtpData(c) ==
  /\ Speaks(c, "smtp")
  /\ At(c, "ready") /\ InOrder(c)
  /\ conn[c].stage = "rcpt"
  /\ conn' = [conn EXCEPT ![c].step = "busy"]
  /\ UNCHANGED <<users, cut, sessions, later, apps, request>>

SmtpReset(c) ==
  /\ Speaks(c, "smtp")
  /\ conn[c].step \in {"ready", "anonymous"}
  /\ conn[c].stage # "none"
  /\ conn' = [conn EXCEPT ![c].stage = "none"]
  /\ UNCHANGED <<users, cut, sessions, later, apps, request>>

\* The SMTP session forgets an account that is no longer in order; MAIL has
\* forgotten the transaction before that.  IMAP only refuses the command.
SmtpRefuse(c) ==
  /\ Speaks(c, "smtp")
  /\ At(c, "ready") /\ ~InOrder(c)
  /\ \E stage \in {"none", conn[c].stage} :
       conn' = [conn EXCEPT ![c].step = "anonymous", ![c].stage = stage]
  /\ UNCHANGED <<users, cut, sessions, later, apps, request>>

\* The command takes effect: SaveMessage for DATA, which ends the transaction.
TakeEffect(c) ==
  /\ At(c, "busy")
  /\ conn' = [conn EXCEPT ![c].step = "ready", ![c].stage = "none"]
  /\ UNCHANGED <<users, cut, sessions, later, apps, request>>

\* LOGOUT or QUIT, a wrong password, a timeout, or the process stops.
Close(c) ==
  /\ conn[c] # None
  /\ conn' = [conn EXCEPT ![c] = None]
  /\ UNCHANGED <<users, cut, sessions, later, apps, request>>

-----------------------------------------------------------------------------
RequestStep(r) ==
  \/ \E u \in User : BeginLogin(r, u)
  \/ \E t \in Token : CreateSession(r, t) \/ Authorise(r, t)
  \/ Touch(r) \/ Logout(r) \/ EndRequest(r)
  \/ \E a \in AppPassword : CreateAppPassword(r, a) \/ RevokeAppPassword(r, a)
  \/ \E u \in User, role \in Roles : CreateUser(r, u, role)
  \/ \E u \in User, update \in UserUpdate : UpdateUser(r, u, update)

ConnectionStep(c) ==
  \/ \E u \in User, protocol \in {"imap", "smtp"} : ReadAccount(c, u, protocol)
  \/ AcceptPassword(c)
  \/ \E a \in AppPassword : AcceptAppPassword(c, a)
  \/ ImapCommand(c)
  \/ SmtpMail(c) \/ SmtpRcpt(c) \/ SmtpData(c) \/ SmtpReset(c) \/ SmtpRefuse(c)
  \/ TakeEffect(c) \/ Close(c)

Next ==
  \/ \E r \in Request : RequestStep(r)
  \/ \E c \in Connection : ConnectionStep(c)
  \/ \E t \in Token : Expire(t)
  \/ DeleteExpiredSessions

Spec == Init /\ [][Next]_vars

-----------------------------------------------------------------------------
(***************************************************************************)
(*                               Properties                                *)
(***************************************************************************)

\* Every row and everything a request or a connection keeps has its type.
TypeOK ==
  /\ users \in [User -> Account]
  /\ cut \in [User -> Nat]
  /\ sessions \in [Token -> WebSession \cup {None}]
  /\ later \subseteq Token \X Token
  /\ apps \in [AppPassword -> AppRow \cup {None}]
  /\ request \in [Request -> Login \cup Authorised \cup {None}]
  /\ conn \in [Connection -> MailClient \cup {None}]

\* There is an active administrator at all times, whatever administrators who
\* were authorised at the same time do to each other (updateUser).
AdministratorRemains == ActiveAdmins # {}

\* The table never holds a session made with credentials from before the last
\* reset or suspension, even when the login read its account before that and
\* made its session after it, or after a suspension was lifted (CreateSession).
SessionsCurrent ==
  \A t \in Sessions : sessions[t].cut = cut[sessions[t].user]

\* A user has at most MaxSessions sessions, however many logins there are at
\* the same time.
SessionsBounded ==
  \A u \in User : Cardinality(SessionsOf(u)) <= MaxSessions

\* A session ends before its time only by its own logout, by a reset or
\* suspension of its user, or to make room when its user has MaxSessions:
\* never by what other users do or by a login that is refused.
SessionsStay ==
  [][\A u \in User : \A t \in SessionsOf(u) :
       ~sessions[t].expired /\ sessions'[t] = None =>
         \/ cut'[u] # cut[u]
         \/ \E r \in Request : Logout(r) /\ request[r].token = t
         \/ Cardinality(SessionsOf(u)') = MaxSessions]_vars

\* What a connection showed when it was authenticated is still good.
CredentialGood(c) ==
  /\ Active(conn[c].user)
  /\ conn[c].cut = cut[conn[c].user]
  /\ conn[c].via # None => LiveApp(conn[c].via)

\* A mail connection that passes the test before a command has credentials that
\* are good at that moment: no reset, suspension or revocation since, even if
\* it fell between the two reads of Authenticate.
CredentialsCurrent ==
  \A c \in Connection :
    (At(c, "ready") \/ At(c, "busy")) /\ InOrder(c) => CredentialGood(c)

\* A command never starts with credentials that were cut off or revoked before:
\* a reset, suspension or revocation lets the command in progress finish and no
\* other, whatever stage an SMTP transaction has reached.
CommandsAuthorised ==
  [][\A c \in Connection :
       ~At(c, "busy") /\ At(c, "busy")' => CredentialGood(c)]_vars

-----------------------------------------------------------------------------
(***************************************************************************)
(* The inductive invariants (AccountsProofs): the sessions are ordered by  *)
(* when they were seen, so that Evicted leaves room for exactly one; and   *)
(* what is remembered about an account is either of an older version or    *)
(* still true.                                                             *)
(***************************************************************************)
TotallyOrders(pairs, all) ==
  /\ \A t \in all : <<t, t>> \notin pairs
  /\ \A s, t \in all : s # t => <<s, t>> \in pairs \/ <<t, s>> \in pairs
  /\ \A r, s, t \in all :
       <<r, s>> \in pairs /\ <<s, t>> \in pairs => <<r, t>> \in pairs

SessionsOrdered ==
  /\ IsFiniteSet(Sessions)
  /\ later \subseteq Sessions \X Sessions
  /\ TotallyOrders(later, Sessions)

LoginsKnow ==
  \A r \in Request : request[r] # None /\ request[r].step = "login" =>
    LET u == request[r].user IN
    /\ request[r].version <= users[u].auth
    /\ request[r].version = users[u].auth => request[r].cut = cut[u]

ClientsKnow ==
  \A c \in Connection : conn[c] # None =>
    LET u == conn[c].user
        a == conn[c].via IN
    /\ conn[c].version <= users[u].protocol
    /\ conn[c].version = users[u].protocol => conn[c].cut = cut[u]
    /\ a # None =>
         /\ apps[a] # None /\ apps[a].user = u
         /\ conn[c].version = users[u].protocol => ~apps[a].revoked

AInv ==
  /\ TypeOK
  /\ AdministratorRemains
  /\ SessionsCurrent
  /\ LoginsKnow
  /\ ClientsKnow

=============================================================================
