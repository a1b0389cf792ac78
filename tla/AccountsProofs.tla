--------------------------- MODULE AccountsProofs ---------------------------
(***************************************************************************)
(* AInv, and with it OInv, is an inductive invariant of Accounts, for      *)
(* every number of users, sessions, application passwords, requests and    *)
(* connections.  From them follow the properties of Accounts.              *)
(***************************************************************************)
EXTENDS Accounts, FiniteSetTheorems, TLAPS

-----------------------------------------------------------------------------
(* Facts about the operators. *)

LEMMA GivenType ==
  ASSUME NEW S, NEW old \in S, NEW value \in S \cup {None}
  PROVE  Given(value, old) \in S
BY DEF Given

\* Without one of its members, a set of more than one is not empty.
LEMMA AnotherRemains ==
  ASSUME NEW S, IsFiniteSet(S), Cardinality(S) > 1, NEW u
  PROVE  S \ {u} # {}
<1> SUFFICES ASSUME S \ {u} = {} PROVE FALSE
  OBVIOUS
<1>1. CASE S = {}
  BY <1>1, FS_EmptySet
<1>2. CASE S = {u}
  BY <1>2, FS_Singleton
<1> QED  BY <1>1, <1>2

\* Deleting sessions makes no new ones.
LEMMA WithoutSessions ==
  ASSUME TypeOK, SessionsCurrent, NEW gone
  PROVE  /\ Without(sessions, gone) \in [Token -> WebSession \cup {None}]
         /\ \A t \in Token : Without(sessions, gone)[t] # None =>
              /\ Without(sessions, gone)[t] = sessions[t]
              /\ t \notin gone
              /\ sessions[t].cut = cut[sessions[t].user]
         /\ Unseen(gone) \subseteq Token \X Token
BY DEF TypeOK, Without, Unseen, SessionsCurrent, Sessions

LEMMA SeenType ==
  ASSUME NEW pairs \in SUBSET (Token \X Token), NEW s \in Token,
         NEW all \in SUBSET Token
  PROVE  Seen(pairs, s, all) \subseteq Token \X Token
BY DEF Seen

-----------------------------------------------------------------------------
(* The initial states. *)

LEMMA AInit == Init => AInv
<1> SUFFICES ASSUME Init PROVE AInv
  OBVIOUS
<1>1. PICK first \in User :
        users = [u \in User |-> IF u = first THEN NewAccount("admin") ELSE Absent]
  BY DEF Init
<1>2. NewAccount("admin") \in Account /\ Absent \in Account
  BY DEF NewAccount, Absent, Account, Roles, Statuses
<1>3. TypeOK
  BY <1>1, <1>2 DEF Init, TypeOK
<1>4. users[first] = NewAccount("admin")
  BY <1>1
<1>5. first \in ActiveAdmins
  BY <1>4 DEF ActiveAdmins, Active, NewAccount
<1> QED
  BY <1>3, <1>5 DEF Init, AInv, AdministratorRemains, SessionsCurrent, Sessions,
     LoginsKnow, ClientsKnow

-----------------------------------------------------------------------------
(* Steps of web requests. *)

LEMMA BeginLoginStep ==
  ASSUME AInv, NEW r \in Request, NEW u \in User, BeginLogin(r, u)
  PROVE  AInv'
<1> DEFINE new == [step |-> "login", user |-> u, version |-> users[u].auth, cut |-> cut[u]]
<1>1. new \in Login
  BY DEF AInv, TypeOK, Account, Login
<1>2. request' = [request EXCEPT ![r] = new] /\ request' \in [Request -> Login \cup Authorised \cup {None}]
  BY <1>1 DEF BeginLogin, AInv, TypeOK
<1>3. TypeOK'
  BY <1>2 DEF BeginLogin, AInv, TypeOK
<1>4. users[u].auth \in Nat
  BY DEF AInv, TypeOK, Account
<1>5. LoginsKnow'
  BY <1>2, <1>4 DEF BeginLogin, AInv, TypeOK, LoginsKnow
<1>6. AdministratorRemains' /\ SessionsCurrent' /\ ClientsKnow'
  BY DEF BeginLogin, AInv, AdministratorRemains, ActiveAdmins, Active,
     SessionsCurrent, Sessions, ClientsKnow
<1> QED  BY <1>3, <1>5, <1>6 DEF AInv

LEMMA CreateSessionStep ==
  ASSUME AInv, NEW r \in Request, NEW t \in Token, CreateSession(r, t)
  PROVE  AInv'
<1> DEFINE u == request[r].user
           gone == Expired \cup Evicted(u)
           new == [user |-> u, version |-> users[u].auth, cut |-> request[r].cut,
                   expired |-> FALSE]
<1>1. request[r] \in Login
  BY DEF AInv, TypeOK, CreateSession, Authorised
<1>2. u \in User /\ new \in WebSession
  BY <1>1 DEF AInv, TypeOK, Account, Login, WebSession
<1>3. request[r].cut = cut[u]
  BY <1>1 DEF AInv, LoginsKnow, CreateSession, SameAccount
<1>4. sessions' = [Without(sessions, gone) EXCEPT ![t] = new]
  BY DEF CreateSession
<1>5. later' = Seen(Unseen(gone), t, Sessions \ gone)
  BY DEF CreateSession
<1>6. request' = [request EXCEPT ![r] = None] /\ UNCHANGED <<users, cut, apps, conn>>
  BY DEF CreateSession
<1> HIDE DEF u, gone, new
<1>7. /\ Without(sessions, gone) \in [Token -> WebSession \cup {None}]
      /\ \A s \in Token : Without(sessions, gone)[s] # None =>
           /\ Without(sessions, gone)[s] = sessions[s]
           /\ sessions[s].cut = cut[sessions[s].user]
      /\ Unseen(gone) \in SUBSET (Token \X Token)
  BY WithoutSessions DEF AInv
<1>8. TypeOK'
  <2>1. sessions' \in [Token -> WebSession \cup {None}]
    BY <1>2, <1>4, <1>7
  <2>2. Sessions \ gone \in SUBSET Token
    BY DEF Sessions
  <2>3. later' \subseteq Token \X Token
    BY <1>5, <1>7, <2>2, SeenType
  <2> QED  BY <1>6, <2>1, <2>3 DEF AInv, TypeOK
<1>9. SessionsCurrent'
  <2> SUFFICES ASSUME NEW s \in Token, sessions'[s] # None
               PROVE  sessions'[s].cut = cut[sessions'[s].user]
    BY <1>6 DEF SessionsCurrent, Sessions
  <2>1. CASE s = t
    BY <2>1, <1>3, <1>4, <1>7 DEF new
  <2>2. CASE s # t
    BY <2>2, <1>4, <1>7
  <2> QED  BY <2>1, <2>2
<1>10. LoginsKnow'
  BY <1>6 DEF AInv, TypeOK, LoginsKnow
<1>11. AdministratorRemains' /\ ClientsKnow'
  BY <1>6 DEF AInv, AdministratorRemains, ActiveAdmins, Active, ClientsKnow
<1> QED  BY <1>8, <1>9, <1>10, <1>11 DEF AInv

LEMMA AuthoriseStep ==
  ASSUME AInv, NEW r \in Request, NEW t \in Token, Authorise(r, t)
  PROVE  AInv'
<1> DEFINE new == [step |-> "touch", user |-> sessions[t].user,
                   admin |-> users[sessions[t].user].role = "admin", token |-> t]
<1>1. sessions[t] \in WebSession
  BY DEF AInv, TypeOK, Authorise, Valid, Sessions
<1>2. new \in Authorised
  BY <1>1 DEF WebSession, Authorised
<1>3. request' = [request EXCEPT ![r] = new]
  BY DEF Authorise
<1>4. TypeOK'
  BY <1>2, <1>3 DEF Authorise, AInv, TypeOK
<1>5. LoginsKnow'
  BY <1>3 DEF Authorise, AInv, TypeOK, LoginsKnow
<1>6. AdministratorRemains' /\ SessionsCurrent' /\ ClientsKnow'
  BY DEF Authorise, AInv, AdministratorRemains, ActiveAdmins, Active,
     SessionsCurrent, Sessions, ClientsKnow
<1> QED  BY <1>4, <1>5, <1>6 DEF AInv

LEMMA TouchStep ==
  ASSUME AInv, NEW r \in Request, Touch(r)
  PROVE  AInv'
<1>1. request[r] \in Authorised
  BY DEF AInv, TypeOK, Touch, Login
<1>2. [request[r] EXCEPT !.step = "handle"] \in Authorised
  BY <1>1 DEF Authorised
<1>3. request' = [request EXCEPT ![r] = [request[r] EXCEPT !.step = "handle"]]
  BY DEF Touch
<1>4. later' \subseteq Token \X Token
  BY <1>1, SeenType DEF Touch, Authorised, AInv, TypeOK, Sessions
<1>5. TypeOK'
  BY <1>2, <1>3, <1>4 DEF Touch, AInv, TypeOK
<1>6. request'[r].step = "handle"
  BY <1>1, <1>3 DEF Authorised, AInv, TypeOK
<1>7. LoginsKnow'
  BY <1>3, <1>6 DEF Touch, AInv, TypeOK, LoginsKnow
<1>8. AdministratorRemains' /\ SessionsCurrent' /\ ClientsKnow'
  BY DEF Touch, AInv, AdministratorRemains, ActiveAdmins, Active,
     SessionsCurrent, Sessions, ClientsKnow
<1> QED  BY <1>5, <1>7, <1>8 DEF AInv

LEMMA EndRequestStep ==
  ASSUME AInv, NEW r \in Request, EndRequest(r)
  PROVE  AInv'
<1>1. TypeOK'
  BY DEF EndRequest, AInv, TypeOK
<1>2. LoginsKnow'
  BY DEF EndRequest, AInv, TypeOK, LoginsKnow
<1> QED
  BY <1>1, <1>2 DEF EndRequest, AInv, AdministratorRemains, ActiveAdmins,
     Active, SessionsCurrent, Sessions, ClientsKnow

\* Deletions of sessions: by a logout, and of those that have expired.
LEMMA DeletionStep ==
  ASSUME AInv, NEW gone,
         sessions' = Without(sessions, gone), later' = Unseen(gone),
         UNCHANGED <<users, cut, apps, conn>>,
         request' \in [Request -> Login \cup Authorised \cup {None}],
         \A r \in Request : request'[r] # None => request'[r] = request[r]
  PROVE  AInv'
<1>1. TypeOK'
  BY WithoutSessions DEF AInv, TypeOK
<1>2. SessionsCurrent'
  BY WithoutSessions DEF AInv, SessionsCurrent, Sessions
<1>3. LoginsKnow'
  BY DEF AInv, LoginsKnow
<1> QED
  BY <1>1, <1>2, <1>3 DEF AInv, AdministratorRemains, ActiveAdmins, Active,
     ClientsKnow

LEMMA LogoutStep ==
  ASSUME AInv, NEW r \in Request, Logout(r)
  PROVE  AInv'
<1>1. /\ request' \in [Request -> Login \cup Authorised \cup {None}]
      /\ \A q \in Request : request'[q] # None => request'[q] = request[q]
  BY DEF Logout, AInv, TypeOK
<1> QED  BY <1>1, DeletionStep DEF Logout

LEMMA DeleteExpiredStep ==
  ASSUME AInv, DeleteExpiredSessions
  PROVE  AInv'
<1>1. request' \in [Request -> Login \cup Authorised \cup {None}]
  BY DEF DeleteExpiredSessions, AInv, TypeOK
<1> QED  BY <1>1, DeletionStep DEF DeleteExpiredSessions

LEMMA ExpireStep ==
  ASSUME AInv, NEW t \in Token, Expire(t)
  PROVE  AInv'
<1>1. sessions[t] \in WebSession
  BY DEF AInv, TypeOK, Expire, Sessions
<1> DEFINE new == [sessions[t] EXCEPT !.expired = TRUE]
<1>2. /\ new \in WebSession
      /\ new.cut = sessions[t].cut /\ new.user = sessions[t].user
  BY <1>1 DEF WebSession
<1>3. sessions' = [sessions EXCEPT ![t] = new]
  BY DEF Expire
<1> HIDE DEF new
<1>4. TypeOK'
  BY <1>2, <1>3 DEF Expire, AInv, TypeOK
<1>5. SessionsCurrent'
  BY <1>2, <1>3 DEF Expire, AInv, TypeOK, SessionsCurrent, Sessions
<1> QED
  BY <1>4, <1>5 DEF Expire, AInv, AdministratorRemains, ActiveAdmins, Active,
     LoginsKnow, ClientsKnow

\* An application password is made or revoked.
LEMMA CreateAppPasswordStep ==
  ASSUME AInv, NEW r \in Request, NEW a \in AppPassword, CreateAppPassword(r, a)
  PROVE  AInv'
<1>1. request[r] \in Authorised
  BY DEF AInv, TypeOK, CreateAppPassword, Handling, Login
<1> DEFINE new == [user |-> request[r].user, revoked |-> FALSE]
<1>2. new \in AppRow
  BY <1>1 DEF Authorised, AppRow
<1>3. /\ apps' = [apps EXCEPT ![a] = new] /\ apps[a] = None
      /\ request' = [request EXCEPT ![r] = None]
      /\ UNCHANGED <<users, cut, sessions, later, conn>>
  BY DEF CreateAppPassword
<1> HIDE DEF new
<1>4. TypeOK'
  BY <1>2, <1>3 DEF AInv, TypeOK
<1>5. LoginsKnow'
  BY <1>3 DEF AInv, TypeOK, LoginsKnow
<1>6. \A b \in AppPassword : apps[b] # None => apps'[b] = apps[b]
  BY <1>3 DEF AInv, TypeOK
<1>7. ClientsKnow'
  <2> SUFFICES ASSUME NEW c \in Connection, conn[c] # None
               PROVE  LET u == conn[c].user
                          b == conn[c].via IN
                      /\ conn[c].version <= users[u].protocol
                      /\ conn[c].version = users[u].protocol => conn[c].cut = cut[u]
                      /\ b # None =>
                           /\ apps'[b] # None /\ apps'[b].user = u
                           /\ conn[c].version = users[u].protocol => ~apps'[b].revoked
    BY <1>3 DEF ClientsKnow
  <2>1. conn[c].via \in AppPassword \cup {None}
    BY DEF AInv, TypeOK, MailClient
  <2> QED  BY <1>6, <2>1 DEF AInv, ClientsKnow
<1> QED
  BY <1>3, <1>4, <1>5, <1>7 DEF AInv, AdministratorRemains, ActiveAdmins,
     Active, SessionsCurrent, Sessions

LEMMA RevokeAppPasswordStep ==
  ASSUME AInv, NEW r \in Request, NEW a \in AppPassword, RevokeAppPassword(r, a)
  PROVE  AInv'
<1> DEFINE w == request[r].user
           old == apps[a]
           new == [apps[a] EXCEPT !.revoked = TRUE]
           row == [users[w] EXCEPT !.protocol = @ + 1]
<1>1. request[r] \in Authorised
  BY DEF AInv, TypeOK, RevokeAppPassword, Handling, Login
<1>2. w \in User
  BY <1>1 DEF Authorised
<1>3. old \in AppRow /\ old.user = w
  BY DEF AInv, TypeOK, RevokeAppPassword, LiveApp
<1>4. new \in AppRow /\ new.user = w
  BY <1>3 DEF AppRow
<1>5. users[w] \in Account
  BY <1>2 DEF AInv, TypeOK
<1>6. /\ row \in Account
      /\ row.role = users[w].role /\ row.status = users[w].status
      /\ row.auth = users[w].auth /\ row.protocol = users[w].protocol + 1
  BY <1>5 DEF Account
<1>7. /\ apps' = [apps EXCEPT ![a] = new]
      /\ users' = [users EXCEPT ![w] = row]
      /\ request' = [request EXCEPT ![r] = None]
      /\ UNCHANGED <<cut, sessions, later, conn>>
  BY DEF RevokeAppPassword
<1> HIDE DEF w, old, new, row
<1>8. TypeOK'
  BY <1>2, <1>4, <1>6, <1>7 DEF AInv, TypeOK
<1>9. \A u \in User : /\ users'[u].role = users[u].role
                      /\ users'[u].status = users[u].status
                      /\ users'[u].auth = users[u].auth
                      /\ u # w => users'[u] = users[u]
  BY <1>6, <1>7 DEF AInv, TypeOK
<1>10. LoginsKnow'
  <2> SUFFICES ASSUME NEW q \in Request, request'[q] # None,
                      request'[q].step = "login"
               PROVE  LET u == request'[q].user IN
                      /\ request'[q].version <= users'[u].auth
                      /\ request'[q].version = users'[u].auth => request'[q].cut = cut[u]
    BY <1>7 DEF LoginsKnow
  <2>1. request'[q] = request[q] /\ request[q] \in Login
    BY <1>7 DEF AInv, TypeOK, Authorised
  <2>2. request[q].user \in User
    BY <2>1 DEF Login
  <2> QED  BY <1>9, <2>1, <2>2 DEF AInv, LoginsKnow
<1>11. ClientsKnow'
  <2> SUFFICES ASSUME NEW c \in Connection, conn[c] # None
               PROVE  LET u == conn[c].user
                          b == conn[c].via IN
                      /\ conn[c].version <= users'[u].protocol
                      /\ conn[c].version = users'[u].protocol => conn[c].cut = cut[u]
                      /\ b # None =>
                           /\ apps'[b] # None /\ apps'[b].user = u
                           /\ conn[c].version = users'[u].protocol => ~apps'[b].revoked
    BY <1>7 DEF ClientsKnow
  <2>1. conn[c] \in MailClient
    BY DEF AInv, TypeOK
  <2>2. conn[c].user \in User /\ conn[c].via \in AppPassword \cup {None} /\ conn[c].version \in Nat
    BY <2>1 DEF MailClient
  <2>3. /\ conn[c].version <= users[conn[c].user].protocol
        /\ conn[c].version = users[conn[c].user].protocol => conn[c].cut = cut[conn[c].user]
        /\ conn[c].via # None =>
             /\ apps[conn[c].via] # None /\ apps[conn[c].via].user = conn[c].user
             /\ conn[c].version = users[conn[c].user].protocol => ~apps[conn[c].via].revoked
    BY DEF AInv, ClientsKnow
  <2>4. CASE conn[c].user = w
    <3>1. users'[w].protocol = users[w].protocol + 1 /\ users[w].protocol \in Nat
      BY <1>2, <1>5, <1>6, <1>7 DEF Account, AInv, TypeOK
    <3>2. conn[c].version # users'[w].protocol /\ conn[c].version <= users'[w].protocol
      BY <2>2, <2>3, <2>4, <3>1
    <3>3. ASSUME conn[c].via # None
          PROVE  apps'[conn[c].via] # None /\ apps'[conn[c].via].user = w
      <4>1. CASE conn[c].via = a
        <5>1. apps'[a] = new
          BY <1>7 DEF AInv, TypeOK
        <5>2. new # None
          BY <1>4, AccountsAssumption
        <5> QED  BY <1>4, <4>1, <5>1, <5>2
      <4>2. CASE conn[c].via # a
        BY <1>7, <2>2, <2>3, <2>4, <3>3, <4>2 DEF AInv, TypeOK
      <4> QED  BY <4>1, <4>2
    <3> QED  BY <2>4, <3>2, <3>3
  <2>5. CASE conn[c].user # w
    <3>1. users'[conn[c].user] = users[conn[c].user]
      BY <1>9, <2>2, <2>5
    <3>2. conn[c].via # None => conn[c].via # a
      BY <1>3, <2>3, <2>5 DEF old
    <3>3. conn[c].via # None => apps'[conn[c].via] = apps[conn[c].via]
      BY <1>7, <2>2, <3>2 DEF AInv, TypeOK
    <3> QED  BY <2>3, <3>1, <3>3
  <2> QED  BY <2>4, <2>5
<1> QED
  BY <1>7, <1>8, <1>9, <1>10, <1>11 DEF AInv, AdministratorRemains, ActiveAdmins,
     Active, SessionsCurrent, Sessions

-----------------------------------------------------------------------------
(* Steps of administrators. *)

LEMMA CreateUserStep ==
  ASSUME AInv, NEW r \in Request, NEW u \in User, NEW role \in Roles,
         CreateUser(r, u, role)
  PROVE  AInv'
<1>1. NewAccount(role) \in Account
  BY DEF NewAccount, Account, Statuses
<1>2. /\ users' = [users EXCEPT ![u] = NewAccount(role)]
      /\ users[u] = Absent
      /\ request' = [request EXCEPT ![r] = None]
      /\ UNCHANGED <<cut, sessions, later, apps, conn>>
  BY DEF CreateUser
<1>3. TypeOK'
  BY <1>1, <1>2 DEF AInv, TypeOK
<1>4. /\ \A w \in User : w # u => users'[w] = users[w]
      /\ users'[u].auth = users[u].auth + 1 /\ users[u].auth = 0
      /\ users'[u].protocol = users[u].protocol + 1 /\ users[u].protocol = 0
  BY <1>2 DEF Absent, NewAccount, AInv, TypeOK
<1>5. u \notin ActiveAdmins
  BY <1>2 DEF Absent, ActiveAdmins
<1>6. AdministratorRemains'
  BY <1>4, <1>5 DEF AInv, AdministratorRemains, ActiveAdmins, Active
<1>7. LoginsKnow'
  <2> SUFFICES ASSUME NEW q \in Request, request'[q] # None,
                      request'[q].step = "login"
               PROVE  LET w == request'[q].user IN
                      /\ request'[q].version <= users'[w].auth
                      /\ request'[q].version = users'[w].auth => request'[q].cut = cut[w]
    BY <1>2 DEF LoginsKnow
  <2>1. request'[q] = request[q] /\ request[q] \in Login
    BY <1>2 DEF AInv, TypeOK, Authorised
  <2>2. request[q].user \in User /\ request[q].version \in Nat
    BY <2>1 DEF Login
  <2> QED  BY <1>4, <2>1, <2>2 DEF AInv, LoginsKnow
<1>8. ClientsKnow'
  <2> SUFFICES ASSUME NEW c \in Connection, conn[c] # None
               PROVE  LET w == conn[c].user
                          b == conn[c].via IN
                      /\ conn[c].version <= users'[w].protocol
                      /\ conn[c].version = users'[w].protocol => conn[c].cut = cut[w]
                      /\ b # None =>
                           /\ apps[b] # None /\ apps[b].user = w
                           /\ conn[c].version = users'[w].protocol => ~apps[b].revoked
    BY <1>2 DEF ClientsKnow
  <2>1. conn[c].user \in User /\ conn[c].version \in Nat
    BY DEF AInv, TypeOK, MailClient
  <2> QED  BY <1>4, <2>1 DEF AInv, ClientsKnow
<1> QED
  BY <1>2, <1>3, <1>6, <1>7, <1>8 DEF AInv, SessionsCurrent, Sessions

\* The row UpdateUser writes.
LEMMA UpdatedRow ==
  ASSUME TypeOK, NEW u \in User, NEW update \in UserUpdate, NEW row,
         row = [role     |-> Given(update.role, users[u].role),
                status   |-> Given(update.status, users[u].status),
                auth     |-> IF Bumps(update) THEN users[u].auth + 1 ELSE users[u].auth,
                protocol |-> IF Bumps(update) THEN users[u].protocol + 1
                                              ELSE users[u].protocol]
  PROVE  /\ row \in Account
         /\ row.auth >= users[u].auth /\ row.protocol >= users[u].protocol
         /\ Cuts(update) => /\ row.auth > users[u].auth
                            /\ row.protocol > users[u].protocol
<1>1. users[u] \in Account
  BY DEF TypeOK
<1>2. /\ update.role \in Roles \cup {None}
      /\ update.status \in Statuses \cup {None}
  BY DEF UserUpdate
<1>3. Given(update.role, users[u].role) \in Roles
  BY <1>1, <1>2, GivenType DEF Account
<1>4. Given(update.status, users[u].status) \in Statuses \cup {None}
  BY <1>1, <1>2 DEF Account, Given
<1>5. Cuts(update) => Bumps(update)
  BY AccountsAssumption DEF Cuts, Bumps
<1>6. users[u].auth \in Nat /\ users[u].protocol \in Nat
  BY <1>1 DEF Account
<1> QED  BY <1>3, <1>4, <1>5, <1>6 DEF Account

LEMMA UpdateUserStep ==
  ASSUME AInv, NEW r \in Request, NEW u \in User, NEW update \in UserUpdate,
         UpdateUser(r, u, update)
  PROVE  AInv'
<1> DEFINE row == [role     |-> Given(update.role, users[u].role),
                   status   |-> Given(update.status, users[u].status),
                   auth     |-> IF Bumps(update) THEN users[u].auth + 1 ELSE users[u].auth,
                   protocol |-> IF Bumps(update) THEN users[u].protocol + 1
                                                 ELSE users[u].protocol]
<1>1. /\ row \in Account
      /\ row.auth >= users[u].auth /\ row.protocol >= users[u].protocol
      /\ Cuts(update) => /\ row.auth > users[u].auth
                         /\ row.protocol > users[u].protocol
  BY UpdatedRow DEF AInv
<1>2. /\ row.role = Given(update.role, users[u].role)
      /\ row.status = Given(update.status, users[u].status)
  OBVIOUS
<1>3. /\ users' = [users EXCEPT ![u] = row]
      /\ request' = [request EXCEPT ![r] = None] /\ conn' = conn
  BY DEF UpdateUser
<1> HIDE DEF row
<1>4. users[u] \in Account /\ users'[u] = row
  BY <1>3 DEF AInv, TypeOK
<1>5. \A w \in User : w # u => users'[w] = users[w]
  BY <1>3 DEF AInv, TypeOK
<1>6. AdministratorRemains'
  <2>1. CASE u \notin ActiveAdmins
    BY <1>5, <2>1 DEF AInv, AdministratorRemains, ActiveAdmins, Active
  <2>2. CASE u \in ActiveAdmins /\ Cardinality(ActiveAdmins) > 1
    <3>1. IsFiniteSet(ActiveAdmins)
      BY AccountsAssumption, FS_Subset DEF ActiveAdmins
    <3>2. PICK w \in ActiveAdmins : w # u
      BY <2>2, <3>1, AnotherRemains
    <3> QED  BY <1>5, <3>2 DEF AdministratorRemains, ActiveAdmins, Active
  <2>3. CASE /\ u \in ActiveAdmins
             /\ Given(update.role, "admin") = "admin"
             /\ Given(update.status, "active") = "active"
    <3>1. row.role = "admin" /\ row.status = "active"
      BY <1>2, <2>3 DEF Given, ActiveAdmins, Active
    <3> QED  BY <1>4, <3>1 DEF AdministratorRemains, ActiveAdmins, Active
  <2> QED  BY <2>1, <2>2, <2>3 DEF UpdateUser, LastAdminKept
<1>7. /\ cut' \in [User -> Nat]
      /\ \A w \in User : w # u => cut'[w] = cut[w]
      /\ cut'[u] # cut[u] => Cuts(update)
  <2>1. CASE Cuts(update)
    BY <2>1 DEF UpdateUser, AInv, TypeOK
  <2>2. CASE ~Cuts(update)
    BY <2>2 DEF UpdateUser, AInv, TypeOK
  <2> QED  BY <2>1, <2>2
<1>8. /\ apps' \in [AppPassword -> AppRow \cup {None}]
      /\ \A b \in AppPassword : apps[b] # None =>
           /\ apps'[b] # None /\ apps'[b].user = apps[b].user
           /\ ~Cuts(update) \/ apps[b].user # u => apps'[b] = apps[b]
  <2>1. CASE Cuts(update)
    <3>1. apps' = [b \in AppPassword |->
             IF apps[b] # None /\ apps[b].user = u
             THEN [apps[b] EXCEPT !.revoked = TRUE] ELSE apps[b]]
      BY <2>1 DEF UpdateUser
    <3>2. ASSUME NEW b \in AppPassword, apps[b] # None
          PROVE  /\ [apps[b] EXCEPT !.revoked = TRUE] \in AppRow
                 /\ [apps[b] EXCEPT !.revoked = TRUE].user = apps[b].user
      BY <3>2 DEF AInv, TypeOK, AppRow
    <3>3. apps' \in [AppPassword -> AppRow \cup {None}]
      BY <3>1, <3>2 DEF AInv, TypeOK
    <3>4. ASSUME NEW b \in AppPassword, apps[b] # None
          PROVE  /\ apps'[b] # None /\ apps'[b].user = apps[b].user
                 /\ apps[b].user # u => apps'[b] = apps[b]
      BY <3>1, <3>2, <3>4, AccountsAssumption
    <3> QED  BY <2>1, <3>3, <3>4
  <2>2. CASE ~Cuts(update)
    BY <2>2 DEF UpdateUser, AInv, TypeOK
  <2> QED  BY <2>1, <2>2
<1>9. /\ sessions' \in [Token -> WebSession \cup {None}]
      /\ later' \subseteq Token \X Token
      /\ \A t \in Token : sessions'[t] # None =>
           /\ sessions'[t] = sessions[t]
           /\ sessions[t].cut = cut[sessions[t].user]
           /\ Cuts(update) => sessions[t].user # u
  <2>1. CASE Cuts(update)
    BY <2>1, WithoutSessions DEF UpdateUser, AInv, SessionsOf, Sessions
  <2>2. CASE ~Cuts(update)
    BY <2>2 DEF UpdateUser, AInv, TypeOK, SessionsCurrent, Sessions
  <2> QED  BY <2>1, <2>2
<1>10. TypeOK'
  BY <1>1, <1>3, <1>7, <1>8, <1>9 DEF AInv, TypeOK
<1>11. SessionsCurrent'
  <2> SUFFICES ASSUME NEW t \in Token, sessions'[t] # None
               PROVE  sessions'[t].cut = cut'[sessions'[t].user]
    BY DEF SessionsCurrent, Sessions
  <2>1. sessions'[t] \in WebSession
    BY <1>9
  <2>2. sessions'[t].user \in User
    BY <2>1 DEF WebSession
  <2> QED  BY <1>7, <1>9, <2>2
<1>12. LoginsKnow'
  <2> SUFFICES ASSUME NEW q \in Request, request'[q] # None,
                      request'[q].step = "login"
               PROVE  LET w == request'[q].user IN
                      /\ request'[q].version <= users'[w].auth
                      /\ request'[q].version = users'[w].auth => request'[q].cut = cut'[w]
    BY DEF LoginsKnow
  <2>1. request'[q] = request[q] /\ request[q] \in Login
    BY <1>3 DEF AInv, TypeOK, Authorised
  <2>2. request[q].user \in User /\ request[q].version \in Nat
    BY <2>1 DEF Login
  <2>3. users[u].auth \in Nat /\ row.auth \in Nat
    BY <1>1, <1>4 DEF Account
  <2>4. /\ request[q].version <= users[request[q].user].auth
        /\ request[q].version = users[request[q].user].auth =>
             request[q].cut = cut[request[q].user]
    BY <2>1 DEF AInv, LoginsKnow
  <2>5. CASE request[q].user = u
    BY <1>1, <1>4, <1>7, <2>1, <2>2, <2>3, <2>4, <2>5
  <2>6. CASE request[q].user # u
    BY <1>5, <1>7, <2>1, <2>2, <2>4, <2>6
  <2> QED  BY <2>5, <2>6
<1>13. ClientsKnow'
  <2> SUFFICES ASSUME NEW c \in Connection, conn[c] # None
               PROVE  LET w == conn[c].user
                          b == conn[c].via IN
                      /\ conn[c].version <= users'[w].protocol
                      /\ conn[c].version = users'[w].protocol => conn[c].cut = cut'[w]
                      /\ b # None =>
                           /\ apps'[b] # None /\ apps'[b].user = w
                           /\ conn[c].version = users'[w].protocol => ~apps'[b].revoked
    BY <1>3 DEF ClientsKnow
  <2>1. conn[c].user \in User /\ conn[c].version \in Nat /\ conn[c].via \in AppPassword \cup {None}
    BY DEF AInv, TypeOK, MailClient
  <2>2. users[u].protocol \in Nat /\ row.protocol \in Nat
    BY <1>1, <1>4 DEF Account
  <2>3. /\ conn[c].version <= users[conn[c].user].protocol
        /\ conn[c].version = users[conn[c].user].protocol => conn[c].cut = cut[conn[c].user]
        /\ conn[c].via # None =>
             /\ apps[conn[c].via] # None /\ apps[conn[c].via].user = conn[c].user
             /\ conn[c].version = users[conn[c].user].protocol => ~apps[conn[c].via].revoked
    BY DEF AInv, ClientsKnow
  <2>4. CASE conn[c].user = u
    <3>1. conn[c].version <= users'[u].protocol
      BY <1>1, <1>4, <2>1, <2>2, <2>3, <2>4
    <3>2. conn[c].version = users'[u].protocol =>
            ~Cuts(update) /\ conn[c].version = users[u].protocol
      BY <1>1, <1>4, <2>1, <2>2, <2>3, <2>4
    <3>3. conn[c].version = users'[u].protocol => conn[c].cut = cut'[u]
      BY <1>7, <2>3, <2>4, <3>2
    <3> QED  BY <1>8, <2>1, <2>3, <2>4, <3>1, <3>2, <3>3
  <2>5. CASE conn[c].user # u
    <3>1. users'[conn[c].user] = users[conn[c].user] /\ cut'[conn[c].user] = cut[conn[c].user]
      BY <1>5, <1>7, <2>1, <2>5
    <3> QED  BY <1>8, <2>1, <2>3, <2>5, <3>1
  <2> QED  BY <2>4, <2>5
<1> QED  BY <1>6, <1>10, <1>11, <1>12, <1>13 DEF AInv

-----------------------------------------------------------------------------
(* Steps of mail connections: only what the connection knows can change. *)

LEMMA ConnectionChange ==
  ASSUME AInv, NEW c \in Connection, NEW new \in MailClient \cup {None},
         conn' = [conn EXCEPT ![c] = new],
         UNCHANGED <<users, cut, sessions, later, apps, request>>,
         new # None =>
           /\ new.version <= users[new.user].protocol
           /\ new.version = users[new.user].protocol => new.cut = cut[new.user]
           /\ new.via # None =>
                /\ apps[new.via] # None /\ apps[new.via].user = new.user
                /\ new.version = users[new.user].protocol => ~apps[new.via].revoked
  PROVE  AInv'
<1>1. TypeOK'
  BY DEF AInv, TypeOK
<1>2. ClientsKnow'
  BY DEF AInv, TypeOK, ClientsKnow
<1> QED
  BY <1>1, <1>2 DEF AInv, AdministratorRemains, ActiveAdmins, Active,
     SessionsCurrent, Sessions, LoginsKnow

\* Steps that leave the account of a connection alone.
LEMMA ProgressStep ==
  ASSUME AInv, NEW c \in Connection, conn[c] # None,
         NEW step \in {"verify", "ready", "busy", "anonymous"},
         NEW stage \in {"none", "mail", "rcpt"},
         conn' = [conn EXCEPT ![c] = [conn[c] EXCEPT !.step = step, !.stage = stage]],
         UNCHANGED <<users, cut, sessions, later, apps, request>>
  PROVE  AInv'
<1> DEFINE new == [conn[c] EXCEPT !.step = step, !.stage = stage]
<1>1. conn[c] \in MailClient
  BY DEF AInv, TypeOK
<1>2. /\ new \in MailClient
      /\ new.user = conn[c].user /\ new.version = conn[c].version
      /\ new.cut = conn[c].cut /\ new.via = conn[c].via
  BY <1>1 DEF MailClient
<1>3. /\ conn[c].version <= users[conn[c].user].protocol
      /\ conn[c].version = users[conn[c].user].protocol => conn[c].cut = cut[conn[c].user]
      /\ conn[c].via # None =>
           /\ apps[conn[c].via] # None /\ apps[conn[c].via].user = conn[c].user
           /\ conn[c].version = users[conn[c].user].protocol => ~apps[conn[c].via].revoked
  BY DEF AInv, ClientsKnow
<1> HIDE DEF new
<1> QED  BY <1>2, <1>3, ConnectionChange DEF new

\* The same for what the actions write.
LEMMA Progress ==
  ASSUME AInv, NEW c \in Connection,
         \/ AcceptPassword(c) \/ ImapCommand(c) \/ SmtpMail(c) \/ SmtpRcpt(c)
         \/ SmtpData(c) \/ SmtpReset(c) \/ SmtpRefuse(c) \/ TakeEffect(c)
  PROVE  AInv'
<1> DEFINE old == conn[c]
<1>1. conn[c] # None
  BY DEF AcceptPassword, ImapCommand, SmtpMail, SmtpRcpt, SmtpData, SmtpReset,
         SmtpRefuse, TakeEffect, At, Speaks
<1>2. conn[c] \in MailClient
  BY <1>1 DEF AInv, TypeOK
<1>3. conn[c].stage \in {"none", "mail", "rcpt"}
      /\ conn[c].step \in {"verify", "ready", "busy", "anonymous"}
  BY <1>2 DEF MailClient
<1>4. UNCHANGED <<users, cut, sessions, later, apps, request>>
  BY DEF AcceptPassword, ImapCommand, SmtpMail, SmtpRcpt, SmtpData, SmtpReset,
         SmtpRefuse, TakeEffect
<1>5. \A step \in {"verify", "ready", "busy", "anonymous"} :
        [old EXCEPT !.step = step] = [old EXCEPT !.step = step, !.stage = old.stage]
  BY <1>2 DEF MailClient
<1>6. \A stage \in {"none", "mail", "rcpt"} :
        [old EXCEPT !.stage = stage] = [old EXCEPT !.step = old.step, !.stage = stage]
  BY <1>2 DEF MailClient
<1>7. \E step \in {"verify", "ready", "busy", "anonymous"},
         stage \in {"none", "mail", "rcpt"} :
        conn' = [conn EXCEPT ![c] = [old EXCEPT !.step = step, !.stage = stage]]
  <2>1. CASE AcceptPassword(c)
    <3>1. conn' = [conn EXCEPT ![c] = [old EXCEPT !.step = "ready"]]
      BY <2>1 DEF AcceptPassword
    <3> QED  BY <1>3, <1>5, <3>1
  <2>2. CASE ImapCommand(c)
    <3>1. conn' = [conn EXCEPT ![c] = [old EXCEPT !.step = "busy"]]
      BY <2>2 DEF ImapCommand
    <3> QED  BY <1>3, <1>5, <3>1
  <2>3. CASE SmtpData(c)
    <3>1. conn' = [conn EXCEPT ![c] = [old EXCEPT !.step = "busy"]]
      BY <2>3 DEF SmtpData
    <3> QED  BY <1>3, <1>5, <3>1
  <2>4. CASE SmtpMail(c)
    <3>1. PICK stage \in {"none", "mail"} :
            conn' = [conn EXCEPT ![c] = [old EXCEPT !.stage = stage]]
      BY <2>4 DEF SmtpMail
    <3> QED  BY <1>3, <1>6, <3>1
  <2>5. CASE SmtpRcpt(c)
    <3>1. conn' = [conn EXCEPT ![c] = [old EXCEPT !.stage = "rcpt"]]
      BY <2>5 DEF SmtpRcpt
    <3> QED  BY <1>3, <1>6, <3>1
  <2>6. CASE SmtpReset(c)
    <3>1. conn' = [conn EXCEPT ![c] = [old EXCEPT !.stage = "none"]]
      BY <2>6 DEF SmtpReset
    <3> QED  BY <1>3, <1>6, <3>1
  <2>7. CASE SmtpRefuse(c)
    <3>1. PICK stage \in {"none", old.stage} :
            conn' = [conn EXCEPT ![c] = [old EXCEPT !.step = "anonymous", !.stage = stage]]
      BY <2>7 DEF SmtpRefuse
    <3> QED  BY <1>3, <3>1
  <2>8. CASE TakeEffect(c)
    <3>1. conn' = [conn EXCEPT ![c] = [old EXCEPT !.step = "ready", !.stage = "none"]]
      BY <2>8 DEF TakeEffect
    <3> QED  BY <3>1
  <2> QED  BY <2>1, <2>2, <2>3, <2>4, <2>5, <2>6, <2>7, <2>8
<1> QED  BY <1>1, <1>4, <1>7, ProgressStep

LEMMA ReadAccountStep ==
  ASSUME AInv, NEW c \in Connection, NEW u \in User,
         NEW protocol \in {"imap", "smtp"}, ReadAccount(c, u, protocol)
  PROVE  AInv'
<1> DEFINE new == [protocol |-> protocol, step |-> "verify", user |-> u,
                   version |-> users[u].protocol, cut |-> cut[u],
                   via |-> None, stage |-> "none"]
<1>1. users[u].protocol \in Nat /\ cut[u] \in Nat
  BY DEF AInv, TypeOK, Account
<1>2. new \in MailClient
  BY <1>1 DEF MailClient
<1>3. /\ new.version <= users[new.user].protocol
      /\ new.cut = cut[new.user] /\ new.via = None
  BY <1>1
<1>4. conn' = [conn EXCEPT ![c] = new]
  BY DEF ReadAccount
<1>5. UNCHANGED <<users, cut, sessions, later, apps, request>>
  BY DEF ReadAccount
<1> HIDE DEF new
<1> QED  BY <1>2, <1>3, <1>4, <1>5, ConnectionChange

\* The application password is looked up after the account was read: if the
\* version is still the same, it is live now.
LEMMA AcceptAppPasswordStep ==
  ASSUME AInv, NEW c \in Connection, NEW a \in AppPassword, AcceptAppPassword(c, a)
  PROVE  AInv'
<1> DEFINE new == [conn[c] EXCEPT !.step = "ready", !.via = a]
<1>1. conn[c] # None /\ conn[c] \in MailClient
  BY DEF AcceptAppPassword, At, AInv, TypeOK
<1>2. /\ new \in MailClient /\ new.user = conn[c].user
      /\ new.version = conn[c].version /\ new.cut = conn[c].cut /\ new.via = a
  BY <1>1 DEF MailClient
<1>3. /\ conn[c].version <= users[conn[c].user].protocol
      /\ conn[c].version = users[conn[c].user].protocol => conn[c].cut = cut[conn[c].user]
  BY <1>1 DEF AInv, ClientsKnow
<1>4. apps[a] # None /\ ~apps[a].revoked /\ apps[a].user = conn[c].user
  BY DEF AcceptAppPassword, LiveApp
<1>5. conn' = [conn EXCEPT ![c] = new]
  BY DEF AcceptAppPassword
<1>6. UNCHANGED <<users, cut, sessions, later, apps, request>>
  BY DEF AcceptAppPassword
<1> HIDE DEF new
<1> QED  BY <1>2, <1>3, <1>4, <1>5, <1>6, ConnectionChange

LEMMA CloseStep ==
  ASSUME AInv, NEW c \in Connection, Close(c)
  PROVE  AInv'
BY ConnectionChange DEF Close

-----------------------------------------------------------------------------
LEMMA AStep == AInv /\ [Next]_vars => AInv'
<1> SUFFICES ASSUME AInv, [Next]_vars PROVE AInv'
  OBVIOUS
<1>1. ASSUME NEW r \in Request, RequestStep(r) PROVE AInv'
  BY <1>1, BeginLoginStep, CreateSessionStep, AuthoriseStep, TouchStep,
     LogoutStep, EndRequestStep, CreateAppPasswordStep, RevokeAppPasswordStep,
     CreateUserStep, UpdateUserStep DEF RequestStep
<1>2. ASSUME NEW c \in Connection, ConnectionStep(c) PROVE AInv'
  BY <1>2, ReadAccountStep, AcceptAppPasswordStep, Progress, CloseStep
     DEF ConnectionStep
<1>3. CASE UNCHANGED vars
  BY <1>3 DEF vars, AInv, TypeOK, AdministratorRemains, ActiveAdmins, Active,
     SessionsCurrent, Sessions, LoginsKnow, ClientsKnow
<1> QED  BY <1>1, <1>2, <1>3, ExpireStep, DeleteExpiredStep DEF Next

\* AInv holds of every reachable state.
THEOREM AccountsInvariant == Spec => []AInv
<1> QED  BY AInit, AStep, PTL DEF Spec

\* The rows, requests and connections have their types.
THEOREM AccountsTypes == Spec => []TypeOK
<1>1. AInv => TypeOK  BY DEF AInv
<1> QED  BY <1>1, AccountsInvariant, PTL

\* An active administrator always remains, however many requests of
\* administrators change accounts at the same time.
THEOREM AdministratorAlways == Spec => []AdministratorRemains
<1>1. AInv => AdministratorRemains  BY DEF AInv
<1> QED  BY <1>1, AccountsInvariant, PTL

\* No session is older than the last reset or suspension of its user.
THEOREM SessionsAlwaysCurrent == Spec => []SessionsCurrent
<1>1. AInv => SessionsCurrent  BY DEF AInv
<1> QED  BY <1>1, AccountsInvariant, PTL

LEMMA KnownMeansGood == AInv => CredentialsCurrent
BY DEF AInv, ClientsKnow, CredentialsCurrent, CredentialGood, InOrder, At, LiveApp

\* A connection that passes the test before a command has good credentials.
THEOREM CredentialsAlwaysCurrent == Spec => []CredentialsCurrent
<1> QED  BY KnownMeansGood, AccountsInvariant, PTL

LEMMA StartStep ==
  ASSUME AInv, Next, NEW c \in Connection, ~At(c, "busy"), At(c, "busy")'
  PROVE  CredentialGood(c)
<1>1. \A e \in Connection \ {c} : ConnectionStep(e) => conn'[c] = conn[c]
  BY DEF ConnectionStep, ReadAccount, AcceptPassword, AcceptAppPassword,
     ImapCommand, SmtpMail, SmtpRcpt, SmtpData, SmtpReset, SmtpRefuse,
     TakeEffect, Close, AInv, TypeOK
<1>2. \A r \in Request : RequestStep(r) => conn' = conn
  BY DEF RequestStep, BeginLogin, CreateSession, Authorise, Touch, Logout,
     EndRequest, CreateAppPassword, RevokeAppPassword, CreateUser, UpdateUser
<1>3. (\E t \in Token : Expire(t)) \/ DeleteExpiredSessions => conn' = conn
  BY DEF Expire, DeleteExpiredSessions
<1>4. ConnectionStep(c)
  BY <1>1, <1>2, <1>3 DEF Next, At
<1>5. conn[c] \in MailClient \cup {None} /\ conn'[c] # None /\ conn'[c].step = "busy"
  BY DEF AInv, TypeOK, At
<1>6. \A u \in User, protocol \in {"imap", "smtp"} : ~ReadAccount(c, u, protocol)
  BY <1>5 DEF ReadAccount, AInv, TypeOK
<1>7. /\ ~AcceptPassword(c) /\ ~TakeEffect(c) /\ ~Close(c) /\ ~SmtpRefuse(c)
      /\ \A a \in AppPassword : ~AcceptAppPassword(c, a)
  BY <1>5 DEF AcceptPassword, TakeEffect, Close, SmtpRefuse, AcceptAppPassword,
     At, MailClient, AInv, TypeOK
<1>8. ~SmtpMail(c) /\ ~SmtpRcpt(c) /\ ~SmtpReset(c)
  BY <1>5 DEF SmtpMail, SmtpRcpt, SmtpReset, At, Speaks, MailClient, AInv, TypeOK
<1>9. ImapCommand(c) \/ SmtpData(c)
  BY <1>4, <1>6, <1>7, <1>8 DEF ConnectionStep
<1>10. At(c, "ready") /\ InOrder(c)
  BY <1>9 DEF ImapCommand, SmtpData
<1> QED  BY <1>10, KnownMeansGood DEF CredentialsCurrent

\* No command starts after its credentials were cut off or revoked.
THEOREM CommandsAlwaysAuthorised == Spec => CommandsAuthorised
<1>1. AInv /\ [Next]_vars =>
        [\A c \in Connection :
           ~At(c, "busy") /\ At(c, "busy")' => CredentialGood(c)]_vars
  BY StartStep
<1> QED  BY <1>1, AccountsInvariant, PTL DEF Spec, CommandsAuthorised

-----------------------------------------------------------------------------
(***************************************************************************)
(* The bound on sessions.  Evicted counts, for each session of a user, the *)
(* sessions seen after it; in a total order these counts are 0, 1, 2, ...  *)
(***************************************************************************)

\* In a totally ordered set, at most N elements have fewer than N elements after
\* them; exactly N, if there is another element at all.
LEMMA NewestCounted ==
  ASSUME NEW A, IsFiniteSet(A), NEW pairs, TotallyOrders(pairs, A), NEW N \in Nat
  PROVE  LET newest == {t \in A : Cardinality({s \in A : <<t, s>> \in pairs}) < N}
         IN  /\ IsFiniteSet(newest)
             /\ Cardinality(newest) <= N
             /\ A \ newest # {} => Cardinality(newest) = N
<1> DEFINE After(t) == {s \in A : <<t, s>> \in pairs}
           newest == {t \in A : Cardinality(After(t)) < N}
           n == Cardinality(A)
           f == [t \in A |-> Cardinality(After(t))]
<1>1. n \in Nat
  BY FS_CardinalityType
<1>2. ASSUME NEW t \in A
      PROVE  IsFiniteSet(After(t)) /\ Cardinality(After(t)) \in 0..(n - 1)
  <2>1. After(t) \in SUBSET (A \ {t})
    BY DEF TotallyOrders
  <2>2. IsFiniteSet(A \ {t}) /\ Cardinality(A \ {t}) = n - 1
    BY FS_RemoveElement
  <2> HIDE DEF After
  <2>3. IsFiniteSet(After(t)) /\ Cardinality(After(t)) <= n - 1
    BY <2>1, <2>2, FS_Subset
  <2>4. Cardinality(After(t)) \in Nat
    BY <2>3, FS_CardinalityType
  <2> QED  BY <1>1, <2>3, <2>4
<1>3. ASSUME NEW s \in A, NEW t \in A, <<s, t>> \in pairs
      PROVE  Cardinality(After(s)) >= Cardinality(After(t)) + 1
  <2>1. After(t) \cup {t} \in SUBSET After(s) /\ t \notin After(t)
    BY <1>3 DEF TotallyOrders
  <2>2. /\ IsFiniteSet(After(s)) /\ IsFiniteSet(After(t))
        /\ Cardinality(After(s)) \in Nat /\ Cardinality(After(t)) \in Nat
    BY <1>1, <1>2
  <2> HIDE DEF After
  <2>3. Cardinality(After(t) \cup {t}) = Cardinality(After(t)) + 1
    BY <2>1, <2>2, FS_AddElement
  <2>4. Cardinality(After(t) \cup {t}) <= Cardinality(After(s))
    BY <2>1, <2>2, FS_Subset
  <2> QED  BY <2>2, <2>3, <2>4
<1>4. ASSUME NEW s \in A, NEW t \in A, Cardinality(After(s)) = Cardinality(After(t))
      PROVE  s = t
  <2>1. Cardinality(After(s)) \in Int
    BY <1>1, <1>2
  <2>2. <<s, t>> \notin pairs
    <3> SUFFICES ASSUME <<s, t>> \in pairs PROVE FALSE
      OBVIOUS
    <3>1. Cardinality(After(s)) >= Cardinality(After(t)) + 1
      BY <1>3
    <3> QED  BY <1>4, <2>1, <3>1
  <2>3. <<t, s>> \notin pairs
    <3> SUFFICES ASSUME <<t, s>> \in pairs PROVE FALSE
      OBVIOUS
    <3>1. Cardinality(After(t)) >= Cardinality(After(s)) + 1
      BY <1>3
    <3> QED  BY <1>4, <2>1, <3>1
  <2> QED  BY <2>2, <2>3 DEF TotallyOrders
<1> HIDE DEF After
<1>5. f \in Injection(A, 0..(n - 1))
  <2>1. f \in [A -> 0..(n - 1)]
    BY <1>2
  <2>2. \A s, t \in A : f[s] = f[t] => s = t
    BY <1>4
  <2> HIDE DEF f
  <2> QED  BY <2>1, <2>2 DEF Injection, IsInjective
<1>6. IsFiniteSet(0..(n - 1)) /\ Cardinality(0..(n - 1)) = n
  <2> HIDE DEF n
  <2>1. n - 1 \in Int /\ (IF 0 > n - 1 THEN 0 ELSE n - 1 - 0 + 1) = n
    BY <1>1
  <2> QED  BY <2>1, FS_Interval
<1>7. f \in Surjection(A, 0..(n - 1))
  BY <1>5, <1>6, FS_Injection
<1>8. IsFiniteSet(newest) /\ newest \in SUBSET A
  BY FS_Subset
<1> DEFINE g == [t \in newest |-> f[t]]
<1>9. g \in Injection(newest, 0..(N - 1))
  <2>1. \A t \in newest : g[t] = Cardinality(After(t)) /\ g[t] \in 0..(N - 1)
    BY <1>1, <1>2
  <2>2. \A s, t \in newest : g[s] = g[t] => s = t
    BY <1>4, <2>1
  <2>3. g = [t \in newest |-> g[t]]
    OBVIOUS
  <2> HIDE DEF g, newest
  <2> QED  BY <2>1, <2>2, <2>3 DEF Injection, IsInjective
<1>10. IsFiniteSet(0..(N - 1)) /\ Cardinality(0..(N - 1)) = N
  BY FS_Interval
<1>11. Cardinality(newest) <= N
  BY <1>9, <1>10, FS_Injection
<1>12. ASSUME A \ newest # {} PROVE Cardinality(newest) = N
  <2>1. PICK t \in A : ~(Cardinality(After(t)) < N)
    BY <1>12
  <2>2. N <= n - 1
    BY <1>1, <1>2, <2>1
  <2>3. ASSUME NEW i \in 0..(N - 1) PROVE \E s \in newest : g[s] = i
    <3>1. i \in 0..(n - 1)
      BY <1>1, <2>2
    <3>2. PICK s \in A : f[s] = i
      BY <1>7, <3>1 DEF Surjection
    <3>3. s \in newest
      BY <3>2
    <3> QED  BY <3>2, <3>3
  <2>4. g \in [newest -> 0..(N - 1)]
    BY <1>9 DEF Injection
  <2> HIDE DEF g, newest
  <2>5. g \in Surjection(newest, 0..(N - 1))
    BY <2>3, <2>4 DEF Surjection
  <2> QED  BY <1>9, <1>10, <2>5, FS_Injection
<1> QED  BY <1>8, <1>11, <1>12 DEF After

\* What is left of an order, and the order when s is seen.
LEMMA OrderLeft ==
  ASSUME NEW pairs, NEW all, TotallyOrders(pairs, all), NEW gone
  PROVE  TotallyOrders({p \in pairs : p[1] \notin gone /\ p[2] \notin gone}, all \ gone)
BY DEF TotallyOrders

LEMMA OrderSeen ==
  ASSUME NEW all, NEW pairs \in SUBSET (all \X all), TotallyOrders(pairs, all), NEW s
  PROVE  /\ TotallyOrders(Seen(pairs, s, all), all \cup {s})
         /\ Seen(pairs, s, all) \subseteq (all \cup {s}) \X (all \cup {s})
<1> DEFINE new == Seen(pairs, s, all)
<1>1. \A x, y \in all \cup {s} :
        <<x, y>> \in new <=> \/ x # s /\ <<x, y>> \in pairs
                             \/ y = s /\ x \in all \ {s}
  BY DEF Seen
<1>2. new \subseteq (all \cup {s}) \X (all \cup {s})
  BY DEF Seen
<1> HIDE DEF new
<1>3. \A x, y \in all : x # s /\ <<x, y>> \in new => y = s \/ <<x, y>> \in pairs
  BY <1>1
<1>4. \A x \in all \cup {s} : <<s, x>> \notin new
  BY <1>1
<1>5. ASSUME NEW t \in all \cup {s} PROVE <<t, t>> \notin new
  <2>1. CASE t = s
    BY <1>4, <2>1
  <2>2. CASE t # s
    BY <1>1, <2>2 DEF TotallyOrders
  <2> QED  BY <2>1, <2>2
<1>6. ASSUME NEW x \in all \cup {s}, NEW y \in all \cup {s}, x # y
      PROVE  <<x, y>> \in new \/ <<y, x>> \in new
  <2>1. CASE x = s \/ y = s
    BY <1>1, <1>6, <2>1
  <2>2. CASE x # s /\ y # s
    <3>1. x \in all /\ y \in all
      BY <2>2
    <3>2. <<x, y>> \in pairs \/ <<y, x>> \in pairs
      BY <1>6, <3>1 DEF TotallyOrders
    <3> QED  BY <1>1, <2>2, <3>2
  <2> QED  BY <2>1, <2>2
<1>7. ASSUME NEW x \in all \cup {s}, NEW y \in all \cup {s}, NEW z \in all \cup {s},
             <<x, y>> \in new, <<y, z>> \in new
      PROVE  <<x, z>> \in new
  <2>1. x # s /\ y # s /\ x \in all /\ y \in all /\ <<x, y>> \in pairs
    BY <1>1, <1>4, <1>7
  <2>2. CASE z = s
    BY <1>1, <2>1, <2>2
  <2>3. CASE z # s
    BY <1>1, <1>7, <2>1, <2>3 DEF TotallyOrders
  <2> QED  BY <2>2, <2>3
<1>8. TotallyOrders(new, all \cup {s})
  BY <1>5, <1>6, <1>7 DEF TotallyOrders
<1> QED  BY <1>2, <1>8 DEF new

\* Together with AInv, an inductive invariant.
OInv == AInv /\ SessionsOrdered /\ SessionsBounded

LEMMA SessionsOfFinite ==
  ASSUME SessionsOrdered, NEW u
  PROVE  /\ IsFiniteSet(SessionsOf(u)) /\ Cardinality(SessionsOf(u)) \in Nat
         /\ SessionsOf(u) \in SUBSET Sessions
<1>1. SessionsOf(u) \in SUBSET Sessions
  BY DEF SessionsOf
<1> QED  BY <1>1, FS_Subset, FS_CardinalityType DEF SessionsOrdered

LEMMA OInit == Init => OInv
<1> SUFFICES ASSUME Init PROVE OInv
  OBVIOUS
<1>1. Sessions = {} /\ later = {}
  BY DEF Init, Sessions
<1>2. SessionsOrdered
  BY <1>1, FS_EmptySet DEF SessionsOrdered, TotallyOrders
<1>3. ASSUME NEW u \in User PROVE Cardinality(SessionsOf(u)) <= MaxSessions
  <2>1. SessionsOf(u) = {}
    BY <1>1 DEF SessionsOf
  <2> QED  BY <2>1, FS_EmptySet, AccountsAssumption
<1> QED  BY <1>2, <1>3, AInit DEF OInv, SessionsBounded

\* Deleting sessions keeps the order of those that are left.
LEMMA DeletionKeepsOrder ==
  ASSUME TypeOK, SessionsOrdered, SessionsBounded, NEW gone,
         sessions' = Without(sessions, gone), later' = Unseen(gone)
  PROVE  SessionsOrdered' /\ SessionsBounded'
<1>1. Sessions' = Sessions \ gone
  BY DEF TypeOK, Sessions, Without
<1>2. /\ later' \subseteq Sessions' \X Sessions'
      /\ TotallyOrders(later', Sessions')
  BY <1>1, OrderLeft DEF SessionsOrdered, Unseen
<1>3. IsFiniteSet(Sessions')
  BY <1>1, FS_Subset DEF SessionsOrdered
<1>4. ASSUME NEW u \in User PROVE Cardinality(SessionsOf(u)') <= MaxSessions
  <2>1. SessionsOf(u)' \in SUBSET SessionsOf(u)
    BY <1>1 DEF SessionsOf, Sessions, Without
  <2>2. IsFiniteSet(SessionsOf(u)) /\ Cardinality(SessionsOf(u)) \in Nat
    BY SessionsOfFinite
  <2>3. IsFiniteSet(SessionsOf(u)') /\ Cardinality(SessionsOf(u)') <= Cardinality(SessionsOf(u))
    BY <2>1, <2>2, FS_Subset
  <2>4. Cardinality(SessionsOf(u)') \in Nat
    BY <2>3, FS_CardinalityType
  <2>5. Cardinality(SessionsOf(u)) <= MaxSessions
    BY DEF SessionsBounded
  <2> QED  BY <2>2, <2>3, <2>4, <2>5, AccountsAssumption
<1> QED  BY <1>2, <1>3, <1>4 DEF SessionsOrdered, SessionsBounded

\* Steps that neither make nor delete a session.
LEMMA SameSessionsKeepOrder ==
  ASSUME SessionsOrdered, SessionsBounded,
         Sessions' = Sessions,
         \A t \in Sessions : sessions'[t].user = sessions[t].user,
         later' = later \/ \E t \in Sessions : later' = Seen(later, t, Sessions)
  PROVE  SessionsOrdered' /\ SessionsBounded'
<1>1. \A u \in User : SessionsOf(u)' = SessionsOf(u)
  BY DEF SessionsOf
<1>2. SessionsBounded'
  BY <1>1 DEF SessionsBounded
<1>3. CASE later' = later
  BY <1>2, <1>3 DEF SessionsOrdered
<1>4. ASSUME NEW t \in Sessions, later' = Seen(later, t, Sessions)
      PROVE  SessionsOrdered'
  <2>1. Sessions \cup {t} = Sessions
    OBVIOUS
  <2>2. later \in SUBSET (Sessions \X Sessions) /\ TotallyOrders(later, Sessions)
    BY DEF SessionsOrdered
  <2>3. /\ TotallyOrders(later', Sessions)
        /\ later' \subseteq Sessions \X Sessions
    BY <1>4, <2>1, <2>2, OrderSeen
  <2> QED  BY <2>3 DEF SessionsOrdered
<1> QED  BY <1>2, <1>3, <1>4

\* What CreateSession leaves of the sessions of the user: with the new one there
\* are at most MaxSessions, and exactly that many if one was evicted.
LEMMA RoomForOne ==
  ASSUME SessionsOrdered, NEW u \in User
  PROVE  LET left == SessionsOf(u) \ (Expired \cup Evicted(u))
         IN  /\ IsFiniteSet(left) /\ Cardinality(left) \in Nat
             /\ Cardinality(left) <= MaxSessions - 1
             /\ Evicted(u) # {} => Cardinality(left) = MaxSessions - 1
<1> DEFINE A == SessionsOf(u) \ Expired
           N == MaxSessions - 1
           newest == {t \in A : Cardinality({s \in A : <<t, s>> \in later}) < N}
<1>1. IsFiniteSet(A) /\ A \in SUBSET Sessions
  BY SessionsOfFinite, FS_Subset
<1>2. TotallyOrders(later, A)
  BY <1>1 DEF SessionsOrdered, TotallyOrders
<1>3. \A t \in A : Cardinality({s \in A : <<t, s>> \in later}) \in Nat
  <2> SUFFICES ASSUME NEW t \in A
               PROVE  Cardinality({s \in A : <<t, s>> \in later}) \in Nat
    OBVIOUS
  <2>1. {s \in A : <<t, s>> \in later} \in SUBSET A
    OBVIOUS
  <2> HIDE DEF A
  <2> QED  BY <1>1, <2>1, FS_Subset, FS_CardinalityType
<1>4. newest = A \ Evicted(u) /\ A \ newest = Evicted(u)
  BY <1>3, AccountsAssumption DEF Evicted
<1>5. SessionsOf(u) \ (Expired \cup Evicted(u)) = newest
  BY <1>4
<1>6. N \in Nat
  BY AccountsAssumption
<1>7. /\ IsFiniteSet(newest) /\ Cardinality(newest) <= N
      /\ A \ newest # {} => Cardinality(newest) = N
  <2> HIDE DEF A, N
  <2> QED  BY <1>1, <1>2, <1>6, NewestCounted
<1> HIDE DEF A, newest
<1> QED  BY <1>4, <1>5, <1>7, FS_CardinalityType

LEMMA CreateSessionCounts ==
  ASSUME OInv, NEW r \in Request, NEW t \in Token, CreateSession(r, t),
         NEW u, u = request[r].user
  PROVE  LET left == SessionsOf(u) \ (Expired \cup Evicted(u))
         IN  /\ u \in User
             /\ SessionsOrdered'
             /\ IsFiniteSet(SessionsOf(u)')
             /\ Cardinality(SessionsOf(u)') = Cardinality(left) + 1
             /\ \A w \in User \ {u} : SessionsOf(w)' \subseteq SessionsOf(w)
<1> DEFINE gone == Expired \cup Evicted(u)
           left == SessionsOf(u) \ gone
           new == [user |-> u, version |-> users[u].auth, cut |-> request[r].cut,
                   expired |-> FALSE]
<1>1. request[r] \in Login
  BY DEF OInv, AInv, TypeOK, CreateSession, Authorised
<1>2. u \in User /\ new \in WebSession
  BY <1>1 DEF OInv, AInv, TypeOK, Account, Login, WebSession
<1>3. new # None /\ new.user = u
  BY <1>2, AccountsAssumption
<1>4. /\ sessions' = [Without(sessions, gone) EXCEPT ![t] = new]
      /\ later' = Seen(Unseen(gone), t, Sessions \ gone)
      /\ sessions[t] = None
  BY DEF CreateSession, Fresh
<1>5. t \notin Sessions /\ gone \subseteq Token
  BY <1>4 DEF Sessions, Expired, Evicted, SessionsOf
<1>6. /\ \A s \in Token : s # t =>
           sessions'[s] = IF s \in gone THEN None ELSE sessions[s]
      /\ sessions'[t] = new
  BY <1>4 DEF Without
<1>7. Sessions' = (Sessions \ gone) \cup {t}
  BY <1>3, <1>6 DEF Sessions
<1>8. SessionsOf(u)' = left \cup {t}
  <2> HIDE DEF new, gone
  <2>1. ASSUME NEW s \in Token
        PROVE  s \in SessionsOf(u)' <=> s \in SessionsOf(u) \ gone \/ s = t
    <3>1. CASE s = t
      BY <1>3, <1>6, <3>1 DEF SessionsOf, Sessions
    <3>2. CASE s # t
      BY <1>6, <3>2 DEF SessionsOf, Sessions
    <3> QED  BY <3>1, <3>2
  <2>2. SessionsOf(u)' \subseteq Token /\ SessionsOf(u) \subseteq Token
    BY DEF SessionsOf, Sessions
  <2> QED  BY <2>1, <2>2
<1>9. \A w \in User \ {u} : SessionsOf(w)' \subseteq SessionsOf(w)
  BY <1>3, <1>5, <1>6, <1>7 DEF SessionsOf, Sessions
<1>10. t \notin left
  BY <1>5 DEF SessionsOf
<1> HIDE DEF new
<1>11. IsFiniteSet(left) /\ Cardinality(left) \in Nat
  BY <1>2, RoomForOne DEF OInv
<1>12. SessionsOrdered'
  <2> DEFINE kept == Sessions \ gone
  <2>1. Unseen(gone) \in SUBSET (kept \X kept) /\ TotallyOrders(Unseen(gone), kept)
    BY OrderLeft DEF OInv, SessionsOrdered, Unseen
  <2>2. IsFiniteSet(kept \cup {t})
    <3>1. IsFiniteSet(Sessions) /\ kept \in SUBSET Sessions
      BY DEF OInv, SessionsOrdered
    <3> HIDE DEF kept
    <3> QED  BY <3>1, FS_Subset, FS_AddElement
  <2> HIDE DEF kept
  <2>3. /\ TotallyOrders(later', kept \cup {t})
        /\ later' \subseteq (kept \cup {t}) \X (kept \cup {t})
    BY <1>4, <2>1, OrderSeen DEF kept
  <2> QED  BY <1>7, <2>2, <2>3 DEF SessionsOrdered, kept
<1> HIDE DEF left
<1>13. /\ IsFiniteSet(SessionsOf(u)')
       /\ Cardinality(SessionsOf(u)') = Cardinality(left) + 1
  BY <1>8, <1>10, <1>11, FS_AddElement
<1> QED  BY <1>2, <1>9, <1>12, <1>13 DEF left

LEMMA CreateSessionKeepsOrder ==
  ASSUME OInv, NEW r \in Request, NEW t \in Token, CreateSession(r, t)
  PROVE  SessionsOrdered' /\ SessionsBounded'
<1>0. PICK u : u = request[r].user
  OBVIOUS
<1> DEFINE left == SessionsOf(u) \ (Expired \cup Evicted(u))
<1>1. /\ u \in User
      /\ SessionsOrdered'
      /\ IsFiniteSet(SessionsOf(u)')
      /\ Cardinality(SessionsOf(u)') = Cardinality(left) + 1
      /\ \A w \in User \ {u} : SessionsOf(w)' \subseteq SessionsOf(w)
  BY <1>0, CreateSessionCounts
<1>2. Cardinality(left) \in Nat /\ Cardinality(left) <= MaxSessions - 1
  BY <1>1, RoomForOne DEF OInv
<1> HIDE DEF left
<1>3. Cardinality(SessionsOf(u)') <= MaxSessions
  BY <1>1, <1>2, AccountsAssumption
<1>4. ASSUME NEW w \in User \ {u} PROVE Cardinality(SessionsOf(w)') <= MaxSessions
  <2>1. SessionsOf(w)' \in SUBSET SessionsOf(w)
    BY <1>1
  <2>2. IsFiniteSet(SessionsOf(w)) /\ Cardinality(SessionsOf(w)) \in Nat
    BY SessionsOfFinite DEF OInv
  <2>3. IsFiniteSet(SessionsOf(w)') /\ Cardinality(SessionsOf(w)') <= Cardinality(SessionsOf(w))
    BY <2>1, <2>2, FS_Subset
  <2>4. Cardinality(SessionsOf(w)') \in Nat
    BY <2>3, FS_CardinalityType
  <2>5. Cardinality(SessionsOf(w)) <= MaxSessions
    BY DEF OInv, SessionsBounded
  <2> QED  BY <2>2, <2>3, <2>4, <2>5, AccountsAssumption
<1>5. \A w \in User : Cardinality(SessionsOf(w)') <= MaxSessions
  BY <1>3, <1>4
<1> QED  BY <1>1, <1>5 DEF SessionsBounded

LEMMA OStep == OInv /\ [Next]_vars => OInv'
<1> SUFFICES ASSUME OInv, [Next]_vars PROVE SessionsOrdered' /\ SessionsBounded'
  BY AStep DEF OInv
<1>1. TypeOK /\ SessionsOrdered /\ SessionsBounded
  BY DEF OInv, AInv
<1>2. ASSUME UNCHANGED <<sessions, later>>
      PROVE  SessionsOrdered' /\ SessionsBounded'
  BY <1>1, <1>2, SameSessionsKeepOrder DEF Sessions
<1>3. ASSUME NEW r \in Request, RequestStep(r)
      PROVE  SessionsOrdered' /\ SessionsBounded'
  <2>1. CASE \E t \in Token : CreateSession(r, t)
    BY <2>1, CreateSessionKeepsOrder
  <2>2. CASE Touch(r)
    <3>1. later' = later \/ \E t \in Sessions : later' = Seen(later, t, Sessions)
      BY <2>2 DEF Touch
    <3>2. sessions' = sessions
      BY <2>2 DEF Touch
    <3> QED  BY <1>1, <3>1, <3>2, SameSessionsKeepOrder DEF Sessions
  <2>3. CASE Logout(r)
    BY <1>1, <2>3, DeletionKeepsOrder DEF Logout
  <2>4. CASE \E u \in User, update \in UserUpdate : UpdateUser(r, u, update)
    <3>1. PICK u \in User, update \in UserUpdate : UpdateUser(r, u, update)
      BY <2>4
    <3>2. \/ UNCHANGED <<sessions, later>>
          \/ /\ sessions' = Without(sessions, SessionsOf(u))
             /\ later' = Unseen(SessionsOf(u))
      BY <3>1 DEF UpdateUser
    <3> QED  BY <1>1, <1>2, <3>2, DeletionKeepsOrder
  <2> QED
    BY <1>2, <1>3, <2>1, <2>2, <2>3, <2>4 DEF RequestStep, BeginLogin, Authorise,
       EndRequest, CreateAppPassword, RevokeAppPassword, CreateUser
<1>4. ASSUME NEW c \in Connection, ConnectionStep(c)
      PROVE  SessionsOrdered' /\ SessionsBounded'
  <2>1. UNCHANGED <<sessions, later>>
    BY <1>4 DEF ConnectionStep, ReadAccount, AcceptPassword, AcceptAppPassword,
       ImapCommand, SmtpMail, SmtpRcpt, SmtpData, SmtpReset, SmtpRefuse,
       TakeEffect, Close
  <2> QED  BY <1>2, <2>1
<1>5. ASSUME NEW t \in Token, Expire(t)
      PROVE  SessionsOrdered' /\ SessionsBounded'
  <2>1. sessions[t] \in WebSession /\ sessions' = [sessions EXCEPT ![t].expired = TRUE]
    BY <1>1, <1>5 DEF Expire, TypeOK, Sessions
  <2>2. [sessions[t] EXCEPT !.expired = TRUE] \in WebSession
    BY <2>1 DEF WebSession
  <2>3. [sessions[t] EXCEPT !.expired = TRUE].user = sessions[t].user
    BY <2>1 DEF WebSession
  <2>4. Sessions' = Sessions /\ \A s \in Sessions : sessions'[s].user = sessions[s].user
    BY <1>1, <1>5, <2>1, <2>2, <2>3, AccountsAssumption DEF Sessions, TypeOK, Expire
  <2> QED  BY <1>1, <1>5, <2>4, SameSessionsKeepOrder DEF Expire
<1>6. CASE DeleteExpiredSessions
  BY <1>1, <1>6, DeletionKeepsOrder DEF DeleteExpiredSessions
<1>7. CASE UNCHANGED vars
  BY <1>2, <1>7 DEF vars
<1> QED  BY <1>3, <1>4, <1>5, <1>6, <1>7 DEF Next

\* A user never has more sessions than allowed, however many logins there are
\* at the same time.
THEOREM SessionsAlwaysBounded == Spec => []SessionsBounded
<1>1. OInv => SessionsBounded  BY DEF OInv
<1> QED  BY <1>1, OInit, OStep, PTL DEF Spec

\* Which steps end a session, and why.
LEMMA EndedFor ==
  ASSUME OInv, Next, NEW u \in User, NEW t \in SessionsOf(u),
         ~sessions[t].expired, sessions'[t] = None
  PROVE  \/ cut'[u] # cut[u]
         \/ \E r \in Request : Logout(r) /\ request[r].token = t
         \/ Cardinality(SessionsOf(u)') = MaxSessions
<1>1. TypeOK /\ t \in Token /\ sessions[t] # None /\ sessions[t].user = u
  BY DEF OInv, AInv, SessionsOf, Sessions
<1>2. sessions' # sessions
  BY <1>1
<1>3. \A c \in Connection : ~ConnectionStep(c)
  BY <1>2 DEF ConnectionStep, ReadAccount, AcceptPassword, AcceptAppPassword,
     ImapCommand, SmtpMail, SmtpRcpt, SmtpData, SmtpReset, SmtpRefuse, TakeEffect, Close
<1>4. ~DeleteExpiredSessions
  BY <1>1 DEF DeleteExpiredSessions, Without, Expired, TypeOK
<1>5. \A s \in Token : ~Expire(s)
  <2> SUFFICES ASSUME NEW s \in Token, Expire(s) PROVE FALSE
    OBVIOUS
  <2>1. sessions[s] \in WebSession /\ sessions' = [sessions EXCEPT ![s].expired = TRUE]
    BY <1>1 DEF Expire, TypeOK, Sessions
  <2>2. [sessions[s] EXCEPT !.expired = TRUE] \in WebSession
    BY <2>1 DEF WebSession
  <2> QED  BY <1>1, <2>1, <2>2, AccountsAssumption DEF TypeOK
<1>6. PICK r \in Request : RequestStep(r)
  BY <1>3, <1>4, <1>5 DEF Next
<1>7. CASE \E s \in Token : CreateSession(r, s)
  <2>1. PICK s \in Token : CreateSession(r, s)
    BY <1>7
  <2>0. PICK w : w = request[r].user
    OBVIOUS
  <2> DEFINE left == SessionsOf(w) \ (Expired \cup Evicted(w))
  <2>2. /\ w \in User
        /\ Cardinality(SessionsOf(w)') = Cardinality(left) + 1
    BY <2>0, <2>1, CreateSessionCounts
  <2>3. t \in Expired \cup Evicted(w)
    <3>1. s # t
      BY <1>1, <2>1 DEF CreateSession, Fresh
    <3>2. sessions'[t] = Without(sessions, Expired \cup Evicted(w))[t]
      BY <1>1, <2>0, <2>1, <3>1 DEF CreateSession, Without
    <3> QED  BY <1>1, <3>2 DEF Without
  <2>4. t \in Evicted(w) /\ w = u
    BY <1>1, <2>3 DEF Expired, Evicted, SessionsOf
  <2>5. Cardinality(left) = MaxSessions - 1
    BY <2>2, <2>4, RoomForOne DEF OInv
  <2> HIDE DEF left
  <2> QED  BY <2>2, <2>4, <2>5, AccountsAssumption
<1>8. CASE Logout(r)
  BY <1>1, <1>8 DEF Logout, Without
<1>9. CASE \E w \in User, update \in UserUpdate : UpdateUser(r, w, update)
  <2>1. PICK w \in User, update \in UserUpdate : UpdateUser(r, w, update)
    BY <1>9
  <2>2. /\ cut' = [cut EXCEPT ![w] = @ + 1]
        /\ sessions' = Without(sessions, SessionsOf(w))
    BY <1>2, <2>1 DEF UpdateUser
  <2>3. w = u
    BY <1>1, <2>2 DEF Without, SessionsOf
  <2>4. cut'[u] = cut[u] + 1 /\ cut[u] \in Nat
    BY <1>1, <2>2, <2>3 DEF TypeOK
  <2> QED  BY <2>4
<1> QED
  BY <1>2, <1>6, <1>7, <1>8, <1>9 DEF RequestStep, BeginLogin, Authorise, Touch,
     EndRequest, CreateAppPassword, RevokeAppPassword, CreateUser

\* A session ends early only by its own logout, by a reset or suspension of its
\* user, or when its user has as many as are allowed.
THEOREM SessionsAlwaysStay == Spec => SessionsStay
<1>1. OInv /\ [Next]_vars =>
        [\A u \in User : \A t \in SessionsOf(u) :
           ~sessions[t].expired /\ sessions'[t] = None =>
             \/ cut'[u] # cut[u]
             \/ \E r \in Request : Logout(r) /\ request[r].token = t
             \/ Cardinality(SessionsOf(u)') = MaxSessions]_vars
  BY EndedFor
<1> QED  BY <1>1, OInit, OStep, PTL DEF Spec, SessionsStay

=============================================================================
