---------------------------- MODULE RoutingProofs ----------------------------
(***************************************************************************)
(* RoutingInv is an inductive invariant of Routing, for any domains,       *)
(* addresses and processes and messages with any number of recipients.     *)
(* The argument: users, aliases and verified domains are only added to, so *)
(* that what a session was told before still holds when the message is     *)
(* stored; the one exception is Initialize, which finds nothing yet.       *)
(***************************************************************************)
EXTENDS Routing, FiniteSetTheorems, TLAPS

-----------------------------------------------------------------------------
(* The directory grows.                                                      *)

DirectoryTypes ==
  /\ domains \in [Domain -> {"absent", "pending", "verified"}]
  /\ mailUsers \in [MailAddress -> {"absent", "active", "suspended"}]
  /\ aliases \in [MailAddress -> AnyAddress]

Grows ==
  /\ Users \subseteq Users'
  /\ \A a \in MailAddress : aliases[a] # NoAddress => aliases'[a] = aliases[a]
  /\ \A d \in Domain : domains[d] = "verified" => domains'[d] = "verified"

DirectoryStep ==
  \/ \E p \in Process, a \in MailAddress : Initialize(p, a)
  \/ AdminStep

LEMMA DirectoryGrows ==
  ASSUME RoutingInv, DirectoryStep
  PROVE  Grows /\ DirectoryTypes'
  <1> USE DEF RoutingInv, RoutingTypeOK, Grows, DirectoryTypes, Users, AnyAddress
  <1>1. ASSUME NEW p \in Process, NEW a \in MailAddress, Initialize(p, a)
        PROVE  Grows /\ DirectoryTypes'
    <2>1. Users = {}
      BY <1>1 DEF Initialize
    <2>2. Users \subseteq Users'
      BY <2>1
    <2>3. \A x \in MailAddress : aliases[x] = NoAddress
      BY <2>1 DEF NothingBefore
    <2>4. \A d \in Domain : domains[d] = "absent"
      BY <2>1 DEF NothingBefore
    <2>5. DirectoryTypes'
      BY <1>1, RoutingAssumption DEF Initialize
    <2> QED
      BY <2>2, <2>3, <2>4, <2>5
  <1>2. ASSUME NEW d \in Domain, CreateDomain(d) \/ VerifyDomain(d)
        PROVE  Grows /\ DirectoryTypes'
    BY <1>2 DEF CreateDomain, VerifyDomain
  <1>3. ASSUME NEW a \in MailAddress, CreateMailUser(a)
        PROVE  Grows /\ DirectoryTypes'
    BY <1>3 DEF CreateMailUser
  <1>4. ASSUME NEW a \in MailAddress, NEW status \in {"active", "suspended"}, SetStatus(a, status)
        PROVE  Grows /\ DirectoryTypes'
    BY <1>4 DEF SetStatus
  <1>5. ASSUME NEW a \in MailAddress, NEW target \in MailAddress, CreateAlias(a, target)
        PROVE  Grows /\ DirectoryTypes'
    BY <1>5 DEF CreateAlias
  <1> QED
    BY <1>1, <1>2, <1>3, <1>4, <1>5 DEF DirectoryStep, AdminStep

\* The first user comes with the domain and the aliases of Initialize.
LEMMA FirstUser ==
  ASSUME RoutingInv, DirectoryStep
  PROVE  NothingBefore' /\ FounderReached' /\ founders' \subseteq MailAddress
  <1> USE DEF RoutingInv, RoutingTypeOK
  <1>1. ASSUME NEW p \in Process, NEW a \in MailAddress, Initialize(p, a)
        PROVE  NothingBefore' /\ FounderReached' /\ founders' \subseteq MailAddress
    <2>1. Users = {} /\ founders' = founders \cup {a}
          /\ mailUsers' = [mailUsers EXCEPT ![a] = "active"]
          /\ aliases' = [r \in MailAddress |->
               IF r \in RoleAddress \ {a} /\ DomainOf[r] = DomainOf[a] THEN a ELSE aliases[r]]
      BY <1>1 DEF Initialize
    <2>2. a \in Users'
      BY <2>1 DEF Users
    <2>3. founders' = {a}
      BY <2>1 DEF NothingBefore
    <2>4. \A r \in RoleAddress \ {a} : DomainOf[r] = DomainOf[a] => aliases'[r] = a
      BY <2>1, RoutingAssumption
    <2>5. NothingBefore'
      BY <2>2 DEF NothingBefore
    <2>6. FounderReached'
      BY <2>2, <2>3, <2>4 DEF FounderReached
    <2> QED
      BY <2>3, <2>5, <2>6
  <1>2. ASSUME AdminStep
        PROVE  NothingBefore' /\ FounderReached' /\ founders' \subseteq MailAddress
    <2>1. founders' = founders
      BY <1>2 DEF AdminStep, CreateDomain, VerifyDomain, CreateMailUser, SetStatus, CreateAlias,
                  Unchanged
    <2>2. Grows
      BY <1>2, DirectoryGrows DEF DirectoryStep
    <2>3. Users # {}
      BY <1>2 DEF AdminStep, CreateDomain, VerifyDomain, CreateMailUser, SetStatus, CreateAlias,
                  NothingBefore
    <2>4. NothingBefore'
      BY <2>2, <2>3 DEF NothingBefore, Grows
    <2>5. FounderReached'
      <3>1. CASE founders = {}
        BY <2>1, <3>1 DEF FounderReached
      <3>2. CASE founders # {}
        <4>1. PICK f \in Users :
                /\ founders = {f}
                /\ \A r \in RoleAddress \ {f} : DomainOf[r] = DomainOf[f] => aliases[r] = f
          BY <3>2 DEF FounderReached
        <4>2. f \in Users' /\ f \in MailAddress /\ f # NoAddress
          BY <2>2, RoutingAssumption DEF Grows, Users
        <4>3. \A r \in RoleAddress \ {f} : DomainOf[r] = DomainOf[f] => aliases'[r] = f
          BY <2>2, <4>1, <4>2, RoutingAssumption DEF Grows
        <4> QED
          BY <2>1, <4>1, <4>2, <4>3 DEF FounderReached
      <3> QED
        BY <3>1, <3>2
    <2> QED
      BY <2>1, <2>4, <2>5
  <1> QED
    BY <1>1, <1>2 DEF DirectoryStep

\* Addresses and domains that were checked stay what they were.
LEMMA CheckedStays ==
  ASSUME RoutingInv, Grows, UNCHANGED <<smtp, send, stored>>
  PROVE  SessionChecked' /\ SenderKnown' /\ StoredByKnown' /\ Provenance'
  <1> USE DEF RoutingInv
  <1>1. ASSUME NEW u \in Users, NEW a, Owns(u, a)
        PROVE  Owns(u, a)'
    BY <1>1, RoutingAssumption DEF Owns, Grows, Users
  <1>2. SessionChecked'
    BY <1>1 DEF SessionChecked, Grows
  <1>3. SenderKnown' /\ StoredByKnown'
    BY DEF SenderKnown, StoredByKnown, Grows
  <1>4. \A a : OwnAddress(a) <=> Owns(stored.user, a)
    BY DEF OwnAddress, Owns
  <1>5. \A a : OwnAddress(a)' <=> Owns(stored.user, a)'
    BY DEF OwnAddress, Owns
  <1>6. stored.via \in {"submission", "web"} =>
          /\ OwnAddress(stored.header)'
          /\ stored.from = NoAddress \/ OwnAddress(stored.from)'
    BY <1>1, <1>4, <1>5 DEF Provenance, StoredByKnown
  <1>7. stored.queued # {} => stored.via # "inbound" /\ Verified(stored.header)'
    <2> SUFFICES ASSUME stored.queued # {}
                 PROVE  stored.via # "inbound" /\ Verified(stored.header)'
      OBVIOUS
    <2>1. stored.via \in {"submission", "web"}
      BY DEF Provenance, StoredByKnown, RoutingTypeOK
    <2>2. stored.header \in MailAddress /\ DomainOf[stored.header] \in Domain
      BY <2>1, RoutingAssumption DEF Provenance, OwnAddress
    <2>3. Verified(stored.header)
      BY DEF Provenance
    <2>4. Verified(stored.header)'
      BY <2>2, <2>3 DEF Verified, Grows
    <2> QED
      BY <2>4 DEF Provenance
  <1>8. Provenance'
    BY <1>6, <1>7 DEF Provenance
  <1> QED
    BY <1>2, <1>3, <1>8

LEMMA DirectoryKeepsInv ==
  ASSUME RoutingInv, DirectoryStep
  PROVE  RoutingInv'
  <1>1. Grows /\ DirectoryTypes'
    BY DirectoryGrows
  <1>2. NothingBefore' /\ FounderReached' /\ founders' \subseteq MailAddress
    BY FirstUser
  <1>3. UNCHANGED <<smtp, send, stored>> /\ setup' \in [Process -> {"idle", "counted"}]
    BY DEF DirectoryStep, AdminStep, Initialize, CreateDomain, VerifyDomain, CreateMailUser,
           SetStatus, CreateAlias, Unchanged, RoutingInv, RoutingTypeOK
  <1>4. SessionChecked' /\ SenderKnown' /\ StoredByKnown' /\ Provenance'
    BY <1>1, <1>3, CheckedStays
  <1>5. RoutingTypeOK'
    BY <1>1, <1>2, <1>3 DEF RoutingInv, RoutingTypeOK, DirectoryTypes
  <1> QED
    BY <1>2, <1>4, <1>5 DEF RoutingInv

-----------------------------------------------------------------------------
(* Steps that leave the directory alone.                                     *)

SameDirectory == UNCHANGED <<domains, mailUsers, aliases, founders>>

LEMMA DirectoryStays ==
  ASSUME RoutingInv, SameDirectory
  PROVE  /\ DirectoryTypes' /\ founders' \subseteq MailAddress
         /\ NothingBefore' /\ FounderReached' /\ Users' = Users
         /\ \A u, a : Owns(u, a)' <=> Owns(u, a)
         /\ \A a : Verified(a)' <=> Verified(a)
  BY DEF RoutingInv, RoutingTypeOK, SameDirectory, DirectoryTypes, NothingBefore, FounderReached,
         Users, Owns, Verified

LEMMA SetupKeepsInv ==
  ASSUME RoutingInv, NEW p \in Process, BeginSetup(p) \/ SetupFails(p)
  PROVE  RoutingInv'
  <1>1. SameDirectory /\ UNCHANGED <<smtp, send, stored>>
    BY DEF BeginSetup, SetupFails, SameDirectory
  <1>2. setup' \in [Process -> {"idle", "counted"}]
    BY DEF BeginSetup, SetupFails, RoutingInv, RoutingTypeOK
  <1>3. RoutingTypeOK'
    BY <1>1, <1>2 DEF RoutingInv, RoutingTypeOK, SameDirectory
  <1>4. Grows
    BY <1>1 DEF Grows, SameDirectory, Users
  <1>5. SessionChecked' /\ SenderKnown' /\ StoredByKnown' /\ Provenance'
    BY <1>1, <1>4, CheckedStays
  <1> QED
    BY <1>1, <1>3, <1>5, DirectoryStays DEF RoutingInv

\* What a session is made of.
LEMMA SessionShape ==
  ASSUME NEW s \in Sessions
  PROVE  /\ s.at \in {"none", "mail", "rcpt", "data"} /\ s.user \in AnyAddress
         /\ s.from \in AnyAddress /\ s.rcpts \in Seq(Received)
         /\ s = Session(s.at, s.user, s.from, s.rcpts)
  BY DEF Sessions, Session

LEMMA EmptyRcpts == <<>> \in Seq(Received) /\ DOMAIN <<>> = {}
  OBVIOUS

\* A session that keeps its user, and whose sender and recipients pass the checks.
LEMMA SessionKeepsInv ==
  ASSUME RoutingInv, KeepTheRest,
         NEW at \in {"none", "mail", "rcpt", "data"}, NEW user \in AnyAddress,
         NEW from \in AnyAddress, NEW rcpts \in Seq(Received),
         smtp' = Session(at, user, from, rcpts),
         user # NoAddress => user \in Users /\ (from # NoAddress => Owns(user, from)),
         user = NoAddress => \A i \in DOMAIN rcpts : rcpts[i].user # NoAddress,
         stored' = stored \/ (StoredByKnown' /\ Provenance' /\
                              stored'.via \in {"none", "inbound", "submission", "web"})
  PROVE  RoutingInv'
  <1>1. SameDirectory /\ setup' = setup /\ send' = send
    BY DEF KeepTheRest, SameDirectory
  <1>3. smtp' \in Sessions
    BY DEF Sessions, Session
  <1>4. stored'.via \in {"none", "inbound", "submission", "web"}
    BY DEF RoutingInv, RoutingTypeOK
  <1>5. RoutingTypeOK'
    BY <1>1, <1>3, <1>4 DEF RoutingInv, RoutingTypeOK, SameDirectory
  <1>6. SessionChecked'
    BY <1>1, DirectoryStays DEF SessionChecked, Session
  <1>7. SenderKnown'
    BY <1>1, DirectoryStays DEF RoutingInv, SenderKnown
  <1>8. StoredByKnown' /\ Provenance'
    <2>1. CASE stored' = stored
      <3>1. \A a : OwnAddress(a)' <=> OwnAddress(a)
        BY <1>1, <2>1 DEF OwnAddress, SameDirectory
      <3> QED
        BY <1>1, <2>1, <3>1, DirectoryStays DEF RoutingInv, StoredByKnown, Provenance
    <2>2. CASE stored' # stored
      BY <2>2
    <2> QED
      BY <2>1, <2>2
  <1> QED
    BY <1>1, <1>5, <1>6, <1>7, <1>8, DirectoryStays DEF RoutingInv

LEMMA AllowedOwns ==
  ASSUME NEW u \in AnyAddress, NEW a \in MailAddress, FromAllowed(u, a)
  PROVE  Owns(u, a) /\ Verified(a)
  BY DEF FromAllowed, Owns

\* Who is active is a user.
LEMMA ActiveIsUser ==
  ASSUME NEW u \in AnyAddress, u # NoAddress, ActiveUser(u)
  PROVE  u \in Users
  BY DEF ActiveUser, Users, AnyAddress

LEMMA CommandKeepsInv ==
  ASSUME RoutingInv,
         \/ \E u \in AnyAddress : Connect(u) \/ Mail(u)
         \/ MailRefused \/ Data \/ ResetSession \/ Disconnect
  PROVE  RoutingInv'
  <1> USE DEF RoutingInv
  <1>1. smtp \in Sessions /\ SessionChecked /\ NoAddress \in AnyAddress
    BY DEF RoutingTypeOK, AnyAddress
  <1>2. ASSUME NEW u \in AnyAddress, Connect(u)
        PROVE  RoutingInv'
    <2>1. smtp' = Session("mail", u, NoAddress, <<>>)
      BY <1>2 DEF Connect, NoSession
    <2>2. u # NoAddress => u \in Users
      BY <1>2, ActiveIsUser DEF Connect
    <2> QED
      BY <1>1, <1>2, <2>1, <2>2, EmptyRcpts, SessionKeepsInv DEF Connect
  <1>3. ASSUME NEW from \in AnyAddress, Mail(from)
        PROVE  RoutingInv'
    <2>1. smtp' = Session("rcpt", smtp.user, from, <<>>)
          /\ smtp.user \in AnyAddress
      BY <1>1, <1>3, EmptyRcpts, SessionShape DEF Mail
    <2>2. smtp.user # NoAddress => smtp.user \in Users /\ Owns(smtp.user, from)
      <3>1. smtp.user # NoAddress => from \in MailAddress /\ FromAllowed(smtp.user, from)
        BY <1>3 DEF Mail, AnyAddress
      <3> QED
        BY <1>1, <2>1, <3>1, AllowedOwns DEF SessionChecked
    <2> QED
      BY <1>3, <2>1, <2>2, EmptyRcpts, SessionKeepsInv DEF Mail
  <1>4. CASE MailRefused
    <2>1. smtp' = Session(smtp.at, smtp.user, NoAddress, <<>>)
          /\ smtp.user \in AnyAddress /\ smtp.at \in {"none", "mail", "rcpt", "data"}
      BY <1>1, <1>4, EmptyRcpts, SessionShape DEF MailRefused
    <2> QED
      BY <1>1, <1>4, <2>1, EmptyRcpts, SessionKeepsInv DEF MailRefused, SessionChecked
  <1>5. CASE Data
    <2>1. smtp' = Session("data", smtp.user, smtp.from, smtp.rcpts)
          /\ smtp.user \in AnyAddress /\ smtp.from \in AnyAddress /\ smtp.rcpts \in Seq(Received)
      BY <1>1, <1>5, EmptyRcpts, SessionShape DEF Data
    <2> QED
      BY <1>1, <1>5, <2>1, SessionKeepsInv DEF Data, SessionChecked
  <1>6. CASE ResetSession
    <2>1. smtp' = Session("mail", smtp.user, NoAddress, <<>>)
          /\ smtp.user \in AnyAddress
      BY <1>1, <1>6, EmptyRcpts, SessionShape DEF ResetSession
    <2> QED
      BY <1>1, <1>6, <2>1, EmptyRcpts, SessionKeepsInv DEF ResetSession, SessionChecked
  <1>7. CASE Disconnect
    <2>1. smtp' = Session("none", NoAddress, NoAddress, <<>>)
      BY <1>7 DEF Disconnect, NoSession
    <2> QED
      BY <1>1, <1>7, <2>1, EmptyRcpts, SessionKeepsInv DEF Disconnect
  <1> QED
    BY <1>2, <1>3, <1>4, <1>5, <1>6, <1>7

\* On port 25 every recipient was found here.
LEMMA RcptKeepsInv ==
  ASSUME RoutingInv, NEW to \in MailAddress, Rcpt(to)
  PROVE  RoutingInv'
  <1> DEFINE user == IF Verified(to) THEN ResolveRecipient(to) ELSE NoAddress
             r == [address |-> to, user |-> user]
  <1>1. smtp \in Sessions /\ SessionChecked
    BY DEF RoutingInv, RoutingTypeOK
  <1>2. user \in AnyAddress
    BY DEF RoutingInv, RoutingTypeOK, ResolveRecipient, AnyAddress
  <1>3. r \in Received
    BY <1>2 DEF Received
  <1>4. /\ smtp.user = NoAddress => user # NoAddress
        /\ smtp' = smtp \/ smtp' = Session("rcpt", smtp.user, smtp.from, Append(smtp.rcpts, r))
        /\ KeepTheRest /\ stored' = stored
    BY DEF Rcpt
  <1> HIDE DEF user
  <1>5. /\ smtp.at \in {"none", "mail", "rcpt", "data"} /\ smtp.user \in AnyAddress
        /\ smtp.from \in AnyAddress /\ smtp.rcpts \in Seq(Received)
        /\ smtp = Session(smtp.at, smtp.user, smtp.from, smtp.rcpts)
    BY <1>1, SessionShape
  <1>6. CASE smtp' = smtp
    BY <1>1, <1>4, <1>5, <1>6, SessionKeepsInv DEF SessionChecked
  <1>7. CASE smtp' = Session("rcpt", smtp.user, smtp.from, Append(smtp.rcpts, r))
    <2> DEFINE rcpts == Append(smtp.rcpts, r)
    <2>1. rcpts \in Seq(Received)
      BY <1>3, <1>5
    <2>2. smtp' = Session("rcpt", smtp.user, smtp.from, rcpts)
      BY <1>7
    <2>3. \A i \in DOMAIN rcpts : rcpts[i] = r \/ (i \in DOMAIN smtp.rcpts /\ rcpts[i] = smtp.rcpts[i])
      BY <1>3, <1>5
    <2>4. r.user = user
      OBVIOUS
    <2> HIDE DEF rcpts, r
    <2>5. smtp.user = NoAddress => \A i \in DOMAIN rcpts : rcpts[i].user # NoAddress
      BY <1>1, <1>4, <2>3, <2>4 DEF SessionChecked
    <2> QED
      BY <1>1, <1>4, <1>5, <2>1, <2>2, <2>5, SessionKeepsInv DEF SessionChecked
  <1> QED
    BY <1>4, <1>6, <1>7

\* What DATA stores was allowed at MAIL and at RCPT.
LEMMA StoreSmtpKeepsInv ==
  ASSUME RoutingInv, NEW header \in AnyAddress, StoreSmtp(header)
  PROVE  RoutingInv'
  <1>1. smtp \in Sessions /\ SessionChecked /\ NoAddress \in AnyAddress
    BY DEF RoutingInv, RoutingTypeOK, AnyAddress
  <1>2. smtp' = Session("mail", smtp.user, NoAddress, <<>>)
        /\ smtp.user \in AnyAddress /\ KeepTheRest
    BY <1>1, EmptyRcpts, SessionShape DEF StoreSmtp
  <1>3. /\ stored'.via = (IF smtp.user = NoAddress THEN "inbound" ELSE "submission")
        /\ stored'.user = smtp.user /\ stored'.from = smtp.from /\ stored'.header = header
        /\ stored'.queued = Remote(smtp.rcpts)
        /\ HeaderAllowed(header)
    BY DEF StoreSmtp
  <1>4. SameDirectory
    BY <1>2 DEF KeepTheRest, SameDirectory
  <1>5. /\ OwnAddress(stored.header)' <=> Owns(smtp.user, header)
        /\ OwnAddress(stored.from)' <=> Owns(smtp.user, smtp.from)
        /\ Verified(stored.header)' <=> Verified(header)
    BY <1>3, <1>4 DEF OwnAddress, Owns, Verified, SameDirectory
  <1>6. smtp.user = NoAddress => Remote(smtp.rcpts) = {}
    BY <1>1 DEF SessionChecked, Remote
  <1>7. smtp.user # NoAddress => Owns(smtp.user, header) /\ Verified(header)
    <2>1. smtp.user # NoAddress => header \in MailAddress /\ FromAllowed(smtp.user, header)
      BY <1>3 DEF HeaderAllowed, AnyAddress
    <2> QED
      BY <1>2, <2>1, AllowedOwns
  <1>8. StoredByKnown'
    BY <1>1, <1>3, <1>4, DirectoryStays DEF StoredByKnown, SessionChecked
  <1>9. Provenance'
    <2>1. stored'.via \in {"submission", "web"} =>
            OwnAddress(stored.header)' /\ (stored'.from = NoAddress \/ OwnAddress(stored.from)')
      BY <1>1, <1>3, <1>5, <1>7 DEF SessionChecked
    <2>2. stored'.queued # {} => stored'.via # "inbound" /\ Verified(stored.header)'
      BY <1>3, <1>5, <1>6, <1>7
    <2> QED
      BY <2>1, <2>2 DEF Provenance
  <1>10. stored'.via \in {"none", "inbound", "submission", "web"}
    BY <1>3
  <1> QED
    BY <1>1, <1>2, <1>8, <1>9, <1>10, EmptyRcpts, SessionKeepsInv DEF SessionChecked

-----------------------------------------------------------------------------
(* Sending from the web.                                                     *)

LEMMA SendKeepsInv ==
  ASSUME RoutingInv,
         \/ \E u \in MailAddress, to \in Lists : BeginSend(u, to)
         \/ ResolveNext \/ SendFails
  PROVE  RoutingInv'
  <1> USE DEF RoutingInv
  <1>1. SameDirectory /\ setup' = setup /\ smtp' = smtp /\ stored' = stored
    BY DEF BeginSend, ResolveNext, SendFails, KeepAllButSend, SameDirectory
  <1>2. /\ send'.at \in {"none", "resolve"} /\ send'.user \in AnyAddress
        /\ send'.at = "resolve" => send'.user \in Users
    <2>1. ASSUME NEW u \in MailAddress, NEW to \in Lists, BeginSend(u, to)
          PROVE  send'.at = "resolve" /\ send'.user = u /\ u \in Users
      BY <2>1, ActiveIsUser, RoutingAssumption DEF BeginSend, NoSend, AnyAddress
    <2>2. CASE ResolveNext
      <3>1. send.at = "resolve" /\ send.user \in Users
        BY <2>2 DEF ResolveNext, SenderKnown
      <3>2. send'.at = "resolve" /\ send'.user = send.user
        BY <2>2 DEF ResolveNext
      <3> QED
        BY <1>1, <3>1, <3>2, DirectoryStays DEF Users, AnyAddress
    <2>3. CASE SendFails
      BY <2>3 DEF SendFails, NoSend, AnyAddress
    <2> QED
      BY <1>1, <2>1, <2>2, <2>3, DirectoryStays DEF Users, AnyAddress
  <1>3. RoutingTypeOK'
    BY <1>1, <1>2 DEF RoutingTypeOK, SameDirectory
  <1>4. SenderKnown'
    BY <1>1, <1>2, DirectoryStays DEF SenderKnown
  <1>5. SessionChecked' /\ StoredByKnown' /\ Provenance'
    <2>1. /\ OwnAddress(stored.header)' <=> OwnAddress(stored.header)
          /\ OwnAddress(stored.from)' <=> OwnAddress(stored.from)
          /\ Verified(stored.header)' <=> Verified(stored.header)
      BY <1>1 DEF OwnAddress, Verified, SameDirectory
    <2> QED
      BY <1>1, <2>1, DirectoryStays DEF SessionChecked, StoredByKnown, Provenance
  <1> QED
    BY <1>1, <1>3, <1>4, <1>5, DirectoryStays

LEMMA StoreSendKeepsInv ==
  ASSUME RoutingInv, StoreSend
  PROVE  RoutingInv'
  <1> USE DEF RoutingInv
  <1>1. SameDirectory /\ setup' = setup /\ smtp' = smtp /\ send' = NoSend
    BY DEF StoreSend, KeepAllButSend, SameDirectory
  <1>2. /\ stored'.via = "web" /\ stored'.user = send.user /\ stored'.header = send.user
        /\ stored'.from = send.user /\ stored'.queued = send.queued
        /\ send.queued # {} => Verified(send.user)
    BY DEF StoreSend
  <1>3. send.user \in Users /\ send.user \in MailAddress
    BY DEF StoreSend, SenderKnown, Users
  <1>4. RoutingTypeOK' /\ SenderKnown'
    BY <1>1, <1>2 DEF RoutingTypeOK, SenderKnown, NoSend, SameDirectory, AnyAddress
  <1>5. StoredByKnown'
    BY <1>1, <1>2, <1>3, DirectoryStays DEF StoredByKnown
  <1>6. Provenance'
    <2>1. OwnAddress(stored.header)' /\ OwnAddress(stored.from)'
      BY <1>2, <1>3 DEF OwnAddress
    <2>2. Verified(stored.header)' <=> Verified(send.user)
      BY <1>1, <1>2 DEF Verified, SameDirectory
    <2> QED
      BY <1>2, <2>1, <2>2 DEF Provenance
  <1>7. SessionChecked'
    BY <1>1, DirectoryStays DEF SessionChecked
  <1> QED
    BY <1>1, <1>4, <1>5, <1>6, <1>7, DirectoryStays

-----------------------------------------------------------------------------
(* The theorems.                                                             *)

LEMMA RoutingInvInit == RoutingInit => RoutingInv
  <1> SUFFICES ASSUME RoutingInit
               PROVE  RoutingInv
    OBVIOUS
  <1> USE DEF RoutingInit, NoSession, Session, NoSend, NothingStored
  <1>1. smtp \in Sessions
    BY EmptyRcpts DEF Sessions, Received, AnyAddress
  <1>2. RoutingTypeOK
    BY <1>1 DEF RoutingTypeOK, AnyAddress
  <1>3. NothingBefore /\ FounderReached
    BY DEF NothingBefore, FounderReached
  <1>4. SessionChecked
    BY EmptyRcpts DEF SessionChecked
  <1>5. SenderKnown /\ StoredByKnown /\ Provenance
    BY DEF SenderKnown, StoredByKnown, Provenance
  <1> QED
    BY <1>2, <1>3, <1>4, <1>5 DEF RoutingInv

LEMMA RoutingInvStep == RoutingInv /\ [RoutingNext]_routingVars => RoutingInv'
  <1> SUFFICES ASSUME RoutingInv, [RoutingNext]_routingVars
               PROVE  RoutingInv'
    OBVIOUS
  <1>1. CASE DirectoryStep
    BY <1>1, DirectoryKeepsInv
  <1>2. CASE \E p \in Process : BeginSetup(p) \/ SetupFails(p)
    BY <1>2, SetupKeepsInv
  <1>3. CASE \/ \E u \in AnyAddress : Connect(u) \/ Mail(u)
             \/ MailRefused \/ Data \/ ResetSession \/ Disconnect
    BY <1>3, CommandKeepsInv
  <1>4. CASE \E u \in AnyAddress : StoreSmtp(u)
    BY <1>4, StoreSmtpKeepsInv
  <1>5. CASE \E a \in MailAddress : Rcpt(a)
    BY <1>5, RcptKeepsInv
  <1>6. CASE \/ \E u \in MailAddress, to \in Lists : BeginSend(u, to)
             \/ ResolveNext \/ SendFails
    BY <1>6, SendKeepsInv
  <1>7. CASE StoreSend
    BY <1>7, StoreSendKeepsInv
  <1>8. CASE UNCHANGED routingVars
    BY <1>8 DEF routingVars, RoutingInv, RoutingTypeOK, NothingBefore, FounderReached,
                SessionChecked, SenderKnown, StoredByKnown, Provenance, Users, Owns, OwnAddress,
                Verified
  <1> QED
    BY <1>1, <1>2, <1>3, <1>4, <1>5, <1>6, <1>7, <1>8 DEF RoutingNext, DirectoryStep, AnyAddress

\* RoutingInv holds in every state of every behaviour of the directory and its users.
THEOREM RoutingAlways == RoutingSpec => []RoutingInv
  BY RoutingInvInit, RoutingInvStep, PTL DEF RoutingSpec

\* However many requests and processes try, one setup succeeds (Initialize).
THEOREM AlwaysOneSetup == RoutingSpec => []OneSetup
  <1>1. RoutingInv => OneSetup
    BY FS_EmptySet, FS_Singleton DEF RoutingInv, FounderReached, OneSetup
  <1> QED
    BY <1>1, RoutingAlways, PTL

\* Messages carry the addresses of who sent them, and leave only from verified
\* domains, by every way in and for any number of domains, aliases and recipients.
THEOREM AlwaysProvenance == RoutingSpec => []Provenance
  <1>1. RoutingInv => Provenance
    BY DEF RoutingInv
  <1> QED
    BY <1>1, RoutingAlways, PTL

\* The role addresses of the first domain reach somebody while the first
\* administrator is active.
THEOREM RolesAlwaysReached == RoutingSpec => []RolesReached
  <1>1. ASSUME RoutingInv
        PROVE  RolesReached
    <2> SUFFICES ASSUME NEW f \in founders, NEW r \in RoleAddress,
                        DomainOf[r] = DomainOf[f], ActiveUser(f)
                 PROVE  ResolveRecipient(r) # NoAddress
      BY DEF RolesReached
    <2>1. f \in MailAddress /\ f # NoAddress /\ r \in MailAddress /\ r # NoAddress
      BY <1>1, RoutingAssumption DEF RoutingInv, RoutingTypeOK
    <2>2. r = f \/ aliases[r] = f
      BY <1>1 DEF RoutingInv, FounderReached
    <2> QED
      BY <2>1, <2>2 DEF ResolveRecipient
  <1> QED
    BY <1>1, RoutingAlways, PTL

=============================================================================
