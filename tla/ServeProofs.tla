----------------------------- MODULE ServeProofs -----------------------------
(***************************************************************************)
(* Proofs about Serve and Backup: whichever endpoints are configured and   *)
(* however the process comes to its end, nothing is left that listens, and *)
(* the failure of an accept loop is not lost on its way to serve; and a    *)
(* backup publishes a whole snapshot under a name that was free.           *)
(***************************************************************************)
EXTENDS Serve, Backup, TLAPS

-----------------------------------------------------------------------------
(* Serve: the endpoints and their order.                                     *)

LEMMA ListensFacts ==
  /\ DOMAIN Listens = Starting
  /\ Listens["web"] = <<"web">> /\ Listens["redirect"] = <<"redirect">>
  /\ Listens["smtp"] = <<"smtp", "submission", "smtps">>
  /\ Listens["imap"] = <<"imap", "imaps">>
  BY DEF Listens, Starting

LEMMA OwnedFacts ==
  /\ Owned("smtp") = {"smtp", "submission", "smtps"} \cap Configured
  /\ Owned("imap") = {"imap", "imaps"} \cap Configured
  BY ListensFacts DEF Owned

LEMMA ServiceFacts ==
  ASSUME NEW e \in Owned("smtp") \cup Owned("imap")
  PROVE  ServiceOf(e) \in MailService /\ e \in Owned(ServiceOf(e)) /\ e \in Endpoint
         /\ \A s \in MailService : e \in Owned(s) => s = ServiceOf(e)
  BY OwnedFacts DEF ServiceOf, MailService, Endpoint

LEMMA DueFacts ==
  ASSUME NEW s \in Starting, Unbound(s) # {}
  PROVE  /\ Due(s) \in Endpoint
         /\ s \in MailService => Due(s) \in Owned(s)
         /\ s \notin MailService => Due(s) \in Web
  <1>1. Unbound(s) \subseteq {1, 2, 3}
    BY ListensFacts DEF Unbound, Starting
  <1>2. \E i \in Unbound(s) : \A j \in Unbound(s) : i <= j
    BY <1>1
  <1>3. PICK i \in Unbound(s) : Due(s) = Listens[s][i]
    BY <1>2 DEF Due
  <1>4. Listens[s][i] \in Configured /\ i \in DOMAIN Listens[s]
    BY <1>3 DEF Unbound
  <1>5. s \in MailService => Due(s) \in Owned(s)
    BY <1>3, <1>4 DEF Owned
  <1>6. s \notin MailService => Due(s) \in Web
    BY <1>3, <1>4, ListensFacts DEF Starting, MailService, Web
  <1>7. Due(s) \in Endpoint
    BY <1>3, <1>4, ServeAssumption
  <1> QED
    BY <1>5, <1>6, <1>7

LEMMA WebEndpoints == Web \subseteq Endpoint
  BY DEF Web, Endpoint

\* A channel with room for another error, or one to be taken from.
LEMMA Channels ==
  /\ 0 \in 0..ErrChRoom /\ 0 \in 0..3
  /\ \A n \in 0..ErrChRoom : n < ErrChRoom => n + 1 \in 0..ErrChRoom /\ n + 1 > 0 /\ n + 1 # 0
  /\ \A n \in 0..ErrChRoom : n > 0 => n - 1 \in 0..ErrChRoom
  /\ \A n \in 0..3 : n > 0 => n - 1 \in 0..3
  /\ \A n \in 0..3, room \in {2, 3} :
       (IF n < room THEN n + 1 ELSE n) \in 0..3 /\ (IF n < room THEN n + 1 ELSE n) > 0
  BY DEF ErrChRoom

LEMMA ServeInvInit == ServeInit => ServeInv
  <1> SUFFICES ASSUME ServeInit
               PROVE  ServeInv
    OBVIOUS
  <1> USE DEF ServeInit
  <1>1. /\ failures \in [MailService -> 0..3] /\ errCh \in 0..ErrChRoom
    BY Channels
  <1>2. /\ stage = "prepare" /\ started = {} /\ lost = {} /\ exit = "none"
        /\ \A e \in Endpoint : listener[e] = "closed" /\ acceptor[e] = "none"
        /\ \A s \in MailService : forwarder[s] = "none"
        /\ cancelled = FALSE /\ signalled = FALSE
    OBVIOUS
  <1>3. /\ listener \in [Endpoint -> {"closed", "bound"}]
        /\ acceptor \in [Endpoint -> {"none", "accepting", "reporting", "ended"}]
        /\ forwarder \in [MailService -> {"none", "waiting", "sending", "ended"}]
    OBVIOUS
  <1> HIDE DEF ServeInit
  <1>4. ServeTypeOK
    BY <1>1, <1>2, <1>3 DEF ServeTypeOK
  <1>5. BoundByOwner /\ NothingListens
    BY <1>2 DEF BoundByOwner, NothingListens
  <1>6. NotLaunched
    BY <1>2, OwnedFacts DEF NotLaunched, Web, Endpoint
  <1>7. LostByLoops /\ Reported
    BY <1>2 DEF LostByLoops, Reported
  <1> QED
    BY <1>4, <1>5, <1>6, <1>7 DEF ServeInv

-----------------------------------------------------------------------------
(* Serve: the steps of the start.                                            *)

LEMMA PrepareKeepsInv ==
  ASSUME ServeInv, NEW ok \in BOOLEAN, Prepare(ok)
  PROVE  ServeInv'
  <1> USE DEF ServeInv, Prepare, goroutines
  <1>1. ServeTypeOK'
    BY DEF ServeTypeOK, Starting
  <1>2. BoundByOwner' /\ NothingListens'
    BY DEF BoundByOwner, NothingListens, MailService
  <1>3. NotLaunched' /\ LostByLoops' /\ Reported'
    BY DEF NotLaunched, LostByLoops, Reported, Early, Starting
  <1> QED
    BY <1>1, <1>2, <1>3

LEMMA BindKeepsInv ==
  ASSUME ServeInv, Bind
  PROVE  ServeInv'
  <1> USE DEF ServeInv, Bind, goroutines
  <1>1. /\ Due(stage) \in Endpoint
        /\ stage \in MailService => Due(stage) \in Owned(stage)
        /\ stage \notin MailService => Due(stage) \in Web
    BY DueFacts
  <1>2. ServeTypeOK'
    BY <1>1 DEF ServeTypeOK
  <1>3. BoundByOwner'
    BY <1>1 DEF BoundByOwner, ServeTypeOK
  <1>4. NothingListens'
    BY DEF NothingListens, Starting
  <1>5. NotLaunched' /\ LostByLoops' /\ Reported'
    BY DEF NotLaunched, LostByLoops, Reported
  <1> QED
    BY <1>2, <1>3, <1>4, <1>5

LEMMA BindFailsKeepsInv ==
  ASSUME ServeInv, BindFails
  PROVE  ServeInv'
  <1> USE DEF ServeInv, BindFails
  <1>1. Due(stage) \in Endpoint
    BY DueFacts
  <1>2. ServeTypeOK'
    BY <1>1 DEF ServeTypeOK, Starting
  <1>3. BoundByOwner'
    BY DEF BoundByOwner, ServeTypeOK, MailService
  <1>4. NothingListens'
    BY DEF NothingListens
  <1>5. NotLaunched' /\ LostByLoops' /\ Reported'
    BY DEF NotLaunched, LostByLoops, Reported, Early, Starting
  <1> QED
    BY <1>2, <1>3, <1>4, <1>5

LEMMA StartAcceptingKeepsInv ==
  ASSUME ServeInv, StartAccepting
  PROVE  ServeInv'
  <1> USE DEF ServeInv, StartAccepting, goroutines
  <1>1. After[stage] \in (Starting \ {"web"}) \cup {"launch"}
    BY DEF After, Starting
  <1>2. ServeTypeOK'
    BY <1>1 DEF ServeTypeOK
  <1>3. BoundByOwner'
    BY DEF BoundByOwner
  <1>4. NothingListens'
    BY <1>1 DEF NothingListens, Starting
  <1>5. NotLaunched'
    BY <1>1, OwnedFacts DEF NotLaunched, Early, ServeTypeOK, Web, MailService, Endpoint
  <1>6. LostByLoops' /\ Reported'
    BY <1>1 DEF LostByLoops, Reported, Early, Starting
  <1> QED
    BY <1>2, <1>3, <1>4, <1>5, <1>6

LEMMA LaunchKeepsInv ==
  ASSUME ServeInv, Launch
  PROVE  ServeInv'
  <1> USE DEF ServeInv, Launch
  <1>1. ServeTypeOK'
    BY DEF ServeTypeOK
  <1>2. BoundByOwner' /\ NothingListens'
    BY DEF BoundByOwner, NothingListens, MailService
  <1>3. NotLaunched' /\ LostByLoops'
    BY DEF NotLaunched, LostByLoops, Early, Starting
  <1>4. Reported'
    <2>1. stage' = "running" /\ stage' \notin Early /\ stage \in Early
      BY DEF Early, Starting
    <2>2. \A e \in Web : e \notin lost'
      BY <2>1 DEF NotLaunched
    <2>3. \A s \in MailService : Owned(s) # {} => forwarder'[s] = "waiting"
      OBVIOUS
    <2>4. \A s \in MailService : lost' \cap Owned(s) # {} => failures'[s] > 0
      BY <2>1 DEF Reported
    <2> QED
      BY <2>1, <2>2, <2>3, <2>4 DEF Reported
  <1> QED
    BY <1>1, <1>2, <1>3, <1>4

-----------------------------------------------------------------------------
(* Serve: the goroutines.                                                    *)

\* What only moves goroutines keeps the parts about listeners, if those that it
\* changes are closed.
LEMMA GoroutinesKeepBound ==
  ASSUME BoundByOwner, NothingListens, ServeTypeOK, stage' = stage, started' = started,
         \A e \in Endpoint : listener'[e] \in {listener[e], "closed"}
  PROVE  BoundByOwner' /\ NothingListens'
  <1>1. BoundByOwner'
    BY DEF BoundByOwner
  <1>2. NothingListens'
    BY DEF NothingListens
  <1> QED
    BY <1>1, <1>2

LEMMA WebAcceptFailsKeepsInv ==
  ASSUME ServeInv, NEW e \in Endpoint, WebAcceptFails(e)
  PROVE  ServeInv'
  <1> USE DEF ServeInv, WebAcceptFails, KeepMain
  <1>1. ServeTypeOK'
    BY DEF ServeTypeOK
  <1>2. BoundByOwner' /\ NothingListens'
    BY GoroutinesKeepBound DEF ServeTypeOK
  <1>3. stage \notin Early
    BY DEF NotLaunched, Web
  <1>4. NotLaunched' /\ LostByLoops'
    BY <1>3 DEF NotLaunched, LostByLoops, Web
  <1>5. Reported'
    <2>1. e \in Web /\ e \notin Owned("smtp") /\ e \notin Owned("imap")
      BY OwnedFacts DEF Web
    <2>2. \A s \in MailService : lost' \cap Owned(s) = lost \cap Owned(s)
      BY <2>1 DEF MailService
    <2>3. \A x \in Web \cap lost' : acceptor'[x] = IF x = e THEN "reporting" ELSE acceptor[x]
      BY DEF ServeTypeOK
    <2> QED
      BY <1>3, <2>2, <2>3 DEF Reported
  <1> QED
    BY <1>1, <1>2, <1>4, <1>5

LEMMA MailAcceptFailsKeepsInv ==
  ASSUME ServeInv, NEW e \in Endpoint, MailAcceptFails(e)
  PROVE  ServeInv'
  <1> DEFINE s == ServiceOf(e)
  <1> USE DEF ServeInv, KeepMain
  <1>1. /\ s \in MailService /\ e \in Owned(s) /\ e \in Owned("smtp") \cup Owned("imap")
        /\ \A x \in MailService : e \in Owned(x) => x = s
    BY ServiceFacts DEF MailAcceptFails
  <1>2. ErrorsRoom(s) \in {2, 3}
    BY DEF ErrorsRoom
  <1>3. /\ acceptor' = [acceptor EXCEPT ![e] = "ended"] /\ lost' = lost \cup {e}
        /\ failures' = [failures EXCEPT ![s] = IF @ < ErrorsRoom(s) THEN @ + 1 ELSE @]
        /\ UNCHANGED <<stage, started, cancelled, signalled, exit, listener, forwarder, errCh>>
    BY DEF MailAcceptFails
  <1> HIDE DEF s
  <1>4. failures[s] \in 0..3
    BY <1>1 DEF ServeTypeOK
  <1>5. /\ failures' \in [MailService -> 0..3] /\ failures'[s] > 0
        /\ \A x \in MailService : x # s => failures'[x] = failures[x]
    BY <1>1, <1>2, <1>3, <1>4, Channels DEF ServeTypeOK
  <1>6. ServeTypeOK'
    BY <1>3, <1>5 DEF ServeTypeOK
  <1>7. BoundByOwner' /\ NothingListens'
    BY <1>3, GoroutinesKeepBound DEF ServeTypeOK
  <1>8. e \notin Web
    BY <1>1, OwnedFacts DEF Web
  <1>9. NotLaunched' /\ LostByLoops'
    <2>1. NotLaunched'
      BY <1>3, <1>8, WebEndpoints DEF NotLaunched, ServeTypeOK
    <2>2. LostByLoops'
      BY <1>1, <1>3 DEF LostByLoops
    <2> QED
      BY <2>1, <2>2
  <1>10. Reported'
    <2>1. \A x \in MailService : x # s => lost' \cap Owned(x) = lost \cap Owned(x)
      BY <1>1, <1>3
    <2>2. \A x \in Web \cap lost' : x \in lost /\ acceptor'[x] = acceptor[x]
      BY <1>3, <1>8 DEF ServeTypeOK
    <2> QED
      BY <1>3, <1>5, <2>1, <2>2 DEF Reported
  <1> QED
    BY <1>6, <1>7, <1>9, <1>10

LEMMA ReportKeepsInv ==
  ASSUME ServeInv, Report
  PROVE  ServeInv'
  <1> USE DEF ServeInv, KeepMain
  <1>1. ASSUME NEW e \in Endpoint, ReportWeb(e)
        PROVE  ServeInv'
    <2> USE <1>1 DEF ReportWeb
    <2>1. errCh' \in 0..ErrChRoom /\ errCh' > 0 /\ errCh' # 0
      BY Channels DEF ServeTypeOK
    <2>2. ServeTypeOK'
      BY <2>1 DEF ServeTypeOK
    <2>3. BoundByOwner' /\ NothingListens'
      BY GoroutinesKeepBound DEF ServeTypeOK
    <2>4. NotLaunched'
      BY WebEndpoints DEF NotLaunched, ServeTypeOK
    <2>5. LostByLoops' /\ Reported'
      BY <2>1 DEF LostByLoops, Reported
    <2> QED
      BY <2>2, <2>3, <2>4, <2>5
  <1>2. ASSUME NEW e \in Endpoint, AcceptorEnds(e)
        PROVE  ServeInv'
    <2> USE <1>2 DEF AcceptorEnds
    <2>1. ServeTypeOK'
      BY DEF ServeTypeOK
    <2>2. BoundByOwner' /\ NothingListens'
      BY GoroutinesKeepBound DEF ServeTypeOK
    <2>3. NotLaunched'
      BY WebEndpoints DEF NotLaunched, ServeTypeOK
    <2>4. LostByLoops'
      BY DEF LostByLoops
    <2>5. \A x \in Endpoint : acceptor[x] = "reporting" => acceptor'[x] = "reporting"
      BY DEF ServeTypeOK
    <2>6. Reported'
      BY <2>5, WebEndpoints DEF Reported
    <2> QED
      BY <2>1, <2>2, <2>3, <2>4, <2>6
  <1>3. ASSUME NEW s \in MailService, TakeError(s)
        PROVE  ServeInv'
    <2> USE <1>3 DEF TakeError
    <2>1. failures[s] - 1 \in 0..3
      BY Channels DEF ServeTypeOK
    <2>2. ServeTypeOK'
      BY <2>1 DEF ServeTypeOK
    <2>3. BoundByOwner' /\ NothingListens'
      BY GoroutinesKeepBound DEF ServeTypeOK
    <2>4. stage \notin Early
      BY DEF NotLaunched
    <2>5. NotLaunched' /\ LostByLoops' /\ Reported'
      BY <2>4 DEF NotLaunched, LostByLoops, Reported, ServeTypeOK
    <2> QED
      BY <2>2, <2>3, <2>5
  <1>4. ASSUME NEW s \in MailService, ForwardError(s)
        PROVE  ServeInv'
    <2> USE <1>4 DEF ForwardError
    <2>1. errCh' \in 0..ErrChRoom /\ errCh' > 0 /\ errCh' # 0
      BY Channels DEF ServeTypeOK
    <2>2. ServeTypeOK'
      BY <2>1 DEF ServeTypeOK
    <2>3. BoundByOwner' /\ NothingListens'
      BY GoroutinesKeepBound DEF ServeTypeOK
    <2>4. stage \notin Early
      BY DEF NotLaunched
    <2>5. NotLaunched' /\ LostByLoops' /\ Reported'
      BY <2>1, <2>4 DEF NotLaunched, LostByLoops, Reported
    <2> QED
      BY <2>2, <2>3, <2>5
  <1>5. ASSUME NEW s \in MailService, ForwarderEnds(s)
        PROVE  ServeInv'
    <2> USE <1>5 DEF ForwarderEnds
    <2>1. ServeTypeOK'
      BY DEF ServeTypeOK
    <2>2. BoundByOwner' /\ NothingListens'
      BY GoroutinesKeepBound DEF ServeTypeOK
    <2>3. stage \notin Early
      BY DEF NotLaunched
    <2>4. stage = "running" => signalled
      BY DEF LostByLoops
    <2>5. NotLaunched' /\ LostByLoops' /\ Reported'
      BY <2>3, <2>4 DEF NotLaunched, LostByLoops, Reported
    <2> QED
      BY <2>1, <2>2, <2>5
  <1> QED
    BY <1>1, <1>2, <1>3, <1>4, <1>5 DEF Report

-----------------------------------------------------------------------------
(* Serve: the wait and the shutdown.                                         *)

\* From the select of serve on, only the listeners matter.
LEMMA StoppingKeepsRest ==
  ASSUME stage' \notin Early \cup {"running"}
  PROVE  NotLaunched' /\ LostByLoops' /\ Reported'
  BY DEF NotLaunched, LostByLoops, Reported, Early

LEMMA SignalKeepsInv ==
  ASSUME ServeInv, Signal
  PROVE  ServeInv'
  <1> USE DEF ServeInv, Signal
  <1>1. ServeTypeOK'
    BY DEF ServeTypeOK
  <1>2. BoundByOwner' /\ NothingListens'
    BY DEF BoundByOwner, NothingListens
  <1>3. NotLaunched' /\ LostByLoops' /\ Reported'
    BY DEF NotLaunched, LostByLoops, Reported
  <1> QED
    BY <1>1, <1>2, <1>3

LEMMA StopKeepsInv ==
  ASSUME ServeInv, Stop
  PROVE  ServeInv'
  <1> USE DEF ServeInv, Stop
  <1>1. ServeTypeOK'
    <2>1. errCh' \in 0..ErrChRoom
      BY Channels DEF ServeTypeOK
    <2>2. exit' \in {"none", "error"} /\ cancelled' \in BOOLEAN
      BY DEF ServeTypeOK
    <2> QED
      BY <2>1, <2>2 DEF ServeTypeOK
  <1>2. BoundByOwner' /\ NothingListens'
    BY DEF BoundByOwner, NothingListens, MailService
  <1>3. stage' \notin Early \cup {"running"}
    BY DEF Early, Starting
  <1> QED
    BY <1>1, <1>2, <1>3, StoppingKeepsRest

LEMMA ShutdownKeepsInv ==
  ASSUME ServeInv,
         \/ ShutdownRedirect \/ \E intime \in BOOLEAN : ShutdownWeb(intime)
         \/ \E s \in MailService : CloseService(s)
  PROVE  ServeInv'
  <1>1. PICK S : listener' = Close(S)
    BY DEF ShutdownRedirect, ShutdownWeb, CloseService
  <1>2. /\ stage \in {"stop redirect", "stop web", "stop mail", "stop imap"}
        /\ stage' \in {"stop web", "stop mail", "stop imap", "unwind"}
        /\ started' = started /\ exit' \in {exit, "error"} /\ cancelled' = cancelled
        /\ UNCHANGED <<acceptor, failures, forwarder, errCh, signalled, lost>>
    BY DEF ShutdownRedirect, ShutdownWeb, CloseService, KeepGoroutines, MailService
  <1>3. \A e \in Endpoint : listener'[e] \in {listener[e], "closed"}
    BY <1>1 DEF Close
  <1>4. listener' \in [Endpoint -> {"closed", "bound"}]
    BY <1>1 DEF Close, ServeInv, ServeTypeOK
  <1>5. ServeTypeOK'
    BY <1>2, <1>4 DEF ServeInv, ServeTypeOK
  <1>6. BoundByOwner'
    BY <1>2, <1>3 DEF ServeInv, BoundByOwner, MailService
  <1>7. NothingListens'
    BY <1>2 DEF NothingListens
  <1>8. stage' \notin Early \cup {"running"}
    BY <1>2 DEF Early, Starting
  <1> QED
    BY <1>5, <1>6, <1>7, <1>8, StoppingKeepsRest DEF ServeInv

\* The deferred calls close whatever is still bound.
LEMMA UnwindKeepsInv ==
  ASSUME ServeInv, Unwind
  PROVE  ServeInv'
  <1> USE DEF ServeInv, Unwind, KeepGoroutines
  <1>1. ServeTypeOK'
    BY DEF ServeTypeOK, Close
  <1>2. \A e \in Endpoint : listener'[e] = "closed"
    BY DEF Close, BoundByOwner, ServeTypeOK, MailService, Web
  <1>3. BoundByOwner' /\ NothingListens'
    BY <1>2 DEF BoundByOwner, NothingListens
  <1>4. stage' \notin Early \cup {"running"}
    BY DEF Early, Starting
  <1> QED
    BY <1>1, <1>3, <1>4, StoppingKeepsRest

LEMMA ServeInvStep == ServeInv /\ [ServeNext]_serveVars => ServeInv'
  <1> SUFFICES ASSUME ServeInv, [ServeNext]_serveVars
               PROVE  ServeInv'
    OBVIOUS
  <1>1. CASE MainStep
    BY <1>1, PrepareKeepsInv, BindKeepsInv, BindFailsKeepsInv, StartAcceptingKeepsInv,
       LaunchKeepsInv, StopKeepsInv, ShutdownKeepsInv, UnwindKeepsInv
    DEF MainStep
  <1>2. CASE Report
    BY <1>2, ReportKeepsInv
  <1>3. CASE AcceptFails
    BY <1>3, WebAcceptFailsKeepsInv, MailAcceptFailsKeepsInv DEF AcceptFails
  <1>4. CASE Signal
    BY <1>4, SignalKeepsInv
  <1>5. CASE UNCHANGED serveVars
    BY <1>5 DEF serveVars, ServeInv, ServeTypeOK, BoundByOwner, NotLaunched, LostByLoops,
                Reported, NothingListens
  <1> QED
    BY <1>1, <1>2, <1>3, <1>4, <1>5 DEF ServeNext

\* ServeInv holds in every state of a process, whatever fails.
THEOREM ServeAlways == ServeSpec => []ServeInv
  BY ServeInvInit, ServeInvStep, PTL DEF ServeSpec

\* When serve has returned nothing listens, whichever bind failed in the middle of
\* the start of a service, for every choice of endpoints.
THEOREM NothingListensAtTheEnd == ServeSpec => []NothingListens
  <1>1. ServeInv => NothingListens
    BY DEF ServeInv
  <1> QED
    BY <1>1, ServeAlways, PTL

\* The failure of an accept loop is always on its way to the select of serve, also
\* one that comes before the forwarders run or with several others.
THEOREM FailureAlwaysOnItsWay == ServeSpec => []FailureOnItsWay
  <1>1. ASSUME ServeInv
        PROVE  FailureOnItsWay
    <2> SUFFICES ASSUME stage = "running", lost # {}, ~signalled, ~(errCh > 0)
                 PROVE  \/ \E e \in Endpoint : acceptor[e] = "reporting"
                        \/ \E s \in MailService : \/ forwarder[s] = "sending"
                                                  \/ forwarder[s] = "waiting" /\ failures[s] > 0
      BY DEF FailureOnItsWay
    <2>1. errCh = 0
      BY <1>1 DEF ServeInv, ServeTypeOK, ErrChRoom
    <2>2. PICK e \in lost : e \in Web \cup Owned("smtp") \cup Owned("imap")
      BY <1>1 DEF ServeInv, LostByLoops
    <2>3. CASE e \in Web
      BY <1>1, <2>1, <2>2, <2>3 DEF ServeInv, Reported, ServeTypeOK
    <2>4. CASE e \in Owned("smtp") \cup Owned("imap")
      <3>1. PICK s \in MailService : e \in Owned(s)
        BY <2>4, ServiceFacts
      <3> QED
        BY <1>1, <2>1, <2>2, <3>1 DEF ServeInv, Reported
    <2> QED
      BY <2>2, <2>3, <2>4
  <1> QED
    BY <1>1, ServeAlways, PTL

-----------------------------------------------------------------------------
(* Backup.                                                                   *)

LEMMA BackupInvInit == BackupInit => BackupInv
  BY BackupAssumption
  DEF BackupInit, BackupInv, BackupTypeOK, SnapshotRecent, File, Absent, Resting

\* The steps of one backup; a file is published whole and not overwritten.
LEMMA BackupStep ==
  ASSUME BackupInv, NEW b \in Backups,
         \/ StatDestination(b) \/ Reserve(b) \/ RemovePlaceholder(b)
         \/ BeginVacuum(b) \/ EndVacuum(b) \/ Validate(b) \/ Publish(b) \/ RemoveStaging(b)
         \/ Fail(b) \/ Kill(b)
  PROVE  BackupInv'
  <1> USE BackupAssumption DEF BackupInv, BackupTypeOK, SnapshotRecent, Goes
  <1>1. CASE StatDestination(b)
    BY <1>1 DEF StatDestination, Resting
  <1>2. CASE Reserve(b)
    BY <1>2 DEF Reserve, File, Absent
  <1>3. CASE RemovePlaceholder(b)
    BY <1>3 DEF RemovePlaceholder, File, Absent
  <1>4. CASE BeginVacuum(b)
    BY <1>4 DEF BeginVacuum, File
  <1>5. CASE EndVacuum(b)
    <2>1. PICK kind \in {"whole", "damaged"} : staging' = [staging EXCEPT ![b].kind = kind]
      BY <1>5 DEF EndVacuum
    <2> QED
      BY <1>5, <2>1 DEF EndVacuum, File
  <1>6. CASE Validate(b)
    BY <1>6 DEF Validate, File
  <1>7. CASE Publish(b)
    BY <1>7 DEF Publish, File
  <1>8. CASE RemoveStaging(b)
    BY <1>8 DEF RemoveStaging, File, Absent, Resting
  <1>9. CASE Fail(b)
    BY <1>9 DEF Fail, File, Absent, Resting
  <1>10. CASE Kill(b)
    BY <1>10 DEF Kill, Resting
  <1> QED
    BY <1>1, <1>2, <1>3, <1>4, <1>5, <1>6, <1>7, <1>8, <1>9, <1>10

LEMMA BackupInvStep == BackupInv /\ [BackupNext]_backupVars => BackupInv'
  <1> SUFFICES ASSUME BackupInv, [BackupNext]_backupVars
               PROVE  BackupInv'
    OBVIOUS
  <1>1. CASE Commit
    BY <1>1, BackupAssumption DEF Commit, BackupInv, BackupTypeOK, SnapshotRecent
  <1>2. CASE UNCHANGED backupVars
    BY <1>2 DEF backupVars, BackupInv, BackupTypeOK, SnapshotRecent
  <1> QED
    BY <1>1, <1>2, BackupStep DEF BackupNext

\* BackupInv holds in every state, for any number of concurrent backups and kills.
THEOREM BackupAlways == BackupSpec => []BackupInv
  BY BackupInvInit, BackupInvStep, PTL DEF BackupSpec

\* Backup publishes a whole snapshot that is not older than the command, and never
\* overwrites a file, for any number of backups at a time.
THEOREM AlwaysPublishedOnce == BackupSpec => PublishedOnce
  <1> DEFINE Once ==
        \A d \in Destination : published'[d] # published[d] =>
          /\ published[d] = Absent /\ published'[d].kind = "whole"
          /\ \E b \in Backups : /\ backup[b].at = "publish" /\ backup[b].to = d
                                /\ backup[b].since <= published'[d].version
  <1>1. ASSUME BackupInv, NEW b \in Backups, Publish(b)
        PROVE  Once
    <2>1. published' = [published EXCEPT ![backup[b].to] = staging[b]]
          /\ published[backup[b].to] = Absent /\ backup[b].at = "publish"
      BY <1>1 DEF Publish
    <2>2. staging[b].kind = "whole" /\ backup[b].since <= staging[b].version
      BY <1>1, <2>1 DEF BackupInv, SnapshotRecent
    <2>3. published \in [Destination -> File]
      BY <1>1 DEF BackupInv, BackupTypeOK
    <2> QED
      BY <2>1, <2>2, <2>3
  <1>2. ASSUME BackupInv, [BackupNext]_backupVars
        PROVE  Once \/ UNCHANGED backupVars
    <2>1. published' = published \/ \E b \in Backups : Publish(b)
      BY <1>2
      DEF BackupNext, backupVars, Commit, StatDestination, Reserve, RemovePlaceholder,
          BeginVacuum, EndVacuum, Validate, RemoveStaging, Fail, Kill
    <2> QED
      BY <1>1, <1>2, <2>1
  <1> QED
    BY <1>2, BackupAlways, PTL DEF BackupSpec, PublishedOnce

=============================================================================
