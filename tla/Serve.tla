-------------------------------- MODULE Serve --------------------------------
(***************************************************************************)
(* The process: serve binds the web listeners, starts the SMTP and the     *)
(* IMAP service, waits for a signal or for the first failure of an accept  *)
(* loop, and shuts everything down.                                        *)
(*                                                                         *)
(* The failure of a web accept loop goes to errCh; that of a mail endpoint *)
(* goes to the channel of its service, if there is room, and from there a  *)
(* forwarder takes it to errCh.                                            *)
(*                                                                         *)
(* Left out: the delivery worker and the cleaning of sessions, which end   *)
(* with the context and report nothing; what the accept loops do with      *)
(* connections (ConnLimit); the wait for open requests, which ends after   *)
(* 20 seconds.  net/http, go-smtp and go-imap are used as the code uses    *)
(* them: Serve returns when its listener is closed or an accept fails.     *)
(***************************************************************************)
EXTENDS Naturals, Sequences, FiniteSets

CONSTANT Configured  \* endpoints with an address

Endpoint == {"web", "redirect", "smtp", "submission", "smtps", "imap", "imaps"}

\* The endpoints that each step of the start binds, in the order of the code.
Listens == [web |-> <<"web">>, redirect |-> <<"redirect">>,
            smtp |-> <<"smtp", "submission", "smtps">>, imap |-> <<"imap", "imaps">>]

MailService == {"smtp", "imap"}
Owned(s) == {Listens[s][i] : i \in DOMAIN Listens[s]} \cap Configured
ServiceOf(e) == IF e \in Owned("smtp") THEN "smtp" ELSE "imap"

\* Capacities of the error channels; a mutant with channels without a buffer.
ErrorsRoom_Mutant(s) == 0

ErrorsRoom(s) == IF s = "smtp" THEN 3 ELSE 2
ErrChRoom == 6

ASSUME ServeAssumption == Configured \subseteq Endpoint /\ "web" \in Configured

VARIABLES
  stage,     \* what serve does
  started,   \* mail services whose Start has returned
  listener,  \* of each endpoint: "bound" or "closed"
  acceptor,  \* of each endpoint: the goroutine that accepts
  failures,  \* of each mail service: how many errors are in its channel
  forwarder, \* of each mail service: the goroutine of forwardError
  errCh,     \* how many errors are in errCh
  cancelled, \* cancel has been called
  signalled, \* parent is done
  exit,      \* the error that serve returns, if any
  lost       \* endpoints whose bind or accept loop failed; not in the code

serveVars == <<stage, started, listener, acceptor, failures, forwarder, errCh, cancelled,
               signalled, exit, lost>>

Starting == {"web", "redirect", "smtp", "imap"}
After == [web |-> "redirect", redirect |-> "smtp", smtp |-> "imap", imap |-> "launch"]

ServeInit ==
  /\ stage = "prepare" /\ started = {}
  /\ listener = [e \in Endpoint |-> "closed"]
  /\ acceptor = [e \in Endpoint |-> "none"]
  /\ failures = [s \in MailService |-> 0]
  /\ forwarder = [s \in MailService |-> "none"]
  /\ errCh = 0 /\ cancelled = FALSE /\ signalled = FALSE /\ exit = "none" /\ lost = {}

-----------------------------------------------------------------------------
(* Start.                                                                    *)

goroutines == <<failures, forwarder, errCh, cancelled, signalled, lost>>

\* The configuration is checked, expired sessions deleted, the administrator
\* bootstrapped and the servers created; each may fail.
Prepare(ok) ==
  /\ stage = "prepare"
  /\ stage' = IF ok THEN "web" ELSE "unwind"
  /\ exit' = IF ok THEN exit ELSE "error"
  /\ UNCHANGED <<started, listener, acceptor, goroutines>>

\* Positions of the endpoints that are still to be bound, and the first of these.
Unbound(s) ==
  {i \in DOMAIN Listens[s] : Listens[s][i] \in Configured /\ listener[Listens[s][i]] = "closed"}

Due(s) == Listens[s][CHOOSE i \in Unbound(s) : \A j \in Unbound(s) : i <= j]

\* net.Listen for the next endpoint of this step.
Bind ==
  /\ stage \in Starting /\ Unbound(stage) # {}
  /\ listener' = [listener EXCEPT ![Due(stage)] = "bound"]
  /\ UNCHANGED <<stage, started, acceptor, exit, goroutines>>

\* The address is taken; Start closes the listeners it has bound, and serve returns.
BindFails ==
  /\ stage \in Starting /\ Unbound(stage) # {}
  /\ listener' = [e \in Endpoint |->
       IF stage \in MailService /\ e \in Owned(stage) THEN "closed" ELSE listener[e]]
  /\ stage' = "unwind" /\ exit' = "error"
  /\ lost' = lost \cup {Due(stage)}
  /\ UNCHANGED <<started, acceptor, failures, forwarder, errCh, cancelled, signalled>>

\* All are bound: Start lets its endpoints accept.
StartAccepting ==
  /\ stage \in Starting /\ Unbound(stage) = {}
  /\ acceptor' = [e \in Endpoint |->
       IF stage \in MailService /\ e \in Owned(stage) THEN "accepting" ELSE acceptor[e]]
  /\ started' = IF stage \in MailService THEN started \cup {stage} ELSE started
  /\ stage' = After[stage]
  /\ UNCHANGED <<listener, exit, goroutines>>

\* The web servers and the forwarders.
Launch ==
  /\ stage = "launch"
  /\ acceptor' = [e \in Endpoint |->
       IF e \in {"web", "redirect"} \cap Configured THEN "accepting" ELSE acceptor[e]]
  /\ forwarder' = [s \in MailService |-> IF Owned(s) # {} THEN "waiting" ELSE "none"]
  /\ stage' = "running"
  /\ UNCHANGED <<started, listener, failures, errCh, cancelled, signalled, exit, lost>>

-----------------------------------------------------------------------------
(* The goroutines.                                                           *)

KeepMain == UNCHANGED <<stage, started, cancelled, signalled, exit>>

\* An accept fails for good; a web server closes its listener.
WebAcceptFails(e) ==
  /\ e \in {"web", "redirect"} /\ acceptor[e] = "accepting" /\ listener[e] = "bound"
  /\ acceptor' = [acceptor EXCEPT ![e] = "reporting"]
  /\ listener' = [listener EXCEPT ![e] = "closed"]
  /\ lost' = lost \cup {e}
  /\ KeepMain /\ UNCHANGED <<failures, forwarder, errCh>>

ReportWeb(e) ==
  /\ acceptor[e] = "reporting" /\ errCh < ErrChRoom
  /\ errCh' = errCh + 1
  /\ acceptor' = [acceptor EXCEPT ![e] = "ended"]
  /\ KeepMain /\ UNCHANGED <<listener, failures, forwarder, lost>>

\* A mail endpoint drops its error when the channel is full.
MailAcceptFails(e) ==
  LET s == ServiceOf(e) IN
  /\ e \in Owned("smtp") \cup Owned("imap") /\ acceptor[e] = "accepting" /\ listener[e] = "bound"
  /\ acceptor' = [acceptor EXCEPT ![e] = "ended"]
  /\ failures' = [failures EXCEPT ![s] = IF @ < ErrorsRoom(s) THEN @ + 1 ELSE @]
  /\ lost' = lost \cup {e}
  /\ KeepMain /\ UNCHANGED <<listener, forwarder, errCh>>

\* net.ErrClosed or http.ErrServerClosed is not reported.
AcceptorEnds(e) ==
  /\ acceptor[e] = "accepting" /\ listener[e] = "closed"
  /\ acceptor' = [acceptor EXCEPT ![e] = "ended"]
  /\ KeepMain /\ UNCHANGED <<listener, failures, forwarder, errCh, lost>>

\* forwardError takes one error and ends, or ends with the context.
TakeError(s) ==
  /\ forwarder[s] = "waiting" /\ failures[s] > 0
  /\ failures' = [failures EXCEPT ![s] = @ - 1]
  /\ forwarder' = [forwarder EXCEPT ![s] = "sending"]
  /\ KeepMain /\ UNCHANGED <<listener, acceptor, errCh, lost>>

ForwardError(s) ==
  /\ forwarder[s] = "sending" /\ errCh < ErrChRoom
  /\ errCh' = errCh + 1
  /\ forwarder' = [forwarder EXCEPT ![s] = "ended"]
  /\ KeepMain /\ UNCHANGED <<listener, acceptor, failures, lost>>

ForwarderEnds(s) ==
  /\ forwarder[s] = "waiting" /\ (cancelled \/ signalled)
  /\ forwarder' = [forwarder EXCEPT ![s] = "ended"]
  /\ KeepMain /\ UNCHANGED <<listener, acceptor, failures, errCh, lost>>

-----------------------------------------------------------------------------
(* The wait and the shutdown.                                                *)

Signal ==
  /\ ~signalled /\ stage # "done" /\ signalled' = TRUE
  /\ UNCHANGED <<stage, started, listener, acceptor, failures, forwarder, errCh, cancelled, exit, lost>>

\* The select of serve.
Stop ==
  /\ stage = "running"
  /\ \/ /\ signalled
        /\ UNCHANGED <<errCh, exit, cancelled>>
     \/ /\ errCh > 0
        /\ errCh' = errCh - 1 /\ exit' = "error" /\ cancelled' = TRUE
  /\ stage' = "stop redirect"
  /\ UNCHANGED <<started, listener, acceptor, failures, forwarder, signalled, lost>>

Close(endpoints) == [e \in Endpoint |-> IF e \in endpoints THEN "closed" ELSE listener[e]]

KeepGoroutines == UNCHANGED <<started, acceptor, failures, forwarder, errCh, signalled, lost>>

ShutdownRedirect ==
  /\ stage = "stop redirect" /\ stage' = "stop web"
  /\ listener' = Close({"redirect"})
  /\ KeepGoroutines /\ UNCHANGED <<exit, cancelled>>

\* Requests that outlast the 20 seconds are an error, too.
ShutdownWeb(intime) ==
  /\ stage = "stop web" /\ stage' = "stop mail"
  /\ listener' = Close({"web"})
  /\ exit' = IF intime THEN exit ELSE "error"
  /\ KeepGoroutines /\ UNCHANGED cancelled

\* Close of a service that is not closed yet; then serve returns.
CloseService(s) ==
  /\ stage = IF s = "smtp" THEN "stop mail" ELSE "stop imap"
  /\ stage' = IF s = "smtp" THEN "stop imap" ELSE "unwind"
  /\ listener' = Close(IF s \in started THEN Owned(s) ELSE {})
  /\ KeepGoroutines /\ UNCHANGED <<exit, cancelled>>

\* The deferred calls: whatever serve had bound or started is closed.
Unwind ==
  /\ stage = "unwind" /\ stage' = "done"
  /\ listener' = Close({"web", "redirect"} \cup UNION {Owned(s) : s \in started})
  /\ cancelled' = TRUE
  /\ KeepGoroutines /\ UNCHANGED exit

-----------------------------------------------------------------------------
MainStep ==
  \/ \E ok \in BOOLEAN : Prepare(ok)
  \/ Bind \/ BindFails \/ StartAccepting \/ Launch
  \/ Stop \/ ShutdownRedirect \/ (\E intime \in BOOLEAN : ShutdownWeb(intime))
  \/ (\E s \in MailService : CloseService(s)) \/ Unwind

Report ==
  \/ \E e \in Endpoint : ReportWeb(e) \/ AcceptorEnds(e)
  \/ \E s \in MailService : TakeError(s) \/ ForwardError(s) \/ ForwarderEnds(s)

AcceptFails == \E e \in Endpoint : WebAcceptFails(e) \/ MailAcceptFails(e)

ServeNext == MainStep \/ Report \/ AcceptFails \/ Signal

\* serve and each goroutine go on; accepts need not fail and signals need not come.
ServeFairness ==
  /\ WF_serveVars(MainStep)
  /\ \A e \in Endpoint : WF_serveVars(ReportWeb(e))
  /\ \A s \in MailService : WF_serveVars(TakeError(s)) /\ WF_serveVars(ForwardError(s))

ServeSpec == ServeInit /\ [][ServeNext]_serveVars /\ ServeFairness

-----------------------------------------------------------------------------
(* Properties. *)

ServeTypeOK ==
  /\ stage \in Starting \cup {"prepare", "launch", "running", "stop redirect", "stop web",
                              "stop mail", "stop imap", "unwind", "done"}
  /\ started \subseteq MailService
  /\ listener \in [Endpoint -> {"closed", "bound"}]
  /\ acceptor \in [Endpoint -> {"none", "accepting", "reporting", "ended"}]
  /\ failures \in [MailService -> 0..3]
  /\ forwarder \in [MailService -> {"none", "waiting", "sending", "ended"}]
  /\ errCh \in 0..ErrChRoom
  /\ cancelled \in BOOLEAN /\ signalled \in BOOLEAN
  /\ exit \in {"none", "error"}
  /\ lost \subseteq Endpoint

\* When an accept loop fails, at whatever time, or an address is taken, the process
\* comes to its end with nothing left that listens, and says so unless it had been
\* told to stop.
FailureStops ==
  lost # {} ~> /\ stage = "done"
               /\ \A e \in Endpoint : listener[e] = "closed"
               /\ exit = "error" \/ signalled

\* The two halves of it that one state can break: a process at its end has nothing
\* that listens, and the first failure of an accept loop is on its way to serve
\* until it is told to stop.
NothingListens == stage = "done" => \A e \in Endpoint : listener[e] = "closed"

FailureOnItsWay ==
  stage = "running" /\ lost # {} /\ ~signalled =>
    \/ errCh > 0
    \/ \E e \in Endpoint : acceptor[e] = "reporting"
    \/ \E s \in MailService : \/ forwarder[s] = "sending"
                              \/ forwarder[s] = "waiting" /\ failures[s] > 0

-----------------------------------------------------------------------------
(* The inductive invariant behind both. *)

Early == Starting \cup {"prepare", "launch"}
Web == {"web", "redirect"}

\* Whatever is bound is closed by the steps to come.
BoundByOwner ==
  \A e \in Endpoint : listener[e] = "bound" =>
    \/ e \in Web
    \/ \E s \in started : e \in Owned(s)
    \/ stage \in MailService /\ e \in Owned(stage)

\* Before the web servers and the forwarders run.
NotLaunched ==
  stage \in Early =>
    /\ \A s \in MailService : forwarder[s] = "none"
    /\ \A e \in Web : acceptor[e] = "none" /\ e \notin lost

LostByLoops == stage \in Early \cup {"running"} =>
                 ~cancelled /\ lost \subseteq Web \cup Owned("smtp") \cup Owned("imap")

Reported ==
  /\ stage \in Early =>
       \A s \in MailService : lost \cap Owned(s) # {} => failures[s] > 0
  /\ stage = "running" /\ ~signalled /\ errCh = 0 =>
       /\ \A e \in Web \cap lost : acceptor[e] = "reporting"
       /\ \A s \in MailService :
            /\ Owned(s) # {} => forwarder[s] \in {"waiting", "sending"}
            /\ lost \cap Owned(s) # {} => failures[s] > 0 \/ forwarder[s] = "sending"

ServeInv ==
  /\ ServeTypeOK /\ BoundByOwner /\ NotLaunched /\ LostByLoops /\ Reported
  /\ NothingListens

=============================================================================
