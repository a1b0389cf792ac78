---------------------------- MODULE PreAuthGuard ----------------------------
(***************************************************************************)
(* The guard of the IMAP listeners (internal/imapserver/guard.go): places  *)
(* for connections, a read deadline that a client cannot push back before  *)
(* it has logged in, and the flag that a login sets.                       *)
(*                                                                         *)
(* The guard finds a connection by its key, the pair of remote and local   *)
(* address.  The operating system never has two live connections with one  *)
(* key, but a peer that resets a connection may come back from the same    *)
(* port while a goroutine still holds the old one, for example in the      *)
(* middle of a login that verifies a password.                             *)
(*                                                                         *)
(* The library go-imap is modelled from how it is used: NewConn runs in    *)
(* the accept loop; the commands of a connection, their SetDeadline and    *)
(* Login, run in the one goroutine of that connection; Close of the server *)
(* closes connections from another goroutine.                              *)
(***************************************************************************)
EXTENDS Connections

CONSTANTS
  Key,            \* pairs of remote and local address
  KeyOf,          \* the key of each connection
  GuardGlobalMax, \* maxConnectionsGlobal, 512
  GuardPerIPMax   \* maxConnectionsPerIP, 32

ASSUME PreAuthGuardAssumption ==
  /\ KeyOf \in [Conn -> Key]
  /\ \A c, d \in Conn : KeyOf[c] = KeyOf[d] => AddressOf[c] = AddressOf[d]
  /\ GuardGlobalMax \in Nat \ {0} /\ GuardPerIPMax \in Nat \ {0}

VARIABLES
  held,          \* preAuthGuard.connections: key -> connection
  heldByIP,      \* preAuthGuard.byIP
  phase,         \* none, raw (in NewConn), admitted, guarded, shut (socket closed)
  login,         \* none, verifying, right, found (its key looked up), in
  target,        \* the connection that authenticate found
  authenticated, \* connections with the flag of that name
  closed,        \* connections with the flag of that name
  deadline,      \* read deadline of the socket: none, preauth, idle
  due,           \* connections whose preAuthDeadline has passed
  lost,          \* connections reset by the peer
  accepting      \* the server is not being closed

places == <<held, heldByIP>>
guardVars == <<held, heldByIP, phase, login, target, authenticated, closed, deadline, due,
               lost, accepting>>

HeldBy(a) == IF a \in DOMAIN heldByIP THEN heldByIP[a] ELSE 0

GuardInit ==
  /\ held = [k \in {} |-> k]
  /\ heldByIP = [a \in {} |-> 0]
  /\ phase = [c \in Conn |-> "none"]
  /\ login = [c \in Conn |-> "none"]
  /\ target = [c \in Conn |-> c]
  /\ authenticated = {} /\ closed = {} /\ due = {} /\ lost = {}
  /\ deadline = [c \in Conn |-> "none"]
  /\ accepting = TRUE

\* The accept loop of the key's listener has a connection and calls NewConn.
NewConn(c) ==
  /\ accepting /\ phase[c] = "none"
  /\ \A d \in Conn : KeyOf[d] = KeyOf[c] =>
       phase[d] \in {"none", "shut"} \/ (phase[d] = "guarded" /\ d \in lost)
  /\ phase' = [phase EXCEPT ![c] = "raw"]
  /\ UNCHANGED <<held, heldByIP, login, target, authenticated, closed, deadline, due, lost,
                 accepting>>

\* admit; the mutants count one too far, and let a connection take the place of an
\* older one with its key.
HasPlace_LimitMutant(c) ==
  /\ Cardinality(DOMAIN held) <= GuardGlobalMax
  /\ HeldBy(AddressOf[c]) < GuardPerIPMax
  /\ KeyOf[c] \notin DOMAIN held

HasPlace_KeyMutant(c) ==
  \/ KeyOf[c] \in DOMAIN held
  \/ Cardinality(DOMAIN held) < GuardGlobalMax /\ HeldBy(AddressOf[c]) < GuardPerIPMax

HasPlace(c) ==
  /\ Cardinality(DOMAIN held) < GuardGlobalMax
  /\ HeldBy(AddressOf[c]) < GuardPerIPMax
  /\ KeyOf[c] \notin DOMAIN held

Admit(c) ==
  LET a == AddressOf[c] k == KeyOf[c] IN
  /\ phase[c] = "raw" /\ HasPlace(c)
  /\ held' = [x \in DOMAIN held \cup {k} |-> IF x = k THEN c ELSE held[x]]
  /\ heldByIP' = [x \in DOMAIN heldByIP \cup {a} |-> IF x = a THEN HeldBy(a) + 1 ELSE heldByIP[x]]
  /\ phase' = [phase EXCEPT ![c] = "admitted"]
  /\ UNCHANGED <<login, target, authenticated, closed, deadline, due, lost, accepting>>

\* NewConn closes the raw connection and the one of the library.
TurnAway(c) ==
  /\ phase[c] = "raw" /\ ~HasPlace(c)
  /\ phase' = [phase EXCEPT ![c] = "none"]
  /\ UNCHANGED <<held, heldByIP, login, target, authenticated, closed, deadline, due, lost,
                 accepting>>

\* preAuthGuard.release: only the connection that the key stands for leaves.
ReleasePlace(c) ==
  LET a == AddressOf[c] k == KeyOf[c] IN
  IF k \notin DOMAIN held \/ held[k] # c THEN UNCHANGED places
  ELSE /\ held' = [x \in DOMAIN held \ {k} |-> held[x]]
       /\ heldByIP' = IF HeldBy(a) <= 1 THEN [x \in DOMAIN heldByIP \ {a} |-> heldByIP[x]]
                      ELSE [heldByIP EXCEPT ![a] = @ - 1]

\* The first SetReadDeadline, still in admit.
StartClock(c) ==
  /\ phase[c] = "admitted"
  /\ phase' = [phase EXCEPT ![c] = "guarded"]
  /\ deadline' = [deadline EXCEPT ![c] = "preauth"]
  /\ UNCHANGED <<held, heldByIP, login, target, authenticated, closed, due, lost, accepting>>

\* It fails: admit gives the place back and nobody keeps the connection.
ClockFails(c) ==
  /\ phase[c] = "admitted"
  /\ ReleasePlace(c)
  /\ phase' = [phase EXCEPT ![c] = "none"]
  /\ UNCHANGED <<login, target, authenticated, closed, deadline, due, lost, accepting>>

\* The goroutine of the connection is not inside Login.
AtCommand(c) == phase[c] = "guarded" /\ login[c] \in {"none", "in"}

\* The deadline that the library asks for counts only after login.
CappedReadDeadline_Mutant(c, requested) == requested

CappedReadDeadline(c, requested) == IF c \in authenticated THEN requested ELSE "preauth"

\* The library grants a new idle period before it handles a command.
SetDeadline(c) ==
  /\ AtCommand(c) /\ c \notin closed
  /\ deadline' = [deadline EXCEPT ![c] = CappedReadDeadline(c, "idle")]
  /\ UNCHANGED <<held, heldByIP, phase, login, target, authenticated, closed, due, lost, accepting>>

\* storeBackend.Login up to the verification of the password.
BeginLogin(c) ==
  /\ AtCommand(c) /\ c \notin closed /\ login[c] = "none"
  /\ login' = [login EXCEPT ![c] = "verifying"]
  /\ UNCHANGED <<held, heldByIP, phase, target, authenticated, closed, deadline, due, lost, accepting>>

PasswordVerified(c, right) ==
  /\ login[c] = "verifying"
  /\ login' = [login EXCEPT ![c] = IF right THEN "right" ELSE "none"]
  /\ UNCHANGED <<held, heldByIP, phase, target, authenticated, closed, deadline, due, lost, accepting>>

\* preAuthGuard.authenticate looks the key up under the lock ...
FindConn(c) ==
  LET k == KeyOf[c] IN
  /\ login[c] = "right"
  /\ IF k \in DOMAIN held
     THEN target' = [target EXCEPT ![c] = held[k]] /\ login' = [login EXCEPT ![c] = "found"]
     ELSE login' = [login EXCEPT ![c] = "in"] /\ UNCHANGED target
  /\ UNCHANGED <<held, heldByIP, phase, authenticated, closed, deadline, due, lost, accepting>>

\* ... and calls markAuthenticated after it.
MarkAuthenticated(c) ==
  LET t == target[c] IN
  /\ login[c] = "found"
  /\ login' = [login EXCEPT ![c] = "in"] /\ target' = [target EXCEPT ![c] = c]
  /\ authenticated' = authenticated \cup {t}
  /\ deadline' = IF t \in authenticated THEN deadline ELSE [deadline EXCEPT ![t] = "none"]
  /\ UNCHANGED <<held, heldByIP, phase, closed, due, lost, accepting>>

\* guardedIMAPConn.Close up to release: the first caller gives the place back.
StartClose(c) ==
  /\ phase[c] = "guarded" /\ c \notin closed
  /\ closed' = closed \cup {c}
  /\ ReleasePlace(c)
  /\ UNCHANGED <<phase, login, target, authenticated, deadline, due, lost, accepting>>

\* A read hits the deadline, and the library closes the connection.
ReadTimesOut(c) ==
  /\ AtCommand(c) /\ c \in due /\ deadline[c] = "preauth"
  /\ StartClose(c)

\* The peer leaves, breaks a limit or stays idle; or the server is closed.
Drop(c) == (AtCommand(c) \/ ~accepting) /\ StartClose(c)

\* The rest of Close; every caller does it.
ShutSocket(c) ==
  /\ phase[c] = "guarded" /\ c \in closed
  /\ phase' = [phase EXCEPT ![c] = "shut"]
  /\ deadline' = [deadline EXCEPT ![c] = "none"]
  /\ due' = due \ {c} /\ lost' = lost \ {c}
  /\ UNCHANGED <<held, heldByIP, login, target, authenticated, closed, accepting>>

\* The goroutine ends and nobody refers to the connection any more.
ForgetConn(c) ==
  /\ phase[c] = "shut" /\ login[c] \in {"none", "in"}
  /\ \A d \in Conn : login[d] = "found" => target[d] # c
  /\ phase' = [phase EXCEPT ![c] = "none"]
  /\ login' = [login EXCEPT ![c] = "none"]
  /\ authenticated' = authenticated \ {c} /\ closed' = closed \ {c}
  /\ UNCHANGED <<held, heldByIP, target, deadline, due, lost, accepting>>

\* The time of preAuthDeadline comes (told apart only while it matters).
PreAuthTimePasses(c) ==
  /\ phase[c] = "guarded" /\ c \notin authenticated \cup closed \cup due
  /\ due' = due \cup {c}
  /\ UNCHANGED <<held, heldByIP, phase, login, target, authenticated, closed, deadline, lost, accepting>>

\* A reset before the goroutine runs is found by its first read.
PeerResets(c) ==
  /\ phase[c] = "guarded" /\ c \notin closed \cup lost
  /\ lost' = lost \cup {c}
  /\ UNCHANGED <<held, heldByIP, phase, login, target, authenticated, closed, deadline, due, accepting>>

CloseServer ==
  /\ accepting /\ accepting' = FALSE
  /\ UNCHANGED <<held, heldByIP, phase, login, target, authenticated, closed, deadline, due, lost>>

GuardStep(c) ==
  \/ NewConn(c) \/ Admit(c) \/ TurnAway(c) \/ StartClock(c) \/ ClockFails(c)
  \/ SetDeadline(c) \/ BeginLogin(c) \/ FindConn(c) \/ MarkAuthenticated(c)
  \/ \E right \in BOOLEAN : PasswordVerified(c, right)
  \/ ReadTimesOut(c) \/ Drop(c) \/ ShutSocket(c) \/ ForgetConn(c)
  \/ PreAuthTimePasses(c) \/ PeerResets(c)

GuardNext == CloseServer \/ \E c \in Conn : GuardStep(c)

GuardSpec == GuardInit /\ [][GuardNext]_guardVars

\* Time passes; Login returns (it has a timeout of 15 s), as do the steps around
\* it; and a connection past its deadline comes to a read that fails, because
\* the commands it has sent ahead fit a buffer of 4 KiB.
GuardFairness ==
  \A c \in Conn :
    /\ WF_guardVars(PreAuthTimePasses(c)) /\ SF_guardVars(ReadTimesOut(c))
    /\ WF_guardVars(StartClock(c) \/ ClockFails(c))
    /\ WF_guardVars(\E right \in BOOLEAN : PasswordVerified(c, right))
    /\ WF_guardVars(FindConn(c)) /\ WF_guardVars(MarkAuthenticated(c))

-----------------------------------------------------------------------------
(* Properties. *)

Holders == {held[k] : k \in DOMAIN held}

GuardTypeOK ==
  /\ held \in [DOMAIN held -> Conn] /\ DOMAIN held \subseteq Key
  /\ heldByIP \in [DOMAIN heldByIP -> Nat] /\ DOMAIN heldByIP \subseteq Address
  /\ phase \in [Conn -> {"none", "raw", "admitted", "guarded", "shut"}]
  /\ login \in [Conn -> {"none", "verifying", "right", "found", "in"}]
  /\ target \in [Conn -> Conn]
  /\ authenticated \subseteq Conn /\ closed \subseteq Conn
  /\ due \subseteq Conn /\ lost \subseteq Conn
  /\ deadline \in [Conn -> {"none", "preauth", "idle"}]
  /\ accepting \in BOOLEAN

GuardLimits == INSTANCE OpenConnections
  WITH open <- Holders, GlobalMax <- GuardGlobalMax, PerIPMax <- GuardPerIPMax

\* The guard keeps the promise of OpenConnections although a key can name two
\* connections at once and several goroutines close one connection.
GuardLimitKept == GuardLimits!OpenSpec

\* Only a login of its own lifts the limits of a connection: the flag set by key
\* after the password was verified does not reach another connection with the
\* same key; and with the flag a connection is not cut at the deadline of the
\* others.  (While the server is being closed neither holds.)
LiftedByLogin ==
  accepting => \A c \in authenticated :
                 login[c] = "in" /\ (phase[c] = "guarded" => deadline[c] # "preauth")

\* A client that does not log in gives its place back, whatever commands it sends
\* to be granted new idle periods.
PlacesComeBack ==
  \A c \in Conn : (c \in Holders /\ c \notin authenticated) ~>
                    (c \notin Holders \/ c \in authenticated)

-----------------------------------------------------------------------------
(* The inductive invariant behind GuardLimitKept and LiftedByLogin. *)

HoldersFrom(a) == {c \in Holders : AddressOf[c] = a}

\* A place is held under the key of its connection, and the counters agree.
PlacesCounted ==
  /\ \A k \in DOMAIN held : KeyOf[held[k]] = k
  /\ \A a \in Address : HeldBy(a) = Cardinality(HoldersFrom(a))
  /\ \A a \in DOMAIN heldByIP : heldByIP[a] > 0

\* Exactly the admitted connections that no Close has begun for hold a place.
Placed ==
  \A c \in Conn :
    /\ c \in Holders <=> phase[c] \in {"admitted", "guarded"} /\ c \notin closed
    /\ phase[c] \in {"none", "raw", "admitted"} => c \notin closed

\* Login runs on a connection that holds its place, and finds that connection.
LoginPlaced ==
  \A c \in Conn :
    /\ phase[c] \in {"none", "raw", "admitted"} => c \notin authenticated /\ login[c] = "none"
    /\ login[c] \in {"verifying", "right", "found"} => phase[c] = "guarded" /\ c \notin closed
    /\ login[c] = "found" => target[c] = c

GuardInv ==
  /\ GuardTypeOK /\ PlacesCounted /\ Placed
  /\ accepting => LoginPlaced
  /\ LiftedByLogin

=============================================================================
