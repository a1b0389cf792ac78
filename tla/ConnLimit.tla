------------------------------ MODULE ConnLimit ------------------------------
(***************************************************************************)
(* The limiter that the three SMTP listeners share (internal/connlimit).   *)
(* An accept loop takes a connection from the operating system and asks    *)
(* the limiter for a place; a connection without a place is closed at      *)
(* once.  A connection is closed by its own goroutine, by Close of the     *)
(* server and by timeouts, possibly by several of them at once: each       *)
(* closes the socket first, and sync.Once lets one of them give the place  *)
(* back.                                                                   *)
(*                                                                         *)
(* `global` and `byIP` are the counters of the code.  `byIP` is a map: an  *)
(* address without connections has no entry.                               *)
(***************************************************************************)
EXTENDS Connections

CONSTANTS
  Closer,     \* goroutines that may close a connection
  GlobalMax,  \* Limiter.globalMax, 512 in smtpserver; 0 is no limit
  PerIPMax    \* Limiter.perIPMax, 64

ASSUME ConnLimitAssumption == GlobalMax \in Nat /\ PerIPMax \in Nat

VARIABLES
  global,   \* Limiter.global
  byIP,     \* Limiter.byIP
  socket,   \* of each connection: none, accepted, tracked (handed on), closed
  closing,  \* goroutines that have closed the socket and not passed once.Do yet
  released  \* connections whose once.Do is done

connVars == <<global, byIP, socket, closing, released>>

CountOf(a) == IF a \in DOMAIN byIP THEN byIP[a] ELSE 0

Full(n, max) == max > 0 /\ n >= max

Refuses(a) == Full(global, GlobalMax) \/ Full(CountOf(a), PerIPMax)

ConnInit ==
  /\ global = 0
  /\ byIP = [a \in {} |-> 0]
  /\ socket = [c \in Conn |-> "none"]
  /\ closing = [c \in Conn |-> {}]
  /\ released = {}

\* listener.Accept: the operating system hands over a connection.
Accept(c) ==
  /\ socket[c] = "none"
  /\ socket' = [socket EXCEPT ![c] = "accepted"]
  /\ UNCHANGED <<global, byIP, closing, released>>

Acquire(c) ==
  LET a == AddressOf[c] IN
  /\ socket[c] = "accepted"
  /\ ~Refuses(a)
  /\ global' = global + 1
  /\ byIP' = [x \in DOMAIN byIP \cup {a} |-> IF x = a THEN CountOf(a) + 1 ELSE byIP[x]]
  /\ socket' = [socket EXCEPT ![c] = "tracked"]
  /\ UNCHANGED <<closing, released>>

\* No place: the loop closes the connection and accepts the next one.
Refuse(c) ==
  /\ socket[c] = "accepted"
  /\ Refuses(AddressOf[c])
  /\ socket' = [socket EXCEPT ![c] = "none"]
  /\ UNCHANGED <<global, byIP, closing, released>>

\* trackedConn.Close by goroutine g, up to once.Do.
CloseSocket(c, g) ==
  /\ socket[c] \in {"tracked", "closed"}
  /\ g \notin closing[c]
  /\ socket' = [socket EXCEPT ![c] = "closed"]
  /\ closing' = [closing EXCEPT ![c] = @ \cup {g}]
  /\ UNCHANGED <<global, byIP, released>>

\* Limiter.release, the function given to once.Do.
Release(a) ==
  /\ global' = IF global > 0 THEN global - 1 ELSE global
  /\ byIP' = IF CountOf(a) <= 1 THEN [x \in DOMAIN byIP \ {a} |-> byIP[x]]
             ELSE [byIP EXCEPT ![a] = @ - 1]

\* once.Do and return; a mutant without the Once.
ReturnFromClose_Mutant(c, g) ==
  /\ g \in closing[c]
  /\ closing' = [closing EXCEPT ![c] = @ \ {g}]
  /\ Release(AddressOf[c]) /\ released' = released \cup {c}
  /\ UNCHANGED socket

ReturnFromClose(c, g) ==
  /\ g \in closing[c]
  /\ closing' = [closing EXCEPT ![c] = @ \ {g}]
  /\ IF c \in released THEN UNCHANGED <<global, byIP, released>>
     ELSE Release(AddressOf[c]) /\ released' = released \cup {c}
  /\ UNCHANGED socket

\* Nobody refers to the connection any more.
Forget(c) ==
  /\ c \in released /\ closing[c] = {}
  /\ socket' = [socket EXCEPT ![c] = "none"]
  /\ released' = released \ {c}
  /\ UNCHANGED <<global, byIP, closing>>

ConnNext ==
  \E c \in Conn :
    \/ Accept(c) \/ Acquire(c) \/ Refuse(c) \/ Forget(c)
    \/ \E g \in Closer : CloseSocket(c, g) \/ ReturnFromClose(c, g)

ConnSpec == ConnInit /\ [][ConnNext]_connVars

-----------------------------------------------------------------------------
(* Properties. *)

\* Connections that hold a place.
Holding == {c \in Conn : socket[c] \in {"tracked", "closed"} /\ c \notin released}

ConnTypeOK ==
  /\ global \in Nat
  /\ byIP \in [DOMAIN byIP -> Nat] /\ DOMAIN byIP \subseteq Address
  /\ socket \in [Conn -> {"none", "accepted", "tracked", "closed"}]
  /\ closing \in [Conn -> SUBSET Closer]
  /\ released \subseteq Conn

Admitted == INSTANCE OpenConnections WITH open <- Holding

\* The limiter keeps the promise of OpenConnections, whoever closes what at the
\* same time: places are not given back twice, nor are they lost, so that only a
\* connection without room is refused.
LimitKept ==
  /\ Admitted!OpenSpec
  /\ [][\A c \in Conn : Refuse(c) => ~Admitted!HasRoom(c)]_connVars

\* Sockets a protocol parser works on are within the bounds at every moment,
\* because Close gives the place back only after the socket is closed.
ParsersBounded ==
  LET working == {c \in Conn : socket[c] = "tracked"} IN
  /\ GlobalMax > 0 => Cardinality(working) <= GlobalMax
  /\ PerIPMax > 0 =>
       \A a \in Address : Cardinality({c \in working : AddressOf[c] = a}) <= PerIPMax

-----------------------------------------------------------------------------
(* The inductive invariant behind LimitKept and ParsersBounded. *)

HoldingFrom(a) == {c \in Holding : AddressOf[c] = a}

\* The counters count the connections that hold a place, and no entry is zero.
Counted ==
  /\ global = Cardinality(Holding)
  /\ \A a \in Address : CountOf(a) = Cardinality(HoldingFrom(a))
  /\ \A a \in DOMAIN byIP : byIP[a] > 0

\* Who is in Close has closed the socket; a place is given back only then.
ClosedFirst ==
  \A c \in Conn : closing[c] # {} \/ c \in released => socket[c] = "closed"

WithinLimits ==
  /\ GlobalMax > 0 => global <= GlobalMax
  /\ PerIPMax > 0 => \A a \in Address : CountOf(a) <= PerIPMax

ConnInv == ConnTypeOK /\ Counted /\ ClosedFirst /\ WithinLimits

=============================================================================
