--------------------------- MODULE OpenConnections ---------------------------
(***************************************************************************)
(* What a connection limiter promises: a set of admitted connections with  *)
(* a bound on all of them and a bound on those from one address.  A        *)
(* connection is admitted only while both leave room, and a place that was *)
(* given back can be taken again.  A bound of zero is no bound.            *)
(***************************************************************************)
EXTENDS Connections

CONSTANTS
  GlobalMax,  \* bound on all admitted connections
  PerIPMax    \* bound on those from one address

VARIABLE open  \* the admitted connections

From(a) == {c \in open : AddressOf[c] = a}

Room(n, max) == max = 0 \/ n < max

OpenInit == open = {}

HasRoom(c) ==
  /\ Room(Cardinality(open), GlobalMax)
  /\ Room(Cardinality(From(AddressOf[c])), PerIPMax)

Admit(c) ==
  /\ c \notin open /\ HasRoom(c)
  /\ open' = open \cup {c}

Leave(c) == c \in open /\ open' = open \ {c}

OpenNext == \E c \in Conn : Admit(c) \/ Leave(c)

OpenSpec == OpenInit /\ [][OpenNext]_open

=============================================================================
