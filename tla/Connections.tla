----------------------------- MODULE Connections -----------------------------
(***************************************************************************)
(* TCP connections and the addresses they come from.                       *)
(***************************************************************************)
EXTENDS Naturals, FiniteSets

CONSTANTS
  Conn,      \* connections; one that is gone stands for a later one
  Address,   \* remote addresses
  AddressOf  \* the remote address of each connection

ASSUME ConnectionsAssumption ==
  /\ IsFiniteSet(Conn)
  /\ AddressOf \in [Conn -> Address]

=============================================================================
