-------------------------- MODULE ConnectionsProofs --------------------------
(***************************************************************************)
(* Proofs about ConnLimit, PreAuthGuard and GuardedReader: both limiters   *)
(* implement OpenConnections, the limits of an IMAP connection are lifted  *)
(* by a login of its own only, and the bytes that a parser is given before *)
(* login are bounded; for all limits and any finite set of connections.    *)
(***************************************************************************)
EXTENDS ConnLimit, PreAuthGuard, GuardedReader, FiniteSetTheorems, TLAPS

-----------------------------------------------------------------------------
(* Counters per address, as both limiters keep them in a map.                *)

Tally(f, a) == IF a \in DOMAIN f THEN f[a] ELSE 0

Raised(f, a) == [x \in DOMAIN f \cup {a} |-> IF x = a THEN Tally(f, a) + 1 ELSE f[x]]

Lowered(f, a) == IF Tally(f, a) <= 1 THEN [x \in DOMAIN f \ {a} |-> f[x]]
                 ELSE [f EXCEPT ![a] = @ - 1]

FromIn(S, a) == {c \in S : AddressOf[c] = a}

\* f counts the connections of S by address, without entries that are zero.
Tallies(f, S) ==
  /\ f \in [DOMAIN f -> Nat] /\ DOMAIN f \subseteq Address
  /\ \A a \in Address : Tally(f, a) = Cardinality(FromIn(S, a))
  /\ \A a \in DOMAIN f : f[a] > 0

LEMMA FiniteConn ==
  ASSUME NEW S \in SUBSET Conn
  PROVE  IsFiniteSet(S) /\ Cardinality(S) \in Nat
  BY ConnectionsAssumption, FS_Subset, FS_CardinalityType

LEMMA Joined ==
  ASSUME NEW S \in SUBSET Conn, NEW c \in Conn, c \notin S
  PROVE  Cardinality(S \cup {c}) = Cardinality(S) + 1
  BY FiniteConn, FS_AddElement

LEMMA Removed ==
  ASSUME NEW S \in SUBSET Conn, NEW c \in S
  PROVE  Cardinality(S \ {c}) = Cardinality(S) - 1
  BY FiniteConn, FS_RemoveElement

LEMMA RaisedTallies ==
  ASSUME NEW S \in SUBSET Conn, NEW c \in Conn, c \notin S, NEW f, Tallies(f, S)
  PROVE  Tallies(Raised(f, AddressOf[c]), S \cup {c})
  <1> DEFINE a == AddressOf[c]
             g == Raised(f, a)
  <1>1. a \in Address
    BY ConnectionsAssumption
  <1>2. Tally(f, a) \in Nat
    BY DEF Tally, Tallies
  <1>3. g \in [DOMAIN g -> Nat] /\ DOMAIN g \subseteq Address
    BY <1>1, <1>2 DEF Raised, Tallies
  <1>4. \A x \in DOMAIN g : g[x] > 0
    BY <1>1, <1>2 DEF Raised, Tallies
  <1>5. ASSUME NEW x \in Address
        PROVE  Tally(g, x) = Cardinality(FromIn(S \cup {c}, x))
    <2>1. CASE x = a
      <3>1. FromIn(S \cup {c}, x) = FromIn(S, x) \cup {c} /\ c \notin FromIn(S, x)
        BY <2>1 DEF FromIn
      <3>2. FromIn(S, x) \in SUBSET Conn
        BY DEF FromIn
      <3>3. Cardinality(FromIn(S \cup {c}, x)) = Cardinality(FromIn(S, x)) + 1
        BY <3>1, <3>2, Joined
      <3>4. Tally(g, x) = Tally(f, x) + 1
        BY <2>1 DEF Tally, Raised
      <3> QED
        BY <3>3, <3>4 DEF Tallies
    <2>2. CASE x # a
      <3>1. FromIn(S \cup {c}, x) = FromIn(S, x)
        BY <2>2 DEF FromIn
      <3>2. Tally(g, x) = Tally(f, x)
        BY <2>2 DEF Tally, Raised
      <3> QED
        BY <3>1, <3>2 DEF Tallies
    <2> QED
      BY <2>1, <2>2
  <1> QED
    BY <1>3, <1>4, <1>5 DEF Tallies

LEMMA LoweredTallies ==
  ASSUME NEW S \in SUBSET Conn, NEW c \in S, NEW f, Tallies(f, S)
  PROVE  Tallies(Lowered(f, AddressOf[c]), S \ {c})
  <1> DEFINE a == AddressOf[c]
             g == Lowered(f, a)
  <1>1. a \in Address
    BY ConnectionsAssumption
  <1>2. Tally(f, a) = Cardinality(FromIn(S, a))
    BY <1>1 DEF Tallies
  <1>3. FromIn(S, a) \in SUBSET Conn /\ c \in FromIn(S, a)
    BY DEF FromIn
  <1>4. Cardinality(FromIn(S, a) \ {c}) = Tally(f, a) - 1
    BY <1>2, <1>3, Removed
  <1>5. Cardinality(FromIn(S, a) \ {c}) \in Nat
    BY <1>3, FiniteConn
  <1>6. Tally(f, a) \in Nat
    BY DEF Tally, Tallies
  <1>7. Tally(f, a) >= 1 /\ a \in DOMAIN f
    BY <1>4, <1>5, <1>6 DEF Tally
  <1>8. g \in [DOMAIN g -> Nat] /\ DOMAIN g \subseteq Address
    <2>1. CASE Tally(f, a) <= 1
      BY <1>1, <2>1 DEF Lowered, Tallies
    <2>2. CASE ~(Tally(f, a) <= 1)
      <3>1. f[a] - 1 \in Nat
        BY <1>6, <1>7, <2>2 DEF Tally
      <3> QED
        BY <1>7, <2>2, <3>1 DEF Lowered, Tallies
    <2> QED
      BY <2>1, <2>2
  <1>9. \A x \in DOMAIN g : g[x] > 0
    <2>1. CASE Tally(f, a) <= 1
      BY <2>1 DEF Lowered, Tallies
    <2>2. CASE ~(Tally(f, a) <= 1)
      BY <1>6, <1>7, <2>2 DEF Lowered, Tallies, Tally
    <2> QED
      BY <2>1, <2>2
  <1>10. ASSUME NEW x \in Address
         PROVE  Tally(g, x) = Cardinality(FromIn(S \ {c}, x))
    <2>1. CASE x = a
      <3>1. FromIn(S \ {c}, x) = FromIn(S, a) \ {c}
        BY <2>1 DEF FromIn
      <3>2. Tally(g, x) = Tally(f, a) - 1
        <4>1. CASE Tally(f, a) <= 1
          <5>1. Tally(f, a) = 1
            BY <1>6, <1>7, <4>1
          <5> QED
            BY <2>1, <4>1, <5>1 DEF Tally, Lowered
        <4>2. CASE ~(Tally(f, a) <= 1)
          BY <1>7, <2>1, <4>2 DEF Tally, Lowered
        <4> QED
          BY <4>1, <4>2
      <3> QED
        BY <1>4, <3>1, <3>2
    <2>2. CASE x # a
      <3>1. FromIn(S \ {c}, x) = FromIn(S, x)
        BY <2>2 DEF FromIn
      <3>2. Tally(g, x) = Tally(f, x)
        BY <2>2 DEF Tally, Lowered
      <3> QED
        BY <3>1, <3>2 DEF Tallies
    <2> QED
      BY <2>1, <2>2
  <1> QED
    BY <1>8, <1>9, <1>10 DEF Tallies

-----------------------------------------------------------------------------
(* ConnLimit.                                                                *)

LEMMA CountedTallies ==
  ASSUME ConnTypeOK
  PROVE  Counted <=> global = Cardinality(Holding) /\ Tallies(byIP, Holding)
  <1>1. \A a \in Address : CountOf(a) = Tally(byIP, a) /\ HoldingFrom(a) = FromIn(Holding, a)
    BY DEF CountOf, Tally, HoldingFrom, FromIn
  <1> QED
    BY <1>1 DEF Counted, Tallies, ConnTypeOK

LEMMA CountTypes == ASSUME ConnTypeOK, NEW a PROVE CountOf(a) \in Nat
  BY DEF ConnTypeOK, CountOf

\* What comes before Acquire and after Close leaves Holding alone, as does a Close
\* that is not the first to return.
LEMMA HoldingKept ==
  ASSUME ConnInv,
         \/ \E c \in Conn : Accept(c) \/ Refuse(c) \/ Forget(c)
         \/ UNCHANGED connVars
  PROVE  /\ Holding' = Holding /\ global' = global /\ byIP' = byIP
         /\ ConnTypeOK' /\ ClosedFirst'
  <1> USE DEF ConnInv, ConnTypeOK
  <1>1. ASSUME NEW c \in Conn, Accept(c)
        PROVE  /\ Holding' = Holding /\ global' = global /\ byIP' = byIP
               /\ ConnTypeOK' /\ ClosedFirst'
    BY <1>1 DEF Accept, Holding, ClosedFirst
  <1>2. ASSUME NEW c \in Conn, Refuse(c)
        PROVE  /\ Holding' = Holding /\ global' = global /\ byIP' = byIP
               /\ ConnTypeOK' /\ ClosedFirst'
    BY <1>2 DEF Refuse, Holding, ClosedFirst
  <1>3. ASSUME NEW c \in Conn, Forget(c)
        PROVE  /\ Holding' = Holding /\ global' = global /\ byIP' = byIP
               /\ ConnTypeOK' /\ ClosedFirst'
    BY <1>3 DEF Forget, Holding, ClosedFirst
  <1>4. CASE UNCHANGED connVars
    BY <1>4 DEF connVars, Holding, ClosedFirst
  <1> QED
    BY <1>1, <1>2, <1>3, <1>4

LEMMA HoldingStays ==
  ASSUME ConnInv, NEW c \in Conn, NEW g \in Closer,
         CloseSocket(c, g) \/ (ReturnFromClose(c, g) /\ c \in released)
  PROVE  /\ Holding' = Holding /\ global' = global /\ byIP' = byIP
         /\ ConnTypeOK' /\ ClosedFirst'
  <1> USE DEF ConnInv, ConnTypeOK
  <1>1. CASE CloseSocket(c, g)
    BY <1>1 DEF CloseSocket, Holding, ClosedFirst
  <1>2. CASE ReturnFromClose(c, g) /\ c \in released
    BY <1>2 DEF ReturnFromClose, Holding, ClosedFirst
  <1> QED
    BY <1>1, <1>2

LEMMA HoldingGrows ==
  ASSUME ConnInv, NEW c \in Conn, Acquire(c)
  PROVE  /\ c \notin Holding /\ Holding' = Holding \cup {c}
         /\ ConnTypeOK' /\ ClosedFirst'
  <1> USE DEF ConnInv, ConnTypeOK, Acquire
  <1>1. c \notin Holding /\ Holding' = Holding \cup {c}
    BY DEF Holding, ClosedFirst
  <1>2. AddressOf[c] \in Address /\ CountOf(AddressOf[c]) \in Nat
    BY ConnectionsAssumption, CountTypes
  <1>3. ConnTypeOK'
    BY <1>2
  <1>4. ClosedFirst'
    BY DEF ClosedFirst
  <1> QED
    BY <1>1, <1>3, <1>4

\* The goroutine that passes once.Do holds the place of its connection.
LEMMA HoldingShrinks ==
  ASSUME ConnInv, NEW c \in Conn, NEW g \in Closer, ReturnFromClose(c, g), c \notin released
  PROVE  /\ c \in Holding /\ Holding' = Holding \ {c}
         /\ ConnTypeOK' /\ ClosedFirst'
  <1> USE DEF ConnInv
  <1>1. /\ g \in closing[c] /\ released' = released \cup {c} /\ socket' = socket
        /\ closing' = [closing EXCEPT ![c] = @ \ {g}]
        /\ Release(AddressOf[c])
    BY DEF ReturnFromClose
  <1>2. socket[c] = "closed"
    BY <1>1 DEF ClosedFirst
  <1>3. c \in Holding /\ Holding' = Holding \ {c}
    BY <1>1, <1>2 DEF Holding
  <1>4. global' \in Nat
    BY <1>1 DEF ConnTypeOK, Release
  <1>5. byIP' \in [DOMAIN byIP' -> Nat] /\ DOMAIN byIP' \subseteq Address
    <2> DEFINE a == AddressOf[c]
    <2>1. CASE CountOf(a) <= 1
      BY <1>1, <2>1 DEF ConnTypeOK, Release
    <2>2. CASE ~(CountOf(a) <= 1)
      <3>1. a \in DOMAIN byIP /\ byIP[a] - 1 \in Nat
        BY <2>2 DEF CountOf, ConnTypeOK
      <3> QED
        BY <1>1, <2>2, <3>1 DEF ConnTypeOK, Release
    <2> QED
      BY <2>1, <2>2
  <1>6. ConnTypeOK'
    BY <1>1, <1>4, <1>5 DEF ConnTypeOK
  <1>7. ClosedFirst'
    BY <1>1, <1>2 DEF ClosedFirst, ConnTypeOK
  <1> QED
    BY <1>3, <1>6, <1>7

LEMMA ConnInvInit == ConnInit => ConnInv
  <1> SUFFICES ASSUME ConnInit
               PROVE  ConnInv
    OBVIOUS
  <1> USE DEF ConnInit
  <1>1. ConnTypeOK /\ ClosedFirst
    BY DEF ConnTypeOK, ClosedFirst
  <1>2. Holding = {} /\ \A a \in Address : HoldingFrom(a) = {} /\ CountOf(a) = 0
    BY DEF Holding, HoldingFrom, CountOf
  <1>3. Cardinality({}) = 0
    BY FS_EmptySet
  <1>4. Counted
    BY <1>2, <1>3 DEF Counted
  <1>5. WithinLimits
    BY <1>2, ConnLimitAssumption DEF WithinLimits
  <1> QED
    BY <1>1, <1>4, <1>5 DEF ConnInv

LEMMA AcquireKeepsInv ==
  ASSUME ConnInv, NEW c \in Conn, Acquire(c)
  PROVE  ConnInv'
  <1> DEFINE a == AddressOf[c]
  <1>1. c \notin Holding /\ Holding' = Holding \cup {c} /\ ConnTypeOK' /\ ClosedFirst'
    BY HoldingGrows
  <1>2. Holding \in SUBSET Conn
    BY DEF Holding
  <1>3. byIP' = Raised(byIP, a) /\ global' = global + 1 /\ ~Refuses(a)
    BY DEF Acquire, Raised, Tally, CountOf
  <1>4. global = Cardinality(Holding) /\ Tallies(byIP, Holding)
    BY CountedTallies DEF ConnInv
  <1>5. global' = Cardinality(Holding') /\ Tallies(byIP', Holding')
    BY <1>1, <1>2, <1>3, <1>4, Joined, RaisedTallies
  <1>6. Counted'
    <2>1. \A x \in Address : (CountOf(x) = Tally(byIP, x) /\ HoldingFrom(x) = FromIn(Holding, x))'
      BY DEF CountOf, Tally, HoldingFrom, FromIn
    <2> QED
      BY <1>5, <2>1 DEF Counted, Tallies
  <1>7. WithinLimits'
    <2>1. GlobalMax > 0 => global < GlobalMax
      BY <1>3, ConnLimitAssumption DEF Refuses, Full, ConnInv, ConnTypeOK
    <2>2. PerIPMax > 0 => CountOf(a) < PerIPMax
      BY <1>3, ConnLimitAssumption, CountTypes DEF Refuses, Full, ConnInv
    <2>3. \A x \in Address : CountOf(x)' = IF x = a THEN CountOf(a) + 1 ELSE CountOf(x)
      BY <1>3 DEF CountOf, Raised, Tally
    <2>4. GlobalMax > 0 => global' <= GlobalMax
      BY <1>3, <2>1, ConnLimitAssumption DEF ConnInv, ConnTypeOK
    <2>5. \A x \in Address : PerIPMax > 0 => CountOf(x)' <= PerIPMax
      BY <2>2, <2>3, ConnLimitAssumption, CountTypes DEF ConnInv, WithinLimits
    <2> QED
      BY <2>4, <2>5 DEF WithinLimits
  <1> QED
    BY <1>1, <1>6, <1>7 DEF ConnInv

LEMMA ReleaseKeepsInv ==
  ASSUME ConnInv, NEW c \in Conn, NEW g \in Closer, ReturnFromClose(c, g), c \notin released
  PROVE  ConnInv'
  <1> DEFINE a == AddressOf[c]
  <1>1. c \in Holding /\ Holding' = Holding \ {c} /\ ConnTypeOK' /\ ClosedFirst'
    BY HoldingShrinks
  <1>2. Holding \in SUBSET Conn
    BY DEF Holding
  <1>3. global = Cardinality(Holding) /\ Tallies(byIP, Holding)
    BY CountedTallies DEF ConnInv
  <1>4. Cardinality(Holding \ {c}) = global - 1 /\ Cardinality(Holding \ {c}) \in Nat
    BY <1>1, <1>2, <1>3, Removed, FiniteConn
  <1>5. /\ global' = IF global > 0 THEN global - 1 ELSE global
        /\ byIP' = Lowered(byIP, a)
    BY DEF ReturnFromClose, Release, Lowered, Tally, CountOf
  <1>6. global' = Cardinality(Holding')
    BY <1>1, <1>4, <1>5 DEF ConnInv, ConnTypeOK
  <1>7. Tallies(byIP', Holding')
    BY <1>1, <1>2, <1>3, <1>5, LoweredTallies
  <1>8. \A x \in Address : (CountOf(x) = Tally(byIP, x) /\ HoldingFrom(x) = FromIn(Holding, x))'
    BY DEF CountOf, Tally, HoldingFrom, FromIn
  <1>9. Counted'
    BY <1>6, <1>7, <1>8 DEF Counted, Tallies
  <1>10. WithinLimits'
    <2>1. GlobalMax > 0 => global' <= GlobalMax
      BY <1>4, <1>5, ConnLimitAssumption DEF ConnInv, ConnTypeOK, WithinLimits
    <2>2. ASSUME NEW x \in Address
          PROVE  CountOf(x)' <= CountOf(x)
      <3>1. FromIn(Holding', x) \subseteq FromIn(Holding, x) /\ FromIn(Holding, x) \in SUBSET Conn
        BY <1>1, <1>2 DEF FromIn
      <3>2. Cardinality(FromIn(Holding', x)) <= Cardinality(FromIn(Holding, x))
        BY <3>1, FiniteConn, FS_Subset
      <3>3. CountOf(x) = Cardinality(FromIn(Holding, x))
        BY <1>3 DEF CountOf, Tally, Tallies
      <3>4. CountOf(x)' = Cardinality(FromIn(Holding', x))
        BY <1>7, <1>8 DEF Tallies
      <3> QED
        BY <3>2, <3>3, <3>4
    <2>3. \A x \in Address : CountOf(x) \in Nat /\ CountOf(x)' \in Nat
      BY <1>1, CountTypes DEF ConnInv, ConnTypeOK, CountOf
    <2>4. \A x \in Address : PerIPMax > 0 => CountOf(x)' <= PerIPMax
      BY <2>2, <2>3, ConnLimitAssumption DEF ConnInv, WithinLimits
    <2> QED
      BY <2>1, <2>4 DEF WithinLimits
  <1> QED
    BY <1>1, <1>9, <1>10 DEF ConnInv

LEMMA StayKeepsInv ==
  ASSUME ConnInv, Holding' = Holding, global' = global, byIP' = byIP, ConnTypeOK', ClosedFirst'
  PROVE  ConnInv'
  BY DEF ConnInv, Counted, WithinLimits, CountOf, HoldingFrom

\* Every step keeps the invariant, and admits or lets go one connection at most.
LEMMA ConnStep ==
  ASSUME ConnInv, [ConnNext]_connVars
  PROVE  /\ ConnInv'
         /\ \/ Holding' = Holding
            \/ \E c \in Conn : Acquire(c) /\ c \notin Holding /\ Holding' = Holding \cup {c}
            \/ \E c \in Holding : Holding' = Holding \ {c}
  <1>1. ASSUME NEW c \in Conn, Accept(c) \/ Refuse(c) \/ Forget(c)
        PROVE  ConnInv' /\ Holding' = Holding
    <2>1. Holding' = Holding /\ global' = global /\ byIP' = byIP /\ ConnTypeOK' /\ ClosedFirst'
      BY <1>1, HoldingKept
    <2> QED
      BY <2>1, StayKeepsInv
  <1>2. ASSUME NEW c \in Conn, NEW g \in Closer,
               CloseSocket(c, g) \/ (ReturnFromClose(c, g) /\ c \in released)
        PROVE  ConnInv' /\ Holding' = Holding
    BY <1>2, HoldingStays, StayKeepsInv
  <1>3. ASSUME NEW c \in Conn, Acquire(c)
        PROVE  ConnInv' /\ c \notin Holding /\ Holding' = Holding \cup {c}
    BY <1>3, HoldingGrows, AcquireKeepsInv
  <1>4. ASSUME NEW c \in Conn, NEW g \in Closer, ReturnFromClose(c, g), c \notin released
        PROVE  ConnInv' /\ c \in Holding /\ Holding' = Holding \ {c}
    BY <1>4, HoldingShrinks, ReleaseKeepsInv
  <1>5. CASE UNCHANGED connVars
    BY <1>5, HoldingKept, StayKeepsInv
  <1> QED
    BY <1>1, <1>2, <1>3, <1>4, <1>5 DEF ConnNext

\* The counters of connlimit.Limiter are the connections that hold a place, for any
\* limits and however many goroutines close the same connection.
THEOREM ConnAlways == ConnSpec => []ConnInv
  <1>1. ConnInv /\ [ConnNext]_connVars => ConnInv'
    BY ConnStep
  <1> QED
    BY <1>1, ConnInvInit, PTL DEF ConnSpec

\* Sockets that a protocol parser works on stay within the limits.
THEOREM ParsersAlwaysBounded == ConnSpec => []ParsersBounded
  <1>1. ASSUME ConnInv
        PROVE  ParsersBounded
    <2> DEFINE working == {c \in Conn : socket[c] = "tracked"}
               at(a) == {c \in working : AddressOf[c] = a}
    <2>1. working \subseteq Holding /\ Holding \in SUBSET Conn
      BY <1>1 DEF Holding, ConnInv, ClosedFirst
    <2>2. Cardinality(working) \in Nat /\ Cardinality(working) <= global
      BY <1>1, <2>1, FiniteConn, FS_Subset DEF ConnInv, Counted
    <2>3. ASSUME NEW a \in Address
          PROVE  Cardinality(at(a)) \in Nat /\ Cardinality(at(a)) <= CountOf(a)
      <3>1. at(a) \subseteq HoldingFrom(a) /\ HoldingFrom(a) \in SUBSET Conn
        BY <2>1 DEF HoldingFrom
      <3> QED
        BY <1>1, <3>1, FiniteConn, FS_Subset DEF ConnInv, Counted
    <2>4. global \in Nat /\ \A a \in Address : CountOf(a) \in Nat
      BY <1>1, CountTypes DEF ConnInv, ConnTypeOK
    <2>5. GlobalMax > 0 => Cardinality(working) <= GlobalMax
      BY <1>1, <2>2, <2>4, ConnLimitAssumption DEF ConnInv, WithinLimits
    <2>6. \A a \in Address : PerIPMax > 0 => Cardinality(at(a)) <= PerIPMax
      BY <1>1, <2>3, <2>4, ConnLimitAssumption DEF ConnInv, WithinLimits
    <2> QED
      BY <2>5, <2>6 DEF ParsersBounded
  <1> QED
    BY <1>1, ConnAlways, PTL

\* The limiter implements OpenConnections, and refuses only who has no room there.
THEOREM LimitAlwaysKept == ConnSpec => LimitKept
  <1>1. ConnInit => Admitted!OpenInit
    BY DEF ConnInit, Holding, Admitted!OpenInit
  <1>2. ASSUME ConnInv, NEW c \in Conn
        PROVE  Admitted!HasRoom(c) <=> ~Refuses(AddressOf[c])
    <2>1. AddressOf[c] \in Address
      BY ConnectionsAssumption
    <2>2. Admitted!From(AddressOf[c]) = HoldingFrom(AddressOf[c])
      BY DEF Admitted!From, HoldingFrom
    <2>3. /\ Cardinality(Holding) = global
          /\ Cardinality(HoldingFrom(AddressOf[c])) = CountOf(AddressOf[c])
          /\ global \in Nat /\ CountOf(AddressOf[c]) \in Nat
      BY <1>2, <2>1, CountTypes DEF ConnInv, ConnTypeOK, Counted
    <2>4. \A n, max \in Nat : Admitted!Room(n, max) <=> ~Full(n, max)
      BY DEF Admitted!Room, Full
    <2>5. \A S : Admitted!Cardinality(S) = Cardinality(S)
      BY DEF Cardinality, Admitted!Cardinality
    <2> QED
      BY <2>2, <2>3, <2>4, <2>5, ConnLimitAssumption DEF Admitted!HasRoom, Refuses
  <1>3. ConnInv /\ [ConnNext]_connVars => [Admitted!OpenNext]_Holding
    <2> SUFFICES ASSUME ConnInv, [ConnNext]_connVars, Holding' # Holding
                 PROVE  Admitted!OpenNext
      OBVIOUS
    <2>1. ASSUME NEW c \in Conn, Acquire(c), c \notin Holding, Holding' = Holding \cup {c}
          PROVE  Admitted!Admit(c)
      BY <1>2, <2>1 DEF Acquire, Admitted!Admit
    <2>2. ASSUME NEW c \in Holding, Holding' = Holding \ {c}
          PROVE  c \in Conn /\ Admitted!Leave(c)
      BY <2>2 DEF Admitted!Leave, Holding
    <2> QED
      BY <2>1, <2>2, ConnStep DEF Admitted!OpenNext
  <1>4. ConnInv /\ [ConnNext]_connVars
          => [\A c \in Conn : Refuse(c) => ~Admitted!HasRoom(c)]_connVars
    BY <1>2 DEF Refuse
  <1> QED
    BY <1>1, <1>3, <1>4, ConnAlways, PTL DEF ConnSpec, LimitKept, Admitted!OpenSpec

-----------------------------------------------------------------------------
(* PreAuthGuard.                                                             *)

LEMMA CountedHolders ==
  ASSUME GuardTypeOK
  PROVE  PlacesCounted <=> /\ \A k \in DOMAIN held : KeyOf[held[k]] = k
                           /\ Tallies(heldByIP, Holders)
  <1>1. \A a \in Address : HeldBy(a) = Tally(heldByIP, a) /\ HoldersFrom(a) = FromIn(Holders, a)
    BY DEF HeldBy, Tally, HoldersFrom, FromIn
  <1> QED
    BY <1>1 DEF PlacesCounted, Tallies, GuardTypeOK

\* A connection is found under its key, and as many keys are held as connections.
LEMMA HeldOnce ==
  ASSUME GuardTypeOK, PlacesCounted
  PROVE  /\ Holders \in SUBSET Conn
         /\ \A c \in Holders : KeyOf[c] \in DOMAIN held /\ held[KeyOf[c]] = c
         /\ Cardinality(DOMAIN held) = Cardinality(Holders)
  <1>1. Holders \in SUBSET Conn
    BY DEF Holders, GuardTypeOK
  <1>2. \A c \in Holders : KeyOf[c] \in DOMAIN held /\ held[KeyOf[c]] = c
    BY DEF Holders, PlacesCounted
  <1>3. Cardinality(DOMAIN held) = Cardinality(Holders)
    <2> DEFINE f == [c \in Holders |-> KeyOf[c]]
    <2>1. f \in [Holders -> DOMAIN held]
      BY <1>2
    <2>2. \A c, d \in Holders : f[c] = f[d] => c = d
      BY <1>2
    <2>3. \A k \in DOMAIN held : held[k] \in Holders /\ f[held[k]] = k
      BY DEF Holders, PlacesCounted
    <2>4. f \in Bijection(Holders, DOMAIN held)
      BY <2>1, <2>2, <2>3 DEF Bijection, Injection, IsInjective, Surjection
    <2> QED
      BY <1>1, <2>4, FiniteConn, FS_Bijection DEF ExistsBijection
  <1> QED
    BY <1>1, <1>2, <1>3

\* admit takes a place under a key that nobody holds.
LEMMA PlaceTaken ==
  ASSUME GuardInv, NEW c \in Conn, Admit(c)
  PROVE  /\ c \notin Holders /\ Holders' = Holders \cup {c}
         /\ GuardTypeOK' /\ PlacesCounted'
  <1> DEFINE a == AddressOf[c]
             k == KeyOf[c]
  <1> USE DEF GuardInv
  <1>1. c \notin Holders /\ k \notin DOMAIN held /\ k \in Key /\ a \in Address
    BY ConnectionsAssumption, PreAuthGuardAssumption DEF Admit, HasPlace, Placed
  <1>2. held' = [x \in DOMAIN held \cup {k} |-> IF x = k THEN c ELSE held[x]]
    BY DEF Admit
  <1>3. Holders' = Holders \cup {c}
    BY <1>1, <1>2 DEF Holders
  <1>4. heldByIP' = Raised(heldByIP, a)
    BY DEF Admit, Raised, Tally, HeldBy
  <1>5. Tallies(heldByIP, Holders) /\ Holders \in SUBSET Conn
    BY CountedHolders, HeldOnce
  <1>6. Tallies(heldByIP', Holders')
    BY <1>1, <1>3, <1>4, <1>5, RaisedTallies
  <1>7. GuardTypeOK'
    <2>1. held' \in [DOMAIN held' -> Conn] /\ DOMAIN held' \subseteq Key
      BY <1>1, <1>2 DEF GuardTypeOK
    <2>2. heldByIP' \in [DOMAIN heldByIP' -> Nat] /\ DOMAIN heldByIP' \subseteq Address
      BY <1>6 DEF Tallies
    <2> QED
      BY <2>1, <2>2 DEF GuardTypeOK, Admit
  <1>8. PlacesCounted'
    <2>1. \A x \in DOMAIN held' : KeyOf[held'[x]] = x
      BY <1>2 DEF PlacesCounted
    <2>2. \A x \in Address : (HeldBy(x) = Tally(heldByIP, x) /\ HoldersFrom(x) = FromIn(Holders, x))'
      BY DEF HeldBy, Tally, HoldersFrom, FromIn
    <2> QED
      BY <1>6, <2>1, <2>2 DEF PlacesCounted, Tallies
  <1> QED
    BY <1>1, <1>3, <1>7, <1>8

\* release by a connection that holds a place gives back that one.
LEMMA PlaceGivenBack ==
  ASSUME GuardInv, NEW c \in Holders, ReleasePlace(c)
  PROVE  /\ Holders' = Holders \ {c}
         /\ held' \in [DOMAIN held' -> Conn] /\ DOMAIN held' \subseteq Key
         /\ heldByIP' \in [DOMAIN heldByIP' -> Nat] /\ DOMAIN heldByIP' \subseteq Address
         /\ PlacesCounted'
  <1> DEFINE a == AddressOf[c]
             k == KeyOf[c]
  <1> USE DEF GuardInv
  <1>1. Holders \in SUBSET Conn /\ k \in DOMAIN held /\ held[k] = c
    BY HeldOnce
  <1>2. held' = [x \in DOMAIN held \ {k} |-> held[x]]
    BY <1>1 DEF ReleasePlace
  <1>3. heldByIP' = Lowered(heldByIP, a)
    BY <1>1 DEF ReleasePlace, Lowered, Tally, HeldBy
  <1>4. Holders' = Holders \ {c}
    BY <1>1, <1>2 DEF Holders, PlacesCounted
  <1>5. Tallies(heldByIP, Holders)
    BY CountedHolders
  <1>6. Tallies(heldByIP', Holders')
    BY <1>1, <1>3, <1>4, <1>5, LoweredTallies
  <1>7. PlacesCounted'
    <2>1. \A x \in DOMAIN held' : KeyOf[held'[x]] = x
      BY <1>2 DEF PlacesCounted
    <2>2. \A x \in Address : (HeldBy(x) = Tally(heldByIP, x) /\ HoldersFrom(x) = FromIn(Holders, x))'
      BY DEF HeldBy, Tally, HoldersFrom, FromIn
    <2> QED
      BY <1>6, <2>1, <2>2 DEF PlacesCounted, Tallies
  <1> QED
    BY <1>2, <1>4, <1>6, <1>7 DEF GuardTypeOK, Tallies

LEMMA GuardInvInit == GuardInit => GuardInv
  <1> SUFFICES ASSUME GuardInit
               PROVE  GuardInv
    OBVIOUS
  <1> USE DEF GuardInit
  <1>1. GuardTypeOK
    BY DEF GuardTypeOK
  <1>2. Holders = {} /\ \A a \in Address : HoldersFrom(a) = {} /\ HeldBy(a) = 0
    BY DEF Holders, HoldersFrom, HeldBy
  <1>3. PlacesCounted
    BY <1>2, FS_EmptySet DEF PlacesCounted
  <1>4. Placed /\ LoginPlaced /\ LiftedByLogin
    BY <1>2 DEF Placed, LoginPlaced, LiftedByLogin
  <1> QED
    BY <1>1, <1>3, <1>4 DEF GuardInv

LEMMA AdmitKeepsInv ==
  ASSUME GuardInv, NEW c \in Conn, Admit(c)
  PROVE  GuardInv' /\ c \notin Holders /\ Holders' = Holders \cup {c}
  <1>1. c \notin Holders /\ Holders' = Holders \cup {c} /\ GuardTypeOK' /\ PlacesCounted'
    BY PlaceTaken
  <1>2. Placed'
    BY <1>1 DEF GuardInv, GuardTypeOK, Placed, Admit
  <1>3. (accepting => LoginPlaced)' /\ LiftedByLogin'
    BY DEF GuardInv, GuardTypeOK, LoginPlaced, LiftedByLogin, Admit
  <1> QED
    BY <1>1, <1>2, <1>3 DEF GuardInv

LEMMA ClockFailsKeepsInv ==
  ASSUME GuardInv, NEW c \in Conn, ClockFails(c)
  PROVE  GuardInv' /\ c \in Holders /\ Holders' = Holders \ {c}
  <1>1. c \in Holders /\ ReleasePlace(c)
    BY DEF GuardInv, Placed, ClockFails
  <1>2. /\ Holders' = Holders \ {c}
        /\ held' \in [DOMAIN held' -> Conn] /\ DOMAIN held' \subseteq Key
        /\ heldByIP' \in [DOMAIN heldByIP' -> Nat] /\ DOMAIN heldByIP' \subseteq Address
        /\ PlacesCounted'
    BY <1>1, PlaceGivenBack
  <1>3. GuardTypeOK'
    BY <1>2 DEF GuardInv, GuardTypeOK, ClockFails
  <1>4. Placed'
    BY <1>2 DEF GuardInv, GuardTypeOK, Placed, ClockFails
  <1>5. (accepting => LoginPlaced)' /\ LiftedByLogin'
    BY DEF GuardInv, GuardTypeOK, LoginPlaced, LiftedByLogin, ClockFails
  <1> QED
    BY <1>1, <1>2, <1>3, <1>4, <1>5 DEF GuardInv

\* While the server accepts, only a connection outside of Login is closed.
LEMMA CloseKeepsInv ==
  ASSUME GuardInv, NEW c \in Conn, ReadTimesOut(c) \/ Drop(c)
  PROVE  GuardInv' /\ c \in Holders /\ Holders' = Holders \ {c}
  <1>1. StartClose(c) /\ (AtCommand(c) \/ ~accepting)
    BY DEF ReadTimesOut, Drop
  <1>2. c \in Holders /\ ReleasePlace(c)
    BY <1>1 DEF GuardInv, Placed, StartClose
  <1>3. /\ Holders' = Holders \ {c}
        /\ held' \in [DOMAIN held' -> Conn] /\ DOMAIN held' \subseteq Key
        /\ heldByIP' \in [DOMAIN heldByIP' -> Nat] /\ DOMAIN heldByIP' \subseteq Address
        /\ PlacesCounted'
    BY <1>2, PlaceGivenBack
  <1>4. GuardTypeOK'
    BY <1>1, <1>3 DEF GuardInv, GuardTypeOK, StartClose
  <1>5. Placed'
    BY <1>1, <1>3 DEF GuardInv, GuardTypeOK, Placed, StartClose
  <1>6. (accepting => LoginPlaced)' /\ LiftedByLogin'
    BY <1>1 DEF GuardInv, GuardTypeOK, LoginPlaced, LiftedByLogin, StartClose, AtCommand
  <1> QED
    BY <1>2, <1>3, <1>4, <1>5, <1>6 DEF GuardInv

LEMMA PlacesStay ==
  ASSUME PlacesCounted, UNCHANGED places
  PROVE  Holders' = Holders /\ PlacesCounted'
  BY DEF places, Holders, PlacesCounted, HeldBy, HoldersFrom

\* The phase of a connection moves on without its place.
LEMMA PhaseKeepsInv ==
  ASSUME GuardInv, NEW c \in Conn,
         NewConn(c) \/ TurnAway(c) \/ StartClock(c) \/ ShutSocket(c) \/ ForgetConn(c)
  PROVE  GuardInv' /\ Holders' = Holders
  <1> USE DEF GuardInv
  <1>1. UNCHANGED places
    BY DEF places, NewConn, TurnAway, StartClock, ShutSocket, ForgetConn
  <1>2. Holders' = Holders /\ PlacesCounted'
    BY <1>1, PlacesStay
  <1>3. GuardTypeOK'
    BY DEF GuardTypeOK, NewConn, TurnAway, StartClock, ShutSocket, ForgetConn
  <1>4. Placed'
    BY <1>2 DEF GuardTypeOK, Placed, NewConn, TurnAway, StartClock, ShutSocket, ForgetConn
  <1>5. (accepting => LoginPlaced)' /\ LiftedByLogin'
    <2> USE DEF GuardTypeOK, Placed, LoginPlaced, LiftedByLogin
    <2>1. CASE NewConn(c)
      BY <2>1 DEF NewConn
    <2>2. CASE TurnAway(c)
      BY <2>2 DEF TurnAway
    <2>3. CASE StartClock(c)
      BY <2>3 DEF StartClock
    <2>4. CASE ShutSocket(c)
      BY <2>4 DEF ShutSocket
    <2>5. CASE ForgetConn(c)
      BY <2>5 DEF ForgetConn
    <2> QED
      BY <2>1, <2>2, <2>3, <2>4, <2>5
  <1> QED
    BY <1>2, <1>3, <1>4, <1>5

\* What a guarded connection does between admission and Close.
LEMMA LoginKeepsInv ==
  ASSUME GuardInv, NEW c \in Conn,
         \/ SetDeadline(c) \/ BeginLogin(c) \/ FindConn(c) \/ MarkAuthenticated(c)
         \/ \E right \in BOOLEAN : PasswordVerified(c, right)
  PROVE  GuardInv' /\ Holders' = Holders
  <1> USE DEF GuardInv
  <1>1. UNCHANGED <<held, heldByIP, phase, closed, due, lost, accepting>>
    BY DEF SetDeadline, BeginLogin, FindConn, MarkAuthenticated, PasswordVerified
  <1>2. Holders' = Holders /\ PlacesCounted'
    BY <1>1, PlacesStay DEF places
  <1>3. Placed'
    BY <1>1, <1>2 DEF Placed
  <1>4. CASE SetDeadline(c)
    <2>1. GuardTypeOK'
      BY <1>4 DEF GuardTypeOK, SetDeadline, CappedReadDeadline
    <2>2. (accepting => LoginPlaced)' /\ LiftedByLogin'
      BY <1>4 DEF GuardTypeOK, LoginPlaced, LiftedByLogin, SetDeadline, CappedReadDeadline
    <2> QED
      BY <1>2, <1>3, <2>1, <2>2
  <1>5. CASE BeginLogin(c)
    <2>1. GuardTypeOK'
      BY <1>5 DEF GuardTypeOK, BeginLogin
    <2>2. (accepting => LoginPlaced)' /\ LiftedByLogin'
      BY <1>5 DEF GuardTypeOK, LoginPlaced, LiftedByLogin, BeginLogin, AtCommand
    <2> QED
      BY <1>2, <1>3, <2>1, <2>2
  <1>6. ASSUME NEW right \in BOOLEAN, PasswordVerified(c, right)
        PROVE  GuardInv'
    <2>1. GuardTypeOK'
      BY <1>6 DEF GuardTypeOK, PasswordVerified
    <2>2. (accepting => LoginPlaced)' /\ LiftedByLogin'
      BY <1>6 DEF GuardTypeOK, LoginPlaced, LiftedByLogin, PasswordVerified
    <2> QED
      BY <1>2, <1>3, <2>1, <2>2
  <1>7. CASE FindConn(c)
    <2>1. GuardTypeOK'
      BY <1>7 DEF GuardTypeOK, FindConn
    <2>2. accepting => held[KeyOf[c]] = c
      <3>1. accepting => c \in Holders
        BY <1>7 DEF FindConn, LoginPlaced, Placed
      <3> QED
        BY <3>1, HeldOnce
    <2>3. (accepting => LoginPlaced)' /\ LiftedByLogin'
      BY <1>7, <2>2 DEF GuardTypeOK, LoginPlaced, LiftedByLogin, FindConn
    <2> QED
      BY <1>2, <1>3, <2>1, <2>3
  <1>8. CASE MarkAuthenticated(c)
    <2>1. GuardTypeOK'
      BY <1>8 DEF GuardTypeOK, MarkAuthenticated
    <2>2. (accepting => LoginPlaced)' /\ LiftedByLogin'
      BY <1>8 DEF GuardTypeOK, LoginPlaced, LiftedByLogin, MarkAuthenticated
    <2> QED
      BY <1>2, <1>3, <2>1, <2>2
  <1> QED
    BY <1>2, <1>4, <1>5, <1>6, <1>7, <1>8

\* Time, the peer, the server being closed, and a step of something else.
LEMMA OutsideKeepsInv ==
  ASSUME GuardInv,
         \/ \E c \in Conn : PreAuthTimePasses(c) \/ PeerResets(c)
         \/ CloseServer \/ UNCHANGED guardVars
  PROVE  GuardInv' /\ Holders' = Holders
  <1> USE DEF GuardInv
  <1>1. UNCHANGED <<held, heldByIP, phase, login, target, authenticated, closed, deadline>>
    BY DEF PreAuthTimePasses, PeerResets, CloseServer, guardVars
  <1>2. Holders' = Holders /\ PlacesCounted'
    BY <1>1, PlacesStay DEF places
  <1>3. GuardTypeOK'
    BY DEF GuardTypeOK, PreAuthTimePasses, PeerResets, CloseServer, guardVars
  <1>4. accepting' => accepting
    BY DEF PreAuthTimePasses, PeerResets, CloseServer, guardVars
  <1>5. Placed' /\ (accepting => LoginPlaced)' /\ LiftedByLogin'
    BY <1>1, <1>2, <1>4 DEF Placed, LoginPlaced, LiftedByLogin
  <1> QED
    BY <1>2, <1>3, <1>5

\* Every step keeps the invariant, and admits or lets go one connection at most.
LEMMA GuardInvStep ==
  ASSUME GuardInv, [GuardNext]_guardVars
  PROVE  /\ GuardInv'
         /\ \/ Holders' = Holders
            \/ \E c \in Conn : Admit(c) /\ c \notin Holders /\ Holders' = Holders \cup {c}
            \/ \E c \in Holders : Holders' = Holders \ {c}
  <1>1. CASE CloseServer \/ UNCHANGED guardVars
    BY <1>1, OutsideKeepsInv
  <1>2. ASSUME NEW c \in Conn, GuardStep(c)
        PROVE  /\ GuardInv'
               /\ \/ Holders' = Holders
                  \/ Admit(c) /\ c \notin Holders /\ Holders' = Holders \cup {c}
                  \/ c \in Holders /\ Holders' = Holders \ {c}
    <2>1. CASE Admit(c)
      BY <2>1, AdmitKeepsInv
    <2>2. CASE ClockFails(c)
      BY <2>2, ClockFailsKeepsInv
    <2>3. CASE ReadTimesOut(c) \/ Drop(c)
      BY <2>3, CloseKeepsInv
    <2>4. CASE NewConn(c) \/ TurnAway(c) \/ StartClock(c) \/ ShutSocket(c) \/ ForgetConn(c)
      BY <2>4, PhaseKeepsInv
    <2>5. CASE \/ SetDeadline(c) \/ BeginLogin(c) \/ FindConn(c) \/ MarkAuthenticated(c)
               \/ \E right \in BOOLEAN : PasswordVerified(c, right)
      BY <2>5, LoginKeepsInv
    <2>6. CASE PreAuthTimePasses(c) \/ PeerResets(c)
      BY <2>6, OutsideKeepsInv
    <2> QED
      BY <1>2, <2>1, <2>2, <2>3, <2>4, <2>5, <2>6 DEF GuardStep
  <1> QED
    BY <1>1, <1>2 DEF GuardNext

\* The places of guard.go are those of the connections that were admitted and are
\* not closed, for any limits, connections and keys.
THEOREM GuardAlways == GuardSpec => []GuardInv
  <1>1. GuardInv /\ [GuardNext]_guardVars => GuardInv'
    BY GuardInvStep
  <1> QED
    BY <1>1, GuardInvInit, PTL DEF GuardSpec

\* markAuthenticated lifts the limits of the connection that logged in, although the
\* connection is looked up by a key after the password was verified.
THEOREM LiftedAlwaysByLogin == GuardSpec => []LiftedByLogin
  <1>1. GuardInv => LiftedByLogin
    BY DEF GuardInv
  <1> QED
    BY <1>1, GuardAlways, PTL

\* The guard implements OpenConnections with its two limits.
THEOREM GuardLimitAlwaysKept == GuardSpec => GuardLimitKept
  <1>1. GuardInit => GuardLimits!OpenInit
    BY DEF GuardInit, Holders, GuardLimits!OpenInit
  <1>2. ASSUME GuardInv, NEW c \in Conn, HasPlace(c)
        PROVE  GuardLimits!HasRoom(c)
    <2>1. AddressOf[c] \in Address
      BY ConnectionsAssumption
    <2>2. GuardLimits!From(AddressOf[c]) = HoldersFrom(AddressOf[c])
      BY DEF GuardLimits!From, HoldersFrom
    <2>3. /\ Cardinality(Holders) = Cardinality(DOMAIN held)
          /\ Cardinality(HoldersFrom(AddressOf[c])) = HeldBy(AddressOf[c])
      BY <1>2, <2>1, HeldOnce DEF GuardInv, PlacesCounted
    <2>4. \A S : GuardLimits!Cardinality(S) = Cardinality(S)
      BY DEF Cardinality, GuardLimits!Cardinality
    <2> QED
      BY <1>2, <2>2, <2>3, <2>4 DEF HasPlace, GuardLimits!HasRoom, GuardLimits!Room
  <1>3. GuardInv /\ [GuardNext]_guardVars => [GuardLimits!OpenNext]_Holders
    <2> SUFFICES ASSUME GuardInv, [GuardNext]_guardVars, Holders' # Holders
                 PROVE  GuardLimits!OpenNext
      OBVIOUS
    <2>1. ASSUME NEW c \in Conn, Admit(c), c \notin Holders, Holders' = Holders \cup {c}
          PROVE  GuardLimits!Admit(c)
      BY <1>2, <2>1 DEF Admit, GuardLimits!Admit
    <2>2. ASSUME NEW c \in Holders, Holders' = Holders \ {c}
          PROVE  c \in Conn /\ GuardLimits!Leave(c)
      BY <2>2, HeldOnce DEF GuardLimits!Leave, GuardInv
    <2> QED
      BY <2>1, <2>2, GuardInvStep DEF GuardLimits!OpenNext
  <1> QED
    BY <1>1, <1>3, GuardAlways, PTL DEF GuardSpec, GuardLimitKept, GuardLimits!OpenSpec

-----------------------------------------------------------------------------
(* GuardedReader.                                                            *)

LEMMA LeastFact == \A a, b \in Nat : Least(a, b) \in Nat /\ Least(a, b) <= a /\ Least(a, b) <= b
  BY DEF Least

\* A line that is not refused fits the budget, together with its literal.
LEMMA VerdictNone ==
  ASSUME NEW length \in Nat, NEW literal \in LiteralSizes \cup {NoLiteral},
         ReaderTypeOK, ~loggedIn, Verdict(length, literal) = "none"
  PROVE  length + Size(literal) <= MaxPreAuthCommand - preAuthCommandBytes
  <1>1. Size(literal) \in Nat
    BY GuardedReaderAssumption DEF Size, NoLiteral
  <1>2. ~OverBudget(length + Size(literal))
    BY DEF Verdict
  <1> QED
    BY <1>1, <1>2, GuardedReaderAssumption DEF OverBudget, ReaderTypeOK

LEMMA ReaderInvInit == ReaderInit => ReaderInv
  <1> SUFFICES ASSUME ReaderInit
               PROVE  ReaderInv
    OBVIOUS
  <1> USE GuardedReaderAssumption DEF ReaderInit
  <1>1. ReaderTypeOK
    BY DEF ReaderTypeOK
  <1>2. CommandBounded /\ preAuthCommandBytes <= MaxPreAuthCommand
    BY DEF CommandBounded
  <1> QED
    BY <1>1, <1>2 DEF ReaderInv

\* A read that goes on with a line or a literal moves bytes from what is due to
\* what is given.
LEMMA ReadOn ==
  ASSUME ReaderInv, NEW n \in Nat \ {0}, ReadPending(n) \/ ReadLiteral(n)
  PROVE  ReaderInv'
  <1> USE GuardedReaderAssumption DEF ReaderInv, ReaderTypeOK, CommandBounded
  <1>1. CASE ReadPending(n)
    <2>1. Least(n, pending) \in Nat /\ Least(n, pending) <= pending
      BY LeastFact
    <2> QED
      BY <1>1, <2>1 DEF ReadPending
  <1>2. CASE ReadLiteral(n)
    <2>1. Least(n, literalRemaining) \in Nat /\ Least(n, literalRemaining) <= literalRemaining
      BY LeastFact
    <2> QED
      BY <1>2, <2>1 DEF ReadLiteral
  <1> QED
    BY <1>1, <1>2

\* A new line, of a new command or of one that goes on after a literal.
LEMMA ReadNewLine ==
  ASSUME ReaderInv, NEW n \in Nat \ {0}, NEW length \in Nat \ {0},
         NEW literal \in LiteralSizes \cup {NoLiteral}, ReadLine(n, length, literal)
  PROVE  ReaderInv'
  <1> DEFINE l == Least(n, length)
  <1>1. l \in Nat /\ l <= length
    BY LeastFact
  <1>2. Size(literal) \in Nat /\ (literal # NoLiteral => Size(literal) = literal)
    BY GuardedReaderAssumption DEF Size, NoLiteral
  <1>3. literal = NoLiteral => Size(literal) = 0
    BY DEF Size
  <1>4. Verdict(length, literal) \in {"none", "line", "literal", "command"}
    BY DEF Verdict
  <1>5. CASE shutBy' # "none"
    BY <1>4, <1>5 DEF ReadLine, ReaderInv, ReaderTypeOK, CommandBounded
  <1>6. CASE shutBy' = "none"
    <2>1. ~loggedIn => length + Size(literal) <= MaxPreAuthCommand - preAuthCommandBytes
      BY <1>6, VerdictNone DEF ReadLine, ReaderInv
    <2>2. /\ pending = 0 /\ literalRemaining = 0 /\ loggedIn' = loggedIn
          /\ pending' = length - l
          /\ literalRemaining' = Size(literal)
          /\ preAuthCommandBytes' =
               CASE loggedIn -> preAuthCommandBytes
                 [] literal = NoLiteral -> 0
                 [] OTHER -> preAuthCommandBytes + length + literal
          /\ given' = l + (IF preAuthCommandBytes = 0 THEN 0 ELSE given)
      BY <1>6 DEF ReadLine
    <2> HIDE DEF l
    <2>3. CASE loggedIn
      BY <1>1, <1>2, <1>6, <2>2, <2>3, GuardedReaderAssumption
      DEF ReaderInv, ReaderTypeOK, CommandBounded
    <2>4. CASE ~loggedIn
      <3>1. given' + pending' + literalRemaining'
              = preAuthCommandBytes + length + Size(literal)
        BY <1>1, <1>2, <2>2, <2>4 DEF ReaderInv, ReaderTypeOK
      <3>2. preAuthCommandBytes' = IF literal = NoLiteral THEN 0
                                   ELSE preAuthCommandBytes + length + Size(literal)
        BY <1>2, <2>2, <2>4
      <3>3. /\ pending' \in Nat /\ literalRemaining' \in Nat /\ given' \in Nat
            /\ preAuthCommandBytes' \in Nat
        BY <1>1, <1>2, <2>2, <3>2 DEF ReaderInv, ReaderTypeOK
      <3> QED
        BY <1>2, <1>3, <1>6, <2>1, <2>2, <2>4, <3>1, <3>2, <3>3, GuardedReaderAssumption
        DEF ReaderInv, ReaderTypeOK, CommandBounded
    <2> QED
      BY <2>3, <2>4
  <1> QED
    BY <1>5, <1>6

LEMMA ReaderInvStep == ReaderInv /\ [ReaderNext]_readerVars => ReaderInv'
  <1> SUFFICES ASSUME ReaderInv, [ReaderNext]_readerVars
               PROVE  ReaderInv'
    OBVIOUS
  <1> USE GuardedReaderAssumption
  <1>1. ASSUME NEW n \in 1..(MaxLine + 1), ReadPending(n) \/ ReadLiteral(n)
        PROVE  ReaderInv'
    BY <1>1, ReadOn
  <1>2. ASSUME NEW n \in 1..(MaxLine + 1), NEW length \in 1..(MaxLine + 1),
               NEW literal \in LiteralSizes \cup {NoLiteral}, ReadLine(n, length, literal)
        PROVE  ReaderInv'
    BY <1>2, ReadNewLine
  <1>3. CASE LogIn
    BY <1>3 DEF LogIn, ReaderInv, ReaderTypeOK, CommandBounded
  <1>4. CASE UNCHANGED readerVars
    BY <1>4 DEF readerVars, ReaderInv, ReaderTypeOK, CommandBounded
  <1> QED
    BY <1>1, <1>2, <1>3, <1>4 DEF ReaderNext

\* The budget counts what was and will be given of a command (guardedIMAPConn.Read).
THEOREM ReaderAlways == ReaderSpec => []ReaderInv
  BY ReaderInvInit, ReaderInvStep, PTL DEF ReaderSpec

\* Before login the parser gets at most maxPreAuthCommand bytes of one command,
\* for all limits and however the bytes arrive.
THEOREM CommandAlwaysBounded == ReaderSpec => []CommandBounded
  <1>1. ReaderInv => CommandBounded
    BY DEF ReaderInv
  <1> QED
    BY <1>1, ReaderAlways, PTL

=============================================================================
