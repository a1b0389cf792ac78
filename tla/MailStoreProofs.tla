-------------------------- MODULE MailStoreProofs --------------------------
(***************************************************************************)
(* IInv of MailStore is an inductive invariant, for every value of the     *)
(* constants.                                                              *)
(*                                                                         *)
(* The proof has two layers.  Legal says in terms of single rows what a    *)
(* step may do to the tables.  For each action there is a lemma that it    *)
(* keeps the types and is legal; a legal step keeps the other conjuncts of *)
(* IInv, whichever action it is.                                           *)
(*                                                                         *)
(* On IInv rest the properties that look at two states (what a step does   *)
(* to other users' entries, to the messages a MOVE passes on, to what a    *)
(* user's mail counts for), the archive limit, and the cache of an IMAP    *)
(* client (ClientCache).  The sums of sizes are handled with the lemmas of *)
(* Sums.                                                                   *)
(***************************************************************************)
EXTENDS ClientCache, Sums, TLAPS

\* Mailboxes that stay do not lower uid_next; the one new mailbox has a new
\* number and a uid_validity above those of its user.
LegalBoxes ==
  /\ \A u \in User : made[u] <= made'[u]
  /\ \A b \in DOMAIN boxes' :
       IF b \in DOMAIN boxes
       THEN boxes[b].next <= boxes'[b].next /\ boxes'[b].validity = boxes[b].validity
       ELSE /\ made[Owner(b)] < b[2] /\ b[2] <= made'[Owner(b)]
            /\ boxes'[b].validity <= made'[Owner(b)]
            /\ \A c \in DOMAIN boxes' \ {b} :
                 /\ c \in DOMAIN boxes
                 /\ Owner(c) = Owner(b) => boxes[c].validity < boxes'[b].validity

\* Old messages stay as they are, and only drafts may go.
LegalMessages ==
  /\ stored <= stored'
  /\ \A m \in DOMAIN messages' :
       m <= stored => m \in DOMAIN messages /\ messages'[m] = messages[m]
  /\ \A m \in DOMAIN messages : Retained(m)

\* An entry that stays in its mailbox.
Kept(e) ==
  /\ e \in DOMAIN entries
  /\ entries'[e].msg = entries[e].msg
  /\ entries'[e].box = entries[e].box
  /\ entries'[e].uid = entries[e].uid
  /\ StaysExpunged(e)

\* An entry comes into its mailbox with a UID from uid_next on.
Arrives(e) ==
  LET b == entries'[e].box
  IN  /\ b \in DOMAIN boxes
      /\ boxes[b].next <= entries'[e].uid
      /\ entries'[e].uid < boxes'[b].next

\* The one entry a step gives another mailbox of the same user.
Moved(e) ==
  /\ e \in DOMAIN entries
  /\ ~entries[e].gone
  /\ entries'[e].msg = entries[e].msg
  /\ Owner(entries'[e].box) = Owner(entries[e].box)
  /\ Arrives(e)
  /\ \A f \in DOMAIN entries' : f # e => Kept(f)

\* An inserted entry.
Fresh(e) ==
  /\ e \notin DOMAIN entries
  /\ e = <<entries'[e].box, entries'[e].uid>>
  /\ Arrives(e)

LegalEntries ==
  \A e \in DOMAIN entries' :
    /\ entries'[e].box \in DOMAIN boxes'
    /\ entries'[e].msg \in DOMAIN messages'
    /\ Kept(e) \/ Moved(e) \/ Fresh(e)

\* Where an inserted entry of a draft may be: it is the only entry of a new
\* draft, or it belongs to the user who has the old draft.
Follows(e) ==
  LET m == entries'[e].msg
  IN  \/ m > stored /\ \A f \in DOMAIN entries' : entries'[f].msg = m => f = e
      \/ m <= stored /\ \A f \in EntriesOf(m) :
                          Owner(entries[f].box) = Owner(entries'[e].box)

LegalDrafts ==
  \A m \in DOMAIN messages' : messages'[m].draft =>
    /\ \E e \in DOMAIN entries' : entries'[e].msg = m
    /\ \A e \in DOMAIN entries' : entries'[e].msg = m =>
         /\ ~entries'[e].gone
         /\ Fresh(e) => Follows(e)

\* A command goes on with rows it had, or reads rows of one mailbox.
Reads(s) ==
  /\ UNCHANGED <<boxes, made, messages, stored, entries>>
  /\ \A r \in pending'[s].rows :
       /\ r.id \in DOMAIN entries
       /\ r = RowOf(r.id)
       /\ entries[r.id].box = pending'[s].box

LegalPending ==
  \A s \in Session :
    \/ pending'[s].rows = {}
    \/ pending'[s].rows \subseteq pending[s].rows /\ pending'[s].box = pending[s].box
    \/ Reads(s)

Legal == LegalBoxes /\ LegalMessages /\ LegalEntries /\ LegalDrafts /\ LegalPending

-----------------------------------------------------------------------------
(* A legal step keeps the conjuncts of IInv, given their types. *)

LEMMA LegalReferential ==
  ASSUME LegalEntries
  PROVE  Referential'
BY DEF LegalEntries, Referential

LEMMA LegalUidsDistinct ==
  ASSUME TypeOK, TypeOK', Referential, UidsDistinct, LegalBoxes, LegalEntries
  PROVE  UidsDistinct'
<1> SUFFICES ASSUME NEW e \in DOMAIN entries', NEW f \in DOMAIN entries'
             PROVE  /\ entries'[e].uid < boxes'[entries'[e].box].next
                    /\ entries'[e].box = entries'[f].box
                         /\ entries'[e].uid = entries'[f].uid => e = f
  BY DEF UidsDistinct
<1> USE DEF TypeOK, Entry, Box
<1>1. entries'[e].uid < boxes'[entries'[e].box].next
  <2>1. CASE Kept(e)
    <3>1. entries[e].box \in DOMAIN boxes /\ entries[e].box \in DOMAIN boxes'
      BY <2>1 DEF Kept, Referential, LegalEntries
    <3>2. entries[e].uid < boxes[entries[e].box].next
      BY <2>1 DEF Kept, UidsDistinct
    <3>3. boxes[entries[e].box].next <= boxes'[entries[e].box].next
      BY <3>1 DEF LegalBoxes
    <3>4. entries[e].uid \in Nat /\ boxes[entries[e].box].next \in Nat
            /\ boxes'[entries[e].box].next \in Nat
      BY <2>1, <3>1 DEF Kept
    <3> QED BY <2>1, <3>2, <3>3, <3>4 DEF Kept
  <2>2. CASE Moved(e) \/ Fresh(e)
    BY <2>2 DEF Moved, Fresh, Arrives
  <2> QED BY <2>1, <2>2 DEF LegalEntries
<1>2. ASSUME entries'[e].box = entries'[f].box, entries'[e].uid = entries'[f].uid
      PROVE  e = f
  <2>1. CASE Kept(e) /\ Kept(f)
    BY <1>2, <2>1 DEF Kept, UidsDistinct
  <2>2. ASSUME NEW g \in DOMAIN entries', NEW h \in DOMAIN entries',
               Kept(g), Arrives(h),
               entries'[g].box = entries'[h].box, entries'[g].uid = entries'[h].uid
        PROVE  FALSE
    <3>1. entries[g].uid < boxes[entries[g].box].next
      BY <2>2 DEF Kept, UidsDistinct
    <3>2. boxes[entries[g].box].next <= entries[g].uid
      BY <2>2 DEF Kept, Arrives
    <3>3. entries[g].uid \in Nat /\ boxes[entries[g].box].next \in Nat
      BY <2>2 DEF Kept, Arrives
    <3> QED BY <3>1, <3>2, <3>3
  <2>3. CASE Fresh(e) /\ Fresh(f)
    BY <1>2, <2>3 DEF Fresh
  <2>4. CASE Moved(e) \/ Moved(f)
    BY <1>2, <2>2, <2>4 DEF Moved
  <2> QED BY <1>2, <2>1, <2>2, <2>3, <2>4 DEF LegalEntries, Fresh
<1> QED BY <1>1, <1>2

LEMMA LegalValiditiesDistinct ==
  ASSUME TypeOK, TypeOK', ValiditiesDistinct, LegalBoxes
  PROVE  ValiditiesDistinct'
<1> SUFFICES ASSUME NEW a \in DOMAIN boxes', NEW b \in DOMAIN boxes',
                    Owner(a) = Owner(b), boxes'[a].validity = boxes'[b].validity, a # b
             PROVE  FALSE
  BY DEF ValiditiesDistinct
<1>1. CASE a \in DOMAIN boxes /\ b \in DOMAIN boxes
  BY <1>1 DEF ValiditiesDistinct, LegalBoxes
<1>2. ASSUME NEW c \in DOMAIN boxes', NEW d \in DOMAIN boxes', c # d, d \notin DOMAIN boxes,
             Owner(c) = Owner(d), boxes'[c].validity = boxes'[d].validity
      PROVE  FALSE
  <2>1. c \in DOMAIN boxes /\ boxes[c].validity < boxes'[d].validity
    BY <1>2 DEF LegalBoxes
  <2>2. boxes'[c].validity = boxes[c].validity /\ boxes[c].validity \in Nat
    BY <2>1 DEF LegalBoxes, TypeOK, Box
  <2> QED BY <1>2, <2>1, <2>2
<1> QED BY <1>1, <1>2

LEMMA LegalIdsUsed ==
  ASSUME TypeOK, TypeOK', IdsUsed, LegalBoxes, LegalMessages, LegalEntries, LegalPending
  PROVE  IdsUsed'
<1>1. ASSUME NEW id \in EntryId, IdUsed(id)
      PROVE  IdUsed(id)'
  <2>1. id[1] \in BoxId /\ id[2] \in Nat /\ id[1][2] \in Nat /\ Owner(id[1]) \in User
    BY MailStoreAssumption DEF EntryId, BoxId, Owner
  <2>2. made[Owner(id[1])] \in Nat /\ made'[Owner(id[1])] \in Nat
          /\ made[Owner(id[1])] <= made'[Owner(id[1])]
    BY <2>1 DEF TypeOK, LegalBoxes
  <2>3. id[1][2] <= made'[Owner(id[1])]
    BY <1>1, <2>1, <2>2 DEF IdUsed
  <2>4. ASSUME id[1] \in DOMAIN boxes'
        PROVE  id[2] < boxes'[id[1]].next
    <3>1. id[1] \in DOMAIN boxes
      BY <1>1, <2>1, <2>2, <2>4 DEF IdUsed, LegalBoxes
    <3>2. id[2] < boxes[id[1]].next /\ boxes[id[1]].next <= boxes'[id[1]].next
      BY <1>1, <2>4, <3>1 DEF IdUsed, LegalBoxes
    <3>3. boxes[id[1]].next \in Nat /\ boxes'[id[1]].next \in Nat
      BY <2>4, <3>1 DEF TypeOK, Box
    <3> QED BY <2>1, <3>2, <3>3
  <2> QED BY <2>3, <2>4 DEF IdUsed
<1>2. ASSUME NEW b \in DOMAIN boxes'
      PROVE  b[2] <= made'[Owner(b)] /\ boxes'[b].validity <= made'[Owner(b)]
  <2>1. b[2] \in Nat /\ boxes'[b].validity \in Nat /\ Owner(b) \in User
    BY MailStoreAssumption DEF TypeOK, BoxId, Owner, Box
  <2>2. made[Owner(b)] \in Nat /\ made'[Owner(b)] \in Nat
          /\ made[Owner(b)] <= made'[Owner(b)]
    BY <2>1 DEF TypeOK, LegalBoxes
  <2> QED BY <2>1, <2>2 DEF LegalBoxes, IdsUsed
<1>3. ASSUME NEW e \in DOMAIN entries'
      PROVE  IdUsed(e)'
  <2>1. e \in EntryId
    BY DEF TypeOK
  <2>2. CASE e \in DOMAIN entries
    BY <1>1, <2>1, <2>2 DEF IdsUsed
  <2>3. CASE Fresh(e)
    BY <1>2, <2>3 DEF IdUsed, Fresh, Arrives, LegalEntries
  <2> QED BY <2>2, <2>3 DEF LegalEntries, Kept, Moved
<1>4. ASSUME NEW s \in Session, NEW r \in pending'[s].rows
      PROVE  IdUsed(r.id)' /\ r.msg <= stored'
  <2>1. r.id \in EntryId /\ r.msg \in Nat /\ stored \in Nat /\ stored' \in Nat
    <3>1. r \in Row
      BY DEF TypeOK, Command, Idle
    <3>2. MessageId \subseteq Nat /\ stored \in Nat /\ stored' \in Nat
      BY MailStoreAssumption DEF TypeOK, MessageId
    <3> QED BY <3>1, <3>2 DEF Row
  <2>2. IdUsed(r.id) /\ r.msg <= stored
    <3>1. CASE r \in pending[s].rows
      BY <3>1 DEF IdsUsed
    <3>2. CASE Reads(s)
      <4>1. r.id \in DOMAIN entries /\ r.msg = entries[r.id].msg
        BY <3>2 DEF Reads, RowOf
      <4>2. r.msg \in DOMAIN messages'
        BY <3>2, <4>1 DEF LegalEntries, Reads
      <4>3. r.msg <= stored'
        BY <4>2, <2>1 DEF TypeOK
      <4> QED BY <3>2, <4>1, <4>3 DEF IdsUsed, Reads
    <3> QED BY <3>1, <3>2 DEF LegalPending
  <2> QED BY <1>1, <2>1, <2>2 DEF LegalMessages
<1> QED BY <1>2, <1>3, <1>4 DEF IdsUsed

\* An id that is used is not the id of an inserted entry.
LEMMA UsedNotFresh ==
  ASSUME TypeOK, NEW id \in EntryId, IdUsed(id), id \in DOMAIN entries', Fresh(id)
  PROVE  FALSE
<1>1. id[1] \in DOMAIN boxes /\ boxes[id[1]].next <= id[2]
  BY DEF Fresh, Arrives
<1>2. id[2] < boxes[id[1]].next /\ id[2] \in Nat /\ boxes[id[1]].next \in Nat
  BY <1>1 DEF IdUsed, TypeOK, Box, EntryId
<1> QED BY <1>1, <1>2

LEMMA LegalSnapshots ==
  ASSUME TypeOK, SnapshotsNameTheirMessage, IdsUsed, LegalEntries, LegalPending
  PROVE  SnapshotsNameTheirMessage'
<1> SUFFICES ASSUME NEW s \in Session, NEW r \in pending'[s].rows, r.id \in DOMAIN entries'
             PROVE  entries'[r.id].msg = r.msg
  BY DEF SnapshotsNameTheirMessage
<1>1. CASE r \in pending[s].rows
  <2>1. r.id \in EntryId /\ IdUsed(r.id)
    BY <1>1 DEF TypeOK, Command, Idle, Row, IdsUsed
  <2>2. r.id \in DOMAIN entries /\ entries'[r.id].msg = entries[r.id].msg
    BY <2>1, UsedNotFresh DEF LegalEntries, Kept, Moved
  <2> QED BY <1>1, <2>2 DEF SnapshotsNameTheirMessage
<1>2. CASE Reads(s)
  BY <1>2 DEF Reads, RowOf
<1> QED BY <1>1, <1>2 DEF LegalPending

\* Entries that stay, and entries that follow a draft, are its user's.
LEMMA OwnerStays ==
  ASSUME NEW e \in DOMAIN entries', Kept(e) \/ Moved(e)
  PROVE  /\ e \in DOMAIN entries
         /\ entries'[e].msg = entries[e].msg
         /\ Owner(entries'[e].box) = Owner(entries[e].box)
BY DEF Kept, Moved

LEMMA LegalDraftsArePrivate ==
  ASSUME TypeOK, TypeOK', Referential, DraftsArePrivate,
         LegalMessages, LegalEntries, LegalDrafts
  PROVE  DraftsArePrivate'
<1> SUFFICES ASSUME NEW m \in DOMAIN messages', messages'[m].draft
             PROVE  /\ \E e \in DOMAIN entries' : entries'[e].msg = m
                    /\ \A e \in DOMAIN entries' : entries'[e].msg = m => ~entries'[e].gone
                    /\ \A e, f \in DOMAIN entries' :
                         entries'[e].msg = m /\ entries'[f].msg = m =>
                           Owner(entries'[e].box) = Owner(entries'[f].box)
  BY DEF DraftsArePrivate, EntriesOf
<1>1. /\ \E e \in DOMAIN entries' : entries'[e].msg = m
      /\ \A e \in DOMAIN entries' : entries'[e].msg = m => ~entries'[e].gone
  BY DEF LegalDrafts
<1>2. ASSUME NEW e \in DOMAIN entries', NEW f \in DOMAIN entries',
             entries'[e].msg = m, entries'[f].msg = m
      PROVE  Owner(entries'[e].box) = Owner(entries'[f].box)
  <2>1. m \in Nat /\ stored \in Nat
    BY MailStoreAssumption DEF TypeOK
  <2>2. CASE m > stored
    <3>1. ASSUME NEW g \in DOMAIN entries', entries'[g].msg = m
          PROVE  Fresh(g)
      <4>1. ~(Kept(g) \/ Moved(g))
        BY <2>1, <2>2, <3>1, OwnerStays DEF Referential, TypeOK
      <4> QED BY <3>1, <4>1 DEF LegalEntries
    <3>2. Follows(e) /\ Follows(f)
      BY <1>2, <3>1 DEF LegalDrafts
    <3> QED BY <1>2, <2>1, <2>2, <3>2 DEF Follows
  <2>3. CASE m <= stored
    <3>1. m \in DOMAIN messages /\ messages[m].draft
      BY <2>3 DEF LegalMessages
    <3>2. PICK d \in DOMAIN entries : entries[d].msg = m
      BY <3>1 DEF DraftsArePrivate, EntriesOf
    <3>3. ASSUME NEW g \in DOMAIN entries', entries'[g].msg = m
          PROVE  Owner(entries'[g].box) = Owner(entries[d].box)
      <4>1. CASE Kept(g) \/ Moved(g)
        <5>1. g \in DOMAIN entries /\ entries[g].msg = m
                /\ Owner(entries'[g].box) = Owner(entries[g].box)
          BY <3>3, <4>1, OwnerStays
        <5> QED BY <3>1, <3>2, <5>1 DEF DraftsArePrivate, EntriesOf
      <4>2. CASE Fresh(g)
        <5>1. Follows(g)
          BY <3>3, <4>2 DEF LegalDrafts
        <5> QED BY <2>1, <2>3, <3>2, <3>3, <5>1 DEF Follows, EntriesOf
      <4> QED BY <3>3, <4>1, <4>2 DEF LegalEntries
    <3> QED BY <1>2, <3>3
  <2> QED BY <2>1, <2>2, <2>3
<1> QED BY <1>1, <1>2

LEMMA LegalSnapshotsOwned ==
  ASSUME TypeOK, TypeOK', Referential, UidsDistinct, DraftsArePrivate, IdsUsed,
         SnapshotsOwned, DraftsArePrivate',
         LegalMessages, LegalEntries, LegalDrafts, LegalPending
  PROVE  SnapshotsOwned'
<1> SUFFICES ASSUME NEW s \in Session, NEW r \in pending'[s].rows
             PROVE  /\ \A q \in pending'[s].rows : q.uid = r.uid \/ q.id = r.id => q = r
                    /\ r.msg \in DOMAIN messages' /\ messages'[r.msg].draft =>
                         \A e \in DOMAIN entries' : entries'[e].msg = r.msg =>
                           Owner(entries'[e].box) = Owner(pending'[s].box)
  BY DEF SnapshotsOwned, EntriesOf
<1>1. CASE pending'[s].rows \subseteq pending[s].rows /\ pending'[s].box = pending[s].box
  <2>1. \A q \in pending'[s].rows : q.uid = r.uid \/ q.id = r.id => q = r
    BY <1>1 DEF SnapshotsOwned
  <2>2. ASSUME r.msg \in DOMAIN messages', messages'[r.msg].draft,
               NEW e \in DOMAIN entries', entries'[e].msg = r.msg
        PROVE  Owner(entries'[e].box) = Owner(pending'[s].box)
    <3>1. r.msg <= stored /\ r.msg \in Nat /\ stored \in Nat
      BY <1>1, <2>2, MailStoreAssumption DEF IdsUsed, TypeOK
    <3>2. r.msg \in DOMAIN messages /\ messages[r.msg].draft
      BY <2>2, <3>1 DEF LegalMessages
    <3>3. \A f \in EntriesOf(r.msg) : Owner(entries[f].box) = Owner(pending[s].box)
      BY <1>1, <3>2 DEF SnapshotsOwned
    <3>4. CASE Kept(e) \/ Moved(e)
      BY <1>1, <2>2, <3>3, <3>4, OwnerStays DEF EntriesOf
    <3>5. CASE Fresh(e)
      <4>1. Follows(e)
        BY <2>2, <3>5 DEF LegalDrafts
      <4>2. \A f \in EntriesOf(r.msg) : Owner(entries[f].box) = Owner(entries'[e].box)
        BY <2>2, <3>1, <4>1 DEF Follows
      <4>3. EntriesOf(r.msg) # {}
        BY <3>2 DEF DraftsArePrivate
      <4> QED BY <1>1, <3>3, <4>2, <4>3
    <3> QED BY <2>2, <3>4, <3>5 DEF LegalEntries
  <2> QED BY <2>1, <2>2
<1>2. CASE Reads(s)
  <2>1. \A q \in pending'[s].rows :
          /\ q.id \in DOMAIN entries /\ q = RowOf(q.id)
          /\ entries[q.id].box = pending'[s].box
    BY <1>2 DEF Reads
  <2>2. \A q \in pending'[s].rows : q.uid = r.uid \/ q.id = r.id => q = r
    <3> SUFFICES ASSUME NEW q \in pending'[s].rows, q.uid = r.uid \/ q.id = r.id
                 PROVE  q = r
      OBVIOUS
    <3>1. q.id = r.id
      BY <2>1 DEF RowOf, UidsDistinct
    <3> QED BY <2>1, <3>1
  <2>3. r.msg = entries'[r.id].msg /\ r.id \in DOMAIN entries'
          /\ entries'[r.id].box = pending'[s].box
    BY <1>2, <2>1 DEF Reads, RowOf
  <2>4. ASSUME r.msg \in DOMAIN messages', messages'[r.msg].draft,
               NEW e \in DOMAIN entries', entries'[e].msg = r.msg
        PROVE  Owner(entries'[e].box) = Owner(pending'[s].box)
    BY <2>3, <2>4 DEF DraftsArePrivate, EntriesOf
  <2> QED BY <2>2, <2>4
<1> QED BY <1>1, <1>2 DEF LegalPending

\* A legal step from IInv leads to IInv.
LEMMA LegalStep ==
  ASSUME IInv, TypeOK', Legal
  PROVE  IInv'
BY LegalReferential, LegalUidsDistinct, LegalValiditiesDistinct, LegalIdsUsed, LegalSnapshots,
   LegalDraftsArePrivate, LegalSnapshotsOwned DEF IInv, Legal

-----------------------------------------------------------------------------
(* Facts about the operators that insert rows. *)

\* Max of a bounded set of naturals is its largest element.
LEMMA MaxOfBounded ==
  ASSUME NEW S \in SUBSET Nat, S # {}, NEW n \in Nat, \A x \in S : x <= n
  PROVE  Max(S) \in S /\ \A x \in S : x <= Max(S)
<1> DEFINE Bounds == {k \in Nat : \A x \in S : x <= k}
<1>1. PICK k \in Bounds : \A j \in Bounds : k <= j
  <2>1. n \in Bounds
    OBVIOUS
  <2> HIDE DEF Bounds
  <2>2. Bounds \in SUBSET Nat
    BY DEF Bounds
  <2> QED BY <2>1, <2>2, LeastNatural
<1>2. k \in S
  <2> SUFFICES ASSUME k \notin S
               PROVE  FALSE
    OBVIOUS
  <2>1. PICK x \in S : TRUE
    OBVIOUS
  <2>2. \A y \in S : y <= k - 1
    OBVIOUS
  <2>3. k - 1 \in Bounds
    BY <2>1, <2>2
  <2> QED BY <1>1, <2>3
<1>3. \A x \in S : k >= x
  OBVIOUS
<1>4. \E m \in S : \A x \in S : m >= x
  BY <1>2, <1>3
<1> QED BY <1>4 DEF Max

\* No entry has an id from uid_next on.
LEMMA NextIdUnused ==
  ASSUME TypeOK, IdsUsed, NEW b \in DOMAIN boxes, NEW k \in Nat, boxes[b].next <= k
  PROVE  <<b, k>> \notin DOMAIN entries
<1> SUFFICES ASSUME <<b, k>> \in DOMAIN entries
             PROVE  FALSE
  OBVIOUS
<1>1. k < boxes[b].next
  BY DEF IdsUsed, IdUsed
<1>2. boxes[b].next \in Nat
  BY DEF TypeOK, Box
<1> QED BY <1>1, <1>2

-----------------------------------------------------------------------------
(* Every action keeps the types and is legal. *)

\* A new draft has one target, and only drafts are replaced.
LEMMA SaveMessageStep ==
  ASSUME IInv,
         NEW draft \in BOOLEAN, NEW size \in Sizes, NEW deleted \in BOOLEAN,
         NEW targets \in SUBSET DOMAIN boxes, NEW replaced,
         SaveMessage(draft, size, deleted, targets, replaced),
         draft => \E b : targets = {b},
         \A x \in replaced : x \in DOMAIN messages /\ messages[x].draft
  PROVE  TypeOK' /\ Legal
<1> DEFINE m    == stored + 1
           kept == {e \in DOMAIN entries : entries[e].msg \notin replaced}
           ids  == {<<b, boxes[b].next>> : b \in targets}
<1> USE DEF IInv
<1>1. /\ m <= MaxMessages
      /\ \A b \in targets : boxes[b].next + 1 <= MaxUid
      /\ messages' = [x \in (DOMAIN messages \ replaced) \cup {m} |->
                        IF x = m THEN [draft |-> draft, size |-> size] ELSE messages[x]]
      /\ stored' = m
      /\ entries' = With([id \in ids |-> NewEntry(id, m, deleted)],
                         Without(entries, DOMAIN entries \ kept))
      /\ boxes' = [b \in DOMAIN boxes |->
                     IF b \in targets THEN [boxes[b] EXCEPT !.next = @ + 1] ELSE boxes[b]]
      /\ UNCHANGED <<made, quota, pending>>
  BY DEF SaveMessage, Room
<1>2. /\ stored \in Nat /\ m \in Nat /\ m \notin DOMAIN messages
      /\ \A x \in DOMAIN messages : x \in Nat /\ x <= stored
  BY MailStoreAssumption DEF TypeOK
<1>3. \A b \in DOMAIN boxes : boxes[b].next \in Nat /\ boxes[b] \in Box
  BY DEF TypeOK, Box
<1> HIDE DEF ids, kept
<1>4. /\ DOMAIN entries' = ids \cup kept
      /\ \A id \in ids : entries'[id] = NewEntry(id, m, deleted) /\ id \notin DOMAIN entries
      /\ \A e \in kept : entries'[e] = entries[e] /\ e \notin ids
  <2> DEFINE f == [id \in ids |-> NewEntry(id, m, deleted)]
             g == Without(entries, DOMAIN entries \ kept)
  <2>1. DOMAIN f = ids /\ DOMAIN g = kept
    <3>1. kept \subseteq DOMAIN entries
      BY DEF kept
    <3>2. DOMAIN g = DOMAIN entries \ (DOMAIN entries \ kept)
      BY DEF Without
    <3> HIDE DEF g
    <3> QED BY <3>1, <3>2
  <2>2. \A id \in ids : id \notin DOMAIN entries
    BY <1>3, NextIdUnused DEF ids
  <2>3. \A e \in kept : g[e] = entries[e]
    BY DEF Without, kept
  <2>4. \A id \in ids : f[id] = NewEntry(id, m, deleted)
    OBVIOUS
  <2>5. entries' = With(f, g)
    BY <1>1 DEF ids, kept
  <2>6. \A x \in DOMAIN f : x \notin DOMAIN g
    BY <2>1, <2>2 DEF kept
  <2> HIDE DEF f, g
  <2>7. /\ DOMAIN entries' = DOMAIN f \cup DOMAIN g
        /\ \A x \in DOMAIN f : entries'[x] = f[x]
        /\ \A x \in DOMAIN g : x \notin DOMAIN f /\ entries'[x] = g[x]
    BY <2>5, <2>6 DEF With
  <2>8. DOMAIN entries' = ids \cup kept
    BY <2>1, <2>7
  <2>9. \A id \in ids : entries'[id] = NewEntry(id, m, deleted) /\ id \notin DOMAIN entries
    BY <2>1, <2>2, <2>4, <2>7
  <2>10. \A e \in kept : entries'[e] = entries[e] /\ e \notin ids
    BY <2>1, <2>3, <2>7
  <2> QED BY <2>8, <2>9, <2>10
<1>5. /\ DOMAIN boxes' = DOMAIN boxes
      /\ \A b \in DOMAIN boxes : /\ boxes'[b].name = boxes[b].name
                                 /\ boxes'[b].validity = boxes[b].validity
                                 /\ boxes'[b].next =
                                      IF b \in targets THEN boxes[b].next + 1 ELSE boxes[b].next
                                 /\ boxes'[b] \in Box
  BY <1>1, <1>3 DEF Box
<1>6. /\ DOMAIN messages' = (DOMAIN messages \ replaced) \cup {m}
      /\ messages'[m] = [draft |-> draft, size |-> size]
      /\ \A x \in DOMAIN messages \ replaced : messages'[x] = messages[x]
  BY <1>1, <1>2
<1>7. \A id \in ids : /\ entries'[id].box \in targets
                      /\ id = <<entries'[id].box, entries'[id].uid>>
                      /\ entries'[id].uid = boxes[entries'[id].box].next
                      /\ entries'[id].msg = m
                      /\ entries'[id].gone = FALSE
                      /\ entries'[id].deleted = deleted
  <2> SUFFICES ASSUME NEW id \in ids
               PROVE  /\ entries'[id].box \in targets
                      /\ id = <<entries'[id].box, entries'[id].uid>>
                      /\ entries'[id].uid = boxes[entries'[id].box].next
                      /\ entries'[id].msg = m
                      /\ entries'[id].gone = FALSE
                      /\ entries'[id].deleted = deleted
    OBVIOUS
  <2>1. PICK b \in targets : id = <<b, boxes[b].next>>
    BY DEF ids
  <2>2. entries'[id] = NewEntry(id, m, deleted)
    BY <1>4
  <2>3. /\ id[1] = b /\ id[2] = boxes[b].next
    BY <2>1
  <2> QED BY <2>1, <2>2, <2>3 DEF NewEntry
<1>8. TypeOK'
  <2>1. DOMAIN boxes' \subseteq BoxId /\ \A b \in DOMAIN boxes' : boxes'[b] \in Box
    BY <1>5 DEF TypeOK
  <2>2. stored' \in 0..MaxMessages /\ m \in MessageId
    BY <1>1, <1>2 DEF MessageId
  <2>3. /\ DOMAIN messages' \subseteq 1..stored'
        /\ \A x \in DOMAIN messages' : messages'[x] \in Message
    BY <1>1, <1>2, <1>6, MailStoreAssumption DEF TypeOK, Message
  <2>4. ASSUME NEW e \in DOMAIN entries'
        PROVE  e \in EntryId /\ entries'[e] \in Entry
    <3>1. CASE e \in ids
      <4>1. e = <<entries'[e].box, entries'[e].uid>> /\ entries'[e] = NewEntry(e, m, deleted)
        BY <1>4, <1>7, <3>1
      <4>2. entries'[e].box \in BoxId /\ entries'[e].uid \in 1..MaxUid
        BY <1>3, <1>7, <3>1 DEF TypeOK, Box
      <4> QED BY <2>2, <4>1, <4>2 DEF EntryId, Entry, NewEntry
    <3>2. CASE e \in kept
      BY <1>4, <3>2 DEF TypeOK, kept
    <3> QED BY <1>4, <3>1, <3>2
  <2> QED BY <1>1, <2>1, <2>2, <2>3, <2>4 DEF TypeOK
<1>9. ASSUME NEW e \in ids
      PROVE  Fresh(e)
  <2>1. entries'[e].box \in DOMAIN boxes
    BY <1>7
  <2> QED BY <1>3, <1>4, <1>5, <1>7, <2>1 DEF Fresh, Arrives
<1>10. ASSUME NEW e \in kept
       PROVE  Kept(e) /\ e \in DOMAIN entries /\ entries[e].msg \notin replaced
  BY <1>4 DEF Kept, kept, StaysExpunged
<1>11. LegalBoxes
  BY <1>1, <1>3, <1>5 DEF LegalBoxes, TypeOK
<1>12. LegalMessages
  <2>1. \A x \in DOMAIN messages : Retained(x)
    BY <1>6 DEF Retained
  <2> QED BY <1>1, <1>2, <1>6, <2>1 DEF LegalMessages
<1>13. LegalEntries
  <2> SUFFICES ASSUME NEW e \in DOMAIN entries'
               PROVE  /\ entries'[e].box \in DOMAIN boxes'
                      /\ entries'[e].msg \in DOMAIN messages'
                      /\ Kept(e) \/ Fresh(e)
    BY DEF LegalEntries
  <2>1. CASE e \in ids
    BY <1>5, <1>6, <1>7, <1>9, <2>1
  <2>2. CASE e \in kept
    BY <1>4, <1>5, <1>6, <1>10, <2>2 DEF Referential
  <2> QED BY <1>4, <2>1, <2>2
<1>14. LegalDrafts
  <2> SUFFICES ASSUME NEW x \in DOMAIN messages', messages'[x].draft
               PROVE  /\ \E e \in DOMAIN entries' : entries'[e].msg = x
                      /\ \A e \in DOMAIN entries' : entries'[e].msg = x =>
                           ~entries'[e].gone /\ (Fresh(e) => Follows(e))
    BY DEF LegalDrafts
  <2>1. CASE x = m
    <3>1. PICK b : targets = {b}
      BY <1>6, <2>1
    <3>2. \A e \in DOMAIN entries' : entries'[e].msg = m => e \in ids
      BY <1>2, <1>4, <1>10 DEF Referential
    <3>3. ids = {<<b, boxes[b].next>>}
      BY <3>1 DEF ids
    <3>4. \A e \in ids : e \in DOMAIN entries' /\ entries'[e].msg = m /\ ~entries'[e].gone
      BY <1>4, <1>7
    <3>5. \A e \in ids : Follows(e)
      BY <1>2, <3>2, <3>3, <3>4 DEF Follows
    <3> QED BY <2>1, <3>2, <3>3, <3>4, <3>5
  <2>2. CASE x # m
    <3>1. x \in DOMAIN messages /\ x \notin replaced /\ messages[x].draft
      BY <1>6, <2>2
    <3>2. \A e \in DOMAIN entries' : entries'[e].msg = x => e \in kept
      BY <1>4, <1>7, <2>2
    <3>3. PICK e \in DOMAIN entries : entries[e].msg = x
      BY <3>1 DEF DraftsArePrivate, EntriesOf
    <3>4. e \in kept
      BY <3>1, <3>3 DEF kept
    <3>5. \A d \in kept : ~Fresh(d)
      BY <1>10 DEF Fresh
    <3>6. \A d \in kept : entries'[d].msg = x => ~entries'[d].gone
      BY <1>4, <1>10, <3>1 DEF DraftsArePrivate, EntriesOf
    <3> QED BY <1>4, <3>2, <3>3, <3>4, <3>5, <3>6
  <2> QED BY <2>1, <2>2
<1>15. LegalPending
  BY <1>1 DEF LegalPending
<1> QED BY <1>8, <1>11, <1>12, <1>13, <1>14, <1>15 DEF Legal

\* A compose request replaces drafts only.
LEMMA ReplacesDrafts ==
  ASSUME NEW u, NEW replaced \in DraftToReplace(u)
  PROVE  \A x \in replaced : x \in DOMAIN messages /\ messages[x].draft
BY DEF DraftToReplace, ReplaceableDrafts

LEMMA ReceiveStep ==
  ASSUME IInv, Receive
  PROVE  TypeOK' /\ Legal
<1>0. PICK size \in Sizes, to \in SUBSET User \ {{}} :
        \E inbox \in [to -> DOMAIN boxes] :
          SaveMessage(FALSE, size, FALSE, {inbox[u] : u \in to}, {})
  BY DEF Receive
<1>1. PICK inbox \in [to -> DOMAIN boxes] :
        SaveMessage(FALSE, size, FALSE, {inbox[u] : u \in to}, {})
  BY <1>0
<1>2. {inbox[u] : u \in to} \in SUBSET DOMAIN boxes
  OBVIOUS
<1> QED BY <1>1, <1>2, SaveMessageStep

LEMMA SendStep ==
  ASSUME IInv, NEW u \in User, Send(u)
  PROVE  TypeOK' /\ Legal
<1>0. PICK size \in Sizes, to \in SUBSET User, sent \in Named(u, Sent) :
        \E inbox \in [to -> DOMAIN boxes] : \E replaced \in DraftToReplace(u) :
          SaveMessage(FALSE, size, FALSE, {sent} \cup {inbox[v] : v \in to}, replaced)
  BY DEF Send
<1>1. PICK inbox \in [to -> DOMAIN boxes], replaced \in DraftToReplace(u) :
        SaveMessage(FALSE, size, FALSE, {sent} \cup {inbox[v] : v \in to}, replaced)
  BY <1>0
<1>2. {sent} \cup {inbox[v] : v \in to} \in SUBSET DOMAIN boxes
  BY DEF Named, BoxesOf
<1> QED BY <1>1, <1>2, ReplacesDrafts, SaveMessageStep

LEMMA SaveDraftStep ==
  ASSUME IInv, NEW u \in User, SaveDraft(u)
  PROVE  TypeOK' /\ Legal
<1>1. PICK size \in Sizes, b \in Named(u, Drafts), replaced \in DraftToReplace(u) :
        SaveMessage(TRUE, size, FALSE, {b}, replaced)
  BY DEF SaveDraft
<1>2. {b} \in SUBSET DOMAIN boxes
  BY DEF Named, BoxesOf
<1> QED BY <1>1, <1>2, ReplacesDrafts, SaveMessageStep

LEMMA CreateMessageStep ==
  ASSUME IInv, NEW u \in User, CreateMessage(u)
  PROVE  TypeOK' /\ Legal
<1>1. PICK size \in Sizes, b \in BoxesOf(u), draftFlag \in BOOLEAN, deleted \in BOOLEAN :
        SaveMessage(draftFlag \/ boxes[b].name = Drafts, size, deleted, {b}, {})
  BY DEF CreateMessage
<1>2. {b} \in SUBSET DOMAIN boxes
  BY DEF BoxesOf
<1> DEFINE draft    == draftFlag \/ boxes[b].name = Drafts
           replaced == {}
<1>3. /\ draft \in BOOLEAN
      /\ draft => \E c : {b} = {c}
      /\ \A x \in replaced : x \in DOMAIN messages /\ messages[x].draft
  OBVIOUS
<1>4. SaveMessage(draft, size, deleted, {b}, replaced)
  BY <1>1
<1> HIDE DEF draft, replaced
<1> QED BY <1>2, <1>3, <1>4, SaveMessageStep

\* What is common to the steps that insert nothing: entries ids go, and the
\* drafts they orphan.
LEMMA Removing ==
  ASSUME IInv, NEW ids \in SUBSET DOMAIN entries,
         DOMAIN entries' = DOMAIN entries \ ids,
         \A e \in DOMAIN entries' :
           /\ Kept(e)
           /\ entries'[e] \in Entry
           /\ entries'[e].box \in DOMAIN boxes'
           /\ messages[entries[e].msg].draft => entries'[e].gone = entries[e].gone,
         stored' = stored,
         DOMAIN messages' = DOMAIN messages \ OrphanedDrafts(ids),
         \A m \in DOMAIN messages' : messages'[m] = messages[m]
  PROVE  /\ stored' \in 0..MaxMessages
         /\ DOMAIN messages' \subseteq 1..stored'
         /\ \A m \in DOMAIN messages' : messages'[m] \in Message
         /\ DOMAIN entries' \subseteq EntryId
         /\ \A e \in DOMAIN entries' : entries'[e] \in Entry
         /\ LegalMessages /\ LegalEntries /\ LegalDrafts
<1> USE DEF IInv
<1>1. LegalMessages
  <2>1. \A m \in DOMAIN messages : Retained(m)
    BY DEF Retained, OrphanedDrafts
  <2> QED BY <2>1, MailStoreAssumption DEF LegalMessages, TypeOK
<1>2. \A e \in DOMAIN entries' : entries'[e].msg \in DOMAIN messages'
  <2> SUFFICES ASSUME NEW e \in DOMAIN entries'
               PROVE  entries[e].msg \in DOMAIN messages'
    BY DEF Kept
  <2>1. entries[e].msg \in DOMAIN messages /\ e \in EntriesOf(entries[e].msg) /\ e \notin ids
    BY DEF Referential, Kept, EntriesOf
  <2> QED BY <2>1 DEF OrphanedDrafts
<1>3. LegalEntries
  BY <1>2 DEF LegalEntries
<1>4. LegalDrafts
  <2> SUFFICES ASSUME NEW m \in DOMAIN messages', messages'[m].draft
               PROVE  /\ \E e \in DOMAIN entries' : entries'[e].msg = m
                      /\ \A e \in DOMAIN entries' : entries'[e].msg = m =>
                           ~entries'[e].gone /\ ~Fresh(e)
    BY DEF LegalDrafts
  <2>1. m \in DOMAIN messages /\ messages[m].draft /\ m \notin OrphanedDrafts(ids)
    OBVIOUS
  <2>2. EntriesOf(m) # {} /\ \A e \in EntriesOf(m) : ~entries[e].gone
    BY <2>1 DEF DraftsArePrivate
  <2>3. PICK e \in EntriesOf(m) : e \notin ids
    BY <2>1, <2>2 DEF OrphanedDrafts
  <2>4. e \in DOMAIN entries' /\ entries'[e].msg = m
    BY <2>3 DEF EntriesOf, Kept
  <2>5. ASSUME NEW f \in DOMAIN entries', entries'[f].msg = m
        PROVE  ~entries'[f].gone /\ ~Fresh(f)
    <3>1. f \in DOMAIN entries /\ entries[f].msg = m
      BY <2>5 DEF Kept
    <3>2. entries'[f].gone = entries[f].gone
      BY <2>1, <3>1
    <3> QED BY <2>2, <3>1, <3>2 DEF EntriesOf, Fresh
  <2> QED BY <2>4, <2>5
<1> QED BY <1>1, <1>3, <1>4 DEF TypeOK

\* The same for steps that also leave messages and the set of entries alone.
LEMMA Leaving ==
  ASSUME IInv, DOMAIN entries' = DOMAIN entries,
         \A e \in DOMAIN entries' :
           /\ Kept(e)
           /\ entries'[e] \in Entry
           /\ entries'[e].box \in DOMAIN boxes'
           /\ messages[entries[e].msg].draft => entries'[e].gone = entries[e].gone,
         UNCHANGED <<messages, stored>>
  PROVE  /\ stored' \in 0..MaxMessages
         /\ DOMAIN messages' \subseteq 1..stored'
         /\ \A m \in DOMAIN messages' : messages'[m] \in Message
         /\ DOMAIN entries' \subseteq EntryId
         /\ \A e \in DOMAIN entries' : entries'[e] \in Entry
         /\ LegalMessages /\ LegalEntries /\ LegalDrafts
<1>1. DOMAIN entries' = DOMAIN entries \ {}
  OBVIOUS
<1>2. OrphanedDrafts({}) = {}
  BY DEF OrphanedDrafts
<1>3. DOMAIN messages' = DOMAIN messages \ OrphanedDrafts({})
  BY <1>2
<1> QED BY <1>1, <1>3, Removing

\* A step that leaves mailboxes and commands alone.
LEMMA SameBoxes ==
  ASSUME IInv, UNCHANGED <<boxes, made>>
  PROVE  /\ DOMAIN boxes' \subseteq BoxId
         /\ \A b \in DOMAIN boxes' : boxes'[b] \in Box
         /\ made' \in [User -> 0..MaxMade]
         /\ LegalBoxes
<1>1. \A b \in DOMAIN boxes : boxes[b].next \in Nat
  BY DEF IInv, TypeOK, Box
<1>2. \A u \in User : made[u] \in Nat
  BY MailStoreAssumption DEF IInv, TypeOK
<1> QED BY <1>1, <1>2 DEF IInv, TypeOK, LegalBoxes

LEMMA SamePending ==
  ASSUME IInv, UNCHANGED pending
  PROVE  pending' \in [Session -> Command \cup {Idle}] /\ LegalPending
BY DEF IInv, TypeOK, LegalPending

LEMMA ExpungeStep ==
  ASSUME IInv, NEW ids \in SUBSET DOMAIN entries, Expunge(ids)
  PROVE  TypeOK' /\ Legal
<1> DEFINE draftIds == {e \in ids : messages[entries[e].msg].draft}
<1>1. /\ entries' = [e \in DOMAIN entries \ draftIds |->
                       IF e \in ids THEN [entries[e] EXCEPT !.gone = TRUE] ELSE entries[e]]
      /\ messages' = Without(messages, OrphanedDrafts(draftIds))
      /\ UNCHANGED <<boxes, made, stored, quota, pending>>
  BY DEF Expunge
<1>2. draftIds \in SUBSET DOMAIN entries
  OBVIOUS
<1>3. DOMAIN entries' = DOMAIN entries \ draftIds
  BY <1>1
<1>4. ASSUME NEW e \in DOMAIN entries'
      PROVE  /\ Kept(e)
             /\ entries'[e] \in Entry
             /\ entries'[e].box \in DOMAIN boxes'
             /\ messages[entries[e].msg].draft => entries'[e].gone = entries[e].gone
  <2>1. e \in DOMAIN entries /\ entries[e] \in Entry /\ entries[e].box \in DOMAIN boxes'
    BY <1>1 DEF IInv, TypeOK, Referential
  <2>2. CASE e \in ids
    <3>1. entries'[e] = [entries[e] EXCEPT !.gone = TRUE] /\ ~messages[entries[e].msg].draft
      BY <1>1, <2>2
    <3>2. entries[e].gone => entries'[e] = entries[e]
      BY <2>1, <3>1 DEF Entry
    <3> QED BY <2>1, <3>1, <3>2 DEF Kept, Entry, StaysExpunged
  <2>3. CASE e \notin ids
    BY <1>1, <2>1, <2>3 DEF Kept, StaysExpunged
  <2> QED BY <2>2, <2>3
<1>5. /\ DOMAIN messages' = DOMAIN messages \ OrphanedDrafts(draftIds)
      /\ \A m \in DOMAIN messages' : messages'[m] = messages[m]
  BY <1>1 DEF Without
<1> HIDE DEF draftIds
<1> QED BY <1>1, <1>2, <1>3, <1>4, <1>5, Removing, SameBoxes, SamePending
        DEF TypeOK, Legal, IInv

LEMMA IMAPDeleteMailboxStep ==
  ASSUME IInv, NEW u \in User, NEW n \in Name, IMAPDeleteMailbox(u, n)
  PROVE  TypeOK' /\ Legal
<1>1. PICK b \in Named(u, n) :
        LET ids == {e \in DOMAIN entries : entries[e].box = b}
        IN  /\ boxes' = Without(boxes, {b})
            /\ entries' = Without(entries, ids)
            /\ messages' = Without(messages, OrphanedDrafts(ids))
  BY DEF IMAPDeleteMailbox
<1> DEFINE ids == {e \in DOMAIN entries : entries[e].box = b}
<1>2. UNCHANGED <<made, stored, quota, pending>>
  BY DEF IMAPDeleteMailbox
<1>3. /\ DOMAIN boxes' = DOMAIN boxes \ {b}
      /\ \A c \in DOMAIN boxes' : boxes'[c] = boxes[c]
  BY <1>1 DEF Without
<1>4. ids \in SUBSET DOMAIN entries /\ DOMAIN entries' = DOMAIN entries \ ids
  BY <1>1 DEF Without
<1>5. ASSUME NEW e \in DOMAIN entries'
      PROVE  /\ Kept(e)
             /\ entries'[e] \in Entry
             /\ entries'[e].box \in DOMAIN boxes'
             /\ messages[entries[e].msg].draft => entries'[e].gone = entries[e].gone
  <2>1. e \in DOMAIN entries /\ entries[e].box # b /\ entries'[e] = entries[e]
    BY <1>1 DEF Without
  <2> QED BY <1>3, <2>1 DEF Kept, IInv, TypeOK, Referential, StaysExpunged
<1>6. /\ DOMAIN messages' = DOMAIN messages \ OrphanedDrafts(ids)
      /\ \A m \in DOMAIN messages' : messages'[m] = messages[m]
  BY <1>1 DEF Without
<1> HIDE DEF ids
<1>7. /\ DOMAIN boxes' \subseteq BoxId
      /\ \A c \in DOMAIN boxes' : boxes'[c] \in Box
      /\ LegalBoxes
  <2>1. \A c \in DOMAIN boxes : boxes[c].next \in Nat
    BY DEF IInv, TypeOK, Box
  <2>2. \A v \in User : made[v] \in Nat
    BY MailStoreAssumption DEF IInv, TypeOK
  <2> QED BY <1>2, <1>3, <2>1, <2>2 DEF IInv, TypeOK, LegalBoxes
<1> QED BY <1>2, <1>4, <1>5, <1>6, <1>7, Removing, SamePending DEF TypeOK, Legal, IInv

\* uid_next of mailbox d goes up by n.
LEMMA Advancing ==
  ASSUME IInv, NEW d \in DOMAIN boxes, NEW n \in Nat, boxes[d].next + n <= MaxUid,
         boxes' = Advance(d, n), UNCHANGED made
  PROVE  /\ DOMAIN boxes' = DOMAIN boxes
         /\ boxes'[d].next = boxes[d].next + n
         /\ DOMAIN boxes' \subseteq BoxId
         /\ \A b \in DOMAIN boxes' : boxes'[b] \in Box
         /\ made' \in [User -> 0..MaxMade]
         /\ LegalBoxes
<1>1. \A b \in DOMAIN boxes : boxes[b] \in Box /\ boxes[b].next \in 1..MaxUid
  BY DEF IInv, TypeOK, Box
<1>2. /\ DOMAIN boxes' = DOMAIN boxes
      /\ \A b \in DOMAIN boxes : b # d => boxes'[b] = boxes[b]
      /\ boxes'[d] = [boxes[d] EXCEPT !.next = @ + n]
  BY DEF Advance
<1>3. boxes'[d].next = boxes[d].next + n /\ boxes'[d] \in Box
  BY <1>1, <1>2, MailStoreAssumption DEF Box
<1>4. \A b \in DOMAIN boxes : boxes[b].next <= boxes'[b].next
  <2> SUFFICES ASSUME NEW b \in DOMAIN boxes
               PROVE  boxes[b].next <= boxes'[b].next
    OBVIOUS
  <2>1. CASE b = d
    BY <1>1, <1>3, <2>1, MailStoreAssumption
  <2>2. CASE b # d
    BY <1>1, <1>2, <2>2, MailStoreAssumption
  <2> QED BY <2>1, <2>2
<1>5. \A u \in User : made[u] <= made'[u]
  BY MailStoreAssumption DEF IInv, TypeOK
<1>6. LegalBoxes
  BY <1>1, <1>2, <1>4, <1>5 DEF LegalBoxes, Box
<1>7. \A b \in DOMAIN boxes' : boxes'[b] \in Box
  BY <1>1, <1>2, <1>3
<1> QED BY <1>2, <1>3, <1>6, <1>7 DEF IInv, TypeOK

LEMMA MoveMessageStep ==
  ASSUME IInv, NEW u \in User, MoveMessage(u)
  PROVE  TypeOK' /\ Legal
<1> USE DEF IInv
<1>1. PICK e \in Visible(u), n \in Name :
        \E d \in Named(u, n) :
          /\ d # entries[e].box
          /\ Room({d}, 1)
          /\ entries' = [entries EXCEPT ![e].box = d, ![e].uid = boxes[d].next]
          /\ boxes' = Advance(d, 1)
  BY DEF MoveMessage
<1>2. PICK d \in Named(u, n) :
        /\ Room({d}, 1)
        /\ entries' = [entries EXCEPT ![e].box = d, ![e].uid = boxes[d].next]
        /\ boxes' = Advance(d, 1)
  BY <1>1
<1>3. UNCHANGED <<made, messages, stored, quota, pending>>
  BY DEF MoveMessage
<1>4. /\ e \in DOMAIN entries /\ Owner(entries[e].box) = u /\ entries[e] \in Entry
      /\ ~entries[e].gone
      /\ d \in DOMAIN boxes /\ Owner(d) = u /\ d \in BoxId
      /\ boxes[d] \in Box /\ boxes[d].next \in 1..MaxUid
      /\ boxes[d].next + 1 <= MaxUid
  BY <1>2 DEF Visible, Named, BoxesOf, TypeOK, Room, Box
<1>5. /\ DOMAIN boxes' = DOMAIN boxes
      /\ boxes'[d].next = boxes[d].next + 1
      /\ DOMAIN boxes' \subseteq BoxId
      /\ \A b \in DOMAIN boxes' : boxes'[b] \in Box
      /\ made' \in [User -> 0..MaxMade]
      /\ LegalBoxes
  BY <1>2, <1>3, <1>4, Advancing
<1>7. /\ DOMAIN entries' = DOMAIN entries
      /\ \A f \in DOMAIN entries : f # e => entries'[f] = entries[f]
      /\ entries'[e] \in Entry
      /\ entries'[e].box = d /\ entries'[e].uid = boxes[d].next
      /\ entries'[e].msg = entries[e].msg /\ entries'[e].gone = entries[e].gone
  BY <1>2, <1>4 DEF Entry
<1>8. \A f \in DOMAIN entries : f # e => Kept(f)
  BY <1>7 DEF Kept, StaysExpunged
<1>9. Moved(e)
  BY <1>4, <1>5, <1>7, <1>8, MailStoreAssumption DEF Moved, Arrives
<1>10. TypeOK'
  <2>1. \A f \in DOMAIN entries' : entries'[f] \in Entry
    BY <1>7 DEF TypeOK
  <2> QED BY <1>3, <1>5, <1>7, <2>1 DEF TypeOK
<1>12. LegalMessages
  BY <1>3, MailStoreAssumption DEF LegalMessages, TypeOK, Retained
<1>13. LegalEntries
  BY <1>3, <1>4, <1>5, <1>7, <1>8, <1>9 DEF LegalEntries, Referential
<1>14. LegalDrafts
  <2>1. \A f \in DOMAIN entries' : /\ f \in DOMAIN entries /\ ~Fresh(f)
                                   /\ entries'[f].msg = entries[f].msg
                                   /\ entries'[f].gone = entries[f].gone
    <3>1. DOMAIN entries' = DOMAIN entries
      BY <1>7
    <3>2. \A f \in DOMAIN entries' : ~Fresh(f)
      BY <3>1 DEF Fresh
    <3> QED BY <1>7, <3>1, <3>2
  <2>2. ASSUME NEW m \in DOMAIN messages', messages'[m].draft
        PROVE  /\ EntriesOf(m) # {}
               /\ \A f \in EntriesOf(m) : ~entries[f].gone
    BY <1>3, <2>2 DEF DraftsArePrivate
  <2> QED BY <1>7, <2>1, <2>2 DEF LegalDrafts, EntriesOf
<1> QED BY <1>3, <1>5, <1>10, <1>12, <1>13, <1>14, SamePending DEF Legal

\* A new mailbox gets a uid_validity above those of its user.
LEMMA NextValidityIsNew ==
  ASSUME IInv, NEW u \in User
  PROVE  /\ NextValidity(u) \in Nat
         /\ NextValidity(u) <= made[u] + 1
         /\ \A b \in BoxesOf(u) : boxes[b].validity < NextValidity(u)
<1> DEFINE S == {0} \cup {boxes[b].validity : b \in BoxesOf(u)}
<1>1. made[u] \in Nat
  BY MailStoreAssumption DEF IInv, TypeOK
<1>2. \A b \in BoxesOf(u) : boxes[b].validity \in Nat /\ boxes[b].validity <= made[u]
  BY DEF IInv, TypeOK, IdsUsed, BoxesOf, Box
<1>3. S \in SUBSET Nat /\ S # {} /\ \A x \in S : x <= made[u]
  BY <1>1, <1>2
<1>4. \A b \in BoxesOf(u) : boxes[b].validity \in S
  OBVIOUS
<1>5. NextValidity(u) = 1 + Max(S)
  BY DEF NextValidity
<1> HIDE DEF S
<1>6. Max(S) \in S /\ \A x \in S : x <= Max(S)
  BY <1>1, <1>3, MaxOfBounded
<1>7. Max(S) \in Nat /\ Max(S) <= made[u]
  BY <1>3, <1>6
<1>8. \A b \in BoxesOf(u) : boxes[b].validity <= Max(S)
  BY <1>4, <1>6
<1> QED BY <1>1, <1>2, <1>5, <1>7, <1>8

LEMMA CreateMailboxStep ==
  ASSUME IInv, NEW u \in User, NEW n \in Name, CreateMailbox(u, n)
  PROVE  TypeOK' /\ Legal
<1> DEFINE b == <<u, made[u] + 1>>
           new == NewMailbox(n, NextValidity(u))
<1> USE DEF IInv
<1>1. /\ made[u] < MaxMade
      /\ boxes' = [x \in DOMAIN boxes \cup {b} |-> IF x = b THEN new ELSE boxes[x]]
      /\ made' = [made EXCEPT ![u] = @ + 1]
      /\ UNCHANGED <<messages, stored, entries, quota, pending>>
  BY DEF CreateMailbox
<1>2. /\ \A v \in User : made[v] \in 0..MaxMade
      /\ MaxMade \in Nat /\ made \in [User -> 0..MaxMade]
  BY MailStoreAssumption DEF TypeOK
<1>3. b \in BoxId /\ Owner(b) = u /\ b[2] = made[u] + 1
  BY <1>1, <1>2 DEF BoxId, Owner
<1>4. b \notin DOMAIN boxes
  <2> SUFFICES ASSUME b \in DOMAIN boxes
               PROVE  FALSE
    OBVIOUS
  <2>1. made[u] + 1 <= made[u]
    BY <1>3 DEF IdsUsed
  <2> QED BY <1>2, <2>1
<1>5. /\ new.validity = NextValidity(u) /\ new.next = 1
      /\ new \in Box
  <2>1. NextValidity(u) \in Nat
    BY NextValidityIsNew
  <2> QED BY <2>1, MailStoreAssumption DEF NewMailbox, Box
<1>6. /\ DOMAIN boxes' = DOMAIN boxes \cup {b}
      /\ boxes'[b] = new
      /\ \A c \in DOMAIN boxes : boxes'[c] = boxes[c]
  BY <1>1, <1>4
<1>7. /\ made' \in [User -> 0..MaxMade]
      /\ made'[u] = made[u] + 1
      /\ \A v \in User : made[v] <= made'[v]
  BY <1>1, <1>2
<1> HIDE DEF new, b
<1>8. LegalBoxes
  <2>1. ASSUME NEW c \in DOMAIN boxes
        PROVE  boxes[c].next <= boxes'[c].next /\ boxes'[c].validity = boxes[c].validity
    BY <1>6 DEF TypeOK, Box
  <2>2. made[Owner(b)] < b[2] /\ b[2] <= made'[Owner(b)]
    BY <1>2, <1>3, <1>7
  <2>3. boxes'[b].validity <= made'[Owner(b)]
    BY <1>3, <1>5, <1>6, <1>7, NextValidityIsNew
  <2>4. ASSUME NEW c \in DOMAIN boxes' \ {b}
        PROVE  /\ c \in DOMAIN boxes
               /\ Owner(c) = Owner(b) => boxes[c].validity < boxes'[b].validity
    BY <1>3, <1>5, <1>6, NextValidityIsNew DEF BoxesOf
  <2> QED BY <1>4, <1>6, <1>7, <2>1, <2>2, <2>3, <2>4 DEF LegalBoxes
<1>9. \A c \in DOMAIN boxes' : c \in BoxId /\ boxes'[c] \in Box
  BY <1>3, <1>5, <1>6 DEF TypeOK
<1>10. /\ DOMAIN entries' = DOMAIN entries
       /\ \A e \in DOMAIN entries' :
            /\ Kept(e) /\ entries'[e] \in Entry
            /\ entries'[e].box \in DOMAIN boxes'
            /\ messages[entries[e].msg].draft => entries'[e].gone = entries[e].gone
  BY <1>1, <1>6 DEF Kept, TypeOK, Referential, StaysExpunged
<1> QED BY <1>1, <1>7, <1>8, <1>9, <1>10, Leaving, SamePending DEF TypeOK, Legal

\* A step that only renames a mailbox, sets a quota or touches no table.
LEMMA Renaming ==
  ASSUME IInv, DOMAIN boxes' = DOMAIN boxes,
         \A b \in DOMAIN boxes : /\ boxes'[b] \in Box
                                 /\ boxes'[b].next = boxes[b].next
                                 /\ boxes'[b].validity = boxes[b].validity,
         quota' \in [User -> Quotas],
         pending' \in [Session -> Command \cup {Idle}], LegalPending,
         UNCHANGED <<made, messages, stored, entries>>
  PROVE  TypeOK' /\ Legal
<1> USE DEF IInv
<1>1. LegalBoxes
  <2>1. \A b \in DOMAIN boxes : boxes[b].next \in Nat
    BY DEF TypeOK, Box
  <2>2. \A v \in User : made[v] \in Nat
    BY MailStoreAssumption DEF TypeOK
  <2> QED BY <2>1, <2>2 DEF LegalBoxes
<1>2. /\ DOMAIN entries' = DOMAIN entries
      /\ \A e \in DOMAIN entries' :
           /\ Kept(e) /\ entries'[e] \in Entry
           /\ entries'[e].box \in DOMAIN boxes'
           /\ messages[entries[e].msg].draft => entries'[e].gone = entries[e].gone
  BY DEF Kept, TypeOK, Referential, StaysExpunged
<1> QED BY <1>1, <1>2, Leaving DEF TypeOK, Legal

LEMMA RenameMailboxStep ==
  ASSUME IInv, NEW u \in User, NEW old \in Name, NEW new \in Name,
         RenameMailbox(u, old, new)
  PROVE  TypeOK' /\ Legal
<1>1. PICK b \in Named(u, old) : boxes' = [boxes EXCEPT ![b].name = new]
  BY DEF RenameMailbox
<1>2. UNCHANGED <<made, messages, stored, entries, quota, pending>>
  BY DEF RenameMailbox
<1>3. b \in DOMAIN boxes /\ \A c \in DOMAIN boxes : boxes[c] \in Box
  BY DEF Named, BoxesOf, IInv, TypeOK
<1>4. /\ DOMAIN boxes' = DOMAIN boxes
      /\ \A c \in DOMAIN boxes : c # b => boxes'[c] = boxes[c]
      /\ boxes'[b] = [boxes[b] EXCEPT !.name = new]
  BY <1>1, <1>3
<1>5. \A c \in DOMAIN boxes : /\ boxes'[c] \in Box
                              /\ boxes'[c].next = boxes[c].next
                              /\ boxes'[c].validity = boxes[c].validity
  BY <1>3, <1>4 DEF Box
<1>6. quota' \in [User -> Quotas]
  BY <1>2 DEF IInv, TypeOK
<1> QED BY <1>2, <1>4, <1>5, <1>6, SamePending, Renaming

LEMMA UpdateQuotaStep ==
  ASSUME IInv, NEW u \in User, UpdateQuota(u)
  PROVE  TypeOK' /\ Legal
<1>1. /\ quota' \in [User -> Quotas]
      /\ UNCHANGED <<boxes, made, messages, stored, entries, pending>>
  BY DEF UpdateQuota, IInv, TypeOK
<1>2. \A b \in DOMAIN boxes : boxes[b] \in Box
  BY DEF IInv, TypeOK
<1> QED BY <1>1, <1>2, SamePending, Renaming

\* A session that finishes has no rows; the others go on.
LEMMA Finishing ==
  ASSUME IInv, NEW s \in Session, Finish(s)
  PROVE  pending' \in [Session -> Command \cup {Idle}] /\ LegalPending
<1>1. pending \in [Session -> Command \cup {Idle}]
  BY DEF IInv, TypeOK
<1>2. pending' = [pending EXCEPT ![s] = Idle]
  BY DEF Finish
<1>3. \A t \in Session : pending'[t] = IF t = s THEN Idle ELSE pending[t]
  BY <1>1, <1>2
<1>4. Idle.rows = {}
  BY DEF Idle
<1>5. LegalPending
  BY <1>3, <1>4 DEF LegalPending
<1> QED BY <1>1, <1>2, <1>5

LEMMA SelectedEntriesStep ==
  ASSUME IInv, NEW s \in Session, SelectedEntries(s)
  PROVE  TypeOK' /\ Legal
<1>0. PICK b \in DOMAIN boxes : \E ids \in SUBSET Listed(b) \ {{}} :
        pending' = [pending EXCEPT ![s] =
                      [kind |-> "read", box |-> b, rows |-> {RowOf(e) : e \in ids}]]
  BY DEF SelectedEntries
<1>1. PICK ids \in SUBSET Listed(b) \ {{}} :
        pending' = [pending EXCEPT ![s] =
                      [kind |-> "read", box |-> b, rows |-> {RowOf(e) : e \in ids}]]
  BY <1>0
<1> DEFINE rows == {RowOf(e) : e \in ids}
           cmd  == [kind |-> "read", box |-> b, rows |-> rows]
<1>2. UNCHANGED <<boxes, made, messages, stored, entries, quota>>
  BY DEF SelectedEntries
<1>3. \A r \in rows : \E e \in DOMAIN entries : r = RowOf(e) /\ entries[e].box = b
  BY DEF Listed
<1>4. \A r \in rows : /\ r.id \in DOMAIN entries /\ r = RowOf(r.id)
                      /\ entries[r.id].box = b /\ r \in Row
  <2> SUFFICES ASSUME NEW r \in rows, NEW e \in DOMAIN entries, r = RowOf(e), entries[e].box = b
               PROVE  /\ r.id = e /\ r \in Row
    BY <1>3
  <2>1. e \in EntryId /\ entries[e] \in Entry
    BY DEF IInv, TypeOK
  <2> QED BY <2>1 DEF RowOf, Row, Entry
<1> HIDE DEF rows
<1>5. cmd \in Command /\ cmd.rows = rows /\ cmd.box = b
  BY <1>4 DEF Command, IInv, TypeOK
<1> HIDE DEF cmd
<1>6. pending' = [pending EXCEPT ![s] = cmd]
  BY <1>1 DEF cmd, rows
<1>7. pending \in [Session -> Command \cup {Idle}]
  BY DEF IInv, TypeOK
<1>8. pending' \in [Session -> Command \cup {Idle}]
  BY <1>5, <1>6, <1>7
<1>9. pending'[s] = cmd /\ \A t \in Session : t # s => pending'[t] = pending[t]
  BY <1>6, <1>7
<1>10. Reads(s)
  BY <1>2, <1>4, <1>5, <1>9 DEF Reads
<1>11. LegalPending
  BY <1>9, <1>10 DEF LegalPending
<1>12. /\ \A c \in DOMAIN boxes : boxes[c] \in Box
       /\ quota \in [User -> Quotas]
  BY DEF IInv, TypeOK
<1> QED BY <1>2, <1>8, <1>11, <1>12, Renaming

LEMMA AbandonStep ==
  ASSUME IInv, NEW s \in Session, Abandon(s)
  PROVE  TypeOK' /\ Legal
<1>1. Finish(s) /\ UNCHANGED <<boxes, made, messages, stored, entries, quota>>
  BY DEF Abandon
<1>2. /\ \A c \in DOMAIN boxes : boxes[c] \in Box
      /\ quota \in [User -> Quotas]
  BY DEF IInv, TypeOK
<1> QED BY <1>1, <1>2, Finishing, Renaming

\* Writing \Deleted of one entry.
LEMMA Flagging ==
  ASSUME IInv, NEW e \in DOMAIN entries, ~entries[e].gone, NEW flag \in BOOLEAN,
         entries' = [entries EXCEPT ![e].deleted = flag],
         pending' \in [Session -> Command \cup {Idle}], LegalPending,
         UNCHANGED <<boxes, made, messages, stored, quota>>
  PROVE  TypeOK' /\ Legal
<1>1. \A f \in DOMAIN entries : entries[f] \in Entry /\ entries[f].box \in DOMAIN boxes
  BY DEF IInv, TypeOK, Referential
<1>2. DOMAIN entries' = DOMAIN entries
  OBVIOUS
<1>3. ASSUME NEW f \in DOMAIN entries'
      PROVE  /\ Kept(f) /\ entries'[f] \in Entry
             /\ entries'[f].box \in DOMAIN boxes'
             /\ messages[entries[f].msg].draft => entries'[f].gone = entries[f].gone
  <2>1. \/ entries'[f] = entries[f]
        \/ entries'[f] = [entries[f] EXCEPT !.deleted = flag] /\ ~entries[f].gone
    OBVIOUS
  <2> QED BY <1>1, <2>1 DEF Kept, Entry, StaysExpunged
<1> QED BY <1>2, <1>3, Leaving, SameBoxes DEF TypeOK, Legal, IInv

\* The \Deleted a row of a command asks for is a truth value.
LEMMA UpdatedType ==
  ASSUME NEW kind, NEW r
  PROVE  Updated(kind, r) \in BOOLEAN
BY DEF Updated

LEMMA UpdateFlagsStep ==
  ASSUME IInv, NEW s \in Session, UpdateFlags(s)
  PROVE  TypeOK' /\ Legal
<1>1. PICK r \in pending[s].rows :
        /\ r.id \in DOMAIN entries /\ ~entries[r.id].gone
        /\ entries' = [entries EXCEPT ![r.id].deleted = Updated("keep", r)]
  BY DEF UpdateFlags
<1>2. Finish(s) /\ UNCHANGED <<boxes, made, messages, stored, quota>>
  BY DEF UpdateFlags
<1> QED BY <1>1, <1>2, UpdatedType, Finishing, Flagging

LEMMA IMAPSetEntryFlagsStep ==
  ASSUME IInv, NEW s \in Session, NEW kind \in StoreKind, IMAPSetEntryFlags(s, kind)
  PROVE  TypeOK' /\ Legal
<1> DEFINE more(r) == [pending[s] EXCEPT !.kind = kind, !.rows = pending[s].rows \ {r}]
<1>1. PICK r \in pending[s].rows :
        IF StillListed(s, r)
        THEN /\ entries' = [entries EXCEPT ![r.id].deleted = Updated(kind, r)]
             /\ pending' = [pending EXCEPT ![s] =
                  IF pending[s].rows \ {r} = {} THEN Idle ELSE more(r)]
        ELSE Finish(s) /\ UNCHANGED entries
  BY DEF IMAPSetEntryFlags
<1>2. UNCHANGED <<boxes, made, messages, stored, quota>>
  BY DEF IMAPSetEntryFlags
<1>3. CASE StillListed(s, r)
  <2>1. r.id \in DOMAIN entries /\ ~entries[r.id].gone
    BY <1>3 DEF StillListed
  <2>2. pending \in [Session -> Command \cup {Idle}] /\ pending[s] \in Command
    BY DEF IInv, TypeOK, Idle
  <2>3. /\ more(r) \in Command
        /\ more(r).rows \subseteq pending[s].rows /\ more(r).box = pending[s].box
    BY <2>2 DEF Command
  <2>4. pending' = [pending EXCEPT ![s] =
                      IF pending[s].rows \ {r} = {} THEN Idle ELSE more(r)]
    BY <1>1, <1>3
  <2> HIDE DEF more
  <2>5. pending' \in [Session -> Command \cup {Idle}]
    BY <2>2, <2>3, <2>4
  <2>6. /\ pending'[s] = Idle \/ pending'[s] = more(r)
        /\ \A t \in Session : t # s => pending'[t] = pending[t]
    BY <2>2, <2>4
  <2>7. LegalPending
    BY <2>3, <2>6 DEF LegalPending, Idle
  <2> QED BY <1>1, <1>2, <1>3, <2>1, <2>5, <2>7, UpdatedType, Flagging
<1>4. CASE ~StillListed(s, r)
  <2>1. Finish(s) /\ UNCHANGED entries
    BY <1>1, <1>4
  <2>2. /\ \A c \in DOMAIN boxes : boxes[c] \in Box
        /\ quota \in [User -> Quotas]
    BY DEF IInv, TypeOK
  <2> QED BY <1>2, <2>1, <2>2, Finishing, Renaming
<1> QED BY <1>3, <1>4

-----------------------------------------------------------------------------
(* COPY and MOVE. *)

\* Rows of different entries and with different UIDs, as in every snapshot (SnapshotsOwned).
Snapshot(rows) ==
  /\ rows \subseteq Row
  /\ \A r, q \in rows : q.uid = r.uid \/ q.id = r.id => q = r

\* A snapshot has at most one row for each UID.
LEMMA SnapshotFinite ==
  ASSUME NEW rows, Snapshot(rows)
  PROVE  IsFiniteSet(rows)
<1>1. \A r \in rows : r.uid \in 1..MaxUid
  BY DEF Snapshot, Row
<1> DEFINE f == [r \in rows |-> r.uid]
<1>2. f \in Injection(rows, 1..MaxUid)
  <2>1. f \in [rows -> 1..MaxUid]
    BY <1>1
  <2>2. \A r, q \in rows : f[r] = f[q] => r = q
    BY DEF Snapshot
  <2> HIDE DEF f
  <2> QED BY <2>1, <2>2 DEF Injection, IsInjective
<1>3. IsFiniteSet(1..MaxUid)
  BY MailStoreAssumption, FS_Interval
<1> HIDE DEF f
<1> QED BY <1>2, <1>3, FS_Injection

\* The ranks of the rows of a snapshot are different numbers below their count,
\* so that their copies fill the UIDs from uid_next on.
LEMMA Ranks ==
  ASSUME NEW rows, Snapshot(rows)
  PROVE  /\ Cardinality(rows) \in Nat
         /\ \A r \in rows : Rank(r, rows) \in 0..(Cardinality(rows) - 1)
         /\ \A r, q \in rows : Rank(r, rows) = Rank(q, rows) => r = q
<1> DEFINE below(r) == {q \in rows : q.uid < r.uid}
<1>1. \A r \in rows : r.uid \in 1..MaxUid /\ r.uid \in Nat
  BY MailStoreAssumption DEF Snapshot, Row
<1>2. IsFiniteSet(rows)
  BY SnapshotFinite
<1>3. Cardinality(rows) \in Nat
  BY <1>2, FS_CardinalityType
<1>4. ASSUME NEW r \in rows
      PROVE  /\ IsFiniteSet(below(r))
             /\ Cardinality(below(r)) \in 0..(Cardinality(rows) - 1)
  <2>1. below(r) \in SUBSET rows /\ r \notin below(r)
    BY <1>1
  <2>2. /\ IsFiniteSet(below(r)) /\ Cardinality(below(r)) <= Cardinality(rows)
        /\ Cardinality(below(r)) # Cardinality(rows)
    BY <1>2, <2>1, FS_Subset
  <2>3. Cardinality(below(r)) \in Nat
    BY <2>2, FS_CardinalityType
  <2> QED BY <1>3, <2>2, <2>3
<1>5. ASSUME NEW r \in rows, NEW q \in rows, r.uid < q.uid
      PROVE  Cardinality(below(r)) # Cardinality(below(q))
  <2>1. below(r) \in SUBSET below(q)
    BY <1>1, <1>5
  <2>2. r \in below(q) /\ r \notin below(r)
    BY <1>1, <1>5
  <2>3. IsFiniteSet(below(q))
    BY <1>4
  <2> HIDE DEF below
  <2> QED BY <2>1, <2>2, <2>3, FS_Subset
<1>6. \A r \in rows : Rank(r, rows) = Cardinality(below(r))
  BY DEF Rank
<1> HIDE DEF below
<1>7. ASSUME NEW r \in rows, NEW q \in rows, Rank(r, rows) = Rank(q, rows)
      PROVE  r = q
  <2>1. ~(r.uid < q.uid) /\ ~(q.uid < r.uid)
    BY <1>5, <1>6, <1>7
  <2>2. r.uid = q.uid
    BY <1>1, <2>1
  <2> QED BY <2>2 DEF Snapshot
<1> QED BY <1>3, <1>4, <1>6, <1>7

\* Different rows are copied to different ids.
LEMMA CopyIdsDiffer ==
  ASSUME TypeOK, NEW d \in DOMAIN boxes, NEW rows, Snapshot(rows),
         NEW r \in rows, NEW q \in rows, CopyId(d, q, rows) = CopyId(d, r, rows)
  PROVE  q = r
<1>1. boxes[d].next + Rank(q, rows) = boxes[d].next + Rank(r, rows)
  BY DEF CopyId
<1>2. Rank(q, rows) \in Int /\ Rank(r, rows) \in Int
  BY Ranks
<1>3. boxes[d].next \in Int
  BY MailStoreAssumption DEF TypeOK, Box
<1>4. \A a, x, y \in Int : a + x = a + y => x = y
  OBVIOUS
<1>5. Rank(q, rows) = Rank(r, rows)
  BY <1>1, <1>2, <1>3, <1>4
<1> QED BY <1>5, Ranks

\* The copy of a row is an entry of its message.
LEMMA CopyOfRow ==
  ASSUME TypeOK, NEW d \in DOMAIN boxes, NEW rows, Snapshot(rows), NEW deleted,
         NEW r \in rows, NEW id, id = CopyId(d, r, rows)
  PROVE  /\ id \in DOMAIN Copies(d, rows, deleted)
         /\ Copies(d, rows, deleted)[id] = NewEntry(id, r.msg, deleted[r])
<1>1. \A q \in rows : CopyId(d, q, rows) = id => q = r
  BY CopyIdsDiffer
<1>2. r = CHOOSE q \in rows : CopyId(d, q, rows) = id
  BY <1>1
<1>3. id \in {CopyId(d, q, rows) : q \in rows}
  OBVIOUS
<1> QED BY <1>2, <1>3 DEF Copies

\* There is one copy of each row, with a UID of its own from uid_next on.
LEMMA CopiesOfRows ==
  ASSUME TypeOK, NEW d \in DOMAIN boxes, NEW rows, Snapshot(rows),
         NEW deleted \in [rows -> BOOLEAN],
         boxes[d].next + Cardinality(rows) <= MaxUid,
         NEW new, new = Copies(d, rows, deleted)
  PROVE  /\ \A id \in DOMAIN new : \E r \in rows :
              /\ id \in EntryId /\ id[1] = d
              /\ new[id] = NewEntry(id, r.msg, deleted[r]) /\ new[id] \in Entry
              /\ id = <<d, id[2]>>
              /\ boxes[d].next <= id[2] /\ id[2] < boxes[d].next + Cardinality(rows)
         /\ \A r \in rows : \E id \in DOMAIN new : new[id].msg = r.msg
<1>1. boxes[d].next \in 1..MaxUid /\ d \in BoxId
  BY DEF TypeOK, Box
<1>2. DOMAIN new = {CopyId(d, r, rows) : r \in rows}
  BY DEF Copies
<1>3. ASSUME NEW r \in rows, NEW id, id = CopyId(d, r, rows)
      PROVE  /\ id \in DOMAIN new
             /\ id \in EntryId /\ id[1] = d /\ id = <<d, id[2]>>
             /\ new[id] = NewEntry(id, r.msg, deleted[r]) /\ new[id] \in Entry
             /\ boxes[d].next <= id[2] /\ id[2] < boxes[d].next + Cardinality(rows)
             /\ new[id].msg = r.msg
  <2>1. id \in DOMAIN new
    BY <1>2, <1>3
  <2>2. /\ Rank(r, rows) \in 0..(Cardinality(rows) - 1)
        /\ Cardinality(rows) \in Nat
    BY Ranks
  <2>3. id[1] = d /\ id[2] = boxes[d].next + Rank(r, rows) /\ id = <<d, id[2]>>
    BY <1>3 DEF CopyId
  <2>4. boxes[d].next <= id[2] /\ id[2] < boxes[d].next + Cardinality(rows)
    BY <1>1, <2>2, <2>3, MailStoreAssumption
  <2>5. id[2] \in 1..MaxUid
    BY <1>1, <2>2, <2>3, MailStoreAssumption
  <2>6. id \in EntryId
    BY <1>1, <2>3, <2>5 DEF EntryId
  <2>9. new[id] = NewEntry(id, r.msg, deleted[r])
    BY <1>3, CopyOfRow
  <2>10. r.msg \in MessageId /\ deleted[r] \in BOOLEAN
    BY DEF Snapshot, Row
  <2>11. new[id] \in Entry /\ new[id].msg = r.msg
    BY <1>1, <2>3, <2>5, <2>9, <2>10 DEF NewEntry, Entry
  <2> QED BY <2>1, <2>3, <2>4, <2>6, <2>9, <2>11
<1>4. ASSUME NEW id \in DOMAIN new
      PROVE  \E r \in rows : id = CopyId(d, r, rows)
  BY <1>2
<1> QED BY <1>2, <1>3, <1>4

\* What COPY and MOVE have in common: copies of rows come into mailbox d, the
\* drafts among them stay with their user, and the entries in left, which are
\* all copied, go.
LEMMA CopyingStep ==
  ASSUME IInv, NEW d \in DOMAIN boxes, NEW rows, Snapshot(rows),
         NEW deleted \in [rows -> BOOLEAN],
         boxes[d].next + Cardinality(rows) <= MaxUid,
         \A r \in rows :
           /\ r.msg \in DOMAIN messages
           /\ messages[r.msg].draft =>
                \A f \in EntriesOf(r.msg) : Owner(entries[f].box) = Owner(d),
         NEW left \in SUBSET DOMAIN entries,
         \A e \in left : \E r \in rows : r.msg = entries[e].msg,
         NEW stay, DOMAIN stay = DOMAIN entries \ left,
         \A e \in DOMAIN stay :
           /\ stay[e] \in Entry
           /\ stay[e].box = entries[e].box /\ stay[e].uid = entries[e].uid
           /\ stay[e].msg = entries[e].msg
           /\ messages[entries[e].msg].draft => ~stay[e].gone
           /\ entries[e].gone => stay[e] = entries[e],
         entries' = With(Copies(d, rows, deleted), stay),
         boxes' = Advance(d, Cardinality(rows)),
         pending' \in [Session -> Command \cup {Idle}], LegalPending,
         UNCHANGED <<made, messages, stored, quota>>
  PROVE  TypeOK' /\ Legal
<1> USE DEF IInv
<1> DEFINE new == Copies(d, rows, deleted)
<1>1. Cardinality(rows) \in Nat
  BY Ranks
<1>2. /\ \A id \in DOMAIN new : \E r \in rows :
           /\ id \in EntryId /\ id[1] = d
           /\ new[id] = NewEntry(id, r.msg, deleted[r]) /\ new[id] \in Entry
           /\ id = <<d, id[2]>>
           /\ boxes[d].next <= id[2] /\ id[2] < boxes[d].next + Cardinality(rows)
      /\ \A r \in rows : \E id \in DOMAIN new : new[id].msg = r.msg
  BY CopiesOfRows
<1>3. entries' = With(new, stay)
  OBVIOUS
<1> HIDE DEF new
<1>4. /\ DOMAIN boxes' = DOMAIN boxes
      /\ boxes'[d].next = boxes[d].next + Cardinality(rows)
      /\ DOMAIN boxes' \subseteq BoxId
      /\ \A b \in DOMAIN boxes' : boxes'[b] \in Box
      /\ made' \in [User -> 0..MaxMade]
      /\ LegalBoxes
  BY <1>1, Advancing
<1>5. ASSUME NEW id \in DOMAIN new
      PROVE  id \notin DOMAIN entries
  <2>1. /\ id = <<d, id[2]>> /\ boxes[d].next <= id[2] /\ id[2] \in Nat
    BY <1>2, MailStoreAssumption DEF EntryId
  <2> QED BY <2>1, NextIdUnused
<1>6. /\ DOMAIN entries' = DOMAIN new \cup DOMAIN stay
      /\ \A id \in DOMAIN new : entries'[id] = new[id]
      /\ \A e \in DOMAIN stay : e \notin DOMAIN new /\ entries'[e] = stay[e]
  BY <1>3, <1>5 DEF With
<1>7. ASSUME NEW id \in DOMAIN new
      PROVE  /\ Fresh(id) /\ entries'[id].box = d /\ id \in EntryId
             /\ entries'[id] \in Entry /\ entries'[id].gone = FALSE
             /\ \E r \in rows : entries'[id].msg = r.msg
  <2>1. PICK r \in rows :
          /\ id \in EntryId /\ id[1] = d
          /\ new[id] = NewEntry(id, r.msg, deleted[r]) /\ new[id] \in Entry
          /\ id = <<d, id[2]>>
          /\ boxes[d].next <= id[2] /\ id[2] < boxes[d].next + Cardinality(rows)
    BY <1>2
  <2>2. /\ entries'[id].box = d /\ entries'[id].uid = id[2]
        /\ entries'[id].msg = r.msg /\ entries'[id].gone = FALSE
    BY <1>6, <2>1 DEF NewEntry
  <2>3. Fresh(id)
    BY <1>4, <1>5, <2>1, <2>2 DEF Fresh, Arrives
  <2> QED BY <1>6, <2>1, <2>2, <2>3
<1>8. \A e \in DOMAIN stay : Kept(e) /\ ~Fresh(e)
  BY <1>6 DEF Kept, Fresh, StaysExpunged
<1>9. /\ DOMAIN entries' \subseteq EntryId
      /\ \A e \in DOMAIN entries' : entries'[e] \in Entry
  BY <1>6, <1>7 DEF TypeOK
<1>10. TypeOK'
  BY <1>4, <1>9 DEF TypeOK
<1>11. LegalMessages
  BY MailStoreAssumption DEF LegalMessages, TypeOK, Retained
<1>12. LegalEntries
  <2> SUFFICES ASSUME NEW e \in DOMAIN entries'
               PROVE  /\ entries'[e].box \in DOMAIN boxes'
                      /\ entries'[e].msg \in DOMAIN messages'
                      /\ Kept(e) \/ Fresh(e)
    BY DEF LegalEntries
  <2>1. CASE e \in DOMAIN new
    BY <1>4, <1>7, <2>1
  <2>2. CASE e \in DOMAIN stay
    BY <1>4, <1>6, <1>8, <2>2 DEF Referential
  <2> QED BY <1>6, <2>1, <2>2
<1>13. LegalDrafts
  <2> SUFFICES ASSUME NEW m \in DOMAIN messages, messages[m].draft
               PROVE  /\ \E e \in DOMAIN entries' : entries'[e].msg = m
                      /\ \A e \in DOMAIN entries' : entries'[e].msg = m =>
                           ~entries'[e].gone /\ (Fresh(e) => Follows(e))
    BY DEF LegalDrafts
  <2>1. \E e \in DOMAIN entries' : entries'[e].msg = m
    <3>1. PICK e \in DOMAIN entries : entries[e].msg = m
      BY DEF DraftsArePrivate, EntriesOf
    <3>2. CASE e \in left
      BY <1>2, <1>6, <3>1, <3>2
    <3>3. CASE e \in DOMAIN stay
      BY <1>6, <3>1, <3>3
    <3> QED BY <3>2, <3>3
  <2>2. ASSUME NEW e \in DOMAIN entries', entries'[e].msg = m
        PROVE  ~entries'[e].gone /\ (Fresh(e) => Follows(e))
    <3>1. CASE e \in DOMAIN stay
      BY <1>6, <1>8, <2>2, <3>1
    <3>2. CASE e \in DOMAIN new
      <4>1. m <= stored
        BY MailStoreAssumption DEF TypeOK
      <4>2. \A f \in EntriesOf(m) : Owner(entries[f].box) = Owner(entries'[e].box)
        <5>1. PICK r \in rows : entries'[e].msg = r.msg
          BY <1>7, <3>2
        <5>2. r.msg = m /\ entries'[e].box = d
          BY <1>7, <2>2, <3>2, <5>1
        <5>3. \A f \in EntriesOf(r.msg) : Owner(entries[f].box) = Owner(d)
          BY <5>2
        <5> QED BY <5>2, <5>3
      <4> QED BY <1>7, <2>2, <3>2, <4>1, <4>2 DEF Follows
    <3> QED BY <1>6, <3>1, <3>2
  <2> QED BY <2>1, <2>2
<1> QED BY <1>4, <1>10, <1>11, <1>12, <1>13 DEF Legal

\* The rows of a command are a snapshot.
LEMMA RowsOfCommand ==
  ASSUME IInv, NEW s \in Session, pending[s].kind = "read"
  PROVE  /\ pending[s] \in Command
         /\ Snapshot(pending[s].rows)
         /\ \A rows \in SUBSET pending[s].rows : Snapshot(rows)
<1>1. pending[s] \in Command
  BY DEF IInv, TypeOK, Idle
<1>2. Snapshot(pending[s].rows)
  BY <1>1 DEF Command, Snapshot, IInv, SnapshotsOwned
<1> QED BY <1>1, <1>2 DEF Snapshot

LEMMA IMAPCopyEntriesStep ==
  ASSUME IInv, NEW s \in Session, NEW n \in Name, IMAPCopyEntries(s, n)
  PROVE  TypeOK' /\ Legal
<1> DEFINE u       == Owner(pending[s].box)
           rows    == pending[s].rows
           deleted == [r \in rows |-> r.deleted]
<1>1. /\ pending[s].kind = "read"
      /\ \A r \in rows : r.msg \in DOMAIN messages
      /\ Finish(s)
      /\ UNCHANGED <<made, messages, stored, quota>>
  BY DEF IMAPCopyEntries
<1>2. PICK d \in Named(u, n) :
        /\ Room({d}, Cardinality(rows))
        /\ entries' = With(Copies(d, rows, deleted), entries)
        /\ boxes' = Advance(d, Cardinality(rows))
  BY DEF IMAPCopyEntries
<1>3. d \in DOMAIN boxes /\ Owner(d) = u /\ boxes[d].next + Cardinality(rows) <= MaxUid
  BY <1>2 DEF Named, BoxesOf, Room
<1>4. Snapshot(rows) /\ rows \subseteq Row
  BY <1>1, RowsOfCommand DEF Snapshot
<1>5. deleted \in [rows -> BOOLEAN]
  BY <1>4 DEF Row
<1>6. \A r \in rows :
        /\ r.msg \in DOMAIN messages
        /\ messages[r.msg].draft =>
             \A f \in EntriesOf(r.msg) : Owner(entries[f].box) = Owner(d)
  BY <1>1, <1>3 DEF IInv, SnapshotsOwned
<1>7. \A e \in DOMAIN entries :
        /\ entries[e] \in Entry
        /\ messages[entries[e].msg].draft => ~entries[e].gone
  BY DEF IInv, TypeOK, Referential, DraftsArePrivate, EntriesOf
<1> DEFINE left == {}
<1>8. /\ left \in SUBSET DOMAIN entries
      /\ DOMAIN entries = DOMAIN entries \ left
      /\ \A e \in left : \E r \in rows : r.msg = entries[e].msg
  OBVIOUS
<1> HIDE DEF rows, deleted, left
<1> QED BY <1>1, <1>2, <1>3, <1>4, <1>5, <1>6, <1>7, <1>8, Finishing, CopyingStep

LEMMA IMAPMoveEntriesStep ==
  ASSUME IInv, NEW s \in Session, NEW n \in Name, IMAPMoveEntries(s, n)
  PROVE  TypeOK' /\ Legal
<1> DEFINE u       == Owner(pending[s].box)
           rows    == {r \in pending[s].rows : StillListed(s, r)}
           ids     == {r.id : r \in rows}
           left    == {e \in ids : messages[entries[e].msg].draft}
           deleted == [r \in rows |-> entries[r.id].deleted]
           stay    == [e \in DOMAIN entries \ left |->
                         IF e \in ids THEN [entries[e] EXCEPT !.gone = TRUE] ELSE entries[e]]
<1>1. /\ pending[s].kind = "read"
      /\ Finish(s)
      /\ UNCHANGED <<made, messages, stored, quota>>
  BY DEF IMAPMoveEntries
<1>2. PICK d \in Named(u, n) :
        /\ Room({d}, Cardinality(rows))
        /\ entries' = With(Copies(d, rows, deleted), stay)
        /\ boxes' = Advance(d, Cardinality(rows))
  BY DEF IMAPMoveEntries
<1>3. d \in DOMAIN boxes /\ Owner(d) = u /\ boxes[d].next + Cardinality(rows) <= MaxUid
  BY <1>2 DEF Named, BoxesOf, Room
<1>4. Snapshot(rows)
  BY <1>1, RowsOfCommand
<1>5. \A r \in rows : /\ r.id \in DOMAIN entries /\ entries[r.id] \in Entry
                      /\ entries[r.id].box = pending[s].box
                      /\ r.msg = entries[r.id].msg
                      /\ entries[r.id].msg \in DOMAIN messages
  BY DEF StillListed, IInv, TypeOK, SnapshotsNameTheirMessage, Referential
<1>6. deleted \in [rows -> BOOLEAN]
  BY <1>5 DEF Entry
<1>7. \A r \in rows :
        /\ r.msg \in DOMAIN messages
        /\ messages[r.msg].draft =>
             \A f \in EntriesOf(r.msg) : Owner(entries[f].box) = Owner(d)
  BY <1>3, <1>5 DEF IInv, SnapshotsOwned
<1>8. /\ left \in SUBSET DOMAIN entries
      /\ \A e \in left : \E r \in rows : r.msg = entries[e].msg
  BY <1>5
<1>9. DOMAIN stay = DOMAIN entries \ left
  OBVIOUS
<1>10. ASSUME NEW e \in DOMAIN stay
       PROVE  /\ stay[e] \in Entry
              /\ stay[e].box = entries[e].box /\ stay[e].uid = entries[e].uid
              /\ stay[e].msg = entries[e].msg
              /\ messages[entries[e].msg].draft => ~stay[e].gone
              /\ entries[e].gone => stay[e] = entries[e]
  <2>1. e \in DOMAIN entries /\ entries[e] \in Entry
          /\ (messages[entries[e].msg].draft => ~entries[e].gone)
    BY DEF IInv, TypeOK, Referential, DraftsArePrivate, EntriesOf
  <2>2. CASE e \in ids
    <3>1. stay[e] = [entries[e] EXCEPT !.gone = TRUE] /\ ~messages[entries[e].msg].draft
      BY <2>2
    <3>2. ~entries[e].gone
      BY <2>2 DEF StillListed
    <3> HIDE DEF stay
    <3> QED BY <2>1, <3>1, <3>2 DEF Entry
  <2>3. CASE e \notin ids
    BY <2>1, <2>3
  <2> QED BY <2>2, <2>3
<1> HIDE DEF rows, deleted, left, stay
<1> QED BY <1>1, <1>2, <1>3, <1>4, <1>6, <1>7, <1>8, <1>9, <1>10, Finishing, CopyingStep

-----------------------------------------------------------------------------
(* The inductive invariant. *)

LEMMA InitIInv ==
  ASSUME Init
  PROVE  IInv
<1>1. /\ DOMAIN boxes = User \X (1..Len(SystemMailboxes))
      /\ \A b \in DOMAIN boxes :
           boxes[b] = [name |-> SystemMailboxes[b[2]], validity |-> b[2], next |-> 1]
      /\ made = [u \in User |-> Len(SystemMailboxes)]
  BY DEF Init
<1>2. /\ DOMAIN messages = {} /\ stored = 0 /\ DOMAIN entries = {}
      /\ quota \in [User -> Quotas] /\ pending = [s \in Session |-> Idle]
  BY DEF Init
<1>3. Len(SystemMailboxes) \in Nat /\ Len(SystemMailboxes) <= MaxMade
        /\ \A i \in 1..Len(SystemMailboxes) : SystemMailboxes[i] \in Name
  BY MailStoreAssumption
<1>4. \A b \in DOMAIN boxes : /\ b \in BoxId /\ b = <<Owner(b), b[2]>> /\ Owner(b) \in User
                              /\ b[2] \in 1..Len(SystemMailboxes)
                              /\ b[2] <= made[Owner(b)]
  BY <1>1, <1>3, MailStoreAssumption DEF BoxId, Owner
<1>5. \A b \in DOMAIN boxes : boxes[b] \in Box
  BY <1>1, <1>3, <1>4, MailStoreAssumption DEF Box
<1>6. \A s \in Session : pending[s] = Idle /\ pending[s].rows = {}
  BY <1>2 DEF Idle
<1>7. TypeOK
  <2>1. made \in [User -> 0..MaxMade]
    BY <1>1, <1>3, MailStoreAssumption
  <2>2. stored \in 0..MaxMessages
    BY <1>2, MailStoreAssumption
  <2>3. pending \in [Session -> Command \cup {Idle}]
    BY <1>2
  <2> QED BY <1>2, <1>4, <1>5, <2>1, <2>2, <2>3 DEF TypeOK
<1>8. Referential /\ UidsDistinct /\ DraftsArePrivate
  BY <1>2 DEF Referential, UidsDistinct, DraftsArePrivate
<1>9. ValiditiesDistinct
  <2> SUFFICES ASSUME NEW a \in DOMAIN boxes, NEW b \in DOMAIN boxes,
                      Owner(a) = Owner(b), boxes[a].validity = boxes[b].validity
               PROVE  a = b
    BY DEF ValiditiesDistinct
  <2>1. boxes[a].validity = a[2] /\ boxes[b].validity = b[2]
    BY <1>1
  <2> QED BY <1>4, <2>1
<1>10. SnapshotsNameTheirMessage /\ SnapshotsOwned
  BY <1>6 DEF SnapshotsNameTheirMessage, SnapshotsOwned
<1>11. IdsUsed
  <2>1. \A b \in DOMAIN boxes : boxes[b].validity = b[2]
    BY <1>1
  <2> QED BY <1>2, <1>4, <1>6, <2>1 DEF IdsUsed
<1> QED BY <1>7, <1>8, <1>9, <1>10, <1>11 DEF IInv

LEMMA NextLegal ==
  ASSUME IInv, Next
  PROVE  TypeOK' /\ Legal
<1>1. CASE Receive
  BY <1>1, ReceiveStep
<1>2. ASSUME NEW u \in User, UserStep(u)
      PROVE  TypeOK' /\ Legal
  <2>1. CASE Send(u)
    BY <2>1, SendStep
  <2>2. CASE SaveDraft(u)
    BY <2>2, SaveDraftStep
  <2>3. CASE CreateMessage(u)
    BY <2>3, CreateMessageStep
  <2>4. CASE MoveMessage(u)
    BY <2>4, MoveMessageStep
  <2>5. CASE ExpungeMessage(u)
    <3>1. PICK e \in Visible(u) : Expunge({e})
      BY <2>5 DEF ExpungeMessage
    <3>2. {e} \in SUBSET DOMAIN entries
      BY DEF Visible
    <3> QED BY <3>1, <3>2, ExpungeStep
  <2>6. CASE UpdateQuota(u)
    BY <2>6, UpdateQuotaStep
  <2>7. ASSUME NEW n \in Name, CreateMailbox(u, n)
        PROVE  TypeOK' /\ Legal
    BY <2>7, CreateMailboxStep
  <2>8. ASSUME NEW n \in Name, IMAPDeleteMailbox(u, n)
        PROVE  TypeOK' /\ Legal
    BY <2>8, IMAPDeleteMailboxStep
  <2>9. ASSUME NEW old \in Name, NEW new \in Name, RenameMailbox(u, old, new)
        PROVE  TypeOK' /\ Legal
    BY <2>9, RenameMailboxStep
  <2> QED BY <1>2, <2>1, <2>2, <2>3, <2>4, <2>5, <2>6, <2>7, <2>8, <2>9 DEF UserStep
<1>3. ASSUME NEW b \in DOMAIN boxes, IMAPExpungeDeleted(b)
      PROVE  TypeOK' /\ Legal
  <2> DEFINE ids == {e \in Listed(b) : entries[e].deleted}
  <2>1. Expunge(ids)
    BY <1>3 DEF IMAPExpungeDeleted
  <2>2. ids \in SUBSET DOMAIN entries
    BY DEF Listed
  <2> HIDE DEF ids
  <2> QED BY <2>1, <2>2, ExpungeStep
<1>4. ASSUME NEW s \in Session, SessionStep(s)
      PROVE  TypeOK' /\ Legal
  <2>1. CASE SelectedEntries(s)
    BY <2>1, SelectedEntriesStep
  <2>2. CASE UpdateFlags(s)
    BY <2>2, UpdateFlagsStep
  <2>3. CASE Abandon(s)
    BY <2>3, AbandonStep
  <2>4. ASSUME NEW n \in Name, IMAPCopyEntries(s, n)
        PROVE  TypeOK' /\ Legal
    BY <2>4, IMAPCopyEntriesStep
  <2>5. ASSUME NEW n \in Name, IMAPMoveEntries(s, n)
        PROVE  TypeOK' /\ Legal
    BY <2>5, IMAPMoveEntriesStep
  <2>6. ASSUME NEW kind \in StoreKind, IMAPSetEntryFlags(s, kind)
        PROVE  TypeOK' /\ Legal
    BY <2>6, IMAPSetEntryFlagsStep
  <2> QED BY <1>4, <2>1, <2>2, <2>3, <2>4, <2>5, <2>6 DEF SessionStep
<1> QED BY <1>1, <1>2, <1>3, <1>4 DEF Next

LEMMA NextIInv ==
  ASSUME IInv, [Next]_vars
  PROVE  IInv'
<1>1. CASE Next
  BY <1>1, NextLegal, LegalStep
<1>2. CASE UNCHANGED vars
  BY <1>2 DEF vars, IInv, TypeOK, Referential, UidsDistinct, DraftsArePrivate,
              ValiditiesDistinct, SnapshotsNameTheirMessage, IdsUsed, IdUsed,
              SnapshotsOwned, EntriesOf
<1> QED BY <1>1, <1>2

\* IInv holds in every reachable state.
THEOREM Inductive == Spec => []IInv
<1>1. Init => IInv
  BY InitIInv
<1>2. IInv /\ [Next]_vars => IInv'
  BY NextIInv
<1> QED BY <1>1, <1>2, PTL DEF Spec

\* Every table keeps its types, and uid_next never leaves its range.
THEOREM TypeCorrect == Spec => []TypeOK
<1>1. IInv => TypeOK
  BY DEF IInv
<1> QED BY <1>1, Inductive, PTL

\* An entry always has its mailbox and its message.
THEOREM AlwaysReferential == Spec => []Referential
<1>1. IInv => Referential
  BY DEF IInv
<1> QED BY <1>1, Inductive, PTL

\* UIDs in one mailbox are distinct and below uid_next.
THEOREM AlwaysUidsDistinct == Spec => []UidsDistinct
<1>1. IInv => UidsDistinct
  BY DEF IInv
<1> QED BY <1>1, Inductive, PTL

\* A draft has an entry, of one user only, and no expunged one.
THEOREM AlwaysDraftsArePrivate == Spec => []DraftsArePrivate
<1>1. IInv => DraftsArePrivate
  BY DEF IInv
<1> QED BY <1>1, Inductive, PTL

\* Mailboxes a user has at the same time differ in uid_validity.
THEOREM AlwaysValiditiesDistinct == Spec => []ValiditiesDistinct
<1>1. IInv => ValiditiesDistinct
  BY DEF IInv
<1> QED BY <1>1, Inductive, PTL

\* An entry that comes into a mailbox gets a UID the mailbox has not had before.
THEOREM AlwaysUidsAscend == Spec => UidsAscend
<1>1. IInv /\ [Next]_vars => [\A e \in DOMAIN entries' : ArrivesAbove(e)]_vars
  <2> SUFFICES ASSUME IInv, Next, NEW e \in DOMAIN entries'
               PROVE  ArrivesAbove(e)
    OBVIOUS
  <2>1. Kept(e) \/ Arrives(e)
    BY NextLegal DEF Legal, LegalEntries, Moved, Fresh
  <2> QED BY <2>1 DEF ArrivesAbove, Kept, Arrives
<1> QED BY <1>1, Inductive, PTL DEF Spec, UidsAscend

\* Messages that are not drafts are never deleted or changed.
THEOREM AlwaysRetainedStay == Spec => RetainedStay
<1>1. IInv /\ [Next]_vars => [\A m \in DOMAIN messages : Retained(m)]_vars
  <2> SUFFICES ASSUME IInv, Next
               PROVE  \A m \in DOMAIN messages : Retained(m)
    OBVIOUS
  <2> QED BY NextLegal DEF Legal, LegalMessages
<1> QED BY <1>1, Inductive, PTL DEF Spec, RetainedStay

\* An expunged entry stays as it is or goes with its mailbox.
THEOREM AlwaysExpungedStay == Spec => ExpungedStay
<1>1. IInv /\ [Next]_vars => [\A e \in DOMAIN entries : StaysExpunged(e)]_vars
  <2> SUFFICES ASSUME IInv, Next, NEW e \in DOMAIN entries, e \in DOMAIN entries'
               PROVE  StaysExpunged(e)
    BY DEF StaysExpunged
  <2>1. Kept(e) \/ Moved(e)
    BY NextLegal DEF Legal, LegalEntries, Fresh
  <2> QED BY <2>1 DEF Kept, Moved, StaysExpunged
<1> QED BY <1>1, Inductive, PTL DEF Spec, ExpungedStay

-----------------------------------------------------------------------------
(* System mailboxes.                                                         *)

\* A step that keeps mailboxes and their names.
LEMMA NamesKept ==
  ASSUME SystemMailboxesStay, DOMAIN boxes' = DOMAIN boxes,
         \A b \in DOMAIN boxes : boxes'[b].name = boxes[b].name
  PROVE  SystemMailboxesStay'
  BY DEF SystemMailboxesStay, Named, BoxesOf

LEMMA CreateMailboxNames ==
  ASSUME IInv, SystemMailboxesStay, NEW u \in User, NEW n \in Name, CreateMailbox(u, n)
  PROVE  SystemMailboxesStay'
<1> DEFINE b == <<u, made[u] + 1>>
           new == NewMailbox(n, NextValidity(u))
<1>1. /\ Named(u, n) = {}
      /\ boxes' = [x \in DOMAIN boxes \cup {b} |-> IF x = b THEN new ELSE boxes[x]]
  BY DEF CreateMailbox
<1>2. new.name = n /\ Owner(b) = u
  BY DEF NewMailbox, Owner
<1>3. b \notin DOMAIN boxes
  <2> SUFFICES ASSUME b \in DOMAIN boxes
               PROVE  FALSE
    OBVIOUS
  <2>1. made[u] + 1 <= made[u] /\ made[u] \in Nat
    BY <1>2, MailStoreAssumption DEF IInv, IdsUsed, TypeOK
  <2> QED BY <2>1
<1> HIDE DEF new, b
<1>4. /\ DOMAIN boxes' = DOMAIN boxes \cup {b}
      /\ boxes'[b].name = n
      /\ \A c \in DOMAIN boxes : boxes'[c].name = boxes[c].name
  BY <1>1, <1>2, <1>3
<1>5. \A c \in DOMAIN boxes : Owner(c) = u => boxes[c].name # n
  BY <1>1 DEF Named, BoxesOf
<1> QED BY <1>2, <1>4, <1>5 DEF SystemMailboxesStay, Named, BoxesOf

LEMMA RenameMailboxNames ==
  ASSUME IInv, SystemMailboxesStay, NEW u \in User, NEW old \in Name, NEW new \in Name,
         RenameMailbox(u, old, new)
  PROVE  SystemMailboxesStay'
<1>1. PICK b \in Named(u, old) : boxes' = [boxes EXCEPT ![b].name = new]
  BY DEF RenameMailbox
<1>2. b \in DOMAIN boxes /\ Owner(b) = u /\ boxes[b].name \notin System /\ boxes[b] \in Box
  BY DEF RenameMailbox, Named, BoxesOf, IInv, TypeOK
<1>3. /\ DOMAIN boxes' = DOMAIN boxes
      /\ boxes'[b].name = new
      /\ \A c \in DOMAIN boxes : c # b => boxes'[c] = boxes[c]
  BY <1>1, <1>2 DEF Box
<1>4. \A c \in DOMAIN boxes : Owner(c) = u => boxes[c].name # new
  BY DEF RenameMailbox, Named, BoxesOf
<1> QED BY <1>2, <1>3, <1>4 DEF SystemMailboxesStay, Named, BoxesOf

LEMMA DeleteMailboxNames ==
  ASSUME SystemMailboxesStay, NEW u \in User, NEW n \in Name, IMAPDeleteMailbox(u, n)
  PROVE  SystemMailboxesStay'
<1>1. PICK b \in Named(u, n) : boxes' = Without(boxes, {b})
  BY DEF IMAPDeleteMailbox
<1>2. boxes[b].name \notin System
  BY DEF IMAPDeleteMailbox, Named
<1>3. /\ DOMAIN boxes' = DOMAIN boxes \ {b}
      /\ \A c \in DOMAIN boxes' : boxes'[c] = boxes[c]
  BY <1>1 DEF Without
<1> QED BY <1>2, <1>3 DEF SystemMailboxesStay, Named, BoxesOf

LEMMA AdvanceNames ==
  ASSUME IInv, NEW d \in DOMAIN boxes, NEW n, boxes' = Advance(d, n)
  PROVE  /\ DOMAIN boxes' = DOMAIN boxes
         /\ \A b \in DOMAIN boxes : boxes'[b].name = boxes[b].name
<1>1. boxes[d] \in Box
  BY DEF IInv, TypeOK
<1> QED BY <1>1 DEF Advance, Box

\* All other actions only advance uid_next.
LEMMA OtherNames ==
  ASSUME IInv, Next,
         ~ \E u \in User, n \in Name : CreateMailbox(u, n) \/ IMAPDeleteMailbox(u, n),
         ~ \E u \in User, old, new \in Name : RenameMailbox(u, old, new)
  PROVE  /\ DOMAIN boxes' = DOMAIN boxes
         /\ \A b \in DOMAIN boxes : boxes'[b].name = boxes[b].name
<1> DEFINE Same == /\ DOMAIN boxes' = DOMAIN boxes
                   /\ \A b \in DOMAIN boxes : boxes'[b].name = boxes[b].name
<1>1. ASSUME NEW draft, NEW size, NEW deleted, NEW targets, NEW replaced,
             SaveMessage(draft, size, deleted, targets, replaced)
      PROVE  Same
  <2>1. boxes' = [b \in DOMAIN boxes |->
                    IF b \in targets THEN [boxes[b] EXCEPT !.next = @ + 1] ELSE boxes[b]]
    BY <1>1 DEF SaveMessage
  <2>2. \A b \in DOMAIN boxes : boxes[b] \in Box
    BY DEF IInv, TypeOK
  <2> QED BY <2>1, <2>2 DEF Box
<1>2. ASSUME NEW d \in DOMAIN boxes, NEW n, boxes' = Advance(d, n)
      PROVE  Same
  BY <1>2, AdvanceNames
<1>3. \A u, n : Named(u, n) \subseteq DOMAIN boxes
  BY DEF Named, BoxesOf
<1>4. boxes' = boxes => Same
  OBVIOUS
<1> HIDE DEF Same
<1>5. ASSUME Receive
      PROVE  Same
  <2>1. \E size, targets : SaveMessage(FALSE, size, FALSE, targets, {})
    BY <1>5 DEF Receive
  <2> QED BY <1>1, <2>1
<1>6. ASSUME NEW u \in User, UserStep(u)
      PROVE  Same
  <2>1. CASE Send(u) \/ SaveDraft(u) \/ CreateMessage(u)
    BY <1>1, <2>1 DEF Send, SaveDraft, CreateMessage
  <2>2. CASE MoveMessage(u)
    BY <1>2, <1>3, <2>2 DEF MoveMessage
  <2>3. CASE ExpungeMessage(u) \/ UpdateQuota(u)
    BY <1>4, <2>3 DEF ExpungeMessage, Expunge, UpdateQuota
  <2> QED BY <1>6, <2>1, <2>2, <2>3 DEF UserStep
<1>7. ASSUME NEW b \in DOMAIN boxes, IMAPExpungeDeleted(b)
      PROVE  Same
  BY <1>4, <1>7 DEF IMAPExpungeDeleted, Expunge
<1>8. ASSUME NEW s \in Session, SessionStep(s)
      PROVE  Same
  <2>1. ASSUME NEW n \in Name, IMAPCopyEntries(s, n)
        PROVE  Same
    BY <1>2, <1>3, <2>1 DEF IMAPCopyEntries
  <2>2. ASSUME NEW n \in Name, IMAPMoveEntries(s, n)
        PROVE  Same
    BY <1>2, <1>3, <2>2 DEF IMAPMoveEntries
  <2>3. CASE SelectedEntries(s) \/ UpdateFlags(s) \/ Abandon(s)
    BY <1>4, <2>3 DEF SelectedEntries, UpdateFlags, Abandon
  <2>4. ASSUME NEW kind \in StoreKind, IMAPSetEntryFlags(s, kind)
        PROVE  Same
    BY <1>4, <2>4 DEF IMAPSetEntryFlags
  <2> QED BY <1>8, <2>1, <2>2, <2>3, <2>4 DEF SessionStep
<1>9. Same
  BY <1>5, <1>6, <1>7, <1>8 DEF Next
<1> QED BY <1>9 DEF Same

\* Every user has each system mailbox, once, whatever mailboxes are made, renamed
\* and deleted: the IMAP handler refuses to rename those that the store would.
THEOREM AlwaysSystemMailboxesStay == Spec => []SystemMailboxesStay
<1>1. Init => SystemMailboxesStay
  <2> SUFFICES ASSUME Init, NEW u \in User
               PROVE  /\ \A n \in System : Named(u, n) # {}
                      /\ \A a, b \in BoxesOf(u) : boxes[a].name = boxes[b].name => a = b
    BY DEF SystemMailboxesStay
  <2>1. /\ DOMAIN boxes = User \X (1..Len(SystemMailboxes))
        /\ \A b \in DOMAIN boxes : boxes[b].name = SystemMailboxes[b[2]]
    BY DEF Init
  <2>2. ASSUME NEW n \in System
        PROVE  Named(u, n) # {}
    <3>1. PICK i \in 1..Len(SystemMailboxes) : n = SystemMailboxes[i]
      BY DEF System
    <3>2. <<u, i>> \in DOMAIN boxes /\ boxes[<<u, i>>].name = n
      BY <2>1, <3>1
    <3>3. Owner(<<u, i>>) = u
      BY DEF Owner
    <3> QED BY <3>2, <3>3 DEF Named, BoxesOf
  <2>3. ASSUME NEW a \in BoxesOf(u), NEW b \in BoxesOf(u), boxes[a].name = boxes[b].name
        PROVE  a = b
    <3>1. /\ a[2] \in 1..Len(SystemMailboxes) /\ b[2] \in 1..Len(SystemMailboxes)
          /\ a = <<u, a[2]>> /\ b = <<u, b[2]>>
      BY <2>1 DEF BoxesOf, Owner
    <3>2. SystemMailboxes[a[2]] = SystemMailboxes[b[2]]
      BY <2>1, <2>3 DEF BoxesOf
    <3> QED BY <3>1, <3>2, MailStoreAssumption
  <2> QED BY <2>2, <2>3
<1>2. IInv /\ SystemMailboxesStay /\ [Next]_vars => SystemMailboxesStay'
  <2> SUFFICES ASSUME IInv, SystemMailboxesStay, [Next]_vars
               PROVE  SystemMailboxesStay'
    OBVIOUS
  <2>1. CASE UNCHANGED vars
    BY <2>1, NamesKept DEF vars
  <2>2. CASE Next
    BY <2>2, OtherNames, NamesKept, CreateMailboxNames, RenameMailboxNames, DeleteMailboxNames
  <2> QED BY <2>1, <2>2
<1> QED BY <1>1, <1>2, Inductive, PTL DEF Spec

-----------------------------------------------------------------------------
(* One step changes entries of one user.                                     *)

Untouched(e) == e \in DOMAIN entries' /\ entries'[e] = entries[e]

\* Whatever a step changes of the entries there were belongs to u.
TouchesOnly(u) ==
  \A e \in DOMAIN entries : Untouched(e) \/ Owner(entries[e].box) = u

\* Entries that are inserted take the place of none.
LEMMA InsertedTouchNone ==
  ASSUME NEW new, NEW table, entries' = With(new, table),
         \A e \in DOMAIN entries : e \notin DOMAIN new,
         NEW u,
         \A e \in DOMAIN entries :
           (e \in DOMAIN table /\ table[e] = entries[e]) \/ Owner(entries[e].box) = u
  PROVE  TouchesOnly(u)
  BY DEF With, TouchesOnly, Untouched

LEMMA SaveMessageTouches ==
  ASSUME IInv, NEW u, NEW draft, NEW size, NEW deleted, NEW targets \in SUBSET DOMAIN boxes,
         NEW replaced, SaveMessage(draft, size, deleted, targets, replaced),
         \A m \in replaced : m \in ReplaceableDrafts(u)
  PROVE  TouchesOnly(u)
<1> DEFINE kept == {e \in DOMAIN entries : entries[e].msg \notin replaced}
           ids  == {<<b, boxes[b].next>> : b \in targets}
           new  == [id \in ids |-> NewEntry(id, stored + 1, deleted)]
           table == Without(entries, DOMAIN entries \ kept)
<1>1. entries' = With(new, table)
  BY DEF SaveMessage
<1>2. \A b \in targets : <<b, boxes[b].next>> \notin DOMAIN entries
  <2>1. \A b \in DOMAIN boxes : boxes[b].next \in Nat /\ boxes[b].next <= boxes[b].next
    BY DEF IInv, TypeOK, Box
  <2> QED BY <2>1, NextIdUnused DEF IInv
<1>3. DOMAIN new = ids
  OBVIOUS
<1>4. \A e \in DOMAIN entries : e \notin DOMAIN new
  BY <1>2, <1>3
<1>5. ASSUME NEW e \in DOMAIN entries
      PROVE  (e \in DOMAIN table /\ table[e] = entries[e]) \/ Owner(entries[e].box) = u
  <2>1. CASE entries[e].msg \in replaced
    BY <2>1 DEF ReplaceableDrafts, EntriesOf
  <2>2. CASE entries[e].msg \notin replaced
    BY <2>2 DEF Without
  <2> QED BY <2>1, <2>2
<1> HIDE DEF new, table
<1> QED BY <1>1, <1>4, <1>5, InsertedTouchNone

LEMMA ExpungeTouches ==
  ASSUME NEW u, NEW ids, Expunge(ids), \A e \in ids : Owner(entries[e].box) = u
  PROVE  TouchesOnly(u)
  BY DEF Expunge, TouchesOnly, Untouched

LEMMA UserTouches ==
  ASSUME IInv, NEW u \in User, UserStep(u)
  PROVE  TouchesOnly(u)
<1>1. \A v, n : Named(v, n) \subseteq DOMAIN boxes
  BY DEF Named, BoxesOf
<1>2. \A r \in DraftToReplace(u) : \A m \in r : m \in ReplaceableDrafts(u)
  BY DEF DraftToReplace
<1>3. CASE Send(u)
  <2>1. PICK size \in Sizes, to \in SUBSET User, sent \in Named(u, Sent) :
          \E inbox \in [to -> DOMAIN boxes] :
            /\ \A v \in to : inbox[v] \in Named(v, Inbox)
            /\ \E replaced \in DraftToReplace(u) :
                 SaveMessage(FALSE, size, FALSE, {sent} \cup {inbox[v] : v \in to}, replaced)
    BY <1>3 DEF Send
  <2>2. PICK inbox \in [to -> DOMAIN boxes], replaced \in DraftToReplace(u) :
          SaveMessage(FALSE, size, FALSE, {sent} \cup {inbox[v] : v \in to}, replaced)
    BY <2>1
  <2>3. {sent} \cup {inbox[v] : v \in to} \in SUBSET DOMAIN boxes
    BY <1>1
  <2> QED BY <1>2, <2>2, <2>3, SaveMessageTouches
<1>4. CASE SaveDraft(u)
  <2>1. PICK size \in Sizes, b \in Named(u, Drafts), replaced \in DraftToReplace(u) :
          SaveMessage(TRUE, size, FALSE, {b}, replaced)
    BY <1>4 DEF SaveDraft
  <2>2. {b} \in SUBSET DOMAIN boxes
    BY <1>1
  <2> QED BY <1>2, <2>1, <2>2, SaveMessageTouches
<1>5. CASE CreateMessage(u)
  <2>1. PICK size \in Sizes, b \in BoxesOf(u), draftFlag \in BOOLEAN, deleted \in BOOLEAN :
          SaveMessage(draftFlag \/ boxes[b].name = Drafts, size, deleted, {b}, {})
    BY <1>5 DEF CreateMessage
  <2>2. {b} \in SUBSET DOMAIN boxes
    BY DEF BoxesOf
  <2> QED BY <2>1, <2>2, SaveMessageTouches
<1>6. CASE MoveMessage(u)
  <2>1. PICK e \in Visible(u), d \in DOMAIN boxes :
          entries' = [entries EXCEPT ![e].box = d, ![e].uid = boxes[d].next]
    BY <1>1, <1>6 DEF MoveMessage
  <2>2. Owner(entries[e].box) = u
    BY DEF Visible
  <2>3. DOMAIN entries' = DOMAIN entries /\ \A f \in DOMAIN entries : f # e => entries'[f] = entries[f]
    BY <2>1
  <2> QED BY <2>2, <2>3 DEF TouchesOnly, Untouched
<1>7. CASE ExpungeMessage(u)
  <2>1. PICK e \in Visible(u) : Expunge({e})
    BY <1>7 DEF ExpungeMessage
  <2>2. \A f \in {e} : Owner(entries[f].box) = u
    BY DEF Visible
  <2> QED BY <2>1, <2>2, ExpungeTouches
<1>8. ASSUME NEW n \in Name, IMAPDeleteMailbox(u, n)
      PROVE  TouchesOnly(u)
  <2>1. PICK b \in Named(u, n) :
          entries' = Without(entries, {e \in DOMAIN entries : entries[e].box = b})
    BY <1>8 DEF IMAPDeleteMailbox
  <2>2. Owner(b) = u
    BY DEF Named, BoxesOf
  <2> QED BY <2>1, <2>2 DEF Without, TouchesOnly, Untouched
<1>9. ASSUME entries' = entries
      PROVE  TouchesOnly(u)
  BY <1>9 DEF TouchesOnly, Untouched
<1>10. ASSUME NEW n \in Name, CreateMailbox(u, n)
       PROVE  TouchesOnly(u)
  BY <1>9, <1>10 DEF CreateMailbox
<1>11. ASSUME NEW old \in Name, NEW new \in Name, RenameMailbox(u, old, new)
       PROVE  TouchesOnly(u)
  BY <1>9, <1>11 DEF RenameMailbox
<1>12. CASE UpdateQuota(u)
  BY <1>9, <1>12 DEF UpdateQuota
<1> QED BY <1>3, <1>4, <1>5, <1>6, <1>7, <1>8, <1>10, <1>11, <1>12 DEF UserStep

\* Copies take ids that no entry has.
LEMMA CopiesTakeNewIds ==
  ASSUME IInv, NEW d \in DOMAIN boxes, NEW rows, Snapshot(rows), NEW deleted,
         NEW e \in DOMAIN Copies(d, rows, deleted)
  PROVE  e \notin DOMAIN entries
<1>1. PICK r \in rows : e = <<d, boxes[d].next + Rank(r, rows)>>
  BY DEF Copies, CopyId
<1>2. Rank(r, rows) \in Nat
  BY Ranks
<1>3. boxes[d].next \in Nat
  BY DEF IInv, TypeOK, Box
<1> QED BY <1>1, <1>2, <1>3, NextIdUnused DEF IInv

LEMMA SessionTouches ==
  ASSUME IInv, NEW s \in Session, SessionStep(s)
  PROVE  \E u : TouchesOnly(u)
<1>1. \A v, n : Named(v, n) \subseteq DOMAIN boxes
  BY DEF Named, BoxesOf
<1>2. ASSUME entries' = entries
      PROVE  \E u : TouchesOnly(u)
  BY <1>2 DEF TouchesOnly, Untouched
<1>3. ASSUME NEW e, NEW deleted, entries' = [entries EXCEPT ![e].deleted = deleted]
      PROVE  \E u : TouchesOnly(u)
  <2>1. TouchesOnly(Owner(entries[e].box))
    BY <1>3 DEF TouchesOnly, Untouched
  <2> QED BY <2>1
<1>4. CASE SelectedEntries(s) \/ Abandon(s)
  BY <1>2, <1>4 DEF SelectedEntries, Abandon
<1>5. CASE UpdateFlags(s)
  BY <1>3, <1>5 DEF UpdateFlags
<1>6. ASSUME NEW kind \in StoreKind, IMAPSetEntryFlags(s, kind)
      PROVE  \E u : TouchesOnly(u)
  <2>1. PICK r : entries' = [entries EXCEPT ![r.id].deleted = Updated(kind, r)] \/ entries' = entries
    BY <1>6 DEF IMAPSetEntryFlags
  <2> QED BY <1>2, <1>3, <2>1
<1>7. ASSUME NEW n \in Name, IMAPCopyEntries(s, n)
      PROVE  \E u : TouchesOnly(u)
  <2> DEFINE rows == pending[s].rows
             deleted == [r \in rows |-> r.deleted]
  <2>1. PICK d \in Named(Owner(pending[s].box), n) :
          entries' = With(Copies(d, rows, deleted), entries)
    BY <1>7 DEF IMAPCopyEntries
  <2>2. d \in DOMAIN boxes /\ Snapshot(rows)
    BY <1>1, <1>7, RowsOfCommand DEF IMAPCopyEntries
  <2> HIDE DEF rows, deleted
  <2>3. \A e \in DOMAIN entries : e \notin DOMAIN Copies(d, rows, deleted)
    BY <2>2, CopiesTakeNewIds
  <2>4. TouchesOnly(s)
    BY <2>1, <2>3, InsertedTouchNone
  <2> QED BY <2>4
<1>8. ASSUME NEW n \in Name, IMAPMoveEntries(s, n)
      PROVE  \E u : TouchesOnly(u)
  <2> DEFINE rows    == {r \in pending[s].rows : StillListed(s, r)}
             ids     == {r.id : r \in rows}
             left    == {e \in ids : messages[entries[e].msg].draft}
             deleted == [r \in rows |-> entries[r.id].deleted]
             stay    == [e \in DOMAIN entries \ left |->
                           IF e \in ids THEN [entries[e] EXCEPT !.gone = TRUE] ELSE entries[e]]
             u       == Owner(pending[s].box)
  <2>1. PICK d \in Named(u, n) : entries' = With(Copies(d, rows, deleted), stay)
    BY <1>8 DEF IMAPMoveEntries
  <2>2. d \in DOMAIN boxes
    BY <1>1
  <2>3. Snapshot(rows)
    BY <1>8, RowsOfCommand DEF IMAPMoveEntries
  <2>4. ASSUME NEW e \in DOMAIN entries
        PROVE  (e \in DOMAIN stay /\ stay[e] = entries[e]) \/ Owner(entries[e].box) = u
    <3>1. CASE e \in ids
      BY <3>1 DEF StillListed
    <3>2. CASE e \notin ids
      BY <3>2
    <3> QED BY <3>1, <3>2
  <2> HIDE DEF rows, stay, deleted, ids, left
  <2>5. \A e \in DOMAIN entries : e \notin DOMAIN Copies(d, rows, deleted)
    BY <2>2, <2>3, CopiesTakeNewIds
  <2>6. TouchesOnly(u)
    BY <2>1, <2>4, <2>5, InsertedTouchNone
  <2> QED BY <2>6
<1> QED BY <1>4, <1>5, <1>6, <1>7, <1>8 DEF SessionStep

\* What one user does changes or removes entries of that user only, also when a
\* message has entries of several users.
THEOREM AlwaysOwnEntriesOnly == Spec => OwnEntriesOnly
<1> DEFINE touched == {e \in DOMAIN entries : e \notin DOMAIN entries' \/ entries'[e] # entries[e]}
<1>1. ASSUME IInv, Next
      PROVE  \E u : TouchesOnly(u)
  <2>1. CASE Receive
    <3>1. PICK size \in Sizes, to \in SUBSET User \ {{}} :
            \E inbox \in [to -> DOMAIN boxes] :
              SaveMessage(FALSE, size, FALSE, {inbox[v] : v \in to}, {})
      BY <2>1 DEF Receive
    <3>2. PICK inbox \in [to -> DOMAIN boxes] :
            SaveMessage(FALSE, size, FALSE, {inbox[v] : v \in to}, {})
      BY <3>1
    <3>3. {inbox[v] : v \in to} \in SUBSET DOMAIN boxes
      OBVIOUS
    <3>4. TouchesOnly(size)
      BY <1>1, <3>2, <3>3, SaveMessageTouches
    <3> QED BY <3>4
  <2>2. ASSUME NEW b \in DOMAIN boxes, IMAPExpungeDeleted(b)
        PROVE  \E u : TouchesOnly(u)
    <3> DEFINE ids == {e \in Listed(b) : entries[e].deleted}
    <3>1. Expunge(ids) /\ \A e \in ids : Owner(entries[e].box) = Owner(b)
      BY <2>2 DEF IMAPExpungeDeleted, Listed
    <3> HIDE DEF ids
    <3>2. TouchesOnly(Owner(b))
      BY <3>1, ExpungeTouches
    <3> QED BY <3>2
  <2> QED BY <1>1, <2>1, <2>2, UserTouches, SessionTouches DEF Next
<1>2. IInv /\ [Next]_vars =>
        [\A e, f \in touched : Owner(entries[e].box) = Owner(entries[f].box)]_vars
  <2> SUFFICES ASSUME IInv, Next, NEW e \in touched, NEW f \in touched
               PROVE  Owner(entries[e].box) = Owner(entries[f].box)
    OBVIOUS
  <2>1. PICK u : TouchesOnly(u)
    BY <1>1
  <2> QED BY <2>1 DEF TouchesOnly, Untouched
<1> QED BY <1>2, Inductive, PTL DEF Spec, OwnEntriesOnly

-----------------------------------------------------------------------------
(* MOVE neither loses nor gains a message.                                   *)

\* The rows that are still in the mailbox leave it, and their copies, which come
\* into a mailbox of the same user, are as visible as they were.
LEMMA MoveKeepsMessages ==
  ASSUME IInv, NEW s \in Session, NEW n \in Name, IMAPMoveEntries(s, n), NEW w \in User
  PROVE  VisibleMessages(w)' = VisibleMessages(w)
<1> DEFINE u       == Owner(pending[s].box)
           rows    == {r \in pending[s].rows : StillListed(s, r)}
           ids     == {r.id : r \in rows}
           left    == {e \in ids : messages[entries[e].msg].draft}
           deleted == [r \in rows |-> entries[r.id].deleted]
           stay    == [e \in DOMAIN entries \ left |->
                         IF e \in ids THEN [entries[e] EXCEPT !.gone = TRUE] ELSE entries[e]]
<1>1. PICK d \in Named(u, n) :
        /\ Room({d}, Cardinality(rows))
        /\ entries' = With(Copies(d, rows, deleted), stay)
  BY DEF IMAPMoveEntries
<1>2. d \in DOMAIN boxes /\ Owner(d) = u /\ boxes[d].next + Cardinality(rows) <= MaxUid
  BY <1>1 DEF Named, BoxesOf, Room
<1>3. Snapshot(rows)
  BY RowsOfCommand DEF IMAPMoveEntries
<1>4. \A r \in rows : /\ r.id \in DOMAIN entries /\ entries[r.id] \in Entry
                      /\ Owner(entries[r.id].box) = u /\ ~entries[r.id].gone
                      /\ r.msg = entries[r.id].msg
  BY DEF StillListed, IInv, TypeOK, SnapshotsNameTheirMessage
<1>5. deleted \in [rows -> BOOLEAN]
  BY <1>4 DEF Entry
<1> DEFINE new == Copies(d, rows, deleted)
<1>6. /\ \A id \in DOMAIN new : \E r \in rows : id[1] = d /\ new[id] = NewEntry(id, r.msg, deleted[r])
      /\ \A r \in rows : \E id \in DOMAIN new : new[id].msg = r.msg
  <2>1. TypeOK
    BY DEF IInv
  <2> HIDE DEF rows, deleted
  <2> QED BY <2>1, <1>2, <1>3, <1>5, CopiesOfRows
<1>7. \A id \in DOMAIN new : id \notin DOMAIN entries
  BY <1>2, <1>3, CopiesTakeNewIds
<1>8. ids \subseteq DOMAIN entries /\ \A e \in ids : \E r \in rows : e = r.id
  BY <1>4
<1>9. \A e \in DOMAIN entries : e \notin ids => e \in DOMAIN stay /\ stay[e] = entries[e]
  OBVIOUS
<1>10. \A e \in DOMAIN stay : e \in DOMAIN entries /\ (e \in ids => stay[e].gone)
  <2> SUFFICES ASSUME NEW e \in DOMAIN stay, e \in ids
               PROVE  stay[e].gone
    OBVIOUS
  <2>1. stay[e] = [entries[e] EXCEPT !.gone = TRUE]
    OBVIOUS
  <2>2. entries[e] \in Entry
    BY <1>4
  <2> HIDE DEF stay, ids
  <2> QED BY <2>1, <2>2 DEF Entry
<1> HIDE DEF new, stay, ids, rows, deleted
<1>11. /\ DOMAIN entries' = DOMAIN new \cup DOMAIN stay
       /\ \A id \in DOMAIN new : entries'[id] = new[id]
       /\ \A e \in DOMAIN stay : e \notin DOMAIN new /\ entries'[e] = stay[e]
  BY <1>1, <1>7, <1>10 DEF With, new
<1>12. ASSUME NEW id \in DOMAIN new
       PROVE  /\ id \in DOMAIN entries' /\ entries'[id].box = d /\ ~entries'[id].gone
              /\ \E r \in rows : entries'[id].msg = r.msg
  BY <1>6, <1>11 DEF NewEntry
<1>13. ASSUME NEW m, m \in VisibleMessages(w)
       PROVE  m \in VisibleMessages(w)'
  <2>1. PICK e \in DOMAIN entries :
          entries[e].msg = m /\ Owner(entries[e].box) = w /\ ~entries[e].gone
    BY <1>13 DEF VisibleMessages, Visible
  <2>2. CASE e \in ids
    <3>1. PICK r \in rows : e = r.id
      BY <1>8, <2>2
    <3>2. PICK id \in DOMAIN new : new[id].msg = m
      BY <1>4, <1>6, <2>1, <3>1
    <3>3. w = u
      BY <1>4, <2>1, <3>1
    <3> QED BY <1>2, <1>11, <1>12, <3>2, <3>3 DEF VisibleMessages, Visible
  <2>3. CASE e \notin ids
    BY <1>9, <1>11, <2>1, <2>3 DEF VisibleMessages, Visible
  <2> QED BY <2>2, <2>3
<1>14. ASSUME NEW m, m \in VisibleMessages(w)'
       PROVE  m \in VisibleMessages(w)
  <2>1. PICK e \in DOMAIN entries' :
          entries'[e].msg = m /\ Owner(entries'[e].box) = w /\ ~entries'[e].gone
    BY <1>14 DEF VisibleMessages, Visible
  <2>2. CASE e \in DOMAIN new
    <3>1. PICK r \in rows : m = r.msg
      BY <1>12, <2>1, <2>2
    <3>2. w = u
      BY <1>2, <1>12, <2>1, <2>2
    <3> QED BY <1>4, <3>1, <3>2 DEF VisibleMessages, Visible
  <2>3. CASE e \in DOMAIN stay
    BY <1>9, <1>10, <1>11, <2>1, <2>3 DEF VisibleMessages, Visible
  <2> QED BY <1>11, <2>2, <2>3
<1> QED BY <1>13, <1>14

\* A MOVE leaves every user the messages the user had.
THEOREM AlwaysMoveConserves == Spec => MoveConserves
<1>1. IInv /\ [Next]_vars =>
        [\A s \in Session, n \in Name : IMAPMoveEntries(s, n) =>
           \A u \in User : VisibleMessages(u)' = VisibleMessages(u)]_vars
  BY MoveKeepsMessages
<1> QED BY <1>1, Inductive, PTL DEF Spec, MoveConserves

-----------------------------------------------------------------------------
(* The cache of an IMAP client (ClientCache).                                *)

\* The store does not notice its client.
LEMMA CacheIsStore == CacheSpec => Spec
<1>1. CacheInit => Init
  BY DEF CacheInit
<1>2. [CacheNext]_cacheVars => [Next]_vars
  BY DEF CacheNext, ListMessages, cacheVars, vars
<1> QED BY <1>1, <1>2, PTL DEF CacheSpec, Spec

\* A system mailbox stays, with its name, its uid_validity and its user.
LEMMA SystemBoxStays ==
  ASSUME IInv, SystemMailboxesStay, Next, NEW b \in DOMAIN boxes, boxes[b].name \in System
  PROVE  /\ b \in DOMAIN boxes'
         /\ boxes'[b].name = boxes[b].name
         /\ boxes'[b].validity = boxes[b].validity
         /\ boxes[b].next <= boxes'[b].next
<1>1. b \in DOMAIN boxes' /\ boxes'[b].name = boxes[b].name
  <2>1. ASSUME NEW u \in User, NEW n \in Name, CreateMailbox(u, n)
        PROVE  b \in DOMAIN boxes' /\ boxes'[b].name = boxes[b].name
    <3>1. LegalBoxes /\ made[u] \in Nat
      BY <2>1, NextLegal, MailStoreAssumption DEF Legal, IInv, TypeOK
    <3>2. b # <<u, made[u] + 1>>
      BY <3>1, MailStoreAssumption DEF IInv, IdsUsed, Owner
    <3>3. boxes' = [x \in DOMAIN boxes \cup {<<u, made[u] + 1>>} |->
                      IF x = <<u, made[u] + 1>> THEN NewMailbox(n, NextValidity(u)) ELSE boxes[x]]
      BY <2>1 DEF CreateMailbox
    <3> QED BY <3>2, <3>3
  <2>2. ASSUME NEW u \in User, NEW n \in Name, IMAPDeleteMailbox(u, n)
        PROVE  b \in DOMAIN boxes' /\ boxes'[b].name = boxes[b].name
    <3>1. PICK c \in Named(u, n) : boxes' = Without(boxes, {c})
      BY <2>2 DEF IMAPDeleteMailbox
    <3>2. b # c
      BY <2>2 DEF IMAPDeleteMailbox, Named
    <3> QED BY <3>1, <3>2 DEF Without
  <2>3. ASSUME NEW u \in User, NEW old \in Name, NEW new \in Name, RenameMailbox(u, old, new)
        PROVE  b \in DOMAIN boxes' /\ boxes'[b].name = boxes[b].name
    <3>1. PICK c \in Named(u, old) : boxes' = [boxes EXCEPT ![c].name = new]
      BY <2>3 DEF RenameMailbox
    <3>2. b # c
      BY <2>3 DEF RenameMailbox, Named
    <3> QED BY <3>1, <3>2
  <2> QED BY <2>1, <2>2, <2>3, OtherNames
<1> QED BY <1>1, NextLegal DEF Legal, LegalBoxes

\* A UID below uid_next is never given to another message.
LEMMA StepRemembers ==
  ASSUME CInv, Next, UNCHANGED cache
  PROVE  CInv'
<1> USE DEF CInv
<1>1. IInv' /\ SystemMailboxesStay'
  BY NextIInv, OtherNames, NamesKept, CreateMailboxNames, RenameMailboxNames, DeleteMailboxNames
<1>2. CacheTypeOK' /\ SystemCacheSound'
  BY DEF CacheTypeOK, SystemCacheSound, NameOneMessage
<1>3. ASSUME NEW u \in User, NEW x \in cache[u], x.name \in System
      PROVE  \E b \in BoxesOf(u)' :
               /\ boxes'[b].name = x.name /\ boxes'[b].validity = x.validity
               /\ x.uid < boxes'[b].next
               /\ \A e \in DOMAIN entries' :
                    entries'[e].box = b /\ entries'[e].uid = x.uid => entries'[e].msg = x.msg
  <2>1. PICK b \in BoxesOf(u) :
          /\ boxes[b].name = x.name /\ boxes[b].validity = x.validity
          /\ x.uid < boxes[b].next
          /\ \A e \in DOMAIN entries :
               entries[e].box = b /\ entries[e].uid = x.uid => entries[e].msg = x.msg
    BY <1>3 DEF SystemRemembered
  <2>2. /\ b \in DOMAIN boxes' /\ boxes'[b].name = boxes[b].name
        /\ boxes'[b].validity = boxes[b].validity /\ boxes[b].next <= boxes'[b].next
    BY <1>3, <2>1, SystemBoxStays DEF BoxesOf
  <2>3. b \in BoxesOf(u)'
    BY <2>1, <2>2 DEF BoxesOf
  <2>4. x.uid \in Nat /\ boxes[b].next \in Nat /\ boxes'[b].next \in Nat
    BY <1>1, <2>1, <2>2, MailStoreAssumption DEF CacheTypeOK, Triple, IInv, TypeOK, Box, BoxesOf
  <2>5. ASSUME NEW e \in DOMAIN entries', entries'[e].box = b, entries'[e].uid = x.uid
        PROVE  entries'[e].msg = x.msg
    <3>1. ~Arrives(e)
      BY <2>1, <2>4, <2>5 DEF Arrives
    <3>2. Kept(e)
      BY <3>1, NextLegal DEF Legal, LegalEntries, Moved, Fresh
    <3> QED BY <2>1, <2>5, <3>2 DEF Kept
  <2>6. x.uid < boxes'[b].next
    BY <2>1, <2>2, <2>4
  <2> QED BY <2>1, <2>2, <2>3, <2>5, <2>6
<1>4. SystemRemembered'
  BY <1>3 DEF SystemRemembered
<1> QED BY <1>1, <1>2, <1>4

\* A listing shows for a UID the client knows the message the client knows.
LEMMA ListingRemembers ==
  ASSUME CInv, NEW u \in User, ListMessages(u)
  PROVE  CInv'
<1> USE DEF CInv
<1>1. PICK b \in BoxesOf(u) : cache' = [cache EXCEPT ![u] = @ \cup Shown(b)]
  BY DEF ListMessages
<1>2. UNCHANGED vars
  BY DEF ListMessages
<1>3. b \in DOMAIN boxes /\ Owner(b) = u /\ boxes[b] \in Box
  BY DEF BoxesOf, IInv, TypeOK
<1>4. ASSUME NEW x \in Shown(b)
      PROVE  /\ x \in Triple
             /\ x.name = boxes[b].name /\ x.validity = boxes[b].validity
             /\ x.uid < boxes[b].next
             /\ \A e \in DOMAIN entries :
                  entries[e].box = b /\ entries[e].uid = x.uid => entries[e].msg = x.msg
  <2>1. PICK f \in Listed(b) :
          x = [name |-> boxes[b].name, validity |-> boxes[b].validity,
               uid |-> entries[f].uid, msg |-> entries[f].msg]
    BY DEF Shown
  <2>2. f \in DOMAIN entries /\ entries[f].box = b /\ entries[f] \in Entry
    BY DEF Listed, IInv, TypeOK
  <2>3. x \in Triple
    BY <1>3, <2>1, <2>2 DEF Triple, Box, Entry
  <2>4. entries[f].uid < boxes[b].next
    BY <2>2 DEF IInv, UidsDistinct
  <2>5. \A e \in DOMAIN entries : entries[e].box = b /\ entries[e].uid = entries[f].uid => e = f
    BY <2>2 DEF IInv, UidsDistinct
  <2> QED BY <2>1, <2>3, <2>4, <2>5
<1>5. cache \in [User -> SUBSET Triple]
  BY DEF CacheTypeOK
<1>6. \A w \in User : cache'[w] = IF w = u THEN cache[u] \cup Shown(b) ELSE cache[w]
  BY <1>1, <1>5
<1>7. CacheTypeOK'
  <2>1. Shown(b) \in SUBSET Triple
    BY <1>4
  <2> QED BY <1>1, <1>5, <2>1 DEF CacheTypeOK
<1>8. IInv' /\ SystemMailboxesStay'
  BY <1>2, NextIInv DEF vars, SystemMailboxesStay, Named, BoxesOf
<1>9. SystemRemembered'
  <2> SUFFICES ASSUME NEW w \in User, NEW x \in cache'[w], x.name \in System
               PROVE  \E c \in BoxesOf(w) :
                        /\ boxes[c].name = x.name /\ boxes[c].validity = x.validity
                        /\ x.uid < boxes[c].next
                        /\ \A e \in DOMAIN entries :
                             entries[e].box = c /\ entries[e].uid = x.uid => entries[e].msg = x.msg
    BY <1>2 DEF SystemRemembered, vars, BoxesOf
  <2>1. CASE x \in cache[w]
    BY <2>1 DEF SystemRemembered
  <2>2. CASE w = u /\ x \in Shown(b)
    BY <1>4, <2>2
  <2> QED BY <1>6, <2>1, <2>2
<1>10. ASSUME NEW x \in cache[u], NEW y \in Shown(b), x.name \in System,
              x.name = y.name, x.uid = y.uid
       PROVE  x.msg = y.msg
  <2>1. PICK c \in BoxesOf(u) :
          /\ boxes[c].name = x.name
          /\ \A e \in DOMAIN entries :
               entries[e].box = c /\ entries[e].uid = x.uid => entries[e].msg = x.msg
    BY <1>10 DEF SystemRemembered
  <2>2. c = b
    BY <1>4, <1>10, <2>1 DEF SystemMailboxesStay
  <2>3. PICK f \in DOMAIN entries :
          entries[f].box = b /\ entries[f].uid = y.uid /\ entries[f].msg = y.msg
    BY DEF Shown, Listed
  <2> QED BY <1>10, <2>1, <2>2, <2>3
<1>11. ASSUME NEW x \in Shown(b), NEW y \in Shown(b), x.uid = y.uid
       PROVE  x.msg = y.msg
  <2>1. PICK f \in DOMAIN entries :
          entries[f].box = b /\ entries[f].uid = y.uid /\ entries[f].msg = y.msg
    BY DEF Shown, Listed
  <2> QED BY <1>4, <1>11, <2>1
<1>12. SystemCacheSound'
  <2> SUFFICES ASSUME NEW w \in User, NEW x \in cache'[w], NEW y \in cache'[w],
                      x.name \in System, x.name = y.name, x.validity = y.validity,
                      x.uid = y.uid
               PROVE  x.msg = y.msg
    BY DEF SystemCacheSound, NameOneMessage
  <2>1. CASE x \in cache[w] /\ y \in cache[w]
    BY <2>1 DEF SystemCacheSound, NameOneMessage
  <2>2. CASE w = u /\ (x \in Shown(b) \/ y \in Shown(b))
    BY <1>6, <1>10, <1>11, <2>2
  <2> QED BY <1>6, <2>1, <2>2
<1> QED BY <1>7, <1>8, <1>9, <1>12

\* Under name, UIDVALIDITY and UID of a system mailbox a client never meets two
\* messages, however long it was away.
THEOREM SystemCacheAlwaysSound == CacheSpec => []SystemCacheSound
<1>1. CacheInit /\ IInv /\ SystemMailboxesStay => CInv
  BY DEF CacheInit, CInv, CacheTypeOK, SystemRemembered, SystemCacheSound, NameOneMessage
<1>2. CInv /\ [CacheNext]_cacheVars => CInv'
  <2> SUFFICES ASSUME CInv, [CacheNext]_cacheVars
               PROVE  CInv'
    OBVIOUS
  <2>1. CASE Next /\ UNCHANGED cache
    BY <2>1, StepRemembers
  <2>2. ASSUME NEW u \in User, ListMessages(u)
        PROVE  CInv'
    BY <2>2, ListingRemembers
  <2>3. CASE UNCHANGED cacheVars
    <3>1. IInv'
      BY <2>3, NextIInv DEF CInv, cacheVars
    <3> QED BY <2>3, <3>1 DEF CInv, cacheVars, vars, SystemMailboxesStay, Named, BoxesOf,
              CacheTypeOK, SystemRemembered, SystemCacheSound, NameOneMessage
  <2> QED BY <2>1, <2>2, <2>3 DEF CacheNext
<1>3. CInv => SystemCacheSound
  BY DEF CInv
<1>4. CacheSpec => [](IInv /\ SystemMailboxesStay)
  BY CacheIsStore, Inductive, AlwaysSystemMailboxesStay, PTL
<1> QED BY <1>1, <1>2, <1>3, <1>4, PTL DEF CacheSpec

-----------------------------------------------------------------------------
(* The archive limit and the quotas.                                         *)

SizesOf(ms) == [m \in DOMAIN ms |-> ms[m].size]

BytesOf(es, ms) == [e \in DOMAIN es |-> ms[es[e].msg].size]

VisibleIn(es, u) == {e \in DOMAIN es : Owner(es[e].box) = u /\ ~es[e].gone}

\* What the sums are taken over, before and after a step.
LEMMA SumsOf ==
  ASSUME NEW u
  PROVE  /\ \A ids : Archived(ids) = SumFunctionOnSet(SizesOf(messages), ids)
         /\ Archived(DOMAIN messages)' = SumFunctionOnSet(SizesOf(messages'), DOMAIN messages')
         /\ \A ids : Usage(u, ids) =
              SumFunctionOnSet(BytesOf(entries, messages), VisibleIn(entries, u) \cap ids)
         /\ Usage(u, DOMAIN entries) =
              SumFunctionOnSet(BytesOf(entries, messages), VisibleIn(entries, u))
         /\ Usage(u, DOMAIN entries)' =
              SumFunctionOnSet(BytesOf(entries', messages'), VisibleIn(entries', u))
<1>1. \A es : VisibleIn(es, u) = VisibleIn(es, u) \cap DOMAIN es
  BY DEF VisibleIn
<1>2. /\ \A ids : Usage(u, ids) =
           SumFunctionOnSet(BytesOf(entries, messages), VisibleIn(entries, u) \cap ids)
      /\ Usage(u, DOMAIN entries)' =
           SumFunctionOnSet(BytesOf(entries', messages'), VisibleIn(entries', u) \cap DOMAIN entries')
  BY DEF Usage, Visible, Bytes, BytesOf, VisibleIn
<1>3. /\ \A ids : Archived(ids) = SumFunctionOnSet(SizesOf(messages), ids)
      /\ Archived(DOMAIN messages)' = SumFunctionOnSet(SizesOf(messages'), DOMAIN messages')
  BY DEF Archived, SizesOf
<1> QED BY <1>1, <1>2, <1>3

LEMMA SizesType ==
  ASSUME NEW n \in Nat, NEW ms, DOMAIN ms \subseteq 1..n, \A m \in DOMAIN ms : ms[m] \in Message
  PROVE  IsFiniteSet(DOMAIN ms) /\ SizesOf(ms) \in [DOMAIN ms -> Nat]
<1>1. IsFiniteSet(1..n)
  BY FS_Interval
<1>2. IsFiniteSet(DOMAIN ms)
  BY <1>1, FS_Subset
<1>3. \A m \in DOMAIN ms : ms[m].size \in Nat
  BY DEF Message
<1> QED BY <1>2, <1>3 DEF SizesOf

LEMMA BoxesFinite == IsFiniteSet(BoxId) /\ IsFiniteSet(EntryId)
<1>1. IsFiniteSet(1..MaxMade) /\ IsFiniteSet(1..MaxUid) /\ IsFiniteSet(User)
  BY MailStoreAssumption, FS_Interval
<1>2. IsFiniteSet(BoxId)
  BY <1>1, FS_Product DEF BoxId
<1> QED BY <1>1, <1>2, FS_Product DEF EntryId

LEMMA BytesType ==
  ASSUME NEW es, NEW ms, DOMAIN es \subseteq EntryId,
         \A e \in DOMAIN es : es[e].msg \in DOMAIN ms,
         \A m \in DOMAIN ms : ms[m] \in Message
  PROVE  IsFiniteSet(DOMAIN es) /\ BytesOf(es, ms) \in [DOMAIN es -> Nat]
<1>1. IsFiniteSet(DOMAIN es)
  BY BoxesFinite, FS_Subset
<1>2. \A e \in DOMAIN es : ms[es[e].msg].size \in Nat
  BY DEF Message
<1> QED BY <1>1, <1>2 DEF BytesOf

\* A step that inserts no row.
NoneInserted ==
  /\ DOMAIN entries' \subseteq DOMAIN entries
  /\ DOMAIN messages' \subseteq DOMAIN messages
  /\ \A m \in DOMAIN messages' : messages'[m] = messages[m]

\* Only three operations insert rows.
LEMMA StepKinds ==
  ASSUME Next
  PROVE  \/ \E draft, deleted \in BOOLEAN, size \in Sizes, targets \in SUBSET DOMAIN boxes :
              \E replaced : SaveMessage(draft, size, deleted, targets, replaced)
         \/ \E s \in Session, n \in Name : IMAPCopyEntries(s, n) \/ IMAPMoveEntries(s, n)
         \/ NoneInserted
<1> DEFINE saves == \E draft, deleted \in BOOLEAN, size \in Sizes,
                       targets \in SUBSET DOMAIN boxes :
                      \E replaced : SaveMessage(draft, size, deleted, targets, replaced)
<1>1. \A v, n : Named(v, n) \subseteq DOMAIN boxes
  BY DEF Named, BoxesOf
<1>2. CASE Receive
  <2>1. PICK size \in Sizes, to \in SUBSET User \ {{}} : \E inbox \in [to -> DOMAIN boxes] :
          SaveMessage(FALSE, size, FALSE, {inbox[v] : v \in to}, {})
    BY <1>2 DEF Receive
  <2>2. PICK inbox \in [to -> DOMAIN boxes] :
          SaveMessage(FALSE, size, FALSE, {inbox[v] : v \in to}, {})
    BY <2>1
  <2>3. {inbox[v] : v \in to} \in SUBSET DOMAIN boxes
    OBVIOUS
  <2>4. saves
    BY <2>2, <2>3
  <2> QED BY <2>4
<1>3. ASSUME NEW u \in User, Send(u)
      PROVE  saves
  <2>1. PICK size \in Sizes, to \in SUBSET User, sent \in Named(u, Sent) :
          \E inbox \in [to -> DOMAIN boxes] : \E replaced \in DraftToReplace(u) :
            SaveMessage(FALSE, size, FALSE, {sent} \cup {inbox[v] : v \in to}, replaced)
    BY <1>3 DEF Send
  <2>2. PICK inbox \in [to -> DOMAIN boxes], replaced \in DraftToReplace(u) :
          SaveMessage(FALSE, size, FALSE, {sent} \cup {inbox[v] : v \in to}, replaced)
    BY <2>1
  <2>3. {sent} \cup {inbox[v] : v \in to} \in SUBSET DOMAIN boxes
    BY <1>1
  <2> QED BY <2>2, <2>3
<1>4. ASSUME NEW u \in User, SaveDraft(u)
      PROVE  saves
  <2>1. PICK size \in Sizes, b \in Named(u, Drafts), replaced \in DraftToReplace(u) :
          SaveMessage(TRUE, size, FALSE, {b}, replaced)
    BY <1>4 DEF SaveDraft
  <2>2. {b} \in SUBSET DOMAIN boxes
    BY <1>1
  <2> QED BY <2>1, <2>2
<1>5. ASSUME NEW u \in User, CreateMessage(u)
      PROVE  saves
  <2>1. PICK size \in Sizes, b \in BoxesOf(u), draftFlag \in BOOLEAN, deleted \in BOOLEAN :
          SaveMessage(draftFlag \/ boxes[b].name = Drafts, size, deleted, {b}, {})
    BY <1>5 DEF CreateMessage
  <2>2. {b} \in SUBSET DOMAIN boxes
    BY DEF BoxesOf
  <2>3. (draftFlag \/ boxes[b].name = Drafts) \in BOOLEAN
    OBVIOUS
  <2> QED BY <2>1, <2>2, <2>3
<1> HIDE DEF saves
<1>6. ASSUME NEW ids, Expunge(ids)
      PROVE  NoneInserted
  BY <1>6 DEF Expunge, Without, NoneInserted
<1>7. ASSUME NEW u \in User, UserStep(u)
      PROVE  saves \/ NoneInserted
  <2>1. CASE MoveMessage(u)
    BY <2>1 DEF MoveMessage, NoneInserted
  <2>2. CASE ExpungeMessage(u)
    BY <1>6, <2>2 DEF ExpungeMessage
  <2>3. CASE UpdateQuota(u)
    BY <2>3 DEF UpdateQuota, NoneInserted
  <2>4. ASSUME NEW n \in Name, CreateMailbox(u, n)
        PROVE  NoneInserted
    BY <2>4 DEF CreateMailbox, NoneInserted
  <2>5. ASSUME NEW n \in Name, IMAPDeleteMailbox(u, n)
        PROVE  NoneInserted
    BY <2>5 DEF IMAPDeleteMailbox, Without, NoneInserted
  <2>6. ASSUME NEW old \in Name, NEW new \in Name, RenameMailbox(u, old, new)
        PROVE  NoneInserted
    BY <2>6 DEF RenameMailbox, NoneInserted
  <2> QED BY <1>3, <1>4, <1>5, <1>7, <2>1, <2>2, <2>3, <2>4, <2>5, <2>6 DEF UserStep
<1>8. ASSUME NEW b \in DOMAIN boxes, IMAPExpungeDeleted(b)
      PROVE  NoneInserted
  BY <1>6, <1>8 DEF IMAPExpungeDeleted
<1>9. ASSUME NEW s \in Session, SessionStep(s)
      PROVE  (\E n \in Name : IMAPCopyEntries(s, n) \/ IMAPMoveEntries(s, n)) \/ NoneInserted
  <2>1. CASE SelectedEntries(s) \/ Abandon(s)
    BY <2>1 DEF SelectedEntries, Abandon, NoneInserted
  <2>2. CASE UpdateFlags(s)
    BY <2>2 DEF UpdateFlags, NoneInserted
  <2>3. ASSUME NEW kind \in StoreKind, IMAPSetEntryFlags(s, kind)
        PROVE  NoneInserted
    BY <2>3 DEF IMAPSetEntryFlags, NoneInserted
  <2> QED BY <1>9, <2>1, <2>2, <2>3 DEF SessionStep
<1>10. saves \/ (\E s \in Session, n \in Name : IMAPCopyEntries(s, n) \/ IMAPMoveEntries(s, n))
         \/ NoneInserted
  BY <1>2, <1>7, <1>8, <1>9 DEF Next, saves
<1> QED BY <1>10 DEF saves

\* A message is only saved when it fits; nothing else adds to the archive.
LEMMA ArchiveStep ==
  ASSUME IInv, TypeOK', ArchiveBounded, Next
  PROVE  ArchiveBounded'
<1> DEFINE f == SizesOf(messages)
           h == SizesOf(messages')
<1> SUFFICES ASSUME ArchiveLimit > 0
             PROVE  SumFunctionOnSet(h, DOMAIN messages') <= ArchiveLimit
  BY SumsOf DEF ArchiveBounded
<1>1. /\ IsFiniteSet(DOMAIN messages) /\ f \in [DOMAIN messages -> Nat]
      /\ IsFiniteSet(DOMAIN messages') /\ h \in [DOMAIN messages' -> Nat]
      /\ ArchiveLimit \in Nat
  <2>1. stored \in Nat /\ stored' \in Nat
    BY MailStoreAssumption DEF IInv, TypeOK
  <2> HIDE DEF f, h
  <2>2. IsFiniteSet(DOMAIN messages) /\ f \in [DOMAIN messages -> Nat]
    BY <2>1, SizesType DEF f, IInv, TypeOK
  <2>3. IsFiniteSet(DOMAIN messages') /\ h \in [DOMAIN messages' -> Nat]
    BY <2>1, SizesType DEF h, TypeOK
  <2> QED BY <2>2, <2>3, MailStoreAssumption
<1>2. ASSUME NEW R \in SUBSET (DOMAIN messages \cap DOMAIN messages'),
             \A m \in R : messages'[m] = messages[m]
      PROVE  SumFunctionOnSet(f, R) = SumFunctionOnSet(h, R)
  <2>1. \A m \in R : f[m] = h[m]
    BY <1>2 DEF SizesOf
  <2> HIDE DEF f, h
  <2> QED BY <1>1, <2>1, SumSame
<1>3. ASSUME NoneInserted
      PROVE  SumFunctionOnSet(h, DOMAIN messages') <= ArchiveLimit
  <2>1. SumFunctionOnSet(f, DOMAIN messages') = SumFunctionOnSet(h, DOMAIN messages')
    BY <1>2, <1>3 DEF NoneInserted
  <2>2. SumFunctionOnSet(f, DOMAIN messages) <= ArchiveLimit
    BY SumsOf DEF ArchiveBounded
  <2> HIDE DEF f, h
  <2>3. SumFunctionOnSet(f, DOMAIN messages') <= SumFunctionOnSet(f, DOMAIN messages)
    BY <1>1, <1>3, SumSubset DEF NoneInserted
  <2>4. /\ SumFunctionOnSet(f, DOMAIN messages) \in Nat
        /\ SumFunctionOnSet(f, DOMAIN messages') \in Nat
    BY <1>1, <1>3, SumType DEF NoneInserted
  <2> QED BY <1>1, <2>1, <2>2, <2>3, <2>4
<1>4. ASSUME NEW draft, NEW deleted, NEW size \in Sizes, NEW targets, NEW replaced,
             SaveMessage(draft, size, deleted, targets, replaced)
      PROVE  SumFunctionOnSet(h, DOMAIN messages') <= ArchiveLimit
  <2> DEFINE m    == stored + 1
             rest == DOMAIN messages \ replaced
  <2>1. /\ messages' = [x \in rest \cup {m} |->
                          IF x = m THEN [draft |-> draft, size |-> size] ELSE messages[x]]
        /\ WithinArchive(size, replaced)
    BY <1>4 DEF SaveMessage
  <2>2. m \notin DOMAIN messages
    <3>1. stored \in Nat /\ DOMAIN messages \subseteq 1..stored
      BY MailStoreAssumption DEF IInv, TypeOK
    <3> QED BY <3>1
  <2>3. /\ DOMAIN messages' = rest \cup {m} /\ m \in DOMAIN messages' \ rest
        /\ rest \in SUBSET (DOMAIN messages \cap DOMAIN messages')
    BY <2>1, <2>2
  <2>4. \A x \in rest : messages'[x] = messages[x]
    BY <2>1, <2>2
  <2>5. h[m] = size
    BY <2>1 DEF SizesOf
  <2>6. SumFunctionOnSet(f, rest) + size <= ArchiveLimit
    BY <2>1, SumsOf DEF WithinArchive
  <2>7. SumFunctionOnSet(f, rest) = SumFunctionOnSet(h, rest)
    BY <1>2, <2>3, <2>4
  <2> HIDE DEF f, h, m, rest
  <2>8. /\ SumFunctionOnSet(h, rest \cup {m}) = h[m] + SumFunctionOnSet(h, rest)
        /\ SumFunctionOnSet(h, rest) \in Nat /\ h[m] \in Nat
    BY <1>1, <2>3, SumAdd
  <2> QED BY <1>1, <2>3, <2>5, <2>6, <2>7, <2>8
<1>5. ASSUME NEW s \in Session, NEW n \in Name, IMAPCopyEntries(s, n) \/ IMAPMoveEntries(s, n)
      PROVE  SumFunctionOnSet(h, DOMAIN messages') <= ArchiveLimit
  <2>1. messages' = messages
    BY <1>5 DEF IMAPCopyEntries, IMAPMoveEntries
  <2> QED BY <2>1, SumsOf DEF ArchiveBounded
<1> HIDE DEF f, h
<1> QED BY <1>3, <1>4, <1>5, StepKinds

\* The archive never grows over its limit.
THEOREM ArchiveAlwaysBounded == Spec => []ArchiveBounded
<1>1. Init => ArchiveBounded
  <2> SUFFICES ASSUME Init
               PROVE  ArchiveBounded
    OBVIOUS
  <2>1. DOMAIN messages = {}
    BY DEF Init
  <2>2. SumFunctionOnSet(SizesOf(messages), DOMAIN messages) = 0
    BY <2>1, SumEmpty
  <2>3. Archived(DOMAIN messages) = 0
    BY <2>2, SumsOf
  <2> QED BY <2>3, MailStoreAssumption DEF ArchiveBounded
<1>2. IInv /\ IInv' /\ ArchiveBounded /\ [Next]_vars => ArchiveBounded'
  <2>1. ASSUME IInv, IInv', ArchiveBounded, Next
        PROVE  ArchiveBounded'
    BY <2>1, ArchiveStep DEF IInv
  <2>2. ASSUME ArchiveBounded, UNCHANGED vars
        PROVE  ArchiveBounded'
    <3>1. Archived(DOMAIN messages)' = Archived(DOMAIN messages)
      BY <2>2, SumsOf DEF vars
    <3> QED BY <2>2, <3>1 DEF ArchiveBounded
  <2> QED BY <2>1, <2>2
<1> QED BY <1>1, <1>2, Inductive, PTL DEF Spec

\* An entry that was there counts for what it counted for, and is not shown again
\* when it was not shown.
LEMMA OldEntry ==
  ASSUME IInv, IInv', Legal, NEW e \in DOMAIN entries, e \in DOMAIN entries'
  PROVE  /\ BytesOf(entries', messages')[e] = BytesOf(entries, messages)[e]
         /\ \A u : e \in VisibleIn(entries', u) => e \in VisibleIn(entries, u)
<1>1. Kept(e) \/ Moved(e)
  BY DEF Legal, LegalEntries, Fresh
<1>2. entries'[e].msg = entries[e].msg /\ Owner(entries'[e].box) = Owner(entries[e].box)
  BY <1>1, OwnerStays
<1>3. ~entries'[e].gone => ~entries[e].gone
  BY <1>1 DEF Kept, Moved, StaysExpunged
<1>4. /\ entries[e].msg \in DOMAIN messages /\ entries[e].msg \in DOMAIN messages'
      /\ entries[e].msg <= stored
  <2>1. entries[e].msg \in DOMAIN messages /\ entries'[e].msg \in DOMAIN messages'
    BY DEF IInv, Referential
  <2>2. DOMAIN messages \subseteq 1..stored /\ stored \in Nat
    BY MailStoreAssumption DEF IInv, TypeOK
  <2> QED BY <1>2, <2>1, <2>2
<1>5. messages'[entries[e].msg] = messages[entries[e].msg]
  BY <1>4 DEF Legal, LegalMessages
<1> QED BY <1>2, <1>3, <1>5 DEF BytesOf, VisibleIn

\* What is summed before and after a step is finite.
LEMMA BytesTypes ==
  ASSUME IInv, IInv'
  PROVE  /\ IsFiniteSet(DOMAIN entries) /\ BytesOf(entries, messages) \in [DOMAIN entries -> Nat]
         /\ IsFiniteSet(DOMAIN entries')
         /\ BytesOf(entries', messages') \in [DOMAIN entries' -> Nat]
<1>1. IsFiniteSet(DOMAIN entries) /\ BytesOf(entries, messages) \in [DOMAIN entries -> Nat]
  <2>1. /\ DOMAIN entries \subseteq EntryId
        /\ \A e \in DOMAIN entries : entries[e].msg \in DOMAIN messages
        /\ \A m \in DOMAIN messages : messages[m] \in Message
    BY DEF IInv, TypeOK, Referential
  <2> QED BY <2>1, BytesType
<1>2. IsFiniteSet(DOMAIN entries') /\ BytesOf(entries', messages') \in [DOMAIN entries' -> Nat]
  <2>1. /\ DOMAIN entries' \subseteq EntryId
        /\ \A e \in DOMAIN entries' : entries'[e].msg \in DOMAIN messages'
        /\ \A m \in DOMAIN messages' : messages'[m] \in Message
    BY DEF IInv, TypeOK, Referential
  <2> QED BY <2>1, BytesType
<1> QED BY <1>1, <1>2

\* Entries that were there count together for what they did.
LEMMA OldEntries ==
  ASSUME IInv, IInv', Legal, NEW R \in SUBSET (DOMAIN entries \cap DOMAIN entries')
  PROVE  /\ SumFunctionOnSet(BytesOf(entries', messages'), R) =
              SumFunctionOnSet(BytesOf(entries, messages), R)
         /\ SumFunctionOnSet(BytesOf(entries, messages), R) \in Nat
<1> DEFINE f == BytesOf(entries', messages')
           h == BytesOf(entries, messages)
<1>1. \A e \in R : f[e] = h[e]
  BY OldEntry
<1>2. /\ IsFiniteSet(DOMAIN entries) /\ h \in [DOMAIN entries -> Nat]
      /\ IsFiniteSet(DOMAIN entries') /\ f \in [DOMAIN entries' -> Nat]
  BY BytesTypes
<1> HIDE DEF f, h
<1>3. SumFunctionOnSet(f, R) = SumFunctionOnSet(h, R)
  <2>1. R \in SUBSET (DOMAIN entries' \cap DOMAIN entries)
    OBVIOUS
  <2> QED BY <1>1, <1>2, <2>1, SumSame
<1>4. SumFunctionOnSet(h, R) \in Nat
  BY <1>2, SumType
<1> QED BY <1>3, <1>4 DEF f, h

\* Without new entries nobody's mail takes more room.
LEMMA UsageShrinks ==
  ASSUME IInv, IInv', Legal, NEW u, VisibleIn(entries', u) \subseteq DOMAIN entries
  PROVE  ~(Usage(u, DOMAIN entries)' > Usage(u, DOMAIN entries))
<1> DEFINE h == BytesOf(entries, messages)
           V == VisibleIn(entries, u)
           W == VisibleIn(entries', u)
<1>1. W \subseteq DOMAIN entries' /\ V \subseteq DOMAIN entries
  BY DEF VisibleIn
<1>2. W \subseteq V
  BY <1>1, OldEntry
<1>3. SumFunctionOnSet(BytesOf(entries', messages'), W) = SumFunctionOnSet(h, W)
        /\ SumFunctionOnSet(h, W) \in Nat
  BY <1>1, OldEntries
<1>4. Usage(u, DOMAIN entries)' = SumFunctionOnSet(h, W)
        /\ Usage(u, DOMAIN entries) = SumFunctionOnSet(h, V)
  BY <1>3, SumsOf
<1>5. IsFiniteSet(DOMAIN entries) /\ h \in [DOMAIN entries -> Nat]
  BY BytesTypes
<1> HIDE DEF h, V, W
<1>6. SumFunctionOnSet(h, W) <= SumFunctionOnSet(h, V) /\ SumFunctionOnSet(h, V) \in Nat
  BY <1>1, <1>2, <1>5, SumSubset, SumType
<1> QED BY <1>3, <1>4, <1>6

\* A user's mail after a step: entries that were there, and new ones.
LEMMA UsageGrows ==
  ASSUME IInv, IInv', Legal, NEW u, NEW old, NEW new,
         VisibleIn(entries', u) = old \cup new,
         old \subseteq VisibleIn(entries, u), new \cap DOMAIN entries = {}
  PROVE  /\ Usage(u, DOMAIN entries)' =
              SumFunctionOnSet(BytesOf(entries, messages), old)
                + SumFunctionOnSet(BytesOf(entries', messages'), new)
         /\ SumFunctionOnSet(BytesOf(entries, messages), old) \in Nat
         /\ SumFunctionOnSet(BytesOf(entries', messages'), new) \in Nat
<1> DEFINE h == BytesOf(entries', messages')
<1>1. /\ old \subseteq DOMAIN entries /\ old \subseteq DOMAIN entries'
      /\ new \subseteq DOMAIN entries'
  BY DEF VisibleIn
<1>2. old \cap new = {}
  BY <1>1
<1>3. IsFiniteSet(DOMAIN entries') /\ h \in [DOMAIN entries' -> Nat]
  BY BytesTypes
<1>4. SumFunctionOnSet(h, old) = SumFunctionOnSet(BytesOf(entries, messages), old)
        /\ SumFunctionOnSet(BytesOf(entries, messages), old) \in Nat
  BY <1>1, OldEntries
<1>5. Usage(u, DOMAIN entries)' = SumFunctionOnSet(h, old \cup new)
  BY SumsOf
<1> HIDE DEF h
<1>6. SumFunctionOnSet(h, old \cup new) = SumFunctionOnSet(h, old) + SumFunctionOnSet(h, new)
  BY <1>1, <1>2, <1>3, SumUnion
<1>7. SumFunctionOnSet(h, new) \in Nat
  BY <1>1, <1>3, SumType
<1> QED BY <1>4, <1>5, <1>6, <1>7 DEF h

\* What a step must show of user u.
Growth(u) ==
  Usage(u, DOMAIN entries)' > Usage(u, DOMAIN entries) /\ quota'[u] > 0 =>
    Usage(u, DOMAIN entries)' <= quota'[u]

\* saveMessage gives each addressee what the quota was checked with.
LEMMA SaveMessageGrowth ==
  ASSUME IInv, IInv', Legal, NEW draft, NEW size \in Sizes, NEW deleted,
         NEW targets \in SUBSET DOMAIN boxes, NEW replaced,
         SaveMessage(draft, size, deleted, targets, replaced), NEW u \in User
  PROVE  Growth(u)
<1> DEFINE m    == stored + 1
           kept == {e \in DOMAIN entries : entries[e].msg \notin replaced}
           ids  == {<<b, boxes[b].next>> : b \in targets}
           mine == {b \in targets : Owner(b) = u}
           old  == VisibleIn(entries, u) \cap kept
           new  == {<<b, boxes[b].next>> : b \in mine}
           h    == BytesOf(entries', messages')
<1>1. /\ entries' = With([id \in ids |-> NewEntry(id, m, deleted)],
                         Without(entries, DOMAIN entries \ kept))
      /\ \A v \in {Owner(b) : b \in targets} :
           WithinQuota(v, size * Cardinality({b \in targets : Owner(b) = v}), kept)
      /\ messages'[m].size = size
      /\ quota' = quota
  <2>1. messages' = [x \in (DOMAIN messages \ replaced) \cup {m} |->
                       IF x = m THEN [draft |-> draft, size |-> size] ELSE messages[x]]
    BY DEF SaveMessage
  <2>2. messages'[m].size = size
    BY <2>1
  <2> QED BY <2>2 DEF SaveMessage
<1>2. \A id \in ids : id \notin DOMAIN entries
  <2>1. \A b \in DOMAIN boxes : boxes[b].next \in Nat /\ boxes[b].next <= boxes[b].next
    BY DEF IInv, TypeOK, Box
  <2> QED BY <2>1, NextIdUnused DEF IInv
<1>3. /\ DOMAIN entries' = ids \cup kept
      /\ \A id \in ids : entries'[id] = NewEntry(id, m, deleted)
      /\ \A e \in kept : entries'[e] = entries[e]
  <2>1. kept \subseteq DOMAIN entries
    OBVIOUS
  <2>2. DOMAIN Without(entries, DOMAIN entries \ kept) = kept
          /\ \A e \in kept : Without(entries, DOMAIN entries \ kept)[e] = entries[e]
    BY <2>1 DEF Without
  <2> HIDE DEF ids, kept
  <2> QED BY <1>1, <1>2, <2>1, <2>2 DEF With
<1>4. VisibleIn(entries', u) = old \cup new
  <2>1. ASSUME NEW e \in ids
        PROVE  e \in VisibleIn(entries', u) <=> e \in new
    <3>1. PICK b \in targets : e = <<b, boxes[b].next>>
      OBVIOUS
    <3>2. e \in DOMAIN entries' /\ entries'[e] = NewEntry(e, m, deleted)
      <4> HIDE DEF ids, kept
      <4> QED BY <1>3
    <3>3. entries'[e].box = b /\ ~entries'[e].gone
      BY <3>1, <3>2 DEF NewEntry
    <3> QED BY <3>1, <3>2, <3>3 DEF VisibleIn
  <2>2. ASSUME NEW e \in kept
        PROVE  e \in VisibleIn(entries', u) <=> e \in old
    BY <1>3 DEF VisibleIn
  <2>3. new \subseteq ids /\ old \subseteq kept /\ VisibleIn(entries', u) \subseteq ids \cup kept
    BY <1>3 DEF VisibleIn
  <2>4. \A e \in kept : e \notin new
    BY <1>2
  <2>5. \A e \in ids : e \notin old
    BY <1>2
  <2> HIDE DEF old, new, ids, kept
  <2> QED BY <2>1, <2>2, <2>3, <2>4, <2>5
<1>5. old \subseteq VisibleIn(entries, u) /\ new \cap DOMAIN entries = {}
  BY <1>2
<1>6. SumFunctionOnSet(h, new) = size * Cardinality(mine)
  <2> DEFINE f == [b \in mine |-> size]
             g == [b \in mine |-> <<b, boxes[b].next>>]
  <2>1. IsFiniteSet(mine)
    <3>1. mine \subseteq BoxId
      BY DEF IInv, TypeOK
    <3> QED BY <3>1, BoxesFinite, FS_Subset
  <2>2. f \in [mine -> Nat] /\ size \in Nat /\ \A b \in mine : f[b] = size
    BY MailStoreAssumption
  <2>3. g \in [mine -> DOMAIN entries']
    BY <1>3
  <2>4. \A b, c \in mine : g[b] = g[c] => b = c
    OBVIOUS
  <2>5. \A b \in mine : h[g[b]] = f[b]
    <3> SUFFICES ASSUME NEW b \in mine
                 PROVE  h[g[b]] = size
      OBVIOUS
    <3>1. g[b] \in ids /\ g[b] \in DOMAIN entries'
      BY <1>3
    <3> HIDE DEF g, ids, kept
    <3>2. entries'[g[b]] = NewEntry(g[b], m, deleted)
      BY <1>3, <3>1
    <3>3. entries'[g[b]].msg = m
      BY <3>2 DEF NewEntry
    <3> QED BY <1>1, <3>1, <3>3 DEF BytesOf
  <2>6. new = {g[b] : b \in mine}
    OBVIOUS
  <2>7. IsFiniteSet(DOMAIN entries') /\ h \in [DOMAIN entries' -> Nat]
    BY BytesTypes
  <2> HIDE DEF f, g, h, mine, new
  <2>8. SumFunctionOnSet(h, {g[b] : b \in mine}) = SumFunctionOnSet(f, mine)
    BY <2>1, <2>2, <2>3, <2>4, <2>5, <2>7, SumRenamed
  <2>9. SumFunctionOnSet(f, mine) = size * Cardinality(mine)
    BY <2>1, <2>2, SumConstant
  <2> QED BY <2>6, <2>8, <2>9
<1>7. Usage(u, kept) = SumFunctionOnSet(BytesOf(entries, messages), old)
  BY SumsOf
<1>8. mine # {} => WithinQuota(u, size * Cardinality(mine), kept)
  BY <1>1
<1>9. mine = {} => VisibleIn(entries', u) \subseteq DOMAIN entries
  BY <1>4 DEF VisibleIn
<1> HIDE DEF old, new, mine, kept, h
<1>10. Usage(u, DOMAIN entries)' = Usage(u, kept) + size * Cardinality(mine)
  BY <1>4, <1>5, <1>6, <1>7, UsageGrows DEF h
<1>11. CASE mine # {}
  BY <1>1, <1>8, <1>10, <1>11 DEF WithinQuota, Growth
<1>12. CASE mine = {}
  BY <1>9, <1>12, UsageShrinks DEF Growth
<1> QED BY <1>11, <1>12

\* Copies of rows count for what their messages do.
LEMMA CopiesCount ==
  ASSUME IInv, IInv', UNCHANGED messages, NEW d \in DOMAIN boxes, NEW rows, Snapshot(rows),
         IsFiniteSet(rows), \A r \in rows : r.msg \in DOMAIN messages, NEW deleted, NEW stay,
         entries' = With(Copies(d, rows, deleted), stay)
  PROVE  SumFunctionOnSet(BytesOf(entries', messages'), DOMAIN Copies(d, rows, deleted)) =
           SumFunction([r \in rows |-> messages[r.msg].size])
<1> DEFINE f   == [r \in rows |-> messages[r.msg].size]
           g   == [r \in rows |-> CopyId(d, r, rows)]
           h   == BytesOf(entries', messages')
           new == Copies(d, rows, deleted)
<1>1. f \in [rows -> Nat]
  BY DEF IInv, TypeOK, Message
<1>2. ASSUME NEW r \in rows
      PROVE  /\ g[r] \in DOMAIN entries'
             /\ entries'[g[r]].msg = r.msg
  <2>1. g[r] \in DOMAIN new /\ new[g[r]] = NewEntry(g[r], r.msg, deleted[r])
    BY CopyOfRow DEF IInv
  <2> HIDE DEF g, new
  <2>2. g[r] \in DOMAIN entries' /\ entries'[g[r]] = new[g[r]]
    BY <2>1 DEF With, new
  <2> QED BY <2>1, <2>2 DEF NewEntry
<1>3. g \in [rows -> DOMAIN entries']
  BY <1>2
<1>4. \A r, q \in rows : g[r] = g[q] => r = q
  BY CopyIdsDiffer DEF IInv
<1>5. \A r \in rows : h[g[r]] = f[r]
  <2> SUFFICES ASSUME NEW r \in rows
               PROVE  h[g[r]] = messages[r.msg].size
    OBVIOUS
  <2> HIDE DEF g
  <2> QED BY <1>2 DEF BytesOf
<1>6. DOMAIN new = {g[r] : r \in rows}
  BY DEF Copies
<1>7. IsFiniteSet(DOMAIN entries') /\ h \in [DOMAIN entries' -> Nat]
  BY BytesTypes
<1>8. SumFunction(f) = SumFunctionOnSet(f, rows)
  BY DEF SumFunction
<1> HIDE DEF f, g, h, new
<1>9. SumFunctionOnSet(h, {g[r] : r \in rows}) = SumFunctionOnSet(f, rows)
  BY <1>1, <1>3, <1>4, <1>5, <1>7, SumRenamed
<1> QED BY <1>6, <1>8, <1>9 DEF f, h, new

\* The quota was checked with what COPY adds to the user's mail.
LEMMA CopyGrowth ==
  ASSUME IInv, IInv', Legal, NEW s \in Session, NEW n \in Name, IMAPCopyEntries(s, n),
         NEW u \in User
  PROVE  Growth(u)
<1> DEFINE owner   == Owner(pending[s].box)
           rows    == pending[s].rows
           deleted == [r \in rows |-> r.deleted]
           size    == SumFunction([r \in rows |-> messages[r.msg].size])
<1>1. PICK d \in Named(owner, n) :
        /\ WithinQuota(owner, size, DOMAIN entries)
        /\ entries' = With(Copies(d, rows, deleted), entries)
  BY DEF IMAPCopyEntries
<1>2. d \in DOMAIN boxes /\ Owner(d) = owner
  BY DEF Named, BoxesOf
<1>3. Snapshot(rows) /\ IsFiniteSet(rows)
  BY RowsOfCommand, SnapshotFinite DEF IMAPCopyEntries
<1>4. /\ \A r \in rows : r.msg \in DOMAIN messages
      /\ messages' = messages /\ quota' = quota
  BY DEF IMAPCopyEntries
<1> HIDE DEF rows, deleted, size
<1> DEFINE new == DOMAIN Copies(d, rows, deleted)
<1>5. new \cap DOMAIN entries = {}
  BY <1>2, <1>3, CopiesTakeNewIds
<1>6. \A id \in new : /\ id \in DOMAIN entries' /\ entries'[id].box = d /\ ~entries'[id].gone
  <2> SUFFICES ASSUME NEW id \in new
               PROVE  id \in DOMAIN entries' /\ entries'[id].box = d /\ ~entries'[id].gone
    OBVIOUS
  <2>1. PICK r \in rows : id = CopyId(d, r, rows)
    BY DEF Copies
  <2>2. Copies(d, rows, deleted)[id] = NewEntry(id, r.msg, deleted[r])
    BY <1>2, <1>3, <2>1, CopyOfRow DEF IInv
  <2>3. id \in DOMAIN entries' /\ entries'[id] = NewEntry(id, r.msg, deleted[r])
    BY <1>1, <2>2 DEF With
  <2>4. id[1] = d
    BY <2>1 DEF CopyId
  <2> QED BY <2>3, <2>4 DEF NewEntry
<1>7. /\ DOMAIN entries' = new \cup DOMAIN entries
      /\ \A e \in DOMAIN entries : entries'[e] = entries[e]
  BY <1>1, <1>5 DEF With
<1>8. SumFunctionOnSet(BytesOf(entries', messages'), new) = size
  BY <1>1, <1>2, <1>3, <1>4, CopiesCount DEF size
<1> HIDE DEF new
<1>9. CASE u = owner
  <2>1. VisibleIn(entries', u) = VisibleIn(entries, u) \cup new
    BY <1>2, <1>5, <1>6, <1>7, <1>9 DEF VisibleIn
  <2>2. Usage(u, DOMAIN entries)' =
          SumFunctionOnSet(BytesOf(entries, messages), VisibleIn(entries, u)) + size
    <3>1. VisibleIn(entries, u) \subseteq VisibleIn(entries, u)
      OBVIOUS
    <3> QED BY <1>5, <1>8, <2>1, <3>1, UsageGrows
  <2>3. Usage(u, DOMAIN entries)' = Usage(u, DOMAIN entries) + size
    BY <2>2, SumsOf
  <2> QED BY <1>1, <1>4, <1>9, <2>3 DEF WithinQuota, Growth
<1>10. CASE u # owner
  <2>1. VisibleIn(entries', u) \subseteq DOMAIN entries
    BY <1>2, <1>6, <1>7, <1>10 DEF VisibleIn
  <2> QED BY <2>1, UsageShrinks DEF Growth
<1> QED BY <1>9, <1>10

\* MOVE takes as much out of the user's mail as it adds: no quota is checked.
LEMMA MoveGrowth ==
  ASSUME IInv, IInv', Legal, NEW s \in Session, NEW n \in Name, IMAPMoveEntries(s, n),
         NEW u \in User
  PROVE  Growth(u)
<1> DEFINE owner   == Owner(pending[s].box)
           rows    == {r \in pending[s].rows : StillListed(s, r)}
           ids     == {r.id : r \in rows}
           left    == {e \in ids : messages[entries[e].msg].draft}
           deleted == [r \in rows |-> entries[r.id].deleted]
           stay    == [e \in DOMAIN entries \ left |->
                         IF e \in ids THEN [entries[e] EXCEPT !.gone = TRUE] ELSE entries[e]]
           f       == [r \in rows |-> messages[r.msg].size]
           V       == VisibleIn(entries, u)
           h       == BytesOf(entries, messages)
<1>1. PICK d \in Named(owner, n) : entries' = With(Copies(d, rows, deleted), stay)
  BY DEF IMAPMoveEntries
<1>2. d \in DOMAIN boxes /\ Owner(d) = owner
  BY DEF Named, BoxesOf
<1>3. pending[s].kind = "read" /\ messages' = messages
  BY DEF IMAPMoveEntries
<1>4. Snapshot(rows) /\ IsFiniteSet(rows)
  BY <1>3, RowsOfCommand, SnapshotFinite
<1>5. \A r \in rows : /\ r.id \in DOMAIN entries /\ entries[r.id] \in Entry
                      /\ Owner(entries[r.id].box) = owner /\ ~entries[r.id].gone
                      /\ r.msg = entries[r.id].msg /\ r.msg \in DOMAIN messages
  BY DEF StillListed, IInv, TypeOK, SnapshotsNameTheirMessage, Referential
<1>6. \A r, q \in rows : r.id = q.id => r = q
  BY DEF IInv, SnapshotsOwned
<1>7. \A e \in ids : \E r \in rows : e = r.id
  OBVIOUS
<1>8. \A e \in DOMAIN entries : e \notin ids => e \in DOMAIN stay /\ stay[e] = entries[e]
  OBVIOUS
<1>9. \A e \in DOMAIN stay : e \in DOMAIN entries /\ (e \in ids => stay[e].gone)
  <2> SUFFICES ASSUME NEW e \in DOMAIN stay, e \in ids
               PROVE  stay[e].gone
    OBVIOUS
  <2>1. stay[e] = [entries[e] EXCEPT !.gone = TRUE]
    OBVIOUS
  <2>2. entries[e] \in Entry
    BY <1>5
  <2> HIDE DEF stay, ids
  <2> QED BY <2>1, <2>2 DEF Entry
<1>10. \A r \in rows : h[r.id] = f[r] /\ f[r] \in Nat
  <2> SUFFICES ASSUME NEW r \in rows
               PROVE  h[r.id] = f[r] /\ f[r] \in Nat
    OBVIOUS
  <2>1. h[r.id] = messages[entries[r.id].msg].size
    BY <1>5 DEF BytesOf
  <2>2. f[r] = messages[r.msg].size
    OBVIOUS
  <2>3. messages[r.msg] \in Message
    BY <1>5 DEF IInv, TypeOK
  <2> QED BY <1>5, <2>1, <2>2, <2>3 DEF Message
<1>11. SumFunctionOnSet(h, ids) = SumFunctionOnSet(f, rows)
  <2> DEFINE g == [r \in rows |-> r.id]
  <2>1. f \in [rows -> Nat]
    BY <1>10
  <2>2. g \in [rows -> DOMAIN entries] /\ \A r, q \in rows : g[r] = g[q] => r = q
    BY <1>5, <1>6
  <2>3. \A r \in rows : h[g[r]] = f[r]
    BY <1>10
  <2>4. ids = {g[r] : r \in rows}
    OBVIOUS
  <2>5. IsFiniteSet(DOMAIN entries) /\ h \in [DOMAIN entries -> Nat]
    BY BytesTypes
  <2> HIDE DEF f, g, h, rows, ids
  <2>6. SumFunctionOnSet(h, {g[r] : r \in rows}) = SumFunctionOnSet(f, rows)
    BY <1>4, <2>1, <2>2, <2>3, <2>5, SumRenamed
  <2> QED BY <2>4, <2>6
<1> DEFINE new == DOMAIN Copies(d, rows, deleted)
<1>12. SumFunctionOnSet(BytesOf(entries', messages'), new) = SumFunctionOnSet(f, rows)
  <2>1. \A r \in rows : r.msg \in DOMAIN messages
    BY <1>5
  <2>2. SumFunction(f) = SumFunctionOnSet(f, rows)
    BY DEF SumFunction
  <2> HIDE DEF rows, deleted, stay
  <2>3. SumFunctionOnSet(BytesOf(entries', messages'), new) = SumFunction(f)
    BY <1>1, <1>2, <1>3, <1>4, <2>1, CopiesCount
  <2> QED BY <2>2, <2>3
<1> HIDE DEF rows, ids, left, deleted, stay, f, h
<1>13. new \cap DOMAIN entries = {}
  BY <1>2, <1>4, CopiesTakeNewIds
<1>14. /\ DOMAIN entries' = new \cup DOMAIN stay
       /\ \A id \in new : entries'[id] = Copies(d, rows, deleted)[id]
       /\ \A e \in DOMAIN stay : entries'[e] = stay[e]
  BY <1>1, <1>9, <1>13 DEF With
<1>15. \A id \in new : entries'[id].box = d /\ ~entries'[id].gone
  <2> SUFFICES ASSUME NEW id \in new
               PROVE  entries'[id].box = d /\ ~entries'[id].gone
    OBVIOUS
  <2>1. PICK r \in rows : id = CopyId(d, r, rows)
    BY DEF Copies
  <2>2. entries'[id] = NewEntry(id, r.msg, deleted[r])
    BY <1>2, <1>4, <1>14, <2>1, CopyOfRow DEF IInv
  <2>3. id[1] = d
    BY <2>1 DEF CopyId
  <2> QED BY <2>2, <2>3 DEF NewEntry
<1> HIDE DEF new
<1>16. CASE u = owner
  <2>1. VisibleIn(entries', u) = (V \ ids) \cup new
    <3>1. ASSUME NEW e, e \in VisibleIn(entries', u)
          PROVE  e \in (V \ ids) \cup new
      <4>1. e \in DOMAIN entries' /\ Owner(entries'[e].box) = u /\ ~entries'[e].gone
        BY <3>1 DEF VisibleIn
      <4>2. CASE e \in DOMAIN stay
        <5>1. e \in DOMAIN entries /\ e \notin ids
          BY <1>9, <1>14, <4>1, <4>2
        <5> QED BY <1>8, <1>14, <4>1, <4>2, <5>1 DEF VisibleIn
      <4> QED BY <1>14, <4>1, <4>2
    <3>2. \A e \in V \ ids : e \in VisibleIn(entries', u)
      BY <1>8, <1>14 DEF VisibleIn
    <3>3. \A e \in new : e \in VisibleIn(entries', u)
      BY <1>2, <1>14, <1>15, <1>16 DEF VisibleIn
    <3> QED BY <3>1, <3>2, <3>3
  <2>2. ids \subseteq V /\ V \subseteq DOMAIN entries
    BY <1>5, <1>7, <1>16 DEF VisibleIn
  <2>3. /\ Usage(u, DOMAIN entries)' =
             SumFunctionOnSet(h, V \ ids) + SumFunctionOnSet(BytesOf(entries', messages'), new)
    <3>1. V \ ids \subseteq VisibleIn(entries, u)
      OBVIOUS
    <3> HIDE DEF V
    <3> QED BY <1>13, <2>1, <3>1, UsageGrows DEF h
  <2>4. IsFiniteSet(DOMAIN entries) /\ h \in [DOMAIN entries -> Nat]
    BY BytesTypes DEF h
  <2> HIDE DEF V
  <2>5. SumFunctionOnSet(h, (V \ ids) \cup ids) =
          SumFunctionOnSet(h, V \ ids) + SumFunctionOnSet(h, ids)
    BY <2>2, <2>4, SumUnion
  <2>6. (V \ ids) \cup ids = V
    BY <2>2
  <2>7. SumFunctionOnSet(h, V) \in Nat
    BY <2>2, <2>4, SumType
  <2>8. Usage(u, DOMAIN entries) = SumFunctionOnSet(h, V)
    BY SumsOf DEF h, V
  <2>9. Usage(u, DOMAIN entries)' = Usage(u, DOMAIN entries)
    BY <1>11, <1>12, <2>3, <2>5, <2>6, <2>8
  <2> QED BY <2>7, <2>8, <2>9 DEF Growth
<1>17. CASE u # owner
  <2>1. VisibleIn(entries', u) \subseteq DOMAIN entries
    BY <1>2, <1>9, <1>14, <1>15, <1>17 DEF VisibleIn
  <2> QED BY <2>1, UsageShrinks DEF Growth
<1> QED BY <1>16, <1>17

\* Nobody's visible mail grows over the quota, whoever acts and however stale the
\* rows are.
THEOREM QuotaAlwaysBoundsGrowth == Spec => QuotaBoundsGrowth
<1>1. ASSUME IInv, IInv', Next, NEW u \in User
      PROVE  Growth(u)
  <2>1. Legal
    BY <1>1, NextLegal
  <2>2. ASSUME NoneInserted
        PROVE  Growth(u)
    <3>1. VisibleIn(entries', u) \subseteq DOMAIN entries
      BY <2>2 DEF NoneInserted, VisibleIn
    <3> QED BY <1>1, <2>1, <3>1, UsageShrinks DEF Growth
  <2> QED BY <1>1, <2>1, <2>2, StepKinds, SaveMessageGrowth, CopyGrowth, MoveGrowth
<1>2. IInv /\ IInv' /\ [Next]_vars =>
        [\A u \in User :
           Usage(u, DOMAIN entries)' > Usage(u, DOMAIN entries) /\ quota'[u] > 0 =>
             Usage(u, DOMAIN entries)' <= quota'[u]]_vars
  BY <1>1 DEF Growth
<1> QED BY <1>2, Inductive, PTL DEF Spec, QuotaBoundsGrowth

=============================================================================
