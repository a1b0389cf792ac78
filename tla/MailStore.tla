------------------------------ MODULE MailStore ------------------------------
(***************************************************************************)
(* The tables messages, mailboxes and mailbox_entries of the mail store,   *)
(* with every operation of internal/store that changes them and the web    *)
(* and IMAP handlers that reach those operations.                          *)
(*                                                                         *)
(* SQLite runs every BeginTx as BEGIN IMMEDIATE (store.go), so a store     *)
(* transaction is one action.  What interleaves are the commands: a web    *)
(* or IMAP handler first reads rows, in a statement of its own, and        *)
(* changes them later, so a session holds a snapshot that other sessions   *)
(* make stale.  An operation that returns an error rolls back and leaves   *)
(* the tables alone: it is not an action.                                  *)
(*                                                                         *)
(* Left out: message content, the flags other than \Deleted (no property   *)
(* tells them apart), deleted_at (only shown to the user), the audit rows  *)
(* and outgoing_queue rows written by the same transactions, and accounts  *)
(* that are not active.                                                    *)
(*                                                                         *)
(* A definition whose name ends in _Mutant is the one after it with a      *)
(* plausible mistake.  No specification uses it: it is there to show that  *)
(* the properties notice the mistake.                                      *)
(***************************************************************************)
EXTENDS Integers, Sequences, FiniteSets, FiniteSetsExt

CONSTANTS
  User,             \* users.id
  Name,             \* mailbox names, up to the NOCASE collation
  SystemMailboxes,  \* the sequence of names every account is created with
  Session,          \* requests that can be in progress at the same time
  Sizes,            \* values of messages.size_bytes
  Quotas,           \* values of users.quota_bytes, 0 for no quota
  ArchiveLimit,     \* BRCLIO_MAX_ARCHIVE_BYTES, 0 for no limit
  MaxMailboxes,     \* maxMailboxesPerUser
  MaxMessages,      \* bound of the model: messages ever stored
  MaxEntries,       \* bound of the model: rows of mailbox_entries
  MaxUid,           \* bound of the model: uid_next of a mailbox
  MaxMade           \* bound of the model: mailboxes ever made for a user

Inbox  == "INBOX"
Drafts == "Drafts"
Sent   == "Sent"

System == {SystemMailboxes[i] : i \in 1..Len(SystemMailboxes)}

ASSUME MailStoreAssumption ==
  /\ IsFiniteSet(User)
  /\ SystemMailboxes \in Seq(Name)
  /\ \A i, j \in 1..Len(SystemMailboxes) :
       SystemMailboxes[i] = SystemMailboxes[j] => i = j
  /\ {Inbox, Drafts, Sent} \subseteq System
  /\ Len(SystemMailboxes) <= MaxMade
  /\ Sizes \subseteq Nat
  /\ Quotas \subseteq Nat /\ Quotas # {}
  /\ {ArchiveLimit, MaxMailboxes, MaxMessages, MaxEntries, MaxMade} \subseteq Nat
  /\ MaxUid \in Nat \ {0}

VARIABLES
  boxes,     \* mailboxes:       id -> name, uid_validity, uid_next
  made,      \* for each user, the number of mailboxes ever made
  messages,  \* messages:        id -> direction is draft, size_bytes
  stored,    \* the number of messages ever stored
  entries,   \* mailbox_entries: id -> mailbox, message, uid, \Deleted, expunged
  quota,     \* users.quota_bytes
  pending    \* for each session, the rows its command read and not yet used

vars == <<boxes, made, messages, stored, entries, quota, pending>>

-----------------------------------------------------------------------------
(***************************************************************************)
(* Identifiers are random 128-bit strings in the code (security.NewID).    *)
(* Here a mailbox is named by its user and a number that is never used     *)
(* again, and an entry by the mailbox and UID it was inserted with, which  *)
(* it keeps when a move gives it another mailbox and UID.                  *)
(***************************************************************************)
BoxId == User \X (1..MaxMade)
EntryId == BoxId \X (1..MaxUid)
MessageId == 1..MaxMessages

Owner(b) == b[1]

Box == [name : Name, validity : Nat, next : 1..MaxUid]
Message == [draft : BOOLEAN, size : Nat]
Entry == [box : BoxId, msg : MessageId, uid : 1..MaxUid,
          deleted : BOOLEAN, gone : BOOLEAN]

\* What a snapshot keeps of an entry (IMAPEntry).
Row == [id : EntryId, msg : MessageId, uid : 1..MaxUid, deleted : BOOLEAN]

\* A command that read rows, and a STORE that has written some of them: it adds
\* \Deleted, removes it, or does not mention it.
StoreKind == {"add", "remove", "keep"}
Idle == [kind |-> "idle", rows |-> {}]
Command == [kind : {"read"} \cup StoreKind, box : BoxId, rows : SUBSET Row]

-----------------------------------------------------------------------------
(* Queries. *)

BoxesOf(u) == {b \in DOMAIN boxes : Owner(b) = u}

\* SELECT ... FROM mailboxes WHERE user_id=? AND name=?: none or one.
Named(u, n) == {b \in BoxesOf(u) : boxes[b].name = n}

EntriesOf(m) == {e \in DOMAIN entries : entries[e].msg = m}

Listed(b) == {e \in DOMAIN entries : entries[e].box = b /\ ~entries[e].gone}

Visible(u) ==
  {e \in DOMAIN entries : Owner(entries[e].box) = u /\ ~entries[e].gone}

\* What each entry counts for, and the bytes the entries ids of user u count for,
\* expunged ones excluded.
Bytes == [e \in DOMAIN entries |-> messages[entries[e].msg].size]

Usage(u, ids) == SumFunctionOnSet(Bytes, Visible(u) \cap ids)

Archived(ids) == SumFunctionOnSet([m \in DOMAIN messages |-> messages[m].size], ids)

\* A draft the user sees and nobody else has (mail.go:93-97).
ReplaceableDrafts(u) ==
  {m \in DOMAIN messages :
     /\ messages[m].draft
     /\ \E e \in EntriesOf(m) : e \in Visible(u)
     /\ \A e \in EntriesOf(m) : Owner(entries[e].box) = u}

-----------------------------------------------------------------------------
(* Rows inserted and removed. *)

Without(table, ids) == [x \in DOMAIN table \ ids |-> table[x]]

\* table with the rows new (TLC's @@ has no definition the provers can use).
With(new, table) ==
  [x \in DOMAIN new \cup DOMAIN table |-> IF x \in DOMAIN new THEN new[x] ELSE table[x]]

\* The bounds of the model leave room for n more UIDs in each of the mailboxes
\* bs, one entry for each UID.
Room(bs, n) ==
  /\ \A b \in bs : boxes[b].next + n <= MaxUid
  /\ Cardinality(DOMAIN entries) + n * Cardinality(bs) <= MaxEntries

\* UNIQUE(mailbox_id, uid)
Vacant(ids) ==
  \A e \in DOMAIN entries : <<entries[e].box, entries[e].uid>> \notin ids

NewEntry(id, m, deleted) ==
  [box |-> id[1], msg |-> m, uid |-> id[2], deleted |-> deleted, gone |-> FALSE]

\* Rows are inserted in the order of the UIDs in the snapshot.
Rank(r, rows) == Cardinality({q \in rows : q.uid < r.uid})

CopyId(d, r, rows) == <<d, boxes[d].next + Rank(r, rows)>>

Copies(d, rows, deleted) ==
  [id \in {CopyId(d, r, rows) : r \in rows} |->
     LET r == CHOOSE q \in rows : CopyId(d, q, rows) = id
     IN  NewEntry(id, r.msg, deleted[r])]

Advance_Mutant(d, n) == boxes   \* forgets uid_next

Advance(d, n) == [boxes EXCEPT ![d].next = @ + n]

\* Deletes every draft that loses an entry.
OrphanedDrafts_Mutant(ids) ==
  {m \in DOMAIN messages : messages[m].draft /\ EntriesOf(m) \cap ids # {}}

\* Deletes whatever message loses its last entry.
OrphanedDrafts_RetainMutant(ids) ==
  {m \in DOMAIN messages : EntriesOf(m) \cap ids # {} /\ EntriesOf(m) \subseteq ids}

\* Removing entries ids deletes the drafts that lose their last entry.
OrphanedDrafts(ids) ==
  {m \in DOMAIN messages : /\ messages[m].draft
                           /\ EntriesOf(m) \cap ids # {}
                           /\ EntriesOf(m) \subseteq ids}

-----------------------------------------------------------------------------
\* createUser gives every account the system mailboxes, with uid_validity
\* now, now + 1, ... (accounts.go:74-84); 1 stands for that instant.
Init ==
  /\ boxes = [b \in User \X (1..Len(SystemMailboxes)) |->
                [name |-> SystemMailboxes[b[2]], validity |-> b[2], next |-> 1]]
  /\ made = [u \in User |-> Len(SystemMailboxes)]
  /\ messages = [m \in {} |-> m]
  /\ stored = 0
  /\ entries = [e \in {} |-> e]
  /\ quota \in [User -> Quotas]
  /\ pending = [s \in Session |-> Idle]

-----------------------------------------------------------------------------
(***************************************************************************)
(* saveMessage: the drafts replaced (none or one) go, then the archive     *)
(* limit and each addressee's quota are checked on what is left, then the  *)
(* message and one entry in each target mailbox are inserted.              *)
(***************************************************************************)
\* Checks what is stored, without what is added.
WithinArchive_Mutant(size, replaced) ==
  ArchiveLimit > 0 => Archived(DOMAIN messages \ replaced) <= ArchiveLimit

WithinQuota_Mutant(u, added, kept) ==
  quota[u] > 0 => Usage(u, kept) <= quota[u]

WithinArchive(size, replaced) ==
  ArchiveLimit > 0 => Archived(DOMAIN messages \ replaced) + size <= ArchiveLimit

WithinQuota(u, added, kept) ==
  quota[u] > 0 => Usage(u, kept) + added <= quota[u]

SaveMessage(draft, size, deleted, targets, replaced) ==
  LET m    == stored + 1
      kept == {e \in DOMAIN entries : entries[e].msg \notin replaced}
      ids  == {<<b, boxes[b].next>> : b \in targets}
  IN  /\ m <= MaxMessages
      /\ Room(targets, 1)
      /\ WithinArchive(size, replaced)
      /\ \A u \in {Owner(b) : b \in targets} :
           WithinQuota(u, size * Cardinality({b \in targets : Owner(b) = u}), kept)
      /\ Vacant(ids)
      /\ messages' = [x \in (DOMAIN messages \ replaced) \cup {m} |->
                        IF x = m THEN [draft |-> draft, size |-> size] ELSE messages[x]]
      /\ stored' = m
      /\ entries' = With([id \in ids |-> NewEntry(id, m, deleted)],
                         Without(entries, DOMAIN entries \ kept))
      /\ boxes' = [b \in DOMAIN boxes |->
                     IF b \in targets THEN [boxes[b] EXCEPT !.next = @ + 1] ELSE boxes[b]]
      /\ UNCHANGED <<made, quota, pending>>

\* A compose request names no draft, or one that saveMessage can replace.
DraftToReplace(u) == {{}} \cup {{m} : m \in ReplaceableDrafts(u)}

\* Service.Receive, and DATA on port 25: one copy for each user addressed.
Receive ==
  \E size \in Sizes, to \in SUBSET User \ {{}} :
    \E inbox \in [to -> DOMAIN boxes] :
      /\ \A u \in to : inbox[u] \in Named(u, Inbox)
      /\ SaveMessage(FALSE, size, FALSE, {inbox[u] : u \in to}, {})

\* Service.Send, and DATA on a submission port: a copy in Sent and one in the
\* INBOX of each local recipient; other recipients are queued.
Send(u) ==
  \E size \in Sizes, to \in SUBSET User, sent \in Named(u, Sent) :
    \E inbox \in [to -> DOMAIN boxes] :
      /\ \A v \in to : inbox[v] \in Named(v, Inbox)
      /\ \E replaced \in DraftToReplace(u) :
           SaveMessage(FALSE, size, FALSE, {sent} \cup {inbox[v] : v \in to}, replaced)

SaveDraft(u) ==
  \E size \in Sizes, b \in Named(u, Drafts), replaced \in DraftToReplace(u) :
    SaveMessage(TRUE, size, FALSE, {b}, replaced)

\* IMAP APPEND: a draft iff the mailbox is Drafts or the flags have \Draft.
CreateMessage(u) ==
  \E size \in Sizes, b \in BoxesOf(u), draftFlag, deleted \in BOOLEAN :
    SaveMessage(draftFlag \/ boxes[b].name = Drafts, size, deleted, {b}, {})

-----------------------------------------------------------------------------
(* The web handlers move and expunge pass on the id of the entry they      *)
(* found; the transaction looks the entry up again.                        *)

\* Keeps the UID of the mailbox the entry comes from.
MoveMessage_Mutant(u) ==
  \E e \in Visible(u), n \in Name :
    \E d \in Named(u, n) :
      /\ d # entries[e].box
      /\ entries' = [entries EXCEPT ![e].box = d]
      /\ UNCHANGED <<boxes, made, messages, stored, quota, pending>>

MoveMessage(u) ==
  \E e \in Visible(u), n \in Name :
    \E d \in Named(u, n) :
      /\ d # entries[e].box
      /\ Room({d}, 1)
      /\ Vacant({<<d, boxes[d].next>>})
      /\ entries' = [entries EXCEPT ![e].box = d, ![e].uid = boxes[d].next]
      /\ boxes' = Advance(d, 1)
      /\ UNCHANGED <<made, messages, stored, quota, pending>>

\* Marks the entries of drafts like all others.
Expunge_Mutant(ids) ==
  /\ entries' = [e \in DOMAIN entries |->
                   IF e \in ids THEN [entries[e] EXCEPT !.gone = TRUE] ELSE entries[e]]
  /\ UNCHANGED <<boxes, made, messages, stored, quota, pending>>

\* Computes uid_next anew from the entries that remain.
Expunge_ReuseMutant(ids) ==
  LET draftIds == {e \in ids : messages[entries[e].msg].draft}
      rest     == DOMAIN entries \ draftIds
  IN  /\ entries' = [e \in rest |->
                       IF e \in ids THEN [entries[e] EXCEPT !.gone = TRUE] ELSE entries[e]]
      /\ messages' = Without(messages, OrphanedDrafts(draftIds))
      /\ boxes' = [b \in DOMAIN boxes |-> [boxes[b] EXCEPT !.next =
                     1 + Max({0} \cup {entries[e].uid : e \in {f \in rest : entries[f].box = b}})]]
      /\ UNCHANGED <<made, stored, quota, pending>>

\* Entries of drafts are deleted, and with the last one the draft; entries of
\* other messages are only marked.
Expunge(ids) ==
  LET draftIds == {e \in ids : messages[entries[e].msg].draft}
  IN  /\ entries' = [e \in DOMAIN entries \ draftIds |->
                       IF e \in ids THEN [entries[e] EXCEPT !.gone = TRUE] ELSE entries[e]]
      /\ messages' = Without(messages, OrphanedDrafts(draftIds))
      /\ UNCHANGED <<boxes, made, stored, quota, pending>>

\* Expunges the message for everyone who has it.
ExpungeMessage_Mutant(u) == \E e \in Visible(u) : Expunge(EntriesOf(entries[e].msg))

ExpungeMessage(u) == \E e \in Visible(u) : Expunge({e})

\* EXPUNGE of a selected mailbox, in one transaction.
IMAPExpungeDeleted(b) ==
  LET ids == {e \in Listed(b) : entries[e].deleted}
  IN  ids # {} /\ Expunge(ids)

-----------------------------------------------------------------------------
(* Mailboxes. *)

\* Takes the largest uid_validity itself.
NextValidity_Mutant(u) == Max({0} \cup {boxes[b].validity : b \in BoxesOf(u)})

\* uid_validity is one more than the largest the user's mailboxes have now.
NextValidity(u) ==
  1 + Max({0} \cup {boxes[b].validity : b \in BoxesOf(u)})

\* Lets the first entry take UID 0.
NewMailbox_Mutant(n, validity) == [name |-> n, validity |-> validity, next |-> 0]

NewMailbox(n, validity) == [name |-> n, validity |-> validity, next |-> 1]

CreateMailbox(u, n) ==
  LET b == <<u, made[u] + 1>>
  IN  /\ Named(u, n) = {}
      /\ Cardinality(BoxesOf(u)) < MaxMailboxes
      /\ made[u] < MaxMade
      /\ boxes' = [x \in DOMAIN boxes \cup {b} |->
                     IF x = b THEN NewMailbox(n, NextValidity(u)) ELSE boxes[x]]
      /\ made' = [made EXCEPT ![u] = @ + 1]
      /\ UNCHANGED <<messages, stored, entries, quota, pending>>

\* Has no guard but the store's own.
RenameMailbox_Mutant(u, old, new) ==
  /\ old # Inbox
  /\ Named(u, new) = {}
  /\ \E b \in Named(u, old) : boxes' = [boxes EXCEPT ![b].name = new]
  /\ UNCHANGED <<made, messages, stored, entries, quota, pending>>

\* The store refuses INBOX only; the IMAP handler, its one caller, refuses
\* every system mailbox.
RenameMailbox(u, old, new) ==
  /\ old \notin System
  /\ Named(u, new) = {}
  /\ \E b \in Named(u, old) : boxes' = [boxes EXCEPT ![b].name = new]
  /\ UNCHANGED <<made, messages, stored, entries, quota, pending>>

\* The mailbox goes with all its entries (ON DELETE CASCADE), expunged ones
\* too, and with the drafts that have no entry elsewhere.
IMAPDeleteMailbox(u, n) ==
  /\ n \notin System
  /\ \E b \in Named(u, n) :
       LET ids == {e \in DOMAIN entries : entries[e].box = b}
       IN  /\ boxes' = Without(boxes, {b})
           /\ entries' = Without(entries, ids)
           /\ messages' = Without(messages, OrphanedDrafts(ids))
  /\ UNCHANGED <<made, stored, quota, pending>>

\* The administrator may set a quota below what is in use.
UpdateQuota(u) ==
  \E q \in Quotas :
    /\ q # quota[u]
    /\ quota' = [quota EXCEPT ![u] = q]
    /\ UNCHANGED <<boxes, made, messages, stored, entries, pending>>

-----------------------------------------------------------------------------
(***************************************************************************)
(* Commands that act on rows read earlier.  snapshot and selectedEntries   *)
(* (imapserver) and GetMessage (web flags) read; the rows are used by one  *)
(* transaction (COPY, MOVE) or by one statement per row (STORE, FETCH,     *)
(* web flags).                                                             *)
(***************************************************************************)
RowOf(e) == [id |-> e, msg |-> entries[e].msg, uid |-> entries[e].uid,
             deleted |-> entries[e].deleted]

\* Which command it is shows when it acts.
SelectedEntries(s) ==
  \E b \in DOMAIN boxes : \E ids \in SUBSET Listed(b) \ {{}} :
    /\ pending[s] = Idle
    /\ pending' = [pending EXCEPT ![s] =
                     [kind |-> "read", box |-> b, rows |-> {RowOf(e) : e \in ids}]]
    /\ UNCHANGED <<boxes, made, messages, stored, entries, quota>>

Finish(s) == pending' = [pending EXCEPT ![s] = Idle]

\* Overlooks that the entry was expunged.
StillListed_Mutant(s, r) ==
  r.id \in DOMAIN entries /\ entries[r.id].box = pending[s].box

\* Whether the entry of row r is still in the mailbox of the command.
StillListed(s, r) ==
  /\ r.id \in DOMAIN entries
  /\ entries[r.id].box = pending[s].box
  /\ ~entries[r.id].gone

\* COPY trusts the snapshot: it inserts copies of rows that may be gone.  A row
\* whose draft was deleted makes the whole transaction fail (FOREIGN KEY).
IMAPCopyEntries(s, n) ==
  LET u    == Owner(pending[s].box)
      rows == pending[s].rows
      size == SumFunction([r \in rows |-> messages[r.msg].size])
  IN  /\ pending[s].kind = "read"
      /\ \A r \in rows : r.msg \in DOMAIN messages
      /\ \E d \in Named(u, n) :
           /\ Room({d}, Cardinality(rows))
           /\ WithinQuota(u, size, DOMAIN entries)
           /\ Vacant({CopyId(d, r, rows) : r \in rows})
           /\ entries' = With(Copies(d, rows, [r \in rows |-> r.deleted]), entries)
           /\ boxes' = Advance(d, Cardinality(rows))
      /\ Finish(s)
      /\ UNCHANGED <<made, messages, stored, quota>>

\* MOVE looks every row up again and skips those that left the mailbox.
IMAPMoveEntries(s, n) ==
  LET u    == Owner(pending[s].box)
      rows == {r \in pending[s].rows : StillListed(s, r)}
      ids  == {r.id : r \in rows}
      left == {e \in ids : messages[entries[e].msg].draft}
  IN  /\ pending[s].kind = "read"
      /\ \E d \in Named(u, n) :
           /\ Room({d}, Cardinality(rows))
           /\ Vacant({CopyId(d, r, rows) : r \in rows})
           /\ entries' = With(Copies(d, rows, [r \in rows |-> entries[r.id].deleted]),
                [e \in DOMAIN entries \ left |->
                   IF e \in ids THEN [entries[e] EXCEPT !.gone = TRUE] ELSE entries[e]])
           /\ boxes' = Advance(d, Cardinality(rows))
      /\ Finish(s)
      /\ UNCHANGED <<made, messages, stored, quota>>

\* The flags written are those of the snapshot with the change applied, so a
\* command that does not mention \Deleted writes back the \Deleted it read.
Updated(kind, r) == kind = "add" \/ (kind = "keep" /\ r.deleted)

\* STORE, and the \Seen of FETCH: one row after the other, in UID order; the
\* first row that is not there any more ends the command.
IMAPSetEntryFlags(s, kind) ==
  /\ pending[s].kind \in {"read", kind}
  /\ \E r \in pending[s].rows :
       LET rest == pending[s].rows \ {r}
       IN  /\ \A q \in rest : r.uid < q.uid
           /\ IF StillListed(s, r)
              THEN /\ entries' = [entries EXCEPT ![r.id].deleted = Updated(kind, r)]
                   /\ pending' = [pending EXCEPT ![s] =
                        IF rest = {} THEN Idle ELSE [@ EXCEPT !.kind = kind, !.rows = rest]]
              ELSE Finish(s) /\ UNCHANGED entries
  /\ UNCHANGED <<boxes, made, messages, stored, quota>>

\* The web handler reads one entry, cannot change \Deleted, and finds the entry
\* in whatever mailbox it is by now.
UpdateFlags(s) ==
  /\ pending[s].kind = "read"
  /\ \E r \in pending[s].rows :
       /\ pending[s].rows = {r}
       /\ r.id \in DOMAIN entries
       /\ ~entries[r.id].gone
       /\ entries' = [entries EXCEPT ![r.id].deleted = Updated("keep", r)]
  /\ Finish(s)
  /\ UNCHANGED <<boxes, made, messages, stored, quota>>

\* The command's context expires, its transaction is rolled back, or the
\* process restarts: rows not yet used stay as they are.
Abandon(s) ==
  /\ pending[s] # Idle
  /\ Finish(s)
  /\ UNCHANGED <<boxes, made, messages, stored, entries, quota>>

-----------------------------------------------------------------------------
UserStep(u) ==
  \/ Send(u) \/ SaveDraft(u) \/ CreateMessage(u)
  \/ MoveMessage(u) \/ ExpungeMessage(u) \/ UpdateQuota(u)
  \/ \E n \in Name : CreateMailbox(u, n) \/ IMAPDeleteMailbox(u, n)
  \/ \E old, new \in Name : RenameMailbox(u, old, new)

SessionStep(s) ==
  \/ SelectedEntries(s) \/ UpdateFlags(s) \/ Abandon(s)
  \/ \E n \in Name : IMAPCopyEntries(s, n) \/ IMAPMoveEntries(s, n)
  \/ \E kind \in StoreKind : IMAPSetEntryFlags(s, kind)

Next ==
  \/ Receive
  \/ \E u \in User : UserStep(u)
  \/ \E b \in DOMAIN boxes : IMAPExpungeDeleted(b)
  \/ \E s \in Session : SessionStep(s)

Spec == Init /\ [][Next]_vars

-----------------------------------------------------------------------------
(***************************************************************************)
(*                               Properties                                *)
(***************************************************************************)

\* Every table holds rows of its type and every command rows it may have read.
TypeOK ==
  /\ DOMAIN boxes \subseteq BoxId
  /\ \A b \in DOMAIN boxes : boxes[b] \in Box
  /\ made \in [User -> 0..MaxMade]
  /\ stored \in 0..MaxMessages
  /\ DOMAIN messages \subseteq 1..stored
  /\ \A m \in DOMAIN messages : messages[m] \in Message
  /\ DOMAIN entries \subseteq EntryId
  /\ \A e \in DOMAIN entries : entries[e] \in Entry
  /\ quota \in [User -> Quotas]
  /\ pending \in [Session -> Command \cup {Idle}]

\* An entry always has its mailbox and its message, although messages are
\* deleted by five different operations and mailboxes with their entries by
\* one (FOREIGN KEY mailbox_entries -> mailboxes, messages).
Referential ==
  \A e \in DOMAIN entries : /\ entries[e].box \in DOMAIN boxes
                            /\ entries[e].msg \in DOMAIN messages

\* A draft is private working state: it has an entry, every entry of it belongs
\* to one user, and none is soft-expunged, so a draft its user deleted is never
\* kept for the administrator (docs/architecture.md, "draft exception").
DraftsArePrivate ==
  \A m \in DOMAIN messages : messages[m].draft =>
    /\ EntriesOf(m) # {}
    /\ \A e \in EntriesOf(m) : ~entries[e].gone
    /\ \A e, f \in EntriesOf(m) : Owner(entries[e].box) = Owner(entries[f].box)

\* UIDs in one mailbox are distinct, and below uid_next, expunged entries
\* included: UNIQUE(mailbox_id, uid) can never refuse an insertion.
UidsDistinct ==
  \A e, f \in DOMAIN entries :
    /\ entries[e].uid < boxes[entries[e].box].next
    /\ entries[e].box = entries[f].box /\ entries[e].uid = entries[f].uid => e = f

\* An entry that comes into a mailbox, by insertion, COPY, MOVE or the web move,
\* gets a UID no entry of that mailbox has had before.
ArrivesAbove(e) ==
  LET b == entries'[e].box
  IN  b \in DOMAIN boxes /\ (e \notin DOMAIN entries \/ entries[e].box # b) =>
        /\ boxes[b].next <= entries'[e].uid
        /\ entries'[e].uid < boxes'[b].next

UidsAscend == [][\A e \in DOMAIN entries' : ArrivesAbove(e)]_vars

\* Received, sent and imported messages are never deleted or changed, whatever
\* their users do to entries and mailboxes (trigger messages_retained).
Retained(m) == ~messages[m].draft => m \in DOMAIN messages' /\ messages'[m] = messages[m]

RetainedStay == [][\A m \in DOMAIN messages : Retained(m)]_vars

\* An expunged entry is never shown, moved, or flagged again, not even by a
\* command that read it before it was expunged.
StaysExpunged(e) ==
  entries[e].gone /\ e \in DOMAIN entries' => entries'[e] = entries[e]

ExpungedStay == [][\A e \in DOMAIN entries : StaysExpunged(e)]_vars

\* What one user does changes entries of that user only: no step changes or
\* removes entries of two users (docs/architecture.md, "own mailbox entry").
OwnEntriesOnly ==
  [][LET touched == {e \in DOMAIN entries :
                       e \notin DOMAIN entries' \/ entries'[e] # entries[e]}
     IN  \A e, f \in touched : Owner(entries[e].box) = Owner(entries[f].box)]_vars

\* A step after which a user's visible mail takes more room than before ends
\* within the quota, also when the user has copies of the same message.
QuotaBoundsGrowth ==
  [][\A u \in User :
       Usage(u, DOMAIN entries)' > Usage(u, DOMAIN entries) /\ quota'[u] > 0 =>
         Usage(u, DOMAIN entries)' <= quota'[u]]_vars

\* The archive never holds more than its limit: what no user sees any more
\* still counts, and a replaced draft makes room in the same transaction.
ArchiveBounded == ArchiveLimit > 0 => Archived(DOMAIN messages) <= ArchiveLimit

\* A user never loses a message by a MOVE, and never gains one: rows other
\* sessions expunged or moved in the meantime are left alone.
VisibleMessages(u) == {entries[e].msg : e \in Visible(u)}

MoveConserves ==
  [][\A s \in Session, n \in Name : IMAPMoveEntries(s, n) =>
       \A u \in User : VisibleMessages(u)' = VisibleMessages(u)]_vars

\* Every user has every system mailbox, under one name each: delivery, Sent
\* copies and drafts, which look mailboxes up by name, always find one.
SystemMailboxesStay ==
  \A u \in User :
    /\ \A n \in System : Named(u, n) # {}
    /\ \A a, b \in BoxesOf(u) : boxes[a].name = boxes[b].name => a = b

\* Two mailboxes a user has at the same time never share a uid_validity, also
\* when others were deleted in between.
ValiditiesDistinct ==
  \A a, b \in DOMAIN boxes :
    Owner(a) = Owner(b) /\ boxes[a].validity = boxes[b].validity => a = b

-----------------------------------------------------------------------------
(***************************************************************************)
(* The inductive invariant behind Referential, UidsDistinct,               *)
(* DraftsArePrivate and ValiditiesDistinct (MailStoreProofs).              *)
(***************************************************************************)

\* The id of an entry that exists or existed: a mailbox that was made, and a UID
\* below the mailbox's uid_next.
IdUsed(id) ==
  /\ id[1][2] <= made[Owner(id[1])]
  /\ id[1] \in DOMAIN boxes => id[2] < boxes[id[1]].next

\* Nothing that exists, or that a command still refers to, has an id that the
\* next insertion would use; no uid_validity is above the number of mailboxes.
IdsUsed ==
  /\ \A b \in DOMAIN boxes :
       b[2] <= made[Owner(b)] /\ boxes[b].validity <= made[Owner(b)]
  /\ \A e \in DOMAIN entries : IdUsed(e)
  /\ \A s \in Session : \A r \in pending[s].rows : IdUsed(r.id) /\ r.msg <= stored

\* A row read earlier still names the same message, or no entry at all: a late
\* STORE, MOVE or web flag change never hits another message.
SnapshotsNameTheirMessage ==
  \A s \in Session : \A r \in pending[s].rows :
    r.id \in DOMAIN entries => entries[r.id].msg = r.msg

\* The rows of a command are of different entries and have different UIDs, and a
\* draft among them belongs to the user whose command it is, so that a late COPY
\* cannot share it.
SnapshotsOwned ==
  \A s \in Session : \A r \in pending[s].rows :
    /\ \A q \in pending[s].rows : q.uid = r.uid \/ q.id = r.id => q = r
    /\ r.msg \in DOMAIN messages /\ messages[r.msg].draft =>
         \A e \in EntriesOf(r.msg) : Owner(entries[e].box) = Owner(pending[s].box)

IInv ==
  /\ TypeOK
  /\ Referential
  /\ UidsDistinct
  /\ DraftsArePrivate
  /\ ValiditiesDistinct
  /\ SnapshotsNameTheirMessage
  /\ IdsUsed
  /\ SnapshotsOwned

=============================================================================
