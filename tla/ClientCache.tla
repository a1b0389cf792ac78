----------------------------- MODULE ClientCache -----------------------------
(***************************************************************************)
(* An IMAP client next to the mail store.  It remembers the messages it    *)
(* has listed under mailbox name, UIDVALIDITY and UID, and relies on such  *)
(* a triple to name one message for good (RFC 3501, which docs/clients.md  *)
(* names as the protocol baseline): what is cached is not fetched again.   *)
(*                                                                         *)
(* The client selects and lists a mailbox in one step.  In the code Status *)
(* and ListMessages are separate statements that look the mailbox up by    *)
(* name; what happens between them is left out here.                       *)
(***************************************************************************)
EXTENDS MailStore

VARIABLE cache  \* for each user, the triples its client knows,
                \* with the message: [name, validity, uid, msg]

cacheVars == <<vars, cache>>

CacheInit == Init /\ cache = [u \in User |-> {}]

\* What SELECT and FETCH of mailbox b show.
Shown(b) ==
  {[name |-> boxes[b].name, validity |-> boxes[b].validity,
    uid |-> entries[e].uid, msg |-> entries[e].msg] : e \in Listed(b)}

ListMessages(u) ==
  \E b \in BoxesOf(u) :
    /\ cache' = [cache EXCEPT ![u] = @ \cup Shown(b)]
    /\ UNCHANGED vars

CacheNext ==
  \/ Next /\ UNCHANGED cache
  \/ \E u \in User : ListMessages(u)

CacheSpec == CacheInit /\ [][CacheNext]_cacheVars

-----------------------------------------------------------------------------
(* Properties. *)

NameOneMessage(triples) ==
  \A x, y \in triples :
    x.name = y.name /\ x.validity = y.validity /\ x.uid = y.uid => x.msg = y.msg

\* A client of the mailboxes every account has never takes one message for
\* another, whatever it missed between two listings.
SystemCacheSound ==
  \A u \in User : NameOneMessage({x \in cache[u] : x.name \in System})

\* The same for all mailboxes of the account.  It fails: after the mailbox made
\* last is deleted, the largest uid_validity is what it was before that mailbox
\* was made, so a mailbox made under the same name gets the same uid_validity
\* and starts with UID 1 again.
CacheSound == \A u \in User : NameOneMessage(cache[u])

-----------------------------------------------------------------------------
(***************************************************************************)
(* The inductive invariant behind SystemCacheSound (MailStoreProofs).      *)
(***************************************************************************)
Triple == [name : Name, validity : Nat, uid : 1..MaxUid, msg : MessageId]

CacheTypeOK == cache \in [User -> SUBSET Triple]

\* What the client remembers of a system mailbox is still its mailbox, whose
\* uid_next has passed the UID: whoever has that UID now is the message.
SystemRemembered ==
  \A u \in User : \A x \in cache[u] : x.name \in System =>
    \E b \in BoxesOf(u) :
      /\ boxes[b].name = x.name /\ boxes[b].validity = x.validity
      /\ x.uid < boxes[b].next
      /\ \A e \in DOMAIN entries :
           entries[e].box = b /\ entries[e].uid = x.uid => entries[e].msg = x.msg

CInv ==
  /\ IInv /\ SystemMailboxesStay
  /\ CacheTypeOK
  /\ SystemRemembered
  /\ SystemCacheSound

=============================================================================
