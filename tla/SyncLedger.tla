---------------------------- MODULE SyncLedger ----------------------------
(***************************************************************************)
(* One install publishing its settings to a chat, and what can go wrong    *)
(* between the durable local state and the server.                         *)
(*                                                                         *)
(* The client reads the whole chat (Read), and everything it then decides  *)
(* it decides on that view: reserving and staging a record, sending it as  *)
(* a new message or as an edit of the head, confirming it, deleting an     *)
(* older copy, adopting a copy it issued, dropping a ledger entry whose    *)
(* message is gone.  Each view serves one decision.  Requests are lost or  *)
(* applied; one whose session died (Crash) may still be applied later,     *)
(* after the client has read the chat again.                               *)
(***************************************************************************)
EXTENDS SyncLocalState

CONSTANTS
    MaxMessages,    \* bound on the message ids of a chat
    MaxOrphans,     \* bound on requests outliving their session
    ReturnsAllowed  \* whether a chat that was left may be bound again

ASSUME LedgerAssumption ==
    /\ MaxMessages \in Nat
    /\ MaxOrphans \in Nat
    /\ ReturnsAllowed \in BOOLEAN

VARIABLES
    st,       \* the durable local state (state.json)
    staged,   \* the durable staged record file, NoRecord when there is none
    view,     \* the messages of the last complete read, if still usable
    request,  \* the request of the running session, NoRequest when there is none
    orphans,  \* requests of dead sessions the server may still apply
    cloud,    \* the messages of this install in each chat
    nextId,   \* the next message id of each chat
    left      \* the chats the state was moved away from

vars == <<st, staged, view, request, orphans, cloud, nextId, left>>
client == <<st, staged, view, left>>
server == <<cloud, nextId>>

NoView == [known |-> FALSE, msgs |-> {}]
NoRequest == [kind |-> "none", chat |-> Home, id |-> 0, rec |-> NoRecord]
Kinds == {"post", "edit", "delete"}
Request == [kind : Kinds, chat : Chats, id : Nat, rec : Record]

TypeOK ==
    /\ st \in LocalState
    /\ staged \in Record \cup {NoRecord}
    /\ view \in [known : BOOLEAN, msgs : SUBSET Message]
    /\ request \in Request \cup {NoRequest}
    /\ orphans \subseteq Request
    /\ cloud \in [Chats -> SUBSET Message]
    /\ nextId \in [Chats -> Nat \ {0}]
    /\ left \subseteq Chats

Init ==
    /\ st = FreshState
    /\ staged = NoRecord
    /\ view = NoView
    /\ request = NoRequest
    /\ orphans = {}
    /\ cloud = [c \in Chats |-> {}]
    /\ nextId = [c \in Chats |-> 1]
    /\ left = {}

---------------------------------------------------------------------------
(* The client.                                                             *)

Idle == request = NoRequest

\* The view is usable and ReconcileOwnConfigInventory does not ask for review.
Reviewed ==
    /\ Idle
    /\ view.known
    /\ Consistent(st, view.msgs, staged)
    /\ CloneFree(st, Observation(view.msgs))

PendingFound == PendingCopies(st, view.msgs) # {}

\* A complete fresh read.  An edit left over from a dead session has been
\* applied or dropped by the time a later session has read the whole chat.
Read ==
    /\ Idle
    /\ view' = [known |-> TRUE, msgs |-> cloud[st.chat]]
    /\ orphans' = {o \in orphans : o.kind # "edit"}
    /\ UNCHANGED <<st, staged, request, server, left>>

\* SyncConfigPostStep::Stage, SyncAutoAction::Publish: the next state and the
\* staged record become durable together.
ReserveAndStage(payload) ==
    LET reserved == ReserveVersion(st, payload)
        rec == PendingRecord(reserved)
    IN  /\ Reviewed /\ ~PendingFound
        /\ staged = NoRecord
        /\ MayReserve(st, Observation(view.msgs), payload)
        /\ CanReserve(st)
        /\ CanAppendIssued(reserved, rec)
        /\ st' = AppendIssued(reserved, rec)
        /\ staged' = rec
        /\ view' = NoView
        /\ UNCHANGED <<request, orphans, server, left>>

Send(kind, id, rec) ==
    /\ request' = [kind |-> kind, chat |-> st.chat, id |-> id, rec |-> rec]
    /\ view' = NoView
    /\ UNCHANGED <<st, staged, orphans, server, left>>

Post(edits) ==
    /\ Reviewed /\ ~PendingFound
    /\ MayPost(st, Observation(view.msgs), staged, edits)
    /\ Send("post", 0, staged)

Edit(m) ==
    /\ Reviewed /\ ~PendingFound
    /\ m \in Heads(view.msgs)
    /\ MayEdit(st, Observation(view.msgs), staged, TRUE, m)
    /\ Send("edit", m.id, staged)

\* The pending record was found: ConfirmConfigReadBack and
\* RecordConfirmedOwnConfigMessage commit together and the stage is cleared.
Confirm(m) ==
    /\ Reviewed /\ PendingFound
    /\ m \in PendingCopies(st, view.msgs)
    /\ CanConfirm(st, Observation(view.msgs), staged.payload)
    /\ CanRecordConfirmed(ConfirmReadBack(st), m.id, m.rec)
    /\ st' = Put(ConfirmReadBack(st), m.id, m.rec)
    /\ staged' = NoRecord
    /\ view' = NoView
    /\ UNCHANGED <<request, orphans, server, left>>

RetireAnyCopy(m) ==  \* mutant: nothing checks that the copy is an older one
    /\ Reviewed
    /\ m \in view.msgs
    /\ Send("delete", m.id, m.rec)

\* SyncPublishAction::RetireCandidate, then the deletion of the exact copy.
Retire(m) ==
    /\ Reviewed
    /\ m \in RetireCandidates(st, Observation(view.msgs))
    /\ m \in view.msgs
    /\ CanDelete(st, m.id, m.rec)
    /\ m.rec \in st.issued
    /\ Send("delete", m.id, m.rec)

\* A ledger entry whose message is affirmatively gone.
DropGone(m) ==
    /\ Idle /\ view.known
    /\ m \in st.own
    /\ \A n \in view.msgs : n.id # m.id
    /\ CanRemoveAbsent(st, m.id)
    /\ st' = RemoveAbsent(st, m.id)
    /\ view' = NoView
    /\ UNCHANGED <<staged, request, orphans, server, left>>

\* AdoptIssuedOwnConfigMessage: a duplicate or an earlier copy enters the ledger.
AdoptCopy(m) ==
    /\ Reviewed
    /\ m \in view.msgs
    /\ CanAdoptIssued(st, m.id, m.rec)
    /\ st' = Put(st, m.id, m.rec)
    /\ view' = NoView
    /\ UNCHANGED <<staged, request, orphans, server, left>>

\* The lookup bound another chat: MoveSyncStateToChat.  Nothing of the old
\* chat is used again; a running request becomes an orphan.
Move(c) ==
    /\ ReturnsAllowed \/ c \notin left
    /\ CanMoveToChat(st, c)
    /\ request # NoRequest => Cardinality(orphans) < MaxOrphans
    /\ st' = MoveToChat(st, c)
    /\ left' = left \cup {st.chat}
    /\ staged' = NoRecord
    /\ view' = NoView
    /\ orphans' = orphans \cup ({request} \ {NoRequest})
    /\ request' = NoRequest
    /\ UNCHANGED server

\* The session dies; its durable state survives.
Crash ==
    /\ request # NoRequest => Cardinality(orphans) < MaxOrphans
    /\ orphans' = orphans \cup ({request} \ {NoRequest})
    /\ request' = NoRequest
    /\ view' = NoView
    /\ UNCHANGED <<st, staged, server, left>>

---------------------------------------------------------------------------
(* The server.                                                             *)

Effect(q) ==
    \/ /\ q.kind = "post"
       /\ nextId[q.chat] <= MaxMessages
       /\ cloud' = [cloud EXCEPT ![q.chat] =
                       @ \cup {[id |-> nextId[q.chat], rec |-> q.rec]}]
       /\ nextId' = [nextId EXCEPT ![q.chat] = @ + 1]
    \/ /\ q.kind = "edit"
       /\ \E m \in cloud[q.chat] : m.id = q.id
       /\ cloud' = [cloud EXCEPT ![q.chat] =
                       {m \in @ : m.id # q.id} \cup {[id |-> q.id, rec |-> q.rec]}]
       /\ UNCHANGED nextId
    \/ /\ q.kind = "delete"
       /\ cloud' = [cloud EXCEPT ![q.chat] = {m \in @ : m.id # q.id}]
       /\ UNCHANGED nextId

\* The request of the session is applied; its answer reaches the client or
\* not, which decides nothing: only a read confirms.
Apply ==
    /\ request # NoRequest
    /\ Effect(request)
    /\ request' = NoRequest
    /\ UNCHANGED <<client, orphans>>

\* The request fails: lost, refused or timed out.
Lose ==
    /\ request # NoRequest
    /\ request' = NoRequest
    /\ UNCHANGED <<client, orphans, server>>

ApplyOrphan(o) ==
    /\ Effect(o)
    /\ orphans' = orphans \ {o}
    /\ UNCHANGED <<client, request>>

LoseOrphan(o) ==
    /\ orphans' = orphans \ {o}
    /\ UNCHANGED <<client, request, server>>

Next ==
    \/ Read
    \/ \E p \in Payloads : ReserveAndStage(p)
    \/ \E edits \in BOOLEAN : Post(edits)
    \/ \E m \in view.msgs : Edit(m)
    \/ \E m \in view.msgs : Confirm(m)
    \/ \E m \in st.own : Retire(m)
    \/ \E m \in st.own : DropGone(m)
    \/ \E m \in view.msgs : AdoptCopy(m)
    \/ \E c \in Chats : Move(c)
    \/ Crash
    \/ Apply
    \/ Lose
    \/ \E o \in orphans : ApplyOrphan(o)
    \/ \E o \in orphans : LoseOrphan(o)

Spec == Init /\ [][Next]_vars

---------------------------------------------------------------------------
(* Properties.                                                             *)

\* Every durable state the client writes is one ParseSyncLocalState accepts:
\* no sequence of publishing, confirming, retiring, adopting and moving leaves
\* an install with a state file it would refuse at the next start.
StateSerializes == Serializes(st)

\* The staged file and the reserved sequence stand or fall together, and the
\* staged record is in the issued log even when the log is full: otherwise a
\* restart holds as StoreMismatch and the reserved record is never finished.
StageIsPending ==
    IF st.pendingSeq = 0
    THEN staged = NoRecord /\ st.pendingKey = NoPayload
    ELSE /\ staged = PendingRecord(st)
         /\ staged \in st.issued
         /\ st.pendingKey = st.ownHash

Requests == orphans \cup ({request} \ {NoRequest})
Written ==
    {m.rec : m \in UNION {cloud[c] : c \in Chats}}
        \cup {q.rec : q \in Requests}
        \cup {m.rec : m \in st.own \cup view.msgs}
        \cup st.issued \cup ({staged} \ {NoRecord})

\* A sequence number never names two records: whatever is in a chat, on its
\* way, staged, logged or in the ledger, across crashes, abandoned stages and
\* moves, two records with one number are byte-identical.  Readers take the
\* opposite for a cloned install.
OneRecordPerSeq ==
    /\ \A r \in Written : r.seq <= st.seq
    /\ \A r1, r2 \in Written : r1.seq = r2.seq => r1 = r2

\* Once the client has confirmed a record in a chat it never left, that chat
\* holds it, or the record that is about to replace it, whatever was edited,
\* retired or re-sent since.  (In a chat it returned to, a request from before
\* it left may still take it away.)
HeadPublished ==
    st.confirmedSeq # 0 /\ ~AwaitsMovedPublish(st) /\ st.chat \notin left =>
        \E m \in cloud[st.chat] : m.rec.seq >= st.confirmedSeq

\* "An empty v2 ledger means nothing was published here"
\* (purple_sync_local_state.cpp:687): a state that awaits its first publish
\* after a move has no record in the chat it moved to.
EmptyLedgerMeansUnpublished ==
    AwaitsMovedPublish(st) =>
        \A m \in cloud[st.chat] : m.rec.seq > st.confirmedSeq

\* The same for a chat the install was never bound to before.
FreshChatUnpublished == st.chat \notin left => EmptyLedgerMeansUnpublished

\* A deletion the client requested never takes away the last copy of the
\* newest record of a chat, even when the request is applied late.
DeletionKeepsHead ==
    [][\A c \in Chats : \A m \in cloud[c] :
         (\A n \in cloud'[c] : n.id # m.id) =>
             \E n \in cloud'[c] : n.rec.seq >= m.rec.seq]_vars
=============================================================================
