-------------------------- MODULE SyncLocalState --------------------------
(***************************************************************************)
(* The durable sync state of one install (SyncLocalState in                *)
(* purple_sync_local_state.h) reduced to its config stream, and the pure   *)
(* functions of purple_sync_local_state.cpp, purple_sync_inventory.cpp,    *)
(* purple_sync_chat.cpp and purple_sync_chat_magic.cpp that read and       *)
(* change it.                                                              *)
(*                                                                         *)
(* Canonical record bytes are represented by what identifies them, their   *)
(* sequence number and their payload; a record hash is the record itself   *)
(* (SHA-256 is taken to be injective).  A payload stands for the payload   *)
(* hash and for the config version key the payload carries.  Install,      *)
(* device, space and binding token are constant and agree.                 *)
(***************************************************************************)
EXTENDS Integers, FiniteSets

CONSTANTS
    Payloads,     \* payload hashes (each with its own version key)
    NoPayload,    \* the empty QString
    Chats,        \* peer tokens a state may be bound to
    Home,         \* PeerTokenKind::Self, Saved Messages
    MaxSeq,       \* kMaximumSafeInteger
    MaxIssued,    \* kMaximumIssuedRecords
    MaxOwn        \* kMaximumOwnMessages

ASSUME LocalStateAssumption ==
    /\ NoPayload \notin Payloads
    /\ Home \in Chats
    /\ MaxSeq \in Nat \ {0}
    /\ MaxIssued \in Nat \ {0}
    /\ MaxOwn \in Nat \ {0}

Record == [seq : Nat \ {0}, payload : Payloads]
NoRecord == [seq |-> 0, payload |-> NoPayload]

\* A message of this install: in a chat, or an entry of the own-message ledger.
Message == [id : Nat \ {0}, rec : Record]

LocalState ==
    [version : {1, 2}, chat : Chats,
     seq : Nat, pendingSeq : Nat, confirmedSeq : Nat, abandonedSeq : Nat,
     ownHash : Payloads \cup {NoPayload},
     issued : SUBSET Record,
     own : SUBSET Message,
     base : Payloads \cup {NoPayload},
     pendingKey : Payloads \cup {NoPayload}]

FreshState ==
    [version |-> 1, chat |-> Home,
     seq |-> 0, pendingSeq |-> 0, confirmedSeq |-> 0, abandonedSeq |-> 0,
     ownHash |-> NoPayload, issued |-> {}, own |-> {},
     base |-> NoPayload, pendingKey |-> NoPayload]

---------------------------------------------------------------------------
(* What ParseSyncLocalState accepts; SerializeSyncLocalState refuses       *)
(* anything else, so this is also the precondition of every operation.     *)

CountersValid(s) ==
    /\ s.seq <= MaxSeq
    /\ s.abandonedSeq # 0 => /\ s.abandonedSeq = s.seq
                             /\ s.pendingSeq = 0
                             /\ s.confirmedSeq < s.seq
    /\ s.pendingSeq = 0 => s.seq \in {s.confirmedSeq, s.abandonedSeq}
    /\ s.pendingSeq # 0 => /\ s.pendingSeq = s.seq
                           /\ s.confirmedSeq < s.seq
    /\ s.seq = 0 <=> s.ownHash = NoPayload
    /\ s.abandonedSeq # 0 => s.version = 2

IssuedValid(s) ==
    /\ IsFiniteSet(s.issued)
    /\ Cardinality(s.issued) <= MaxIssued
    /\ \A r \in s.issued : r.seq <= s.seq
    /\ \A r1, r2 \in s.issued : r1.seq = r2.seq => r1 = r2
    /\ s.abandonedSeq # 0 => \E r \in s.issued : r.seq = s.abandonedSeq

OwnValid(s) ==
    /\ IsFiniteSet(s.own)
    /\ Cardinality(s.own) <= MaxOwn
    /\ \A m \in s.own : m.rec.seq <= s.confirmedSeq
    /\ \A m1, m2 \in s.own : m1.id = m2.id => m1 = m2

ChatValid(s) == s.version = 1 => s.chat = Home

Serializes(s) ==
    CountersValid(s) /\ IssuedValid(s) /\ OwnValid(s) /\ ChatValid(s)

---------------------------------------------------------------------------
(* Operations.  Each is a guard (the code's error returns) and a result.   *)
(* The code also validates a state before and after it changes it and      *)
(* answers InvalidState; that is no guard here, so that the invariant      *)
(* StateSerializes of SyncLedger shows no operation ever runs into it.     *)

CanReserve(s) == s.seq < MaxSeq

ReserveKeepingAbandoned(s, hash) ==  \* mutant: abandoned_seq is not cleared
    [s EXCEPT !.seq = s.seq + 1, !.pendingSeq = s.seq + 1, !.ownHash = hash]

ReserveSyncSeq(s, hash) ==
    [s EXCEPT !.seq = s.seq + 1, !.pendingSeq = s.seq + 1,
              !.abandonedSeq = 0, !.ownHash = hash]

\* The reservation for a version: its key is pending until it is read back.
ReserveVersion(s, payload) ==
    [ReserveSyncSeq(s, payload) EXCEPT !.pendingKey = payload]

PendingRecord(s) == [seq |-> s.pendingSeq, payload |-> s.ownHash]

Oldest(recs) == {r \in recs : \A q \in recs : r.seq <= q.seq}

AppendWhileRoom(s, rec) ==  \* mutant: a full log drops the new record
    IF Cardinality(s.issued) = MaxIssued THEN s
    ELSE [s EXCEPT !.issued = s.issued \cup {rec}]

AppendIssued(s, rec) ==
    LET kept == IF Cardinality(s.issued) = MaxIssued
                THEN s.issued \ Oldest(s.issued) ELSE s.issued
    IN  [s EXCEPT !.issued = kept \cup {rec}]

\* AppendIssuedConfigRecord succeeds and adds the record (the idempotent
\* repeat of the newest record leaves the state as it is).
CanAppendIssued(s, rec) ==
    /\ s.pendingSeq # 0
    /\ rec = PendingRecord(s)
    /\ \A r \in s.issued : r.seq < rec.seq

\* What a complete inventory of the bound chat shows of this install.
Absent == [kind |-> "Absent", seq |-> 0, payload |-> NoPayload]
Observed(rec) == [kind |-> "Present", seq |-> rec.seq, payload |-> rec.payload]

CloneFree(s, obs) ==
    obs.kind = "Present" =>
        /\ obs.seq <= s.seq
        /\ obs.seq = s.seq => obs.payload = s.ownHash

\* ConfirmSyncReadBack and ConfirmConfigReadBack: the pending record was seen.
CanConfirm(s, obs, stagedKey) ==
    /\ obs.kind = "Present"
    /\ CloneFree(s, obs)
    /\ s.pendingSeq # 0
    /\ obs.seq = s.seq
    /\ s.pendingKey = stagedKey

ConfirmReadBack(s) ==
    [s EXCEPT !.confirmedSeq = s.seq, !.pendingSeq = 0,
              !.base = s.pendingKey, !.pendingKey = NoPayload]

AtId(s, id) == {m \in s.own : m.id = id}
Put(s, id, rec) ==
    [s EXCEPT !.own = (s.own \ AtId(s, id)) \cup {[id |-> id, rec |-> rec]}]

\* RecordConfirmedOwnConfigMessage: the message holds the confirmed record.
CanRecordConfirmed(s, id, rec) ==
    /\ s.confirmedSeq # 0
    /\ rec = [seq |-> s.confirmedSeq, payload |-> s.ownHash]
    /\ \A m \in AtId(s, id) : m.rec.seq < rec.seq \/ m.rec = rec
    /\ AtId(s, id) = {} => Cardinality(s.own) < MaxOwn

\* AdoptIssuedOwnConfigMessage: a copy of an issued record enters the ledger.
CanAdoptIssued(s, id, rec) ==
    /\ rec.seq <= s.confirmedSeq
    /\ rec \in s.issued
    /\ AtId(s, id) = {}
    /\ Cardinality(s.own) < MaxOwn

\* CheckOwnConfigMessageDeletion: the copy that may be deleted on the server.
CanDelete(s, id, rec) ==
    \E m \in AtId(s, id) : m.rec.seq < s.confirmedSeq /\ m.rec = rec

\* RemoveAbsentOwnConfigMessage: a copy known to be gone leaves the ledger.
CanRemoveAbsent(s, id) == \E m \in AtId(s, id) : m.rec.seq < s.confirmedSeq
RemoveWholeLedger(s, id) == [s EXCEPT !.own = {}]  \* mutant: erases every entry
RemoveAbsent(s, id) == [s EXCEPT !.own = s.own \ AtId(s, id)]

\* MoveSyncStateToChat: a pending stage is abandoned, then MoveSyncChat.
\* A key pending without a sequence refuses the move.
Abandon(s) ==
    IF s.pendingSeq = 0 THEN s
    ELSE [s EXCEPT !.version = 2, !.abandonedSeq = s.pendingSeq,
                   !.pendingSeq = 0, !.pendingKey = NoPayload]

MoveAndStartOver(s, chat) ==  \* mutant: numbering restarts in the new chat
    [FreshState EXCEPT !.version = 2, !.chat = chat]

MoveKeepingLedger(s, chat) ==  \* mutant: the ledger of the old chat is kept
    [Abandon(s) EXCEPT !.version = 2, !.chat = chat]

MoveToChat(s, chat) ==
    [Abandon(s) EXCEPT !.version = 2, !.chat = chat, !.own = {}]

CanMoveToChat(s, chat) ==
    /\ chat # s.chat
    /\ s.pendingSeq = 0 => s.pendingKey = NoPayload

\* SyncConfigAwaitsMovedPublish
AwaitsMovedPublish(s) == s.version = 2 /\ s.confirmedSeq # 0 /\ s.own = {}

---------------------------------------------------------------------------
(* ReconcileOwnConfigInventory: what a complete read of the messages msgs  *)
(* of this install in the bound chat amounts to.                           *)

Consistent(s, msgs, staged) ==
    /\ s.pendingSeq # 0 =>
         /\ staged = PendingRecord(s)
         /\ staged \in s.issued
    /\ \A m \in msgs : s.pendingSeq = m.rec.seq => m.rec = staged
    /\ \A m1, m2 \in msgs : m1.rec.seq = m2.rec.seq => m1.rec = m2.rec

Heads(msgs) ==
    LET newest == {m \in msgs : \A n \in msgs : n.rec.seq <= m.rec.seq}
    IN  {m \in newest : \A n \in newest : m.id <= n.id}

PendingCopies(s, msgs) ==
    LET copies == {m \in msgs : s.pendingSeq # 0 /\ m.rec.seq = s.pendingSeq}
    IN  {m \in copies : \A n \in copies : m.id <= n.id}

Observation(msgs) ==
    IF msgs = {} THEN Absent
    ELSE Observed((CHOOSE m \in msgs : m \in Heads(msgs)).rec)

---------------------------------------------------------------------------
(* PlanSyncPublish, one predicate per decision.  The observation comes     *)
(* from a complete read, the policy is enabled and the client is ready.    *)

InLedger(s, rec) == \E m \in s.own : m.rec = rec

\* None of the Pause returns that compare the server with the counters.
Expected(s, obs) ==
    /\ CloneFree(s, obs)
    /\ obs.kind = "Absent" => s.confirmedSeq = 0 \/ AwaitsMovedPublish(s)
    /\ obs.kind = "Present" =>
         /\ obs.seq \in {s.confirmedSeq, s.pendingSeq}
         /\ s.confirmedSeq = 0 => obs.seq = s.pendingSeq

RecOf(obs) == [seq |-> obs.seq, payload |-> obs.payload]

HeadKnown(s, obs) ==
    obs.kind = "Present" => InLedger(s, RecOf(obs))

\* SyncPublishAction::ReserveAndStage
MayReserve(s, obs, desired) ==
    /\ Expected(s, obs)
    /\ s.pendingSeq = 0
    /\ HeadKnown(s, obs)
    /\ s.confirmedSeq = 0 \/ s.abandonedSeq # 0 \/ desired # s.ownHash

\* SyncPublishAction::RetireCandidate: any older entry (the code takes the
\* first of the list).
RetireCandidates(s, obs) ==
    IF /\ Expected(s, obs) /\ HeadKnown(s, obs)
       /\ s.pendingSeq = 0 /\ s.confirmedSeq # 0 /\ s.abandonedSeq = 0
    THEN {m \in s.own : m.rec.seq < s.confirmedSeq}
    ELSE {}

\* The pending record may be sent: it is staged, issued and not seen on the
\* server.  Both callers, PlanSyncConfigStagedPost and the automatic policy,
\* pass ReconciledAbsent as the attempt, having just read the chat.
MaySend(s, obs, staged) ==
    /\ Expected(s, obs)
    /\ s.pendingSeq # 0
    /\ \E r \in s.issued : r.seq = s.pendingSeq /\ r = staged
    /\ obs.kind = "Present" => obs.seq # s.pendingSeq /\ InLedger(s, RecOf(obs))

\* SyncPublishAction::Post; edits = editEnabled and not editRefused.
MayPost(s, obs, staged, edits) ==
    /\ MaySend(s, obs, staged)
    /\ obs.kind = "Absent" \/ ~edits

\* SyncPublishAction::Edit of ledger entry m, which is the head just read.
MayEdit(s, obs, staged, edits, m) ==
    /\ MaySend(s, obs, staged)
    /\ obs.kind = "Present"
    /\ edits
    /\ m \in s.own
    /\ m.rec = RecOf(obs)
    /\ m.rec.seq = s.confirmedSeq
=============================================================================
