------------------------- MODULE SyncLedgerProofs -------------------------
(***************************************************************************)
(* What holds of SyncLedger for every set of payloads and chats and every  *)
(* bound.  TypeOK, StateSerializes, StageIsPending and OneRecordPerSeq are *)
(* inductive together: a reservation needs the counters to know that its   *)
(* number is new, a move needs the staged record to be in the issued log   *)
(* to leave a state that serializes, and the log keeps the staged record   *)
(* because it evicts its oldest entry first.                               *)
(*                                                                         *)
(* No request, however late it is applied, takes away the record the       *)
(* install is confirmed with: HeadPublished, DeletionKeepsHead and         *)
(* FreshChatUnpublished.  HInv says what makes this so.  Message ids are   *)
(* not used again, so a late deletion or edit meets the message it was     *)
(* meant for or none.  A deletion that may still be applied names a record *)
(* older than the confirmed one, and a message no deletion names is at     *)
(* least as new; an edit makes its message newer and no deletion names     *)
(* that message; and nothing is in, or on its way to, a chat never bound.  *)
(***************************************************************************)
EXTENDS SyncLedger, SyncLocalStateProofs

\* ReadStream takes a state with seq 0 and a larger confirmedSeq for a valid
\* one, as an abandoned_seq of 0 then equals seq; no operation produces it.
ConfirmedReserved == st.confirmedSeq <= st.seq

IInv ==
    /\ TypeOK
    /\ StateSerializes
    /\ ConfirmedReserved
    /\ StageIsPending
    /\ OneRecordPerSeq

---------------------------------------------------------------------------
(* Lemmas on the records that are written somewhere.                       *)

\* Everything that is written somewhere is a record.
LEMMA WrittenType ==
  ASSUME TypeOK
  PROVE  Written \subseteq Record
<1>1. \A q \in Requests : q.rec \in Record
  BY DEF TypeOK, Requests, Request
<1>2. \A c \in Chats : \A m \in cloud[c] : m.rec \in Record
  BY DEF TypeOK, Message
<1>3. /\ \A m \in st.own \cup view.msgs : m.rec \in Record
      /\ st.issued \subseteq Record
      /\ {staged} \ {NoRecord} \subseteq Record
  BY DEF TypeOK, LocalState, Message
<1> QED
  BY <1>1, <1>2, <1>3 DEF Written

\* A step that writes no new record, or none but the one of the number it
\* reserves, gives no number to two records.
LEMMA NothingNewWritten ==
  ASSUME TypeOK, OneRecordPerSeq, Written' \subseteq Written, st'.seq = st.seq
  PROVE  OneRecordPerSeq'
BY DEF OneRecordPerSeq

\* A reservation writes the record of the new number and nothing else.
LEMMA ReservedWritten ==
  ASSUME TypeOK, OneRecordPerSeq, NEW rec, rec \in Record,
         Written' \subseteq Written \cup {rec},
         st'.seq = st.seq + 1, rec.seq = st.seq + 1
  PROVE  OneRecordPerSeq'
<1>1. Written \subseteq Record /\ st.seq \in Nat
  BY WrittenType DEF TypeOK, LocalState
<1>2. \A r \in Written' : r.seq <= st'.seq
  BY <1>1 DEF OneRecordPerSeq, Record
<1>3. \A r1, r2 \in Written' : r1.seq = r2.seq => r1 = r2
  BY <1>1 DEF OneRecordPerSeq, Record
<1> QED
  BY <1>2, <1>3 DEF OneRecordPerSeq

\* A step that leaves the durable files alone.
LEMMA FilesUntouched ==
  ASSUME IInv, UNCHANGED <<st, staged>>, TypeOK', Written' \subseteq Written
  PROVE  IInv'
<1>1. OneRecordPerSeq'
  BY NothingNewWritten DEF IInv
<1>2. StateSerializes' /\ ConfirmedReserved' /\ StageIsPending'
  BY DEF IInv, StateSerializes, ConfirmedReserved, StageIsPending
<1> QED
  BY <1>1, <1>2 DEF IInv

\* What a request does to the chats.
LEMMA EffectWrites ==
  ASSUME TypeOK, NEW q \in Request, Effect(q)
  PROVE  /\ cloud' \in [Chats -> SUBSET Message]
         /\ nextId' \in [Chats -> Nat \ {0}]
         /\ \A c \in Chats : \A m \in cloud'[c] : m \in cloud[c] \/ m.rec = q.rec
<1>1. CASE q.kind = "post"
  <2>1. /\ cloud' = [cloud EXCEPT ![q.chat] =
                        @ \cup {[id |-> nextId[q.chat], rec |-> q.rec]}]
        /\ nextId' = [nextId EXCEPT ![q.chat] = @ + 1]
    BY <1>1 DEF Effect
  <2>2. [id |-> nextId[q.chat], rec |-> q.rec] \in Message
    BY DEF TypeOK, Request, Message
  <2>3. nextId[q.chat] + 1 \in Nat \ {0}
    BY DEF TypeOK, Request
  <2> QED
    BY <2>1, <2>2, <2>3 DEF TypeOK, Request
<1>2. CASE q.kind = "edit"
  <2>1. /\ cloud' = [cloud EXCEPT ![q.chat] =
                       {m \in @ : m.id # q.id} \cup {[id |-> q.id, rec |-> q.rec]}]
        /\ nextId' = nextId
        /\ \E m \in cloud[q.chat] : m.id = q.id
    BY <1>2 DEF Effect
  <2>2. [id |-> q.id, rec |-> q.rec] \in Message
    BY <2>1 DEF TypeOK, Request, Message
  <2> QED
    BY <2>1, <2>2 DEF TypeOK, Request
<1>3. CASE q.kind = "delete"
  <2>1. /\ cloud' = [cloud EXCEPT ![q.chat] = {m \in @ : m.id # q.id}]
        /\ nextId' = nextId
    BY <1>3 DEF Effect
  <2> QED
    BY <2>1 DEF TypeOK, Request
<1> QED
  BY <1>1, <1>2, <1>3 DEF Request, Kinds

---------------------------------------------------------------------------
(* Every step preserves the invariant, one lemma per action.               *)

\* A read changes no durable file and sees only what is in the chat.
LEMMA ReadStep ==
  ASSUME IInv, Read
  PROVE  IInv'
<1>1. TypeOK'
  <2>1. st.chat \in Chats
    BY DEF IInv, TypeOK, LocalState
  <2>2. orphans' \subseteq Request
    BY DEF Read, IInv, TypeOK
  <2> QED
    BY <2>1, <2>2 DEF IInv, TypeOK, Read, server
<1>2. Written' \subseteq Written
  <2>1. /\ view'.msgs = cloud[st.chat] /\ st.chat \in Chats
        /\ orphans' \subseteq orphans
        /\ request' = request /\ st' = st /\ staged' = staged /\ cloud' = cloud
    BY DEF Read, server, IInv, TypeOK, LocalState
  <2> QED
    BY <2>1 DEF Written, Requests
<1> QED
  BY <1>1, <1>2, FilesUntouched DEF Read

\* The number a reservation takes is above every number written so far.
LEMMA ReserveStep ==
  ASSUME IInv, NEW p \in Payloads, ReserveAndStage(p)
  PROVE  IInv'
<1> DEFINE r == ReserveVersion(st, p)
           rec == PendingRecord(r)
<1>1. /\ st.pendingSeq = 0 /\ CanReserve(st)
      /\ st' = AppendIssued(r, rec) /\ staged' = rec /\ view' = NoView
      /\ UNCHANGED <<request, orphans, cloud, nextId, left>>
  BY DEF ReserveAndStage, MayReserve, server
<1>2. st \in LocalState /\ Serializes(st) /\ st.confirmedSeq <= st.seq
  BY DEF IInv, TypeOK, StateSerializes, ConfirmedReserved
<1>3. /\ rec \in Record /\ rec.seq = st.seq + 1
      /\ st' \in LocalState
      /\ Serializes(st')
      /\ rec \in st'.issued
      /\ st'.issued \subseteq st.issued \cup {rec}
      /\ st'.own = st.own
      /\ st'.confirmedSeq = st.confirmedSeq
      /\ st'.seq = st.seq + 1
      /\ st'.pendingSeq = st.seq + 1
      /\ st'.ownHash = p
      /\ st'.pendingKey = p
  <2> HIDE DEF r, rec
  <2> QED
    BY <1>1, <1>2, ReserveSerializes DEF r, rec
<1>4. rec = PendingRecord(st')
  BY <1>1 DEF PendingRecord, ReserveVersion, ReserveSyncSeq, AppendIssued, IInv, TypeOK, LocalState
<1> HIDE DEF r, rec
<1>5. TypeOK'
  BY <1>1, <1>3 DEF IInv, TypeOK, NoView
<1>6. StateSerializes' /\ ConfirmedReserved'
  BY <1>2, <1>3 DEF StateSerializes, ConfirmedReserved, LocalState
<1>7. StageIsPending'
  BY <1>1, <1>2, <1>3, <1>4 DEF StageIsPending, LocalState
<1>8. Written' \subseteq Written \cup {rec}
  BY <1>1, <1>3 DEF Written, Requests, NoView
<1>9. OneRecordPerSeq'
  BY <1>3, <1>8, ReservedWritten DEF IInv
<1> QED
  BY <1>5, <1>6, <1>7, <1>9 DEF IInv

\* A request carries the staged record or an entry of the ledger.
LEMMA SendStep ==
  ASSUME IInv, Idle, NEW kind \in Kinds, NEW id \in Nat, NEW rec \in Record \cap Written,
         Send(kind, id, rec)
  PROVE  IInv'
<1> DEFINE q == [kind |-> kind, chat |-> st.chat, id |-> id, rec |-> rec]
<1>1. /\ q \in Request /\ request' = q /\ view' = NoView
      /\ UNCHANGED <<st, staged, orphans, cloud, nextId, left>>
  BY DEF Send, server, Request, IInv, TypeOK, LocalState
<1>2. TypeOK'
  BY <1>1 DEF IInv, TypeOK, NoView
<1>3. Written' \subseteq Written
  <2>1. Requests' \subseteq Requests \cup {q} /\ q.rec \in Written
    BY <1>1 DEF Requests
  <2> HIDE DEF q
  <2> QED
    BY <1>1, <2>1 DEF Written, NoView
<1> QED
  BY <1>1, <1>2, <1>3, FilesUntouched

\* What may be sent is the staged record, which is written already.
LEMMA StagedWritten ==
  ASSUME IInv, MaySend(st, Observation(view.msgs), staged)
  PROVE  staged \in Record \cap Written
BY DEF IInv, StageIsPending, MaySend, TypeOK, LocalState, Written

\* Posting asks for nothing but the staged record.
LEMMA PostStep ==
  ASSUME IInv, NEW edits \in BOOLEAN, Post(edits)
  PROVE  IInv'
<1>1. Idle /\ Send("post", 0, staged) /\ staged \in Record \cap Written
  BY StagedWritten DEF Post, Reviewed, MayPost
<1> QED
  BY <1>1, SendStep DEF Kinds

\* An edit carries the staged record to a message of the ledger.
LEMMA EditStep ==
  ASSUME IInv, NEW m \in view.msgs, Edit(m)
  PROVE  IInv'
<1>1. Idle /\ Send("edit", m.id, staged) /\ staged \in Record \cap Written
  BY StagedWritten DEF Edit, Reviewed, MayEdit
<1>2. m.id \in Nat
  BY DEF IInv, TypeOK, Message
<1> QED
  BY <1>1, <1>2, SendStep DEF Kinds

\* A deletion names an entry of the ledger.
LEMMA RetireStep ==
  ASSUME IInv, NEW m \in st.own, Retire(m)
  PROVE  IInv'
<1>1. Idle /\ Send("delete", m.id, m.rec)
  BY DEF Retire, Reviewed
<1>2. m.id \in Nat /\ m.rec \in Record \cap Written
  BY DEF IInv, TypeOK, LocalState, Message, Written
<1> QED
  BY <1>1, <1>2, SendStep DEF Kinds

\* Confirming turns the pending number into the confirmed one and clears the stage.
LEMMA ConfirmStep ==
  ASSUME IInv, NEW m \in view.msgs, Confirm(m)
  PROVE  IInv'
<1>1. /\ st.pendingSeq # 0
      /\ CanRecordConfirmed(ConfirmReadBack(st), m.id, m.rec)
      /\ st' = Put(ConfirmReadBack(st), m.id, m.rec)
      /\ staged' = NoRecord /\ view' = NoView
      /\ UNCHANGED <<request, orphans, cloud, nextId, left>>
  BY DEF Confirm, CanConfirm, server
<1>2. /\ st \in LocalState /\ Serializes(st)
      /\ m \in Message /\ m.id \in Nat \ {0} /\ m.rec \in Record
      /\ [id |-> m.id, rec |-> m.rec] = m
  BY DEF IInv, TypeOK, StateSerializes, Message
<1>3. /\ st' \in LocalState
      /\ Serializes(st')
      /\ st'.own \subseteq st.own \cup {m}
      /\ st'.issued = st.issued
      /\ st'.seq = st.seq
      /\ st'.confirmedSeq = st.seq
      /\ st'.pendingSeq = 0
      /\ st'.pendingKey = NoPayload
  BY <1>1, <1>2, ConfirmSerializes
<1>4. TypeOK'
  BY <1>1, <1>3 DEF IInv, TypeOK, NoView
<1>5. StateSerializes' /\ ConfirmedReserved' /\ StageIsPending'
  BY <1>1, <1>2, <1>3 DEF StateSerializes, ConfirmedReserved, StageIsPending, LocalState
<1>6. Written' \subseteq Written
  BY <1>1, <1>3 DEF Written, Requests, NoView
<1>7. OneRecordPerSeq'
  BY <1>3, <1>6, NothingNewWritten DEF IInv
<1> QED
  BY <1>4, <1>5, <1>7 DEF IInv

\* An adopted copy is one of an issued record, so it writes nothing new.
LEMMA AdoptStep ==
  ASSUME IInv, NEW m \in view.msgs, AdoptCopy(m)
  PROVE  IInv'
<1>1. /\ CanAdoptIssued(st, m.id, m.rec)
      /\ st' = Put(st, m.id, m.rec) /\ view' = NoView
      /\ UNCHANGED <<staged, request, orphans, cloud, nextId, left>>
  BY DEF AdoptCopy, server
<1>2. /\ st \in LocalState /\ Serializes(st)
      /\ m \in Message /\ m.id \in Nat \ {0} /\ m.rec \in Record
      /\ [id |-> m.id, rec |-> m.rec] = m
  BY DEF IInv, TypeOK, StateSerializes, Message
<1>3. /\ st' \in LocalState
      /\ Serializes(st')
      /\ st'.own \subseteq st.own \cup {m}
      /\ st'.issued = st.issued
      /\ st'.seq = st.seq
      /\ st'.confirmedSeq = st.confirmedSeq
      /\ st'.pendingSeq = st.pendingSeq
      /\ st'.ownHash = st.ownHash
      /\ st'.pendingKey = st.pendingKey
  BY <1>1, <1>2, AdoptSerializes
<1>4. TypeOK'
  BY <1>1, <1>3 DEF IInv, TypeOK, NoView
<1>5. StateSerializes' /\ ConfirmedReserved' /\ StageIsPending'
  BY <1>1, <1>3 DEF IInv, StateSerializes, ConfirmedReserved, StageIsPending,
     PendingRecord
<1>6. Written' \subseteq Written
  BY <1>1, <1>3 DEF Written, Requests, NoView
<1>7. OneRecordPerSeq'
  BY <1>3, <1>6, NothingNewWritten DEF IInv
<1> QED
  BY <1>4, <1>5, <1>7 DEF IInv

\* Dropping an entry that is gone from the chat only shrinks the ledger.
LEMMA DropStep ==
  ASSUME IInv, NEW m \in st.own, DropGone(m)
  PROVE  IInv'
<1>1. /\ st' = RemoveAbsent(st, m.id) /\ view' = NoView
      /\ UNCHANGED <<staged, request, orphans, cloud, nextId, left>>
  BY DEF DropGone, server
<1>2. st \in LocalState /\ Serializes(st)
  BY DEF IInv, TypeOK, StateSerializes
<1>3. /\ st' \in LocalState
      /\ Serializes(st')
      /\ st'.own \subseteq st.own
      /\ st'.issued = st.issued
      /\ st'.seq = st.seq
      /\ st'.confirmedSeq = st.confirmedSeq
      /\ st'.pendingSeq = st.pendingSeq
      /\ st'.ownHash = st.ownHash
      /\ st'.pendingKey = st.pendingKey
  BY <1>1, <1>2, RemoveSerializes
<1>4. TypeOK'
  BY <1>1, <1>3 DEF IInv, TypeOK, NoView
<1>5. StateSerializes' /\ ConfirmedReserved' /\ StageIsPending'
  BY <1>1, <1>3 DEF IInv, StateSerializes, ConfirmedReserved, StageIsPending,
     PendingRecord
<1>6. Written' \subseteq Written
  BY <1>1, <1>3 DEF Written, Requests, NoView
<1>7. OneRecordPerSeq'
  BY <1>3, <1>6, NothingNewWritten DEF IInv
<1> QED
  BY <1>4, <1>5, <1>7 DEF IInv

\* The stage a move abandons is in the issued log, so the abandoned number is.
LEMMA MoveStep ==
  ASSUME IInv, NEW c \in Chats, Move(c)
  PROVE  IInv'
<1>1. /\ CanMoveToChat(st, c)
      /\ st' = MoveToChat(st, c)
      /\ left' = left \cup {st.chat}
      /\ staged' = NoRecord /\ view' = NoView
      /\ orphans' = Requests /\ request' = NoRequest
      /\ UNCHANGED <<cloud, nextId>>
  BY DEF Move, Requests, server
<1>2. /\ st \in LocalState /\ Serializes(st)
      /\ st.pendingSeq # 0 => \E r \in st.issued : r.seq = st.pendingSeq
  BY DEF IInv, TypeOK, StateSerializes, StageIsPending, PendingRecord
<1>3. /\ st' \in LocalState
      /\ Serializes(st')
      /\ st'.own = {}
      /\ st'.issued = st.issued
      /\ st'.seq = st.seq
      /\ st'.confirmedSeq = st.confirmedSeq
      /\ st'.pendingSeq = 0
      /\ st'.pendingKey = NoPayload
  BY <1>1, <1>2, MoveSerializes
<1>4. Requests \subseteq Request /\ st.chat \in Chats
  BY DEF IInv, TypeOK, Requests, LocalState
<1>5. TypeOK'
  BY <1>1, <1>3, <1>4 DEF IInv, TypeOK, NoView
<1>6. StateSerializes' /\ ConfirmedReserved' /\ StageIsPending'
  BY <1>1, <1>3 DEF IInv, StateSerializes, ConfirmedReserved, StageIsPending,
     PendingRecord
<1>7. Requests' = Requests
  BY <1>1 DEF Requests
<1>8. Written' \subseteq Written
  BY <1>1, <1>3, <1>7 DEF Written, NoView
<1>9. OneRecordPerSeq'
  BY <1>3, <1>8, NothingNewWritten DEF IInv
<1> QED
  BY <1>5, <1>6, <1>9 DEF IInv

\* A crash keeps the durable files; a running request becomes an orphan.
LEMMA CrashStep ==
  ASSUME IInv, Crash
  PROVE  IInv'
<1>1. /\ orphans' = Requests /\ request' = NoRequest /\ view' = NoView
      /\ UNCHANGED <<st, staged, cloud, nextId, left>>
  BY DEF Crash, Requests, server
<1>2. Requests \subseteq Request
  BY DEF IInv, TypeOK, Requests
<1>3. TypeOK'
  BY <1>1, <1>2 DEF IInv, TypeOK, NoView
<1>4. Requests' = Requests
  BY <1>1 DEF Requests
<1>5. Written' \subseteq Written
  BY <1>1, <1>4 DEF Written, NoView
<1> QED
  BY <1>1, <1>3, <1>5, FilesUntouched

\* The server applies or drops a request of this or an earlier session.
LEMMA ServerStep ==
  ASSUME IInv, NEW q \in Requests,
         \/ Effect(q)
         \/ UNCHANGED server,
         \/ request = q /\ request' = NoRequest /\ orphans' = orphans
         \/ q \in orphans /\ orphans' = orphans \ {q} /\ request' = request,
         UNCHANGED client
  PROVE  IInv'
<1>1. q \in Request /\ q.rec \in Written
  BY DEF IInv, TypeOK, Requests, Written
<1>2. /\ cloud' \in [Chats -> SUBSET Message]
      /\ nextId' \in [Chats -> Nat \ {0}]
      /\ \A c \in Chats : \A m \in cloud'[c] : m \in cloud[c] \/ m.rec = q.rec
  BY <1>1, EffectWrites DEF server, IInv, TypeOK
<1>3. UNCHANGED <<st, staged, view, left>>
  BY DEF client
<1>4. TypeOK'
  BY <1>2, <1>3 DEF IInv, TypeOK
<1>5. Requests' \subseteq Requests
  BY DEF Requests
<1>6. Written' \subseteq Written
  BY <1>1, <1>2, <1>3, <1>5 DEF Written
<1> QED
  BY <1>3, <1>4, <1>6, FilesUntouched

---------------------------------------------------------------------------
(* The theorems.                                                           *)

\* A fresh install satisfies the invariant.
LEMMA InitInv == Init => IInv
<1> SUFFICES ASSUME Init PROVE IInv
  OBVIOUS
<1> USE LocalStateAssumption DEF Init, FreshState
<1>1. TypeOK
  BY DEF TypeOK, LocalState, NoView, Message
<1>2. StateSerializes /\ ConfirmedReserved /\ StageIsPending
  BY FS_EmptySet DEF StateSerializes, Serializes, CountersValid, IssuedValid,
     OwnValid, ChatValid, ConfirmedReserved, StageIsPending
<1>3. Written = {}
  BY DEF Written, Requests, NoView
<1> QED
  BY <1>1, <1>2, <1>3 DEF IInv, OneRecordPerSeq

\* Every step of the client and of the server preserves the invariant.
LEMMA StepInv == IInv /\ [Next]_vars => IInv'
<1> SUFFICES ASSUME IInv, [Next]_vars PROVE IInv'
  OBVIOUS
<1>1. CASE Read
  BY <1>1, ReadStep
<1>2. CASE \E p \in Payloads : ReserveAndStage(p)
  BY <1>2, ReserveStep
<1>3. CASE \E edits \in BOOLEAN : Post(edits)
  BY <1>3, PostStep
<1>4. CASE \E m \in view.msgs : Edit(m)
  BY <1>4, EditStep
<1>5. CASE \E m \in view.msgs : Confirm(m)
  BY <1>5, ConfirmStep
<1>6. CASE \E m \in st.own : Retire(m)
  BY <1>6, RetireStep
<1>7. CASE \E m \in st.own : DropGone(m)
  BY <1>7, DropStep
<1>8. CASE \E m \in view.msgs : AdoptCopy(m)
  BY <1>8, AdoptStep
<1>9. CASE \E c \in Chats : Move(c)
  BY <1>9, MoveStep
<1>10. CASE Crash
  BY <1>10, CrashStep
<1>11. CASE Apply \/ Lose
  <2>1. request \in Requests /\ request' = NoRequest /\ UNCHANGED <<client, orphans>>
    BY <1>11 DEF Apply, Lose, Requests
  <2>2. Effect(request) \/ UNCHANGED server
    BY <1>11 DEF Apply, Lose
  <2> QED
    BY <2>1, <2>2, ServerStep
<1>12. CASE \E o \in orphans : ApplyOrphan(o) \/ LoseOrphan(o)
  <2>1. PICK o \in orphans : ApplyOrphan(o) \/ LoseOrphan(o)
    BY <1>12
  <2>2. o \in Requests /\ UNCHANGED <<client, request>> /\ orphans' = orphans \ {o}
    BY <2>1 DEF ApplyOrphan, LoseOrphan, Requests
  <2>3. Effect(o) \/ UNCHANGED server
    BY <2>1 DEF ApplyOrphan, LoseOrphan
  <2> QED
    BY <2>2, <2>3, ServerStep
<1>13. CASE UNCHANGED vars
  <2>1. UNCHANGED <<st, staged, view, request, orphans, cloud, nextId, left>>
    BY <1>13 DEF vars
  <2>2. TypeOK' /\ Written' = Written
    BY <2>1 DEF IInv, TypeOK, Written, Requests
  <2> QED
    BY <2>1, <2>2, FilesUntouched
<1> QED
  BY <1>1, <1>2, <1>3, <1>4, <1>5, <1>6, <1>7, <1>8, <1>9, <1>10, <1>11,
     <1>12, <1>13 DEF Next

\* The invariant holds in every reachable state.
LEMMA Invariance == Spec => []IInv
<1> QED
  BY InitInv, StepInv, PTL DEF Spec

\* The variables keep their types.
THEOREM TypeCorrect == Spec => []TypeOK
BY Invariance, PTL DEF IInv

\* Whatever the operations are asked in whatever order, the state file they
\* leave behind is one the client reads at its next start.
THEOREM StateAlwaysSerializes == Spec => []StateSerializes
BY Invariance, PTL DEF IInv

\* The staged file and the reserved sequence stand or fall together, for every
\* size of the issued log.
THEOREM StageAlwaysPending == Spec => []StageIsPending
BY Invariance, PTL DEF IInv

\* No sequence number is ever given to two records, whatever is lost, applied
\* late, abandoned or moved.
THEOREM SequencesNeverReused == Spec => []OneRecordPerSeq
BY Invariance, PTL DEF IInv
---------------------------------------------------------------------------
(* The head of a chat, with HInv.                                          *)

Sent(kind) == {q \in Requests : q.kind = kind}

\* Ids are never used again, and a request names one that was used.
IdsUsed ==
    /\ \A c \in Chats :
         /\ IsFiniteSet(cloud[c])
         /\ \A m \in cloud[c] : m.id < nextId[c]
         /\ \A m, n \in cloud[c] : m.id = n.id => m = n
    /\ \A q \in Sent("edit") \cup Sent("delete") : q.id < nextId[q.chat]

\* What a view still says of the chat when it is used: only deletions and new
\* messages came in between.
ViewSound ==
    /\ ~view.known => view.msgs = {}
    /\ view.known =>
         /\ IsFiniteSet(view.msgs)
         /\ Sent("edit") = {}
         /\ \A m \in view.msgs :
              /\ m.id < nextId[st.chat]
              /\ \A n \in cloud[st.chat] : n.id = m.id => n = m
              /\ m.rec.seq >= st.confirmedSeq => m \in cloud[st.chat]

\* One edit at most is on its way, it makes its message newer, and it does not
\* meet a deletion.
EditsRaise ==
    /\ \A e1, e2 \in Sent("edit") : e1 = e2
    /\ request \in Sent("edit") => request \notin orphans
    /\ \A e \in Sent("edit") : \A m \in cloud[e.chat] :
         m.id = e.id =>
           /\ m.rec.seq < e.rec.seq
           /\ \A q \in Sent("delete") : q.chat = e.chat => q.id # e.id

\* The messages of a chat no deletion may still take away.
Kept(c) == {n \in cloud[c] : \A q \in Sent("delete") : q.chat = c => q.id # n.id}

DeletesOld ==
    \A q \in Sent("delete") : \A m \in cloud[q.chat] :
      m.id = q.id =>
        /\ m.rec.seq < st.confirmedSeq
        /\ \E n \in Kept(q.chat) : n.rec.seq >= m.rec.seq

UnboundUntouched ==
    \A c \in Chats \ (left \cup {st.chat}) :
      cloud[c] = {} /\ \A q \in Requests : q.chat # c

HeadInLedger ==
    st.chat \notin left /\ st.confirmedSeq # 0 /\ ~AwaitsMovedPublish(st) =>
      \E m \in st.own : m.rec.seq = st.confirmedSeq

OnlyNewerThere ==
    st.chat \notin left /\ AwaitsMovedPublish(st) =>
      /\ \A m \in cloud[st.chat] \cup view.msgs : m.rec.seq > st.confirmedSeq
      /\ \A q \in Requests : q.chat = st.chat => q.rec.seq > st.confirmedSeq

HInv ==
    /\ IdsUsed /\ ViewSound /\ EditsRaise /\ DeletesOld /\ UnboundUntouched
    /\ HeadInLedger /\ OnlyNewerThere /\ HeadPublished

---------------------------------------------------------------------------
(* What the client concludes from a view.                                  *)

\* A head that is the confirmed record is still in the chat and no deletion
\* names it.
LEMMA ConfirmedHeadKept ==
  ASSUME IInv, HInv, view.known, NEW h \in view.msgs, h.rec.seq >= st.confirmedSeq
  PROVE  h \in Kept(st.chat)
<1>1. h \in cloud[st.chat]
  BY DEF HInv, ViewSound
<1>2. \A q \in Sent("delete") : q.chat = st.chat => q.id # h.id
  <2>1. SUFFICES ASSUME NEW q \in Sent("delete"), q.chat = st.chat, q.id = h.id
                 PROVE FALSE
    OBVIOUS
  <2>2. h.rec.seq < st.confirmedSeq
    BY <1>1, <2>1 DEF HInv, DeletesOld
  <2>3. h.rec.seq \in Nat /\ st.confirmedSeq \in Nat
    BY DEF IInv, TypeOK, LocalState, Message, Record
  <2> QED
    BY <2>2, <2>3
<1> QED
  BY <1>1, <1>2 DEF Kept

---------------------------------------------------------------------------
(* The invariant is kept, one lemma per kind of step.                      *)

\* Steps that leave the chats, the confirmed record and the binding alone and
\* send nothing.
LEMMA QuietStep ==
  ASSUME IInv, HInv, UNCHANGED <<cloud, nextId, left>>,
         Requests' \subseteq Requests,
         request' = request \/ request' = NoRequest,
         request' = request => orphans' \subseteq orphans,
         view' = NoView \/ view' = view,
         st'.chat = st.chat, st'.confirmedSeq = st.confirmedSeq,
         st.chat \notin left => (AwaitsMovedPublish(st') <=> AwaitsMovedPublish(st)),
         HeadInLedger'
  PROVE  HInv'
<1>1. Sent("edit")' \subseteq Sent("edit") /\ Sent("delete")' \subseteq Sent("delete")
  BY DEF Sent
<1>2. IdsUsed'
  BY <1>1 DEF HInv, IdsUsed
<1>3. ViewSound'
  BY <1>1 DEF HInv, ViewSound, NoView
<1>4. EditsRaise'
  <2>1. NoRequest \notin Sent("edit")'
    BY DEF Sent, NoRequest
  <2> QED
    BY <1>1, <2>1 DEF HInv, EditsRaise
<1>5. \A c \in Chats : Kept(c) \subseteq Kept(c)'
  BY <1>1 DEF Kept
<1>6. DeletesOld'
  <2>1. \A q \in Sent("delete") : q.chat \in Chats
    BY DEF Sent, Requests, IInv, TypeOK, Request
  <2> QED
    BY <1>1, <1>5, <2>1 DEF HInv, DeletesOld
<1>7. UnboundUntouched'
  BY DEF HInv, UnboundUntouched
<1>8. OnlyNewerThere'
  <2>1. SUFFICES ASSUME st.chat \notin left, AwaitsMovedPublish(st')
                 PROVE  /\ \A m \in (cloud[st.chat] \cup view.msgs)' : m.rec.seq > st.confirmedSeq
                        /\ \A q \in Requests' : q.chat = st.chat => q.rec.seq > st.confirmedSeq
    BY DEF OnlyNewerThere
  <2>2. /\ \A m \in cloud[st.chat] \cup view.msgs : m.rec.seq > st.confirmedSeq
        /\ \A q \in Requests : q.chat = st.chat => q.rec.seq > st.confirmedSeq
    BY <2>1 DEF HInv, OnlyNewerThere
  <2>3. view'.msgs \subseteq view.msgs
    BY DEF NoView
  <2> QED
    BY <2>2, <2>3
<1>9. HeadPublished'
  BY DEF HInv, HeadPublished
<1> QED
  BY <1>2, <1>3, <1>4, <1>6, <1>7, <1>8, <1>9 DEF HInv

\* A complete fresh read: no edit of a dead session is applied after it.
LEMMA ReadHead ==
  ASSUME IInv, HInv, Read
  PROVE  HInv'
<1>1. /\ view' = [known |-> TRUE, msgs |-> cloud[st.chat]]
      /\ orphans' = {o \in orphans : o.kind # "edit"}
      /\ request = NoRequest /\ request' = NoRequest
      /\ UNCHANGED <<st, staged, cloud, nextId, left>>
      /\ st.chat \in Chats
  BY DEF Read, Idle, server, IInv, TypeOK, LocalState
<1>2. /\ Requests' \subseteq Requests
      /\ Sent("edit")' = {}
      /\ Sent("delete")' \subseteq Sent("delete")
  BY <1>1 DEF Requests, Sent
<1>3. IdsUsed'
  BY <1>1, <1>2 DEF HInv, IdsUsed
<1>4. ViewSound'
  BY <1>1, <1>2 DEF HInv, ViewSound, IdsUsed
<1>5. EditsRaise'
  BY <1>2 DEF EditsRaise
<1>6. DeletesOld'
  <2>1. \A q \in Sent("delete") : q.chat \in Chats
    BY DEF Sent, Requests, IInv, TypeOK, Request
  <2>2. \A c \in Chats : Kept(c) \subseteq Kept(c)'
    BY <1>1, <1>2 DEF Kept
  <2> QED
    BY <1>1, <1>2, <2>1, <2>2 DEF HInv, DeletesOld
<1>7. UnboundUntouched'
  BY <1>1, <1>2 DEF HInv, UnboundUntouched
<1>8. OnlyNewerThere' /\ HeadInLedger' /\ HeadPublished'
  BY <1>1, <1>2 DEF HInv, OnlyNewerThere, HeadInLedger, HeadPublished
<1> QED
  BY <1>3, <1>4, <1>5, <1>6, <1>7, <1>8 DEF HInv

\* A reservation confirms nothing and sends nothing.
LEMMA ReserveHead ==
  ASSUME IInv, HInv, NEW p \in Payloads, ReserveAndStage(p)
  PROVE  HInv'
<1>1. /\ st' = AppendIssued(ReserveVersion(st, p), PendingRecord(ReserveVersion(st, p)))
      /\ view' = NoView
      /\ UNCHANGED <<request, orphans, cloud, nextId, left>>
  BY DEF ReserveAndStage, server
<1>2. /\ st'.chat = st.chat /\ st'.confirmedSeq = st.confirmedSeq
      /\ st'.own = st.own /\ st'.version = st.version
  <2>1. st \in LocalState
    BY DEF IInv, TypeOK
  <2> QED
    BY <1>1, <2>1 DEF AppendIssued, ReserveVersion, ReserveSyncSeq, LocalState
<1>3. AwaitsMovedPublish(st') <=> AwaitsMovedPublish(st)
  BY <1>2 DEF AwaitsMovedPublish
<1>4. HeadInLedger'
  BY <1>1, <1>2, <1>3 DEF HInv, HeadInLedger
<1>5. Requests' = Requests
  BY <1>1 DEF Requests
<1> QED
  BY <1>1, <1>2, <1>3, <1>4, <1>5, QuietStep

\* An adopted copy is not newer than the confirmed record, so there is none to
\* adopt while the first publish after a move is awaited.
LEMMA AdoptHead ==
  ASSUME IInv, HInv, NEW m \in view.msgs, AdoptCopy(m)
  PROVE  HInv'
<1>1. /\ CanAdoptIssued(st, m.id, m.rec)
      /\ st' = Put(st, m.id, m.rec) /\ view' = NoView
      /\ UNCHANGED <<request, orphans, cloud, nextId, left>>
  BY DEF AdoptCopy, server
<1>2. /\ st'.chat = st.chat /\ st'.confirmedSeq = st.confirmedSeq
      /\ st'.version = st.version
      /\ st.own \subseteq st'.own /\ st'.own # {}
  <2>1. st \in LocalState
    BY DEF IInv, TypeOK
  <2> QED
    BY <1>1, <2>1 DEF Put, LocalState, CanAdoptIssued
<1>3. st.chat \notin left => ~AwaitsMovedPublish(st)
  <2>1. m.rec.seq <= st.confirmedSeq /\ m.rec.seq \in Nat /\ st.confirmedSeq \in Nat
    BY <1>1 DEF CanAdoptIssued, IInv, TypeOK, LocalState, Message, Record
  <2> QED
    BY <2>1 DEF HInv, OnlyNewerThere
<1>4. st.chat \notin left => (AwaitsMovedPublish(st') <=> AwaitsMovedPublish(st))
  BY <1>2, <1>3 DEF AwaitsMovedPublish
<1>5. HeadInLedger'
  BY <1>1, <1>2, <1>3 DEF HInv, HeadInLedger
<1>6. Requests' = Requests
  BY <1>1 DEF Requests
<1> QED
  BY <1>1, <1>2, <1>4, <1>5, <1>6, QuietStep

\* An entry that is dropped holds an older record than the confirmed one.
LEMMA DropHead ==
  ASSUME IInv, HInv, NEW m \in st.own, DropGone(m)
  PROVE  HInv'
<1>1. /\ CanRemoveAbsent(st, m.id)
      /\ st' = RemoveAbsent(st, m.id) /\ view' = NoView
      /\ UNCHANGED <<request, orphans, cloud, nextId, left>>
  BY DEF DropGone, server
<1>2. /\ st'.chat = st.chat /\ st'.confirmedSeq = st.confirmedSeq
      /\ st'.version = st.version
      /\ st'.own = st.own \ AtId(st, m.id)
      /\ st'.confirmedSeq \in Nat
  <2>1. st \in LocalState
    BY DEF IInv, TypeOK
  <2> QED
    BY <1>1, <2>1 DEF RemoveAbsent, LocalState
<1>3. \A n \in st.own : n.rec.seq = st.confirmedSeq => n \in st'.own
  <2>1. PICK o \in AtId(st, m.id) : o.rec.seq < st.confirmedSeq
    BY <1>1 DEF CanRemoveAbsent
  <2>2. \A n \in AtId(st, m.id) : n = o
    BY <2>1 DEF AtId, IInv, StateSerializes, Serializes, OwnValid
  <2> QED
    BY <1>2, <2>1, <2>2
<1>4. st.confirmedSeq # 0
  <2>1. PICK o \in st.own : o.rec.seq < st.confirmedSeq
    BY <1>1 DEF CanRemoveAbsent, AtId
  <2>2. o.rec.seq \in Nat
    BY DEF IInv, TypeOK, LocalState, Message, Record
  <2> QED
    BY <2>1, <2>2
<1>5. st.chat \notin left => (AwaitsMovedPublish(st') <=> AwaitsMovedPublish(st))
  <2>1. st.own # {}
    OBVIOUS
  <2>2. ~AwaitsMovedPublish(st)
    BY <2>1 DEF AwaitsMovedPublish
  <2>3. st.chat \notin left => st'.own # {}
    BY <1>3, <1>4, <2>2 DEF HInv, HeadInLedger
  <2> QED
    BY <2>2, <2>3 DEF AwaitsMovedPublish
<1>6. HeadInLedger'
  BY <1>1, <1>2, <1>3, <1>5 DEF HInv, HeadInLedger
<1>7. Requests' = Requests
  BY <1>1 DEF Requests
<1> QED
  BY <1>1, <1>2, <1>5, <1>6, <1>7, QuietStep

\* A request that is lost, or outlives its session, is no new one.
LEMMA FailHead ==
  ASSUME IInv, HInv,
         \/ Crash
         \/ Lose
         \/ \E o \in orphans : LoseOrphan(o)
         \/ UNCHANGED vars
  PROVE  HInv'
<1>1. /\ UNCHANGED <<st, staged, cloud, nextId, left>>
      /\ Requests' \subseteq Requests
      /\ request' = request \/ request' = NoRequest
      /\ view' = NoView \/ view' = view
  BY DEF Crash, Lose, LoseOrphan, vars, client, server, Requests
<1>2. request' = request => orphans' \subseteq orphans
  BY DEF Crash, Lose, LoseOrphan, vars
<1>3. HeadInLedger'
  BY <1>1 DEF HInv, HeadInLedger
<1> QED
  BY <1>1, <1>2, <1>3, QuietStep

---------------------------------------------------------------------------
(* The steps that send a request.                                          *)

\* What the client reviewed lets it send: the pending record is newer than the
\* confirmed one.
LEMMA StagedNewer ==
  ASSUME IInv, MaySend(st, Observation(view.msgs), staged)
  PROVE  staged \in Record /\ staged.seq > st.confirmedSeq
<1>1. /\ st.pendingSeq # 0 /\ st \in LocalState
      /\ staged = PendingRecord(st) /\ staged \in st.issued
  BY DEF MaySend, IInv, TypeOK, StageIsPending
<1>2. staged.seq = st.pendingSeq
  BY <1>1 DEF PendingRecord
<1>3. st.confirmedSeq < st.pendingSeq
  BY <1>1 DEF IInv, StateSerializes, Serializes, CountersValid
<1> QED
  BY <1>1, <1>2, <1>3 DEF LocalState

\* What a send leaves alone.
LEMMA SendRest ==
  ASSUME IInv, HInv, Idle, NEW kind \in Kinds, NEW id \in Nat, NEW rec \in Record,
         Send(kind, id, rec), NEW q,
         q = [kind |-> kind, chat |-> st.chat, id |-> id, rec |-> rec],
         kind = "post" \/ id < nextId[st.chat],
         st.chat \notin left /\ AwaitsMovedPublish(st) => rec.seq > st.confirmedSeq
  PROVE  /\ UNCHANGED <<st, staged, orphans, cloud, nextId, left>>
         /\ request' = q /\ q \in Request /\ Requests = orphans
         /\ Requests' = Requests \cup {q}
         /\ IdsUsed' /\ ViewSound' /\ UnboundUntouched' /\ OnlyNewerThere'
         /\ HeadInLedger' /\ HeadPublished'
<1>1. /\ UNCHANGED <<st, staged, orphans, cloud, nextId, left>>
      /\ request' = q /\ view' = NoView /\ request = NoRequest
      /\ st.chat \in Chats
  BY DEF Send, server, Idle, IInv, TypeOK, LocalState
<1>2. q \in Request
  BY <1>1 DEF Request
<1>3. q # NoRequest
  <2>1. q.kind # "none"
    BY DEF Kinds
  <2> QED
    BY <2>1 DEF NoRequest
<1>4. Requests = orphans /\ Requests' = Requests \cup {q}
  BY <1>1, <1>3 DEF Requests
<1>5. IdsUsed'
  <2>1. \A r \in (Sent("edit") \cup Sent("delete"))' :
           r \in Sent("edit") \cup Sent("delete") \/ (r = q /\ kind # "post")
    <3>1. q.kind = kind /\ Kinds = {"post", "edit", "delete"}
      BY DEF Kinds
    <3> QED
      BY <1>4, <3>1 DEF Sent
  <2>2. \A r \in (Sent("edit") \cup Sent("delete"))' : r.id < nextId[r.chat]
    BY <2>1 DEF HInv, IdsUsed
  <2> QED
    BY <1>1, <2>2 DEF HInv, IdsUsed
<1>6. ViewSound'
  BY <1>1 DEF ViewSound, NoView
<1>7. UnboundUntouched'
  BY <1>1, <1>4 DEF HInv, UnboundUntouched
<1>8. OnlyNewerThere'
  BY <1>1, <1>4 DEF HInv, OnlyNewerThere, NoView
<1>9. HeadInLedger' /\ HeadPublished'
  BY <1>1 DEF HInv, HeadInLedger, HeadPublished
<1> QED
  BY <1>1, <1>2, <1>4, <1>5, <1>6, <1>7, <1>8, <1>9

\* A post names no message.
LEMMA PostHead ==
  ASSUME IInv, HInv, NEW edits \in BOOLEAN, Post(edits)
  PROVE  HInv'
<1> DEFINE q == [kind |-> "post", chat |-> st.chat, id |-> 0, rec |-> staged]
<1>1. /\ Idle /\ Send("post", 0, staged)
      /\ staged \in Record /\ staged.seq > st.confirmedSeq
  BY StagedNewer DEF Post, Reviewed, MayPost
<1>2. /\ UNCHANGED <<st, staged, orphans, cloud, nextId, left>>
      /\ request' = q /\ q \in Request /\ Requests = orphans
      /\ Requests' = Requests \cup {q}
      /\ IdsUsed' /\ ViewSound' /\ UnboundUntouched' /\ OnlyNewerThere'
      /\ HeadInLedger' /\ HeadPublished'
  <2> HIDE DEF q
  <2> QED
    BY <1>1, SendRest DEF Kinds, q
<1>3. Sent("edit")' = Sent("edit") /\ Sent("delete")' = Sent("delete")
  BY <1>2 DEF Sent
<1>4. request' \notin Sent("edit")'
  BY <1>2 DEF Sent
<1>5. EditsRaise'
  BY <1>2, <1>3, <1>4 DEF HInv, EditsRaise
<1>6. DeletesOld'
  BY <1>2, <1>3 DEF HInv, DeletesOld, Kept
<1> QED
  BY <1>2, <1>5, <1>6 DEF HInv

\* The head that is edited holds the confirmed record, so no deletion names it.
LEMMA EditHead ==
  ASSUME IInv, HInv, NEW m \in view.msgs, Edit(m)
  PROVE  HInv'
<1> DEFINE q == [kind |-> "edit", chat |-> st.chat, id |-> m.id, rec |-> staged]
<1>1. /\ Idle /\ view.known /\ Send("edit", m.id, staged)
      /\ staged \in Record /\ staged.seq > st.confirmedSeq
      /\ m.rec.seq = st.confirmedSeq
  BY StagedNewer DEF Edit, Reviewed, MayEdit
<1>2. /\ m \in Message /\ st.confirmedSeq \in Nat
      /\ m.id \in Nat /\ m.rec.seq \in Nat
  BY DEF IInv, TypeOK, LocalState, Message, Record
<1>3. /\ m.id < nextId[st.chat]
      /\ \A n \in cloud[st.chat] : n.id = m.id => n = m
      /\ Sent("edit") = {}
  BY <1>1 DEF HInv, ViewSound
<1>4. m \in Kept(st.chat)
  BY <1>1, <1>2, ConfirmedHeadKept
<1>5. /\ UNCHANGED <<st, staged, orphans, cloud, nextId, left>>
      /\ request' = q /\ q \in Request /\ Requests = orphans
      /\ Requests' = Requests \cup {q}
      /\ IdsUsed' /\ ViewSound' /\ UnboundUntouched' /\ OnlyNewerThere'
      /\ HeadInLedger' /\ HeadPublished'
  <2> HIDE DEF q
  <2> QED
    BY <1>1, <1>2, <1>3, SendRest DEF Kinds, q
<1>6. Sent("edit")' = {q} /\ Sent("delete")' = Sent("delete")
  BY <1>3, <1>5 DEF Sent
<1>7. EditsRaise'
  <2>1. request' \notin orphans'
    BY <1>3, <1>5 DEF Sent
  <2>2. \A n \in cloud[st.chat] : n.id = m.id =>
           /\ n.rec.seq < staged.seq
           /\ \A d \in Sent("delete") : d.chat = st.chat => d.id # m.id
    BY <1>1, <1>2, <1>3, <1>4 DEF Kept
  <2> QED
    BY <1>5, <1>6, <2>1, <2>2 DEF EditsRaise
<1>8. DeletesOld'
  BY <1>5, <1>6 DEF HInv, DeletesOld, Kept
<1> QED
  BY <1>5, <1>7, <1>8 DEF HInv

\* A copy is retired only below a head that holds the confirmed record, and the
\* head takes over what the copy was kept for.
LEMMA RetireHead ==
  ASSUME IInv, HInv, NEW m \in st.own, Retire(m)
  PROVE  HInv'
<1> DEFINE q == [kind |-> "delete", chat |-> st.chat, id |-> m.id, rec |-> m.rec]
<1>1. /\ Idle /\ view.known /\ m \in view.msgs /\ Send("delete", m.id, m.rec)
      /\ m \in RetireCandidates(st, Observation(view.msgs))
  BY DEF Retire, Reviewed
<1>2. /\ m \in Message /\ st.confirmedSeq \in Nat
      /\ m.id \in Nat /\ m.rec \in Record /\ m.rec.seq \in Nat
      /\ view.msgs \in SUBSET Message
  BY DEF IInv, TypeOK, LocalState, Message, Record
<1>3. /\ Expected(st, Observation(view.msgs)) /\ st.pendingSeq = 0
      /\ m.rec.seq < st.confirmedSeq
  BY <1>1 DEF RetireCandidates
<1>4. PICK h \in view.msgs : Observation(view.msgs) = Observed(h.rec)
  BY <1>1, <1>2, ObservesNewest DEF HInv, ViewSound
<1>5. h.rec.seq = st.confirmedSeq /\ h.rec.seq \in Nat
  <2>1. h.rec.seq \in Nat \ {0}
    BY <1>2 DEF Message, Record
  <2>2. h.rec.seq \in {st.confirmedSeq, 0}
    BY <1>3, <1>4 DEF Expected, Observed
  <2> QED
    BY <2>1, <2>2
<1>6. h \in Kept(st.chat)
  BY <1>1, <1>5, ConfirmedHeadKept
<1>7. /\ m.id < nextId[st.chat]
      /\ \A n \in cloud[st.chat] : n.id = m.id => n = m
      /\ Sent("edit") = {}
  BY <1>1 DEF HInv, ViewSound
<1>8. ~AwaitsMovedPublish(st)
  BY DEF AwaitsMovedPublish
<1>9. /\ UNCHANGED <<st, staged, orphans, cloud, nextId, left>>
      /\ request' = q /\ q \in Request /\ Requests = orphans
      /\ Requests' = Requests \cup {q}
      /\ IdsUsed' /\ ViewSound' /\ UnboundUntouched' /\ OnlyNewerThere'
      /\ HeadInLedger' /\ HeadPublished'
  <2> HIDE DEF q
  <2> QED
    BY <1>1, <1>2, <1>7, <1>8, SendRest DEF Kinds, q
<1>10. Sent("edit")' = {} /\ Sent("delete")' = Sent("delete") \cup {q}
  BY <1>7, <1>9 DEF Sent
<1>11. EditsRaise'
  BY <1>9, <1>10 DEF EditsRaise, Sent
<1>12. DeletesOld'
  <2>1. SUFFICES ASSUME NEW d \in Sent("delete")', NEW n \in cloud[d.chat], n.id = d.id
                 PROVE  /\ n.rec.seq < st.confirmedSeq
                        /\ \E k \in Kept(d.chat)' : k.rec.seq >= n.rec.seq
    BY <1>9 DEF DeletesOld
  <2>2. d.chat \in Chats
    <3>1. d \in Request
      BY <1>9, <2>1 DEF Sent, Requests, IInv, TypeOK
    <3> QED
      BY <3>1 DEF Request
  <2>3. q.chat = st.chat /\ q.id = m.id
    OBVIOUS
  <2> HIDE DEF q
  <2>4. h.id # m.id
    <3>1. h \in cloud[st.chat]
      BY <1>6 DEF Kept
    <3> QED
      BY <1>3, <1>5, <1>7, <3>1
  <2>5. h \in Kept(st.chat)'
    BY <1>6, <1>9, <1>10, <2>3, <2>4 DEF Kept
  <2>6. \A c : \A k \in Kept(c) : k \in Kept(c)' \/ (c = st.chat /\ k.id = m.id)
    BY <1>9, <1>10, <2>3 DEF Kept
  <2>7. CASE d = q
    <3>1. n = m /\ d.chat = st.chat
      BY <1>7, <2>3, <2>1, <2>7
    <3>2. h.rec.seq >= n.rec.seq
      BY <1>2, <1>3, <1>5, <3>1
    <3> QED
      BY <1>3, <1>9, <2>5, <3>1, <3>2
  <2>8. CASE d \in Sent("delete")
    <3>1. /\ n.rec.seq < st.confirmedSeq
          /\ \E k \in Kept(d.chat) : k.rec.seq >= n.rec.seq
      BY <2>1, <2>8 DEF HInv, DeletesOld
    <3>2. PICK k \in Kept(d.chat) : k.rec.seq >= n.rec.seq
      BY <3>1
    <3>3. CASE k \in Kept(d.chat)'
      BY <3>1, <3>2, <3>3
    <3>4. CASE d.chat = st.chat
      <4>1. n.rec.seq \in Nat
        <5>1. n \in Message
          BY <2>2, <2>1 DEF IInv, TypeOK
        <5> QED
          BY <5>1 DEF Message, Record
      <4>2. h.rec.seq >= n.rec.seq
          BY <1>2, <1>5, <3>1, <4>1
      <4> QED
        BY <1>9, <2>5, <3>1, <3>4, <4>2
    <3> QED
      BY <2>6, <3>2, <3>3, <3>4
  <2> QED
    BY <1>10, <2>7, <2>8
<1> QED
  BY <1>9, <1>11, <1>12 DEF HInv

---------------------------------------------------------------------------
(* Confirming and moving.                                                  *)

\* The message that confirms the pending record is in the chat and enters the
\* ledger; deletions on their way name still older records than before.
LEMMA ConfirmHead ==
  ASSUME IInv, HInv, NEW m \in view.msgs, Confirm(m)
  PROVE  HInv'
<1>1. /\ view.known /\ m \in PendingCopies(st, view.msgs)
      /\ st' = Put(ConfirmReadBack(st), m.id, m.rec)
      /\ view' = NoView
      /\ UNCHANGED <<request, orphans, cloud, nextId, left>>
  BY DEF Confirm, Reviewed, server
<1>2. /\ st \in LocalState /\ Serializes(st) /\ m \in Message
      /\ st.confirmedSeq \in Nat /\ st.seq \in Nat /\ m.rec.seq \in Nat
  BY DEF IInv, TypeOK, StateSerializes, LocalState, Message, Record
<1>3. /\ st.pendingSeq # 0 /\ m.rec.seq = st.pendingSeq
      /\ st.pendingSeq = st.seq /\ st.confirmedSeq < st.seq
  BY <1>1, <1>2 DEF PendingCopies, Serializes, CountersValid
<1>4. /\ st'.chat = st.chat /\ st'.confirmedSeq = st.seq
      /\ [id |-> m.id, rec |-> m.rec] \in st'.own
  BY <1>1, <1>2 DEF Put, ConfirmReadBack, LocalState
<1>5. [id |-> m.id, rec |-> m.rec] = m
  BY <1>2 DEF Message
<1>6. m \in cloud[st.chat]
  BY <1>1, <1>2, <1>3 DEF HInv, ViewSound
<1>7. Requests' = Requests
  BY <1>1 DEF Requests
<1>8. Sent("edit")' = Sent("edit") /\ Sent("delete")' = Sent("delete")
  BY <1>7 DEF Sent
<1>9. IdsUsed' /\ ViewSound' /\ EditsRaise'
  BY <1>1, <1>8 DEF HInv, IdsUsed, ViewSound, EditsRaise, NoView
<1>10. DeletesOld'
  <2>1. SUFFICES ASSUME NEW q \in Sent("delete"), NEW n \in cloud[q.chat], n.id = q.id
                 PROVE  /\ n.rec.seq < st.seq
                        /\ \E k \in Kept(q.chat) : k.rec.seq >= n.rec.seq
    BY <1>1, <1>4, <1>8 DEF DeletesOld, Kept
  <2>2. /\ n.rec.seq < st.confirmedSeq
        /\ \E k \in Kept(q.chat) : k.rec.seq >= n.rec.seq
    BY <2>1 DEF HInv, DeletesOld
  <2>3. n.rec.seq \in Nat
    BY <2>1 DEF Sent, Requests, IInv, TypeOK, Request, Message, Record
  <2> QED
    BY <1>2, <1>3, <2>2, <2>3
<1>11. UnboundUntouched'
  BY <1>1, <1>4, <1>7 DEF HInv, UnboundUntouched
<1>12. HeadInLedger'
  BY <1>3, <1>4, <1>5 DEF HeadInLedger
<1>13. OnlyNewerThere'
  BY <1>4 DEF OnlyNewerThere, AwaitsMovedPublish
<1>14. HeadPublished'
  BY <1>1, <1>2, <1>3, <1>4, <1>6 DEF HeadPublished
<1> QED
  BY <1>9, <1>10, <1>11, <1>12, <1>13, <1>14 DEF HInv

\* A chat the state was never bound to is empty and no request is on its way
\* there; requests of the old chat go on as orphans.
LEMMA MoveHead ==
  ASSUME IInv, HInv, NEW c \in Chats, Move(c)
  PROVE  HInv'
<1>1. /\ c # st.chat /\ st' = MoveToChat(st, c) /\ left' = left \cup {st.chat}
      /\ view' = NoView /\ request' = NoRequest
      /\ orphans' = orphans \cup ({request} \ {NoRequest})
      /\ UNCHANGED <<cloud, nextId>>
  BY DEF Move, CanMoveToChat, server
<1>2. st \in LocalState
  BY DEF IInv, TypeOK
<1>3. /\ st'.chat = c /\ st'.confirmedSeq = st.confirmedSeq
      /\ st'.own = {} /\ st'.version = 2
  BY <1>1, <1>2 DEF MoveToChat, Abandon, LocalState
<1>4. Requests' = Requests
  BY <1>1 DEF Requests
<1>5. Sent("edit")' = Sent("edit") /\ Sent("delete")' = Sent("delete")
  BY <1>4 DEF Sent
<1>6. IdsUsed' /\ ViewSound'
  BY <1>1, <1>5 DEF HInv, IdsUsed, ViewSound, NoView
<1>7. EditsRaise'
  <2>1. NoRequest \notin Sent("edit")'
    BY DEF Sent, NoRequest
  <2> QED
    BY <1>1, <1>5, <2>1 DEF HInv, EditsRaise
<1>8. DeletesOld'
  BY <1>1, <1>3, <1>5 DEF HInv, DeletesOld, Kept
<1>9. UnboundUntouched'
  BY <1>1, <1>3, <1>4 DEF HInv, UnboundUntouched
<1>10. HeadInLedger' /\ HeadPublished'
  BY <1>3 DEF HeadInLedger, HeadPublished, AwaitsMovedPublish
<1>11. OnlyNewerThere'
  <2>1. SUFFICES ASSUME c \notin left'
                 PROVE  cloud[c] = {} /\ \A q \in Requests : q.chat # c
    BY <1>1, <1>3, <1>4 DEF OnlyNewerThere, NoView
  <2> QED
    BY <1>1, <2>1 DEF HInv, UnboundUntouched
<1> QED
  BY <1>6, <1>7, <1>8, <1>9, <1>10, <1>11 DEF HInv

---------------------------------------------------------------------------
(* The steps of the server.                                                *)

\* What every request that is applied leaves alone.
LEMMA EffectRest ==
  ASSUME IInv, HInv, NEW q \in Requests, UNCHANGED client,
         \/ request = q /\ request' = NoRequest /\ orphans' = orphans
         \/ q \in orphans /\ orphans' = orphans \ {q} /\ request' = request
  PROVE  /\ q \in Request /\ q.chat \in Chats
         /\ UNCHANGED <<st, staged, view, left>>
         /\ Requests' \subseteq Requests
         /\ Sent("edit")' \subseteq Sent("edit")
         /\ Sent("delete")' \subseteq Sent("delete")
         /\ q.kind = "edit" => Sent("edit")' = {}
         /\ request' \in Sent("edit")' => request' \notin orphans'
         /\ HeadInLedger'
<1>1. q \in Request
  BY DEF Requests, IInv, TypeOK
<1>2. /\ UNCHANGED <<st, staged, view, left>>
      /\ Requests' \subseteq Requests
  BY DEF client, Requests
<1>3. Sent("edit")' \subseteq Sent("edit") /\ Sent("delete")' \subseteq Sent("delete")
  BY <1>2 DEF Sent
<1>4. q.kind = "edit" => Sent("edit")' = {}
  <2>1. SUFFICES ASSUME q.kind = "edit", NEW e \in Sent("edit")' PROVE FALSE
    OBVIOUS
  <2>2. q \in Sent("edit") /\ e \in Sent("edit") /\ e \in Requests'
    BY <1>3, <2>1 DEF Sent
  <2>3. e = q
    BY <2>2 DEF HInv, EditsRaise
  <2>4. request = q => q \notin orphans
    BY <2>2 DEF HInv, EditsRaise
  <2>5. e # NoRequest
    BY <2>1, <2>3 DEF NoRequest
  <2> QED
    BY <2>2, <2>3, <2>4, <2>5 DEF Requests
<1>5. request' \in Sent("edit")' => request' \notin orphans'
  <2>1. NoRequest \notin Sent("edit")'
    BY DEF Sent, NoRequest
  <2> QED
    BY <1>3, <2>1 DEF HInv, EditsRaise
<1>6. HeadInLedger'
  BY <1>2 DEF HInv, HeadInLedger
<1>7. q.chat \in Chats
  BY <1>1 DEF Request
<1> QED
  BY <1>1, <1>2, <1>3, <1>4, <1>5, <1>6, <1>7

\* A request that is applied meets the message it was meant for or none.
LEMMA EffectHead ==
  ASSUME IInv, HInv, NEW q \in Requests, Effect(q), UNCHANGED client,
         \/ request = q /\ request' = NoRequest /\ orphans' = orphans
         \/ q \in orphans /\ orphans' = orphans \ {q} /\ request' = request
  PROVE  HInv'
<1>1. /\ q \in Request /\ q.chat \in Chats
      /\ UNCHANGED <<st, staged, view, left>>
      /\ Requests' \subseteq Requests
      /\ Sent("edit")' \subseteq Sent("edit")
      /\ Sent("delete")' \subseteq Sent("delete")
      /\ q.kind = "edit" => Sent("edit")' = {}
      /\ request' \in Sent("edit")' => request' \notin orphans'
      /\ HeadInLedger'
  BY EffectRest
<1>2. st.chat \in Chats /\ st.confirmedSeq \in Nat
  BY DEF IInv, TypeOK, LocalState
<1>3. /\ \A d \in Sent("delete") \cup Sent("edit") : d.chat \in Chats
      /\ \A c \in Chats : nextId[c] \in Nat /\ cloud[c] \in SUBSET Message
      /\ q.rec.seq \in Nat /\ q.rec \in Record
      /\ \A m \in Message : m.rec.seq \in Nat /\ m.id \in Nat
  BY <1>1 DEF Sent, Requests, IInv, TypeOK, Request, Message, Record
<1>4. UnboundUntouched'
  <2>1. q.chat \in left \cup {st.chat}
    BY <1>1 DEF HInv, UnboundUntouched
  <2>2. \A c \in Chats : c # q.chat => cloud'[c] = cloud[c]
    BY DEF Effect, IInv, TypeOK
  <2> QED
    BY <1>1, <2>1, <2>2 DEF HInv, UnboundUntouched
<1>5. OnlyNewerThere'
  <2>1. \A m \in cloud'[st.chat] : m \in cloud[st.chat] \/ (q.chat = st.chat /\ m.rec = q.rec)
    BY <1>1, <1>2, <1>3 DEF Effect, IInv, TypeOK
  <2> QED
    BY <1>1, <2>1 DEF HInv, OnlyNewerThere
<1>6. CASE q.kind = "post"
  <2> DEFINE new == [id |-> nextId[q.chat], rec |-> q.rec]
  <2>1. /\ cloud' = [cloud EXCEPT ![q.chat] = cloud[q.chat] \cup {new}]
        /\ nextId' = [nextId EXCEPT ![q.chat] = nextId[q.chat] + 1]
    BY <1>6 DEF Effect
  <2>2. /\ cloud'[q.chat] = cloud[q.chat] \cup {new}
        /\ nextId'[q.chat] = nextId[q.chat] + 1
        /\ \A c \in Chats : c # q.chat => cloud'[c] = cloud[c] /\ nextId'[c] = nextId[c]
        /\ new.id = nextId[q.chat] /\ new.rec = q.rec
    BY <1>1, <2>1 DEF IInv, TypeOK
  <2> HIDE DEF new
  <2>3. IdsUsed'
    <3>1. \A c \in Chats :
            /\ IsFiniteSet(cloud'[c])
            /\ \A m \in cloud'[c] : m.id < nextId'[c]
            /\ \A m, n \in cloud'[c] : m.id = n.id => m = n
      <4>1. SUFFICES ASSUME NEW c \in Chats
                     PROVE  /\ IsFiniteSet(cloud'[c])
                            /\ \A m \in cloud'[c] : m.id < nextId'[c]
                            /\ \A m, n \in cloud'[c] : m.id = n.id => m = n
        OBVIOUS
      <4>2. /\ IsFiniteSet(cloud[c])
            /\ \A m \in cloud[c] : m.id < nextId[c] /\ m.id \in Nat
            /\ \A m, n \in cloud[c] : m.id = n.id => m = n
            /\ nextId[c] \in Nat
        BY <1>3 DEF HInv, IdsUsed
      <4>3. CASE c = q.chat
        <5>1. IsFiniteSet(cloud'[c])
          BY <2>2, <4>2, <4>3, FS_AddElement
        <5> QED
          BY <2>2, <4>2, <4>3, <5>1
      <4> QED
        BY <2>2, <4>2, <4>3
    <3>2. \A d \in (Sent("edit") \cup Sent("delete"))' : d.id < nextId'[d.chat]
      <4>1. SUFFICES ASSUME NEW d \in Sent("edit") \cup Sent("delete")
                     PROVE  d.id < nextId'[d.chat]
        BY <1>1
      <4>2. d.id < nextId[d.chat] /\ d.id \in Nat /\ d.chat \in Chats
        BY DEF HInv, IdsUsed, Sent, Requests, IInv, TypeOK, Request
      <4> QED
        BY <1>3, <2>2, <4>2
    <3> QED
      BY <3>1, <3>2 DEF IdsUsed
  <2>4. ViewSound'
    <3>1. \A m \in view.msgs : m.id < nextId[st.chat] =>
            /\ m.id < nextId'[st.chat]
            /\ \A n \in cloud'[st.chat] : n.id = m.id => n \in cloud[st.chat]
      <4>1. view.msgs \subseteq Message
        BY DEF IInv, TypeOK
      <4> QED
        BY <1>2, <1>3, <2>2, <4>1
    <3>2. cloud[st.chat] \subseteq cloud'[st.chat]
      BY <1>2, <2>2
    <3> QED
      BY <1>1, <3>1, <3>2 DEF HInv, ViewSound
  <2>5. EditsRaise'
    <3>1. \A e \in Sent("edit") : \A m \in cloud'[e.chat] :
            m.id = e.id => m \in cloud[e.chat]
      <4>1. \A e \in Sent("edit") : e.id < nextId[e.chat]
        BY DEF HInv, IdsUsed
      <4> QED
        BY <1>3, <2>2, <4>1
    <3> QED
      BY <1>1, <3>1 DEF HInv, EditsRaise
  <2>6. DeletesOld'
    <3>1. \A d \in Sent("delete") : \A m \in cloud'[d.chat] :
            m.id = d.id => m \in cloud[d.chat]
      <4>1. \A d \in Sent("delete") : d.id < nextId[d.chat]
        BY DEF HInv, IdsUsed
      <4> QED
        BY <1>3, <2>2, <4>1
    <3>2. \A c \in Chats : Kept(c) \subseteq Kept(c)'
      BY <1>1, <2>2 DEF Kept
    <3> QED
      BY <1>1, <1>3, <3>1, <3>2 DEF HInv, DeletesOld
  <2>7. HeadPublished'
    BY <1>1, <1>2, <2>2 DEF HInv, HeadPublished
  <2> QED
    BY <1>1, <1>4, <1>5, <2>3, <2>4, <2>5, <2>6, <2>7 DEF HInv
<1>7. CASE q.kind = "edit"
  <2> DEFINE new == [id |-> q.id, rec |-> q.rec]
  <2>1. /\ cloud' = [cloud EXCEPT ![q.chat] =
                        {m \in cloud[q.chat] : m.id # q.id} \cup {new}]
        /\ nextId' = nextId
        /\ \E m \in cloud[q.chat] : m.id = q.id
    BY <1>7 DEF Effect
  <2>2. /\ cloud'[q.chat] = {m \in cloud[q.chat] : m.id # q.id} \cup {new}
        /\ \A c \in Chats : c # q.chat => cloud'[c] = cloud[c]
        /\ new.id = q.id /\ new.rec = q.rec
    BY <1>1, <2>1 DEF IInv, TypeOK
  <2> HIDE DEF new
  <2>3. PICK old \in cloud[q.chat] : old.id = q.id
    BY <2>1
  <2>4. q \in Sent("edit") /\ old.rec.seq < q.rec.seq
        /\ \A d \in Sent("delete") : d.chat = q.chat => d.id # q.id
    BY <1>7, <2>3 DEF HInv, EditsRaise, Sent
  <2>5. IdsUsed'
    <3>1. \A c \in Chats :
            /\ IsFiniteSet(cloud'[c])
            /\ \A m \in cloud'[c] : m.id < nextId[c]
            /\ \A m, n \in cloud'[c] : m.id = n.id => m = n
      <4>1. SUFFICES ASSUME NEW c \in Chats
                     PROVE  /\ IsFiniteSet(cloud'[c])
                            /\ \A m \in cloud'[c] : m.id < nextId[c]
                            /\ \A m, n \in cloud'[c] : m.id = n.id => m = n
        OBVIOUS
      <4>2. /\ IsFiniteSet(cloud[c])
            /\ \A m \in cloud[c] : m.id < nextId[c]
            /\ \A m, n \in cloud[c] : m.id = n.id => m = n
        BY DEF HInv, IdsUsed
      <4>3. CASE c = q.chat
        <5>1. IsFiniteSet({m \in cloud[c] : m.id # q.id})
          BY <4>2, FS_Subset
        <5>2. IsFiniteSet(cloud'[c])
          BY <2>2, <4>3, <5>1, FS_AddElement
        <5> QED
          BY <2>2, <2>3, <4>2, <4>3, <5>2
      <4> QED
        BY <2>2, <4>2, <4>3
    <3> QED
      BY <1>1, <2>1, <3>1 DEF HInv, IdsUsed
  <2>6. ViewSound'
    BY <1>1, <2>4 DEF HInv, ViewSound
  <2>7. EditsRaise'
    BY <1>1, <1>7 DEF EditsRaise
  <2>8. DeletesOld'
    <3>1. SUFFICES ASSUME NEW d \in Sent("delete"), NEW m \in cloud'[d.chat], m.id = d.id
                   PROVE  /\ m.rec.seq < st.confirmedSeq
                          /\ \E k \in Kept(d.chat)' : k.rec.seq >= m.rec.seq
      BY <1>1 DEF DeletesOld
    <3>2. d.chat \in Chats /\ m \in cloud[d.chat]
      BY <1>3, <2>2, <2>4, <3>1
    <3>3. PICK k \in Kept(d.chat) : m.rec.seq < st.confirmedSeq /\ k.rec.seq >= m.rec.seq
      BY <3>1, <3>2 DEF HInv, DeletesOld
    <3>4. CASE d.chat = q.chat /\ k.id = q.id
      <4>1. k = old
        BY <1>1, <2>3, <3>3, <3>4 DEF HInv, IdsUsed, Kept
      <4>2. new \in Kept(d.chat)'
        BY <1>1, <2>2, <2>4, <3>4 DEF Kept
      <4>3. new.rec.seq >= m.rec.seq
        <5>1. old.rec.seq \in Nat /\ m.rec.seq \in Nat
          BY <1>1, <1>3, <2>3, <3>2
        <5> QED
          BY <1>3, <2>2, <2>4, <3>3, <4>1, <5>1
      <4> QED
        BY <3>3, <4>2, <4>3
    <3>5. CASE ~(d.chat = q.chat /\ k.id = q.id)
      <4>1. k \in Kept(d.chat)'
        BY <1>1, <2>2, <3>2, <3>5 DEF Kept
      <4> QED
        BY <3>3, <4>1
    <3> QED
      BY <3>4, <3>5
  <2>9. HeadPublished'
    <3>1. \A m \in cloud[st.chat] : m.rec.seq >= st.confirmedSeq =>
            \E n \in cloud'[st.chat] : n.rec.seq >= st.confirmedSeq
      <4>1. SUFFICES ASSUME NEW m \in cloud[st.chat], m.rec.seq >= st.confirmedSeq
                     PROVE  \E n \in cloud'[st.chat] : n.rec.seq >= st.confirmedSeq
        OBVIOUS
      <4>2. CASE st.chat = q.chat /\ m.id = q.id
        <5>1. m = old
          BY <1>1, <2>3, <4>2 DEF HInv, IdsUsed
        <5>2. new.rec.seq >= st.confirmedSeq
          <6>1. old.rec.seq \in Nat
            BY <1>1, <1>3, <2>3
          <6> QED
            BY <1>2, <1>3, <2>2, <2>4, <4>1, <5>1, <6>1
        <5> QED
          BY <2>2, <4>2, <5>2
      <4> QED
        BY <1>2, <2>2, <4>1, <4>2
    <3> QED
      BY <1>1, <3>1 DEF HInv, HeadPublished
  <2> QED
    BY <1>1, <1>4, <1>5, <2>5, <2>6, <2>7, <2>8, <2>9 DEF HInv
<1>8. CASE q.kind = "delete"
  <2>1. /\ cloud' = [cloud EXCEPT ![q.chat] = {m \in cloud[q.chat] : m.id # q.id}]
        /\ nextId' = nextId
    BY <1>8 DEF Effect
  <2>2. /\ cloud'[q.chat] = {m \in cloud[q.chat] : m.id # q.id}
        /\ \A c \in Chats : c # q.chat => cloud'[c] = cloud[c]
        /\ \A c \in Chats : cloud'[c] \subseteq cloud[c]
    BY <1>1, <2>1 DEF IInv, TypeOK
  <2>3. q \in Sent("delete")
    BY <1>8 DEF Sent
  <2>4. \A m \in cloud[q.chat] : m.id = q.id => m.rec.seq < st.confirmedSeq
    BY <2>3 DEF HInv, DeletesOld
  <2>5. IdsUsed'
    <3>1. \A c \in Chats : IsFiniteSet(cloud'[c])
      BY <2>2, FS_Subset DEF HInv, IdsUsed
    <3> QED
      BY <1>1, <2>1, <2>2, <3>1 DEF HInv, IdsUsed
  <2>6. ViewSound'
    <3>1. \A m \in view.msgs : m.rec.seq >= st.confirmedSeq /\ m \in cloud[st.chat] =>
             m \in cloud'[st.chat]
      BY <1>2, <1>3, <2>2, <2>4
    <3> QED
      BY <1>1, <1>2, <2>1, <2>2, <3>1 DEF HInv, ViewSound
  <2>7. EditsRaise'
    <3>1. \A e \in Sent("edit") : e.chat \in Chats
      BY <1>3
    <3> QED
      BY <1>1, <2>2, <3>1 DEF HInv, EditsRaise
  <2>8. DeletesOld'
    <3>1. \A c \in Chats : Kept(c) \subseteq Kept(c)'
      BY <1>1, <2>2, <2>3 DEF Kept
    <3> QED
      BY <1>1, <1>3, <2>2, <3>1 DEF HInv, DeletesOld
  <2>9. HeadPublished'
    <3>1. \A m \in cloud[st.chat] : m.rec.seq >= st.confirmedSeq => m \in cloud'[st.chat]
      BY <1>2, <1>3, <2>2, <2>4
    <3> QED
      BY <1>1, <3>1 DEF HInv, HeadPublished
  <2> QED
    BY <1>1, <1>4, <1>5, <2>5, <2>6, <2>7, <2>8, <2>9 DEF HInv
<1> QED
  BY <1>1, <1>6, <1>7, <1>8 DEF Request, Kinds

---------------------------------------------------------------------------
(* The theorems.                                                           *)

\* A fresh install satisfies the invariant.
LEMMA InitHead == Init => HInv
<1> SUFFICES ASSUME Init PROVE HInv
  OBVIOUS
<1>1. /\ Requests = {} /\ view = NoView /\ st.confirmedSeq = 0
      /\ cloud = [c \in Chats |-> {}]
  BY DEF Init, FreshState, Requests
<1>2. Sent("edit") = {} /\ Sent("delete") = {}
  BY <1>1 DEF Sent
<1>3. IdsUsed
  BY <1>1, <1>2, FS_EmptySet DEF IdsUsed
<1>4. ViewSound /\ EditsRaise /\ DeletesOld /\ UnboundUntouched
  BY <1>1, <1>2 DEF ViewSound, NoView, EditsRaise, DeletesOld, UnboundUntouched
<1>5. HeadInLedger /\ OnlyNewerThere /\ HeadPublished
  BY <1>1 DEF HeadInLedger, OnlyNewerThere, HeadPublished, AwaitsMovedPublish
<1> QED
  BY <1>3, <1>4, <1>5 DEF HInv

\* Every step of the client and of the server preserves it.
LEMMA StepHead == IInv /\ HInv /\ [Next]_vars => HInv'
<1> SUFFICES ASSUME IInv, HInv, [Next]_vars PROVE HInv'
  OBVIOUS
<1>1. CASE Read
  BY <1>1, ReadHead
<1>2. CASE \E p \in Payloads : ReserveAndStage(p)
  BY <1>2, ReserveHead
<1>3. CASE \E edits \in BOOLEAN : Post(edits)
  BY <1>3, PostHead
<1>4. CASE \E m \in view.msgs : Edit(m)
  BY <1>4, EditHead
<1>5. CASE \E m \in view.msgs : Confirm(m)
  BY <1>5, ConfirmHead
<1>6. CASE \E m \in st.own : Retire(m)
  BY <1>6, RetireHead
<1>7. CASE \E m \in st.own : DropGone(m)
  BY <1>7, DropHead
<1>8. CASE \E m \in view.msgs : AdoptCopy(m)
  BY <1>8, AdoptHead
<1>9. CASE \E c \in Chats : Move(c)
  BY <1>9, MoveHead
<1>10. CASE Apply
  BY <1>10, EffectHead DEF Apply, Requests
<1>11. CASE \E o \in orphans : ApplyOrphan(o)
  BY <1>11, EffectHead DEF ApplyOrphan, Requests, client
<1>12. CASE Crash \/ Lose \/ (\E o \in orphans : LoseOrphan(o)) \/ UNCHANGED vars
  BY <1>12, FailHead
<1> QED
  BY <1>1, <1>2, <1>3, <1>4, <1>5, <1>6, <1>7, <1>8, <1>9, <1>10, <1>11,
     <1>12 DEF Next

\* Both invariants hold in every reachable state.
LEMMA HeadInvariance == Spec => [](IInv /\ HInv)
<1>1. Init => IInv /\ HInv
  BY InitInv, InitHead
<1>2. IInv /\ HInv /\ [Next]_vars => IInv' /\ HInv'
  BY StepInv, StepHead
<1> QED
  BY <1>1, <1>2, PTL DEF Spec

\* In a chat it never left, an install that has confirmed a record always has
\* that record or a newer one, whatever was edited, retired, re-sent or applied
\* late (SyncPublishAction::RetireCandidate and the edit of the head).
THEOREM HeadAlwaysPublished == Spec => []HeadPublished
<1>1. HInv => HeadPublished
  BY DEF HInv
<1> QED
  BY <1>1, HeadInvariance, PTL

\* An empty ledger after a move means that nothing confirmed is published in
\* a chat the install was never bound to (SyncConfigAwaitsMovedPublish).
THEOREM FreshChatAlwaysUnpublished == Spec => []FreshChatUnpublished
<1>1. HInv => FreshChatUnpublished
  BY DEF HInv, OnlyNewerThere, FreshChatUnpublished, EmptyLedgerMeansUnpublished
<1> QED
  BY <1>1, HeadInvariance, PTL

\* No step takes away the last copy of the newest record of a chat.
THEOREM DeletionAlwaysKeepsHead == Spec => DeletionKeepsHead
<1> DEFINE Loses(c, m) == \A n \in cloud'[c] : n.id # m.id
           Newer(c, m) == \E n \in cloud'[c] : n.rec.seq >= m.rec.seq
<1>1. ASSUME IInv, HInv, Next, NEW c \in Chats, NEW m \in cloud[c], Loses(c, m)
      PROVE  Newer(c, m)
  <2>1. CASE cloud' = cloud
    BY <1>1, <2>1
  <2>2. CASE \E q \in Requests : Effect(q)
    <3>1. PICK q \in Requests : Effect(q)
      BY <2>2
    <3>2. q \in Request /\ q.chat \in Chats /\ q.kind \in Kinds
          /\ cloud \in [Chats -> SUBSET Message]
      BY <1>1 DEF Requests, IInv, TypeOK, Request
    <3>3. q.kind # "post"
      <4>1. SUFFICES ASSUME q.kind = "post" PROVE FALSE
        OBVIOUS
      <4>2. cloud' = [cloud EXCEPT ![q.chat] =
                        @ \cup {[id |-> nextId[q.chat], rec |-> q.rec]}]
        BY <3>1, <4>1 DEF Effect
      <4>3. m \in cloud'[c]
        BY <3>2, <4>2
      <4> QED
        BY <1>1, <4>3
    <3>4. q.kind # "edit"
      <4> DEFINE new == [id |-> q.id, rec |-> q.rec]
      <4>1. SUFFICES ASSUME q.kind = "edit" PROVE FALSE
        OBVIOUS
      <4>2. cloud' = [cloud EXCEPT ![q.chat] = {n \in @ : n.id # q.id} \cup {new}]
            /\ new.id = q.id
        BY <3>1, <4>1 DEF Effect
      <4> HIDE DEF new
      <4>3. m \in cloud'[c] \/ (new \in cloud'[c] /\ m.id = q.id)
        BY <3>2, <4>2
      <4> QED
        BY <1>1, <4>2, <4>3
    <3>5. q.kind = "delete"
      BY <3>2, <3>3, <3>4 DEF Kinds
    <3>6. cloud' = [cloud EXCEPT ![q.chat] = {n \in @ : n.id # q.id}]
      BY <3>1, <3>5 DEF Effect
    <3>7. q.chat = c /\ q.kind = "delete" /\ q.id = m.id
      <4>1. m \notin cloud'[c]
        BY <1>1
      <4> QED
        BY <3>2, <3>5, <3>6, <4>1
    <3>8. q \in Sent("delete")
      BY <3>7 DEF Sent
    <3>9. PICK k \in Kept(c) : k.rec.seq >= m.rec.seq
      BY <1>1, <3>7, <3>8 DEF HInv, DeletesOld
    <3>10. k \in cloud'[c]
      BY <3>2, <3>6, <3>7, <3>8 DEF Kept
    <3> QED
      BY <3>9, <3>10
  <2>3. cloud' = cloud \/ \E q \in Requests : Effect(q)
    BY <1>1 DEF Next, Read, ReserveAndStage, Post, Edit, Confirm, Retire, DropGone,
       AdoptCopy, Move, Crash, Apply, Lose, ApplyOrphan, LoseOrphan, Send, server, Requests
  <2> QED
    BY <2>1, <2>2, <2>3
<1>2. IInv /\ HInv /\ [Next]_vars =>
        [\A c \in Chats : \A m \in cloud[c] :
           (\A n \in cloud'[c] : n.id # m.id) =>
             \E n \in cloud'[c] : n.rec.seq >= m.rec.seq]_vars
  BY <1>1
<1> QED
  BY <1>2, HeadInvariance, PTL DEF Spec, DeletionKeepsHead
=============================================================================
