-------------------------- MODULE SyncAutoProofs --------------------------
(***************************************************************************)
(* What holds of SyncAuto for every set of texts and payloads, every       *)
(* client, and any number of retries, deletions, messages and saves.       *)
(*                                                                         *)
(* The policy plans and the client executes, so the invariant has a part   *)
(* for each.  What is durable (DataOK) is a state that serializes with the *)
(* stage it reserved.  A record the policy may plan (RecOK) is one its     *)
(* codec writes, and names bytes that do not contradict what is written.   *)
(* An operation (OpOK) is the one the record waits for and still fits the  *)
(* state it was planned on: nobody but the operation itself changes that   *)
(* state.  Every plan is then followed through the policy once.            *)
(*                                                                         *)
(* On top of it HInv says what the requests under way can still do to the  *)
(* chat: what a plan saw holds until it is acted on, an edit only raises,  *)
(* a deletion only takes what is older than the confirmed record.          *)
(***************************************************************************)
EXTENDS SyncAuto, SyncLocalStateProofs

Outcomes == {"none", "Failed", "EditRefused", "DeletionRefused", "Inventory",
             "Sent", "Staged", "Applied", "Deleted", "Committed"}
Phases == {"idle", "todo", "written", "sent", "served", "answered"}
RequestKinds == {"Post", "EditInPlace", "Retire"}
OtherHead == [key : Payloads, safe : BOOLEAN, knows : SUBSET Payloads]
Inventories == [msgs : SUBSET Message, other : OtherHead \cup {NoHead}, queued : BOOLEAN]
Orphaned == [kind : RequestKinds, id : Nat, rec : Record]

Operation ==
    [kind : Actions, commitOnly : BOOLEAN, id : Nat, rec : Record \cup {NoRecord},
     state : LocalState \cup {NoState}, knows : SUBSET Payloads,
     from : Texts \cup {NoText}, text : Texts \cup {NoText},
     phase : Phases, outcome : Outcomes, inv : Inventories]

\* The records that are written somewhere, but for the operation's own.
Base ==
    {m.rec : m \in cloud \cup st.own} \cup st.issued \cup {q.rec : q \in orphans}
      \cup ({staged} \ {NoRecord})

Fits(x) == x \in Record /\ \A r \in Base : r.seq = x.seq => r = x

\* A state the client can go on from.
Sound(s) ==
    /\ s \in LocalState /\ Serializes(s) /\ s.version = 1
    /\ s.confirmedSeq <= s.seq
    /\ s.confirmedSeq # 0 => \E m \in s.own : m.rec.seq = s.confirmedSeq

DataOK ==
    /\ Sound(st) /\ StageIsPending
    /\ lineage \subseteq Payloads
    /\ staged \in Record \cup {NoRecord}
    /\ file \in Texts /\ saved \in Claimed \cup {NoText} /\ unheard \in BOOLEAN
    /\ cloud \in SUBSET Message /\ IsFiniteSet(cloud) /\ nextId \in Nat \ {0}
    /\ orphans \in SUBSET Orphaned
    /\ other \in OtherHead \cup {NoHead}
    /\ blocked \in BOOLEAN /\ Claimed \in SUBSET Texts
    /\ mode \in ClientModes /\ faults \in Nat /\ saves \in Nat
    /\ \A r \in Base : r.seq <= st.seq /\ r.payload.text \in Claimed
    /\ \A r, q \in Base : r.seq = q.seq => r = q

\* IsSyncAutoRecord.
Sane(r) ==
    /\ r.active => r.pending # "NoOp"
    /\ r.commitOnly => r.pending = "Reconcile"
    /\ r.runStopped => ~r.active /\ r.retry = "none" /\ r.pending # "NoOp"
    /\ r.held = "RetryStopped" => r.runStopped
    /\ r.retry # "none" => ~r.active /\ r.retries > 0
    /\ r.retiring => r.messageId > 0

\* v: the texts claimed when the record is stored.
Fine(r, v) ==
    /\ r \in SyncAutoRecord /\ Sane(r)
    /\ r.savedText \in v \cup {NoText}
    /\ r.record # NoRecord => Fits(r.record) /\ r.record.payload.text \in v

\* An apply that has been committed wrote a text that is claimed.
AppliedVouched(r, v) == r.pending = "AutoApply" /\ st = r.expState => r.expFile \in v

RecOK(r, v) == Fine(r, v) /\ AppliedVouched(r, v)

\* What a commit or a deletion makes of the state.
Later(s) ==
    /\ Sound(s)
    /\ s.seq = st.seq /\ s.ownHash = st.ownHash /\ s.issued = st.issued
    /\ \A m \in s.own : m \in st.own \/ (m.rec = staged /\ staged # NoRecord)
    /\ \/ s.pendingSeq = 0 /\ s.pendingKey = NoPayload
       \/ s.pendingSeq = st.pendingSeq /\ s.pendingKey = st.pendingKey
    /\ st.confirmedSeq <= s.confirmedSeq

CommitOK(o) == Later(o.state)

RetireOK(o) ==
    /\ Later(o.state) /\ o.state.pendingSeq = 0 /\ st.pendingSeq = 0
    /\ o.state.confirmedSeq = st.confirmedSeq
    /\ \E m \in st.own : m.rec = o.rec /\ m.id = o.id

SendOK(o) == o.rec = staged /\ staged # NoRecord /\ st.pendingSeq # 0

PublishOK(r, o) ==
    /\ st.pendingSeq = 0
    /\ Sound(o.state)
    /\ o.state.seq = st.seq + 1 /\ o.state.pendingSeq = st.seq + 1
    /\ o.rec = PendingRecord(o.state) /\ o.rec \in o.state.issued
    /\ o.state.issued \subseteq st.issued \cup {o.rec}
    /\ o.state.own = st.own /\ o.state.confirmedSeq = st.confirmedSeq
    /\ r.record = o.rec

ApplyOK(r, o, v) ==
    /\ st.pendingSeq = 0
    /\ \E k \in Payloads : k # st.base /\ o.state = [st EXCEPT !.base = k]
    /\ o.text \in Texts /\ o.text = r.expFile /\ o.state = r.expState
    /\ o.phase = "todo" => o.from = Text(st.base)
    /\ o.phase = "written" => o.text \in v

OpOK(r, o, v) ==
    /\ o \in Operation
    /\ o = NoOperation \/ (o.phase # "idle" /\ o.kind # "NoOp" /\ o.kind = r.pending)
    /\ IsFiniteSet(o.inv.msgs)
    /\ o.commitOnly => o.kind = "Reconcile"
    /\ o.phase = "written" => o.kind = "AutoApply"
    /\ o.phase \in {"sent", "served"} => o.kind \in RequestKinds
    /\ o.rec # NoRecord => Fits(o.rec) /\ o.rec.payload.text \in v
    /\ o.phase = "answered" => o.rec = NoRecord
    /\ o.outcome = "Inventory" => o.kind \in {"Check", "Reconcile"}
    /\ o.phase = "todo" /\ o.commitOnly => CommitOK(o)
    /\ o.phase = "todo" /\ o.kind = "Publish" => PublishOK(r, o)
    /\ o.phase \in {"todo", "written"} /\ o.kind = "AutoApply" => ApplyOK(r, o, v)
    /\ o.phase \in {"todo", "sent", "served"} /\ o.kind = "Retire" => RetireOK(o)
    /\ o.phase \in {"todo", "sent", "served"} /\ o.kind \in {"Post", "EditInPlace"} =>
         SendOK(o)

AInv == DataOK /\ RecOK(rec, Claimed) /\ OpOK(rec, op, Claimed)

---------------------------------------------------------------------------
(* Plans.                                                                  *)

\* q: whether a save is queued.  It stays so until a check or its own bytes.
SaveKept(q, r) ==
    q /\ ~r.queuedSave =>
      /\ r.active
      /\ r.pending = "Check" \/ (r.pending = "Publish" /\ r.record.payload.text = file)

PlanOK(q, p, v) == RecOK(p.rec, v) /\ OpOK(p.rec, p.op, v) /\ SaveKept(q, p.rec)

\* Whoever plans knows of no less claimed than what is stored says.
Vouching(v) == Claimed \subseteq v /\ v \subseteq Texts

\* No state is the absence of one, and no record is the absence of one.
LEMMA Absences == NoState \notin LocalState /\ NoRecord \notin Record
BY DEF NoState, FreshState, LocalState, NoRecord, Record

\* Nothing to execute.
LEMMA NothingOK ==
  ASSUME NEW r, NEW v
  PROVE  OpOK(r, NoOperation, v)
<1>1. NoOperation \in Operation
  BY DEF NoOperation, Operation, Actions, NoInventory, Inventories, Phases, Outcomes
<1> QED
  BY <1>1, FS_EmptySet DEF OpOK, NoOperation, NoInventory

\* A record that is only noted.
LEMMA QuietOK ==
  ASSUME NEW r, NEW v, RecOK(r, v), NEW q, q => r.queuedSave
  PROVE  PlanOK(q, Quiet(r), v)
BY NothingOK DEF PlanOK, Quiet, SaveKept

\* A hold stops the run and keeps everything else.
LEMMA HoldOK ==
  ASSUME NEW r, NEW v, RecOK(r, v), NEW reason \in Reasons,
         reason = "RetryStopped" => r.runStopped, NEW q, q => r.queuedSave
  PROVE  PlanOK(q, Hold(r, reason), v)
<1> DEFINE h == [r EXCEPT !.active = FALSE, !.held = reason]
<1>1. r \in SyncAutoRecord /\ Sane(r)
  BY DEF RecOK, Fine
<1>2. h \in SyncAutoRecord
  BY <1>1 DEF SyncAutoRecord
<1>3. Sane(h)
  BY <1>1 DEF Sane, SyncAutoRecord
<1>4. /\ h.savedText = r.savedText /\ h.record = r.record /\ h.pending = r.pending
      /\ h.expState = r.expState /\ h.expFile = r.expFile /\ h.queuedSave = r.queuedSave
  BY <1>1 DEF SyncAutoRecord
<1>5. RecOK(h, v)
  <2> HIDE DEF h
  <2> QED
    BY <1>2, <1>3, <1>4 DEF RecOK, Fine, AppliedVouched
<1> QED
  BY <1>4, <1>5, QuietOK DEF Hold
\* A read is asked for: nothing is sent or stored by it.
LEMMA ReadOK ==
  ASSUME NEW r, NEW v, Fine(r, v), ~r.runStopped, NEW q,
         NEW action \in {"Check", "Reconcile"},
         q => r.queuedSave \/ action = "Check"
  PROVE  PlanOK(q, Emit(r, action, FALSE), v)
<1> DEFINE p == Emit(r, action, FALSE)
           e == [r EXCEPT
                   !.active = TRUE, !.held = "None", !.pending = action,
                   !.commitOnly = FALSE, !.retry = "none", !.retries = @,
                   !.expState = IF action = "Check" THEN NoState ELSE @,
                   !.expFile = NoText, !.record = @, !.due = FALSE]
<1>1. r \in SyncAutoRecord /\ Sane(r)
  BY DEF Fine
<1>2. p.rec = e /\ p.op = [NoOperation EXCEPT !.kind = action, !.phase = "todo"]
  BY <1>1 DEF Emit, SyncAutoRecord
<1>3. e \in SyncAutoRecord
  <2>1. PICK x \in LocalState \cup {NoState} :
          x = IF action = "Check" THEN NoState ELSE r.expState
    BY <1>1 DEF SyncAutoRecord
  <2>2. e = [r EXCEPT
               !.active = TRUE, !.held = "None", !.pending = action,
               !.commitOnly = FALSE, !.retry = "none",
               !.expState = x, !.expFile = NoText, !.due = FALSE]
    BY <1>1, <2>1 DEF SyncAutoRecord
  <2>3. "None" \in Reasons /\ action \in Actions
    BY DEF Reasons, Actions
  <2> HIDE DEF e
  <2> QED
    BY <1>1, <2>2, <2>3 DEF SyncAutoRecord
<1>4. /\ e.active /\ e.held = "None" /\ e.pending = action /\ ~e.commitOnly
      /\ e.retry = "none" /\ e.savedText = r.savedText /\ e.record = r.record
      /\ e.queuedSave = r.queuedSave /\ e.runStopped = r.runStopped
      /\ e.retiring = r.retiring /\ e.messageId = r.messageId
  BY <1>1 DEF SyncAutoRecord
<1>5. RecOK(e, v) /\ SaveKept(q, e)
  <2> HIDE DEF e
  <2> QED
    BY <1>1, <1>3, <1>4 DEF Fine, Sane, RecOK, AppliedVouched, SaveKept
<1>6. OpOK(e, p.op, v)
  <2> DEFINE o == [NoOperation EXCEPT !.kind = action, !.phase = "todo"]
  <2>1. NoOperation \in Operation /\ IsFiniteSet(NoOperation.inv.msgs)
    BY NothingOK DEF OpOK
  <2>2. o \in Operation
    BY <2>1 DEF Operation, Actions, Phases
  <2>3. /\ o.phase = "todo" /\ o.kind = action /\ ~o.commitOnly /\ o.rec = NoRecord
        /\ o.outcome = "none" /\ o.inv = NoOperation.inv
    BY DEF NoOperation
  <2>4. OpOK(e, o, v)
    <3> HIDE DEF e, o
    <3> QED
      BY <1>4, <2>1, <2>2, <2>3 DEF OpOK
  <2> QED
    BY <1>2, <2>4
<1> HIDE DEF e, p
<1> QED
  BY <1>2, <1>5, <1>6 DEF PlanOK, p

\* What any other plan asks for comes from the record as it was amended.
Worked(p, r, v, action) ==
    /\ Fine(p.rec, v)
    /\ p.rec.pending = action /\ p.rec.active
    /\ p.rec.queuedSave = r.queuedSave
    /\ p.rec.expState = r.expState
    /\ p.rec.record = IF action = "AutoApply" THEN NoRecord ELSE r.record
    /\ p.rec.expFile = IF action = "AutoApply" THEN r.expFile ELSE NoText
    /\ p.op \in Operation /\ IsFiniteSet(p.op.inv.msgs)
    /\ p.op.kind = action /\ p.op.phase = "todo"
    /\ p.op.commitOnly <=> action = "Reconcile"
    /\ p.op.id = r.messageId /\ p.op.state = r.expState
    /\ p.op.rec = p.rec.record /\ p.op.text = p.rec.expFile
    /\ p.op.outcome = "none" /\ p.op.inv = NoInventory

\* Emit keeps a record its codec writes.
LEMMA WorkPlanned ==
  ASSUME NEW r, NEW v, Fine(r, v), ~r.runStopped,
         NEW action \in Actions \ {"NoOp", "Check"}, NEW only \in BOOLEAN,
         action = "Reconcile" <=> only
  PROVE  Worked(Emit(r, action, only), r, v, action)
<1> DEFINE p == Emit(r, action, only)
           e == [r EXCEPT
                   !.active = TRUE, !.held = "None", !.pending = action,
                   !.commitOnly = only, !.retry = "none", !.retries = 0,
                   !.expState = @,
                   !.expFile = IF action = "AutoApply" THEN @ ELSE NoText,
                   !.record = IF action = "AutoApply" THEN NoRecord ELSE @,
                   !.due = @]
           o == [NoOperation EXCEPT
                   !.kind = action, !.phase = "todo",
                   !.commitOnly = only, !.id = e.messageId,
                   !.rec = e.record, !.state = e.expState, !.text = e.expFile]
<1>1. r \in SyncAutoRecord /\ Sane(r)
  BY DEF Fine
<1>2. p.rec = e /\ p.op = o
  BY <1>1 DEF Emit, SyncAutoRecord
<1>3. e \in SyncAutoRecord
  <2>1. PICK x \in Record \cup {NoRecord}, t \in Texts \cup {NoText} :
          /\ x = IF action = "AutoApply" THEN NoRecord ELSE r.record
          /\ t = IF action = "AutoApply" THEN r.expFile ELSE NoText
    BY <1>1 DEF SyncAutoRecord
  <2>2. e = [r EXCEPT
               !.active = TRUE, !.held = "None", !.pending = action,
               !.commitOnly = only, !.retry = "none", !.retries = 0,
               !.expFile = t, !.record = x]
    BY <1>1, <2>1 DEF SyncAutoRecord
  <2>3. "None" \in Reasons /\ action \in Actions /\ 0 \in 0..RetryLimit
    BY AutoAssumption DEF Reasons, Actions
  <2> HIDE DEF e
  <2>4. CASE only
    <3>1. e = [r EXCEPT
                 !.active = TRUE, !.held = "None", !.pending = action,
                 !.commitOnly = TRUE, !.retry = "none", !.retries = 0,
                 !.expFile = t, !.record = x]
      BY <2>2, <2>4
    <3> QED
      BY <1>1, <3>1, <2>3 DEF SyncAutoRecord
  <2>5. CASE ~only
    <3>1. e = [r EXCEPT
                 !.active = TRUE, !.held = "None", !.pending = action,
                 !.commitOnly = FALSE, !.retry = "none", !.retries = 0,
                 !.expFile = t, !.record = x]
      BY <2>2, <2>5
    <3> QED
      BY <1>1, <3>1, <2>3 DEF SyncAutoRecord
  <2> QED
    BY <2>4, <2>5
<1>4. /\ e.active /\ e.held = "None" /\ e.pending = action /\ e.commitOnly = only
      /\ e.retry = "none" /\ e.savedText = r.savedText /\ e.expState = r.expState
      /\ e.record = (IF action = "AutoApply" THEN NoRecord ELSE r.record)
      /\ e.expFile = (IF action = "AutoApply" THEN r.expFile ELSE NoText)
      /\ e.queuedSave = r.queuedSave /\ e.runStopped = r.runStopped
      /\ e.retiring = r.retiring /\ e.messageId = r.messageId
  BY <1>1 DEF SyncAutoRecord
<1>5. Fine(e, v)
  <2> HIDE DEF e, p
  <2> QED
    BY <1>1, <1>3, <1>4 DEF Fine, Sane
<1>6. NoOperation \in Operation /\ IsFiniteSet(NoOperation.inv.msgs)
  BY NothingOK DEF OpOK
<1>7. /\ e.messageId \in Nat /\ e.record \in Record \cup {NoRecord}
      /\ e.expState \in LocalState \cup {NoState} /\ e.expFile \in Texts \cup {NoText}
  <2> HIDE DEF e, p
  <2> QED
    BY <1>3 DEF SyncAutoRecord
<1> HIDE DEF p
<1>8. o \in Operation
  <2>1. PICK i \in Nat, x \in Record \cup {NoRecord}, s \in LocalState \cup {NoState},
             t \in Texts \cup {NoText} :
          i = e.messageId /\ x = e.record /\ s = e.expState /\ t = e.expFile
    BY <1>7
  <2>2. o = [NoOperation EXCEPT !.kind = action, !.phase = "todo", !.commitOnly = only,
                                !.id = i, !.rec = x, !.state = s, !.text = t]
    BY <2>1
  <2>3. "todo" \in Phases
    BY DEF Phases
  <2> HIDE DEF o, e
  <2>4. CASE only
    <3>1. o = [NoOperation EXCEPT !.kind = action, !.phase = "todo", !.commitOnly = TRUE,
                                  !.id = i, !.rec = x, !.state = s, !.text = t]
      BY <2>2, <2>4
    <3> QED
      BY <1>6, <2>3, <3>1 DEF Operation
  <2>5. CASE ~only
    <3>1. o = [NoOperation EXCEPT !.kind = action, !.phase = "todo", !.commitOnly = FALSE,
                                  !.id = i, !.rec = x, !.state = s, !.text = t]
      BY <2>2, <2>5
    <3> QED
      BY <1>6, <2>3, <3>1 DEF Operation
  <2> QED
    BY <2>4, <2>5
<1>9. /\ o.kind = action /\ o.phase = "todo" /\ o.commitOnly = only
      /\ o.id = e.messageId /\ o.state = e.expState /\ o.rec = e.record
      /\ o.text = e.expFile /\ o.outcome = "none" /\ o.inv = NoInventory
  <2> HIDE DEF e
  <2> QED
    BY DEF NoOperation
<1> HIDE DEF e, o
<1> QED
  BY <1>2, <1>4, <1>5, <1>6, <1>8, <1>9 DEF NoOperation, Worked, p
\* A commit, with the state it leaves.
LEMMA CommitPlanned ==
  ASSUME NEW r, NEW v, Fine(r, v), ~r.runStopped, NEW s, Later(s), NEW q, q => r.queuedSave
  PROVE  /\ PlanOK(q, Commit(r, s), v)
         /\ Commit(r, s).op.kind = "Reconcile" /\ Commit(r, s).op.state = s
         /\ Commit(r, s).op.phase = "todo"
<1> DEFINE c == [r EXCEPT !.expState = s]
           p == Emit(c, "Reconcile", TRUE)
<1>1. c \in SyncAutoRecord
  BY DEF Fine, SyncAutoRecord, Later, Sound
<1>2. /\ c.expState = s /\ c.record = r.record /\ c.queuedSave = r.queuedSave
      /\ c.runStopped = r.runStopped /\ c.savedText = r.savedText
      /\ c.active = r.active /\ c.pending = r.pending /\ c.commitOnly = r.commitOnly
      /\ c.retry = r.retry /\ c.retries = r.retries /\ c.held = r.held
      /\ c.retiring = r.retiring /\ c.messageId = r.messageId
  BY DEF Fine, SyncAutoRecord
<1> HIDE DEF c
<1>3. Fine(c, v)
  BY <1>1, <1>2 DEF Fine, Sane
<1>4. "Reconcile" \in Actions \ {"NoOp", "Check"} /\ TRUE \in BOOLEAN
  BY DEF Actions
<1>5. Worked(p, c, v, "Reconcile")
  BY <1>2, <1>3, <1>4, WorkPlanned, Zenon
<1>5a. /\ Fine(p.rec, v) /\ p.rec.pending = "Reconcile" /\ p.rec.queuedSave = r.queuedSave
      /\ p.rec.record = r.record
      /\ p.op \in Operation /\ IsFiniteSet(p.op.inv.msgs)
      /\ p.op.kind = "Reconcile" /\ p.op.phase = "todo" /\ p.op.state = s
      /\ p.op.rec = p.rec.record /\ p.op.outcome = "none"
  BY <1>2, <1>5 DEF Worked
<1> HIDE DEF p
<1>6. RecOK(p.rec, v) /\ SaveKept(q, p.rec)
  BY <1>5a DEF RecOK, AppliedVouched, SaveKept
<1>7. OpOK(p.rec, p.op, v)
  BY <1>5a DEF OpOK, CommitOK, Fine
<1> QED
  BY <1>5a, <1>6, <1>7 DEF PlanOK, Commit, c, p
---------------------------------------------------------------------------
(* What the policy concludes from a complete read.                         *)

\* A request or a commit rests on what the read showed, and is still to be made.
Grounded(o, msgs) ==
    /\ o.phase \in {"idle", "todo"}
    /\ o.kind = "Retire" =>
         /\ \E n \in msgs : n.id = o.id /\ n.rec = o.rec
         /\ \E h \in msgs : h.rec.seq = st.confirmedSeq
         /\ st.confirmedSeq # 0 /\ o.rec.seq < st.confirmedSeq
    /\ o.kind = "EditInPlace" => \E h \in msgs : h.id = o.id /\ h.rec.seq = st.confirmedSeq
    /\ o.kind \in {"Post", "EditInPlace"} => \A n \in msgs : n.rec.seq # st.pendingSeq
    /\ o.commitOnly =>
         \/ o.state.confirmedSeq = st.confirmedSeq
         \/ \E n \in msgs : n.rec.seq = o.state.confirmedSeq /\ st.confirmedSeq < n.rec.seq

Planned(q, p, v, msgs) == PlanOK(q, p, v) /\ Grounded(p.op, msgs)

\* A record while its operation was a read.
Reading(r, v) == Fine(r, v) /\ ~r.runStopped /\ r.pending \notin {"NoOp", "AutoApply"}

\* A hold, and another read, rest on nothing.
LEMMA HoldPlanned ==
  ASSUME NEW r, NEW v, Reading(r, v), NEW reason \in Reasons \ {"RetryStopped"},
         NEW q, q => r.queuedSave, NEW msgs
  PROVE  Planned(q, Hold(r, reason), v, msgs)
<1>1. RecOK(r, v)
  BY DEF Reading, RecOK, AppliedVouched
<1>2. PlanOK(q, Hold(r, reason), v)
  BY <1>1, HoldOK
<1>3. Hold(r, reason).op = NoOperation
  BY DEF Hold, Quiet
<1> QED
  BY <1>2, <1>3 DEF Planned, Grounded, NoOperation

\* A read asks for nothing that would have to be justified.
LEMMA ReadPlanned ==
  ASSUME NEW r, NEW v, Fine(r, v), ~r.runStopped, NEW q,
         NEW action \in {"Check", "Reconcile"},
         q => r.queuedSave \/ action = "Check", NEW msgs
  PROVE  Planned(q, Emit(r, action, FALSE), v, msgs)
<1>1. PlanOK(q, Emit(r, action, FALSE), v)
  BY ReadOK
<1>2. Emit(r, action, FALSE).op = [NoOperation EXCEPT !.kind = action, !.phase = "todo"]
  BY DEF Emit
<1> QED
  BY <1>1, <1>2 DEF Planned, Grounded, NoOperation

\* A retry waits, or stops the run at the limit.
LEMMA RetryPlanned ==
  ASSUME NEW r, NEW v, Reading(r, v), NEW q, q => r.queuedSave, NEW msgs
  PROVE  Planned(q, Retry(r), v, msgs)
<1>1. r \in SyncAutoRecord /\ Sane(r) /\ r.retries \in 0..RetryLimit /\ RetryLimit \in Nat \ {0}
  BY AutoAssumption DEF Reading, Fine, SyncAutoRecord
<1>2. CASE r.retries >= RetryLimit
  <2> DEFINE h == [r EXCEPT !.runStopped = TRUE, !.retry = "none",
                            !.active = FALSE, !.held = "RetryStopped"]
  <2>1. Retry(r) = Quiet(h)
    BY <1>1, <1>2 DEF Retry, Hold, SyncAutoRecord
  <2>2. h \in SyncAutoRecord
    BY <1>1 DEF SyncAutoRecord, Reasons
  <2>3. /\ h.runStopped /\ h.retry = "none" /\ ~h.active /\ h.held = "RetryStopped"
        /\ h.pending = r.pending /\ h.commitOnly = r.commitOnly
        /\ h.retiring = r.retiring /\ h.messageId = r.messageId
        /\ h.savedText = r.savedText /\ h.record = r.record /\ h.queuedSave = r.queuedSave
    BY <1>1 DEF SyncAutoRecord
  <2> HIDE DEF h
  <2>4. RecOK(h, v)
    BY <1>1, <2>2, <2>3 DEF Reading, RecOK, Fine, Sane, AppliedVouched
  <2>5. PlanOK(q, Quiet(h), v)
    BY <2>3, <2>4, QuietOK
  <2> QED
    BY <2>1, <2>5 DEF Planned, Grounded, Quiet, NoOperation
<1>3. CASE ~(r.retries >= RetryLimit)
  <2> DEFINE h == [r EXCEPT !.active = FALSE, !.retry = "waiting", !.retries = r.retries + 1]
  <2>1. Retry(r) = Quiet(h)
    BY <1>3 DEF Retry
  <2>2. r.retries + 1 \in 0..RetryLimit /\ r.retries + 1 > 0
    BY <1>1, <1>3
  <2>3. h \in SyncAutoRecord
    BY <1>1, <2>2 DEF SyncAutoRecord
  <2>4. /\ h.runStopped = r.runStopped /\ ~h.active /\ h.held = r.held
        /\ h.retries > 0 /\ h.pending = r.pending /\ h.commitOnly = r.commitOnly
        /\ h.retiring = r.retiring /\ h.messageId = r.messageId
        /\ h.savedText = r.savedText /\ h.record = r.record /\ h.queuedSave = r.queuedSave
    BY <1>1, <2>2 DEF SyncAutoRecord
  <2> HIDE DEF h
  <2>5. RecOK(h, v)
    BY <1>1, <2>3, <2>4 DEF Reading, RecOK, Fine, Sane, AppliedVouched
  <2>6. PlanOK(q, Quiet(h), v)
    BY <2>4, <2>5, QuietOK
  <2> QED
    BY <2>1, <2>6 DEF Planned, Grounded, Quiet, NoOperation
<1> QED
  BY <1>2, <1>3

\* A finished transaction forgets its work and checks again when it has to.
LEMMA DonePlanned ==
  ASSUME NEW r, NEW v, Reading(r, v), NEW q, q => r.queuedSave, NEW msgs
  PROVE  Planned(q, Done(r), v, msgs)
<1> DEFINE d == [Cleared(r) EXCEPT
                   !.active = FALSE, !.retries = 0, !.retry = "none",
                   !.pending = "NoOp", !.commitOnly = FALSE,
                   !.expState = NoState, !.expFile = NoText, !.queuedCheck = FALSE]
           e == [d EXCEPT !.queuedSave = FALSE]
<1>1. r \in SyncAutoRecord /\ Sane(r) /\ 0 \in 0..RetryLimit
  BY AutoAssumption DEF Reading, Fine, SyncAutoRecord
<1>2. d \in SyncAutoRecord
  <2>1. Cleared(r) \in SyncAutoRecord
    BY <1>1 DEF Cleared, SyncAutoRecord
  <2>2. "NoOp" \in Actions
    BY DEF Actions
  <2>3. PICK c : c = [Cleared(r) EXCEPT !.active = FALSE, !.retries = 0, !.retry = "none",
                                        !.pending = "NoOp", !.commitOnly = FALSE]
    OBVIOUS
  <2>4. c \in SyncAutoRecord
    BY <1>1, <2>1, <2>2, <2>3 DEF SyncAutoRecord
  <2>5. d = [c EXCEPT !.expState = NoState, !.expFile = NoText, !.queuedCheck = FALSE]
    BY <2>3
  <2> HIDE DEF d
  <2> QED
    BY <2>4, <2>5 DEF SyncAutoRecord
<1>3. /\ d.runStopped = r.runStopped /\ ~d.active /\ d.held = r.held
      /\ d.retry = "none" /\ d.pending = "NoOp" /\ ~d.commitOnly
      /\ ~d.retiring /\ d.savedText = r.savedText /\ d.record = NoRecord
      /\ d.queuedSave = r.queuedSave
  BY <1>1 DEF Cleared, SyncAutoRecord
<1>4. Done(r) = IF r.queuedSave \/ (r.queuedCheck /\ r.due)
                THEN Emit(e, "Check", FALSE) ELSE Quiet(d)
  BY DEF Done
<1> HIDE DEF d
<1>5. Fine(d, v) /\ RecOK(d, v)
  BY <1>1, <1>2, <1>3 DEF Reading, RecOK, Fine, Sane, AppliedVouched
<1>6. e \in SyncAutoRecord
  BY <1>2 DEF SyncAutoRecord
<1>7. /\ e.runStopped = d.runStopped /\ ~e.active /\ e.held = d.held
      /\ e.retry = "none" /\ e.pending = "NoOp" /\ ~e.commitOnly
      /\ ~e.retiring /\ e.savedText = d.savedText /\ e.record = NoRecord
  BY <1>2, <1>3 DEF SyncAutoRecord
<1> HIDE DEF e
<1>8. Fine(e, v) /\ ~e.runStopped
  BY <1>1, <1>3, <1>5, <1>6, <1>7 DEF Reading, Fine, Sane
<1>9. Planned(q, Emit(e, "Check", FALSE), v, msgs)
  BY <1>8, ReadPlanned
<1>10. Planned(q, Quiet(d), v, msgs)
  <2>1. PlanOK(q, Quiet(d), v)
    BY <1>3, <1>5, QuietOK
  <2> QED
    BY <2>1 DEF Planned, Grounded, Quiet, NoOperation
<1> QED
  BY <1>4, <1>9, <1>10
\* What is known of a read when its answer is handled.
Seen(inv) == inv \in Inventories /\ IsFiniteSet(inv.msgs)

\* The bytes staged are new under their number, and claimed.
LEMMA StagePlanned ==
  ASSUME DataOK, NEW v, Vouching(v), NEW r, Reading(r, v), st.pendingSeq = 0,
         NEW inv, Seen(inv), NEW q, q => r.queuedSave
  PROVE  Planned(q, StageLocalChanges(r, inv), v, inv.msgs)
<1> DEFINE key == NextVersion(Observation(inv.msgs))
           reserved == ReserveVersion(st, key)
           record == PendingRecord(reserved)
           next == AppendIssued(reserved, record)
           c == [r EXCEPT !.expState = next, !.record = record,
                          !.editRefused = FALSE, !.queuedSave = FALSE]
           p == Emit(c, "Publish", FALSE)
           ready == /\ r.savedText = file \/ saved = file
                    /\ CanReserve(st) /\ key \in Payloads
<1>1. \/ ready /\ StageLocalChanges(r, inv) = p
      \/ \E reason \in Reasons \ {"RetryStopped"} : StageLocalChanges(r, inv) = Hold(r, reason)
  <2>1. {"NoSavedBytes", "NeedsReview", "StoreMismatch"} \subseteq Reasons \ {"RetryStopped"}
    BY DEF Reasons
  <2>2. \/ ready /\ StageLocalChanges(r, inv) = p
        \/ StageLocalChanges(r, inv) = Hold(r, "NoSavedBytes")
        \/ StageLocalChanges(r, inv) = Hold(r, "NeedsReview")
        \/ StageLocalChanges(r, inv) = Hold(r, "StoreMismatch")
    BY DEF StageLocalChanges
  <2> HIDE DEF p, ready
  <2> QED
    BY <2>1, <2>2
<1>2. ASSUME ready PROVE Planned(q, p, v, inv.msgs)
  <2>1. /\ st \in LocalState /\ Serializes(st) /\ st.confirmedSeq <= st.seq /\ st.version = 1
        /\ \A b \in Base : b.seq <= st.seq
        /\ st.confirmedSeq # 0 => \E m \in st.own : m.rec.seq = st.confirmedSeq
        /\ file \in Texts /\ saved \in Claimed \cup {NoText}
    BY DEF DataOK, Sound
  <2>2. key.text = file /\ file \in v
    BY <1>2, <2>1, AutoAssumption DEF Reading, Fine, Vouching, NextVersion
  <2> HIDE DEF key
  <2>3. PICK k \in Payloads : k = key
    BY <1>2
  <2>4. PICK rs, x : rs = reserved /\ x = record
    OBVIOUS
  <2>5. PICK n : n = AppendIssued(rs, x)
    OBVIOUS
  <2>6. rs = ReserveVersion(st, k) /\ x = PendingRecord(rs)
    BY <2>3, <2>4
  <2>7. /\ x \in Record /\ x.seq = st.seq + 1
        /\ n \in LocalState /\ Serializes(n) /\ x \in n.issued
        /\ n.issued \subseteq st.issued \cup {x}
        /\ n.own = st.own /\ n.confirmedSeq = st.confirmedSeq
        /\ n.seq = st.seq + 1 /\ n.pendingSeq = st.seq + 1 /\ n.ownHash = k
        /\ n.version = st.version
    BY <1>2, <2>1, <2>5, <2>6, ReserveSerializes
  <2>8. x = PendingRecord(n) /\ x.payload = k
    BY <2>6, <2>7 DEF PendingRecord, ReserveVersion, ReserveSyncSeq, LocalState
  <2>9. c = [r EXCEPT !.expState = n, !.record = x,
                      !.editRefused = FALSE, !.queuedSave = FALSE]
    BY <2>4, <2>5
  <2> HIDE DEF c
  <2>10. c \in SyncAutoRecord
    BY <2>7, <2>9 DEF Reading, Fine, SyncAutoRecord
  <2>11. /\ c.expState = n /\ c.record = x /\ c.runStopped = r.runStopped
         /\ c.savedText = r.savedText /\ c.active = r.active /\ c.pending = r.pending
         /\ c.commitOnly = r.commitOnly /\ c.retry = r.retry /\ c.retries = r.retries
         /\ c.held = r.held /\ c.retiring = r.retiring /\ c.messageId = r.messageId
    BY <2>9 DEF Reading, Fine, SyncAutoRecord
  <2>12. Fits(x)
    <3>1. st.seq \in Nat /\ \A b \in Base : b.seq # st.seq + 1
      BY <2>1 DEF LocalState
    <3> QED
      BY <2>7, <3>1 DEF Fits
  <2>13. Fine(c, v) /\ ~c.runStopped
    BY <2>2, <2>3, <2>8, <2>10, <2>11, <2>12 DEF Reading, Fine, Sane
  <2>14. "Publish" \in Actions \ {"NoOp", "Check"} /\ FALSE \in BOOLEAN
    BY DEF Actions
  <2>15. Worked(p, c, v, "Publish")
    BY <2>13, <2>14, WorkPlanned, Zenon
  <2> HIDE DEF p
  <2>16. /\ Fine(p.rec, v) /\ p.rec.pending = "Publish" /\ p.rec.active /\ p.rec.record = x
         /\ p.op \in Operation /\ IsFiniteSet(p.op.inv.msgs)
         /\ p.op.kind = "Publish" /\ p.op.phase = "todo" /\ p.op.state = n
         /\ p.op.rec = x /\ p.op.outcome = "none" /\ ~p.op.commitOnly
    BY <2>11, <2>15 DEF Worked
  <2>17. Sound(n)
    <3>1. st.seq \in Nat /\ st.confirmedSeq \in Nat
      BY <2>1 DEF LocalState
    <3> QED
      BY <2>1, <2>7, <3>1 DEF Sound
  <2>18. PublishOK(p.rec, p.op)
    BY <2>7, <2>8, <2>16, <2>17 DEF PublishOK
  <2>19. OpOK(p.rec, p.op, v)
    BY <2>16, <2>18 DEF OpOK, Fine
  <2>20. RecOK(p.rec, v) /\ SaveKept(q, p.rec)
    BY <2>2, <2>3, <2>8, <2>16 DEF RecOK, AppliedVouched, SaveKept
  <2> QED
    BY <2>16, <2>19, <2>20 DEF Planned, PlanOK, Grounded
<1> HIDE DEF p, ready
<1> QED
  BY <1>1, <1>2, HoldPlanned

\* A successor of the base is applied over the text of the base.
LEMMA ApplyPlanned ==
  ASSUME DataOK, NEW v, Vouching(v), NEW r, Reading(r, v), st.pendingSeq = 0,
         NEW inv, Seen(inv), Unseen(inv), NEW q, q => r.queuedSave
  PROVE  Planned(q, ApplySuccessor(r, inv), v, inv.msgs)
<1> DEFINE next == [st EXCEPT !.base = inv.other.key]
           c == [r EXCEPT !.expState = next, !.expFile = inv.other.key.text]
           w == Emit(c, "AutoApply", FALSE)
           p == [w EXCEPT !.op.from = file, !.op.knows = inv.other.knows]
<1>1. \/ Text(st.base) = file /\ ApplySuccessor(r, inv) = p
      \/ \E reason \in Reasons \ {"RetryStopped"} : ApplySuccessor(r, inv) = Hold(r, reason)
  <2>1. {"Conflict", "UnsafeImpact"} \subseteq Reasons \ {"RetryStopped"}
    BY DEF Reasons
  <2>2. \/ Text(st.base) = file /\ ApplySuccessor(r, inv) = p
        \/ ApplySuccessor(r, inv) = Hold(r, "Conflict")
        \/ ApplySuccessor(r, inv) = Hold(r, "UnsafeImpact")
    BY DEF ApplySuccessor
  <2> HIDE DEF p
  <2> QED
    BY <2>1, <2>2
<1>2. ASSUME Text(st.base) = file PROVE Planned(q, p, v, inv.msgs)
  <2>1. /\ inv.other.key \in Payloads /\ inv.other.knows \in SUBSET Payloads
        /\ inv.other.key # st.base
    BY DEF Seen, Inventories, OtherHead, Unseen, Stale
  <2>2. PICK k \in Payloads : k = inv.other.key
    BY <2>1
  <2>3. k.text \in Texts /\ file \in Texts
    BY AutoAssumption DEF DataOK
  <2>4. PICK n : n = next
    OBVIOUS
  <2>5. n \in LocalState /\ n.base = k
    BY <2>2, <2>4 DEF DataOK, Sound, LocalState
  <2>6. c = [r EXCEPT !.expState = n, !.expFile = k.text]
    BY <2>2, <2>4
  <2> HIDE DEF c
  <2>7. c \in SyncAutoRecord
    BY <2>3, <2>5, <2>6 DEF Reading, Fine, SyncAutoRecord
  <2>8. /\ c.expState = n /\ c.expFile = k.text /\ c.runStopped = r.runStopped
        /\ c.savedText = r.savedText /\ c.active = r.active /\ c.pending = r.pending
        /\ c.commitOnly = r.commitOnly /\ c.retry = r.retry /\ c.retries = r.retries
        /\ c.held = r.held /\ c.retiring = r.retiring /\ c.messageId = r.messageId
        /\ c.queuedSave = r.queuedSave /\ c.record = r.record
    BY <2>6 DEF Reading, Fine, SyncAutoRecord
  <2>9. Fine(c, v) /\ ~c.runStopped
    BY <2>7, <2>8 DEF Reading, Fine, Sane
  <2>10. "AutoApply" \in Actions \ {"NoOp", "Check"} /\ FALSE \in BOOLEAN
    BY DEF Actions
  <2>11. Worked(w, c, v, "AutoApply")
    BY <2>9, <2>10, WorkPlanned, Zenon
  <2>12. w = [rec |-> w.rec, op |-> w.op]
    BY DEF Emit
  <2> HIDE DEF w
  <2>13. p.rec = w.rec /\ p.op = [w.op EXCEPT !.from = file, !.knows = inv.other.knows]
    BY <2>12
  <2> HIDE DEF p
  <2>14. /\ Fine(w.rec, v) /\ w.rec.pending = "AutoApply" /\ w.rec.queuedSave = r.queuedSave
         /\ w.rec.record = NoRecord /\ w.rec.expState = n /\ w.rec.expFile = k.text
         /\ w.op \in Operation /\ IsFiniteSet(w.op.inv.msgs)
         /\ w.op.kind = "AutoApply" /\ w.op.phase = "todo" /\ w.op.state = n
         /\ w.op.rec = NoRecord /\ w.op.text = k.text /\ w.op.outcome = "none"
         /\ ~w.op.commitOnly
    BY <2>8, <2>11 DEF Worked
  <2>15. p.op \in Operation
    BY <2>1, <2>3, <2>13, <2>14 DEF Operation
  <2>16. /\ p.op.inv = w.op.inv /\ p.op.kind = "AutoApply" /\ p.op.phase = "todo"
         /\ p.op.state = n /\ p.op.rec = NoRecord /\ p.op.text = k.text
         /\ p.op.outcome = "none" /\ ~p.op.commitOnly /\ p.op.from = file
    BY <2>13, <2>14 DEF Operation
  <2>17. ApplyOK(p.rec, p.op, v)
    BY <1>2, <2>1, <2>2, <2>3, <2>4, <2>13, <2>14, <2>16 DEF ApplyOK
  <2>18. OpOK(p.rec, p.op, v)
    BY <2>13, <2>14, <2>15, <2>16, <2>17 DEF OpOK
  <2>19. st # n
    BY <2>1, <2>2, <2>5
  <2>20. RecOK(p.rec, v) /\ SaveKept(q, p.rec)
    BY <2>13, <2>14, <2>19 DEF RecOK, AppliedVouched, SaveKept
  <2> QED
    BY <2>16, <2>18, <2>20 DEF Planned, PlanOK, Grounded
<1> HIDE DEF p
<1> QED
  BY <1>1, <1>2, HoldPlanned
\* The first of the messages is one of them.
LEMMA FirstIsOne ==
  ASSUME NEW S \in SUBSET Message, IsFiniteSet(S), S # {}
  PROVE  FirstOf(S) \in S
<1> DEFINE f == [m \in S |-> m.id]
<1>1. f \in [S -> Int]
  BY DEF Message
<1>2. PICK m \in S : \A n \in S : f[m] <= f[n]
  <2> HIDE DEF f
  <2> QED
    BY <1>1, LeastExists
<1>3. \E m_1 \in S : \A n \in S : m_1.id <= n.id
  BY <1>2
<1> QED
  BY <1>3 DEF FirstOf

\* Nothing pending is found only when nothing the read showed is pending.
LEMMA NoneFound ==
  ASSUME NEW inv, Seen(inv), st.pendingSeq # 0, PendingCopies(st, inv.msgs) = {}
  PROVE  \A n \in inv.msgs : n.rec.seq # st.pendingSeq
<1> DEFINE copies == {m \in inv.msgs : m.rec.seq = st.pendingSeq}
<1>1. SUFFICES ASSUME copies # {} PROVE FALSE
  OBVIOUS
<1>2. copies \in SUBSET Message /\ IsFiniteSet(copies)
  BY FS_Subset DEF Seen, Inventories
<1> DEFINE f == [m \in copies |-> m.id]
<1>3. f \in [copies -> Int]
  BY <1>2 DEF Message
<1>4. PICK m \in copies : \A n \in copies : f[m] <= f[n]
  <2> HIDE DEF f, copies
  <2> QED
    BY <1>1, <1>2, <1>3, LeastExists
<1>5. m \in PendingCopies(st, inv.msgs)
  BY <1>4 DEF PendingCopies
<1> QED
  BY <1>5

\* An own message older than the head is deleted, or the run is done.
LEMMA RetirePlanned ==
  ASSUME DataOK, NEW v, Vouching(v), NEW r, Reading(r, v), st.pendingSeq = 0,
         NEW inv, Seen(inv), NEW q, q => r.queuedSave
  PROVE  Planned(q, RetireOrFinish(r, inv), v, inv.msgs)
<1> DEFINE obs == Observation(inv.msgs)
           candidates == RetireCandidates(st, obs)
           m == FirstOf(candidates)
           found == {n \in inv.msgs : n.id = m.id}
           c == [r EXCEPT !.expState = RemoveAbsent(st, m.id), !.messageId = m.id,
                          !.record = m.rec, !.retiring = TRUE, !.retired = r.retired + 1]
           p == Emit(c, "Retire", FALSE)
           ready == /\ ~(r.retired >= RetireLimit) /\ candidates # {}
                    /\ \E n \in found : CanDelete(st, n.id, n.rec)
<1>1. \/ ready /\ RetireOrFinish(r, inv) = p
      \/ RetireOrFinish(r, inv) = Done(r)
      \/ \E reason \in Reasons \ {"RetryStopped"} : RetireOrFinish(r, inv) = Hold(r, reason)
  <2>1. {"OwnershipChanged", "NeedsReview"} \subseteq Reasons \ {"RetryStopped"}
    BY DEF Reasons
  <2>2. \/ ready /\ RetireOrFinish(r, inv) = p
        \/ RetireOrFinish(r, inv) = Done(r)
        \/ RetireOrFinish(r, inv) = Hold(r, "OwnershipChanged")
        \/ RetireOrFinish(r, inv) = Hold(r, "NeedsReview")
    BY DEF RetireOrFinish
  <2> HIDE DEF p, ready
  <2> QED
    BY <2>1, <2>2
<1>2. ASSUME ready PROVE Planned(q, p, v, inv.msgs)
  <2>1. /\ st \in LocalState /\ Serializes(st) /\ st.confirmedSeq <= st.seq /\ st.version = 1
        /\ st.confirmedSeq # 0 => \E h \in st.own : h.rec.seq = st.confirmedSeq
        /\ StageIsPending
        /\ \A b \in Base : b.seq <= st.seq /\ b.payload.text \in Claimed
        /\ \A a, b \in Base : a.seq = b.seq => a = b
    BY DEF DataOK, Sound
  <2>2. /\ candidates \subseteq st.own /\ \A n \in candidates : n.rec.seq < st.confirmedSeq
        /\ Expected(st, obs) /\ HeadKnown(st, obs) /\ st.confirmedSeq # 0
    BY <1>2 DEF RetireCandidates
  <2>3. /\ st.own \in SUBSET Message /\ IsFiniteSet(st.own)
        /\ \A x, y \in st.own : x.id = y.id => x = y
    BY <2>1 DEF LocalState, Serializes, OwnValid
  <2>4. PICK x \in candidates : x = m
    <3>1. IsFiniteSet(candidates)
      BY <2>2, <2>3, FS_Subset
    <3> HIDE DEF candidates
    <3> QED
      BY <1>2, <2>2, <2>3, <3>1, FirstIsOne
  <2>5. x \in st.own /\ x \in Message /\ x.rec.seq < st.confirmedSeq
    BY <2>2, <2>3, <2>4
  <2>6. PICK n \in inv.msgs : n.id = x.id /\ n.rec = x.rec
    <3>1. PICK n \in inv.msgs : n.id = x.id /\ CanDelete(st, n.id, n.rec)
      BY <1>2, <2>4
    <3> QED
      BY <2>3, <2>5, <3>1 DEF CanDelete, AtId
  <2>7. \E h \in inv.msgs : h.rec.seq = st.confirmedSeq
    <3>1. inv.msgs \in SUBSET Message /\ IsFiniteSet(inv.msgs)
      BY DEF Seen, Inventories
    <3>2. PICK h \in inv.msgs : obs = Observed(h.rec)
      BY <2>6, <3>1, ObservesNewest
    <3>3. obs.kind = "Present" /\ obs.seq = h.rec.seq /\ h.rec.seq # 0
      BY <3>1, <3>2 DEF Observed, Message, Record
    <3>4. h.rec.seq \in {st.confirmedSeq, st.pendingSeq}
      BY <2>2, <3>3 DEF Expected
    <3> QED
      BY <3>3, <3>4
  <2>8. PICK s, i, b : s = RemoveAbsent(st, x.id) /\ i = x.id /\ b = x.rec
    OBVIOUS
  <2>9. /\ s \in LocalState /\ Serializes(s) /\ s.own \subseteq st.own /\ s.issued = st.issued
        /\ s.seq = st.seq /\ s.confirmedSeq = st.confirmedSeq
        /\ s.pendingSeq = st.pendingSeq /\ s.ownHash = st.ownHash
        /\ s.pendingKey = st.pendingKey /\ s.version = st.version
    BY <2>1, <2>8, RemoveSerializes
  <2>10. \E h \in s.own : h.rec.seq = st.confirmedSeq
    <3>1. PICK h \in st.own : h.rec.seq = st.confirmedSeq
      BY <2>1, <2>2
    <3>2. h.id # x.id
      BY <2>3, <2>5, <3>1 DEF Message, Record
    <3>3. s.own = st.own \ AtId(st, x.id)
      BY <2>1, <2>8 DEF RemoveAbsent, LocalState
    <3> QED
      BY <3>1, <3>2, <3>3 DEF AtId
  <2>11. Later(s) /\ s.pendingSeq = 0 /\ s.confirmedSeq = st.confirmedSeq
    <3>1. st.confirmedSeq \in Nat /\ st.confirmedSeq <= s.confirmedSeq
      BY <2>1, <2>9 DEF LocalState
    <3>2. Sound(s)
      BY <2>1, <2>9, <2>10 DEF Sound
    <3>3. \A h \in s.own : h \in st.own
      BY <2>9
    <3> QED
      BY <2>9, <3>1, <3>2, <3>3 DEF Later
  <2>12. b \in Record /\ i \in Nat /\ i > 0 /\ r.retired + 1 \in 0..RetireLimit
    BY <1>2, <2>5, <2>8, AutoAssumption DEF Message, Reading, Fine, SyncAutoRecord
  <2>13. c = [r EXCEPT !.expState = s, !.messageId = i, !.record = b,
                       !.retiring = TRUE, !.retired = r.retired + 1]
    BY <2>4, <2>8
  <2> HIDE DEF c
  <2>14. c \in SyncAutoRecord
    BY <2>9, <2>12, <2>13 DEF Reading, Fine, SyncAutoRecord
  <2>15. /\ c.expState = s /\ c.messageId = i /\ c.record = b /\ c.runStopped = r.runStopped
         /\ c.savedText = r.savedText /\ c.active = r.active /\ c.pending = r.pending
         /\ c.commitOnly = r.commitOnly /\ c.retry = r.retry /\ c.retries = r.retries
         /\ c.held = r.held /\ c.queuedSave = r.queuedSave
    BY <2>13 DEF Reading, Fine, SyncAutoRecord
  <2>16. Fits(b) /\ b.payload.text \in v
    <3>1. b \in Base
      BY <2>5, <2>8 DEF Base
    <3> QED
      BY <2>1, <2>12, <3>1 DEF Fits, Vouching
  <2>17. Fine(c, v) /\ ~c.runStopped
    BY <2>12, <2>14, <2>15, <2>16 DEF Reading, Fine, Sane
  <2>18. "Retire" \in Actions \ {"NoOp", "Check"} /\ FALSE \in BOOLEAN
    BY DEF Actions
  <2>19. Worked(p, c, v, "Retire")
    BY <2>17, <2>18, WorkPlanned, Zenon
  <2> HIDE DEF p
  <2>20. /\ Fine(p.rec, v) /\ p.rec.pending = "Retire" /\ p.rec.queuedSave = r.queuedSave
         /\ p.op \in Operation /\ IsFiniteSet(p.op.inv.msgs)
         /\ p.op.kind = "Retire" /\ p.op.phase = "todo" /\ p.op.state = s /\ p.op.id = i
         /\ p.op.rec = b /\ p.op.outcome = "none" /\ ~p.op.commitOnly
    BY <2>15, <2>19 DEF Worked
  <2>21. RetireOK(p.op)
    BY <2>5, <2>8, <2>11, <2>20 DEF RetireOK
  <2>22. OpOK(p.rec, p.op, v)
    BY <2>16, <2>20, <2>21 DEF OpOK
  <2>23. RecOK(p.rec, v) /\ SaveKept(q, p.rec)
    BY <2>20 DEF RecOK, AppliedVouched, SaveKept
  <2>24. Grounded(p.op, inv.msgs)
    BY <2>2, <2>5, <2>6, <2>7, <2>8, <2>20 DEF Grounded
  <2> QED
    BY <2>22, <2>23, <2>24 DEF Planned, PlanOK
<1> HIDE DEF p, ready
<1> QED
  BY <1>1, <1>2, HoldPlanned, DonePlanned

\* What a complete read without a staged record amounts to.
LEMMA ReviewPlanned ==
  ASSUME DataOK, NEW v, Vouching(v), NEW r, Reading(r, v), st.pendingSeq = 0,
         NEW inv, Seen(inv), NEW q, q => r.queuedSave
  PROVE  Planned(q, Review(r, inv), v, inv.msgs)
<1>1. {"Conflict", "NeedsReview"} \subseteq Reasons \ {"RetryStopped"}
  BY DEF Reasons
<1>2. PICK w : w = Verdict(inv)
  OBVIOUS
<1>3. w \in {"Adopt", "UpdateReady", "Conflict", "Choose", "Empty", "LocalChanges", "UpToDate"}
      /\ (w = "UpdateReady" => Unseen(inv))
  <2>1. PICK u \in BOOLEAN, t \in BOOLEAN, k \in BOOLEAN, b \in BOOLEAN :
          /\ u <=> Unseen(inv)
          /\ t <=> inv.other.key.text = file
          /\ k <=> st.base \in inv.other.knows
          /\ b <=> st.base = NoPayload
    OBVIOUS
  <2> QED
    BY <1>2, <2>1 DEF Verdict
<1>4. Review(r, inv) =
        CASE w = "UpdateReady" -> ApplySuccessor(r, inv)
          [] w \in {"Conflict", "Choose"} -> Hold(r, "Conflict")
          [] w \in {"LocalChanges", "Empty"} -> StageLocalChanges(r, inv)
          [] w = "Adopt" -> Hold(r, "NeedsReview")
          [] w = "UpToDate" -> RetireOrFinish(r, inv)
  BY <1>2 DEF Review
<1>5. CASE w = "UpdateReady"
  BY <1>3, <1>4, <1>5, ApplyPlanned
<1>6. CASE w \in {"Conflict", "Choose"}
  <2>1. Review(r, inv) = Hold(r, "Conflict")
    BY <1>4, <1>6
  <2> QED
    BY <1>1, <2>1, HoldPlanned
<1>7. CASE w \in {"LocalChanges", "Empty"}
  <2>1. Review(r, inv) = StageLocalChanges(r, inv)
    BY <1>4, <1>7
  <2> QED
    BY <2>1, StagePlanned
<1>8. CASE w = "Adopt"
  <2>1. Review(r, inv) = Hold(r, "NeedsReview")
    BY <1>4, <1>8
  <2> QED
    BY <1>1, <2>1, HoldPlanned
<1>9. CASE w = "UpToDate"
  <2>1. Review(r, inv) = RetireOrFinish(r, inv)
    BY <1>4, <1>9
  <2> QED
    BY <2>1, RetirePlanned
<1> QED
  BY <1>3, <1>5, <1>6, <1>7, <1>8, <1>9
\* A staged record comes first: it is confirmed when it is found, else sent.
LEMMA FinishPlanned ==
  ASSUME DataOK, NEW v, Vouching(v), NEW r0, Reading(r0, v), st.pendingSeq # 0,
         NEW inv, Seen(inv), Consistent(st, inv.msgs, staged),
         r0.retiring => r0.record \in Record /\ r0.record.seq < st.confirmedSeq,
         NEW q, q => r0.queuedSave
  PROVE  Planned(q, FinishStaged(r0, inv), v, inv.msgs)
<1> DEFINE r == [r0 EXCEPT !.record = staged]
           obs == Observation(inv.msgs)
           found == PendingCopies(st, inv.msgs)
           m == FirstOf(found)
           confirmed == ConfirmReadBack(st)
           edits == mode.edits /\ ~r.editRefused
           heads == {h \in Heads(inv.msgs) : MayEdit(st, obs, staged, edits, h)}
           send == [r EXCEPT !.uncertain = TRUE]
           done == [r EXCEPT !.uncertain = FALSE]
           edit == [send EXCEPT !.messageId = FirstOf(heads).id]
           post == [send EXCEPT !.messageId = 0]
           usable == staged # NoRecord /\ r0.record \in {NoRecord, staged}
<1>1. \/ \E reason \in Reasons \ {"RetryStopped"} : FinishStaged(r0, inv) = Hold(r0, reason)
      \/ /\ usable
         /\ \/ \E reason \in Reasons \ {"RetryStopped"} : FinishStaged(r0, inv) = Hold(r, reason)
            \/ FinishStaged(r0, inv) = Retry(r)
            \/ /\ found # {} /\ CanRecordConfirmed(confirmed, m.id, m.rec)
               /\ FinishStaged(r0, inv) = Commit(done, Put(confirmed, m.id, m.rec))
            \/ /\ found = {} /\ heads # {}
               /\ FinishStaged(r0, inv) = Emit(edit, "EditInPlace", FALSE)
            \/ /\ found = {}
               /\ FinishStaged(r0, inv) = Emit(post, "Post", FALSE)
  <2>1. {"StoreMismatch", "CloneDetected", "Conflict", "NeedsReview"}
          \subseteq Reasons \ {"RetryStopped"}
    BY DEF Reasons
  <2>2. \/ FinishStaged(r0, inv) = Hold(r0, "StoreMismatch")
        \/ /\ usable
           /\ \/ FinishStaged(r0, inv) = Hold(r, "CloneDetected")
              \/ FinishStaged(r0, inv) = Hold(r, "StoreMismatch")
              \/ FinishStaged(r0, inv) = Hold(r, "Conflict")
              \/ FinishStaged(r0, inv) = Hold(r, "NeedsReview")
              \/ FinishStaged(r0, inv) = Retry(r)
              \/ /\ found # {} /\ CanRecordConfirmed(confirmed, m.id, m.rec)
                 /\ FinishStaged(r0, inv) = Commit(done, Put(confirmed, m.id, m.rec))
              \/ /\ found = {} /\ heads # {}
                 /\ FinishStaged(r0, inv) = Emit(edit, "EditInPlace", FALSE)
              \/ /\ found = {}
                 /\ FinishStaged(r0, inv) = Emit(post, "Post", FALSE)
    BY DEF FinishStaged
  <2> HIDE DEF r, usable, found, heads, done, edit, post, m, confirmed
  <2> QED
    BY <2>1, <2>2
<1>2. /\ st \in LocalState /\ Serializes(st) /\ st.confirmedSeq <= st.seq /\ st.version = 1
      /\ staged = PendingRecord(st) /\ staged \in st.issued
      /\ \A b \in Base : b.seq <= st.seq /\ b.payload.text \in Claimed
      /\ \A a, b \in Base : a.seq = b.seq => a = b
  BY DEF DataOK, Sound, StageIsPending
<1>3. /\ staged \in Record /\ staged.seq = st.pendingSeq /\ staged.seq = st.seq
      /\ st.confirmedSeq < st.seq /\ st.seq \in Nat /\ st.confirmedSeq \in Nat
      /\ staged # NoRecord
  BY <1>2, Absences DEF LocalState, PendingRecord, Serializes, CountersValid
<1>4. Fits(staged) /\ staged.payload.text \in v
  <2>1. staged \in Base
    BY <1>3 DEF Base
  <2> QED
    BY <1>2, <1>3, <2>1 DEF Fits, Vouching
<1>5. r0 \in SyncAutoRecord /\ Sane(r0) /\ r0.savedText \in v \cup {NoText} /\ ~r0.runStopped
      /\ r0.pending \notin {"NoOp", "AutoApply"}
  BY DEF Reading, Fine
<1>6. inv.msgs \in SUBSET Message /\ IsFiniteSet(inv.msgs)
  BY DEF Seen, Inventories
<1>7. usable => ~r0.retiring
  BY <1>3, Absences DEF Record
\* The record amended in one of the ways that occur.
<1>8. ASSUME NEW u \in BOOLEAN, NEW i \in Nat, NEW c,
             c = [r0 EXCEPT !.record = staged, !.uncertain = u, !.messageId = i], usable
      PROVE  /\ Reading(c, v) /\ c.queuedSave = r0.queuedSave
             /\ c.record = staged /\ c.messageId = i
  <2>1. c \in SyncAutoRecord
    <3>1. CASE u
      <4>1. c = [r0 EXCEPT !.record = staged, !.uncertain = TRUE, !.messageId = i]
        BY <1>8, <3>1
      <4> QED
        BY <1>3, <1>5, <4>1 DEF SyncAutoRecord
    <3>2. CASE ~u
      <4>1. c = [r0 EXCEPT !.record = staged, !.uncertain = FALSE, !.messageId = i]
        BY <1>8, <3>2
      <4> QED
        BY <1>3, <1>5, <4>1 DEF SyncAutoRecord
    <3> QED
      BY <3>1, <3>2
  <2>2. /\ c.record = staged /\ c.messageId = i /\ c.runStopped = r0.runStopped
        /\ c.savedText = r0.savedText /\ c.active = r0.active /\ c.pending = r0.pending
        /\ c.commitOnly = r0.commitOnly /\ c.retry = r0.retry /\ c.retries = r0.retries
        /\ c.held = r0.held /\ c.queuedSave = r0.queuedSave /\ c.retiring = r0.retiring
    BY <1>5, <1>8 DEF SyncAutoRecord
  <2> QED
    BY <1>4, <1>5, <1>7, <1>8, <2>1, <2>2 DEF Reading, Fine, Sane
<1>9. ASSUME usable
      PROVE  /\ Reading(r, v) /\ r.queuedSave = r0.queuedSave
             /\ Reading(done, v) /\ done.queuedSave = r0.queuedSave
             /\ Reading(post, v) /\ post.queuedSave = r0.queuedSave /\ post.record = staged
             /\ \A i \in Nat : LET e == [send EXCEPT !.messageId = i]
                               IN  /\ Reading(e, v) /\ e.queuedSave = r0.queuedSave
                                   /\ e.record = staged /\ e.messageId = i
  <2>1. r0.uncertain \in BOOLEAN /\ r0.messageId \in Nat
    BY <1>5 DEF SyncAutoRecord
  <2>2. /\ r = [r0 EXCEPT !.record = staged, !.uncertain = r0.uncertain, !.messageId = r0.messageId]
        /\ done = [r0 EXCEPT !.record = staged, !.uncertain = FALSE, !.messageId = r0.messageId]
        /\ \A i : [send EXCEPT !.messageId = i]
                  = [r0 EXCEPT !.record = staged, !.uncertain = TRUE, !.messageId = i]
    BY <1>5 DEF SyncAutoRecord
  <2> HIDE DEF r, done, send, usable
  <2>3. ASSUME NEW i \in Nat
        PROVE  /\ Reading([send EXCEPT !.messageId = i], v)
               /\ [send EXCEPT !.messageId = i].queuedSave = r0.queuedSave
               /\ [send EXCEPT !.messageId = i].record = staged
               /\ [send EXCEPT !.messageId = i].messageId = i
    BY <1>8, <1>9, <2>2
  <2>4. 0 \in Nat
    OBVIOUS
  <2> QED
    BY <1>8, <1>9, <2>1, <2>2, <2>3, <2>4
<1>10. ASSUME usable, found # {}, CanRecordConfirmed(confirmed, m.id, m.rec)
       PROVE  Planned(q, Commit(done, Put(confirmed, m.id, m.rec)), v, inv.msgs)
  <2>1. PICK x \in found : x = m
    <3>1. found \subseteq inv.msgs /\ IsFiniteSet(found)
      BY <1>6, FS_Subset DEF PendingCopies
    <3> HIDE DEF found
    <3> QED
      BY <1>6, <1>10, <3>1, FirstIsOne
  <2>2. x \in inv.msgs /\ x \in Message /\ x.rec.seq = st.pendingSeq /\ x.rec = staged
    BY <1>6, <2>1 DEF PendingCopies, Consistent
  <2>3. PICK c, i, b : c = ConfirmReadBack(st) /\ i = x.id /\ b = x.rec
    OBVIOUS
  <2>4. PICK s : s = Put(c, i, b)
    OBVIOUS
  <2>5. i \in Nat \ {0} /\ b \in Record /\ CanRecordConfirmed(c, i, b)
    BY <1>10, <2>1, <2>2, <2>3 DEF Message
  <2>6. /\ s \in LocalState /\ Serializes(s)
        /\ s.own \subseteq st.own \cup {[id |-> i, rec |-> b]}
        /\ [id |-> i, rec |-> b] \in s.own
        /\ s.issued = st.issued /\ s.seq = st.seq /\ s.confirmedSeq = st.seq
        /\ s.pendingSeq = 0 /\ s.pendingKey = NoPayload
        /\ s.version = st.version /\ s.ownHash = st.ownHash
    BY <1>2, <2>3, <2>4, <2>5, ConfirmSerializes
  <2>7. Later(s)
    <3>1. Sound(s)
      BY <1>2, <1>3, <2>2, <2>3, <2>6 DEF Sound
    <3>2. \A n \in s.own : n \in st.own \/ n.rec = staged
      BY <2>2, <2>3, <2>6
    <3> QED
      BY <1>2, <1>3, <2>6, <3>1, <3>2 DEF Later
  <2> HIDE DEF done
  <2>8. Fine(done, v) /\ ~done.runStopped /\ (q => done.queuedSave)
    BY <1>9, <1>10 DEF Reading
  <2>9. /\ PlanOK(q, Commit(done, s), v) /\ Commit(done, s).op.kind = "Reconcile"
        /\ Commit(done, s).op.state = s /\ Commit(done, s).op.phase = "todo"
    BY <2>7, <2>8, CommitPlanned
  <2>10. Grounded(Commit(done, s).op, inv.msgs)
    BY <1>3, <2>2, <2>6, <2>9 DEF Grounded
  <2>11. Put(confirmed, m.id, m.rec) = s
    BY <2>1, <2>3, <2>4
  <2> QED
    BY <2>9, <2>10, <2>11 DEF Planned
\* The staged record is sent, for the first time or again.
<1>11. ASSUME NEW action \in {"Post", "EditInPlace"}, NEW e, Reading(e, v), e.record = staged,
              e.queuedSave = r0.queuedSave, found = {},
              action = "EditInPlace" =>
                \E h \in inv.msgs : h.id = e.messageId /\ h.rec.seq = st.confirmedSeq
       PROVE  Planned(q, Emit(e, action, FALSE), v, inv.msgs)
  <2> DEFINE p == Emit(e, action, FALSE)
  <2>1. action \in Actions \ {"NoOp", "Check"} /\ FALSE \in BOOLEAN /\ action # "Reconcile"
    BY DEF Actions
  <2>2. Fine(e, v) /\ ~e.runStopped
    BY <1>11 DEF Reading
  <2>3. Worked(p, e, v, action)
    BY <2>1, <2>2, WorkPlanned, Zenon
  <2> HIDE DEF p
  <2>4. /\ Fine(p.rec, v) /\ p.rec.pending = action /\ p.rec.queuedSave = e.queuedSave
        /\ p.op \in Operation /\ IsFiniteSet(p.op.inv.msgs)
        /\ p.op.kind = action /\ p.op.phase = "todo" /\ p.op.id = e.messageId
        /\ p.op.rec = staged /\ p.op.outcome = "none" /\ ~p.op.commitOnly
    BY <1>11, <2>1, <2>3 DEF Worked
  <2>5. OpOK(p.rec, p.op, v)
    BY <1>3, <1>4, <2>1, <2>4 DEF OpOK, SendOK
  <2>6. RecOK(p.rec, v) /\ SaveKept(q, p.rec)
    BY <1>11, <2>4 DEF RecOK, AppliedVouched, SaveKept
  <2>7. Grounded(p.op, inv.msgs)
    <3>1. \A n \in inv.msgs : n.rec.seq # st.pendingSeq
      BY <1>11, NoneFound
    <3> QED
      BY <1>11, <2>4, <3>1 DEF Grounded
  <2> QED
    BY <2>5, <2>6, <2>7 DEF Planned, PlanOK, p
<1>12. ASSUME usable, found = {}, heads # {}
       PROVE  Planned(q, Emit(edit, "EditInPlace", FALSE), v, inv.msgs)
  <2>1. heads \subseteq inv.msgs /\ IsFiniteSet(heads)
    BY <1>6, FS_Subset DEF Heads
  <2>2. PICK h \in heads : h = FirstOf(heads)
    <3> HIDE DEF heads
    <3> QED
      BY <1>6, <1>12, <2>1, FirstIsOne
  <2>3. h \in inv.msgs /\ h.id \in Nat /\ h.rec.seq = st.confirmedSeq
    BY <1>6, <2>1, <2>2 DEF MayEdit, Message
  <2>4. edit = [send EXCEPT !.messageId = h.id]
    BY <2>2
  <2> HIDE DEF edit, send, usable, heads, found
  <2>5. Reading(edit, v) /\ edit.queuedSave = r0.queuedSave
        /\ edit.record = staged /\ edit.messageId = h.id
    BY <1>9, <1>12, <2>3, <2>4
  <2> QED
    BY <1>11, <1>12, <2>3, <2>5
<1>13. ASSUME usable, found = {}
       PROVE  Planned(q, Emit(post, "Post", FALSE), v, inv.msgs)
  <2> HIDE DEF post, usable, found
  <2>1. Reading(post, v) /\ post.queuedSave = r0.queuedSave /\ post.record = staged
    BY <1>9, <1>13
  <2> QED
    BY <1>11, <1>13, <2>1
<1>14. ASSUME usable, NEW reason \in Reasons \ {"RetryStopped"}
       PROVE  Planned(q, Hold(r, reason), v, inv.msgs)
  <2> HIDE DEF r, usable
  <2> QED
    BY <1>9, <1>14, HoldPlanned
<1>15. ASSUME usable
       PROVE  Planned(q, Retry(r), v, inv.msgs)
  <2> HIDE DEF r, usable
  <2> QED
    BY <1>9, <1>15, RetryPlanned
<1> HIDE DEF r, usable, found, heads, done, edit, post, m, confirmed
<1> QED
  BY <1>1, <1>10, <1>12, <1>13, <1>14, <1>15, HoldPlanned
\* A staged record goes first, whatever the file says now.
LEMMA WorkOrdered ==
  ASSUME DataOK, NEW v, Vouching(v), NEW r, Reading(r, v),
         NEW inv, Seen(inv), Consistent(st, inv.msgs, staged),
         r.retiring => r.record \in Record /\ r.record.seq < st.confirmedSeq,
         NEW q, q => r.queuedSave
  PROVE  Planned(q, NextWork(r, inv), v, inv.msgs)
<1>1. "StoreMismatch" \in Reasons \ {"RetryStopped"}
  BY DEF Reasons
<1>2. CASE st.pendingSeq # 0
  <2>1. NextWork(r, inv) = FinishStaged(r, inv)
    BY <1>2 DEF NextWork
  <2> QED
    BY <1>2, <2>1, FinishPlanned
<1>3. CASE st.pendingSeq = 0 /\ staged # NoRecord
  <2>1. NextWork(r, inv) = Hold(r, "StoreMismatch")
    BY <1>3 DEF NextWork
  <2> QED
    BY <1>1, <2>1, HoldPlanned
<1>4. CASE st.pendingSeq = 0 /\ staged = NoRecord
  <2>1. NextWork(r, inv) = Review(r, inv)
    BY <1>4 DEF NextWork
  <2> QED
    BY <1>4, <2>1, ReviewPlanned
<1> QED
  BY <1>2, <1>3, <1>4

\* A deletion with an unknown outcome is settled first: its message is gone, or
\* is still the one the ledger has.
LEMMA SettlePlanned ==
  ASSUME DataOK, NEW v, Vouching(v), NEW r, Reading(r, v),
         NEW inv, Seen(inv), Consistent(st, inv.msgs, staged),
         NEW q, q => r.queuedSave
  PROVE  Planned(q, SettleRetiring(r, inv), v, inv.msgs)
<1> DEFINE found == {m \in inv.msgs : m.id = r.messageId}
           c == [r EXCEPT !.retiring = FALSE, !.messageId = 0, !.record = NoRecord]
<1>1. {"StoreMismatch", "OwnershipChanged"} \subseteq Reasons \ {"RetryStopped"}
  BY DEF Reasons
<1>2. r \in SyncAutoRecord /\ Sane(r) /\ r.messageId \in Nat
  BY DEF Reading, Fine, SyncAutoRecord
<1>3. /\ st \in LocalState /\ Serializes(st) /\ st.version = 1 /\ st.confirmedSeq <= st.seq
      /\ st.confirmedSeq # 0 => \E h \in st.own : h.rec.seq = st.confirmedSeq
  BY DEF DataOK, Sound
<1>4. CASE found = {} /\ st = r.expState
  <2>1. SettleRetiring(r, inv) = NextWork(c, inv)
    BY <1>4 DEF SettleRetiring
  <2>2. c \in SyncAutoRecord
    BY <1>2 DEF SyncAutoRecord
  <2>3. /\ c.record = NoRecord /\ ~c.retiring /\ c.runStopped = r.runStopped
        /\ c.savedText = r.savedText /\ c.active = r.active /\ c.pending = r.pending
        /\ c.commitOnly = r.commitOnly /\ c.retry = r.retry /\ c.retries = r.retries
        /\ c.held = r.held /\ c.queuedSave = r.queuedSave
    BY <1>2 DEF SyncAutoRecord
  <2> HIDE DEF c
  <2>4. Reading(c, v)
    BY <2>2, <2>3 DEF Reading, Fine, Sane
  <2> QED
    BY <2>1, <2>3, <2>4, WorkOrdered
<1>5. CASE found = {} /\ st # r.expState /\ CanRemoveAbsent(st, r.messageId)
  <2>1. PICK i \in Nat : i = r.messageId
    BY <1>2
  <2>2. PICK s : s = RemoveAbsent(st, i)
    OBVIOUS
  <2>3. SettleRetiring(r, inv) = Commit(r, s)
    BY <1>5, <2>1, <2>2 DEF SettleRetiring
  <2>4. /\ s \in LocalState /\ Serializes(s) /\ s.own \subseteq st.own /\ s.issued = st.issued
        /\ s.seq = st.seq /\ s.confirmedSeq = st.confirmedSeq
        /\ s.pendingSeq = st.pendingSeq /\ s.ownHash = st.ownHash
        /\ s.pendingKey = st.pendingKey /\ s.version = st.version
    BY <1>3, <2>2, RemoveSerializes
  <2>5. s.own = st.own \ AtId(st, i)
    BY <1>3, <2>2 DEF RemoveAbsent, LocalState
  <2>6. s.confirmedSeq # 0 => \E h \in s.own : h.rec.seq = s.confirmedSeq
    <3>1. SUFFICES ASSUME st.confirmedSeq # 0
                   PROVE  \E h \in s.own : h.rec.seq = st.confirmedSeq
      BY <2>4
    <3>2. PICK h \in st.own : h.rec.seq = st.confirmedSeq
      BY <1>3, <3>1
    <3>3. PICK x \in AtId(st, i) : x.rec.seq < st.confirmedSeq
      BY <1>5, <2>1 DEF CanRemoveAbsent
    <3>4. \A y \in AtId(st, i) : y = x
      BY <1>3, <3>3 DEF AtId, Serializes, OwnValid
    <3>5. h # x
      BY <1>3, <3>2, <3>3 DEF LocalState
    <3> QED
      BY <2>5, <3>2, <3>4, <3>5
  <2>7. Later(s)
    <3>1. Sound(s)
      BY <1>3, <2>4, <2>6 DEF Sound
    <3>2. st.confirmedSeq <= s.confirmedSeq
      BY <1>3, <2>4 DEF LocalState
    <3>3. \A m \in s.own : m \in st.own
      BY <2>4
    <3> QED
      BY <2>4, <3>1, <3>2, <3>3 DEF Later
  <2>8. Fine(r, v) /\ ~r.runStopped
    BY DEF Reading
  <2>9. /\ PlanOK(q, Commit(r, s), v) /\ Commit(r, s).op.kind = "Reconcile"
        /\ Commit(r, s).op.state = s /\ Commit(r, s).op.phase = "todo"
    BY <2>7, <2>8, CommitPlanned
  <2>10. Grounded(Commit(r, s).op, inv.msgs)
    BY <2>4, <2>9 DEF Grounded
  <2> QED
    BY <2>3, <2>9, <2>10 DEF Planned
<1>6. CASE found = {} /\ st # r.expState /\ ~CanRemoveAbsent(st, r.messageId)
  <2>1. SettleRetiring(r, inv) = Hold(r, "StoreMismatch")
    BY <1>6 DEF SettleRetiring
  <2> QED
    BY <1>1, <2>1, HoldPlanned
<1>7. CASE found # {} /\ \A m \in found : m.rec = r.record /\ CanDelete(st, m.id, m.rec)
  <2>1. SettleRetiring(r, inv) = NextWork(r, inv)
    BY <1>7 DEF SettleRetiring
  <2>2. r.record \in Record /\ r.record.seq < st.confirmedSeq
    <3>1. PICK m \in inv.msgs : m.rec = r.record /\ CanDelete(st, m.id, m.rec)
      BY <1>7
    <3>2. m.rec \in Record
      BY <3>1 DEF Seen, Inventories, Message
    <3> QED
      BY <3>1, <3>2 DEF CanDelete
  <2> QED
    BY <2>1, <2>2, WorkOrdered
<1>8. CASE found # {} /\ ~(\A m \in found : m.rec = r.record /\ CanDelete(st, m.id, m.rec))
  <2>1. SettleRetiring(r, inv) = Hold(r, "OwnershipChanged")
    BY <1>8 DEF SettleRetiring
  <2> QED
    BY <1>1, <2>1, HoldPlanned
<1> QED
  BY <1>4, <1>5, <1>6, <1>7, <1>8

\* Whatever a complete read shows, the plan that follows fits it.
LEMMA InventoryPlanned ==
  ASSUME DataOK, NEW v, Vouching(v), NEW r, Reading(r, v),
         NEW inv, Seen(inv), NEW q, q => r.queuedSave
  PROVE  Planned(q, Inventory(r, inv), v, inv.msgs)
<1> DEFINE settling == r.retiring /\ r.messageId > 0
<1>1. {"CloneDetected", "NeedsReview"} \subseteq Reasons \ {"RetryStopped"}
  BY DEF Reasons
<1>2. \/ Inventory(r, inv) = Hold(r, "CloneDetected")
      \/ Inventory(r, inv) = Hold(r, "NeedsReview")
      \/ /\ Consistent(st, inv.msgs, staged)
         /\ \/ settling /\ Inventory(r, inv) = SettleRetiring(r, inv)
            \/ ~settling /\ Inventory(r, inv) = NextWork(r, inv)
  BY DEF Inventory
<1>3. ~settling => ~r.retiring
  BY DEF Reading, Fine, Sane
<1> HIDE DEF settling
<1> QED
  BY <1>1, <1>2, <1>3, HoldPlanned, SettlePlanned, WorkOrdered
---------------------------------------------------------------------------
(* What the policy does with an event.                                     *)

\* A finished check of what an interrupted apply left.
LEMMA InterruptedPlanned ==
  ASSUME DataOK, NEW v, Vouching(v), NEW r, RecOK(r, v), r.pending = "AutoApply",
         ~r.runStopped, NEW q, q => r.queuedSave
  PROVE  PlanOK(q, InterruptedApply(r), v)
<1> DEFINE c == [r EXCEPT !.savedText = file]
<1>1. CASE st = r.expState /\ file = r.expFile
  <2>1. file \in Texts /\ file \in v
    BY <1>1 DEF DataOK, RecOK, AppliedVouched
  <2>2. c \in SyncAutoRecord
    BY <2>1 DEF RecOK, Fine, SyncAutoRecord
  <2>3. /\ c.savedText = file /\ c.record = r.record /\ c.runStopped = r.runStopped
        /\ c.active = r.active /\ c.pending = r.pending /\ c.retiring = r.retiring
        /\ c.commitOnly = r.commitOnly /\ c.retry = r.retry /\ c.retries = r.retries
        /\ c.held = r.held /\ c.messageId = r.messageId
    BY DEF RecOK, Fine, SyncAutoRecord
  <2> HIDE DEF c
  <2>4. Fine(c, v) /\ ~c.runStopped
    BY <2>1, <2>2, <2>3 DEF RecOK, Fine, Sane
  <2>5. InterruptedApply(r) = Emit(c, "Check", FALSE)
    BY <1>1 DEF InterruptedApply, c
  <2> QED
    BY <2>4, <2>5, ReadOK
<1>2. CASE ~(st = r.expState /\ file = r.expFile)
  <2>1. InterruptedApply(r) = Hold(r, "InterruptedApply")
    BY <1>2 DEF InterruptedApply
  <2>2. "InterruptedApply" \in Reasons /\ "InterruptedApply" # "RetryStopped"
    BY DEF Reasons
  <2> QED
    BY <2>1, <2>2, HoldOK
<1> QED
  BY <1>1, <1>2

\* A run that may start with a check.
LEMMA FreshPlanned ==
  ASSUME NEW v, NEW r, RecOK(r, v), ~r.runStopped, NEW q, q => r.queuedSave
  PROVE  PlanOK(q, FreshRun(r), v)
<1> DEFINE c == [r EXCEPT !.retired = 0, !.queuedCheck = FALSE, !.queuedSave = FALSE]
<1>1. CASE ~r.queuedSave /\ ~r.due
  BY <1>1, QuietOK DEF FreshRun
<1>2. CASE ~(~r.queuedSave /\ ~r.due)
  <2>1. 0 \in 0..RetireLimit
    BY AutoAssumption
  <2>2. c \in SyncAutoRecord
    BY <2>1 DEF RecOK, Fine, SyncAutoRecord
  <2>3. /\ c.savedText = r.savedText /\ c.record = r.record /\ c.runStopped = r.runStopped
        /\ c.active = r.active /\ c.pending = r.pending /\ c.retiring = r.retiring
        /\ c.commitOnly = r.commitOnly /\ c.retry = r.retry /\ c.retries = r.retries
        /\ c.held = r.held /\ c.messageId = r.messageId
    BY DEF RecOK, Fine, SyncAutoRecord
  <2>4. FreshRun(r) = Emit(c, "Check", FALSE)
    BY <1>2 DEF FreshRun
  <2> HIDE DEF c
  <2>5. Fine(c, v) /\ ~c.runStopped
    BY <2>2, <2>3 DEF RecOK, Fine, Sane
  <2> QED
    BY <2>4, <2>5, ReadOK
<1> QED
  BY <1>1, <1>2

\* An event that finds the gate open and nothing under way.
LEMMA StartPlanned ==
  ASSUME DataOK, NEW v, Vouching(v), NEW r, RecOK(r, v), NEW retried \in BOOLEAN,
         NEW q, q => r.queuedSave
  PROVE  PlanOK(q, Start(r, retried), v)
<1> DEFINE c == [r EXCEPT !.runStopped = FALSE, !.retries = 0, !.retired = 0]
<1>1. CASE r.runStopped
  <2>1. CASE ~retried
    <3>1. Start(r, retried) = Emit(c, "Reconcile", FALSE)
      BY <1>1, <2>1 DEF Start
    <3>2. 0 \in 0..RetireLimit /\ 0 \in 0..RetryLimit
      BY AutoAssumption
    <3>3. c \in SyncAutoRecord
      BY <3>2 DEF RecOK, Fine, SyncAutoRecord
    <3>4. /\ c.savedText = r.savedText /\ c.record = r.record /\ ~c.runStopped
          /\ c.active = r.active /\ c.pending = r.pending /\ c.retiring = r.retiring
          /\ c.commitOnly = r.commitOnly /\ c.retry = r.retry /\ c.queuedSave = r.queuedSave
          /\ c.held = r.held /\ c.messageId = r.messageId
      BY DEF RecOK, Fine, SyncAutoRecord
    <3>5. PICK e : e = [c EXCEPT !.held = "None"]
      OBVIOUS
    <3>6. Emit(c, "Reconcile", FALSE) = Emit(e, "Reconcile", FALSE)
      <4> DEFINE x == [c EXCEPT
                         !.active = TRUE, !.held = "None", !.pending = "Reconcile",
                         !.commitOnly = FALSE, !.retry = "none", !.retries = @,
                         !.expState = @, !.expFile = NoText, !.record = @, !.due = FALSE]
                 y == [e EXCEPT
                         !.active = TRUE, !.held = "None", !.pending = "Reconcile",
                         !.commitOnly = FALSE, !.retry = "none", !.retries = @,
                         !.expState = @, !.expFile = NoText, !.record = @, !.due = FALSE]
                 o == [NoOperation EXCEPT !.kind = "Reconcile", !.phase = "todo"]
      <4>1. x = y
        <5> HIDE DEF c
        <5>1. x = [c EXCEPT
                     !.active = TRUE, !.held = "None", !.pending = "Reconcile",
                     !.commitOnly = FALSE, !.retry = "none", !.expFile = NoText,
                     !.due = FALSE]
          BY <3>3 DEF SyncAutoRecord
        <5>2. y = [c EXCEPT
                     !.active = TRUE, !.held = "None", !.pending = "Reconcile",
                     !.commitOnly = FALSE, !.retry = "none", !.expFile = NoText,
                     !.due = FALSE]
          BY <3>3, <3>5 DEF SyncAutoRecord
        <5> QED
          BY <5>1, <5>2
      <4>2. Emit(c, "Reconcile", FALSE) = [rec |-> x, op |-> o]
        <5> HIDE DEF c
        <5> QED
          BY <3>3 DEF Emit, SyncAutoRecord
      <4>3. Emit(e, "Reconcile", FALSE) = [rec |-> y, op |-> o]
        <5>1. e \in SyncAutoRecord
          BY <3>3, <3>5 DEF SyncAutoRecord, Reasons
        <5> QED
          BY <5>1 DEF Emit, SyncAutoRecord
      <4> QED
        BY <4>1, <4>2, <4>3
    <3>7. e \in SyncAutoRecord
      BY <3>3, <3>5 DEF SyncAutoRecord, Reasons
    <3>8. /\ e.savedText = c.savedText /\ e.record = c.record /\ ~e.runStopped
          /\ e.active = c.active /\ e.pending = c.pending /\ e.retiring = c.retiring
          /\ e.commitOnly = c.commitOnly /\ e.retry = c.retry /\ e.queuedSave = c.queuedSave
          /\ e.held = "None" /\ e.messageId = c.messageId
      BY <3>3, <3>4, <3>5 DEF SyncAutoRecord
    <3> HIDE DEF c
    <3>9. Fine(e, v)
      BY <1>1, <3>4, <3>7, <3>8 DEF RecOK, Fine, Sane
    <3> QED
      BY <3>1, <3>4, <3>6, <3>8, <3>9, ReadOK
  <2>2. CASE retried
    <3>1. Start(r, retried) = Quiet(r)
      BY <1>1, <2>2 DEF Start
    <3> QED
      BY <3>1, QuietOK
  <2> QED
    BY <2>1, <2>2
<1>2. CASE ~r.runStopped /\ r.pending = "AutoApply"
  <2>1. Start(r, retried) = InterruptedApply(r)
    BY <1>2 DEF Start
  <2> QED
    BY <1>2, <2>1, InterruptedPlanned
<1>3. CASE ~r.runStopped /\ r.pending # "AutoApply"
  <2>1. \/ Start(r, retried) = Emit(r, "Reconcile", FALSE)
        \/ Start(r, retried) = Quiet(r)
        \/ Start(r, retried) = FreshRun(r)
    BY <1>3 DEF Start, Continue
  <2>2. Fine(r, v)
    BY DEF RecOK
  <2> QED
    BY <1>3, <2>1, <2>2, ReadOK, QuietOK, FreshPlanned
<1> QED
  BY <1>1, <1>2, <1>3
\* What the answer to an operation leads to, whatever it says.
LEMMA CompletePlanned ==
  ASSUME DataOK, NEW v, Vouching(v), NEW r, RecOK(r, v), OpOK(r, op, v),
         op.phase = "answered", r.active, NEW q, q => r.queuedSave
  PROVE  Planned(q, Complete(r), v, op.inv.msgs)
<1> DEFINE expected == CASE r.pending = "Publish" -> "Staged"
                         [] r.pending = "AutoApply" -> "Applied"
                         [] r.pending = "Retire" -> "Deleted"
                         [] OTHER -> "Committed"
           asPlanned == /\ op.outcome = expected
                        /\ r.expState # NoState
                        /\ st = r.expState
                        /\ r.pending = "AutoApply" => file = r.expFile
                        /\ r.pending = "Publish" => staged = r.record
                        /\ r.commitOnly => staged = NoRecord
           noted == IF r.pending = "AutoApply" THEN [r EXCEPT !.savedText = file] ELSE r
           cleared == IF r.commitOnly \/ r.pending = "Retire" THEN Cleared(noted) ELSE noted
           next == [cleared EXCEPT !.retries = 0]
           refused == [r EXCEPT !.editRefused = TRUE]
           sent == [r EXCEPT !.retries = 0]
           read == [r EXCEPT !.active = FALSE]
<1>1. /\ r \in SyncAutoRecord /\ Sane(r) /\ Fine(r, v) /\ ~r.runStopped /\ r.retry = "none"
      /\ r.pending # "NoOp" /\ op.kind = r.pending
      /\ r.savedText \in v \cup {NoText}
      /\ r.record # NoRecord => Fits(r.record) /\ r.record.payload.text \in v
  BY DEF RecOK, Fine, Sane, OpOK, NoOperation
<1>2. /\ 0 \in 0..RetryLimit /\ file \in Texts /\ v \subseteq Texts
  BY AutoAssumption DEF DataOK, Vouching
<1>3. ASSUME NEW reason \in Reasons \ {"RetryStopped"}
      PROVE  Planned(q, Hold(r, reason), v, op.inv.msgs)
  <2>1. PlanOK(q, Hold(r, reason), v)
    BY <1>3, HoldOK
  <2> QED
    BY <2>1 DEF Planned, Grounded, Hold, Quiet, NoOperation
<1>4. {"StateChanged", "DeletionRefused"} \subseteq Reasons \ {"RetryStopped"}
  BY DEF Reasons
<1>5. CASE op.outcome = "Failed"
  <2>1. CASE r.pending \in {"AutoApply", "Publish"} \/ r.commitOnly
    <3>1. Complete(r) = Hold(r, "StateChanged")
      BY <1>5, <2>1 DEF Complete
    <3> QED
      BY <1>3, <1>4, <3>1
  <2>2. CASE ~(r.pending \in {"AutoApply", "Publish"} \/ r.commitOnly)
    <3>1. Complete(r) = Retry(r)
      BY <1>5, <2>2 DEF Complete
    <3>2. Reading(r, v)
      BY <1>1, <2>2 DEF Reading
    <3> QED
      BY <3>1, <3>2, RetryPlanned
  <2> QED
    BY <2>1, <2>2
<1>6. CASE op.outcome = "EditRefused"
  <2>1. Complete(r) = Emit(refused, "Reconcile", FALSE)
    BY <1>6 DEF Complete
  <2>2. refused \in SyncAutoRecord
    BY <1>1 DEF SyncAutoRecord
  <2>3. /\ refused.savedText = r.savedText /\ refused.record = r.record
        /\ refused.runStopped = r.runStopped /\ refused.active = r.active
        /\ refused.pending = r.pending /\ refused.retiring = r.retiring
        /\ refused.commitOnly = r.commitOnly /\ refused.retry = r.retry
        /\ refused.held = r.held /\ refused.messageId = r.messageId
        /\ refused.queuedSave = r.queuedSave
    BY <1>1 DEF SyncAutoRecord
  <2> HIDE DEF refused
  <2>4. Fine(refused, v) /\ ~refused.runStopped
    BY <1>1, <2>2, <2>3 DEF Fine, Sane
  <2> QED
    BY <2>1, <2>3, <2>4, ReadPlanned
<1>7. CASE op.outcome = "DeletionRefused"
  <2>1. Complete(r) = Hold(r, "DeletionRefused")
    BY <1>7 DEF Complete
  <2> QED
    BY <1>3, <1>4, <2>1
<1>8. CASE op.outcome = "Inventory"
  <2>1. Complete(r) = Inventory(read, op.inv)
    BY <1>8 DEF Complete
  <2>2. read \in SyncAutoRecord
    BY <1>1 DEF SyncAutoRecord
  <2>3. /\ read.savedText = r.savedText /\ read.record = r.record
        /\ read.runStopped = r.runStopped /\ ~read.active
        /\ read.pending = r.pending /\ read.retiring = r.retiring
        /\ read.commitOnly = r.commitOnly /\ read.retry = r.retry
        /\ read.held = r.held /\ read.messageId = r.messageId
        /\ read.queuedSave = r.queuedSave
    BY <1>1 DEF SyncAutoRecord
  <2> HIDE DEF read
  <2>4. r.pending \in {"Check", "Reconcile"}
    BY <1>1, <1>8 DEF OpOK
  <2>5. Reading(read, v)
    BY <1>1, <2>2, <2>3, <2>4 DEF Reading, Fine, Sane
  <2>6. Seen(op.inv)
    BY DEF OpOK, Operation, Seen
  <2> QED
    BY <2>1, <2>3, <2>5, <2>6, InventoryPlanned
<1>9. CASE op.outcome = "Sent"
  <2>1. Complete(r) = Emit(sent, "Reconcile", FALSE)
    BY <1>9 DEF Complete
  <2>2. sent \in SyncAutoRecord
    BY <1>1, <1>2 DEF SyncAutoRecord
  <2>3. /\ sent.savedText = r.savedText /\ sent.record = r.record
        /\ sent.runStopped = r.runStopped /\ sent.active = r.active
        /\ sent.pending = r.pending /\ sent.retiring = r.retiring
        /\ sent.commitOnly = r.commitOnly /\ sent.retry = r.retry
        /\ sent.held = r.held /\ sent.messageId = r.messageId
        /\ sent.queuedSave = r.queuedSave
    BY <1>1 DEF SyncAutoRecord
  <2> HIDE DEF sent
  <2>4. Fine(sent, v) /\ ~sent.runStopped
    BY <1>1, <2>2, <2>3 DEF Fine, Sane
  <2> QED
    BY <2>1, <2>3, <2>4, ReadPlanned
<1>10. CASE op.outcome \notin {"Failed", "EditRefused", "DeletionRefused", "Inventory", "Sent"}
  <2>1. CASE ~asPlanned
    <3>1. Complete(r) = Hold(r, "StateChanged")
      BY <1>10, <2>1 DEF Complete
    <3> QED
      BY <1>3, <1>4, <3>1
  <2>2. CASE asPlanned
    <3>1. Complete(r) = Emit(next, "Check", FALSE)
      BY <1>10, <2>2 DEF Complete
    <3>2. r.pending = "AutoApply" => file \in v
      BY <2>2 DEF RecOK, AppliedVouched
    <3>3. noted \in SyncAutoRecord
      BY <1>1, <1>2 DEF SyncAutoRecord
    <3>4. /\ noted.savedText \in v \cup {NoText} /\ noted.record = r.record
          /\ noted.runStopped = r.runStopped /\ noted.active = r.active
          /\ noted.pending = r.pending /\ noted.retiring = r.retiring
          /\ noted.commitOnly = r.commitOnly /\ noted.retry = r.retry
          /\ noted.held = r.held /\ noted.messageId = r.messageId
      BY <1>1, <3>2 DEF SyncAutoRecord
    <3> HIDE DEF noted
    <3>5. cleared \in SyncAutoRecord
      <4>1. Cleared(noted) \in SyncAutoRecord
        BY <3>3 DEF Cleared, SyncAutoRecord
      <4> QED
        BY <3>3, <4>1
    <3>6. /\ cleared.savedText = noted.savedText /\ cleared.record \in {noted.record, NoRecord}
          /\ cleared.runStopped = noted.runStopped /\ cleared.active = noted.active
          /\ cleared.pending = noted.pending
          /\ cleared.retiring => noted.retiring /\ cleared.messageId = noted.messageId
          /\ cleared.commitOnly = noted.commitOnly /\ cleared.retry = noted.retry
          /\ cleared.held = noted.held
      BY <3>3 DEF Cleared, SyncAutoRecord
    <3> HIDE DEF cleared
    <3>7. next \in SyncAutoRecord
      BY <1>2, <3>5 DEF SyncAutoRecord
    <3>8. /\ next.savedText = cleared.savedText /\ next.record = cleared.record
          /\ next.runStopped = cleared.runStopped /\ next.active = cleared.active
          /\ next.pending = cleared.pending /\ next.retiring = cleared.retiring
          /\ next.commitOnly = cleared.commitOnly /\ next.retry = cleared.retry
          /\ next.held = cleared.held /\ next.messageId = cleared.messageId
      BY <3>5 DEF SyncAutoRecord
    <3> HIDE DEF next
    <3>9. Fine(next, v) /\ ~next.runStopped
      <4>1. next.record = NoRecord \/ next.record = r.record
        BY <3>4, <3>6, <3>8
      <4>2. Sane(next) /\ ~next.runStopped
        BY <1>1, <3>4, <3>6, <3>8 DEF Sane
      <4>3. next.savedText \in v \cup {NoText}
        BY <3>4, <3>6, <3>8
      <4> QED
        BY <1>1, <3>7, <4>1, <4>2, <4>3 DEF Fine
    <3> QED
      BY <3>1, <3>9, ReadPlanned
  <2> QED
    BY <2>1, <2>2
<1> QED
  BY <1>5, <1>6, <1>7, <1>8, <1>9, <1>10

---------------------------------------------------------------------------
(* An event, with what it notes in the record.                             *)

\* What the record says of the operation under way stays as it was.
SameWork(r, s) ==
    /\ s.pending = r.pending /\ s.record = r.record
    /\ s.expState = r.expState /\ s.expFile = r.expFile

Amended(r, s, v) == RecOK(s, v) /\ SameWork(r, s) /\ (r.queuedSave => s.queuedSave)

\* The operation under way does not mind an amended record.
LEMMA OpKept ==
  ASSUME NEW r, NEW s, NEW o, NEW v, NEW w, OpOK(r, o, v), SameWork(r, s), v \subseteq w
  PROVE  OpOK(s, o, w)
BY DEF OpOK, PublishOK, ApplyOK, SameWork

\* What events note of a save, a check, and the switch.
LEMMA Amendments ==
  ASSUME DataOK, NEW r, NEW v, NEW w, RecOK(r, v), v \subseteq w, file \in Texts
  PROVE  /\ Amended(r, r, w)
         /\ Amended(r, Queued(r), w)
         /\ Amended(r, [r EXCEPT !.enabled = TRUE], w)
         /\ file \in w => Amended(r, Noted(r), w)
         /\ Amended(r, [r EXCEPT !.enabled = FALSE, !.held = "None", !.active = FALSE], w)
         /\ Amended(r, [r EXCEPT !.due = TRUE], w)
         /\ r.retry = "waiting" => Amended(r, [r EXCEPT !.retry = "reached"], w)
<1>1. r \in SyncAutoRecord /\ Sane(r)
  BY DEF RecOK, Fine
<1>2. Amended(r, r, w)
  BY DEF Amended, SameWork, RecOK, Fine, AppliedVouched
<1>3. ASSUME NEW s, s \in SyncAutoRecord, SameWork(r, s), Sane(s),
             s.savedText \in w \cup {NoText}, r.queuedSave => s.queuedSave
      PROVE  Amended(r, s, w)
  BY <1>2, <1>3 DEF Amended, SameWork, RecOK, Fine, AppliedVouched
<1>4. r.savedText \in w \cup {NoText}
  BY DEF RecOK, Fine
<1>5. ASSUME NEW s, s = Queued(r) PROVE Amended(r, s, w)
  <2>1. s \in SyncAutoRecord /\ SameWork(r, s) /\ s.savedText = r.savedText
        /\ s.queuedSave = r.queuedSave
    BY <1>1, <1>5 DEF Queued, SyncAutoRecord, SameWork
  <2>2. Sane(s)
    BY <1>1, <1>5 DEF Queued, SyncAutoRecord, Sane
  <2> QED
    BY <1>3, <1>4, <2>1, <2>2
<1>6. ASSUME NEW s, s = [r EXCEPT !.enabled = TRUE] PROVE Amended(r, s, w)
  <2>1. s \in SyncAutoRecord /\ SameWork(r, s) /\ s.savedText = r.savedText
        /\ s.queuedSave = r.queuedSave
    BY <1>1, <1>6 DEF SyncAutoRecord, SameWork
  <2>2. Sane(s)
    BY <1>1, <1>6 DEF SyncAutoRecord, Sane
  <2> QED
    BY <1>3, <1>4, <2>1, <2>2
<1>7. ASSUME NEW s, s = Noted(r), file \in w PROVE Amended(r, s, w)
  <2>1. s \in SyncAutoRecord /\ SameWork(r, s) /\ s.savedText = file /\ s.queuedSave
    BY <1>1, <1>7 DEF Noted, SyncAutoRecord, SameWork
  <2>2. Sane(s)
    BY <1>1, <1>7 DEF Noted, SyncAutoRecord, Sane
  <2> QED
    BY <1>3, <1>7, <2>1, <2>2
<1>8. ASSUME NEW s, s = [r EXCEPT !.enabled = FALSE, !.held = "None", !.active = FALSE]
      PROVE  Amended(r, s, w)
  <2>1. s \in SyncAutoRecord /\ SameWork(r, s) /\ s.savedText = r.savedText
        /\ s.queuedSave = r.queuedSave
    BY <1>1, <1>8 DEF SyncAutoRecord, SameWork, Reasons
  <2>2. Sane(s)
    BY <1>1, <1>8 DEF SyncAutoRecord, Sane
  <2> QED
    BY <1>3, <1>4, <2>1, <2>2
<1>9. ASSUME NEW s, s = [r EXCEPT !.due = TRUE] PROVE Amended(r, s, w)
  <2>1. s \in SyncAutoRecord /\ SameWork(r, s) /\ s.savedText = r.savedText
        /\ s.queuedSave = r.queuedSave
    BY <1>1, <1>9 DEF SyncAutoRecord, SameWork
  <2>2. Sane(s)
    BY <1>1, <1>9 DEF SyncAutoRecord, Sane
  <2> QED
    BY <1>3, <1>4, <2>1, <2>2
<1>10. ASSUME NEW s, s = [r EXCEPT !.retry = "reached"], r.retry = "waiting"
       PROVE  Amended(r, s, w)
  <2>1. s \in SyncAutoRecord /\ SameWork(r, s) /\ s.savedText = r.savedText
        /\ s.queuedSave = r.queuedSave
    BY <1>1, <1>10 DEF SyncAutoRecord, SameWork
  <2>2. Sane(s)
    BY <1>1, <1>10 DEF SyncAutoRecord, Sane
  <2> QED
    BY <1>3, <1>4, <2>1, <2>2
<1> QED
  BY <1>2, <1>5, <1>6, <1>7, <1>8, <1>9, <1>10

\* A policy step and what it leaves for the client.
Stepped(v) ==
    RecOK(rec', v) /\ OpOK(rec', op', v) /\ SaveKept(rec.queuedSave, rec')

\* A noted event changes nothing else while an operation is under way.
LEMMA CoalesceStep ==
  ASSUME AInv, NEW v, Vouching(v), NEW r, Amended(rec, r, v), Coalesce(r)
  PROVE  Stepped(v)
<1>1. OpOK(r, op, v)
  BY OpKept DEF AInv, Amended, Vouching
<1> QED
  BY <1>1 DEF Stepped, Coalesce, Amended, SaveKept

\* An event, with the gate open or closed.
LEMMA OpenStep ==
  ASSUME AInv, NEW v, Vouching(v), NEW r, NEW noted, Amended(rec, r, v),
         Amended(rec, noted, v), NEW retried \in BOOLEAN, Open(r, noted, retried)
  PROVE  Stepped(v)
<1>1. CASE blocked
  <2>1. PICK h : h = Hold(r, "SyncChatProblem")
    OBVIOUS
  <2>2. "SyncChatProblem" \in Reasons
    BY DEF Reasons
  <2>3. PlanOK(rec.queuedSave, h, v)
    BY <2>1, <2>2, HoldOK DEF Amended
  <2>4. rec' = h.rec /\ op' = op
    BY <1>1, <2>1 DEF Open
  <2>5. SameWork(rec, h.rec)
    BY <2>1 DEF Amended, SameWork, Hold, Quiet, RecOK, Fine, SyncAutoRecord
  <2>6. OpOK(h.rec, op, v)
    BY <2>5, OpKept DEF AInv, Vouching
  <2> QED
    BY <2>3, <2>4, <2>6 DEF PlanOK, Stepped
<1>2. CASE ~blocked /\ InFlight
  <2>1. Coalesce(noted)
    BY <1>2 DEF Open
  <2> QED
    BY <2>1, CoalesceStep
<1>3. CASE ~blocked /\ ~InFlight
  <2>1. PICK p : p = Start(noted, retried)
    OBVIOUS
  <2>2. rec' = p.rec /\ op' = p.op
    BY <1>3, <2>1 DEF Open, Adopt
  <2>3. PlanOK(rec.queuedSave, p, v)
    BY <2>1, StartPlanned DEF AInv, Amended
  <2> QED
    BY <2>2, <2>3 DEF PlanOK, Stepped
<1> QED
  BY <1>1, <1>2, <1>3

\* A trigger is noted while a retry waits.
LEMMA OnTriggerStep ==
  ASSUME AInv, NEW r, Amended(rec, r, Claimed), OnTrigger(r)
  PROVE  Stepped(Claimed)
<1>1. Vouching(Claimed) /\ file \in Texts
  BY DEF AInv, DataOK, Vouching
<1>2. Amended(rec, Queued(r), Claimed)
  <2>1. Amended(r, Queued(r), Claimed)
    BY <1>1, Amendments DEF AInv, Amended
  <2> QED
    BY <2>1 DEF Amended, SameWork
<1>3. CASE r.retry # "none"
  <2>1. Coalesce(Queued(r))
    BY <1>3 DEF OnTrigger
  <2> QED
    BY <1>1, <1>2, <2>1, CoalesceStep
<1>4. CASE r.retry = "none"
  <2>1. Open(r, Queued(r), FALSE)
    BY <1>4 DEF OnTrigger
  <2> QED
    BY <1>1, <1>2, <2>1, OpenStep
<1> QED
  BY <1>3, <1>4---------------------------------------------------------------------------
(* The steps keep the invariant.                                           *)

\* What is left of the invariant when only records, files and flags change.
LEMMA DataKept ==
  ASSUME DataOK, UNCHANGED <<ledger, server, mode>>, Claimed \subseteq Claimed',
         Claimed' \in SUBSET Texts, file' \in Texts, saved' \in Claimed' \cup {NoText},
         unheard' \in BOOLEAN, blocked' \in BOOLEAN, faults' \in Nat, saves' \in Nat,
         other' \in OtherHead \cup {NoHead}
  PROVE  DataOK' /\ Base' = Base
<1>1. Base' = Base
  BY DEF Base, ledger, server
<1>2. StageIsPending'
  BY DEF DataOK, StageIsPending, ledger
<1>3. \A r \in Base : r.seq <= st.seq /\ r.payload.text \in Claimed'
  BY DEF DataOK
<1>4. st' = st /\ lineage' = lineage /\ staged' = staged
      /\ cloud' = cloud /\ nextId' = nextId /\ orphans' = orphans
  BY DEF ledger, server
<1> QED
  BY <1>1, <1>2, <1>3, <1>4 DEF DataOK

\* The record and the operation fit as long as what they rest on stays.
LEMMA StaysOK ==
  ASSUME RecOK(rec', Claimed'), OpOK(rec', op', Claimed'), UNCHANGED <<st, staged>>,
         Base' \subseteq Base
  PROVE  RecOK(rec, Claimed)' /\ OpOK(rec, op, Claimed)'
<1>1. Fits(rec'.record) => Fits(rec.record)'
  BY DEF Fits
<1>2. RecOK(rec, Claimed)'
  BY <1>1 DEF RecOK, Fine, AppliedVouched
<1>3. Fits(op'.rec) => Fits(op.rec)'
  BY DEF Fits
<1>4. CommitOK(op') => CommitOK(op)'
  BY DEF CommitOK, Later
<1>5. RetireOK(op') => RetireOK(op)'
  BY DEF RetireOK, Later
<1>6. SendOK(op') => SendOK(op)'
  BY DEF SendOK
<1>7. PublishOK(rec', op') => PublishOK(rec, op)'
  BY DEF PublishOK
<1>8. ApplyOK(rec', op', Claimed') => ApplyOK(rec, op, Claimed)'
  BY DEF ApplyOK
<1>9. OpOK(rec, op, Claimed)'
  BY <1>3, <1>4, <1>5, <1>6, <1>7, <1>8 DEF OpOK
<1> QED
  BY <1>2, <1>9

\* A step of the policy.
LEMMA PolicyKeeps ==
  ASSUME AInv, Stepped(Claimed'), UNCHANGED <<ledger, file, saved, server, other, mode>>,
         Claimed \subseteq Claimed', Claimed' \in SUBSET Texts,
         unheard' \in BOOLEAN, blocked' \in BOOLEAN, faults' \in Nat, saves' \in Nat
  PROVE  AInv'
<1>1. DataOK' /\ Base' = Base
  BY DataKept DEF AInv, DataOK
<1>2. RecOK(rec, Claimed)' /\ OpOK(rec, op, Claimed)'
  BY <1>1, StaysOK DEF Stepped, ledger
<1> QED
  BY <1>1, <1>2 DEF AInv

\* The events the policy handles.
LEMMA TriggerKeeps ==
  AInv /\ (Trigger \/ Enable) => AInv' /\ SaveKept(rec.queuedSave, rec')
<1> SUFFICES ASSUME AInv, Trigger \/ Enable
             PROVE  AInv' /\ SaveKept(rec.queuedSave, rec')
  OBVIOUS
<1>1. RecOK(rec, Claimed) /\ file \in Texts /\ DataOK
  BY DEF AInv, DataOK
<1>2. PICK r : OnTrigger(r) /\ Amended(rec, r, Claimed)
  BY <1>1, Amendments DEF Trigger, Enable
<1>3. Stepped(Claimed)
  BY <1>2, OnTriggerStep
<1>4. UNCHANGED <<ledger, local, server, other, blocked, bounds, mode>>
  BY DEF Trigger, Enable
<1>5. AInv'
  <2>1. Stepped(Claimed')
    BY <1>3, <1>4 DEF bounds, Claimed
  <2> QED
    BY <2>1, <1>4, PolicyKeeps DEF AInv, DataOK, local, bounds, Claimed
<1> QED
  BY <1>3, <1>5 DEF Stepped

\* The user switches the automatic sync off.
LEMMA DisableKeeps ==
  AInv /\ Disable => AInv' /\ SaveKept(rec.queuedSave, rec')
<1> SUFFICES ASSUME AInv, Disable
             PROVE  AInv' /\ SaveKept(rec.queuedSave, rec')
  OBVIOUS
<1>1. RecOK(rec, Claimed) /\ file \in Texts /\ DataOK /\ Vouching(Claimed)
  BY DEF AInv, DataOK, Vouching
<1>2. PICK r : Coalesce(r) /\ Amended(rec, r, Claimed)
  BY <1>1, Amendments DEF Disable
<1>3. Stepped(Claimed)
  BY <1>1, <1>2, CoalesceStep
<1>4. /\ UNCHANGED <<ledger, local, server, other, blocked, saves, Claimed, mode>>
      /\ faults' = faults + 1
  BY DEF Disable, Claimed
<1>5. AInv'
  <2>1. Stepped(Claimed')
    BY <1>3, <1>4
  <2> QED
    BY <2>1, <1>4, PolicyKeeps DEF AInv, DataOK, local
<1> QED
  BY <1>3, <1>5 DEF Stepped

\* A save is heard of.
LEMMA SavedKeeps ==
  AInv /\ Saved => AInv' /\ SaveKept(rec.queuedSave, rec')
<1> SUFFICES ASSUME AInv, Saved
             PROVE  AInv' /\ SaveKept(rec.queuedSave, rec')
  OBVIOUS
<1> DEFINE v == Claimed \cup {file}
<1>1. /\ RecOK(rec, Claimed) /\ file \in Texts /\ DataOK /\ Vouching(v)
      /\ Claimed \subseteq v /\ file \in v
  BY DEF AInv, DataOK, Vouching
<1> HIDE DEF v
<1>2. Amended(rec, rec, v) /\ Amended(rec, Noted(rec), v)
  BY <1>1, Amendments
<1>3. Coalesce(rec) \/ Coalesce(Noted(rec)) \/ Open(rec, Noted(rec), FALSE)
  BY DEF Saved
<1>4. Stepped(v)
  BY <1>1, <1>2, <1>3, CoalesceStep, OpenStep
<1>5. /\ UNCHANGED <<ledger, file, saved, server, other, blocked, faults, saves, mode>>
      /\ unheard' = FALSE /\ Claimed' = v
  BY DEF Saved, v, Claimed
<1>6. AInv'
  <2>1. Stepped(Claimed')
    BY <1>4, <1>5
  <2> QED
    BY <1>1, <1>5, <2>1, PolicyKeeps DEF AInv, DataOK, Vouching
<1> QED
  BY <1>4, <1>6 DEF Stepped

\* The retry timer fires.
LEMMA RetryTimerKeeps ==
  AInv /\ RetryTimer => AInv' /\ SaveKept(rec.queuedSave, rec')
<1> SUFFICES ASSUME AInv, RetryTimer
             PROVE  AInv' /\ SaveKept(rec.queuedSave, rec')
  OBVIOUS
<1>1. RecOK(rec, Claimed) /\ file \in Texts /\ DataOK /\ Vouching(Claimed)
  BY DEF AInv, DataOK, Vouching
<1>2. Amended(rec, rec, Claimed)
  BY <1>1, Amendments
<1>3. Open(rec, rec, TRUE) /\ UNCHANGED <<ledger, local, server, other, blocked, bounds, mode>>
  BY DEF RetryTimer
<1>4. Stepped(Claimed)
  BY <1>1, <1>2, <1>3, OpenStep
<1>5. AInv'
  <2>1. Stepped(Claimed')
    BY <1>3, <1>4 DEF bounds, Claimed
  <2> QED
    BY <2>1, <1>3, PolicyKeeps DEF AInv, DataOK, local, bounds, Claimed
<1> QED
  BY <1>4, <1>5 DEF Stepped

\* The answer to the operation is handled.
LEMMA CompletedKeeps ==
  AInv /\ Completed => AInv' /\ SaveKept(rec.queuedSave, rec')
<1> SUFFICES ASSUME AInv, Completed
             PROVE  AInv' /\ SaveKept(rec.queuedSave, rec')
  OBVIOUS
<1>1. RecOK(rec, Claimed) /\ OpOK(rec, op, Claimed) /\ DataOK /\ Vouching(Claimed)
  BY DEF AInv, DataOK, Vouching
<1>2. Stepped(Claimed)
  <2>1. CASE rec' = rec /\ op' = NoOperation
    BY <1>1, <2>1, NothingOK DEF Stepped, SaveKept
  <2>2. ASSUME NEW p, Adopt(p), PlanOK(rec.queuedSave, p, Claimed)
        PROVE  Stepped(Claimed)
    BY <2>2 DEF Adopt, PlanOK, Stepped
  <2>3. CASE Adopt(Hold(rec, "SyncChatProblem"))
    <3>1. "SyncChatProblem" \in Reasons
      BY DEF Reasons
    <3> QED
      BY <1>1, <2>2, <2>3, <3>1, HoldOK
  <2>4. CASE rec.active /\ Adopt(Complete(rec))
    <3>1. op.phase = "answered"
      BY DEF Completed
    <3>2. Planned(rec.queuedSave, Complete(rec), Claimed, op.inv.msgs)
      BY <1>1, <2>4, <3>1, CompletePlanned
    <3> QED
      BY <2>2, <2>4, <3>2 DEF Planned
  <2> QED
    BY <2>1, <2>3, <2>4 DEF Completed
<1>3. UNCHANGED <<ledger, local, server, other, blocked, bounds, mode>>
  BY DEF Completed
<1>4. AInv'
  <2>1. Stepped(Claimed')
    BY <1>2, <1>3 DEF bounds, Claimed
  <2> QED
    BY <2>1, <1>3, PolicyKeeps DEF AInv, DataOK, local, bounds, Claimed
<1> QED
  BY <1>2, <1>4 DEF Stepped
\* A record stays fit when less is written and more is claimed.
LEMMA RecKept ==
  ASSUME RecOK(rec, Claimed), rec' = rec, Base' \subseteq Base, Claimed \subseteq Claimed',
         AppliedVouched(rec, Claimed)'
  PROVE  RecOK(rec, Claimed)'
<1>1. Fits(rec.record) => Fits(rec.record)'
  BY DEF Fits
<1> QED
  BY <1>1 DEF RecOK, Fine

\* An answer leaves nothing to execute.
LEMMA AnswerKept ==
  ASSUME OpOK(rec, op, Claimed), op.phase # "idle", rec' = rec,
         NEW outcome \in Outcomes \ {"Inventory"}, Answer(outcome)
  PROVE  OpOK(rec, op, Claimed)'
<1>1. op.kind = rec.pending /\ op.kind # "NoOp" /\ op.kind \in Actions
  BY DEF OpOK, NoOperation, Operation
<1>2. NoOperation \in Operation /\ IsFiniteSet(NoOperation.inv.msgs)
  BY NothingOK DEF OpOK
<1>3. op' = [NoOperation EXCEPT !.kind = op.kind, !.phase = "answered", !.outcome = outcome]
  BY DEF Answer
<1>4. op' \in Operation
  BY <1>1, <1>2, <1>3 DEF Operation, Phases
<1>5. /\ op'.kind = op.kind /\ op'.phase = "answered" /\ op'.outcome = outcome
      /\ ~op'.commitOnly /\ op'.rec = NoRecord /\ op'.inv = NoOperation.inv
  BY <1>3 DEF NoOperation
<1> QED
  BY <1>1, <1>2, <1>4, <1>5 DEF OpOK

\* The operation stays fit when less is written and more is claimed.
LEMMA OpStays ==
  ASSUME OpOK(rec, op, Claimed), UNCHANGED <<st, staged, rec, op>>, Base' \subseteq Base,
         Claimed \subseteq Claimed'
  PROVE  OpOK(rec, op, Claimed)'
<1>1. Fits(op.rec) => Fits(op.rec)'
  BY DEF Fits
<1>2. CommitOK(op) => CommitOK(op)'
  BY DEF CommitOK, Later
<1>3. RetireOK(op) => RetireOK(op)'
  BY DEF RetireOK, Later
<1>4. SendOK(op) => SendOK(op)'
  BY DEF SendOK
<1>5. PublishOK(rec, op) => PublishOK(rec, op)'
  BY DEF PublishOK
<1>6. ApplyOK(rec, op, Claimed) => ApplyOK(rec, op, Claimed)'
  BY DEF ApplyOK
<1> QED
  BY <1>1, <1>2, <1>3, <1>4, <1>5, <1>6 DEF OpOK

\* What a request does to the chat writes its own bytes at most.
LEMMA EffectWrites ==
  ASSUME DataOK, NEW q, Effect(q), q.kind # "Retire" => q.rec \in Record
  PROVE  /\ cloud' \in SUBSET Message /\ IsFiniteSet(cloud') /\ nextId' \in Nat \ {0}
         /\ \A m \in cloud' : m \in cloud \/ (m.rec = q.rec /\ q.kind # "Retire")
<1>1. cloud \in SUBSET Message /\ IsFiniteSet(cloud) /\ nextId \in Nat \ {0}
  BY DEF DataOK
<1>2. CASE /\ q.kind = "Post" /\ cloud' = cloud \cup {[id |-> nextId, rec |-> q.rec]}
           /\ nextId' = nextId + 1
  <2>1. PICK x : x = [id |-> nextId, rec |-> q.rec]
    OBVIOUS
  <2>2. x \in Message /\ x.rec = q.rec
    BY <1>1, <1>2, <2>1 DEF Message
  <2>3. cloud' = cloud \cup {x}
    BY <1>2, <2>1
  <2>4. IsFiniteSet(cloud')
    BY <1>1, <2>3, FS_AddElement
  <2>5. nextId' \in Nat \ {0}
    BY <1>1, <1>2
  <2> QED
    BY <1>1, <1>2, <2>2, <2>3, <2>4, <2>5
<1>3. CASE /\ q.kind = "EditInPlace" /\ \E m \in cloud : m.id = q.id
           /\ cloud' = {m \in cloud : m.id # q.id} \cup {[id |-> q.id, rec |-> q.rec]}
           /\ nextId' = nextId
  <2>1. IsFiniteSet({m \in cloud : m.id # q.id})
    BY <1>1, FS_Subset
  <2>2. PICK x : x = [id |-> q.id, rec |-> q.rec]
    OBVIOUS
  <2>3. x \in Message /\ x.rec = q.rec
    BY <1>1, <1>3, <2>2 DEF Message
  <2>4. cloud' = {m \in cloud : m.id # q.id} \cup {x}
    BY <1>3, <2>2
  <2>5. IsFiniteSet(cloud')
    BY <2>1, <2>4, FS_AddElement
  <2> QED
    BY <1>1, <1>3, <2>3, <2>4, <2>5
<1>4. CASE /\ q.kind = "Retire" /\ cloud' = {m \in cloud : m.id # q.id} /\ nextId' = nextId
  <2>1. IsFiniteSet(cloud')
    BY <1>1, <1>4, FS_Subset
  <2> QED
    BY <1>1, <1>4, <2>1
<1> QED
  BY <1>2, <1>3, <1>4 DEF Effect

\* The bytes of a request that was sent are written already.
LEMMA RequestWritten ==
  ASSUME AInv, op.phase \in {"todo", "sent", "served"}, op.kind \in RequestKinds
  PROVE  op.rec \in Base /\ op.rec \in Record /\ op.id \in Nat
<1>1. CASE op.kind = "Retire"
  <2>1. PICK m \in st.own : m.rec = op.rec
    BY <1>1 DEF AInv, OpOK, RetireOK
  <2>2. m \in Message
    BY DEF AInv, DataOK, Sound, LocalState
  <2> QED
    BY <2>1, <2>2 DEF AInv, OpOK, Operation, Base, Message
<1>2. CASE op.kind \in {"Post", "EditInPlace"}
  <2>1. op.rec = staged /\ staged # NoRecord
    BY <1>2 DEF AInv, OpOK, SendOK
  <2> QED
    BY <2>1 DEF AInv, DataOK, OpOK, Operation, Base
<1> QED
  BY <1>1, <1>2 DEF RequestKinds

\* What is durable stays sound while less is written.
LEMMA NothingWritten ==
  ASSUME DataOK, UNCHANGED <<ledger, mode>>, Base' \subseteq Base, Claimed \subseteq Claimed',
         Claimed' \in SUBSET Texts, file' \in Texts, saved' \in Claimed' \cup {NoText},
         unheard' \in BOOLEAN, blocked' \in BOOLEAN, faults' \in Nat, saves' \in Nat,
         cloud' \in SUBSET Message, IsFiniteSet(cloud'), nextId' \in Nat \ {0},
         orphans' \in SUBSET Orphaned, other' \in OtherHead \cup {NoHead}
  PROVE  DataOK'
<1>1. st' = st /\ lineage' = lineage /\ staged' = staged
  BY DEF ledger
<1>2. StageIsPending'
  BY <1>1 DEF DataOK, StageIsPending
<1>3. \A r \in Base' : r.seq <= st.seq /\ r.payload.text \in Claimed'
  BY DEF DataOK
<1>4. \A r, q \in Base' : r.seq = q.seq => r = q
  BY DEF DataOK
<1> QED
  BY <1>1, <1>2, <1>3, <1>4 DEF DataOK
\* What a step needs of the record when the ledger is left alone.
LEMMA LedgerKept ==
  ASSUME AInv, UNCHANGED <<ledger, rec>>, Base' \subseteq Base, Claimed \subseteq Claimed'
  PROVE  RecOK(rec, Claimed)'
<1>1. AppliedVouched(rec, Claimed)'
  BY DEF AInv, RecOK, AppliedVouched, ledger
<1> QED
  BY <1>1, RecKept DEF AInv

\* The chat is read.
LEMMA FetchKeeps ==
  AInv /\ Fetch => AInv'
<1> SUFFICES ASSUME AInv, Fetch PROVE AInv'
  OBVIOUS
<1>1. /\ op.phase = "todo" /\ Reads /\ orphans' \subseteq orphans
      /\ UNCHANGED <<ledger, local, rec, cloud, nextId, other, blocked, bounds, mode>>
  BY DEF Fetch
<1>2. PICK queued \in BOOLEAN :
        op' = [NoOperation EXCEPT
                 !.kind = op.kind, !.phase = "answered", !.outcome = "Inventory",
                 !.inv = [msgs |-> cloud, other |-> other, queued |-> queued]]
  BY DEF Fetch
<1>3. Base' \subseteq Base
  BY <1>1 DEF Base, ledger
<1>4. DataOK'
  BY <1>1, <1>3, NothingWritten DEF AInv, DataOK, local, bounds, Claimed
<1>5. RecOK(rec, Claimed)'
  BY <1>1, <1>3, LedgerKept DEF bounds, Claimed
<1>6. OpOK(rec, op, Claimed)'
  <2>1. PICK inv : inv = [msgs |-> cloud, other |-> other, queued |-> queued]
    OBVIOUS
  <2>2. inv \in Inventories /\ IsFiniteSet(inv.msgs)
    BY <2>1 DEF AInv, DataOK, Inventories
  <2>3. NoOperation \in Operation
    BY NothingOK DEF OpOK
  <2>4. op.kind = rec.pending /\ op.kind \in {"Check", "Reconcile"}
    BY <1>1 DEF AInv, OpOK, NoOperation, Reads
  <2>5. op' = [NoOperation EXCEPT
                 !.kind = op.kind, !.phase = "answered", !.outcome = "Inventory", !.inv = inv]
    BY <1>2, <2>1
  <2>6. op' \in Operation
    BY <2>2, <2>3, <2>4, <2>5 DEF Operation, Phases, Outcomes, Actions
  <2>7. /\ op'.kind = op.kind /\ op'.phase = "answered" /\ op'.inv = inv
        /\ ~op'.commitOnly /\ op'.rec = NoRecord
    BY <2>5 DEF NoOperation
  <2> QED
    BY <1>1, <2>2, <2>4, <2>6, <2>7 DEF OpOK
<1> QED
  BY <1>4, <1>5, <1>6 DEF AInv

\* A stage becomes durable with the state that reserved it.
LEMMA StageKeeps ==
  AInv /\ Store /\ op.kind = "Publish" => AInv'
<1> SUFFICES ASSUME AInv, Store, op.kind = "Publish" PROVE AInv'
  OBVIOUS
<1>1. /\ op.phase = "todo" /\ st' = op.state /\ lineage' = NextLineage(op.state)
      /\ staged' = op.rec /\ Answer("Staged")
      /\ UNCHANGED <<local, rec, server, other, blocked, bounds, mode>>
  BY DEF Store
<1>2. /\ st.pendingSeq = 0 /\ Sound(op.state)
      /\ op.state.seq = st.seq + 1 /\ op.state.pendingSeq = st.seq + 1
      /\ op.rec = PendingRecord(op.state) /\ op.rec \in op.state.issued
      /\ op.state.issued \subseteq st.issued \cup {op.rec}
      /\ op.state.own = st.own /\ rec.record = op.rec
  BY <1>1 DEF AInv, OpOK, PublishOK
<1>3. Base' \subseteq Base \cup {op.rec} /\ staged = NoRecord
  BY <1>1, <1>2 DEF AInv, DataOK, StageIsPending, Base, server
<1>4. op.rec \in Record /\ Fits(op.rec) /\ op.rec.payload.text \in Claimed
      /\ op.rec.seq = st.seq + 1 /\ st.seq \in Nat
  <2>1. op.rec \in Record
    BY <1>2 DEF Sound, LocalState
  <2> QED
    BY <1>2, <2>1, Absences DEF AInv, DataOK, Sound, LocalState, OpOK, PendingRecord
<1>5. DataOK'
  <2>1. \A r \in Base' : r.seq <= st.seq + 1 /\ r.payload.text \in Claimed
    <3> TAKE r \in Base'
    <3>1. CASE r \in Base
      <4>1. r \in Record
        BY <3>1, Absences DEF AInv, DataOK, Sound, LocalState, Message, Orphaned, Base
      <4> QED
        BY <1>4, <3>1, <4>1 DEF AInv, DataOK, Record
    <3>2. CASE r = op.rec
      BY <1>4, <3>2
    <3> QED
      BY <1>3, <3>1, <3>2
  <2>2. \A r, q \in Base' : r.seq = q.seq => r = q
    BY <1>3, <1>4 DEF AInv, DataOK, Fits
  <2>3. lineage' \subseteq Payloads
    <3>1. lineage \subseteq Payloads /\ st.base \in Payloads \cup {NoPayload}
          /\ \A m \in st.own : m.rec.payload \in Payloads
      BY DEF AInv, DataOK, Sound, LocalState, Message, Record
    <3> QED
      BY <1>1, <3>1 DEF NextLineage
  <2>4. StageIsPending'
    BY <1>1, <1>2, <1>4 DEF StageIsPending
  <2> QED
    BY <1>1, <1>2, <1>4, <2>1, <2>2, <2>3, <2>4
       DEF AInv, DataOK, local, server, bounds, Claimed
<1>6. rec.pending = "Publish"
  BY <1>1 DEF AInv, OpOK, NoOperation
<1>7. RecOK(rec, Claimed)'
  <2>1. Fits(rec.record)'
    BY <1>1, <1>2, <1>3, <1>4 DEF Fits
  <2> QED
    BY <1>1, <1>2, <1>4, <1>6, <2>1 DEF AInv, RecOK, Fine, AppliedVouched, bounds, Claimed
<1>8. OpOK(rec, op, Claimed)'
  <2>1. "Staged" \in Outcomes \ {"Inventory"}
    BY DEF Outcomes
  <2> QED
    BY <1>1, <2>1, AnswerKept DEF AInv
<1> QED
  BY <1>5, <1>7, <1>8 DEF AInv

\* A commit writes nothing new, and drops the stage it completes.
LEMMA CommitWrites ==
  ASSUME DataOK, NEW s, Later(s), st' = s,
         staged' = (IF s.pendingSeq = 0 THEN NoRecord ELSE staged),
         lineage' \subseteq Payloads,
         UNCHANGED <<local, server, other, blocked, bounds, mode>>
  PROVE  DataOK' /\ Base' \subseteq Base
<1>1. Base' \subseteq Base
  BY DEF Later, Base, server
<1>2. StageIsPending'
  <2>1. CASE s.pendingSeq = 0
    BY <2>1 DEF DataOK, StageIsPending, Later
  <2>2. CASE s.pendingSeq # 0
    BY <2>2 DEF DataOK, StageIsPending, Later, PendingRecord
  <2> QED
    BY <2>1, <2>2
<1>3. \A r \in Base' : r.seq <= s.seq /\ r.payload.text \in Claimed
  BY <1>1 DEF DataOK, Later
<1>4. \A r, q \in Base' : r.seq = q.seq => r = q
  BY <1>1 DEF DataOK
<1> QED
  BY <1>1, <1>2, <1>3, <1>4 DEF DataOK, Later, local, server, bounds, Claimed

\* A state read back is committed.
LEMMA CommitKeeps ==
  AInv /\ Store /\ op.kind # "Publish" => AInv'
<1> SUFFICES ASSUME AInv, Store, op.kind # "Publish" PROVE AInv'
  OBVIOUS
<1>1. /\ op.phase = "todo" /\ op.commitOnly /\ st' = op.state
      /\ lineage' = NextLineage(op.state)
      /\ staged' = (IF op.state.pendingSeq = 0 THEN NoRecord ELSE staged)
      /\ Answer("Committed")
      /\ UNCHANGED <<local, rec, server, other, blocked, bounds, mode>>
  BY DEF Store
<1>2. Later(op.state) /\ op.kind = "Reconcile" /\ rec.pending = "Reconcile"
  BY <1>1 DEF AInv, OpOK, CommitOK, NoOperation
<1>3. lineage' \subseteq Payloads
  <2>1. lineage \subseteq Payloads /\ st.base \in Payloads \cup {NoPayload}
        /\ \A m \in st.own : m.rec.payload \in Payloads
    BY DEF AInv, DataOK, Sound, LocalState, Message, Record
  <2> QED
    BY <1>1, <2>1 DEF NextLineage
<1>4. DataOK' /\ Base' \subseteq Base
  BY <1>1, <1>2, <1>3, CommitWrites DEF AInv
<1>5. RecOK(rec, Claimed)'
  <2>1. AppliedVouched(rec, Claimed)'
    BY <1>1, <1>2 DEF AppliedVouched
  <2> QED
    BY <1>1, <1>4, <2>1, RecKept DEF AInv, bounds, Claimed
<1>6. OpOK(rec, op, Claimed)'
  <2>1. "Committed" \in Outcomes \ {"Inventory"}
    BY DEF Outcomes
  <2> QED
    BY <1>1, <2>1, AnswerKept DEF AInv
<1> QED
  BY <1>4, <1>5, <1>6 DEF AInv

\* The file is written over, and the text is claimed from then on.
LEMMA WriteKeeps ==
  AInv /\ WriteFile => AInv'
<1> SUFFICES ASSUME AInv, WriteFile PROVE AInv'
  OBVIOUS
<1>1. /\ op.phase = "todo" /\ op.kind = "AutoApply" /\ file' = op.text
      /\ op' = [op EXCEPT !.phase = "written"] /\ Claimed' = Claimed \cup {op.text}
      /\ UNCHANGED <<ledger, saved, unheard, rec, server, other, blocked, faults, saves, mode>>
  BY DEF WriteFile, Claimed
<1>2. ApplyOK(rec, op, Claimed)
  BY <1>1 DEF AInv, OpOK
<1>3. op.text \in Texts
  BY <1>2 DEF ApplyOK
<1>4. DataOK' /\ Base' = Base
  BY <1>1, <1>3, DataKept DEF AInv, DataOK
<1>5. RecOK(rec, Claimed)'
  BY <1>1, <1>4, LedgerKept
<1>6. OpOK(rec, op, Claimed)'
  <2>1. op \in Operation
    BY DEF AInv, OpOK
  <2>2. op' \in Operation
    BY <1>1, <2>1 DEF Operation, Phases
  <2>3. /\ op'.kind = "AutoApply" /\ op'.commitOnly = op.commitOnly /\ op'.rec = op.rec
        /\ op'.state = op.state /\ op'.text = op.text /\ op'.phase = "written"
        /\ op'.outcome = op.outcome /\ op'.inv = op.inv
    BY <1>1, <2>1 DEF Operation
  <2>4. ApplyOK(rec, op, Claimed)'
    BY <1>1, <1>2, <2>3 DEF ApplyOK, ledger
  <2>5. Fits(op.rec) => Fits(op.rec)'
    BY <1>4, <2>3 DEF Fits
  <2> QED
    BY <1>1, <2>2, <2>3, <2>4, <2>5 DEF AInv, OpOK, NoOperation
<1> QED
  BY <1>4, <1>5, <1>6 DEF AInv

\* What was applied becomes the base.
LEMMA ApplyKeeps ==
  AInv /\ CommitApply => AInv'
<1> SUFFICES ASSUME AInv, CommitApply PROVE AInv'
  OBVIOUS
<1>1. /\ op.phase = "written" /\ st' = op.state /\ lineage' = op.knows /\ Answer("Applied")
      /\ UNCHANGED <<staged, local, rec, server, other, blocked, bounds, mode>>
  BY DEF CommitApply
<1>2. ApplyOK(rec, op, Claimed) /\ op.text \in Claimed
  BY <1>1 DEF AInv, OpOK, ApplyOK
<1>3. PICK k \in Payloads : op.state = [st EXCEPT !.base = k]
  BY <1>2 DEF ApplyOK
<1>4. st \in LocalState /\ Sound(st) /\ lineage' \subseteq Payloads
  BY <1>1 DEF AInv, DataOK, Sound, OpOK, Operation
<1>5. /\ st'.version = st.version /\ st'.chat = st.chat /\ st'.seq = st.seq
      /\ st'.pendingSeq = st.pendingSeq /\ st'.confirmedSeq = st.confirmedSeq
      /\ st'.abandonedSeq = st.abandonedSeq /\ st'.ownHash = st.ownHash
      /\ st'.issued = st.issued /\ st'.own = st.own /\ st'.pendingKey = st.pendingKey
      /\ st' \in LocalState
  BY <1>1, <1>3, <1>4 DEF LocalState
<1>6. Sound(st')
  BY <1>4, <1>5
     DEF Sound, Serializes, CountersValid, IssuedValid, OwnValid, ChatValid
<1>7. Base' = Base
  BY <1>1, <1>5 DEF Base, server
<1>8. DataOK'
  <2>1. StageIsPending'
    BY <1>1, <1>5 DEF AInv, DataOK, StageIsPending, PendingRecord
  <2>2. \A r \in Base' : r.seq <= st'.seq /\ r.payload.text \in Claimed
    BY <1>5, <1>7 DEF AInv, DataOK
  <2>3. \A r, q \in Base' : r.seq = q.seq => r = q
    BY <1>7 DEF AInv, DataOK
  <2> QED
    BY <1>1, <1>4, <1>6, <2>1, <2>2, <2>3 DEF AInv, DataOK, local, server, bounds, Claimed
<1>9. RecOK(rec, Claimed)'
  <2>1. AppliedVouched(rec, Claimed)'
    BY <1>1, <1>2 DEF AppliedVouched, ApplyOK, bounds, Claimed
  <2> QED
    BY <1>1, <1>7, <2>1, RecKept DEF AInv, bounds, Claimed
<1>10. OpOK(rec, op, Claimed)'
  <2>1. "Applied" \in Outcomes \ {"Inventory"}
    BY DEF Outcomes
  <2> QED
    BY <1>1, <2>1, AnswerKept DEF AInv
<1> QED
  BY <1>8, <1>9, <1>10 DEF AInv

\* An operation fails with nothing changed but what the server may still do.
LEMMA FailureKeeps ==
  AInv /\ (AbortApply \/ Refuse \/ Fail) => AInv'
<1> SUFFICES ASSUME AInv, AbortApply \/ Refuse \/ Fail PROVE AInv'
  OBVIOUS
<1>1. /\ op.phase \in {"todo", "written", "sent", "served"}
      /\ UNCHANGED <<ledger, local, rec, cloud, nextId, other, blocked, saves, Claimed, mode>>
      /\ \/ orphans' = orphans
         \/ op.phase = "sent" /\ orphans' = orphans \cup {Orphan}
      /\ faults' \in Nat
      /\ \E outcome \in Outcomes \ {"Inventory"} : Answer(outcome)
  <2>1. {"Failed", "DeletionRefused", "EditRefused"} \subseteq Outcomes \ {"Inventory"}
    BY DEF Outcomes
  <2>2. faults \in Nat
    BY DEF AInv, DataOK
  <2>3. CASE AbortApply
    BY <2>1, <2>2, <2>3 DEF AbortApply, server, bounds, Claimed
  <2>4. CASE Refuse
    BY <2>1, <2>2, <2>4 DEF Refuse, Fault, server, bounds, Claimed
  <2>5. CASE Fail
    BY <2>1, <2>2, <2>5 DEF Fail, Fault, Claimed
  <2> QED
    BY <2>3, <2>4, <2>5
<1>2. orphans' \in SUBSET Orphaned /\ Base' \subseteq Base
  <2>1. CASE orphans' = orphans
    BY <1>1, <2>1 DEF AInv, DataOK, Base, ledger
  <2>2. CASE op.phase = "sent" /\ orphans' = orphans \cup {Orphan}
    <3>1. op.kind \in RequestKinds
      BY <2>2 DEF AInv, OpOK
    <3>2. op.rec \in Base /\ op.rec \in Record /\ op.id \in Nat
      BY <2>2, <3>1, RequestWritten
    <3>3. Orphan \in Orphaned /\ Orphan.rec = op.rec
      BY <3>1, <3>2 DEF Orphan, Orphaned
    <3> QED
      BY <1>1, <2>2, <3>2, <3>3 DEF AInv, DataOK, Base, ledger
  <2> QED
    BY <1>1, <2>1, <2>2
<1>3. DataOK'
  BY <1>1, <1>2, NothingWritten DEF AInv, DataOK, local
<1>4. RecOK(rec, Claimed)'
  BY <1>1, <1>2, LedgerKept
<1>5. OpOK(rec, op, Claimed)'
  BY <1>1, AnswerKept DEF AInv
<1> QED
  BY <1>3, <1>4, <1>5 DEF AInv
\* A request is on its way, or has reached the server: its bytes are as before.
LEMMA PhaseKept ==
  ASSUME OpOK(rec, op, Claimed), UNCHANGED <<st, staged, rec, Claimed>>, Base' \subseteq Base,
         op.phase \in {"todo", "sent"}, op.kind \in RequestKinds,
         NEW phase \in {"sent", "served"}, op' = [op EXCEPT !.phase = phase]
  PROVE  OpOK(rec, op, Claimed)'
<1>1. op \in Operation
  BY DEF OpOK
<1>2. op' \in Operation
  BY <1>1 DEF Operation, Phases
<1>3. /\ op'.kind = op.kind /\ op'.commitOnly = op.commitOnly /\ op'.rec = op.rec
      /\ op'.id = op.id /\ op'.state = op.state /\ op'.phase = phase
      /\ op'.outcome = op.outcome /\ op'.inv = op.inv
  BY <1>1 DEF Operation
<1>4. Fits(op.rec) => Fits(op.rec)'
  BY <1>3 DEF Fits
<1>5. RetireOK(op) => RetireOK(op)'
  BY <1>3 DEF RetireOK, Later
<1>6. SendOK(op) => SendOK(op)'
  BY <1>3 DEF SendOK
<1> QED
  BY <1>2, <1>3, <1>4, <1>5, <1>6 DEF OpOK, NoOperation, RequestKinds

\* A request is sent.
LEMMA TransmitKeeps ==
  AInv /\ Transmit => AInv'
<1> SUFFICES ASSUME AInv, Transmit PROVE AInv'
  OBVIOUS
<1>1. /\ op.phase = "todo" /\ op.kind \in RequestKinds /\ op' = [op EXCEPT !.phase = "sent"]
      /\ UNCHANGED <<ledger, local, rec, server, other, blocked, bounds, mode>>
  BY DEF Transmit, Requests, RequestKinds
<1>2. DataOK' /\ Base' = Base
  BY <1>1, DataKept DEF AInv, DataOK, local, bounds, Claimed
<1>3. RecOK(rec, Claimed)'
  BY <1>1, <1>2, LedgerKept DEF bounds, Claimed
<1>4. OpOK(rec, op, Claimed)'
  BY <1>1, <1>2, PhaseKept DEF AInv, ledger, bounds, Claimed
<1> QED
  BY <1>2, <1>3, <1>4 DEF AInv

\* The server applies a request.
LEMMA ServeKeeps ==
  AInv /\ Serve => AInv'
<1> SUFFICES ASSUME AInv, Serve PROVE AInv'
  OBVIOUS
<1>1. /\ op.phase = "sent" /\ Effect(op) /\ op' = [op EXCEPT !.phase = "served"]
      /\ UNCHANGED <<ledger, local, rec, orphans, other, blocked, bounds, mode>>
  BY DEF Serve
<1>2. op.kind \in RequestKinds
  BY <1>1 DEF AInv, OpOK
<1>3. op.rec \in Base /\ op.rec \in Record
  BY <1>1, <1>2, RequestWritten
<1>4. /\ cloud' \in SUBSET Message /\ IsFiniteSet(cloud') /\ nextId' \in Nat \ {0}
      /\ \A m \in cloud' : m \in cloud \/ m.rec = op.rec
  BY <1>1, <1>3, EffectWrites DEF AInv
<1>5. Base' \subseteq Base
  BY <1>1, <1>3, <1>4 DEF Base, ledger
<1>6. DataOK'
  BY <1>1, <1>4, <1>5, NothingWritten DEF AInv, DataOK, local, bounds, Claimed
<1>7. RecOK(rec, Claimed)'
  BY <1>1, <1>5, LedgerKept DEF bounds, Claimed
<1>8. OpOK(rec, op, Claimed)'
  BY <1>1, <1>2, <1>5, PhaseKept DEF AInv, ledger, bounds, Claimed
<1> QED
  BY <1>6, <1>7, <1>8 DEF AInv

\* A request is answered; a deletion is committed with its answer.
LEMMA AcknowledgeKeeps ==
  AInv /\ Acknowledge => AInv'
<1> SUFFICES ASSUME AInv, Acknowledge PROVE AInv'
  OBVIOUS
<1>1. /\ op.phase = "served"
      /\ st' = (IF op.kind = "Retire" THEN op.state ELSE st)
      /\ \E outcome \in Outcomes \ {"Inventory"} : Answer(outcome)
      /\ UNCHANGED <<lineage, staged, local, rec, server, other, blocked, bounds, mode>>
  <2>1. {"Deleted", "Sent"} \subseteq Outcomes \ {"Inventory"}
    BY DEF Outcomes
  <2> QED
    BY <2>1 DEF Acknowledge
<1>2. DataOK' /\ Base' \subseteq Base
  <2>1. CASE op.kind = "Retire"
    <3>1. Later(op.state) /\ op.state.pendingSeq = 0 /\ st.pendingSeq = 0
      BY <1>1, <2>1 DEF AInv, OpOK, RetireOK
    <3>2. staged = NoRecord /\ lineage \subseteq Payloads
      BY <3>1 DEF AInv, DataOK, StageIsPending
    <3> QED
      BY <1>1, <2>1, <3>1, <3>2, CommitWrites DEF AInv
  <2>2. CASE op.kind # "Retire"
    BY <1>1, <2>2, DataKept DEF AInv, DataOK, ledger, local, bounds, Claimed
  <2> QED
    BY <2>1, <2>2
<1>3. RecOK(rec, Claimed)'
  <2>1. op.kind \in RequestKinds /\ op.kind = rec.pending
    BY <1>1 DEF AInv, OpOK, NoOperation
  <2>2. AppliedVouched(rec, Claimed)'
    BY <1>1, <2>1 DEF AppliedVouched, RequestKinds
  <2> QED
    BY <1>1, <1>2, <2>2, RecKept DEF AInv, bounds, Claimed
<1>4. OpOK(rec, op, Claimed)'
  BY <1>1, AnswerKept DEF AInv
<1> QED
  BY <1>2, <1>3, <1>4 DEF AInv

\* The session ends.
LEMMA CrashKeeps ==
  AInv /\ Crash => AInv'
<1> SUFFICES ASSUME AInv, Crash PROVE AInv'
  OBVIOUS
<1>1. /\ op' = NoOperation /\ unheard' = FALSE /\ faults' \in Nat
      /\ UNCHANGED <<ledger, file, saved, rec, cloud, nextId, other, blocked, saves, Claimed, mode>>
      /\ orphans' = orphans \/ (op.phase = "sent" /\ orphans' = orphans \cup {Orphan})
  BY DEF Crash, Fault, AInv, DataOK, Claimed
<1>2. orphans' \in SUBSET Orphaned /\ Base' \subseteq Base
  <2>1. CASE orphans' = orphans
    BY <1>1, <2>1 DEF AInv, DataOK, Base, ledger
  <2>2. CASE op.phase = "sent" /\ orphans' = orphans \cup {Orphan}
    <3>1. op.kind \in RequestKinds
      BY <2>2 DEF AInv, OpOK
    <3>2. op.rec \in Base /\ op.rec \in Record /\ op.id \in Nat
      BY <2>2, <3>1, RequestWritten
    <3>3. Orphan \in Orphaned /\ Orphan.rec = op.rec
      BY <3>1, <3>2 DEF Orphan, Orphaned
    <3> QED
      BY <1>1, <2>2, <3>2, <3>3 DEF AInv, DataOK, Base, ledger
  <2> QED
    BY <1>1, <2>1, <2>2
<1>3. DataOK'
  BY <1>1, <1>2, NothingWritten DEF AInv, DataOK
<1>4. RecOK(rec, Claimed)'
  BY <1>1, <1>2, LedgerKept
<1>5. OpOK(rec, op, Claimed)'
  <2>1. op'.phase = "idle" /\ op'.rec = NoRecord /\ ~op'.commitOnly /\ op'.outcome = "none"
        /\ op' \in Operation /\ IsFiniteSet(op'.inv.msgs)
    BY <1>1, NothingOK DEF OpOK, NoOperation
  <2> QED
    BY <1>1, <2>1 DEF OpOK
<1> QED
  BY <1>3, <1>4, <1>5 DEF AInv

\* A request that outlived its answer is settled.
LEMMA OrphanKeeps ==
  ASSUME NEW o \in orphans
  PROVE  AInv /\ SettleOrphan(o) => AInv'
<1> SUFFICES ASSUME AInv, SettleOrphan(o) PROVE AInv'
  OBVIOUS
<1>1. /\ orphans' = orphans \ {o} /\ (Effect(o) \/ UNCHANGED <<cloud, nextId>>)
      /\ UNCHANGED <<ledger, local, rec, op, other, blocked, bounds, mode>>
  BY DEF SettleOrphan
<1>2. o.rec \in Base /\ o.rec \in Record /\ orphans' \in SUBSET Orphaned
  BY <1>1 DEF AInv, DataOK, Base, Orphaned
<1>3. /\ cloud' \in SUBSET Message /\ IsFiniteSet(cloud') /\ nextId' \in Nat \ {0}
      /\ \A m \in cloud' : m \in cloud \/ m.rec = o.rec
  <2>1. CASE Effect(o)
    BY <1>2, <2>1, EffectWrites DEF AInv
  <2>2. CASE UNCHANGED <<cloud, nextId>>
    BY <2>2 DEF AInv, DataOK
  <2> QED
    BY <1>1, <2>1, <2>2
<1>4. Base' \subseteq Base
  BY <1>1, <1>2, <1>3 DEF Base, ledger
<1>5. DataOK'
  BY <1>1, <1>2, <1>3, <1>4, NothingWritten DEF AInv, DataOK, local, bounds, Claimed
<1>6. RecOK(rec, Claimed)'
  BY <1>1, <1>4, LedgerKept DEF bounds, Claimed
<1>7. OpOK(rec, op, Claimed)'
  BY <1>1, <1>4, OpStays DEF AInv, ledger, bounds, Claimed
<1> QED
  BY <1>5, <1>6, <1>7 DEF AInv

\* The user, the other device and the gate leave the sync to itself.
LEMMA SurroundingsKeep ==
  ASSUME AInv, UNCHANGED <<ledger, rec, op, server, mode>>, file' \in Texts,
         saved' \in Claimed' \cup {NoText}, unheard' \in BOOLEAN, blocked' \in BOOLEAN,
         Claimed \subseteq Claimed', Claimed' \in SUBSET Texts, faults' \in Nat,
         saves' \in Nat, other' \in OtherHead \cup {NoHead}
  PROVE  AInv'
<1>1. DataOK' /\ Base' = Base
  BY DataKept DEF AInv
<1>2. RecOK(rec, Claimed)'
  BY <1>1, LedgerKept
<1>3. OpOK(rec, op, Claimed)'
  BY <1>1, OpStays DEF AInv, ledger
<1> QED
  BY <1>1, <1>2, <1>3 DEF AInv

\* The file is saved or replaced, and another device publishes.
LEMMA EnvironmentKeeps ==
  ASSUME \/ \E text \in Texts : Save(text) \/ Import(text)
         \/ \E aware \in BOOLEAN : OtherPublishes(aware)
         \/ CloseGate \/ OpenGate \/ UNCHANGED vars
  PROVE  AInv => AInv'
<1> SUFFICES ASSUME AInv PROVE AInv'
  OBVIOUS
<1>1. DataOK
  BY DEF AInv
<1>2. ASSUME NEW text \in Texts, Save(text) PROVE AInv'
  BY <1>1, <1>2, SurroundingsKeep DEF Save, DataOK, Claimed
<1>3. ASSUME NEW text \in Texts, Import(text) PROVE AInv'
  BY <1>1, <1>3, SurroundingsKeep DEF Import, DataOK, Claimed
<1>4. ASSUME NEW aware \in BOOLEAN, OtherPublishes(aware) PROVE AInv'
  <2>1. PICK key \in Publishable(aware), safe \in BOOLEAN :
          other' = [key |-> key, safe |-> safe,
                    knows |-> IF aware THEN {m.rec.payload : m \in cloud} ELSE {}]
    BY <1>4 DEF OtherPublishes
  <2>2. key \in Payloads
    BY <2>1 DEF Publishable
  <2>3. {m.rec.payload : m \in cloud} \subseteq Payloads
    BY <1>1 DEF DataOK, Message, Record
  <2>4. PICK knows \in SUBSET Payloads :
          knows = IF aware THEN {m.rec.payload : m \in cloud} ELSE {}
    BY <2>3
  <2>5. other' \in OtherHead
    BY <2>1, <2>2, <2>4 DEF OtherHead
  <2> QED
    BY <1>1, <1>4, <2>5, SurroundingsKeep DEF OtherPublishes, DataOK, local, bounds, Claimed
<1>5. ASSUME CloseGate \/ OpenGate PROVE AInv'
  <2>1. blocked' \in BOOLEAN
    BY <1>5 DEF CloseGate, OpenGate
  <2>2. faults' \in Nat
    BY <1>1, <1>5 DEF CloseGate, OpenGate, Fault, DataOK, bounds
  <2>3. UNCHANGED <<ledger, rec, op, server, mode, local, other, saves, Claimed>>
    BY <1>5 DEF CloseGate, OpenGate, bounds, Claimed
  <2> QED
    BY <1>1, <2>1, <2>2, <2>3, SurroundingsKeep DEF DataOK, local
<1>6. ASSUME UNCHANGED vars PROVE AInv'
  BY <1>1, <1>6, SurroundingsKeep DEF vars, DataOK, local, bounds, Claimed
<1> QED
  BY <1>2, <1>3, <1>4, <1>5, <1>6

\* Time passes.
LEMMA ClockKeeps ==
  AInv /\ (CheckDue \/ RetryDue) => AInv' /\ SaveKept(rec.queuedSave, rec')
<1> SUFFICES ASSUME AInv, CheckDue \/ RetryDue
             PROVE  AInv' /\ SaveKept(rec.queuedSave, rec')
  OBVIOUS
<1>1. DataOK /\ RecOK(rec, Claimed) /\ file \in Texts /\ Vouching(Claimed)
  BY DEF AInv, DataOK, Vouching
<1>2. PICK r : Coalesce(r) /\ Amended(rec, r, Claimed)
  BY <1>1, Amendments DEF CheckDue, RetryDue, Coalesce
<1>3. Stepped(Claimed)
  BY <1>1, <1>2, CoalesceStep
<1>4. UNCHANGED <<ledger, local, server, other, blocked, bounds, mode>>
  BY DEF CheckDue, RetryDue
<1>5. AInv'
  <2>1. Stepped(Claimed')
    BY <1>3, <1>4 DEF bounds, Claimed
  <2> QED
    BY <2>1, <1>4, PolicyKeeps DEF AInv, DataOK, local, bounds, Claimed
<1> QED
  BY <1>3, <1>5 DEF Stepped

\* The sync is first set up with nothing written anywhere.
LEMMA InitOK == Init => AInv
<1> SUFFICES ASSUME Init PROVE AInv
  OBVIOUS
<1>1. Sound(st)
  <2>1. st \in LocalState /\ st.own = {} /\ st.issued = {}
    BY LocalStateAssumption DEF Init, FreshState, LocalState
  <2>2. Serializes(st)
    BY <2>1, LocalStateAssumption, FS_EmptySet
       DEF Init, FreshState, Serializes, CountersValid, IssuedValid, OwnValid, ChatValid
  <2> QED
    BY <2>1, <2>2 DEF Init, FreshState, Sound
<1>2. Base = {}
  BY DEF Init, FreshState, Base
<1>3. DataOK
  <2>1. StageIsPending
    BY DEF Init, FreshState, StageIsPending
  <2>2. /\ cloud = {} /\ nextId = 1 /\ orphans = {} /\ other = NoHead /\ lineage = {}
        /\ staged = NoRecord /\ file \in Texts /\ saved = NoText /\ unheard = FALSE
        /\ mode \in ClientModes /\ blocked = FALSE /\ faults = 0 /\ saves = 0
        /\ Claimed = {}
    BY DEF Init, Claimed
  <2>3. cloud \in SUBSET Message /\ IsFiniteSet(cloud) /\ nextId \in Nat \ {0}
    BY <2>2, FS_EmptySet
  <2>4. unheard \in BOOLEAN /\ blocked \in BOOLEAN
    BY <2>2
  <2> QED
    BY <1>1, <1>2, <2>1, <2>2, <2>3, <2>4 DEF DataOK
<1>4. RecOK(rec, Claimed)
  <2>1. rec \in SyncAutoRecord
    BY AutoAssumption DEF Init, FreshRecord, SyncAutoRecord, Actions, Reasons
  <2> QED
    BY <2>1 DEF Init, FreshRecord, RecOK, Fine, Sane, AppliedVouched
<1>5. OpOK(rec, op, Claimed)
  BY NothingOK DEF Init
<1> QED
  BY <1>3, <1>4, <1>5 DEF AInv
\* Every step.
LEMMA AutoSteps == AInv /\ [Next]_vars => AInv'
<1>1. ASSUME AInv, Store PROVE AInv'
  BY <1>1, StageKeeps, CommitKeeps
<1>2. ASSUME AInv, Execute PROVE AInv'
  BY <1>1, <1>2, FetchKeeps, WriteKeeps, ApplyKeeps, FailureKeeps, TransmitKeeps,
     ServeKeeps, AcknowledgeKeeps DEF Execute
<1>3. ASSUME AInv, NEW o \in orphans, SettleOrphan(o) PROVE AInv'
  BY <1>3, OrphanKeeps
<1> QED
  BY <1>2, <1>3, TriggerKeeps, DisableKeeps, SavedKeeps, RetryTimerKeeps, CompletedKeeps,
     CrashKeeps, EnvironmentKeeps, ClockKeeps DEF Next

\* AInv holds in every reachable state.
LEMMA AutoInvariant == Spec => []AInv
BY InitOK, AutoSteps, PTL DEF Spec

---------------------------------------------------------------------------

\* The variables keep their types.
THEOREM AutoTyped == Spec => []TypeOK
<1>1. AInv => TypeOK
  BY DEF AInv, DataOK, Sound, RecOK, Fine, OpOK, Operation, TypeOK, Phases
<1> QED
  BY <1>1, AutoInvariant, PTL

\* The policy never plans a record its codec refuses to write, over any order of
\* events, failures, refusals and restarts (IsSyncAutoRecord).
THEOREM RecordsAlwaysValid == Spec => []RecordValid
<1>1. AInv => RecordValid
  BY DEF AInv, RecOK, Fine, Sane, RecordValid
<1> QED
  BY <1>1, AutoInvariant, PTL

\* The staged bytes are always the ones reserved, and among the issued ones.
THEOREM StageAlwaysPending == Spec => []StageIsPending
<1>1. AInv => StageIsPending
  BY DEF AInv, DataOK
<1> QED
  BY <1>1, AutoInvariant, PTL

\* One sequence number is one record, in the chat, in the ledger, in the issued
\* log, in what is staged and in every request under way.
THEOREM SequencesNeverReused == Spec => []OneRecordPerSeq
<1>1. ASSUME AInv PROVE OneRecordPerSeq
  <2>1. Written \subseteq Base \cup ({op.rec} \ {NoRecord})
    BY DEF Written, Requested, Base
  <2>2. op.rec # NoRecord => Fits(op.rec)
    BY <1>1 DEF AInv, OpOK
  <2>3. \A r, q \in Base : r.seq = q.seq => r = q
    BY <1>1 DEF AInv, DataOK
  <2> QED
    BY <2>1, <2>2, <2>3 DEF OneRecordPerSeq, Fits
<1> QED
  BY <1>1, AutoInvariant, PTL

\* Nothing is published on its own but what the user saved, reported saved, or
\* what was applied from the chat: a created or imported file is not.
THEOREM OnlyClaimedTextLeaves == Spec => []OnlyClaimedPublished
<1>1. ASSUME AInv PROVE OnlyClaimedPublished
  <2>1. Written \subseteq Base \cup ({op.rec} \ {NoRecord})
    BY DEF Written, Requested, Base
  <2>2. op.rec # NoRecord => op.rec.payload.text \in Claimed
    BY <1>1 DEF AInv, OpOK
  <2>3. \A r \in Base : r.payload.text \in Claimed
    BY <1>1 DEF AInv, DataOK
  <2> QED
    BY <2>1, <2>2, <2>3 DEF OnlyClaimedPublished
<1> QED
  BY <1>1, AutoInvariant, PTL

\* An automatic apply replaces the text of the confirmed base and nothing else,
\* whatever was saved, crashed or restarted since it was planned.
THEOREM ApplyNeverOverwrites == Spec => ApplyKeepsUnpublished
<1>1. ASSUME AInv, [Next]_vars, op.phase = "todo", op'.phase = "written"
      PROVE  file = Text(st.base) /\ st.pendingSeq = 0
  <2>1. op' # op /\ op' # NoOperation
    BY <1>1 DEF NoOperation
  <2>2. WriteFile
    <3>1. InFlight
      BY <1>1 DEF InFlight, NoOperation
    <3>2. ASSUME NEW r, NEW noted, NEW retried, Open(r, noted, retried) PROVE op' = op
      BY <3>1, <3>2 DEF Open, Coalesce
    <3>3. ~(Trigger \/ Enable \/ Disable \/ Saved \/ RetryTimer)
      BY <2>1, <3>2 DEF Trigger, Enable, OnTrigger, Disable, Saved, RetryTimer, Coalesce
    <3>4. ~Completed
      BY <1>1 DEF Completed
    <3>5. \A outcome : ~Answer(outcome)
      BY <1>1 DEF Answer, NoOperation
    <3>6. ~(Fetch \/ Store \/ CommitApply \/ AbortApply \/ Serve \/ Acknowledge \/ Refuse \/ Fail)
      BY <1>1, <3>5 DEF Fetch, Store, CommitApply, AbortApply, Serve, Acknowledge, Refuse,
                        Fail, NoOperation
    <3>7. ~Transmit
      BY <1>1 DEF Transmit, AInv, OpOK, Operation
    <3>8. ~Crash
      BY <2>1 DEF Crash
    <3>9. /\ ~\E o \in orphans : SettleOrphan(o)
          /\ ~\E text \in Texts : Save(text)
          /\ ~\E text \in Texts : Import(text)
          /\ ~\E aware \in BOOLEAN : OtherPublishes(aware)
          /\ ~(CheckDue \/ RetryDue \/ CloseGate \/ OpenGate \/ UNCHANGED vars)
      BY <2>1 DEF SettleOrphan, Save, Import, OtherPublishes, CheckDue, RetryDue,
                  CloseGate, OpenGate, vars
    <3> QED
      BY <1>1, <3>3, <3>4, <3>6, <3>7, <3>8, <3>9 DEF Next, Execute
  <2>3. op.kind = "AutoApply" /\ file = op.from
    BY <2>2 DEF WriteFile
  <2> QED
    BY <1>1, <2>3 DEF AInv, OpOK, ApplyOK
<1> QED
  BY <1>1, AutoInvariant, PTL DEF Spec, ApplyKeepsUnpublished

\* A save made during an operation is not forgotten: it stays queued until a
\* check starts or its own bytes are staged.
THEOREM SavesNeverForgotten == Spec => SavesAreChecked
<1>1. ASSUME AInv, [Next]_vars PROVE SaveKept(rec.queuedSave, rec')
  <2>1. CASE rec' = rec
    BY <2>1 DEF SaveKept
  <2>2. CASE rec' # rec
    <3>1. Trigger \/ Enable \/ Disable \/ Saved \/ RetryTimer \/ Completed \/ CheckDue \/ RetryDue
      BY <1>1, <2>2 DEF Next, Execute, Fetch, Store, WriteFile, CommitApply, AbortApply,
         Transmit, Serve, Acknowledge, Refuse, Fail, Crash, SettleOrphan, Save, Import,
         OtherPublishes, CloseGate, OpenGate, vars
    <3> QED
      BY <1>1, <3>1, TriggerKeeps, DisableKeeps, SavedKeeps, RetryTimerKeeps,
         CompletedKeeps, ClockKeeps
  <2> QED
    BY <2>1, <2>2
<1> QED
  BY <1>1, AutoInvariant, PTL DEF Spec, SavesAreChecked, SaveKept
---------------------------------------------------------------------------
(* The chat.                                                               *)

\* The requests of one kind the server may still apply.
Asks(o, kind) == o.kind = kind /\ o.phase \in {"todo", "sent"}
Asked(kind) == {q \in orphans : q.kind = kind} \cup (IF Asks(op, kind) THEN {Orphan} ELSE {})

Viewing == op.phase = "answered" /\ op.outcome = "Inventory"

\* An id is given once, and no request names one that is still to be given.
IdsUsed ==
    /\ \A m \in cloud : m.id < nextId
    /\ \A m, n \in cloud : m.id = n.id => m = n
    /\ \A q \in Asked("EditInPlace") \cup Asked("Retire") : q.id < nextId

\* What was read is still so, but for old messages a late deletion takes.
ViewSound ==
    Viewing => \A m \in op.inv.msgs :
                 /\ m.id < nextId
                 /\ \A n \in cloud : n.id = m.id => n = m
                 /\ m.rec.seq >= st.confirmedSeq => m \in cloud

\* One edit at a time is under way, and none when a read or a plan for an edit or
\* a deletion was made since.
OneEditor ==
    /\ \A e1, e2 \in orphans : e1.kind = "EditInPlace" /\ e2.kind = "EditInPlace" => e1 = e2
    /\ Viewing \/ Asks(op, "EditInPlace") \/ Asks(op, "Retire") =>
         \A e \in orphans : e.kind # "EditInPlace"

\* An edit replaces an older record, which nothing else is about to delete.
EditsRaise ==
    \A e \in Asked("EditInPlace") : \A m \in cloud :
      m.id = e.id => /\ m.rec.seq < e.rec.seq
                     /\ \A q \in Asked("Retire") : q.id # e.id

\* What a deletion takes is older than the confirmed record.
DeletesOld ==
    \A q \in Asked("Retire") : \A m \in cloud : m.id = q.id => m.rec.seq < st.confirmedSeq

\* What a commit confirms has been seen in the chat and stays there.
CommitSound ==
    op.phase = "todo" /\ op.commitOnly /\ op.state.confirmedSeq # 0 =>
      \E m \in cloud : m.rec.seq >= op.state.confirmedSeq

\* While no request outlives its session a record is sent at most once.
Once ==
    mode.orphans = 0 =>
      /\ orphans = {}
      /\ \A m, n \in cloud : m.rec = n.rec => m = n
      /\ Asks(op, "Post") \/ Asks(op, "EditInPlace") => \A m \in cloud : m.rec # op.rec
      /\ Viewing => op.inv.msgs = cloud

HInv ==
    /\ IdsUsed /\ ViewSound /\ OneEditor /\ EditsRaise /\ DeletesOld
    /\ CommitSound /\ HeadPublished /\ Once

\* What becomes of the requests under way in a step that leaves the chat alone.
Passed ==
    \/ /\ orphans' \subseteq orphans
       /\ \A kind \in RequestKinds :
            Asks(op', kind) => Asks(op, kind) /\ op'.id = op.id /\ op'.rec = op.rec
    \/ /\ op.phase = "sent" /\ orphans' = orphans \cup {Orphan}
       /\ mode.orphans # 0
       /\ op'.phase \notin {"todo", "sent"} /\ ~Viewing'

\* Nothing is asked for that was not asked for before.
LEMMA PassedAsks ==
  ASSUME AInv, Passed, NEW kind \in RequestKinds
  PROVE  Asked(kind)' \subseteq Asked(kind)
<1>1. CASE /\ orphans' \subseteq orphans
           /\ Asks(op', kind) => Asks(op, kind) /\ op'.id = op.id /\ op'.rec = op.rec
  BY <1>1 DEF Asked, Asks, Orphan
<1>2. CASE /\ op.phase = "sent" /\ orphans' = orphans \cup {Orphan}
           /\ op'.phase \notin {"todo", "sent"}
  BY <1>2 DEF Asked, Asks, Orphan
<1> QED
  BY <1>1, <1>2 DEF Passed

\* A step that leaves the chat alone and asks for nothing new.
LEMMA CalmStep ==
  ASSUME AInv, HInv, UNCHANGED <<cloud, nextId, mode>>, Passed, HeadPublished',
         st.confirmedSeq \in Nat, st'.confirmedSeq \in Nat, st.confirmedSeq <= st'.confirmedSeq,
         op'.phase = "todo" /\ op'.commitOnly => op' = op,
         Viewing' => op' = op /\ st' = st
  PROVE  HInv'
<1>1. /\ Asked("EditInPlace")' \subseteq Asked("EditInPlace")
      /\ Asked("Retire")' \subseteq Asked("Retire")
  BY PassedAsks DEF RequestKinds
<1>2. IdsUsed'
  BY <1>1 DEF HInv, IdsUsed
<1>3. ViewSound'
  BY DEF HInv, ViewSound, Viewing
<1>4. OneEditor'
  <2>1. CASE /\ orphans' \subseteq orphans
             /\ \A kind \in RequestKinds : Asks(op', kind) => Asks(op, kind)
    BY <2>1 DEF HInv, OneEditor, Viewing, RequestKinds, Asks
  <2>2. CASE /\ op.phase = "sent" /\ orphans' = orphans \cup {Orphan}
             /\ op'.phase \notin {"todo", "sent"} /\ ~Viewing'
    BY <2>2 DEF HInv, OneEditor, Asks, Orphan
  <2> QED
    BY <2>1, <2>2 DEF Passed
<1>5. EditsRaise'
  BY <1>1 DEF HInv, EditsRaise
<1>6. DeletesOld'
  <2> SUFFICES ASSUME NEW q \in Asked("Retire"), NEW m \in cloud, m.id = q.id
               PROVE  m.rec.seq < st'.confirmedSeq
    BY <1>1 DEF DeletesOld
  <2>1. m.rec.seq < st.confirmedSeq /\ m.rec.seq \in Nat
    BY DEF HInv, DeletesOld, AInv, DataOK, Message, Record
  <2> QED
    BY <2>1
<1>7. CommitSound'
  BY DEF HInv, CommitSound
<1>8. Once'
  <2>1. CASE /\ orphans' \subseteq orphans
             /\ \A kind \in RequestKinds :
                  Asks(op', kind) => Asks(op, kind) /\ op'.id = op.id /\ op'.rec = op.rec
    BY <2>1 DEF HInv, Once, Viewing, RequestKinds
  <2>2. CASE mode.orphans # 0
    BY <2>2 DEF Once
  <2> QED
    BY <2>1, <2>2 DEF Passed
<1> QED
  BY <1>2, <1>3, <1>4, <1>5, <1>6, <1>7, <1>8 DEF HInv
\* A complete read sees the chat as it is, with every edit settled.
LEMMA FetchHead ==
  AInv /\ HInv /\ Fetch => HInv'
<1> SUFFICES ASSUME AInv, HInv, Fetch PROVE HInv'
  OBVIOUS
<1>1. /\ orphans' = {o \in orphans : o.kind # "EditInPlace"}
      /\ op'.phase = "answered" /\ op'.inv.msgs = cloud
      /\ st' = st /\ cloud' = cloud /\ nextId' = nextId /\ mode' = mode
  BY DEF Fetch, ledger
<1>2. Asked("EditInPlace")' = {} /\ Asked("Retire")' \subseteq Asked("Retire")
  BY <1>1 DEF Asked, Asks
<1>3. IdsUsed'
  BY <1>1, <1>2 DEF HInv, IdsUsed
<1>4. ViewSound'
  BY <1>1 DEF HInv, IdsUsed, ViewSound
<1>5. OneEditor'
  BY <1>1 DEF OneEditor
<1>6. EditsRaise' /\ DeletesOld'
  BY <1>1, <1>2 DEF HInv, EditsRaise, DeletesOld
<1>7. CommitSound' /\ HeadPublished'
  BY <1>1 DEF HInv, CommitSound, HeadPublished
<1>8. Once'
  BY <1>1 DEF HInv, Once, Asks
<1> QED
  BY <1>3, <1>4, <1>5, <1>6, <1>7, <1>8 DEF HInv

\* A request is applied: that of the client, or one that outlived its answer.
Applied(q) ==
    \/ q = Orphan /\ op.phase = "sent" /\ orphans' = orphans /\ op' = [op EXCEPT !.phase = "served"]
    \/ q \in orphans /\ orphans' = orphans \ {q} /\ op' = op

\* The messages keep their order of ids, and the head stays or is replaced by a
\* newer record, whichever request is applied when.
LEMMA EffectHead ==
  ASSUME AInv, HInv, NEW q, Applied(q), Effect(q), st' = st, mode' = mode
  PROVE  /\ HInv'
         /\ \A m \in cloud : (\A n \in cloud' : n.id # m.id) =>
              \E n \in cloud' : n.rec.seq >= m.rec.seq
<1>1. /\ q \in Asked(q.kind) /\ q.kind \in RequestKinds /\ q.rec \in Record /\ q.id \in Nat
      /\ \A kind \in RequestKinds : Asked(kind)' \subseteq Asked(kind)
      /\ orphans' \subseteq orphans
  <2>1. CASE q = Orphan /\ op.phase = "sent" /\ op' = [op EXCEPT !.phase = "served"]
             /\ orphans' = orphans
    <3>1. op.kind \in RequestKinds
      BY <2>1 DEF AInv, OpOK
    <3>2. op.rec \in Record /\ op.id \in Nat
      BY <2>1, <3>1, RequestWritten
    <3>3. op'.phase = "served"
      BY <2>1 DEF AInv, OpOK, Operation
    <3> QED
      BY <2>1, <3>1, <3>2, <3>3 DEF Asked, Asks, Orphan
  <2>2. CASE q \in orphans /\ orphans' = orphans \ {q} /\ op' = op
    BY <2>2 DEF AInv, DataOK, Orphaned, Asked, Asks, Orphan
  <2> QED
    BY <2>1, <2>2 DEF Applied
<1>2. /\ cloud \in SUBSET Message /\ nextId \in Nat \ {0} /\ st.confirmedSeq \in Nat
      /\ \A m \in cloud : m.id \in Nat /\ m.rec.seq \in Nat
  BY DEF AInv, DataOK, Sound, LocalState, Message, Record
<1>3. q.kind = "EditInPlace" => Asked("EditInPlace")' = {}
  <2> SUFFICES ASSUME q.kind = "EditInPlace" PROVE Asked("EditInPlace")' = {}
    OBVIOUS
  <2>1. CASE q = Orphan /\ op.phase = "sent" /\ op' = [op EXCEPT !.phase = "served"]
             /\ orphans' = orphans
    <3>1. \A e \in orphans : e.kind # "EditInPlace"
      BY <2>1 DEF HInv, OneEditor, Asks, Orphan
    <3>2. op'.phase = "served"
      BY <2>1 DEF AInv, OpOK, Operation
    <3> QED
      BY <2>1, <3>1, <3>2 DEF Asked, Asks
  <2>2. CASE q \in orphans /\ orphans' = orphans \ {q} /\ op' = op
    BY <2>2 DEF HInv, OneEditor, Asked
  <2> QED
    BY <2>1, <2>2 DEF Applied
<1>4. \A e \in Asked("EditInPlace")' \cup Asked("Retire")' : e.id < nextId
  BY <1>1 DEF HInv, IdsUsed, RequestKinds
<1>5. /\ Viewing' => Viewing /\ op' = op /\ q.kind # "EditInPlace" /\ q \in orphans
      /\ Asks(op', "Post") \/ Asks(op', "EditInPlace") \/ Asks(op', "Retire") =>
           op' = op /\ q \in orphans
      /\ op'.phase = "todo" => op' = op /\ q \in orphans
  <2>1. CASE q = Orphan /\ op' = [op EXCEPT !.phase = "served"]
    <3>1. op'.phase = "served"
      BY <2>1 DEF AInv, OpOK, Operation
    <3> QED
      BY <3>1 DEF Viewing, Asks
  <2>2. CASE q \in orphans /\ op' = op
    BY <2>2 DEF HInv, OneEditor, Viewing
  <2> QED
    BY <2>1, <2>2 DEF Applied
<1>6. OneEditor'
  BY <1>1, <1>5 DEF HInv, OneEditor, Viewing
\* A message is added: its id is new.
<1>7. CASE q.kind = "Post" /\ cloud' = cloud \cup {[id |-> nextId, rec |-> q.rec]}
           /\ nextId' = nextId + 1
  <2>1. PICK x : x = [id |-> nextId, rec |-> q.rec]
    OBVIOUS
  <2>2. x.id = nextId /\ x.rec = q.rec /\ cloud' = cloud \cup {x} /\ x.rec.seq \in Nat
    BY <1>1, <1>7, <2>1 DEF Record
  <2>3. IdsUsed'
    <3>1. \A m \in cloud' : m.id < nextId'
      BY <1>2, <1>7, <2>2 DEF HInv, IdsUsed
    <3>2. \A m, n \in cloud' : m.id = n.id => m = n
      BY <1>2, <2>2 DEF HInv, IdsUsed
    <3>3. \A e \in Asked("EditInPlace")' \cup Asked("Retire")' : e.id < nextId'
      <4>1. \A e \in Asked("EditInPlace") \cup Asked("Retire") : e.id \in Nat
        BY DEF Asked, Orphan, AInv, DataOK, Orphaned, OpOK, Operation
      <4> QED
        BY <1>1, <1>2, <1>4, <1>7, <4>1 DEF RequestKinds
    <3> QED
      BY <3>1, <3>2, <3>3 DEF IdsUsed
  <2>4. ViewSound'
    <3> SUFFICES ASSUME Viewing', NEW m \in op'.inv.msgs
                 PROVE  /\ m.id < nextId'
                        /\ \A n \in cloud' : n.id = m.id => n = m
                        /\ m.rec.seq >= st'.confirmedSeq => m \in cloud'
      BY DEF ViewSound
    <3>1. Viewing /\ m \in op.inv.msgs /\ m \in Message
      BY <1>5 DEF AInv, OpOK, Operation, Inventories
    <3>2. /\ m.id < nextId /\ m.id \in Nat
          /\ \A n \in cloud : n.id = m.id => n = m
          /\ m.rec.seq >= st.confirmedSeq => m \in cloud
      BY <3>1 DEF HInv, ViewSound, Message
    <3> QED
      BY <1>2, <1>7, <2>2, <3>2
  <2>5. EditsRaise' /\ DeletesOld'
    <3>1. \A e \in Asked("EditInPlace")' \cup Asked("Retire")' : e.id # x.id
      BY <1>2, <1>4, <2>2
    <3> QED
      BY <1>1, <2>2, <3>1 DEF HInv, EditsRaise, DeletesOld, RequestKinds
  <2>6. CommitSound' /\ HeadPublished'
    BY <1>5, <2>2 DEF HInv, CommitSound, HeadPublished
  <2>7. \A m \in cloud : m \in cloud'
    BY <2>2
  <2>8. Once'
    <3> SUFFICES ASSUME mode.orphans = 0 PROVE Once'
      BY DEF Once
    <3>1. orphans = {} /\ q = Orphan /\ op.phase = "sent" /\ op'.phase = "served" /\ orphans' = {}
      BY DEF HInv, Once, Applied, AInv, OpOK, Operation
    <3>2. \A m \in cloud : m.rec # x.rec
      BY <1>7, <2>2, <3>1 DEF HInv, Once, Asks, Orphan
    <3>3. \A m, n \in cloud' : m.rec = n.rec => m = n
      BY <2>2, <3>2 DEF HInv, Once
    <3> QED
      BY <3>1, <3>3 DEF Once, Asks, Viewing
  <2> QED
    BY <1>2, <1>6, <2>3, <2>4, <2>5, <2>6, <2>7, <2>8 DEF HInv
\* A message is replaced by a newer record.
<1>8. CASE /\ q.kind = "EditInPlace" /\ nextId' = nextId
           /\ \E m \in cloud : m.id = q.id
           /\ cloud' = {m \in cloud : m.id # q.id} \cup {[id |-> q.id, rec |-> q.rec]}
  <2>1. PICK x : x = [id |-> q.id, rec |-> q.rec]
    OBVIOUS
  <2>2. /\ x.id = q.id /\ x.rec = q.rec /\ x \in cloud' /\ x.rec.seq \in Nat
        /\ \A m \in cloud' : m = x \/ (m \in cloud /\ m.id # q.id)
        /\ \A m \in cloud : m.id # q.id => m \in cloud'
    BY <1>1, <1>8, <2>1 DEF Record
  <2>3. PICK y \in cloud : y.id = q.id
    BY <1>8
  <2>4. \A m \in cloud : m.id = q.id => m.rec.seq < x.rec.seq
    BY <1>1, <1>8, <2>2 DEF HInv, EditsRaise
  <2>5. IdsUsed'
    BY <1>4, <1>8, <2>2, <2>3 DEF HInv, IdsUsed
  <2>6. ViewSound'
    BY <1>5, <1>8 DEF ViewSound
  <2>7. EditsRaise'
    BY <1>3, <1>8 DEF EditsRaise
  <2>8. DeletesOld'
    <3>1. \A d \in Asked("Retire") : d.id # q.id
      BY <1>1, <1>8, <2>3 DEF HInv, EditsRaise
    <3> QED
      BY <1>1, <2>2, <3>1 DEF HInv, DeletesOld, RequestKinds
  <2>9. \A m \in cloud : \E n \in cloud' : n.rec.seq >= m.rec.seq
    <3> TAKE m \in cloud
    <3>1. CASE m.id = q.id
      BY <1>2, <2>2, <2>4, <3>1
    <3>2. CASE m.id # q.id
      BY <1>2, <2>2, <3>2
    <3> QED
      BY <3>1, <3>2
  <2>10. cloud' \subseteq Message
    BY <1>1, <1>2, <2>1, <2>2, <2>3 DEF Message
  <2>11. HeadPublished'
    <3> SUFFICES ASSUME st.confirmedSeq # 0
                 PROVE  \E n \in cloud' : n.rec.seq >= st.confirmedSeq
      BY DEF HeadPublished
    <3>1. PICK m \in cloud : m.rec.seq >= st.confirmedSeq
      BY DEF HInv, HeadPublished
    <3>2. PICK n \in cloud' : n.rec.seq >= m.rec.seq
      BY <2>9
    <3> QED
      BY <1>2, <2>10, <3>1, <3>2 DEF Message, Record
  <2>12. CommitSound'
    <3> SUFFICES ASSUME op'.phase = "todo", op'.commitOnly, op'.state.confirmedSeq # 0
                 PROVE  \E n \in cloud' : n.rec.seq >= op'.state.confirmedSeq
      BY DEF CommitSound
    <3>1. op' = op
      BY <1>5
    <3>2. PICK m \in cloud : m.rec.seq >= op.state.confirmedSeq
      BY <3>1 DEF HInv, CommitSound
    <3>3. PICK n \in cloud' : n.rec.seq >= m.rec.seq
      BY <2>9
    <3>4. op.state.confirmedSeq \in Nat
      BY <3>1 DEF AInv, OpOK, CommitOK, Later, Sound, LocalState
    <3> QED
      BY <1>2, <2>10, <3>1, <3>2, <3>3, <3>4 DEF Message, Record
  <2>13. Once'
    <3> SUFFICES ASSUME mode.orphans = 0 PROVE Once'
      BY DEF Once
    <3>1. orphans = {} /\ q = Orphan /\ op.phase = "sent" /\ op'.phase = "served" /\ orphans' = {}
      BY DEF HInv, Once, Applied, AInv, OpOK, Operation
    <3>2. \A m \in cloud : m.rec # x.rec
      BY <1>8, <2>2, <3>1 DEF HInv, Once, Asks, Orphan
    <3>3. \A m, n \in cloud' : m.rec = n.rec => m = n
      BY <2>2, <3>2 DEF HInv, Once
    <3> QED
      BY <3>1, <3>3 DEF Once, Asks, Viewing
  <2> QED
    BY <1>6, <2>5, <2>6, <2>7, <2>8, <2>9, <2>11, <2>12, <2>13 DEF HInv
\* A message older than the head is taken out.
<1>9. CASE q.kind = "Retire" /\ nextId' = nextId /\ cloud' = {m \in cloud : m.id # q.id}
  <2>1. \A m \in cloud : m.id = q.id => m.rec.seq < st.confirmedSeq
    BY <1>1, <1>9 DEF HInv, DeletesOld
  <2>2. cloud' \subseteq cloud /\ \A m \in cloud : m.rec.seq >= st.confirmedSeq => m \in cloud'
    BY <1>2, <1>9, <2>1
  <2>3. IdsUsed' /\ EditsRaise' /\ DeletesOld'
    BY <1>1, <1>4, <1>9, <2>2
       DEF HInv, IdsUsed, EditsRaise, DeletesOld, RequestKinds
  <2>4. ViewSound'
    BY <1>5, <1>9, <2>2 DEF HInv, ViewSound
  <2>5. HeadPublished'
    BY <2>2 DEF HInv, HeadPublished
  <2>6. CommitSound'
    <3> SUFFICES ASSUME op'.phase = "todo", op'.commitOnly, op'.state.confirmedSeq # 0
                 PROVE  \E n \in cloud' : n.rec.seq >= op'.state.confirmedSeq
      BY DEF CommitSound
    <3>1. op' = op
      BY <1>5
    <3>2. PICK m \in cloud : m.rec.seq >= op.state.confirmedSeq
      BY <3>1 DEF HInv, CommitSound
    <3>3. op.state.confirmedSeq \in Nat /\ st.confirmedSeq <= op.state.confirmedSeq
      BY <3>1 DEF AInv, OpOK, CommitOK, Later, Sound, LocalState
    <3>4. m \in cloud'
      BY <1>2, <2>2, <3>2, <3>3
    <3> QED
      BY <3>1, <3>2, <3>4
  <2>7. \A m \in cloud : (\A n \in cloud' : n.id # m.id) =>
          \E n \in cloud' : n.rec.seq >= m.rec.seq
    <3> SUFFICES ASSUME NEW m \in cloud, \A n \in cloud' : n.id # m.id
                 PROVE  \E n \in cloud' : n.rec.seq >= m.rec.seq
      OBVIOUS
    <3>1. m.rec.seq < st.confirmedSeq
      BY <1>9, <2>1
    <3>2. st.confirmedSeq # 0
      BY <1>2, <3>1
    <3>3. PICK n \in cloud : n.rec.seq >= st.confirmedSeq
      BY <3>2 DEF HInv, HeadPublished
    <3> QED
      BY <1>2, <2>2, <3>1, <3>3
  <2>8. Once'
    BY <1>1, <1>5, <2>2 DEF HInv, Once
  <2> QED
    BY <1>6, <2>3, <2>4, <2>5, <2>6, <2>7, <2>8 DEF HInv
<1> QED
  BY <1>7, <1>8, <1>9 DEF Effect
\* A plan that asks for a read, or for nothing.
Plain(o) ==
    /\ o.phase \in {"idle", "todo"} /\ ~o.commitOnly
    /\ o.kind \in {"NoOp", "Check", "Reconcile"}

\* An event other than an answer asks for a read at most.
LEMMA StartPlain ==
  ASSUME NEW r, NEW retried \in BOOLEAN
  PROVE  Plain(Start(r, retried).op)
<1>1. \A x : Plain(Quiet(x).op)
  BY DEF Quiet, NoOperation, Plain
<1>2. \A x, reason : Plain(Hold(x, reason).op)
  BY <1>1 DEF Hold
<1>3. \A x : \A action \in {"Check", "Reconcile"} : Plain(Emit(x, action, FALSE).op)
  BY DEF Emit, NoOperation, Plain
<1>4. \A x : Plain(FreshRun(x).op)
  BY <1>1, <1>3 DEF FreshRun
<1>5. \A x : Plain(Continue(x).op)
  BY <1>3, <1>4 DEF Continue
<1>6. \A x : Plain(InterruptedApply(x).op)
  BY <1>2, <1>3 DEF InterruptedApply
<1>7. CASE r.runStopped
  <2>1. \/ Start(r, retried) = Quiet(r)
        \/ \E x : Start(r, retried) = Emit(x, "Reconcile", FALSE)
    BY <1>7 DEF Start
  <2> QED
    BY <2>1, <1>1, <1>3
<1>8. CASE ~r.runStopped
  <2>1. \/ Start(r, retried) = InterruptedApply(r)
        \/ Start(r, retried) = Emit(r, "Reconcile", FALSE)
        \/ Start(r, retried) = Quiet(r)
        \/ Start(r, retried) = Continue(r)
    BY <1>8 DEF Start
  <2> QED
    BY <2>1, <1>1, <1>3, <1>5, <1>6
<1> QED
  BY <1>7, <1>8

\* So does any answer but a read.
LEMMA CompletePlain ==
  ASSUME NEW r, op.outcome # "Inventory"
  PROVE  Plain(Complete(r).op)
<1>1. \A x : Plain(Quiet(x).op)
  BY DEF Quiet, NoOperation, Plain
<1>2. \A x, reason : Plain(Hold(x, reason).op)
  BY <1>1 DEF Hold
<1>3. \A x : \A action \in {"Check", "Reconcile"} : Plain(Emit(x, action, FALSE).op)
  BY DEF Emit, NoOperation, Plain
<1>4. \A x : Plain(Retry(x).op)
  BY <1>1, <1>2 DEF Retry
<1>5. \/ \E x, reason : Complete(r) = Hold(x, reason)
      \/ Complete(r) = Retry(r)
      \/ \E x : \E action \in {"Check", "Reconcile"} : Complete(r) = Emit(x, action, FALSE)
  BY DEF Complete
<1> QED
  BY <1>2, <1>3, <1>4, <1>5

\* A step that asks for a read at most leaves the chat as it is.
LEMMA PlainStep ==
  ASSUME AInv, HInv, UNCHANGED <<ledger, server, mode>>, op' = op \/ Plain(op')
  PROVE  HInv'
<1>1. st' = st /\ cloud' = cloud /\ nextId' = nextId /\ orphans' = orphans /\ mode' = mode
  BY DEF ledger, server
<1>2. Passed
  BY <1>1 DEF Passed, Asks, Plain, RequestKinds
<1>3. HeadPublished'
  BY <1>1 DEF HInv, HeadPublished
<1>4. st.confirmedSeq \in Nat
  BY DEF AInv, DataOK, Sound, LocalState
<1>5. /\ op'.phase = "todo" /\ op'.commitOnly => op' = op
      /\ Viewing' => op' = op
  BY DEF Plain, Viewing
<1> QED
  BY <1>1, <1>2, <1>3, <1>4, <1>5, CalmStep

\* What is planned from a read rests on what the read showed.
LEMMA PlannedHead ==
  ASSUME AInv, AInv', HInv, Viewing, UNCHANGED <<ledger, server, mode>>,
         Grounded(op', op.inv.msgs)
  PROVE  HInv'
<1>1. st' = st /\ staged' = staged /\ cloud' = cloud /\ nextId' = nextId
      /\ orphans' = orphans /\ mode' = mode
  BY DEF ledger, server
<1>2. /\ op'.phase \in {"idle", "todo"} /\ ~Viewing'
      /\ ~Asks(op, "EditInPlace") /\ ~Asks(op, "Retire")
      /\ \A e \in orphans : e.kind # "EditInPlace"
  BY DEF Grounded, Viewing, Asks, HInv, OneEditor
<1>3. \A m \in op.inv.msgs :
        /\ m.id < nextId
        /\ \A n \in cloud : n.id = m.id => n = m
        /\ m.rec.seq >= st.confirmedSeq => m \in cloud
  BY DEF HInv, ViewSound
<1>4. Asked("EditInPlace")' = IF Asks(op', "EditInPlace") THEN {Orphan'} ELSE {}
  BY <1>1, <1>2 DEF Asked
<1>5. Asked("Retire")' = Asked("Retire") \cup IF Asks(op', "Retire") THEN {Orphan'} ELSE {}
  BY <1>1, <1>2 DEF Asked
<1>6. Orphan'.id = op'.id /\ Orphan'.rec = op'.rec
  BY DEF Orphan
<1>7. Asks(op', "EditInPlace") =>
        /\ \E h \in op.inv.msgs : h.id = op'.id /\ h.rec.seq = st.confirmedSeq
        /\ op'.rec = staged /\ st.confirmedSeq < staged.seq
  <2> SUFFICES ASSUME Asks(op', "EditInPlace")
               PROVE  /\ \E h \in op.inv.msgs : h.id = op'.id /\ h.rec.seq = st.confirmedSeq
                      /\ op'.rec = staged /\ st.confirmedSeq < staged.seq
    OBVIOUS
  <2>1. \E h \in op.inv.msgs : h.id = op'.id /\ h.rec.seq = st.confirmedSeq
    BY DEF Asks, Grounded
  <2>2. op'.rec = staged /\ st.pendingSeq # 0
    BY <1>1 DEF Asks, AInv, OpOK, SendOK
  <2>3. staged.seq = st.pendingSeq /\ st.confirmedSeq < st.pendingSeq
    BY <2>2 DEF AInv, DataOK, Sound, StageIsPending, PendingRecord, Serializes, CountersValid
  <2> QED
    BY <2>1, <2>2, <2>3
<1>8. Asks(op', "Retire") =>
        /\ \E n \in op.inv.msgs : n.id = op'.id /\ n.rec = op'.rec
        /\ op'.rec.seq < st.confirmedSeq
  BY DEF Asks, Grounded
<1>9. IdsUsed'
  BY <1>1, <1>3, <1>4, <1>5, <1>6, <1>7, <1>8 DEF HInv, IdsUsed
<1>10. ViewSound' /\ OneEditor'
  BY <1>1, <1>2 DEF HInv, ViewSound, OneEditor
<1>11. EditsRaise'
  <2> SUFFICES ASSUME Asks(op', "EditInPlace"), NEW m \in cloud, m.id = op'.id
               PROVE  m.rec.seq < op'.rec.seq /\ \A q \in Asked("Retire")' : q.id # op'.id
    BY <1>1, <1>4, <1>6 DEF EditsRaise
  <2>1. PICK h \in op.inv.msgs : h.id = op'.id /\ h.rec.seq = st.confirmedSeq
    BY <1>7
  <2>2. m = h
    BY <1>3, <2>1
  <2>3. \A q \in Asked("Retire") : q.id # op'.id
    <3>1. st.confirmedSeq \in Nat
      BY DEF AInv, DataOK, Sound, LocalState
    <3> QED
      BY <2>1, <2>2, <3>1 DEF HInv, DeletesOld
  <2>4. Asked("Retire")' = Asked("Retire")
    BY <1>5 DEF Asks
  <2> QED
    BY <1>7, <2>1, <2>2, <2>3, <2>4
<1>12. DeletesOld'
  <2> SUFFICES ASSUME Asks(op', "Retire"), NEW m \in cloud, m.id = op'.id
               PROVE  m.rec.seq < st.confirmedSeq
    BY <1>1, <1>5, <1>6 DEF HInv, DeletesOld
  <2> QED
    BY <1>3, <1>8
<1>13. HeadPublished'
  BY <1>1 DEF HInv, HeadPublished
<1>14. CommitSound'
  <2> SUFFICES ASSUME op'.commitOnly, op'.state.confirmedSeq # 0
               PROVE  \E m \in cloud : m.rec.seq >= op'.state.confirmedSeq
    BY <1>1 DEF CommitSound
  <2>1. CASE op'.state.confirmedSeq = st.confirmedSeq
    BY <2>1 DEF HInv, HeadPublished
  <2>2. CASE \E n \in op.inv.msgs : n.rec.seq = op'.state.confirmedSeq /\ st.confirmedSeq < n.rec.seq
    <3>1. PICK n \in op.inv.msgs : n.rec.seq = op'.state.confirmedSeq /\ st.confirmedSeq < n.rec.seq
      BY <2>2
    <3>2. n.rec.seq \in Nat /\ st.confirmedSeq \in Nat
      BY <3>1 DEF AInv, DataOK, Sound, LocalState, OpOK, Operation, Inventories, Message, Record
    <3> QED
      BY <1>3, <3>1, <3>2
  <2> QED
    BY <2>1, <2>2 DEF Grounded
<1>15. Once'
  <2> SUFFICES ASSUME mode.orphans = 0, Asks(op', "Post") \/ Asks(op', "EditInPlace"),
                      NEW m \in cloud
               PROVE  m.rec # op'.rec
    BY <1>1, <1>2 DEF HInv, Once
  <2>1. m.rec.seq # st.pendingSeq
    BY DEF HInv, Once, Grounded, Asks
  <2>2. op'.rec = staged /\ staged.seq = st.pendingSeq
    BY <1>1 DEF Asks, AInv, DataOK, OpOK, SendOK, StageIsPending, PendingRecord
  <2> QED
    BY <2>1, <2>2
<1> QED
  BY <1>9, <1>10, <1>11, <1>12, <1>13, <1>14, <1>15 DEF HInv

\* The policy.
LEMMA PolicyHead ==
  AInv /\ AInv' /\ HInv /\ (Trigger \/ Enable \/ Disable \/ Saved \/ RetryTimer \/ Completed)
    => HInv'
<1> SUFFICES ASSUME AInv, AInv', HInv,
                    Trigger \/ Enable \/ Disable \/ Saved \/ RetryTimer \/ Completed
             PROVE  HInv'
  OBVIOUS
<1>1. UNCHANGED <<ledger, server, mode>>
  BY DEF Trigger, Enable, Disable, Saved, RetryTimer, Completed
<1>2. ASSUME NEW r, NEW noted, NEW retried \in BOOLEAN, Open(r, noted, retried)
      PROVE  op' = op \/ Plain(op')
  BY <1>2, StartPlain DEF Open, Coalesce, Adopt
<1>3. CASE Trigger \/ Enable \/ Disable \/ Saved \/ RetryTimer
  <2>1. op' = op \/ Plain(op')
    BY <1>2, <1>3 DEF Trigger, Enable, OnTrigger, Disable, Saved, RetryTimer, Coalesce
  <2> QED
    BY <1>1, <2>1, PlainStep
<1>4. CASE Completed
  <2>1. CASE op' = NoOperation
    <3>1. Plain(op')
      BY <2>1 DEF Plain, NoOperation
    <3> QED
      BY <1>1, <3>1, PlainStep
  <2>2. CASE Adopt(Hold(rec, "SyncChatProblem"))
    <3>1. op' = NoOperation
      BY <2>2 DEF Adopt, Hold, Quiet
    <3> QED
      BY <2>1, <3>1
  <2>3. CASE rec.active /\ Adopt(Complete(rec)) /\ op.outcome # "Inventory"
    <3>1. Plain(op')
      BY <2>3, CompletePlain DEF Adopt
    <3> QED
      BY <1>1, <3>1, PlainStep
  <2>4. CASE rec.active /\ Adopt(Complete(rec)) /\ op.outcome = "Inventory"
    <3>1. op.phase = "answered" /\ Viewing
      BY <1>4, <2>4 DEF Completed, Viewing
    <3>2. Vouching(Claimed)
      BY DEF AInv, DataOK, Vouching
    <3>3. Planned(rec.queuedSave, Complete(rec), Claimed, op.inv.msgs)
      BY <2>4, <3>1, <3>2, CompletePlanned DEF AInv
    <3>4. Grounded(op', op.inv.msgs)
      BY <2>4, <3>3 DEF Planned, Adopt
    <3> QED
      BY <1>1, <3>1, <3>4, PlannedHead
  <2> QED
    BY <1>4, <2>1, <2>2, <2>3, <2>4 DEF Completed
<1> QED
  BY <1>3, <1>4
\* The client's steps that leave the chat alone.
LEMMA ClientHead ==
  AInv /\ AInv' /\ HInv /\ (\/ Store \/ WriteFile \/ CommitApply \/ AbortApply \/ Transmit
                            \/ Acknowledge \/ Refuse \/ Fail \/ Crash)
    => HInv'
<1> SUFFICES ASSUME AInv, AInv', HInv,
                    \/ Store \/ WriteFile \/ CommitApply \/ AbortApply \/ Transmit
                    \/ Acknowledge \/ Refuse \/ Fail \/ Crash
             PROVE  HInv'
  OBVIOUS
<1>1. UNCHANGED <<cloud, nextId, mode>>
  BY DEF Store, WriteFile, CommitApply, AbortApply, Transmit, Acknowledge, Refuse, Fail,
         Crash, server
<1>2. st.confirmedSeq \in Nat /\ st'.confirmedSeq \in Nat
  BY DEF AInv, DataOK, Sound, LocalState
<1>3. ASSUME NEW outcome \in Outcomes \ {"Inventory"}, Answer(outcome)
      PROVE  op'.phase = "answered" /\ ~Viewing'
  BY <1>3 DEF Answer, NoOperation, Viewing
<1>4. /\ \A kind \in RequestKinds :
           Asks(op', kind) => Asks(op, kind) /\ op'.id = op.id /\ op'.rec = op.rec
      /\ ~Viewing' /\ op'.phase # "todo"
  <2>1. CASE Store \/ CommitApply \/ AbortApply \/ Acknowledge \/ Refuse \/ Fail
    <3>1. \E outcome \in Outcomes \ {"Inventory"} : Answer(outcome)
      <4>1. {"Staged", "Committed", "Applied", "Failed", "Deleted", "Sent",
             "DeletionRefused", "EditRefused"} \subseteq Outcomes \ {"Inventory"}
        BY DEF Outcomes
      <4> QED
        BY <2>1, <4>1 DEF Store, CommitApply, AbortApply, Acknowledge, Refuse, Fail
    <3> QED
      BY <1>3, <3>1 DEF Asks
  <2>2. CASE WriteFile
    BY <2>2 DEF WriteFile, AInv, OpOK, Operation, Asks, Viewing
  <2>3. CASE Transmit
    BY <2>3 DEF Transmit, AInv, OpOK, Operation, Asks, Viewing
  <2>4. CASE Crash
    BY <2>4 DEF Crash, NoOperation, Asks, Viewing
  <2> QED
    BY <2>1, <2>2, <2>3, <2>4
<1>5. Passed
  <2>1. CASE orphans' = orphans
    BY <1>4, <2>1 DEF Passed
  <2>2. CASE orphans' # orphans
    <3>1. (Fail \/ Crash) /\ op.phase = "sent" /\ orphans' = orphans \cup {Orphan}
          /\ Cardinality(orphans) < mode.orphans
      BY <2>2 DEF Store, WriteFile, CommitApply, AbortApply, Transmit, Acknowledge, Refuse,
                  Fail, Crash, server
    <3>2. mode.orphans # 0
      BY <3>1, FS_EmptySet DEF HInv, Once
    <3>3. op'.phase \notin {"todo", "sent"}
      <4>1. CASE Fail
        <5>1. Answer("Failed")
          BY <4>1 DEF Fail
        <5> QED
          BY <5>1 DEF Answer, NoOperation
      <4>2. CASE Crash
        BY <4>2 DEF Crash, NoOperation
      <4> QED
        BY <3>1, <4>1, <4>2
    <3> QED
      BY <1>4, <3>1, <3>2, <3>3 DEF Passed
  <2> QED
    BY <2>1, <2>2
<1>6. CASE st'.confirmedSeq = st.confirmedSeq
  <2>1. HeadPublished'
    BY <1>1, <1>6 DEF HInv, HeadPublished
  <2> QED
    BY <1>1, <1>2, <1>4, <1>5, <1>6, <2>1, CalmStep
<1>7. CASE st'.confirmedSeq # st.confirmedSeq
  <2>1. op.phase = "todo" /\ op.commitOnly /\ st' = op.state
    <3>1. CASE Store
      BY <1>7, <3>1 DEF Store, AInv, OpOK, PublishOK
    <3>2. CASE CommitApply
      <4>1. PICK k \in Payloads : st' = [st EXCEPT !.base = k]
        BY <3>2 DEF CommitApply, AInv, OpOK, ApplyOK
      <4>2. st'.confirmedSeq = st.confirmedSeq
        BY <4>1 DEF AInv, DataOK, Sound, LocalState
      <4> QED
        BY <1>7, <4>2
    <3>3. CASE Acknowledge
      BY <1>7, <3>3 DEF Acknowledge, AInv, OpOK, RetireOK
    <3>4. CASE WriteFile \/ AbortApply \/ Transmit \/ Refuse \/ Fail \/ Crash
      BY <1>7, <3>4 DEF WriteFile, AbortApply, Transmit, Refuse, Fail, Crash, ledger
    <3> QED
      BY <3>1, <3>2, <3>3, <3>4
  <2>2. st.confirmedSeq <= st'.confirmedSeq
    BY <2>1 DEF AInv, OpOK, CommitOK, Later
  <2>3. HeadPublished'
    BY <1>1, <2>1 DEF HInv, CommitSound, HeadPublished
  <2> QED
    BY <1>1, <1>2, <1>4, <1>5, <2>2, <2>3, CalmStep
<1> QED
  BY <1>6, <1>7

\* The server applies what it was sent, and what it still holds.
LEMMA ServerHead ==
  AInv /\ HInv /\ (Serve \/ \E o \in orphans : SettleOrphan(o)) =>
    /\ HInv'
    /\ \A m \in cloud : (\A n \in cloud' : n.id # m.id) =>
         \E n \in cloud' : n.rec.seq >= m.rec.seq
<1>1. ASSUME AInv, HInv, Serve
      PROVE  /\ HInv'
             /\ \A m \in cloud : (\A n \in cloud' : n.id # m.id) =>
                  \E n \in cloud' : n.rec.seq >= m.rec.seq
  <2>1. Effect(Orphan)
    BY <1>1 DEF Serve, Effect, Orphan
  <2>2. Applied(Orphan) /\ st' = st /\ mode' = mode
    BY <1>1 DEF Serve, Applied, ledger
  <2> QED
    BY <1>1, <2>1, <2>2, EffectHead
<1>2. ASSUME AInv, HInv, NEW o \in orphans, SettleOrphan(o)
      PROVE  /\ HInv'
             /\ \A m \in cloud : (\A n \in cloud' : n.id # m.id) =>
                  \E n \in cloud' : n.rec.seq >= m.rec.seq
  <2>1. CASE Effect(o)
    <3>1. Applied(o) /\ st' = st /\ mode' = mode
      BY <1>2 DEF SettleOrphan, Applied, ledger
    <3> QED
      BY <1>2, <2>1, <3>1, EffectHead
  <2>2. CASE UNCHANGED <<cloud, nextId>>
    <3>1. /\ orphans' \subseteq orphans /\ op' = op /\ st' = st /\ mode' = mode
          /\ cloud' = cloud /\ nextId' = nextId
      BY <1>2, <2>2 DEF SettleOrphan, ledger
    <3>2. Passed
      BY <3>1 DEF Passed
    <3>3. HeadPublished'
      BY <1>2, <3>1 DEF HInv, HeadPublished
    <3>4. st.confirmedSeq \in Nat
      BY <1>2 DEF AInv, DataOK, Sound, LocalState
    <3>5. HInv'
      BY <1>2, <3>1, <3>2, <3>3, <3>4, CalmStep
    <3> QED
      BY <3>1, <3>5
  <2> QED
    BY <1>2, <2>1, <2>2 DEF SettleOrphan
<1> QED
  BY <1>1, <1>2

\* What happens around the sync leaves the chat alone.
LEMMA SurroundingsHead ==
  AInv /\ HInv /\ (\/ \E text \in Texts : Save(text)
                   \/ \E text \in Texts : Import(text)
                   \/ \E aware \in BOOLEAN : OtherPublishes(aware)
                   \/ CheckDue \/ RetryDue \/ CloseGate \/ OpenGate \/ UNCHANGED vars)
    => HInv'
<1> SUFFICES ASSUME AInv, HInv, \/ \E text \in Texts : Save(text)
                                \/ \E text \in Texts : Import(text)
                                \/ \E aware \in BOOLEAN : OtherPublishes(aware)
                                \/ CheckDue \/ RetryDue \/ CloseGate \/ OpenGate
                                \/ UNCHANGED vars
             PROVE  HInv'
  OBVIOUS
<1>1. UNCHANGED <<ledger, server, mode, op>>
  BY DEF Save, Import, OtherPublishes, CheckDue, RetryDue, CloseGate, OpenGate, vars
<1> QED
  BY <1>1, PlainStep

\* In the beginning nothing is there.
LEMMA InitHead == Init => HInv
<1> SUFFICES ASSUME Init PROVE HInv
  OBVIOUS
<1>1. /\ cloud = {} /\ orphans = {} /\ op = NoOperation /\ st.confirmedSeq = 0
  BY DEF Init, FreshState
<1>2. Asked("EditInPlace") = {} /\ Asked("Retire") = {} /\ ~Viewing
  BY <1>1 DEF Asked, Asks, NoOperation, Viewing
<1> QED
  BY <1>1, <1>2 DEF HInv, IdsUsed, ViewSound, OneEditor, EditsRaise, DeletesOld, CommitSound,
                    HeadPublished, Once, Asks, NoOperation

\* HInv holds in every reachable state.
LEMMA HeadSteps == AInv /\ AInv' /\ HInv /\ [Next]_vars => HInv'
BY FetchHead, PolicyHead, ClientHead, ServerHead, SurroundingsHead DEF Next, Execute

\* Both invariants together.
LEMMA HeadInvariant == Spec => [](AInv /\ HInv)
<1>1. Init => AInv /\ HInv
  BY InitOK, InitHead
<1>2. (AInv /\ HInv) /\ [Next]_vars => (AInv /\ HInv)'
  BY AutoSteps, HeadSteps
<1> QED
  BY <1>1, <1>2, PTL DEF Spec

---------------------------------------------------------------------------

\* What is confirmed is in the chat, or a newer record of the install is: edits,
\* deletions and requests that outlive their session never take the head away.
THEOREM HeadAlwaysThere == Spec => []HeadPublished
<1>1. HInv => HeadPublished
  BY DEF HInv
<1> QED
  BY <1>1, HeadInvariant, PTL

\* While no request outlives its session a record is in the chat at most once,
\* however many answers are lost.
THEOREM NeverPostedTwice == Spec => []NoDuplicatePost
<1>1. HInv => NoDuplicatePost
  BY DEF HInv, Once, NoDuplicatePost
<1> QED
  BY <1>1, HeadInvariant, PTL

\* No deletion the policy asked for, applied at whatever time, takes the last
\* copy of the newest record.
THEOREM DeletionLeavesHead == Spec => DeletionKeepsHead
<1>1. ASSUME AInv, HInv, [Next]_vars
      PROVE  \A m \in cloud : (\A n \in cloud' : n.id # m.id) =>
               \E n \in cloud' : n.rec.seq >= m.rec.seq
  <2>1. CASE Serve \/ \E o \in orphans : SettleOrphan(o)
    BY <1>1, <2>1, ServerHead
  <2>2. CASE cloud' = cloud
    BY <2>2
  <2>3. CASE ~(Serve \/ \E o \in orphans : SettleOrphan(o)) /\ cloud' # cloud
    BY <1>1, <2>3 DEF Next, Trigger, Enable, Disable, Saved, RetryTimer, Completed, Execute,
       Fetch, Store, WriteFile, CommitApply, AbortApply, Transmit, Acknowledge, Refuse, Fail,
       Crash, Save, Import, OtherPublishes, CheckDue, RetryDue, CloseGate, OpenGate,
       server, vars
  <2> QED
    BY <2>1, <2>2, <2>3
<1> QED
  BY <1>1, HeadInvariant, PTL DEF Spec, DeletionKeepsHead
=============================================================================
