----------------------------- MODULE SyncAuto -----------------------------
(***************************************************************************)
(* Automatic settings sync: the durable run record of purple_sync_auto.h   *)
(* and the policy PlanSyncAuto (purple_sync_auto.cpp), run by a client     *)
(* that persists each plan before it executes it, against a chat another   *)
(* device writes to as well.                                               *)
(*                                                                         *)
(* Every call of PlanSyncAuto is one step: Trigger, Saved, RetryTimer,     *)
(* Enable, Disable or Completed.  Between two calls the client executes    *)
(* the operation it was given, in the steps a crash can separate; this     *)
(* part is the client protocol docs/sync-auto.md prescribes.  The ticket   *)
(* and the session of an operation are represented by op itself: it is     *)
(* the operation of the last ticket, and a crash removes it.  Run and      *)
(* event counters, notices and the account, device and codec checks are    *)
(* left out; the gate is one condition (blocked).                          *)
(***************************************************************************)
EXTENDS SyncLocalState, FiniteSetsExt

CONSTANTS
    Texts,          \* settings texts (their fingerprints)
    NoText,         \* no text
    RetryLimit,     \* the number of retry delays
    RetireLimit,    \* kSyncAutoRetireLimit
    ClientModes,    \* the clients, networks and bounds considered, see mode
    MaxMessages,    \* bound on message ids
    MaxSaves        \* bound on the changes of the local file

ASSUME AutoAssumption ==
    /\ Payloads \subseteq [gen : Nat \ {0}, text : Texts]
    /\ NoText \notin Texts
    /\ RetryLimit \in Nat \ {0} /\ RetireLimit \in Nat \ {0}
    /\ ClientModes \subseteq [edits : BOOLEAN, orphans : Nat, faults : Nat]
    /\ MaxMessages \in Nat /\ MaxSaves \in Nat

VARIABLES
    st,        \* the durable local state; its payloads are version keys
    lineage,   \* config.base_lineage
    staged,    \* the durable staged record
    file,      \* the settings file
    saved,     \* the text last saved by the user, as the file records it
    unheard,   \* whether a LocalSaved event is still to be delivered
    rec,       \* the durable SyncAutoRecord
    op,        \* the operation the client executes
    cloud,     \* the messages of this install
    nextId,
    other,     \* the head another device has published
    orphans,   \* requests without an answer the server may still apply
    blocked,   \* the gate refuses
    mode,      \* fixed: whether the client edits (SyncAutoFacts::editSupported),
               \* the bound on requests outliving their answer, and the bound
               \* on crashes, failed answers and closed gates
    faults, saves,
    vouched,   \* history: texts the user saved, and texts applied from the chat
    reported   \* history: what the file held when a LocalSaved was delivered

ledger == <<st, lineage, staged>>
local == <<file, saved, unheard>>
server == <<cloud, nextId, orphans>>
bounds == <<faults, saves, vouched, reported>>
vars == <<ledger, local, rec, op, server, other, blocked, bounds, mode>>

Actions == {"NoOp", "Check", "AutoApply", "Publish", "EditInPlace", "Post",
            "Reconcile", "Retire"}
Reasons == {"None", "SyncChatProblem", "NoSavedBytes", "NeedsReview", "Conflict",
            "UnsafeImpact", "CloneDetected", "StoreMismatch", "OwnershipChanged",
            "DeletionRefused", "RetryStopped", "InterruptedApply", "StateChanged"}

NoState == [FreshState EXCEPT !.version = 0]
NoHead == [key |-> NoPayload, knows |-> {}, safe |-> TRUE]
NoInventory == [msgs |-> {}, other |-> NoHead, queued |-> FALSE]

SyncAutoRecord ==
    [enabled : BOOLEAN, runStopped : BOOLEAN, active : BOOLEAN,
     pending : Actions, commitOnly : BOOLEAN,
     due : BOOLEAN,                       \* not checked for 15 minutes, or ever
     queuedCheck : BOOLEAN, queuedSave : BOOLEAN,
     savedText : Texts \cup {NoText},
     retries : 0..RetryLimit,
     retry : {"none", "waiting", "reached"},  \* retryAt, against the clock
     retired : 0..RetireLimit,
     editRefused : BOOLEAN, uncertain : BOOLEAN, retiring : BOOLEAN,
     held : Reasons,
     expState : LocalState \cup {NoState}, expFile : Texts \cup {NoText},
     record : Record \cup {NoRecord}, messageId : Nat]

FreshRecord ==
    [enabled |-> FALSE, runStopped |-> FALSE, active |-> FALSE,
     pending |-> "NoOp", commitOnly |-> FALSE, due |-> TRUE,
     queuedCheck |-> FALSE, queuedSave |-> FALSE, savedText |-> NoText,
     retries |-> 0, retry |-> "none", retired |-> 0,
     editRefused |-> FALSE, uncertain |-> FALSE, retiring |-> FALSE,
     held |-> "None", expState |-> NoState, expFile |-> NoText,
     record |-> NoRecord, messageId |-> 0]

\* What the client keeps of a plan it executes: id, bytes, next state, the text
\* it may replace and the text it writes; phase is how far it has come.
NoOperation ==
    [kind |-> "NoOp", commitOnly |-> FALSE, id |-> 0, rec |-> NoRecord,
     state |-> NoState, knows |-> {}, from |-> NoText, text |-> NoText,
     phase |-> "idle", outcome |-> "none", inv |-> NoInventory]

Init ==
    /\ st = FreshState /\ lineage = {} /\ staged = NoRecord
    /\ file \in Texts /\ saved = NoText /\ unheard = FALSE
    /\ rec = FreshRecord /\ op = NoOperation
    /\ cloud = {} /\ nextId = 1 /\ orphans = {} /\ other = NoHead
    /\ mode \in ClientModes
    /\ blocked = FALSE /\ faults = 0 /\ saves = 0
    /\ vouched = {} /\ reported = {}

---------------------------------------------------------------------------
(* Plans: the next record, and the operation it asks for if any.           *)

Quiet(r) == [rec |-> r, op |-> NoOperation]

Hold(r, reason) == Quiet([r EXCEPT !.active = FALSE, !.held = reason])

\* mutant: the retry deadline outlives the retry.
EmitKeepingDeadline(r, action, commitOnly) ==
    [rec |-> [r EXCEPT !.active = TRUE, !.held = "None", !.pending = action,
                       !.commitOnly = commitOnly],
     op |-> [NoOperation EXCEPT !.kind = action, !.phase = "todo"]]

Emit(r, action, commitOnly) ==
    LET reads == action = "Check" \/ (action = "Reconcile" /\ ~commitOnly)
        e == [r EXCEPT
                !.active = TRUE, !.held = "None", !.pending = action,
                !.commitOnly = commitOnly, !.retry = "none",
                !.retries = IF reads THEN @ ELSE 0,
                !.expState = IF action = "Check" THEN NoState ELSE @,
                !.expFile = IF action = "AutoApply" THEN @ ELSE NoText,
                !.record = IF action = "AutoApply" THEN NoRecord ELSE @,
                !.due = @ /\ ~reads]
    IN  [rec |-> e,
         op |-> IF reads THEN [NoOperation EXCEPT !.kind = action, !.phase = "todo"]
                ELSE [NoOperation EXCEPT
                        !.kind = action, !.phase = "todo",
                        !.commitOnly = commitOnly, !.id = e.messageId,
                        !.rec = e.record, !.state = e.expState,
                        !.text = e.expFile]]

\* mutants: retries without a limit; a request without an answer is sent again,
\* or taken as done.
RetryForever(r) ==
    Quiet([r EXCEPT !.active = FALSE, !.retry = "waiting", !.retries = r.retries + 1])

RetryResending(r) ==
    IF r.pending = "Post" THEN Emit(r, "Post", FALSE)
    ELSE Quiet([r EXCEPT !.active = FALSE, !.retry = "waiting"])

RetryTrusting(r) ==
    IF r.pending \in {"Post", "EditInPlace"}
    THEN Emit([r EXCEPT !.expState = ConfirmReadBack(st)], "Reconcile", TRUE)
    ELSE Quiet([r EXCEPT !.active = FALSE, !.retry = "waiting"])

Retry(r) ==
    IF r.retries >= RetryLimit
    THEN Hold([r EXCEPT !.runStopped = TRUE, !.retry = "none"], "RetryStopped")
    ELSE Quiet([r EXCEPT !.active = FALSE, !.retry = "waiting",
                         !.retries = r.retries + 1])

\* The work of a finished transaction is forgotten.
Cleared(r) ==
    [r EXCEPT !.record = NoRecord, !.messageId = 0,
              !.uncertain = FALSE, !.retiring = FALSE]

DoneForgetting(r) ==  \* mutant: a save during the run is forgotten
    Quiet([Cleared(r) EXCEPT !.active = FALSE, !.retries = 0, !.pending = "NoOp",
                             !.queuedCheck = FALSE, !.queuedSave = FALSE])

Done(r) ==
    LET d == [Cleared(r) EXCEPT
                !.active = FALSE, !.retries = 0, !.retry = "none",
                !.pending = "NoOp", !.commitOnly = FALSE,
                !.expState = NoState, !.expFile = NoText, !.queuedCheck = FALSE]
    IN  IF r.queuedSave \/ (r.queuedCheck /\ r.due)
        THEN Emit([d EXCEPT !.queuedSave = FALSE], "Check", FALSE)
        ELSE Quiet(d)

Commit(r, next) == Emit([r EXCEPT !.expState = next], "Reconcile", TRUE)

---------------------------------------------------------------------------
(* The verdict on the inventory, PlanConfigSync for one other device.      *)

Text(key) == IF key = NoPayload THEN NoText ELSE key.text

Stale(head) == head.key \in lineage \cup {st.base}
Unseen(inv) == inv.other # NoHead /\ ~Stale(inv.other)

OwnStale(obs) ==
    /\ st.base # NoPayload
    /\ obs.kind = "Present"
    /\ obs.payload \notin lineage \cup {st.base}

Verdict(inv) ==
    LET head == inv.other
        meetsKnown == st.base \in head.knows
    IN  CASE Unseen(inv) /\ head.key.text = file -> "Adopt"
          [] Unseen(inv) /\ head.key.text # file /\ meetsKnown ->
                 IF Text(st.base) = file THEN "UpdateReady" ELSE "Conflict"
          [] Unseen(inv) /\ head.key.text # file /\ ~meetsKnown -> "Choose"
          [] ~Unseen(inv) /\ st.base = NoPayload -> "Empty"
          [] ~Unseen(inv) /\ st.base # NoPayload ->
                 IF Text(st.base) # file \/ OwnStale(Observation(inv.msgs))
                 THEN "LocalChanges" ELSE "UpToDate"

\* MakeConfigVersion for the parents PlanConfigChoice names.
NextVersion(obs) ==
    LET parents == ({st.base} \cup (IF OwnStale(obs) THEN {obs.payload} ELSE {}))
                        \ {NoPayload}
    IN  [gen |-> 1 + Max({0} \cup {p.gen : p \in parents}), text |-> file]

\* The lineage of the confirmed version: its parents were the base and, when
\* that had not seen it, the own head of the time, with all they descend from.
NextLineage(s) ==
    IF s.base = st.base THEN lineage
    ELSE (lineage \cup {st.base}
            \cup {m.rec.payload : m \in {n \in st.own : n.rec.seq = st.confirmedSeq}})
         \ {NoPayload}

---------------------------------------------------------------------------
(* Inventory(): what the policy does with a complete fresh read.           *)

FirstOf(messages) == CHOOSE m \in messages : \A n \in messages : m.id <= n.id

\* mutant: any message of this install is retired, as often as one is left.
RetireAny(r, inv) ==
    IF inv.msgs = {} THEN Done(r)
    ELSE LET m == FirstOf(inv.msgs)
         IN  Emit([r EXCEPT !.expState = RemoveAbsent(st, m.id), !.messageId = m.id,
                            !.record = m.rec, !.retiring = TRUE,
                            !.retired = r.retired + 1], "Retire", FALSE)

\* Obsolete own messages are deleted one by one when nothing else is to do.
RetireOrFinish(r, inv) ==
    LET obs == Observation(inv.msgs)
        candidates == RetireCandidates(st, obs)
        m == FirstOf(candidates)
        found == {n \in inv.msgs : n.id = m.id}
    IN  IF r.retired >= RetireLimit THEN Done(r)
        ELSE IF candidates # {} THEN
            IF /\ m.rec \in st.issued
               /\ \E n \in found : CanDelete(st, n.id, n.rec)
            THEN Emit([r EXCEPT !.expState = RemoveAbsent(st, m.id),
                                !.messageId = m.id,
                                !.record = m.rec,
                                !.retiring = TRUE,
                                !.retired = r.retired + 1], "Retire", FALSE)
            ELSE Hold(r, "OwnershipChanged")
        ELSE IF /\ Expected(st, obs)
                /\ st.ownHash = NoPayload \/
                   (HeadKnown(st, obs) /\ st.confirmedSeq # 0 /\ st.abandonedSeq = 0)
        THEN Done(r)
        ELSE Hold(r, "NeedsReview")

\* mutants: the bytes need not be saved ones, or are not logged as issued.
StageAnyBytes(r, inv) ==
    LET key == NextVersion(Observation(inv.msgs))
        reserved == ReserveVersion(st, key)
        record == PendingRecord(reserved)
    IN  IF CanReserve(st) /\ key \in Payloads
        THEN Emit([r EXCEPT !.expState = AppendIssued(reserved, record),
                            !.record = record], "Publish", FALSE)
        ELSE Hold(r, "NeedsReview")

StageUnlogged(r, inv) ==
    LET reserved == ReserveVersion(st, NextVersion(Observation(inv.msgs)))
    IN  IF CanReserve(st) /\ reserved.ownHash \in Payloads
        THEN Emit([r EXCEPT !.expState = reserved,
                            !.record = PendingRecord(reserved)], "Publish", FALSE)
        ELSE Hold(r, "NeedsReview")

StageLocalChanges(r, inv) ==
    LET obs == Observation(inv.msgs)
        key == NextVersion(obs)
        reserved == ReserveVersion(st, key)
        record == PendingRecord(reserved)
    IN  IF r.savedText # file /\ saved # file THEN Hold(r, "NoSavedBytes")
        ELSE IF ~(MayReserve(st, obs, key) /\ CanReserve(st) /\ key \in Payloads)
        THEN Hold(r, "NeedsReview")
        ELSE IF ~CanAppendIssued(reserved, record) THEN Hold(r, "StoreMismatch")
        ELSE Emit([r EXCEPT !.expState = AppendIssued(reserved, record),
                            !.record = record,
                            !.editRefused = FALSE,
                            !.queuedSave = FALSE], "Publish", FALSE)

\* A strict successor of the base replaces the file that still holds the base.
ApplySuccessor(r, inv) ==
    LET plan == Emit([r EXCEPT !.expState = [st EXCEPT !.base = inv.other.key],
                               !.expFile = inv.other.key.text], "AutoApply", FALSE)
    IN  IF Text(st.base) # file THEN Hold(r, "Conflict")
        ELSE IF ~inv.other.safe THEN Hold(r, "UnsafeImpact")
        ELSE [plan EXCEPT !.op.from = file, !.op.knows = inv.other.knows]

Review(r, inv) ==
    LET verdict == Verdict(inv)
    IN  CASE verdict = "UpdateReady" -> ApplySuccessor(r, inv)
          [] verdict \in {"Conflict", "Choose"} -> Hold(r, "Conflict")
          [] verdict \in {"LocalChanges", "Empty"} -> StageLocalChanges(r, inv)
          [] verdict = "Adopt" -> Hold(r, "NeedsReview")
          [] verdict = "UpToDate" -> RetireOrFinish(r, inv)

\* The staged record comes first: confirmed when it is found, else sent.
FinishStaged(r0, inv) ==
    LET r == [r0 EXCEPT !.record = staged]
        obs == Observation(inv.msgs)
        found == PendingCopies(st, inv.msgs)
        m == FirstOf(found)
        confirmed == ConfirmReadBack(st)
        edits == mode.edits /\ ~r.editRefused
        heads == {h \in Heads(inv.msgs) : MayEdit(st, obs, staged, edits, h)}
        send == [r EXCEPT !.uncertain = TRUE]
    IN  IF staged = NoRecord \/ r0.record \notin {NoRecord, staged}
        THEN Hold(r0, "StoreMismatch")
        ELSE IF found # {} THEN
            IF ~CanConfirm(st, obs, staged.payload) THEN Hold(r, "CloneDetected")
            ELSE IF staged \notin st.issued \/ ~CanRecordConfirmed(confirmed, m.id, m.rec)
            THEN Hold(r, "StoreMismatch")
            ELSE Commit([r EXCEPT !.uncertain = FALSE], Put(confirmed, m.id, m.rec))
        ELSE IF Unseen(inv) THEN Hold(r, "Conflict")
        ELSE IF inv.queued THEN Retry(r)
        ELSE IF heads # {}
        THEN Emit([send EXCEPT !.messageId = FirstOf(heads).id], "EditInPlace", FALSE)
        ELSE IF MayPost(st, obs, staged, edits)
        THEN Emit([send EXCEPT !.messageId = 0], "Post", FALSE)
        ELSE Hold(r, "NeedsReview")

\* mutant: staged bytes are rebuilt when the file has changed since.
RebuildStaged(r, inv) ==
    LET key == [gen |-> 1, text |-> file]
        rebuilt == [seq |-> st.pendingSeq, payload |-> key]
    IN  IF st.pendingSeq # 0 /\ st.ownHash.text # file
        THEN Emit([r EXCEPT !.record = rebuilt,
                            !.expState = [st EXCEPT
                                !.ownHash = key, !.pendingKey = key,
                                !.issued = (@ \ {staged}) \cup {rebuilt}]],
                  "Publish", FALSE)
        ELSE IF st.pendingSeq # 0 THEN FinishStaged(r, inv) ELSE Review(r, inv)

NextWork(r, inv) ==
    IF st.pendingSeq # 0 THEN FinishStaged(r, inv)
    ELSE IF staged # NoRecord THEN Hold(r, "StoreMismatch")
    ELSE Review(r, inv)

\* A deletion whose outcome is not known yet is settled before anything else.
SettleRetiring(r, inv) ==
    LET found == {m \in inv.msgs : m.id = r.messageId}
    IN  IF found = {} THEN
            IF st = r.expState
            THEN NextWork([r EXCEPT !.retiring = FALSE, !.messageId = 0,
                                    !.record = NoRecord], inv)
            ELSE IF CanRemoveAbsent(st, r.messageId)
            THEN Commit(r, RemoveAbsent(st, r.messageId))
            ELSE Hold(r, "StoreMismatch")
        ELSE IF \A m \in found : m.rec = r.record /\ CanDelete(st, m.id, m.rec)
        THEN NextWork(r, inv)
        ELSE Hold(r, "OwnershipChanged")

Inventory(r, inv) ==
    LET obs == Observation(inv.msgs)
    IN  IF ~CloneFree(st, obs) THEN Hold(r, "CloneDetected")
        ELSE IF ~Consistent(st, inv.msgs, staged) THEN Hold(r, "NeedsReview")
        ELSE IF \/ obs.kind = "Absent" /\ st.confirmedSeq # 0 /\ ~AwaitsMovedPublish(st)
                \/ obs.kind = "Present" /\ obs.seq < st.confirmedSeq
        THEN Hold(r, "NeedsReview")
        ELSE IF r.retiring /\ r.messageId > 0 THEN SettleRetiring(r, inv)
        ELSE NextWork(r, inv)

---------------------------------------------------------------------------
(* PlanSyncAutoStep: the events.                                           *)

InFlight == op # NoOperation

Adopt(plan) == rec' = plan.rec /\ op' = plan.op

\* A record that is only updated while the operation of the client goes on.
Coalesce(r) == rec' = r /\ UNCHANGED op

RepeatApply(r) ==  \* mutant: an interrupted apply is written again
    LET plan == Emit(r, "AutoApply", FALSE)
    IN  [plan EXCEPT !.op.from = file]

InterruptedApply(r) ==
    IF st = r.expState /\ file = r.expFile
    THEN Emit([r EXCEPT !.savedText = file], "Check", FALSE)
    ELSE Hold(r, "InterruptedApply")

FreshRun(r) ==
    IF ~r.queuedSave /\ ~r.due THEN Quiet(r)
    ELSE Emit([r EXCEPT !.retired = 0, !.queuedCheck = FALSE,
                        !.queuedSave = FALSE], "Check", FALSE)

ContinueWhenDue(r) == FreshRun(r)  \* mutant: unfinished work waits for a check

\* Unfinished work is reconciled at once, a new check waits for its time.
Continue(r) ==
    IF r.pending # "NoOp" /\ (r.uncertain \/ r.active \/ st.pendingSeq # 0)
    THEN Emit(r, "Reconcile", FALSE)
    ELSE FreshRun(r)

\* An event other than Completed, once the gate is open and nothing runs.
Start(r, retried) ==
    CASE r.runStopped /\ ~retried ->
             Emit([r EXCEPT !.runStopped = FALSE, !.retries = 0, !.retired = 0],
                  "Reconcile", FALSE)
      [] r.runStopped /\ retried -> Quiet(r)
      [] ~r.runStopped /\ r.pending = "AutoApply" -> InterruptedApply(r)
      [] ~r.runStopped /\ r.pending # "AutoApply" /\ retried ->
             IF r.retry = "reached" THEN Emit(r, "Reconcile", FALSE) ELSE Quiet(r)
      [] ~r.runStopped /\ r.pending # "AutoApply" /\ ~retried -> Continue(r)

Noted(r) == [r EXCEPT !.savedText = file, !.queuedSave = TRUE]
Queued(r) == [r EXCEPT !.queuedCheck = TRUE]

\* r has taken note of the event already where the code does so after the gate.
Open(r, noted, retried) ==
    IF blocked
    THEN /\ rec' = Hold(r, "SyncChatProblem").rec
         /\ UNCHANGED op
    ELSE IF InFlight THEN Coalesce(noted)
    ELSE Adopt(Start(noted, retried))

\* SessionReady, Foreground, Unlock; Enable after it has enabled the record.
OnTrigger(r) ==
    IF r.retry # "none" THEN Coalesce(Queued(r)) ELSE Open(r, Queued(r), FALSE)

Trigger ==
    /\ rec.enabled
    /\ OnTrigger(rec)
    /\ UNCHANGED <<ledger, local, server, other, blocked, bounds, mode>>

Enable ==
    /\ ~rec.enabled
    /\ OnTrigger([rec EXCEPT !.enabled = TRUE])
    /\ UNCHANGED <<ledger, local, server, other, blocked, bounds, mode>>

Disable ==
    /\ rec.enabled
    /\ faults < mode.faults
    /\ faults' = faults + 1
    /\ Coalesce([rec EXCEPT !.enabled = FALSE, !.held = "None", !.active = FALSE])
    /\ UNCHANGED <<ledger, local, server, other, blocked, saves, vouched, reported, mode>>

\* LocalSaved, after the debounce.
Saved ==
    /\ unheard
    /\ unheard' = FALSE
    /\ IF ~rec.enabled \/ (rec.retry # "none" /\ blocked) THEN Coalesce(rec)
       ELSE IF rec.retry # "none" THEN Coalesce(Noted(rec))
       ELSE Open(rec, Noted(rec), FALSE)
    /\ reported' = reported \cup {file}
    /\ UNCHANGED <<ledger, file, saved, server, other, blocked, faults, saves, vouched, mode>>

\* The timer the client armed for retryAt.
RetryTimer ==
    /\ rec.enabled
    /\ rec.retry = "reached"
    /\ Open(rec, rec, TRUE)
    /\ UNCHANGED <<ledger, local, server, other, blocked, bounds, mode>>

\* Completed with the outcome of the operation the record waits for.
Complete(r) ==
    LET o == op.outcome
        expected == CASE r.pending = "Publish" -> "Staged"
                      [] r.pending = "AutoApply" -> "Applied"
                      [] r.pending = "Retire" -> "Deleted"
                      [] OTHER -> "Committed"
        asPlanned == /\ o = expected
                     /\ r.expState # NoState
                     /\ st = r.expState
                     /\ r.pending = "AutoApply" => file = r.expFile
                     /\ r.pending = "Publish" => staged = r.record
                     /\ r.commitOnly => staged = NoRecord
        noted == IF r.pending = "AutoApply" THEN [r EXCEPT !.savedText = file] ELSE r
    IN  IF o = "Failed" THEN
            IF r.pending \in {"AutoApply", "Publish"} \/ r.commitOnly
            THEN Hold(r, "StateChanged") ELSE Retry(r)
        ELSE IF o = "EditRefused"
        THEN Emit([r EXCEPT !.editRefused = TRUE], "Reconcile", FALSE)
        ELSE IF o = "DeletionRefused" THEN Hold(r, "DeletionRefused")
        ELSE IF o = "Inventory" THEN Inventory([r EXCEPT !.active = FALSE], op.inv)
        ELSE IF o = "Sent" THEN Emit([r EXCEPT !.retries = 0], "Reconcile", FALSE)
        ELSE IF ~asPlanned THEN Hold(r, "StateChanged")
        ELSE Emit([(IF r.commitOnly \/ r.pending = "Retire" THEN Cleared(noted)
                    ELSE noted) EXCEPT !.retries = 0], "Check", FALSE)

Completed ==
    /\ op.phase = "answered"
    /\ IF ~rec.active \/ ~rec.enabled THEN rec' = rec /\ op' = NoOperation
       ELSE IF blocked THEN Adopt(Hold(rec, "SyncChatProblem"))
       ELSE Adopt(Complete(rec))
    /\ UNCHANGED <<ledger, local, server, other, blocked, bounds, mode>>

---------------------------------------------------------------------------
(* The client executes the operation it was given.                         *)

Answer(outcome) ==
    op' = [NoOperation EXCEPT !.kind = op.kind, !.phase = "answered",
                              !.outcome = outcome]

Reads == op.kind = "Check" \/ (op.kind = "Reconcile" /\ ~op.commitOnly)
Requests == op.kind \in {"Post", "EditInPlace", "Retire"}

\* A complete fresh read; an edit without an answer is settled by then.
Fetch ==
    /\ op.phase = "todo" /\ Reads
    /\ orphans' = {o \in orphans : o.kind # "EditInPlace"}
    /\ \E queued \in (IF \E o \in orphans : o.kind = "Post" THEN BOOLEAN ELSE {FALSE}) :
         op' = [NoOperation EXCEPT
                  !.kind = op.kind, !.phase = "answered", !.outcome = "Inventory",
                  !.inv = [msgs |-> cloud, other |-> other, queued |-> queued]]
    /\ UNCHANGED <<ledger, local, rec, cloud, nextId, other, blocked, bounds, mode>>

\* The stage and the next state become durable together; a commit clears the
\* stage it completes.
Store ==
    /\ op.phase = "todo"
    /\ op.kind = "Publish" \/ op.commitOnly
    /\ st' = op.state
    /\ lineage' = NextLineage(op.state)
    /\ staged' = IF op.kind = "Publish" THEN op.rec
                 ELSE IF op.state.pendingSeq = 0 THEN NoRecord ELSE staged
    /\ Answer(IF op.kind = "Publish" THEN "Staged" ELSE "Committed")
    /\ UNCHANGED <<local, rec, server, other, blocked, bounds, mode>>

\* Applying: the file is replaced only while it holds the text the plan was
\* made for, then read back and the state committed.
WriteFile ==
    /\ op.phase = "todo" /\ op.kind = "AutoApply"
    /\ file = op.from
    /\ file' = op.text
    /\ op' = [op EXCEPT !.phase = "written"]
    /\ vouched' = vouched \cup {op.text}
    /\ UNCHANGED <<ledger, saved, unheard, rec, server, other, blocked, faults, saves, reported,
                   mode>>

CommitApply ==
    /\ op.phase = "written"
    /\ file = op.text
    /\ st' = op.state
    /\ lineage' = op.knows
    /\ Answer("Applied")
    /\ UNCHANGED <<staged, local, rec, server, other, blocked, bounds, mode>>

AbortApply ==
    /\ \/ op.phase = "todo" /\ op.kind = "AutoApply" /\ file # op.from
       \/ op.phase = "written" /\ file # op.text
    /\ Answer("Failed")
    /\ UNCHANGED <<ledger, local, rec, server, other, blocked, bounds, mode>>

Transmit ==
    /\ op.phase = "todo" /\ Requests
    /\ op' = [op EXCEPT !.phase = "sent"]
    /\ UNCHANGED <<ledger, local, rec, server, other, blocked, bounds, mode>>

Effect(q) ==
    \/ /\ q.kind = "Post"
       /\ nextId <= MaxMessages
       /\ cloud' = cloud \cup {[id |-> nextId, rec |-> q.rec]}
       /\ nextId' = nextId + 1
    \/ /\ q.kind = "EditInPlace"
       /\ \E m \in cloud : m.id = q.id
       /\ cloud' = {m \in cloud : m.id # q.id} \cup {[id |-> q.id, rec |-> q.rec]}
       /\ UNCHANGED nextId
    \/ /\ q.kind = "Retire"
       /\ cloud' = {m \in cloud : m.id # q.id}
       /\ UNCHANGED nextId

Serve ==
    /\ op.phase = "sent"
    /\ Effect(op)
    /\ op' = [op EXCEPT !.phase = "served"]
    /\ UNCHANGED <<ledger, local, rec, orphans, other, blocked, bounds, mode>>

\* A definitive answer; a deletion leaves the ledger before it is reported.
Acknowledge ==
    /\ op.phase = "served"
    /\ st' = IF op.kind = "Retire" THEN op.state ELSE st
    /\ Answer(IF op.kind = "Retire" THEN "Deleted" ELSE "Sent")
    /\ UNCHANGED <<lineage, staged, local, rec, server, other, blocked, bounds, mode>>

Fault == faults < mode.faults /\ faults' = faults + 1

Refuse ==
    /\ Fault
    /\ op.phase = "sent" /\ op.kind \in {"EditInPlace", "Retire"}
    /\ Answer(IF op.kind = "Retire" THEN "DeletionRefused" ELSE "EditRefused")
    /\ UNCHANGED <<ledger, local, rec, server, other, blocked, saves, vouched, reported, mode>>

Orphan == [kind |-> op.kind, id |-> op.id, rec |-> op.rec]

\* NetworkFailure or OutcomeUnknown: a store operation was not executed, a
\* request was not sent, is still to be applied, or was applied.
Fail ==
    /\ Fault
    /\ op.phase \in {"todo", "sent", "served"}
    /\ \/ UNCHANGED orphans
       \/ /\ op.phase = "sent" /\ Cardinality(orphans) < mode.orphans
          /\ orphans' = orphans \cup {Orphan}
    /\ Answer("Failed")
    /\ UNCHANGED <<ledger, local, rec, cloud, nextId, other, blocked, saves,
                   vouched, reported, mode>>

\* The session ends; a new one starts with the durable state.
Crash ==
    /\ Fault
    /\ InFlight
    /\ op' = NoOperation
    /\ unheard' = FALSE
    /\ \/ UNCHANGED orphans
       \/ /\ op.phase = "sent" /\ Cardinality(orphans) < mode.orphans
          /\ orphans' = orphans \cup {Orphan}
    /\ UNCHANGED <<ledger, file, saved, rec, cloud, nextId, other, blocked, saves,
                   vouched, reported, mode>>

---------------------------------------------------------------------------
(* The environment.                                                        *)

SettleOrphan(o) ==
    /\ orphans' = orphans \ {o}
    /\ Effect(o) \/ UNCHANGED <<cloud, nextId>>
    /\ UNCHANGED <<ledger, local, rec, op, other, blocked, bounds, mode>>

\* The user saves the settings.
Save(text) ==
    /\ saves < MaxSaves
    /\ saves' = saves + 1
    /\ file' = text /\ saved' = text /\ unheard' = TRUE
    /\ vouched' = vouched \cup {text}
    /\ UNCHANGED <<ledger, rec, op, server, other, blocked, faults, reported, mode>>

\* The file is replaced by an import, which is not a save.
Import(text) ==
    /\ saves < MaxSaves
    /\ saves' = saves + 1
    /\ file' = text
    /\ UNCHANGED <<ledger, saved, unheard, rec, op, server, other, blocked, faults,
                   vouched, reported, mode>>

\* Another device publishes, having read what this one has published or not.
Publishable(aware) ==
    LET known == IF aware THEN {m.rec.payload : m \in cloud} ELSE {}
    IN  {k \in Payloads : /\ k.gen = 1 + Max({0} \cup {p.gen : p \in known})
                          /\ k \notin known}

OtherPublishes(aware) ==
    /\ other = NoHead
    /\ \E key \in Publishable(aware), safe \in BOOLEAN :
         other' = [key |-> key, safe |-> safe,
                   knows |-> IF aware THEN {m.rec.payload : m \in cloud} ELSE {}]
    /\ UNCHANGED <<ledger, local, rec, op, server, blocked, bounds, mode>>

\* Fifteen minutes have passed since the last check; the retry deadline has.
CheckDue ==
    /\ ~rec.due
    /\ rec' = [rec EXCEPT !.due = TRUE]
    /\ UNCHANGED <<ledger, local, op, server, other, blocked, bounds, mode>>

RetryDue ==
    /\ rec.retry = "waiting"
    /\ rec' = [rec EXCEPT !.retry = "reached"]
    /\ UNCHANGED <<ledger, local, op, server, other, blocked, bounds, mode>>

CloseGate ==
    /\ Fault
    /\ ~blocked /\ blocked' = TRUE
    /\ UNCHANGED <<ledger, local, rec, op, server, other, saves, vouched, reported, mode>>

OpenGate ==
    /\ blocked /\ blocked' = FALSE
    /\ UNCHANGED <<ledger, local, rec, op, server, other, bounds, mode>>

Execute == Fetch \/ Store \/ WriteFile \/ CommitApply \/ AbortApply \/ Transmit
           \/ Serve \/ Acknowledge \/ Refuse \/ Fail

Next ==
    \/ Trigger \/ Enable \/ Disable \/ Saved \/ RetryTimer \/ Completed
    \/ Execute \/ Crash
    \/ \E o \in orphans : SettleOrphan(o)
    \/ \E text \in Texts : Save(text)
    \/ \E text \in Texts : Import(text)
    \/ \E aware \in BOOLEAN : OtherPublishes(aware)
    \/ CheckDue \/ RetryDue \/ CloseGate \/ OpenGate

Spec == Init /\ [][Next]_vars

\* The client finishes what it executes, delivers its completion and fires the
\* retry timer it has armed; SessionReady or Foreground come again while nothing
\* is executed (there is no polling timer).
Resume == ~InFlight /\ Trigger

Fairness ==
    /\ WF_vars(Resume)
    /\ WF_vars(Execute)
    /\ WF_vars(Completed)
    /\ WF_vars(RetryDue)
    /\ WF_vars(RetryTimer)

FairSpec == Spec /\ Fairness

---------------------------------------------------------------------------
(* Properties.                                                             *)

\* Texts the device may publish on its own: the user saved them, the device
\* applied them from the chat, or the file held them when a save was reported.
Claimed == vouched \cup reported

TypeOK ==
    /\ st \in LocalState /\ lineage \subseteq Payloads
    /\ staged \in Record \cup {NoRecord}
    /\ file \in Texts /\ saved \in Texts \cup {NoText} /\ unheard \in BOOLEAN
    /\ rec \in SyncAutoRecord
    /\ op.kind \in Actions /\ op.id \in Nat /\ op.rec \in Record \cup {NoRecord}
    /\ op.phase \in {"idle", "todo", "written", "sent", "served", "answered"}
    /\ cloud \subseteq Message /\ nextId \in Nat
    /\ blocked \in BOOLEAN /\ Claimed \subseteq Texts

\* IsSyncAutoRecord: whatever the order of events, failures and restarts, the
\* policy never plans a record its own codec refuses to write, which PlanSyncAuto
\* would replace by a StoreMismatch hold (purple_sync_auto.cpp:583-595).
RecordValid ==
    /\ rec.active => rec.pending # "NoOp"
    /\ rec.commitOnly => rec.pending = "Reconcile"
    /\ rec.runStopped => /\ ~rec.active /\ rec.retry = "none"
                         /\ rec.pending # "NoOp"
    /\ rec.held = "RetryStopped" => rec.runStopped
    /\ rec.retry # "none" => ~rec.active /\ rec.retries > 0
    /\ rec.retiring => rec.messageId > 0

\* The staged bytes and the reservation stay together, and the staged record in
\* the issued log, over every crash and late answer of the automatic client.
StageIsPending ==
    IF st.pendingSeq = 0
    THEN staged = NoRecord /\ st.pendingKey = NoPayload
    ELSE staged = PendingRecord(st) /\ staged \in st.issued

Requested == ({q.rec : q \in orphans} \cup {op.rec}) \ {NoRecord}
Written ==
    {m.rec : m \in cloud \cup st.own} \cup st.issued \cup Requested
        \cup ({staged} \ {NoRecord})

\* A staged record finishes exactly as it was staged, even when the file changes
\* meanwhile: two records with one sequence number are the same bytes.
OneRecordPerSeq ==
    \A r1, r2 \in Written : r1.seq = r2.seq => r1 = r2

\* What is published without being asked for is one of these.  The file an account
\* starts with is not, nor an import, unless it comes between a save and its report.
OnlyClaimedPublished ==
    \A r \in Written : r.payload.text \in Claimed

\* "never another blind post": when no request outlives the session that made
\* it, a record is in the chat at most once, however many answers are lost.
NoDuplicatePost ==
    mode.orphans = 0 => \A m1, m2 \in cloud : m1.rec = m2.rec => m1 = m2

\* What is confirmed is in the chat: it or a newer record of this install.  A
\* callback never confirms, and no edit or deletion takes the head away.
HeadPublished ==
    st.confirmedSeq # 0 => \E m \in cloud : m.rec.seq >= st.confirmedSeq

\* A deletion never removes the last copy of the newest record.
DeletionKeepsHead ==
    [][\A m \in cloud :
         (\A n \in cloud' : n.id # m.id) => \E n \in cloud' : n.rec.seq >= m.rec.seq]_vars

\* An automatic apply only ever replaces the text of the confirmed base: bytes
\* this device has not published are not overwritten, also when the user saves
\* between the plan and the write, or between a crash and the restart.
ApplyKeepsUnpublished ==
    [][op.phase = "todo" /\ op'.phase = "written" =>
         file = Text(st.base) /\ st.pendingSeq = 0]_vars

\* A save that arrives during an operation stays queued until a fresh check
\* starts or the saved text itself is staged.
SavesAreChecked ==
    [][rec.queuedSave /\ ~rec'.queuedSave =>
         /\ rec'.active
         /\ \/ rec'.pending = "Check"
            \/ rec'.pending = "Publish" /\ rec'.record.payload.text = file]_vars

\* A staged record does not silently stall: it is confirmed in the end, or the
\* account holds with a reason the user sees, or the user disabled the sync.
StagedFinishes ==
    st.pendingSeq # 0 ~> (st.pendingSeq = 0 \/ rec.held # "None" \/ ~rec.enabled)

\* docs/sync-auto.md: "changed bytes/ownership hold. Unchanged owned Present
\* bytes can authorize another bounded attempt": a deletion held for changed
\* ownership is of a message that no longer is as the ledger has it.
OwnershipHoldMeansChanged ==
    rec.retiring /\ rec.held = "OwnershipChanged" =>
        \A m \in cloud : m.id = rec.messageId => m \notin st.own

\* docs/sync-auto.md: an import is no LocalSaved event, and "`savedFingerprint`
\* must come from an actual account-local saved file": what is published was saved
\* by the user or applied from the chat, whatever was in the file at times.
OnlySavedPublished ==
    \A r \in Written : r.payload.text \in vouched
=============================================================================
