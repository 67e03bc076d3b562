--------------------------- MODULE ArchiveStore ---------------------------
(***************************************************************************)
(* The archive of one account (ArchiveState): captured message bodies with *)
(* their versions, the media they own, media jobs, reader leases and the   *)
(* rows of owned blobs, with the reducers of purple_archive_store.cpp, and *)
(* the owned files the client keeps beside it.                             *)
(*                                                                         *)
(* A reducer plans on a state and CompleteArchiveTransaction commits the   *)
(* plan only to that state, so planning and committing are one action.  A  *)
(* capture made before a purge carries an older generation and is refused  *)
(* as Stale; the events here carry the current one.  Transaction refuses a *)
(* plan that is not an ArchiveState; the operators do not, StateValid      *)
(* shows that it never happens.                                            *)
(*                                                                         *)
(* A body is a text, one field that may be missing from a partial capture  *)
(* (fill) and the identities of its media; its hash is the body itself.    *)
(* An identity stands for its kind too, and has one blob.  Event ids are   *)
(* unique within a message.                                                *)
(***************************************************************************)
EXTENDS Integers, Sequences, FiniteSets

CONSTANTS
    Msgs,       \* ArchiveMessageKeys of the account
    Chats,
    ChatOf,     \* message -> its chat
    Identities, \* media identities
    Blobs,      \* digests of media bytes
    BlobOf,     \* identity -> the digest of its bytes
    Texts,
    Fills,
    Empty,      \* the missing field, in Fills
    Events,     \* the ArchiveEvents clients deliver, any number of times
    Jobs,       \* ids of media jobs
    Leases,     \* ids of reader leases
    Scopes,     \* the purges asked for: Account, or a chat with its aliases
    Account,
    Nothing,    \* no body, no target, no job, no lease
    MaxPurges   \* bound: purges

Contents == [text : Texts, fill : Fills, media : SUBSET Identities]
Ids == {e.id : e \in Events}
Deletions == {"AuthoritativeDelete", "LocalDelete", "MediaExpiry", "MediaConsumption"}
Observations == {"Baseline", "AuthoritativeEdit"}

RefStates == {"Missing", "Staged", "Complete", "Failed"}

Version ==
    [id : Ids, revision : Ids, order : Nat, content : Contents,
     open : BOOLEAN,      \* missing.content and missing.media are not empty
     complete : BOOLEAN,  \* completeness
     refs : UNION {[i -> RefStates] : i \in SUBSET Identities}]

Message ==
    [versions : Seq(Version), deleted : BOOLEAN, purged : BOOLEAN,
     order : Nat, receipts : SUBSET Ids]

Generation == [account : Nat, chat : Nat]

Job ==
    [state : {"Staged", "Complete", "Failed", "Cancelled"},
     msg : Msgs, version : Ids, identity : Identities,
     revision : Ids, content : Contents, generation : Generation]

Lease == [msg : Msgs, version : Ids, blob : Blobs, revoked : BOOLEAN,
          generation : Generation]

ASSUME ArchiveAssumption ==
    /\ Nothing \notin Job \cup Lease
    /\ ChatOf \in [Msgs -> Chats]
    /\ BlobOf \in [Identities -> Blobs]
    /\ Empty \in Fills
    /\ Scopes \subseteq {Account} \cup SUBSET Chats
    /\ MaxPurges \in Nat
    /\ \A e \in Events :
         /\ e.msg \in Msgs /\ e.id # Nothing /\ e.order \in Nat
         /\ e.origin \in Observations \cup Deletions \cup {"Hydration", "SendMetadata"}
         /\ e.open \in BOOLEAN /\ e.complete \in BOOLEAN
         /\ e.complete => ~e.open
         /\ (e.content \in Contents) = (e.origin \in Observations \cup {"Hydration"})

VARIABLES
    db,        \* the ArchiveState
    files,     \* owned blobs on disk
    published, \* jobs whose verified bytes this session has put on disk
    erased     \* history: <<message, version id>> that a purge has removed

vars == <<db, files, published, erased>>

ArchiveState ==
    [messages : [Msgs -> Message],
     jobs : [Jobs -> Job \cup {Nothing}],
     leases : [Leases -> Lease \cup {Nothing}],
     blobs : [Blobs -> {"None", "Complete", "GarbagePending"}],
     account : Nat, chats : [Chats -> Nat]]

Fresh ==
    [messages |-> [m \in Msgs |-> [versions |-> <<>>, deleted |-> FALSE,
                     purged |-> FALSE, order |-> 0, receipts |-> {}]],
     jobs |-> [j \in Jobs |-> Nothing],
     leases |-> [l \in Leases |-> Nothing],
     blobs |-> [b \in Blobs |-> "None"],
     account |-> 0, chats |-> [c \in Chats |-> 0]]

Init ==
    /\ db = Fresh
    /\ files = {}
    /\ published = {}
    /\ erased = {}

---------------------------------------------------------------------------
Newest(s) == s[Len(s)]
GenerationFor(s, m) == [account |-> s.account, chat |-> s.chats[ChatOf[m]]]
VersionsOf(s, m) == {s.messages[m].versions[k] : k \in DOMAIN s.messages[m].versions}
Staged(s, j) == s.jobs[j] # Nothing /\ s.jobs[j].state = "Staged"

\* The identities some version of the account holds an owned copy of.
Owned(s) ==
    UNION {UNION {{i \in DOMAIN v.refs : v.refs[i] = "Complete"} : v \in VersionsOf(s, m)}
             : m \in Msgs}

\* The messages ms with the references in refs, <<message, version id,
\* identity>>, in the given state.
SetRefs(ms, refs, state) ==
    [m \in Msgs |->
        LET vs == ms[m].versions
        IN  [ms[m] EXCEPT !.versions =
               [k \in DOMAIN vs |->
                  [vs[k] EXCEPT !.refs = [i \in DOMAIN vs[k].refs |->
                     IF <<m, vs[k].id, i>> \in refs THEN state ELSE vs[k].refs[i]]]]]]

\* Those of refs whose media the account owns take that copy.
ShareKnownMedia(s, refs) ==
    LET owned == Owned(s)
    IN  [s EXCEPT !.messages = SetRefs(@, {r \in refs : r[3] \in owned}, "Complete")]

\* The body job j was staged for is still there, and in the same words.
JobCurrent(s, j) ==
    /\ \E v \in VersionsOf(s, s.jobs[j].msg) :
         /\ v.id = s.jobs[j].version
         /\ s.jobs[j].identity \in DOMAIN v.refs
         /\ v.refs[s.jobs[j].identity] = "Staged"
         /\ v.revision = s.jobs[j].revision
         /\ v.content = s.jobs[j].content
    /\ s.jobs[j].generation = GenerationFor(s, s.jobs[j].msg)

LeaseCurrent(s, l) ==
    \E v \in VersionsOf(s, s.leases[l].msg) :
      /\ v.id = s.leases[l].version
      /\ \E i \in DOMAIN v.refs :
           v.refs[i] = "Complete" /\ BlobOf[i] = s.leases[l].blob

JobRef(s, j) == <<s.jobs[j].msg, s.jobs[j].version, s.jobs[j].identity>>

IsStagedRef(s, ref) ==
    \E v \in VersionsOf(s, ref[1]) :
      v.id = ref[2] /\ ref[3] \in DOMAIN v.refs /\ v.refs[ref[3]] = "Staged"

Dead(s) == {j \in Jobs : Staged(s, j) /\ ~JobCurrent(s, j)}

ReconcileJobsOnly(s) ==  \* mutant: the reference of a cancelled job stays staged
    [s EXCEPT !.jobs = [j \in Jobs |->
        IF j \in Dead(s) THEN [s.jobs[j] EXCEPT !.state = "Cancelled"] ELSE s.jobs[j]]]

Reconcile(s) ==
    [s EXCEPT
       !.jobs = [j \in Jobs |->
          IF j \in Dead(s) THEN [s.jobs[j] EXCEPT !.state = "Cancelled"] ELSE s.jobs[j]],
       !.messages = SetRefs(@,
          {ref \in {JobRef(s, j) : j \in Dead(s)} : IsStagedRef(s, ref)}, "Missing"),
       !.leases = [l \in Leases |->
          IF s.leases[l] # Nothing /\ ~LeaseCurrent(s, l)
          THEN [s.leases[l] EXCEPT !.revoked = TRUE] ELSE s.leases[l]]]

\* Transaction and CompleteArchiveTransaction.
Commit(s) == db' = Reconcile(s)

---------------------------------------------------------------------------
MakeVersion(e) ==
    [id |-> e.id, revision |-> e.id, order |-> e.order, content |-> e.content,
     open |-> e.open, complete |-> e.complete,
     refs |-> [i \in e.content.media |-> "Missing"]]

\* mutant: an open field may be filled again.
PreservesOpenContent(v, e) ==
    /\ e.open => v.open
    /\ v.open /\ ~e.open => e.content.fill # Empty
    /\ e.content.text = v.content.text
    /\ e.content.media = v.content.media
    /\ v.open \/ e.content.fill = v.content.fill

HydrationPreservesKnownContent(v, e) ==
    /\ e.open => v.open
    /\ v.open /\ ~e.open => e.content.fill # Empty
    /\ e.content.text = v.content.text
    /\ e.content.media = v.content.media
    /\ e.content.fill = v.content.fill \/ (v.open /\ v.content.fill = Empty)

\* The versions a hydration enriches: the one it names, as it was captured.
Hydrated(msg, e) ==
    {k \in DOMAIN msg.versions :
       LET v == msg.versions[k]
       IN  /\ v.id = e.target /\ v.revision = e.revision /\ v.content = e.expected
           /\ HydrationPreservesKnownContent(v, e)
           /\ v.complete => e.complete /\ e.content = v.content}

ReplaceBody(v, e) ==
    [v EXCEPT !.content = e.content, !.open = e.open, !.complete = e.complete]

\* The event names the head as it is now.
TargetsHead(msg, e) ==
    /\ msg.versions # <<>>
    /\ Newest(msg.versions).id = e.target
    /\ Newest(msg.versions).revision = e.revision
    /\ e.origin = "SendMetadata" \/ Newest(msg.versions).content = e.expected

\* A baseline or edit with the body of the head moves the head's revision when
\* it is newer, and may complete it.  At the same order it can not name
\* missing slots: they would be those of another revision.
Advances(msg, e) == e.origin = "AuthoritativeEdit" \/ e.order > msg.order

CanRefreshHead(msg, e) ==
    LET head == Newest(msg.versions)
        open == IF Advances(msg, e) THEN e.open ELSE head.open
    IN  /\ IF Advances(msg, e) THEN ~(head.complete /\ e.open) ELSE ~e.open
        /\ e.complete => ~open

RefreshedAsTargeted(head, msg, e) ==  \* mutant: the revision an event names, not its own
    [head EXCEPT !.revision = IF Advances(msg, e) THEN e.revision ELSE @,
                 !.open = IF Advances(msg, e) THEN e.open ELSE @,
                 !.complete = @ \/ e.complete]

Refreshed(head, msg, e) ==
    [head EXCEPT !.revision = IF Advances(msg, e) THEN e.id ELSE @,
                 !.open = IF Advances(msg, e) THEN e.open ELSE @,
                 !.complete = @ \/ e.complete]

RefreshHead(msg, e) ==
    [msg EXCEPT !.versions[Len(msg.versions)] = Refreshed(@, msg, e)]

\* What e makes of its message, if it is not refused: a set of at most one.
AfterObservation(msg, e) ==
    LET new == [msg EXCEPT !.versions = Append(@, MakeVersion(e))]
        same == msg.versions # <<>> /\ Newest(msg.versions).content = e.content
        taken ==
          IF msg.versions = <<>> THEN {new}
          ELSE IF same THEN {x \in {RefreshHead(msg, e)} : CanRefreshHead(msg, e)}
          ELSE IF e.origin = "AuthoritativeEdit" THEN {new}
          ELSE {x \in {new} : TargetsHead(msg, e) /\ e.order > msg.order}
    IN  {[x EXCEPT !.order = e.order] : x \in taken}

Newer(msg, e) ==
    IF e.origin = "Baseline" THEN e.order >= msg.order ELSE e.order > msg.order

AfterEvent(msg, e) ==
    CASE e.origin = "Hydration" ->
           {[msg EXCEPT !.versions[k] = ReplaceBody(@, e)] : k \in Hydrated(msg, e)}
      [] e.origin = "SendMetadata" -> {x \in {msg} : TargetsHead(msg, e)}
      [] e.origin \in Deletions ->
           {x \in {[msg EXCEPT !.deleted = TRUE, !.order = e.order]} :
              Newer(msg, e) /\ (e.target # Nothing => TargetsHead(msg, e))}
      [] OTHER ->
           {x \in AfterObservation(msg, e) : Newer(msg, e) /\ ~msg.purged}

\* PlanArchiveEvent.
Deliver(e) ==
    /\ e.id \notin db.messages[e.msg].receipts
    /\ \E msg \in AfterEvent(db.messages[e.msg], e) :
         LET next == [db EXCEPT !.messages[e.msg] = [msg EXCEPT !.receipts = @ \cup {e.id}]]
         IN  Commit(ShareKnownMedia(next, {e.msg} \X Ids \X Identities))
    /\ UNCHANGED <<files, published, erased>>

---------------------------------------------------------------------------
InScope(scope, m) == scope = Account \/ ChatOf[m] \in scope

\* What a purge of this kind leaves of a message in scope.
Kept(kind, msg) ==
    CASE kind = "Trashbin" /\ msg.deleted -> [msg EXCEPT !.versions = <<>>, !.purged = TRUE]
      [] kind = "EditHistory" /\ msg.versions # <<>> ->
           [msg EXCEPT !.versions = <<Newest(@)>>]
      [] OTHER -> msg

\* The versions it keeps take the owned copies of those it removes.
Survives(kind, msg, v) ==
    IF kind = "EditHistory" THEN v.id = Newest(msg.versions).id ELSE ~msg.deleted

BumpGenerations(s, scope) ==
    IF scope = Account THEN [s EXCEPT !.account = @ + 1]
    ELSE [s EXCEPT !.chats = [c \in Chats |-> IF c \in scope THEN @[c] + 1 ELSE @[c]]]

KeepCopies(s, kind, scope) ==
    ShareKnownMedia(s, {r \in Msgs \X Ids \X Identities :
        /\ InScope(scope, r[1])
        /\ \E v \in VersionsOf(s, r[1]) :
             v.id = r[2] /\ Survives(kind, s.messages[r[1]], v)})

Erase(s, kind, scope) ==
    [s EXCEPT
       !.messages = [m \in Msgs |-> IF InScope(scope, m) THEN Kept(kind, @[m]) ELSE @[m]],
       !.leases = [l \in Leases |->
          IF s.leases[l] # Nothing /\ InScope(scope, s.leases[l].msg)
          THEN [s.leases[l] EXCEPT !.revoked = TRUE] ELSE s.leases[l]]]

\* mutant: the copies of the versions removed go with them.
PurgedWithCopies(s, kind, scope) == Erase(BumpGenerations(s, scope), kind, scope)

\* mutant: nothing is left of a purged message.
PurgedForgotten(s, kind, scope) ==
    LET done == Erase(BumpGenerations(KeepCopies(s, kind, scope), scope), kind, scope)
    IN  [done EXCEPT !.messages = [m \in Msgs |->
           IF @[m].purged THEN Fresh.messages[m] ELSE @[m]]]

Purged(s, kind, scope) ==
    Erase(BumpGenerations(KeepCopies(s, kind, scope), scope), kind, scope)

Removed(kind, scope) ==
    {mv \in Msgs \X Ids :
       LET msg == db.messages[mv[1]]
       IN  /\ InScope(scope, mv[1])
           /\ \E v \in VersionsOf(db, mv[1]) : v.id = mv[2]
           /\ ~\E k \in DOMAIN Kept(kind, msg).versions : Kept(kind, msg).versions[k].id = mv[2]}

\* PlanArchivePurge.
Purge(kind, scope) ==
    /\ \A c \in Chats :
         scope = Account \/ c \in scope => db.account + db.chats[c] < MaxPurges
    /\ Commit(Purged(db, kind, scope))
    /\ erased' = erased \cup Removed(kind, scope)
    /\ UNCHANGED <<files, published>>

---------------------------------------------------------------------------
\* PlanArchiveMediaStage.  A copy the account owns is attached at once, to a
\* reference that another job stages too; otherwise job j stages the reference.
Stage(j, m, v, i) ==
    /\ db.jobs[j] = Nothing
    /\ v \in VersionsOf(db, m)
    /\ i \in DOMAIN v.refs
    /\ LET ref == <<m, v.id, i>>
           job == [state |-> "Staged", msg |-> m, version |-> v.id, identity |-> i,
                   revision |-> v.revision, content |-> v.content,
                   generation |-> GenerationFor(db, m)]
       IN  \/ /\ i \in Owned(db)
              /\ Commit(ShareKnownMedia(db, {ref}))
           \/ /\ i \notin Owned(db) /\ v.refs[i] # "Staged"
              /\ Commit([db EXCEPT !.jobs[j] = job,
                                   !.messages = SetRefs(@, {ref}, "Staged")])
    /\ UNCHANGED <<files, published, erased>>

BlobFor(j) == BlobOf[db.jobs[j].identity]

\* The client copies and verifies the bytes and puts them on disk, unless an
\* older copy waits for its deletion.
Publish(j) ==
    /\ Staged(db, j)
    /\ j \notin published
    /\ db.blobs[BlobFor(j)] # "GarbagePending"
    /\ files' = files \cup {BlobFor(j)}
    /\ published' = published \cup {j}
    /\ UNCHANGED <<db, erased>>

\* State s after job j ended, with its reference.
Ended(s, j, state) ==
    [s EXCEPT
       !.jobs[j].state = state,
       !.messages = SetRefs(@, {JobRef(s, j)}, state)]

\* mutant: bytes whose old row is pending deletion are taken.
TakesPendingBlob(s, j) == TRUE

\* A row that waits for deletion takes no new reference.
MayOwn(s, j) == s.blobs[BlobOf[s.jobs[j].identity]] # "GarbagePending"

\* PlanArchiveMediaCompletion.
Complete(j) ==
    /\ Staged(db, j)
    /\ JobCurrent(db, j)
    /\ j \in published
    /\ MayOwn(db, j)
    /\ Commit([Ended(db, j, "Complete") EXCEPT
                !.blobs[BlobFor(j)] = IF @ = "None" THEN "Complete" ELSE @])
    /\ published' = published \ {j}
    /\ UNCHANGED <<files, erased>>

Fail(j) ==
    /\ Staged(db, j)
    /\ JobCurrent(db, j)
    /\ Commit(Ended(db, j, "Failed"))
    /\ published' = published \ {j}
    /\ UNCHANGED <<files, erased>>

---------------------------------------------------------------------------
\* PlanArchiveReaderAcquire.
Acquire(l, m, v, i) ==
    /\ db.leases[l] = Nothing
    /\ v \in VersionsOf(db, m)
    /\ i \in DOMAIN v.refs
    /\ v.refs[i] = "Complete"
    /\ Commit([db EXCEPT !.leases[l] =
         [msg |-> m, version |-> v.id, blob |-> BlobOf[i], revoked |-> FALSE,
          generation |-> GenerationFor(db, m)]])
    /\ UNCHANGED <<files, published, erased>>

\* PlanArchiveReaderRelease: the reader has closed, or its session is dead.
Release(l) ==
    /\ db.leases[l] # Nothing
    /\ Commit([db EXCEPT !.leases[l] = Nothing])
    /\ UNCHANGED <<files, published, erased>>

\* CountArchiveBlobReferences is not zero.  A revoked lease counts.
Referenced(s, b) ==
    \/ \E i \in Owned(s) : BlobOf[i] = b
    \/ \E l \in Leases : s.leases[l] # Nothing /\ s.leases[l].blob = b

Garbage(s) == {b \in Blobs : s.blobs[b] # "None" /\ ~Referenced(s, b)}

\* PlanArchiveGarbageCollection.
MarkGarbage ==
    /\ Commit([db EXCEPT !.blobs = [b \in Blobs |->
                 IF b \in Garbage(db) THEN "GarbagePending" ELSE @[b]]])
    /\ UNCHANGED <<files, published, erased>>

\* The client deletes the bytes of a pending blob.  It does so on the queue
\* that publishes: a session that had put the same bytes there must do so again.
DeleteFile(b) ==
    /\ db.blobs[b] = "GarbagePending"
    /\ files' = files \ {b}
    /\ published' = {j \in published : BlobFor(j) # b}
    /\ UNCHANGED <<db, erased>>

\* CompleteArchiveGarbageCollection, for a blob that is gone.
ForgetBlob(b) ==
    /\ db.blobs[b] = "GarbagePending"
    /\ b \notin files
    /\ ~Referenced(db, b)
    /\ Commit([db EXCEPT !.blobs[b] = "None"])
    /\ UNCHANGED <<files, published, erased>>

\* A restart: the sessions and what they put on disk are forgotten.
Crash ==
    /\ published # {}
    /\ published' = {}
    /\ UNCHANGED <<db, files, erased>>

Next ==
    \/ \E e \in Events : Deliver(e)
    \/ \E kind \in {"Trashbin", "EditHistory"}, scope \in Scopes : Purge(kind, scope)
    \/ \E j \in Jobs, m \in Msgs, i \in Identities :
         \E v \in VersionsOf(db, m) : Stage(j, m, v, i)
    \/ \E j \in Jobs : Publish(j) \/ Complete(j) \/ Fail(j)
    \/ \E l \in Leases, m \in Msgs, i \in Identities :
         \E v \in VersionsOf(db, m) : Acquire(l, m, v, i)
    \/ \E l \in Leases : Release(l)
    \/ MarkGarbage
    \/ \E b \in Blobs : DeleteFile(b) \/ ForgetBlob(b)
    \/ Crash

Spec == Init /\ [][Next]_vars

---------------------------------------------------------------------------
\* Types.  Purged bytes of old jobs included.
TypeOK ==
    /\ db \in ArchiveState
    /\ files \subseteq Blobs
    /\ published \subseteq Jobs
    /\ erased \subseteq Msgs \X Ids

\* The jobs that stage a reference.
JobsOf(ref) == {j \in Jobs : Staged(db, j) /\ JobRef(db, j) = ref}

MessageValid(m) ==
    LET msg == db.messages[m]
        vs == msg.versions
    IN  /\ msg.purged => vs = <<>> /\ msg.deleted
        /\ \A k \in DOMAIN vs :
             /\ \A n \in 1..(k - 1) : vs[n].order < vs[k].order /\ vs[n].id # vs[k].id
             /\ vs[k].order <= msg.order
             /\ vs[k].open => ~vs[k].complete
             /\ {vs[k].id, vs[k].revision} \subseteq msg.receipts
             /\ DOMAIN vs[k].refs = vs[k].content.media
             /\ \A i \in DOMAIN vs[k].refs :
                  /\ vs[k].refs[i] = "Complete" => db.blobs[BlobOf[i]] = "Complete"
                  /\ vs[k].refs[i] = "Staged" =>
                       Cardinality(JobsOf(<<m, vs[k].id, i>>)) = 1

\* Every plan a reducer makes from a state it can be in is a state the store
\* accepts (IsArchiveState): no event, purge, completion or collection is ever
\* refused as Invalid because an earlier one left references, jobs, leases and
\* rows in disagreement, which would leave the archive stuck.
StateValid ==
    /\ \A m \in Msgs : MessageValid(m)
    /\ \A j \in Jobs : Staged(db, j) => JobCurrent(db, j)
    /\ \A l \in Leases : db.leases[l] # Nothing =>
         /\ db.blobs[db.leases[l].blob] = "Complete"
         /\ ~db.leases[l].revoked =>
              /\ LeaseCurrent(db, l)
              /\ db.leases[l].generation = GenerationFor(db, db.leases[l].msg)

\* What the archive says it owns, and what a reader has open, is on disk:
\* neither collection, a crash between its steps, sharing nor a completion
\* that waits while the same bytes are collected takes it away.
OwnedBytesOnDisk ==
    \A b \in Blobs : Referenced(db, b) => b \in files

\* A body a purge has removed does not come back, whatever is delivered again
\* or late afterwards.
ErasedNeverReturns ==
    \A m \in Msgs : \A v \in VersionsOf(db, m) : <<m, v.id>> \notin erased

\* As long as a version is kept its words, its media and the fields that were
\* captured stay as they are, and it does not become less complete: two
\* captures of one body, an edit between them or late ones do not rewrite it.
BodiesOnlyGain ==
    [][\A m \in Msgs : \A v \in VersionsOf(db, m) : \A w \in VersionsOf(db', m) :
         v.id = w.id =>
           /\ w.content.text = v.content.text
           /\ w.content.media = v.content.media
           /\ v.content.fill # Empty => w.content.fill = v.content.fill
           /\ v.complete => w.complete /\ w.content = v.content]_vars

\* No step takes the owned copy from a body that stays, and emptying the edit
\* history or the trash bin keeps the bytes of what it removes for the bodies
\* in its scope that stay and lack them.
CopiesKept ==
    [][\A m \in Msgs : \A v \in VersionsOf(db, m) : \A w \in VersionsOf(db', m) :
         v.id = w.id => \A i \in DOMAIN v.refs :
           (\/ v.refs[i] = "Complete"
            \/ i \in Owned(db) /\ GenerationFor(db, m) # GenerationFor(db, m)')
             => w.refs[i] = "Complete"]_vars
=============================================================================
