---------------------- MODULE ArchiveSqlPurgeProofs ----------------------
(***************************************************************************)
(* ArchiveSqlPurge implements ArchiveStore: a purge cut into pages is one  *)
(* step of the archive as its users see it (Seen).                         *)
(*                                                                         *)
(* While the archive is open Seen is the archive itself, and a step is     *)
(* the same action of the store.  A purge that begins is the whole of      *)
(* PlanArchivePurge for Seen.  What follows must not change Seen: every    *)
(* message of the scope ends as Final, a function of its bodies and of     *)
(* what is owned, and neither a page of versions, which takes copies of    *)
(* what is owned, nor one of messages, which removes bodies whose copies   *)
(* have been taken, changes that.  The invariant (Underway) says what the  *)
(* phases before have done, which is why rows removed late hold nothing    *)
(* that is still wanted and why nothing is left to do when it finishes.    *)
(***************************************************************************)
EXTENDS ArchiveSqlPurge, ArchiveStoreProofs

---------------------------------------------------------------------------
(* While the archive is open it is the store.                              *)

\* Reading, and setting, references of the instance.
LEMMA SameReads ==
  /\ \A s, m : Store!VersionsOf(s, m) = VersionsOf(s, m)
  /\ \A s, m : Store!GenerationFor(s, m) = GenerationFor(s, m)
  /\ \A s : Store!Owned(s) = Owned(s)
  /\ \A s, j : Store!Staged(s, j) = Staged(s, j)
  /\ \A s, j : Store!JobRef(s, j) = JobRef(s, j)
  /\ \A ms, refs, state : Store!SetRefs(ms, refs, state) = SetRefs(ms, refs, state)
  /\ \A vs : Store!Newest(vs) = Newest(vs)
BY DEF VersionsOf, Store!VersionsOf, GenerationFor, Store!GenerationFor, Owned, Store!Owned,
   Staged, Store!Staged, JobRef, Store!JobRef, SetRefs, Store!SetRefs, Newest, Store!Newest

\* The operators of the instance that take the state as a parameter.
LEMMA SameReconcile ==
  ASSUME NEW s
  PROVE  Store!Reconcile(s) = Reconcile(s)
<1>1. \A j : Store!JobCurrent(s, j) = JobCurrent(s, j)
  BY SameReads DEF JobCurrent, Store!JobCurrent
<1>2. Store!Dead(s) = Dead(s)
  BY <1>1, SameReads DEF Dead, Store!Dead
<1>3. /\ \A ref : Store!IsStagedRef(s, ref) = IsStagedRef(s, ref)
      /\ \A l : Store!LeaseCurrent(s, l) = LeaseCurrent(s, l)
  BY SameReads DEF IsStagedRef, Store!IsStagedRef, LeaseCurrent, Store!LeaseCurrent
<1> QED
  BY <1>2, <1>3, SameReads DEF Reconcile, Store!Reconcile

\* Sharing copies is the same in the instance.
LEMMA SameShare ==
  ASSUME NEW s, NEW refs
  PROVE  Store!ShareKnownMedia(s, refs) = ShareKnownMedia(s, refs)
BY SameReads DEF ShareKnownMedia, Store!ShareKnownMedia

\* An event does the same to a message in the instance.
LEMMA SameEvents ==
  ASSUME NEW msg, NEW e
  PROVE  Store!AfterEvent(msg, e) = AfterEvent(msg, e)
<1>1. Store!Hydrated(msg, e) = Hydrated(msg, e)
  BY DEF Hydrated, Store!Hydrated, HydrationPreservesKnownContent, Store!HydrationPreservesKnownContent
<1>2. \A v : Store!ReplaceBody(v, e) = ReplaceBody(v, e)
  BY DEF ReplaceBody, Store!ReplaceBody
<1>3. Store!TargetsHead(msg, e) = TargetsHead(msg, e)
  BY SameReads DEF TargetsHead, Store!TargetsHead
<1>4. Store!RefreshHead(msg, e) = RefreshHead(msg, e)
  BY DEF RefreshHead, Store!RefreshHead, Refreshed, Store!Refreshed, Advances, Store!Advances
<1>5. Store!CanRefreshHead(msg, e) = CanRefreshHead(msg, e)
  BY SameReads DEF CanRefreshHead, Store!CanRefreshHead, Advances, Store!Advances
<1>6. Store!AfterObservation(msg, e) = AfterObservation(msg, e)
  BY <1>3, <1>4, <1>5, SameReads DEF AfterObservation, Store!AfterObservation, MakeVersion,
     Store!MakeVersion
<1>7. Store!Newer(msg, e) = Newer(msg, e)
  BY DEF Newer, Store!Newer
<1> QED
  BY <1>1, <1>2, <1>3, <1>6, <1>7 DEF AfterEvent, Store!AfterEvent, Store!Deletions, Deletions

\* An event is delivered as in the store.
LEMMA OpenDeliver ==
  ASSUME Seen = db, Seen' = db', NEW e \in Events, Deliver(e)
  PROVE  Store!Deliver(e)
BY SameEvents, SameShare, SameReconcile DEF Deliver, Store!Deliver, Commit, Store!Commit, Store!Ids, Ids

\* A reference is staged as in the store.
LEMMA OpenStage ==
  ASSUME Seen = db, Seen' = db', NEW j \in Jobs, NEW m \in Msgs, NEW i \in Identities,
         NEW v \in VersionsOf(db, m), Stage(j, m, v, i)
  PROVE  Store!Stage(j, m, v, i)
BY SameReads, SameShare, SameReconcile DEF Stage, Store!Stage, Commit, Store!Commit

\* A job is published, completed and failed as in the store.
LEMMA OpenJobs ==
  ASSUME Seen = db, Seen' = db', NEW j \in Jobs
  PROVE  /\ Publish(j) => Store!Publish(j)
         /\ Complete(j) => Store!Complete(j)
         /\ Fail(j) => Store!Fail(j)
<1>1. Store!BlobFor(j) = BlobFor(j)
  BY DEF Store!BlobFor, BlobFor
<1>2. \A s : Store!JobCurrent(s, j) = JobCurrent(s, j)
  BY SameReads DEF JobCurrent, Store!JobCurrent
<1>3. \A s, state : Store!Ended(s, j, state) = Ended(s, j, state)
  BY SameReads DEF Ended, Store!Ended
<1> QED
  BY <1>1, <1>2, <1>3, SameReads, SameReconcile DEF Publish, Store!Publish, Complete, Store!Complete,
     Fail, Store!Fail, MayOwn, Store!MayOwn, Commit, Store!Commit

\* A reader acquires and releases as in the store.
LEMMA OpenLeases ==
  ASSUME Seen = db, Seen' = db', NEW l \in Leases
  PROVE  /\ Release(l) => Store!Release(l)
         /\ \A m \in Msgs, i \in Identities : \A v :
              Acquire(l, m, v, i) => Store!Acquire(l, m, v, i)
BY SameReads, SameReconcile DEF Release, Store!Release, Acquire, Store!Acquire, Commit, Store!Commit

\* Rows are marked and forgotten as in the store.
LEMMA OpenRows ==
  ASSUME Seen = db, Seen' = db'
  PROVE  /\ MarkGarbage => Store!MarkGarbage
         /\ \A b \in Blobs : ForgetBlob(b) => Store!ForgetBlob(b)
<1>1. \A s, b : Store!Referenced(s, b) = Referenced(s, b)
  BY SameReads DEF Store!Referenced, Referenced
<1>2. Store!Garbage(db) = Garbage(db)
  BY <1>1 DEF Store!Garbage, Garbage
<1> QED
  BY <1>1, <1>2, SameReconcile DEF MarkGarbage, Store!MarkGarbage, ForgetBlob, Store!ForgetBlob,
     Commit, Store!Commit

\* While the archive is open every step is one of the store.
LEMMA OpenStep ==
  WhileOpen => Store!Next
<1> SUFFICES ASSUME WhileOpen PROVE Store!Next
  OBVIOUS
<1>1. Seen = db /\ Seen' = db'
  BY DEF WhileOpen, Seen
<1>2. CASE \E e \in Events : Deliver(e)
  BY <1>1, <1>2, OpenDeliver DEF Store!Next
<1>3. CASE \E j \in Jobs, m \in Msgs, i \in Identities :
             \E v \in VersionsOf(db, m) : Stage(j, m, v, i)
  BY <1>1, <1>3, OpenStage, SameReads DEF Store!Next
<1>4. CASE \E j \in Jobs : Publish(j) \/ Complete(j) \/ Fail(j)
  BY <1>1, <1>4, OpenJobs DEF Store!Next
<1>5. CASE \E l \in Leases, m \in Msgs, i \in Identities :
             \E v \in VersionsOf(db, m) : Acquire(l, m, v, i)
  BY <1>1, <1>5, OpenLeases, SameReads DEF Store!Next
<1>6. CASE \E l \in Leases : Release(l)
  BY <1>1, <1>6, OpenLeases DEF Store!Next
<1>7. CASE MarkGarbage \/ \E b \in Blobs : ForgetBlob(b)
  BY <1>1, <1>7, OpenRows DEF Store!Next
<1> QED
  BY <1>2, <1>3, <1>4, <1>5, <1>6, <1>7 DEF WhileOpen
---------------------------------------------------------------------------
(* What a purge leaves, seen from a state on its way.                      *)

\* Equal messages are those that agree in every reference.
LEMMA AlikeEqual ==
  ASSUME NEW x \in Message, NEW y \in Message, MessageAlike(x, y),
         \A k \in DOMAIN x.versions : \A i \in DOMAIN x.versions[k].refs :
           y.versions[k].refs[i] = x.versions[k].refs[i]
  PROVE  x = y
<1>1. ASSUME NEW k \in DOMAIN x.versions PROVE x.versions[k] = y.versions[k]
  <2>1. /\ x.versions[k] \in Version /\ y.versions[k] \in Version
        /\ Alike(x.versions[k], y.versions[k])
    BY <1>1, MessageFields DEF MessageAlike
  <2>2. x.versions[k].refs = y.versions[k].refs
    <3>1. /\ x.versions[k].refs \in [DOMAIN x.versions[k].refs -> RefStates]
          /\ y.versions[k].refs \in [DOMAIN x.versions[k].refs -> RefStates]
      BY <2>1, VersionFields DEF Alike
    <3> QED
      BY <1>1, <3>1
  <2> QED
    BY <2>1, <2>2, VersionFields DEF Alike
<1>2. x.versions = y.versions
  <2>1. /\ x.versions \in Seq(Version) /\ y.versions \in Seq(Version)
        /\ DOMAIN x.versions = 1..Len(x.versions) /\ DOMAIN y.versions = 1..Len(y.versions)
        /\ Len(x.versions) \in Nat /\ Len(y.versions) \in Nat
        /\ DOMAIN x.versions = DOMAIN y.versions
    BY MessageFields DEF MessageAlike
  <2> QED
    BY <1>1, <2>1
<1> QED
  BY <1>2 DEF MessageAlike, Message

\* A body that stays takes the copies that are owned and gives up what it waits for.
Given(s, v) ==
    [v EXCEPT !.refs = [i \in DOMAIN v.refs |->
       IF v.refs[i] = "Complete" \/ i \in Owned(s) THEN "Complete"
       ELSE IF v.refs[i] = "Staged" THEN "Missing" ELSE v.refs[i]]]

\* What is left of a message in scope.
Final(s, kind, msg) ==
    [Kept(kind, msg) EXCEPT !.versions = [k \in DOMAIN @ |-> Given(s, @[k])]]

\* Giving a version the copies that are owned changes its references only.
LEMMA GivenFacts ==
  ASSUME NEW s, NEW v \in Version
  PROVE  /\ Given(s, v) \in Version /\ Alike(v, Given(s, v))
         /\ \A i \in DOMAIN v.refs : Given(s, v).refs[i] =
              IF v.refs[i] = "Complete" \/ i \in Owned(s) THEN "Complete"
              ELSE IF v.refs[i] = "Staged" THEN "Missing" ELSE v.refs[i]
<1> DEFINE r == [i \in DOMAIN v.refs |->
                   IF v.refs[i] = "Complete" \/ i \in Owned(s) THEN "Complete"
                   ELSE IF v.refs[i] = "Staged" THEN "Missing" ELSE v.refs[i]]
           w == Given(s, v)
<1>1. DOMAIN v.refs \in SUBSET Identities /\ v.refs \in [DOMAIN v.refs -> RefStates]
  BY VersionFields
<1>2. DOMAIN r = DOMAIN v.refs /\ r \in [DOMAIN v.refs -> RefStates]
  BY <1>1 DEF RefStates
<1>3. r \in UNION {[i -> RefStates] : i \in SUBSET Identities}
  BY <1>1, <1>2
<1>4. w = [v EXCEPT !.refs = r]
  BY DEF Given
<1>5. \A i \in DOMAIN v.refs : r[i] =
         IF v.refs[i] = "Complete" \/ i \in Owned(s) THEN "Complete"
         ELSE IF v.refs[i] = "Staged" THEN "Missing" ELSE v.refs[i]
  OBVIOUS
<1> HIDE DEF r, w
<1>6. w \in Version /\ w.refs = r /\ Alike(v, w)
  BY <1>2, <1>3, <1>4 DEF Version, Alike
<1> QED
  BY <1>5, <1>6 DEF w

\* Other versions in the places of those of a message.
LEMMA VersionsMapped ==
  ASSUME NEW msg \in Message, NEW g \in [DOMAIN msg.versions -> Version], NEW x,
         x = [msg EXCEPT !.versions = g]
  PROVE  /\ x \in Message /\ DOMAIN x.versions = DOMAIN msg.versions
         /\ \A k \in DOMAIN msg.versions : x.versions[k] = g[k]
         /\ x.deleted = msg.deleted /\ x.purged = msg.purged
         /\ x.order = msg.order /\ x.receipts = msg.receipts
<1>1. g \in Seq(Version)
  <2>1. DOMAIN msg.versions = 1..Len(msg.versions) /\ Len(msg.versions) \in Nat
    BY MessageFields
  <2> QED
    BY <2>1
<1> QED
  BY <1>1 DEF Message

\* What a message of the scope ends as differs from what is kept of it in

\* references only.
LEMMA FinalFacts ==
  ASSUME NEW s, NEW msg \in Message, BodyValid(msg), NEW kind
  PROVE  /\ Final(s, kind, msg) \in Message
         /\ MessageAlike(Kept(kind, msg), Final(s, kind, msg))
         /\ \A k \in DOMAIN Kept(kind, msg).versions :
              Final(s, kind, msg).versions[k] = Given(s, Kept(kind, msg).versions[k])
<1> DEFINE x == Kept(kind, msg)
           y == Final(s, kind, msg)
           g == [k \in DOMAIN x.versions |-> Given(s, x.versions[k])]
<1>1. x \in Message
  BY KeptFacts
<1>2. y = [x EXCEPT !.versions = g]
  BY DEF Final
<1>3. \A k \in DOMAIN x.versions : g[k] = Given(s, x.versions[k])
  OBVIOUS
<1>4. \A k \in DOMAIN x.versions :
         Given(s, x.versions[k]) \in Version /\ Alike(x.versions[k], Given(s, x.versions[k]))
  <2> HIDE DEF x
  <2> QED
    BY <1>1, MessageFields, GivenFacts
<1>5. g \in [DOMAIN x.versions -> Version]
  BY <1>4
<1> HIDE DEF x, y, g
<1>6. /\ y \in Message /\ DOMAIN y.versions = DOMAIN x.versions
      /\ \A k \in DOMAIN x.versions : y.versions[k] = g[k]
      /\ y.deleted = x.deleted /\ y.purged = x.purged
      /\ y.order = x.order /\ y.receipts = x.receipts
  BY <1>1, <1>2, <1>5, VersionsMapped
<1>7. MessageAlike(x, y) /\ \A k \in DOMAIN x.versions : y.versions[k] = Given(s, x.versions[k])
  BY <1>3, <1>4, <1>6 DEF MessageAlike
<1> QED
  BY <1>6, <1>7 DEF x, y

Kinds == {"Trashbin", "EditHistory"}

\* The references a purge gives copies to.
Sharing(s, kind, scope) ==
    {r \in Msgs \X Ids \X Identities :
        /\ InScope(scope, r[1])
        /\ \E v \in VersionsOf(s, r[1]) :
             v.id = r[2] /\ Survives(kind, s.messages[r[1]], v)}

\* Keeping copies gives them to the bodies that survive, and changes nothing else.
LEMMA CopiesFacts ==
  ASSUME NEW s \in ArchiveState, BodiesValid(s), NEW kind \in Kinds, NEW scope, NEW t,
         t = KeepCopies(s, kind, scope)
  PROVE  /\ t \in ArchiveState /\ BodiesValid(t) /\ SameBodies(s.messages, t.messages)
         /\ t.jobs = s.jobs /\ t.leases = s.leases /\ t.blobs = s.blobs
         /\ t.account = s.account /\ t.chats = s.chats
         /\ \A m \in Msgs : ~InScope(scope, m) => t.messages[m] = s.messages[m]
         /\ \A m \in Msgs : InScope(scope, m) =>
              \A k \in DOMAIN s.messages[m].versions :
                \A i \in DOMAIN s.messages[m].versions[k].refs :
                  t.messages[m].versions[k].refs[i] =
                    IF /\ Survives(kind, s.messages[m], s.messages[m].versions[k])
                       /\ i \in Owned(s)
                    THEN "Complete" ELSE s.messages[m].versions[k].refs[i]
<1> DEFINE refs == Sharing(s, kind, scope)
           shared == {r \in refs : r[3] \in Owned(s)}
<1>1. t = ShareKnownMedia(s, refs)
  BY DEF KeepCopies, Sharing
<1>2. /\ t \in ArchiveState /\ SameBodies(s.messages, t.messages)
      /\ t.messages = SetRefs(s.messages, shared, "Complete")
      /\ t.jobs = s.jobs /\ t.leases = s.leases /\ t.blobs = s.blobs
      /\ t.account = s.account /\ t.chats = s.chats
  <2> HIDE DEF refs
  <2>1. PICK u : u = ShareKnownMedia(s, refs)
    OBVIOUS
  <2>2. /\ u \in ArchiveState /\ SameBodies(s.messages, u.messages)
        /\ u.messages = SetRefs(s.messages, shared, "Complete")
        /\ u.jobs = s.jobs /\ u.leases = s.leases /\ u.blobs = s.blobs
        /\ u.account = s.account /\ u.chats = s.chats
    BY <2>1, ShareFacts, Zenon
  <2>3. u = t
    BY <1>1, <2>1
  <2> HIDE DEF shared
  <2> QED
    BY <2>2, <2>3
<1>3. BodiesValid(t)
  BY <1>2, SameBodiesValid
<1>4. ASSUME NEW m \in Msgs, NEW k \in DOMAIN s.messages[m].versions,
             NEW i \in DOMAIN s.messages[m].versions[k].refs
      PROVE  t.messages[m].versions[k].refs[i] =
               IF <<m, s.messages[m].versions[k].id, i>> \in shared THEN "Complete"
               ELSE s.messages[m].versions[k].refs[i]
  <2>1. s.messages \in [Msgs -> Message] /\ "Complete" \in RefStates
    BY StateFields DEF RefStates
  <2> HIDE DEF shared
  <2> QED
    BY <1>2, <1>4, <2>1, SetRefsFacts
<1>5. ASSUME NEW m \in Msgs, NEW k \in DOMAIN s.messages[m].versions,
             NEW i \in DOMAIN s.messages[m].versions[k].refs
      PROVE  <<m, s.messages[m].versions[k].id, i>> \in shared <=>
               /\ InScope(scope, m) /\ i \in Owned(s)
               /\ Survives(kind, s.messages[m], s.messages[m].versions[k])
  <2>1. PICK v : v = s.messages[m].versions[k]
    OBVIOUS
  <2>2. v.id \in Ids /\ i \in Identities /\ v \in VersionsOf(s, m)
    BY <1>5, <2>1, StateFields, MessageFields, VersionFields DEF VersionsOf
  <2>3. \A w : w.id = v.id =>
          (Survives(kind, s.messages[m], w) <=> Survives(kind, s.messages[m], v))
    BY DEF Survives
  <2> QED
    BY <2>1, <2>2, <2>3 DEF Sharing
<1>6. ASSUME NEW m \in Msgs, ~InScope(scope, m) PROVE t.messages[m] = s.messages[m]
  <2>1. /\ s.messages[m] \in Message /\ t.messages[m] \in Message
        /\ MessageAlike(s.messages[m], t.messages[m])
    BY <1>2, StateFields DEF SameBodies
  <2>2. ASSUME NEW k \in DOMAIN s.messages[m].versions,
               NEW i \in DOMAIN s.messages[m].versions[k].refs
        PROVE  t.messages[m].versions[k].refs[i] = s.messages[m].versions[k].refs[i]
    <3>1. <<m, s.messages[m].versions[k].id, i>> \notin shared
      BY <1>5, <1>6, <2>2
    <3> HIDE DEF shared
    <3> QED
      BY <1>4, <2>2, <3>1
  <2>3. PICK x, y : x = s.messages[m] /\ y = t.messages[m]
    OBVIOUS
  <2>4. x = y
    BY <2>1, <2>2, <2>3, AlikeEqual
  <2> QED
    BY <2>3, <2>4
<1> HIDE DEF shared, refs
<1>7. ASSUME NEW m \in Msgs, InScope(scope, m), NEW k \in DOMAIN s.messages[m].versions,
             NEW i \in DOMAIN s.messages[m].versions[k].refs
      PROVE  t.messages[m].versions[k].refs[i] =
               IF /\ Survives(kind, s.messages[m], s.messages[m].versions[k])
                  /\ i \in Owned(s)
               THEN "Complete" ELSE s.messages[m].versions[k].refs[i]
  <2>1. PICK in : in = <<m, s.messages[m].versions[k].id, i>>
    OBVIOUS
  <2>2. in \in shared <=> /\ i \in Owned(s)
                          /\ Survives(kind, s.messages[m], s.messages[m].versions[k])
    BY <1>5, <1>7, <2>1
  <2>3. t.messages[m].versions[k].refs[i] =
          IF in \in shared THEN "Complete" ELSE s.messages[m].versions[k].refs[i]
    BY <1>4, <1>7, <2>1
  <2> QED
    BY <2>2, <2>3
<1> QED
  BY <1>2, <1>3, <1>6, <1>7

\* What is kept of two messages that differ in references, version by version.
LEMMA KeptAt ==
  ASSUME NEW x \in Message, NEW y \in Message, MessageAlike(x, y), NEW kind \in Kinds
  PROVE  /\ MessageAlike(Kept(kind, x), Kept(kind, y))
         /\ \A k \in DOMAIN Kept(kind, x).versions : \E n \in DOMAIN x.versions :
              /\ Kept(kind, x).versions[k] = x.versions[n]
              /\ Kept(kind, y).versions[k] = y.versions[n]
              /\ Survives(kind, x, x.versions[n])
<1>1. /\ DOMAIN x.versions = 1..Len(x.versions) /\ Len(x.versions) \in Nat
      /\ DOMAIN y.versions = 1..Len(y.versions) /\ Len(y.versions) \in Nat
      /\ (x.versions = <<>> <=> Len(x.versions) = 0)
      /\ (y.versions = <<>> <=> Len(y.versions) = 0)
  BY MessageFields
<1>2. Len(x.versions) = Len(y.versions) /\ x.deleted = y.deleted
  BY <1>1 DEF MessageAlike
<1>3. CASE kind = "Trashbin" /\ x.deleted
  <2>1. /\ Kept(kind, x) = [x EXCEPT !.versions = <<>>, !.purged = TRUE]
        /\ Kept(kind, y) = [y EXCEPT !.versions = <<>>, !.purged = TRUE]
    BY <1>2, <1>3 DEF Kept
  <2>2. PICK a, b : a = Kept(kind, x) /\ b = Kept(kind, y)
    OBVIOUS
  <2>3. /\ a.versions = <<>> /\ b.versions = <<>> /\ a.purged = b.purged
        /\ a.deleted = b.deleted /\ a.order = b.order /\ a.receipts = b.receipts
    BY <2>1, <2>2 DEF Message, MessageAlike
  <2>4. DOMAIN a.versions = {}
    BY <2>3
  <2> QED
    BY <2>2, <2>3, <2>4 DEF MessageAlike
<1>4. CASE kind = "EditHistory" /\ x.versions # <<>>
  <2>1. PICK n : n = Len(x.versions)
    OBVIOUS
  <2>2. n \in DOMAIN x.versions /\ n \in DOMAIN y.versions
    BY <1>1, <1>2, <1>4, <2>1
  <2>3. /\ Kept(kind, x) = [x EXCEPT !.versions = <<x.versions[n]>>]
        /\ Kept(kind, y) = [y EXCEPT !.versions = <<y.versions[n]>>]
    BY <1>1, <1>2, <1>4, <2>1 DEF Kept, Newest
  <2>4. PICK a, b : a = Kept(kind, x) /\ b = Kept(kind, y)
    OBVIOUS
  <2>5. /\ a.versions = <<x.versions[n]>> /\ b.versions = <<y.versions[n]>>
        /\ a.deleted = b.deleted /\ a.order = b.order /\ a.receipts = b.receipts
        /\ a.purged = b.purged
    BY <2>3, <2>4 DEF Message, MessageAlike
  <2>6. /\ DOMAIN a.versions = {1} /\ DOMAIN b.versions = {1}
        /\ a.versions[1] = x.versions[n] /\ b.versions[1] = y.versions[n]
    BY <2>5
  <2>7. Alike(x.versions[n], y.versions[n]) /\ Survives(kind, x, x.versions[n])
    BY <1>4, <2>1, <2>2 DEF MessageAlike, Survives, Newest
  <2> QED
    BY <2>2, <2>4, <2>5, <2>6, <2>7 DEF MessageAlike
<1>5. CASE ~(kind = "Trashbin" /\ x.deleted) /\ ~(kind = "EditHistory" /\ x.versions # <<>>)
  <2>1. Kept(kind, y) = y /\ Kept(kind, x) = x
    BY <1>1, <1>2, <1>5 DEF Kept
  <2>2. \A k \in DOMAIN x.versions : Survives(kind, x, x.versions[k])
    BY <1>1, <1>5 DEF Survives, Kinds
  <2> QED
    BY <2>1, <2>2
<1> QED
  BY <1>3, <1>4, <1>5

\* The archive with the copies kept and the bodies erased.
LEMMA ErasedFacts ==
  ASSUME NEW s \in ArchiveState, BodiesValid(s), NEW kind \in Kinds, NEW scope, NEW t,
         t = Erase(KeepCopies(s, kind, scope), kind, scope)
  PROVE  /\ t \in ArchiveState /\ BodiesValid(t)
         /\ t.jobs = s.jobs /\ t.blobs = s.blobs /\ t.account = s.account /\ t.chats = s.chats
         /\ \A l \in Leases : t.leases[l] =
              IF s.leases[l] # Nothing /\ InScope(scope, s.leases[l].msg)
              THEN [s.leases[l] EXCEPT !.revoked = TRUE] ELSE s.leases[l]
         /\ \A m \in Msgs : ~InScope(scope, m) => t.messages[m] = s.messages[m]
         /\ \A m \in Msgs : InScope(scope, m) =>
              /\ MessageAlike(Kept(kind, s.messages[m]), t.messages[m])
              /\ \A k \in DOMAIN Kept(kind, s.messages[m]).versions :
                   \A i \in DOMAIN Kept(kind, s.messages[m]).versions[k].refs :
                     t.messages[m].versions[k].refs[i] =
                       IF i \in Owned(s) THEN "Complete"
                       ELSE Kept(kind, s.messages[m]).versions[k].refs[i]
<1>1. PICK u : u = KeepCopies(s, kind, scope)
  OBVIOUS
<1>2. /\ u \in ArchiveState /\ BodiesValid(u) /\ SameBodies(s.messages, u.messages)
      /\ u.jobs = s.jobs /\ u.leases = s.leases /\ u.blobs = s.blobs
      /\ u.account = s.account /\ u.chats = s.chats
      /\ \A m \in Msgs : ~InScope(scope, m) => u.messages[m] = s.messages[m]
      /\ \A m \in Msgs : InScope(scope, m) =>
           \A k \in DOMAIN s.messages[m].versions :
             \A i \in DOMAIN s.messages[m].versions[k].refs :
               u.messages[m].versions[k].refs[i] =
                 IF /\ Survives(kind, s.messages[m], s.messages[m].versions[k])
                    /\ i \in Owned(s)
                 THEN "Complete" ELSE s.messages[m].versions[k].refs[i]
  BY <1>1, CopiesFacts
<1> DEFINE ms == [m \in Msgs |-> IF InScope(scope, m) THEN Kept(kind, u.messages[m])
                                 ELSE u.messages[m]]
           ls == [l \in Leases |->
                    IF u.leases[l] # Nothing /\ InScope(scope, u.leases[l].msg)
                    THEN [u.leases[l] EXCEPT !.revoked = TRUE] ELSE u.leases[l]]
<1>3. t = [u EXCEPT !.messages = ms, !.leases = ls]
  BY <1>1 DEF Erase
<1>4. \A m \in Msgs : u.messages[m] \in Message /\ BodyValid(u.messages[m])
  BY <1>2, StateFields DEF BodiesValid
<1>5. \A m \in Msgs : ms[m] \in Message /\ BodyValid(ms[m])
  BY <1>4, KeptFacts
<1>6. ms \in [Msgs -> Message]
  BY <1>5
<1>7. ls \in [Leases -> Lease \cup {Nothing}]
  <2>1. ASSUME NEW l \in Leases PROVE ls[l] \in Lease \cup {Nothing}
    <3>1. u.leases[l] \in Lease \cup {Nothing}
      BY <1>2, StateFields
    <3>2. CASE u.leases[l] # Nothing /\ InScope(scope, u.leases[l].msg)
      <4>1. ls[l] = [u.leases[l] EXCEPT !.revoked = TRUE]
        BY <3>2
      <4> HIDE DEF ls
      <4> QED
        BY <3>1, <3>2, <4>1 DEF Lease
    <3>3. CASE ~(u.leases[l] # Nothing /\ InScope(scope, u.leases[l].msg))
      BY <3>1, <3>3
    <3> QED
      BY <3>2, <3>3
  <2> QED
    BY <2>1
<1>8. /\ \A m \in Msgs : ms[m] = IF InScope(scope, m) THEN Kept(kind, u.messages[m])
                                  ELSE u.messages[m]
      /\ \A l \in Leases : ls[l] =
           IF s.leases[l] # Nothing /\ InScope(scope, s.leases[l].msg)
           THEN [s.leases[l] EXCEPT !.revoked = TRUE] ELSE s.leases[l]
  BY <1>2
<1> HIDE DEF ms, ls
<1>9. /\ t \in ArchiveState /\ t.messages = ms /\ t.leases = ls
      /\ t.jobs = s.jobs /\ t.blobs = s.blobs
      /\ t.account = s.account /\ t.chats = s.chats
  BY <1>2, <1>3, <1>6, <1>7 DEF ArchiveState
<1>10. BodiesValid(t)
  BY <1>5, <1>9 DEF BodiesValid
<1>11. ASSUME NEW m \in Msgs, InScope(scope, m)
       PROVE  /\ MessageAlike(Kept(kind, s.messages[m]), t.messages[m])
              /\ \A k \in DOMAIN Kept(kind, s.messages[m]).versions :
                   \A i \in DOMAIN Kept(kind, s.messages[m]).versions[k].refs :
                     t.messages[m].versions[k].refs[i] =
                       IF i \in Owned(s) THEN "Complete"
                       ELSE Kept(kind, s.messages[m]).versions[k].refs[i]
  <2>1. PICK x, y : x = s.messages[m] /\ y = u.messages[m]
    OBVIOUS
  <2>2. x \in Message /\ y \in Message /\ MessageAlike(x, y) /\ BodyValid(x) /\ BodyValid(y)
    BY <1>2, <1>4, <2>1, StateFields DEF SameBodies, BodiesValid
  <2>3. \A k \in DOMAIN x.versions : \A i \in DOMAIN x.versions[k].refs :
           y.versions[k].refs[i] = IF Survives(kind, x, x.versions[k]) /\ i \in Owned(s)
                                   THEN "Complete" ELSE x.versions[k].refs[i]
    BY <1>2, <1>11, <2>1
  <2>4. t.messages[m] = Kept(kind, y)
    BY <1>8, <1>9, <1>11, <2>1
  <2>5. /\ MessageAlike(Kept(kind, x), Kept(kind, y))
        /\ \A k \in DOMAIN Kept(kind, x).versions :
             \A i \in DOMAIN Kept(kind, x).versions[k].refs :
               Kept(kind, y).versions[k].refs[i] =
                 IF i \in Owned(s) THEN "Complete" ELSE Kept(kind, x).versions[k].refs[i]
    <3>1. PICK p, q : p = Kept(kind, x) /\ q = Kept(kind, y)
      OBVIOUS
    <3>2. /\ MessageAlike(p, q)
          /\ \A k \in DOMAIN p.versions : \E n \in DOMAIN x.versions :
               /\ p.versions[k] = x.versions[n] /\ q.versions[k] = y.versions[n]
               /\ Survives(kind, x, x.versions[n])
      BY <2>2, <3>1, KeptAt
    <3>3. \A k \in DOMAIN p.versions : \A i \in DOMAIN p.versions[k].refs :
             q.versions[k].refs[i] =
               IF i \in Owned(s) THEN "Complete" ELSE p.versions[k].refs[i]
      BY <2>3, <3>2
    <3> QED
      BY <3>1, <3>2, <3>3
  <2> QED
    BY <2>1, <2>4, <2>5
<1> QED
  BY <1>2, <1>8, <1>9, <1>10, <1>11

\* What jobs and readers wait for while a purge of scope is under way.
Waiting(s, scope) ==
    /\ \A m \in Msgs : \A k \in DOMAIN s.messages[m].versions :
         \A i \in DOMAIN s.messages[m].versions[k].refs :
           s.messages[m].versions[k].refs[i] = "Staged" =>
             \E j \in Jobs : Staged(s, j) /\ JobRef(s, j) = <<m, s.messages[m].versions[k].id, i>>
    /\ \A j \in Jobs : Staged(s, j) =>
         IF InScope(scope, s.jobs[j].msg)
         THEN s.jobs[j].generation # GenerationFor(s, s.jobs[j].msg) ELSE JobCurrent(s, j)
    /\ \A l \in Leases : s.leases[l] # Nothing /\ ~s.leases[l].revoked =>
         InScope(scope, s.leases[l].msg) \/ LeaseCurrent(s, l)

\* The archive users see, from what is left of s.
SeenOf(s, kind, scope) == Reconcile(Erase(KeepCopies(s, kind, scope), kind, scope))

\* The jobs that die are those of the scope, with what they staged.
LEMMA DeadInScope ==
  ASSUME NEW s \in ArchiveState, BodiesValid(s), NEW kind \in Kinds, NEW scope,
         Waiting(s, scope), NEW t, t = Erase(KeepCopies(s, kind, scope), kind, scope)
  PROVE  /\ \A j \in Jobs : j \in Dead(t) <=> Staged(s, j) /\ InScope(scope, s.jobs[j].msg)
         /\ \A m \in Msgs : \A k \in DOMAIN t.messages[m].versions :
              \A i \in DOMAIN t.messages[m].versions[k].refs :
                <<m, t.messages[m].versions[k].id, i>> \in DeadRefs(t) <=>
                  InScope(scope, m) /\ t.messages[m].versions[k].refs[i] = "Staged"
<1>1. /\ t \in ArchiveState /\ BodiesValid(t)
      /\ t.jobs = s.jobs /\ t.account = s.account /\ t.chats = s.chats
      /\ \A m \in Msgs : ~InScope(scope, m) => t.messages[m] = s.messages[m]
      /\ \A m \in Msgs : InScope(scope, m) =>
           /\ MessageAlike(Kept(kind, s.messages[m]), t.messages[m])
           /\ \A k \in DOMAIN Kept(kind, s.messages[m]).versions :
                \A i \in DOMAIN Kept(kind, s.messages[m]).versions[k].refs :
                  t.messages[m].versions[k].refs[i] =
                    IF i \in Owned(s) THEN "Complete"
                    ELSE Kept(kind, s.messages[m]).versions[k].refs[i]
  BY ErasedFacts
<1>2. \A j \in Jobs : (Staged(t, j) <=> Staged(s, j)) /\ JobRef(t, j) = JobRef(s, j)
  BY <1>1 DEF Staged, JobRef
<1>3. \A j \in Jobs : Staged(s, j) => s.jobs[j].msg \in Msgs
  BY StateFields DEF Staged, Job
<1>4. ASSUME NEW j \in Jobs
      PROVE  j \in Dead(t) <=> Staged(s, j) /\ InScope(scope, s.jobs[j].msg)
  <2>1. CASE ~Staged(s, j)
    BY <1>2, <2>1 DEF Dead
  <2>2. CASE Staged(s, j) /\ InScope(scope, s.jobs[j].msg)
    <3>1. s.jobs[j].generation # GenerationFor(s, s.jobs[j].msg)
      BY <2>2 DEF Waiting
    <3>2. t.jobs[j].generation # GenerationFor(t, t.jobs[j].msg)
      BY <1>1, <3>1 DEF GenerationFor
    <3> QED
      BY <1>2, <2>2, <3>2 DEF Dead, JobCurrent
  <2>3. CASE Staged(s, j) /\ ~InScope(scope, s.jobs[j].msg)
    <3>1. JobCurrent(s, j)
      BY <2>3 DEF Waiting
    <3>2. t.messages[s.jobs[j].msg] = s.messages[s.jobs[j].msg]
      BY <1>1, <1>3, <2>3
    <3>3. PICK job : job = s.jobs[j]
      OBVIOUS
    <3>4. t.jobs[j] = job
      BY <1>1, <3>3
    <3>5. VersionsOf(t, job.msg) = VersionsOf(s, job.msg)
      BY <3>2, <3>3 DEF VersionsOf
    <3>6. GenerationFor(t, job.msg) = GenerationFor(s, job.msg)
      BY <1>1 DEF GenerationFor
    <3>7. JobCurrent(t, j)
      BY <3>1, <3>3, <3>4, <3>5, <3>6 DEF JobCurrent
    <3> QED
      BY <2>3, <3>7 DEF Dead
  <2> QED
    BY <2>1, <2>2, <2>3
<1>5. ASSUME NEW m \in Msgs, NEW k \in DOMAIN t.messages[m].versions,
             NEW i \in DOMAIN t.messages[m].versions[k].refs
      PROVE  <<m, t.messages[m].versions[k].id, i>> \in DeadRefs(t) <=>
               InScope(scope, m) /\ t.messages[m].versions[k].refs[i] = "Staged"
  <2>1. PICK ref : ref = <<m, t.messages[m].versions[k].id, i>>
    OBVIOUS
  <2>2. ASSUME ref \in DeadRefs(t)
        PROVE  InScope(scope, m) /\ t.messages[m].versions[k].refs[i] = "Staged"
    <3>1. PICK j \in Jobs : j \in Dead(t) /\ ref = JobRef(t, j)
      BY <2>2 DEF DeadRefs, Dead
    <3>2. InScope(scope, s.jobs[j].msg)
      BY <1>4, <3>1
    <3>3. m = s.jobs[j].msg
      BY <1>1, <2>1, <3>1 DEF JobRef
    <3>4. t.messages[m].versions[k].refs[i] = "Staged"
      BY <1>1, <1>5, <2>1, <2>2, DeadRefsStaged
    <3> QED
      BY <3>2, <3>3, <3>4
  <2>3. ASSUME InScope(scope, m), t.messages[m].versions[k].refs[i] = "Staged"
        PROVE  ref \in DeadRefs(t)
    <3>1. PICK x : x = Kept(kind, s.messages[m])
      OBVIOUS
    <3>2. /\ k \in DOMAIN x.versions /\ i \in DOMAIN x.versions[k].refs
          /\ x.versions[k].id = t.messages[m].versions[k].id
          /\ x.versions[k].refs[i] = "Staged"
      BY <1>1, <1>5, <2>3, <3>1 DEF MessageAlike, Alike
    <3>3. \E n \in DOMAIN s.messages[m].versions : x.versions[k] = s.messages[m].versions[n]
      <4>1. s.messages[m] \in Message /\ BodyValid(s.messages[m])
        BY StateFields DEF BodiesValid
      <4> QED
        BY <3>1, <3>2, <4>1, KeptFacts
    <3>4. PICK n \in DOMAIN s.messages[m].versions : x.versions[k] = s.messages[m].versions[n]
      BY <3>3
    <3>5. PICK j \in Jobs : Staged(s, j) /\ JobRef(s, j) = <<m, s.messages[m].versions[n].id, i>>
      BY <3>2, <3>4 DEF Waiting
    <3>6. JobRef(t, j) = ref /\ s.jobs[j].msg = m
      BY <1>2, <2>1, <3>2, <3>4, <3>5 DEF JobRef
    <3>7. j \in Dead(t)
      BY <1>4, <2>3, <3>5, <3>6
    <3>8. IsStagedRef(t, ref)
      BY <1>5, <2>1, <2>3 DEF IsStagedRef, VersionsOf
    <3> QED
      BY <3>6, <3>7, <3>8 DEF DeadRefs
  <2> QED
    BY <2>1, <2>2, <2>3
<1> QED
  BY <1>4, <1>5

\* A message in scope ends as Final, the others stay, jobs of the scope are

\* cancelled and its leases revoked.
LEMMA SeenFacts ==
  ASSUME NEW s \in ArchiveState, BodiesValid(s), NEW kind \in Kinds, NEW scope,
         Waiting(s, scope), NEW t, t = SeenOf(s, kind, scope)
  PROVE  /\ t \in ArchiveState
         /\ \A m \in Msgs : t.messages[m] =
              IF InScope(scope, m) THEN Final(s, kind, s.messages[m]) ELSE s.messages[m]
         /\ \A j \in Jobs : t.jobs[j] =
              IF Staged(s, j) /\ InScope(scope, s.jobs[j].msg)
              THEN [s.jobs[j] EXCEPT !.state = "Cancelled"] ELSE s.jobs[j]
         /\ \A l \in Leases : t.leases[l] =
              IF s.leases[l] # Nothing /\ InScope(scope, s.leases[l].msg)
              THEN [s.leases[l] EXCEPT !.revoked = TRUE] ELSE s.leases[l]
         /\ t.blobs = s.blobs /\ t.account = s.account /\ t.chats = s.chats
<1>1. PICK e : e = Erase(KeepCopies(s, kind, scope), kind, scope)
  OBVIOUS
<1>2. /\ e \in ArchiveState /\ BodiesValid(e)
      /\ e.jobs = s.jobs /\ e.blobs = s.blobs /\ e.account = s.account /\ e.chats = s.chats
      /\ \A l \in Leases : e.leases[l] =
           IF s.leases[l] # Nothing /\ InScope(scope, s.leases[l].msg)
           THEN [s.leases[l] EXCEPT !.revoked = TRUE] ELSE s.leases[l]
      /\ \A m \in Msgs : ~InScope(scope, m) => e.messages[m] = s.messages[m]
      /\ \A m \in Msgs : InScope(scope, m) =>
           /\ MessageAlike(Kept(kind, s.messages[m]), e.messages[m])
           /\ \A k \in DOMAIN Kept(kind, s.messages[m]).versions :
                \A i \in DOMAIN Kept(kind, s.messages[m]).versions[k].refs :
                  e.messages[m].versions[k].refs[i] =
                    IF i \in Owned(s) THEN "Complete"
                    ELSE Kept(kind, s.messages[m]).versions[k].refs[i]
  BY <1>1, ErasedFacts
<1>3. /\ \A j \in Jobs : j \in Dead(e) <=> Staged(s, j) /\ InScope(scope, s.jobs[j].msg)
      /\ \A m \in Msgs : \A k \in DOMAIN e.messages[m].versions :
           \A i \in DOMAIN e.messages[m].versions[k].refs :
             <<m, e.messages[m].versions[k].id, i>> \in DeadRefs(e) <=>
               InScope(scope, m) /\ e.messages[m].versions[k].refs[i] = "Staged"
  BY <1>1, DeadInScope
<1>4. /\ t \in ArchiveState
      /\ t.messages = SetRefs(e.messages, DeadRefs(e), "Missing")
      /\ SameBodies(e.messages, t.messages)
      /\ \A j \in Jobs : t.jobs[j] =
           IF j \in Dead(e) THEN [e.jobs[j] EXCEPT !.state = "Cancelled"] ELSE e.jobs[j]
      /\ \A l \in Leases : t.leases[l] =
           IF e.leases[l] # Nothing /\ ~LeaseCurrent(e, l)
           THEN [e.leases[l] EXCEPT !.revoked = TRUE] ELSE e.leases[l]
      /\ t.blobs = e.blobs /\ t.account = e.account /\ t.chats = e.chats
  BY <1>1, <1>2, ReconcileFacts DEF SeenOf
<1>5. ASSUME NEW m \in Msgs, NEW k \in DOMAIN e.messages[m].versions,
             NEW i \in DOMAIN e.messages[m].versions[k].refs
      PROVE  t.messages[m].versions[k].refs[i] =
               IF InScope(scope, m) /\ e.messages[m].versions[k].refs[i] = "Staged"
               THEN "Missing" ELSE e.messages[m].versions[k].refs[i]
  <2>1. e.messages \in [Msgs -> Message] /\ "Missing" \in RefStates
    BY <1>2, StateFields DEF RefStates
  <2>2. PICK ref : ref = <<m, e.messages[m].versions[k].id, i>>
    OBVIOUS
  <2>3. t.messages[m].versions[k].refs[i] =
          IF ref \in DeadRefs(e) THEN "Missing" ELSE e.messages[m].versions[k].refs[i]
    BY <1>4, <1>5, <2>1, <2>2, SetRefsFacts
  <2>4. ref \in DeadRefs(e) <=>
          InScope(scope, m) /\ e.messages[m].versions[k].refs[i] = "Staged"
    BY <1>3, <1>5, <2>2
  <2> QED
    BY <2>3, <2>4
<1>6. ASSUME NEW m \in Msgs, ~InScope(scope, m) PROVE t.messages[m] = s.messages[m]
  <2>1. PICK x, y : x = e.messages[m] /\ y = t.messages[m]
    OBVIOUS
  <2>2. x \in Message /\ y \in Message /\ MessageAlike(x, y)
    BY <1>2, <1>4, <2>1, StateFields DEF SameBodies
  <2>3. \A k \in DOMAIN x.versions : \A i \in DOMAIN x.versions[k].refs :
           y.versions[k].refs[i] = x.versions[k].refs[i]
    BY <1>5, <1>6, <2>1
  <2>4. x = y
    BY <2>2, <2>3, AlikeEqual
  <2> QED
    BY <1>2, <1>6, <2>1, <2>4
<1>7. ASSUME NEW m \in Msgs, InScope(scope, m)
      PROVE  t.messages[m] = Final(s, kind, s.messages[m])
  <2>1. PICK x, y, z, f : /\ x = Kept(kind, s.messages[m]) /\ y = e.messages[m]
                          /\ z = t.messages[m] /\ f = Final(s, kind, s.messages[m])
    OBVIOUS
  <2>2. s.messages[m] \in Message /\ BodyValid(s.messages[m])
    BY StateFields DEF BodiesValid
  <2>3. /\ x \in Message /\ f \in Message /\ MessageAlike(x, f)
        /\ \A k \in DOMAIN x.versions : f.versions[k] = Given(s, x.versions[k])
    <3>1. Kept(kind, s.messages[m]) \in Message
      BY <2>2, KeptFacts
    <3>2. /\ Final(s, kind, s.messages[m]) \in Message
          /\ MessageAlike(Kept(kind, s.messages[m]), Final(s, kind, s.messages[m]))
          /\ \A k \in DOMAIN Kept(kind, s.messages[m]).versions :
               Final(s, kind, s.messages[m]).versions[k] =
                 Given(s, Kept(kind, s.messages[m]).versions[k])
      BY <2>2, FinalFacts
    <3> QED
      BY <2>1, <3>1, <3>2
  <2>4. /\ y \in Message /\ z \in Message /\ MessageAlike(x, y) /\ MessageAlike(y, z)
    BY <1>2, <1>4, <1>7, <2>1, StateFields DEF SameBodies
  <2>5. MessageAlike(f, z)
    BY <2>3, <2>4 DEF MessageAlike, Alike
  <2>6. ASSUME NEW k \in DOMAIN f.versions, NEW i \in DOMAIN f.versions[k].refs
        PROVE  z.versions[k].refs[i] = f.versions[k].refs[i]
    <3>1. /\ k \in DOMAIN x.versions /\ i \in DOMAIN x.versions[k].refs
          /\ k \in DOMAIN y.versions /\ i \in DOMAIN y.versions[k].refs
      BY <2>3, <2>4, <2>6 DEF MessageAlike, Alike
    <3>2. f.versions[k].refs[i] =
            IF x.versions[k].refs[i] = "Complete" \/ i \in Owned(s) THEN "Complete"
            ELSE IF x.versions[k].refs[i] = "Staged" THEN "Missing" ELSE x.versions[k].refs[i]
      BY <2>3, <3>1, GivenFacts, MessageFields
    <3>3. z.versions[k].refs[i] =
            IF y.versions[k].refs[i] = "Staged" THEN "Missing" ELSE y.versions[k].refs[i]
      BY <1>5, <1>7, <2>1, <3>1
    <3>4. y.versions[k].refs[i] =
            IF i \in Owned(s) THEN "Complete" ELSE x.versions[k].refs[i]
      BY <1>2, <1>7, <2>1, <3>1
    <3> QED
      BY <3>2, <3>3, <3>4
  <2>7. f = z
    BY <2>3, <2>4, <2>5, <2>6, AlikeEqual
  <2> QED
    BY <2>1, <2>7
<1>8. ASSUME NEW l \in Leases PROVE t.leases[l] = e.leases[l]
  <2>1. e.leases[l] \in Lease \cup {Nothing} /\ s.leases[l] \in Lease \cup {Nothing}
    BY <1>2, StateFields
  <2>2. CASE e.leases[l] = Nothing
    BY <1>4, <2>2
  <2>3. CASE e.leases[l] # Nothing /\ e.leases[l].revoked
    <3>1. [e.leases[l] EXCEPT !.revoked = TRUE] = e.leases[l]
      BY <2>1, <2>3 DEF Lease
    <3> QED
      BY <1>4, <3>1
  <2>4. CASE e.leases[l] # Nothing /\ ~e.leases[l].revoked
    <3>1. e.leases[l] = s.leases[l] /\ ~InScope(scope, s.leases[l].msg)
      <4>1. ASSUME s.leases[l] # Nothing, InScope(scope, s.leases[l].msg) PROVE FALSE
        <5>1. s.leases[l] \in Lease /\ e.leases[l] = [s.leases[l] EXCEPT !.revoked = TRUE]
          BY <1>2, <2>1, <4>1
        <5>2. e.leases[l].revoked
          BY <5>1 DEF Lease
        <5> QED
          BY <2>4, <5>2
      <4> QED
        BY <1>2, <2>4, <4>1
    <3>2. LeaseCurrent(s, l) /\ s.leases[l].msg \in Msgs
      BY <2>1, <2>4, <3>1 DEF Waiting, Lease
    <3>3. e.messages[s.leases[l].msg] = s.messages[s.leases[l].msg]
      BY <1>2, <3>1, <3>2
    <3>4. LeaseCurrent(e, l)
      BY <3>1, <3>2, <3>3 DEF LeaseCurrent, VersionsOf
    <3> QED
      BY <1>4, <3>4
  <2> QED
    BY <2>2, <2>3, <2>4
<1> QED
  BY <1>2, <1>3, <1>4, <1>6, <1>7, <1>8
---------------------------------------------------------------------------
(* The invariant: what users see is sound, and where a purge has come to.  *)

\* ArchiveInv of the archive s.
StoreInv(s) ==
    /\ s \in ArchiveState /\ BodiesValid(s) /\ RowsSound(s) /\ Sound(s)
    /\ files \subseteq Blobs /\ published \subseteq Jobs /\ erased \subseteq Msgs \X Ids
    /\ \A b \in Blobs : s.blobs[b] = "Complete" => b \in files
    /\ \A j \in published : s.jobs[j] # Nothing /\ BlobOf[s.jobs[j].identity] \in files
    /\ \A m \in Msgs, id \in Ids : <<m, id>> \in erased => Gone(s, m, id)

\* No copy is left to take for v, and it waits for none.
Settled(s, v) ==
    \A i \in DOMAIN v.refs :
      v.refs[i] = "Complete" \/ (i \notin Owned(s) /\ v.refs[i] # "Staged")

\* What the phases before this one, and the pages of this one, have done.
VersionsDone(s, kind, scope) ==
    \A m \in Msgs : InScope(scope, m) =>
      \A k \in DOMAIN Kept(kind, s.messages[m]).versions :
        Settled(s, Kept(kind, s.messages[m]).versions[k])

MessagesDone(s, kind, scope) ==
    \A m \in Msgs : InScope(scope, m) => Kept(kind, s.messages[m]) = s.messages[m]

JobsDone(s, scope) == \A j \in Jobs : Staged(s, j) => ~InScope(scope, s.jobs[j].msg)

LeasesDone(s, scope) ==
    \A l \in Leases : s.leases[l] # Nothing /\ InScope(scope, s.leases[l].msg) =>
      s.leases[l].revoked

PassedDone(s, j) ==
    /\ j.phase = "Versions" =>
         \A m \in Msgs : \A v \in VersionsOf(s, m) : <<m, v.id>> \in j.passed => Settled(s, v)
    /\ j.phase = "Messages" =>
         \A m \in Msgs : m \in j.passed => Kept(j.kind, s.messages[m]) = s.messages[m]
    /\ j.phase = "Jobs" => \A job \in Jobs : job \in j.passed => ~Staged(s, job)
    /\ j.phase = "Leases" =>
         \A l \in Leases : l \in j.passed /\ s.leases[l] # Nothing => s.leases[l].revoked

Underway(s, j) ==
    /\ j \in Journal
    /\ s \in ArchiveState /\ BodiesValid(s) /\ Waiting(s, j.scope)
    /\ j.phase # "Versions" => VersionsDone(s, j.kind, j.scope)
    /\ j.phase \in {"Jobs", "Leases", "Finish"} => MessagesDone(s, j.kind, j.scope)
    /\ j.phase \in {"Leases", "Finish"} => JobsDone(s, j.scope)
    /\ j.phase = "Finish" => LeasesDone(s, j.scope)
    /\ PassedDone(s, j)

SqlInv == StoreInv(Seen) /\ (journal # Nothing => Underway(db, journal))
---------------------------------------------------------------------------
(* What a page may do: users see no difference.                            *)

\* What a page does to jobs and readers: those of the scope end.
Ending(s, t, scope) ==
    /\ \A j \in Jobs : \/ t.jobs[j] = s.jobs[j]
                       \/ /\ Staged(s, j) /\ InScope(scope, s.jobs[j].msg)
                          /\ t.jobs[j] = [s.jobs[j] EXCEPT !.state = "Cancelled"]
    /\ \A l \in Leases : \/ t.leases[l] = s.leases[l]
                         \/ /\ s.leases[l] # Nothing /\ InScope(scope, s.leases[l].msg)
                            /\ t.leases[l] = [s.leases[l] EXCEPT !.revoked = TRUE]
    /\ t.blobs = s.blobs /\ t.account = s.account /\ t.chats = s.chats
    /\ \A m \in Msgs : ~InScope(scope, m) => t.messages[m] = s.messages[m]

\* A job or a lease keeps its message.
LEMMA EndingFacts ==
  ASSUME NEW s \in ArchiveState, NEW t \in ArchiveState, NEW scope, Ending(s, t, scope)
  PROVE  /\ \A j \in Jobs : Staged(t, j) => Staged(s, j) /\ t.jobs[j] = s.jobs[j]
         /\ \A j \in Jobs : Staged(s, j) => t.jobs[j] # Nothing
                                            /\ t.jobs[j].msg = s.jobs[j].msg
         /\ \A l \in Leases : t.leases[l] # Nothing <=> s.leases[l] # Nothing
         /\ \A l \in Leases : s.leases[l] # Nothing =>
              /\ t.leases[l].msg = s.leases[l].msg /\ t.leases[l].version = s.leases[l].version
              /\ t.leases[l].blob = s.leases[l].blob
              /\ ~t.leases[l].revoked => ~s.leases[l].revoked
         /\ \A m : GenerationFor(t, m) = GenerationFor(s, m)
<1>1. ASSUME NEW j \in Jobs
      PROVE  /\ Staged(t, j) => Staged(s, j) /\ t.jobs[j] = s.jobs[j]
             /\ Staged(s, j) => t.jobs[j] # Nothing /\ t.jobs[j].msg = s.jobs[j].msg
  <2>1. CASE t.jobs[j] = s.jobs[j]
    BY <2>1 DEF Staged
  <2>2. CASE Staged(s, j) /\ t.jobs[j] = [s.jobs[j] EXCEPT !.state = "Cancelled"]
    <3>1. PICK a, b : a = s.jobs[j] /\ b = t.jobs[j]
      OBVIOUS
    <3>2. a \in Job
      BY <2>2, <3>1, StateFields DEF Staged
    <3>3. b.state = "Cancelled" /\ b.msg = a.msg /\ b \in Job
      BY <2>2, <3>1, <3>2 DEF Job
    <3> QED
      BY <3>1, <3>3, ArchiveAssumption DEF Staged
  <2> QED
    BY <2>1, <2>2 DEF Ending
<1>2. ASSUME NEW l \in Leases
      PROVE  /\ t.leases[l] # Nothing <=> s.leases[l] # Nothing
             /\ s.leases[l] # Nothing =>
                  /\ t.leases[l].msg = s.leases[l].msg
                  /\ t.leases[l].version = s.leases[l].version
                  /\ t.leases[l].blob = s.leases[l].blob
                  /\ ~t.leases[l].revoked => ~s.leases[l].revoked
  <2>1. CASE t.leases[l] = s.leases[l]
    BY <2>1
  <2>2. CASE s.leases[l] # Nothing /\ t.leases[l] = [s.leases[l] EXCEPT !.revoked = TRUE]
    <3>1. PICK a, b : a = s.leases[l] /\ b = t.leases[l]
      OBVIOUS
    <3>2. a \in Lease
      BY <2>2, <3>1, StateFields
    <3>3. /\ b.revoked /\ b.msg = a.msg /\ b.version = a.version /\ b.blob = a.blob
          /\ b \in Lease
      BY <2>2, <3>1, <3>2 DEF Lease
    <3> QED
      BY <2>2, <3>1, <3>3, ArchiveAssumption
  <2> QED
    BY <2>1, <2>2 DEF Ending
<1>3. \A m : GenerationFor(t, m) = GenerationFor(s, m)
  BY DEF Ending, GenerationFor
<1> QED
  BY <1>1, <1>2, <1>3

\* Staged references keep their jobs, and what is out of scope stays.
LEMMA WaitingStays ==
  ASSUME NEW s \in ArchiveState, NEW t \in ArchiveState, NEW scope, Ending(s, t, scope),
         Waiting(s, scope), StagedBefore(s, t),
         \/ t.jobs = s.jobs
         \/ \A m \in Msgs : InScope(scope, m) =>
              \A k \in DOMAIN t.messages[m].versions :
                \A i \in DOMAIN t.messages[m].versions[k].refs :
                  t.messages[m].versions[k].refs[i] # "Staged"
  PROVE  Waiting(t, scope)
<1>1. ASSUME NEW m \in Msgs, NEW k \in DOMAIN t.messages[m].versions,
             NEW i \in DOMAIN t.messages[m].versions[k].refs,
             t.messages[m].versions[k].refs[i] = "Staged"
      PROVE  \E j \in Jobs : Staged(t, j) /\ JobRef(t, j) = <<m, t.messages[m].versions[k].id, i>>
  <2>1. PICK n \in DOMAIN s.messages[m].versions :
          /\ s.messages[m].versions[n].id = t.messages[m].versions[k].id
          /\ i \in DOMAIN s.messages[m].versions[n].refs
          /\ s.messages[m].versions[n].refs[i] = "Staged"
    BY <1>1 DEF StagedBefore
  <2>2. PICK j \in Jobs : Staged(s, j) /\ JobRef(s, j) = <<m, s.messages[m].versions[n].id, i>>
    BY <2>1 DEF Waiting
  <2>3. t.jobs[j] = s.jobs[j]
    <3>1. CASE t.jobs = s.jobs
      BY <3>1
    <3>2. CASE t.jobs # s.jobs
      <4>1. ~InScope(scope, m)
        BY <1>1, <3>2
      <4>2. s.jobs[j].msg = m
        BY <2>2 DEF JobRef
      <4> QED
        BY <4>1, <4>2 DEF Ending
    <3> QED
      BY <3>1, <3>2
  <2> QED
    BY <2>1, <2>2, <2>3 DEF Staged, JobRef
<1>2. \A m : ~InScope(scope, m) /\ m \in Msgs => VersionsOf(t, m) = VersionsOf(s, m)
  BY DEF Ending, VersionsOf
<1>3. ASSUME NEW j \in Jobs, Staged(t, j)
      PROVE  IF InScope(scope, t.jobs[j].msg)
             THEN t.jobs[j].generation # GenerationFor(t, t.jobs[j].msg) ELSE JobCurrent(t, j)
  <2>1. PICK job : job = s.jobs[j]
    OBVIOUS
  <2>2. Staged(s, j) /\ t.jobs[j] = job /\ GenerationFor(t, job.msg) = GenerationFor(s, job.msg)
    BY <1>3, <2>1, EndingFacts
  <2>3. job.msg \in Msgs
    BY <2>1, <2>2, StateFields DEF Staged, Job
  <2>4. CASE InScope(scope, job.msg)
    BY <2>1, <2>2, <2>4 DEF Waiting
  <2>5. CASE ~InScope(scope, job.msg)
    <3>1. JobCurrent(s, j)
      BY <2>1, <2>2, <2>5 DEF Waiting
    <3>2. VersionsOf(t, job.msg) = VersionsOf(s, job.msg)
      BY <1>2, <2>3, <2>5
    <3>3. JobCurrent(t, j)
      BY <2>1, <2>2, <3>1, <3>2 DEF JobCurrent
    <3> QED
      BY <2>2, <2>5, <3>3
  <2> QED
    BY <2>4, <2>5
<1>4. ASSUME NEW l \in Leases, t.leases[l] # Nothing, ~t.leases[l].revoked
      PROVE  InScope(scope, t.leases[l].msg) \/ LeaseCurrent(t, l)
  <2>1. PICK a, b : a = s.leases[l] /\ b = t.leases[l]
    OBVIOUS
  <2>2. /\ s.leases[l] # Nothing /\ ~s.leases[l].revoked
        /\ b.msg = a.msg /\ b.version = a.version /\ b.blob = a.blob
    BY <1>4, <2>1, EndingFacts
  <2>3. a.msg \in Msgs
    BY <2>1, <2>2, StateFields DEF Lease
  <2>4. CASE ~InScope(scope, a.msg)
    <3>1. LeaseCurrent(s, l)
      BY <2>1, <2>2, <2>4 DEF Waiting
    <3>2. VersionsOf(t, a.msg) = VersionsOf(s, a.msg)
      BY <1>2, <2>3, <2>4
    <3>3. LeaseCurrent(t, l)
      BY <2>1, <2>2, <3>1, <3>2 DEF LeaseCurrent
    <3> QED
      BY <3>3
  <2> QED
    BY <2>1, <2>2, <2>4
<1> QED
  BY <1>1, <1>3, <1>4 DEF Waiting

\* Two states with the same fields are the same.
LEMMA StateEqual ==
  ASSUME NEW s \in ArchiveState, NEW t \in ArchiveState,
         \A m \in Msgs : t.messages[m] = s.messages[m],
         \A j \in Jobs : t.jobs[j] = s.jobs[j],
         \A l \in Leases : t.leases[l] = s.leases[l],
         t.blobs = s.blobs, t.account = s.account, t.chats = s.chats
  PROVE  t = s
<1>1. t.messages = s.messages /\ t.jobs = s.jobs /\ t.leases = s.leases
  BY StateFields
<1> QED
  BY <1>1 DEF ArchiveState

\* What users see does not change when messages end in the same way.
LEMMA SameSeen ==
  ASSUME NEW s \in ArchiveState, BodiesValid(s), NEW kind \in Kinds, NEW scope,
         Waiting(s, scope), NEW t \in ArchiveState, BodiesValid(t), Waiting(t, scope),
         Ending(s, t, scope),
         \A m \in Msgs : InScope(scope, m) =>
           Final(t, kind, t.messages[m]) = Final(s, kind, s.messages[m])
  PROVE  SeenOf(t, kind, scope) = SeenOf(s, kind, scope)
<1>1. PICK a, b : a = SeenOf(s, kind, scope) /\ b = SeenOf(t, kind, scope)
  OBVIOUS
<1>2. /\ a \in ArchiveState
      /\ \A m \in Msgs : a.messages[m] =
           IF InScope(scope, m) THEN Final(s, kind, s.messages[m]) ELSE s.messages[m]
      /\ \A j \in Jobs : a.jobs[j] =
           IF Staged(s, j) /\ InScope(scope, s.jobs[j].msg)
           THEN [s.jobs[j] EXCEPT !.state = "Cancelled"] ELSE s.jobs[j]
      /\ \A l \in Leases : a.leases[l] =
           IF s.leases[l] # Nothing /\ InScope(scope, s.leases[l].msg)
           THEN [s.leases[l] EXCEPT !.revoked = TRUE] ELSE s.leases[l]
      /\ a.blobs = s.blobs /\ a.account = s.account /\ a.chats = s.chats
  BY <1>1, SeenFacts
<1>3. /\ b \in ArchiveState
      /\ \A m \in Msgs : b.messages[m] =
           IF InScope(scope, m) THEN Final(t, kind, t.messages[m]) ELSE t.messages[m]
      /\ \A j \in Jobs : b.jobs[j] =
           IF Staged(t, j) /\ InScope(scope, t.jobs[j].msg)
           THEN [t.jobs[j] EXCEPT !.state = "Cancelled"] ELSE t.jobs[j]
      /\ \A l \in Leases : b.leases[l] =
           IF t.leases[l] # Nothing /\ InScope(scope, t.leases[l].msg)
           THEN [t.leases[l] EXCEPT !.revoked = TRUE] ELSE t.leases[l]
      /\ b.blobs = t.blobs /\ b.account = t.account /\ b.chats = t.chats
  BY <1>1, SeenFacts
<1>4. \A m \in Msgs : b.messages[m] = a.messages[m]
  BY <1>2, <1>3 DEF Ending
<1>5. ASSUME NEW j \in Jobs PROVE b.jobs[j] = a.jobs[j]
  <2>1. CASE t.jobs[j] = s.jobs[j]
    <3>1. Staged(t, j) <=> Staged(s, j)
      BY <2>1 DEF Staged
    <3>2. a.jobs[j] = IF Staged(s, j) /\ InScope(scope, s.jobs[j].msg)
                      THEN [s.jobs[j] EXCEPT !.state = "Cancelled"] ELSE s.jobs[j]
      BY <1>2
    <3>3. b.jobs[j] = IF Staged(t, j) /\ InScope(scope, t.jobs[j].msg)
                      THEN [t.jobs[j] EXCEPT !.state = "Cancelled"] ELSE t.jobs[j]
      BY <1>3
    <3> QED
      BY <2>1, <3>1, <3>2, <3>3, Zenon
  <2>2. CASE /\ Staged(s, j) /\ InScope(scope, s.jobs[j].msg)
             /\ t.jobs[j] = [s.jobs[j] EXCEPT !.state = "Cancelled"]
    <3>1. a.jobs[j] = t.jobs[j]
      BY <1>2, <2>2
    <3>2. ~Staged(t, j)
      <4>1. PICK x, y : x = s.jobs[j] /\ y = t.jobs[j]
        OBVIOUS
      <4>2. x \in Job
        BY <2>2, <4>1, StateFields DEF Staged
      <4>3. y.state = "Cancelled"
        BY <2>2, <4>1, <4>2 DEF Job
      <4> QED
        BY <4>1, <4>3 DEF Staged
    <3> QED
      BY <1>3, <3>1, <3>2
  <2> QED
    BY <2>1, <2>2 DEF Ending
<1>6. ASSUME NEW l \in Leases PROVE b.leases[l] = a.leases[l]
  <2>1. CASE t.leases[l] = s.leases[l]
    <3>1. a.leases[l] = IF s.leases[l] # Nothing /\ InScope(scope, s.leases[l].msg)
                        THEN [s.leases[l] EXCEPT !.revoked = TRUE] ELSE s.leases[l]
      BY <1>2
    <3>2. b.leases[l] = IF t.leases[l] # Nothing /\ InScope(scope, t.leases[l].msg)
                        THEN [t.leases[l] EXCEPT !.revoked = TRUE] ELSE t.leases[l]
      BY <1>3
    <3> QED
      BY <2>1, <3>1, <3>2, Zenon
  <2>2. CASE /\ s.leases[l] # Nothing /\ InScope(scope, s.leases[l].msg)
             /\ t.leases[l] = [s.leases[l] EXCEPT !.revoked = TRUE]
    <3>1. PICK x, y : x = s.leases[l] /\ y = t.leases[l]
      OBVIOUS
    <3>2. x \in Lease
      BY <2>2, <3>1, StateFields
    <3>3. y \in Lease /\ y.revoked = TRUE
      BY <2>2, <3>1, <3>2 DEF Lease
    <3>4. [y EXCEPT !.revoked = TRUE] = y
      BY <3>3 DEF Lease
    <3>5. a.leases[l] = y
      BY <1>2, <2>2, <3>1
    <3>6. b.leases[l] = y
      BY <1>3, <3>1, <3>4
    <3> QED
      BY <3>5, <3>6
  <2> QED
    BY <2>1, <2>2 DEF Ending
<1>7. b.blobs = a.blobs /\ b.account = a.account /\ b.chats = a.chats
  BY <1>2, <1>3 DEF Ending
<1>8. b = a
  BY <1>2, <1>3, <1>4, <1>5, <1>6, <1>7, StateEqual
<1> QED
  BY <1>1, <1>8
---------------------------------------------------------------------------
(* The pages of versions and of messages.                                  *)

\* What a reference of a body that stays ends as.
Ends(s, i, state) ==
    IF state = "Complete" \/ i \in Owned(s) THEN "Complete"
    ELSE IF state = "Staged" THEN "Missing" ELSE state

\* The references of what is kept of x and y end in the same states.
SameEnds(s, t, kind, x, y) ==
    \A k \in DOMAIN x.versions : Survives(kind, x, x.versions[k]) =>
      \A i \in DOMAIN x.versions[k].refs :
        Ends(t, i, y.versions[k].refs[i]) = Ends(s, i, x.versions[k].refs[i])

\* Two messages end as one when the references of what is kept of them do.
LEMMA FinalSame ==
  ASSUME NEW x \in Message, NEW y \in Message, BodyValid(x), BodyValid(y), MessageAlike(x, y),
         NEW kind \in Kinds, NEW s, NEW t, SameEnds(s, t, kind, x, y)
  PROVE  Final(t, kind, y) = Final(s, kind, x)
<1>1. PICK p, q, f, g : /\ p = Kept(kind, x) /\ q = Kept(kind, y)
                        /\ f = Final(s, kind, x) /\ g = Final(t, kind, y)
  OBVIOUS
<1>2. p \in Message /\ q \in Message
  <2>1. Kept(kind, x) \in Message /\ Kept(kind, y) \in Message
    BY KeptFacts
  <2> QED
    BY <1>1, <2>1
<1>3. /\ f \in Message /\ MessageAlike(p, f)
      /\ \A k \in DOMAIN p.versions : f.versions[k] = Given(s, p.versions[k])
  <2>1. /\ Final(s, kind, x) \in Message
        /\ MessageAlike(Kept(kind, x), Final(s, kind, x))
        /\ \A k \in DOMAIN Kept(kind, x).versions :
             Final(s, kind, x).versions[k] = Given(s, Kept(kind, x).versions[k])
    BY FinalFacts
  <2> QED
    BY <1>1, <2>1
<1>4. /\ g \in Message /\ MessageAlike(q, g)
      /\ \A k \in DOMAIN q.versions : g.versions[k] = Given(t, q.versions[k])
  <2>1. /\ Final(t, kind, y) \in Message
        /\ MessageAlike(Kept(kind, y), Final(t, kind, y))
        /\ \A k \in DOMAIN Kept(kind, y).versions :
             Final(t, kind, y).versions[k] = Given(t, Kept(kind, y).versions[k])
    BY FinalFacts
  <2> QED
    BY <1>1, <2>1
<1>5. /\ MessageAlike(p, q)
      /\ \A k \in DOMAIN p.versions : \E n \in DOMAIN x.versions :
           /\ p.versions[k] = x.versions[n] /\ q.versions[k] = y.versions[n]
           /\ Survives(kind, x, x.versions[n])
  BY <1>1, KeptAt
<1>6. MessageAlike(f, g)
  BY <1>3, <1>4, <1>5 DEF MessageAlike, Alike
<1>7. ASSUME NEW k \in DOMAIN f.versions, NEW i \in DOMAIN f.versions[k].refs
      PROVE  g.versions[k].refs[i] = f.versions[k].refs[i]
  <2>1. /\ k \in DOMAIN p.versions /\ k \in DOMAIN q.versions
        /\ i \in DOMAIN p.versions[k].refs /\ i \in DOMAIN q.versions[k].refs
    BY <1>3, <1>5, <1>7 DEF MessageAlike, Alike
  <2>2. p.versions[k] \in Version /\ q.versions[k] \in Version
    BY <1>2, <2>1, MessageFields
  <2>3. /\ f.versions[k].refs[i] = Ends(s, i, p.versions[k].refs[i])
        /\ g.versions[k].refs[i] = Ends(t, i, q.versions[k].refs[i])
    BY <1>3, <1>4, <2>1, <2>2, GivenFacts DEF Ends
  <2>4. PICK n \in DOMAIN x.versions :
          /\ p.versions[k] = x.versions[n] /\ q.versions[k] = y.versions[n]
          /\ Survives(kind, x, x.versions[n])
    BY <1>5, <2>1
  <2> QED
    BY <2>1, <2>3, <2>4 DEF SameEnds
<1>8. f = g
  BY <1>3, <1>4, <1>6, <1>7, AlikeEqual
<1> QED
  BY <1>1, <1>8

\* What a page of versions makes of v.
PagedAs(s, page, m, v, w) ==
    /\ v \in Version /\ w \in Version /\ Alike(v, w)
    /\ \/ <<m, v.id>> \notin page /\ w = v
       \/ /\ <<m, v.id>> \in page
          /\ \A i \in DOMAIN v.refs : w.refs[i] = Ends(s, i, v.refs[i])

\* The messages of s after a page of versions.
PagedMessages(s, page) ==
    [m \in Msgs |->
       [s.messages[m] EXCEPT !.versions = [k \in DOMAIN s.messages[m].versions |->
          IF <<m, s.messages[m].versions[k].id>> \in page
          THEN Given(s, s.messages[m].versions[k])
          ELSE s.messages[m].versions[k]]]]

\* t is what a page of versions leaves of s.
VersionsPaged(s, t, kind, scope, page) ==
    /\ t \in ArchiveState /\ BodiesValid(t) /\ Waiting(t, scope)
    /\ SeenOf(t, kind, scope) = SeenOf(s, kind, scope)
    /\ \A m \in Msgs : \A w \in VersionsOf(t, m) :
         \/ Settled(t, w)
         \/ w \in VersionsOf(s, m) /\ <<m, w.id>> \notin page
    /\ \A v : Settled(s, v) => Settled(t, v)

\* A page of versions takes the copies that are owned, and no more.
LEMMA VersionsPage ==
  ASSUME NEW s \in ArchiveState, BodiesValid(s), NEW kind \in Kinds, NEW scope,
         Waiting(s, scope), NEW page, \A r \in page : InScope(scope, r[1]),
         NEW t, t = [s EXCEPT !.messages = PagedMessages(s, page)]
  PROVE  VersionsPaged(s, t, kind, scope, page)
<1> DEFINE g(m) == [k \in DOMAIN s.messages[m].versions |->
                      IF <<m, s.messages[m].versions[k].id>> \in page
                      THEN Given(s, s.messages[m].versions[k])
                      ELSE s.messages[m].versions[k]]
           ms == [m \in Msgs |-> [s.messages[m] EXCEPT !.versions = g(m)]]
<1>1. ASSUME NEW m \in Msgs, NEW k \in DOMAIN s.messages[m].versions
      PROVE  PagedAs(s, page, m, s.messages[m].versions[k], g(m)[k])
  <2>1. PICK v : v = s.messages[m].versions[k]
    OBVIOUS
  <2>2. v \in Version
    BY <1>1, <2>1, StateFields, MessageFields
  <2>3. /\ Given(s, v) \in Version /\ Alike(v, Given(s, v))
        /\ \A i \in DOMAIN v.refs : Given(s, v).refs[i] = Ends(s, i, v.refs[i])
    BY <2>2, GivenFacts DEF Ends
  <2>4. g(m)[k] = IF <<m, v.id>> \in page THEN Given(s, v) ELSE v
    BY <1>1, <2>1
  <2>5. Alike(v, v)
    BY DEF Alike
  <2> HIDE DEF g
  <2>6. CASE <<m, v.id>> \in page
    BY <2>1, <2>2, <2>3, <2>4, <2>6 DEF PagedAs
  <2>7. CASE <<m, v.id>> \notin page
    BY <2>1, <2>2, <2>4, <2>5, <2>7 DEF PagedAs
  <2> QED
    BY <2>6, <2>7
<1>2. \A m \in Msgs : g(m) \in [DOMAIN s.messages[m].versions -> Version]
  BY <1>1 DEF PagedAs
<1> HIDE DEF g
<1>3. ASSUME NEW m \in Msgs
      PROVE  /\ ms[m] \in Message /\ MessageAlike(s.messages[m], ms[m])
             /\ DOMAIN ms[m].versions = DOMAIN s.messages[m].versions
             /\ \A k \in DOMAIN s.messages[m].versions : ms[m].versions[k] = g(m)[k]
  <2>1. PICK x, y, h : x = s.messages[m] /\ y = ms[m] /\ h = g(m)
    OBVIOUS
  <2>2. x \in Message /\ h \in [DOMAIN x.versions -> Version]
    BY <1>2, <2>1, StateFields
  <2>3. y = [x EXCEPT !.versions = h]
    BY <2>1
  <2>4. /\ y \in Message /\ DOMAIN y.versions = DOMAIN x.versions
        /\ \A k \in DOMAIN x.versions : y.versions[k] = h[k]
        /\ y.deleted = x.deleted /\ y.purged = x.purged
        /\ y.order = x.order /\ y.receipts = x.receipts
    BY <2>2, <2>3, VersionsMapped
  <2>5. \A k \in DOMAIN x.versions : Alike(x.versions[k], h[k])
    BY <1>1, <2>1 DEF PagedAs
  <2>6. MessageAlike(x, y)
    BY <2>4, <2>5 DEF MessageAlike
  <2> QED
    BY <2>1, <2>4, <2>6
<1>4. /\ t \in ArchiveState /\ t.messages = ms /\ t.jobs = s.jobs /\ t.leases = s.leases
      /\ t.blobs = s.blobs /\ t.account = s.account /\ t.chats = s.chats
  <2>1. t = [s EXCEPT !.messages = ms]
    BY DEF PagedMessages, g
  <2>2. ms \in [Msgs -> Message]
    BY <1>3
  <2> HIDE DEF ms
  <2> QED
    BY <2>1, <2>2 DEF ArchiveState
<1> HIDE DEF ms
<1>5. \A m \in Msgs : /\ s.messages[m] \in Message /\ t.messages[m] \in Message
                      /\ MessageAlike(s.messages[m], t.messages[m])
                      /\ DOMAIN t.messages[m].versions = DOMAIN s.messages[m].versions
  BY <1>3, <1>4, StateFields
<1>6. \A m \in Msgs : \A k \in DOMAIN s.messages[m].versions :
        PagedAs(s, page, m, s.messages[m].versions[k], t.messages[m].versions[k])
  BY <1>1, <1>3, <1>4
<1>7. SameBodies(s.messages, t.messages) /\ BodiesValid(t)
  BY <1>4, <1>5, SameBodiesValid DEF SameBodies
<1>8. Owned(t) = Owned(s)
  <2>1. ASSUME NEW i \in Owned(t) PROVE i \in Owned(s)
    <3>1. PICK m \in Msgs : \E k \in DOMAIN t.messages[m].versions :
            /\ i \in DOMAIN t.messages[m].versions[k].refs
            /\ t.messages[m].versions[k].refs[i] = "Complete"
      BY OwnedBy
    <3>2. PICK k \in DOMAIN t.messages[m].versions :
            /\ i \in DOMAIN t.messages[m].versions[k].refs
            /\ t.messages[m].versions[k].refs[i] = "Complete"
      BY <3>1
    <3>3. PICK v, w : v = s.messages[m].versions[k] /\ w = t.messages[m].versions[k]
      OBVIOUS
    <3>4. k \in DOMAIN s.messages[m].versions
      BY <1>5
    <3>5. PagedAs(s, page, m, v, w)
      BY <1>6, <3>3, <3>4
    <3>6. i \in DOMAIN v.refs /\ (v.refs[i] = "Complete" \/ i \in Owned(s))
      <4>1. i \in DOMAIN v.refs /\ w.refs[i] = "Complete"
        BY <3>2, <3>3, <3>5 DEF PagedAs, Alike
      <4>2. CASE w = v
        BY <4>1, <4>2
      <4>3. CASE w.refs[i] = Ends(s, i, v.refs[i])
        BY <4>1, <4>3 DEF Ends
      <4> QED
        BY <3>5, <4>1, <4>2, <4>3 DEF PagedAs
    <3> QED
      BY <3>3, <3>4, <3>6, OwnedBy
  <2>2. ASSUME NEW i \in Owned(s) PROVE i \in Owned(t)
    <3>1. PICK m \in Msgs : \E k \in DOMAIN s.messages[m].versions :
            /\ i \in DOMAIN s.messages[m].versions[k].refs
            /\ s.messages[m].versions[k].refs[i] = "Complete"
      BY OwnedBy
    <3>2. PICK k \in DOMAIN s.messages[m].versions :
            /\ i \in DOMAIN s.messages[m].versions[k].refs
            /\ s.messages[m].versions[k].refs[i] = "Complete"
      BY <3>1
    <3>3. PICK v, w : v = s.messages[m].versions[k] /\ w = t.messages[m].versions[k]
      OBVIOUS
    <3>4. k \in DOMAIN t.messages[m].versions
      BY <1>5
    <3>5. PagedAs(s, page, m, v, w)
      BY <1>6, <3>2, <3>3
    <3>6. i \in DOMAIN w.refs /\ w.refs[i] = "Complete"
      BY <3>2, <3>3, <3>5 DEF PagedAs, Alike, Ends
    <3> QED
      BY <3>3, <3>4, <3>6, OwnedBy
  <2> QED
    BY <2>1, <2>2
<1>9. ASSUME NEW m \in Msgs, ~InScope(scope, m) PROVE t.messages[m] = s.messages[m]
  <2>1. \A id : <<m, id>> \notin page
    BY <1>9
  <2>2. PICK x, y : x = s.messages[m] /\ y = t.messages[m]
    OBVIOUS
  <2>3. \A k \in DOMAIN x.versions : y.versions[k] = x.versions[k]
    BY <1>6, <2>1, <2>2 DEF PagedAs
  <2>4. x \in Message /\ y \in Message /\ MessageAlike(x, y)
    BY <1>5, <2>2
  <2>5. x = y
    BY <2>3, <2>4, AlikeEqual
  <2> QED
    BY <2>2, <2>5
<1>10. Ending(s, t, scope)
  BY <1>4, <1>9 DEF Ending
<1>11. Waiting(t, scope)
  <2>1. StagedBefore(s, t)
    <3>1. SUFFICES ASSUME NEW m \in Msgs, NEW k \in DOMAIN t.messages[m].versions,
                          NEW i \in DOMAIN t.messages[m].versions[k].refs,
                          t.messages[m].versions[k].refs[i] = "Staged"
                   PROVE  /\ k \in DOMAIN s.messages[m].versions
                          /\ s.messages[m].versions[k].id = t.messages[m].versions[k].id
                          /\ i \in DOMAIN s.messages[m].versions[k].refs
                          /\ s.messages[m].versions[k].refs[i] = "Staged"
      BY DEF StagedBefore
    <3>2. k \in DOMAIN s.messages[m].versions
      BY <1>5
    <3>3. PICK v, w : v = s.messages[m].versions[k] /\ w = t.messages[m].versions[k]
      OBVIOUS
    <3>4. PagedAs(s, page, m, v, w)
      BY <1>6, <3>2, <3>3
    <3>5. i \in DOMAIN v.refs /\ w.id = v.id /\ v.refs[i] = "Staged"
      <4>1. i \in DOMAIN v.refs /\ w.refs[i] = "Staged" /\ w.id = v.id
        BY <3>1, <3>3, <3>4 DEF PagedAs, Alike
      <4>2. CASE w = v
        BY <4>1, <4>2
      <4>3. CASE w.refs[i] = Ends(s, i, v.refs[i])
        BY <4>1, <4>3 DEF Ends
      <4> QED
        BY <3>4, <4>1, <4>2, <4>3 DEF PagedAs
    <3> QED
      BY <3>2, <3>3, <3>5
  <2> QED
    BY <1>4, <1>10, <2>1, WaitingStays
<1>12. ASSUME NEW m \in Msgs
       PROVE  Final(t, kind, t.messages[m]) = Final(s, kind, s.messages[m])
  <2>1. PICK x, y : x = s.messages[m] /\ y = t.messages[m]
    OBVIOUS
  <2>2. /\ x \in Message /\ y \in Message /\ MessageAlike(x, y)
        /\ BodyValid(x) /\ BodyValid(y)
    BY <1>5, <1>7, <2>1 DEF BodiesValid
  <2>3. ASSUME NEW k \in DOMAIN x.versions, NEW i \in DOMAIN x.versions[k].refs
        PROVE  Ends(t, i, y.versions[k].refs[i]) = Ends(s, i, x.versions[k].refs[i])
    <3>1. PICK v, w : v = x.versions[k] /\ w = y.versions[k]
      OBVIOUS
    <3>2. PagedAs(s, page, m, v, w)
      BY <1>6, <2>1, <3>1
    <3>3. w.refs[i] = v.refs[i] \/ w.refs[i] = Ends(s, i, v.refs[i])
      BY <2>3, <3>1, <3>2 DEF PagedAs
    <3> QED
      BY <1>8, <3>1, <3>3 DEF Ends
  <2>4. Final(t, kind, y) = Final(s, kind, x)
    <3>1. SameEnds(s, t, kind, x, y)
      BY <2>3 DEF SameEnds
    <3> QED
      BY <2>2, <3>1, FinalSame
  <2> QED
    BY <2>1, <2>4
<1>13. SeenOf(t, kind, scope) = SeenOf(s, kind, scope)
  BY <1>4, <1>7, <1>10, <1>11, <1>12, SameSeen
<1>14. \A v : Settled(s, v) => Settled(t, v)
  BY <1>8 DEF Settled
<1>15. ASSUME NEW m \in Msgs, NEW k \in DOMAIN t.messages[m].versions
       PROVE  \E v \in VersionsOf(s, m) :
                /\ t.messages[m].versions[k].id = v.id
                /\ IF <<m, v.id>> \in page THEN Settled(t, t.messages[m].versions[k])
                   ELSE t.messages[m].versions[k] = v
  <2>1. PICK v, w : v = s.messages[m].versions[k] /\ w = t.messages[m].versions[k]
    OBVIOUS
  <2>2. k \in DOMAIN s.messages[m].versions
    BY <1>5
  <2>3. /\ Alike(v, w) /\ (<<m, v.id>> \notin page => w = v)
        /\ <<m, v.id>> \in page => \A i \in DOMAIN v.refs : w.refs[i] = Ends(s, i, v.refs[i])
    <3>1. PagedAs(s, page, m, v, w)
      BY <1>6, <2>1, <2>2
    <3> QED
      BY <3>1 DEF PagedAs
  <2>4. <<m, v.id>> \in page => Settled(t, w)
    BY <1>8, <2>3 DEF Settled, Ends, Alike
  <2>5. v \in VersionsOf(s, m) /\ w.id = v.id
    BY <2>1, <2>2, <2>3 DEF VersionsOf, Alike
  <2> QED
    BY <2>1, <2>3, <2>4, <2>5
<1>16. ASSUME NEW m \in Msgs, NEW w \in VersionsOf(t, m)
       PROVE  \E v \in VersionsOf(s, m) :
                w.id = v.id /\ IF <<m, v.id>> \in page THEN Settled(t, w) ELSE w = v
  <2>1. PICK k \in DOMAIN t.messages[m].versions : w = t.messages[m].versions[k]
    BY DEF VersionsOf
  <2> QED
    BY <1>15, <2>1
<1>17. ASSUME NEW m \in Msgs, NEW w \in VersionsOf(t, m)
       PROVE  Settled(t, w) \/ (w \in VersionsOf(s, m) /\ <<m, w.id>> \notin page)
  <2>1. PICK v \in VersionsOf(s, m) :
          w.id = v.id /\ IF <<m, v.id>> \in page THEN Settled(t, w) ELSE w = v
    BY <1>16
  <2> QED
    BY <2>1
<1> QED
  BY <1>4, <1>7, <1>11, <1>13, <1>14, <1>17 DEF VersionsPaged

\* A settled body has nothing to gain or to give up.
LEMMA GivenSettled ==
  ASSUME NEW s, NEW v \in Version, Settled(s, v)
  PROVE  Given(s, v) = v
<1>1. PICK w : w = Given(s, v)
  OBVIOUS
<1>2. /\ w \in Version /\ Alike(v, w)
      /\ \A i \in DOMAIN v.refs : w.refs[i] = Ends(s, i, v.refs[i])
  BY <1>1, GivenFacts DEF Ends
<1>3. \A i \in DOMAIN v.refs : w.refs[i] = v.refs[i]
  BY <1>2 DEF Settled, Ends
<1>4. w.refs = v.refs
  <2>1. v.refs \in [DOMAIN v.refs -> RefStates] /\ w.refs \in [DOMAIN w.refs -> RefStates]
    BY <1>2, VersionFields
  <2> QED
    BY <1>2, <1>3, <2>1 DEF Alike
<1>5. w = v
  BY <1>2, <1>4, VersionFields DEF Alike
<1> QED
  BY <1>1, <1>5

\* A message whose bodies are settled ends as what is kept of it.
LEMMA FinalSettled ==
  ASSUME NEW s, NEW x \in Message, BodyValid(x), NEW kind,
         \A k \in DOMAIN Kept(kind, x).versions : Settled(s, Kept(kind, x).versions[k])
  PROVE  Final(s, kind, x) = Kept(kind, x)
<1>1. PICK p, f : p = Kept(kind, x) /\ f = Final(s, kind, x)
  OBVIOUS
<1>2. p \in Message
  <2>1. Kept(kind, x) \in Message
    BY KeptFacts
  <2> QED
    BY <1>1, <2>1
<1>3. /\ f \in Message /\ MessageAlike(p, f)
      /\ \A k \in DOMAIN p.versions : f.versions[k] = Given(s, p.versions[k])
  <2>1. /\ Final(s, kind, x) \in Message
        /\ MessageAlike(Kept(kind, x), Final(s, kind, x))
        /\ \A k \in DOMAIN Kept(kind, x).versions :
             Final(s, kind, x).versions[k] = Given(s, Kept(kind, x).versions[k])
    BY FinalFacts
  <2> QED
    BY <1>1, <2>1
<1>4. \A k \in DOMAIN p.versions : p.versions[k] \in Version /\ Settled(s, p.versions[k])
  BY <1>1, <1>2, MessageFields
<1>5. \A k \in DOMAIN p.versions : f.versions[k] = p.versions[k]
  BY <1>3, <1>4, GivenSettled
<1>6. p = f
  BY <1>2, <1>3, <1>5, AlikeEqual
<1> QED
  BY <1>1, <1>6

\* y has ended, with the bodies of x.
HasEnded(s, kind, x, y) ==
    /\ y \in Message /\ BodyValid(y) /\ Kept(kind, y) = y
    /\ \A k \in DOMAIN y.versions : Settled(s, y.versions[k])
    /\ \A k \in DOMAIN y.versions : \E n \in DOMAIN x.versions :
         /\ Alike(x.versions[n], y.versions[k])
         /\ \A i \in DOMAIN x.versions[n].refs :
              y.versions[k].refs[i] = Ends(s, i, x.versions[n].refs[i])

\* A message that has ended stays as it is, and its bodies are settled.
LEMMA FinalOnce ==
  ASSUME NEW s, NEW x \in Message, BodyValid(x), NEW kind \in Kinds
  PROVE  HasEnded(s, kind, x, Final(s, kind, x))
<1> DEFINE y == Final(s, kind, x)
<1> SUFFICES HasEnded(s, kind, x, y)
  OBVIOUS
<1>1. PICK p : p = Kept(kind, x)
  OBVIOUS
<1>2. /\ p \in Message /\ BodyValid(p)
      /\ \A k \in DOMAIN p.versions : \E n \in DOMAIN x.versions : p.versions[k] = x.versions[n]
  <2>1. /\ Kept(kind, x) \in Message /\ BodyValid(Kept(kind, x))
        /\ \A k \in DOMAIN Kept(kind, x).versions :
             \E n \in DOMAIN x.versions : Kept(kind, x).versions[k] = x.versions[n]
    BY KeptFacts
  <2> QED
    BY <1>1, <2>1
<1>3. /\ y \in Message /\ MessageAlike(p, y)
      /\ \A k \in DOMAIN p.versions : y.versions[k] = Given(s, p.versions[k])
  <2>1. /\ Final(s, kind, x) \in Message
        /\ MessageAlike(Kept(kind, x), Final(s, kind, x))
        /\ \A k \in DOMAIN Kept(kind, x).versions :
             Final(s, kind, x).versions[k] = Given(s, Kept(kind, x).versions[k])
    BY FinalFacts
  <2> QED
    BY <1>1, <2>1
<1> HIDE DEF y
<1>4. BodyValid(y)
  BY <1>2, <1>3, AlikeValid
<1>5. \A k \in DOMAIN y.versions :
         /\ k \in DOMAIN p.versions /\ p.versions[k] \in Version
         /\ Alike(p.versions[k], y.versions[k])
         /\ \A i \in DOMAIN p.versions[k].refs :
              y.versions[k].refs[i] = Ends(s, i, p.versions[k].refs[i])
  BY <1>2, <1>3, GivenFacts, MessageFields DEF MessageAlike, Ends
<1>6. ASSUME NEW k \in DOMAIN y.versions PROVE Settled(s, y.versions[k])
  <2>1. PICK v, w : v = p.versions[k] /\ w = y.versions[k]
    OBVIOUS
  <2>2. /\ Alike(v, w) /\ \A i \in DOMAIN v.refs : w.refs[i] = Ends(s, i, v.refs[i])
    BY <1>5, <2>1
  <2>3. Settled(s, w)
    BY <2>2 DEF Settled, Alike, Ends
  <2> QED
    BY <2>1, <2>3
<1>7. ASSUME NEW k \in DOMAIN y.versions
      PROVE  \E n \in DOMAIN x.versions :
               /\ Alike(x.versions[n], y.versions[k])
               /\ \A i \in DOMAIN x.versions[n].refs :
                    y.versions[k].refs[i] = Ends(s, i, x.versions[n].refs[i])
  <2>1. PICK n \in DOMAIN x.versions : p.versions[k] = x.versions[n]
    BY <1>2, <1>5
  <2> QED
    BY <1>5, <2>1
<1>8. /\ DOMAIN p.versions = 1..Len(p.versions) /\ Len(p.versions) \in Nat
      /\ DOMAIN y.versions = 1..Len(y.versions) /\ Len(y.versions) \in Nat
      /\ DOMAIN x.versions = 1..Len(x.versions) /\ Len(x.versions) \in Nat
      /\ y.versions \in Seq(Version)
  BY <1>2, <1>3, MessageFields
<1>9. Len(y.versions) = Len(p.versions)
  BY <1>3, <1>8 DEF MessageAlike
<1>10. CASE kind = "Trashbin" /\ x.deleted
  <2>1. p = [x EXCEPT !.versions = <<>>, !.purged = TRUE]
    BY <1>1, <1>10 DEF Kept
  <2>2. p.versions = <<>> /\ p.purged = TRUE /\ p.deleted = x.deleted
    BY <2>1 DEF Message
  <2>3. Len(y.versions) = 0
    BY <1>9, <2>2
  <2>4. y.versions = <<>> /\ y.purged = TRUE /\ y.deleted
    BY <1>3, <1>8, <1>10, <2>2, <2>3 DEF MessageAlike
  <2>5. Kept(kind, y) = [y EXCEPT !.versions = <<>>, !.purged = TRUE]
    BY <1>10, <2>4 DEF Kept
  <2>6. Kept(kind, y) = y
    BY <1>3, <2>4, <2>5 DEF Message
  <2> QED
    BY <1>3, <1>4, <1>6, <1>7, <2>6 DEF HasEnded
<1>11. CASE kind = "EditHistory" /\ x.versions # <<>>
  <2>1. PICK v : v = Newest(x.versions)
    OBVIOUS
  <2>2. p = [x EXCEPT !.versions = <<v>>]
    BY <1>1, <1>11, <2>1 DEF Kept
  <2>3. p.versions = <<v>>
    BY <2>2 DEF Message
  <2>4. Len(y.versions) = 1
    BY <1>9, <2>3
  <2>5. PICK w : w = y.versions[1]
    OBVIOUS
  <2>6. y.versions = <<w>>
    BY <1>8, <2>4, <2>5
  <2>7. y.versions # <<>> /\ Newest(y.versions) = w
    BY <2>4, <2>5, <2>6 DEF Newest
  <2>8. Kept(kind, y) = [y EXCEPT !.versions = <<w>>]
    BY <1>11, <2>7 DEF Kept
  <2>9. Kept(kind, y) = y
    BY <1>3, <2>6, <2>8 DEF Message
  <2> QED
    BY <1>3, <1>4, <1>6, <1>7, <2>9 DEF HasEnded
<1>12. CASE ~(kind = "Trashbin" /\ x.deleted) /\ ~(kind = "EditHistory" /\ x.versions # <<>>)
  <2>1. p = x
    BY <1>1, <1>12 DEF Kept
  <2>2. y.deleted = x.deleted
    BY <1>3, <2>1 DEF MessageAlike
  <2>3. x.versions = <<>> => y.versions = <<>>
    <3>1. ASSUME x.versions = <<>> PROVE Len(y.versions) = 0
      BY <1>9, <2>1, <3>1
    <3> QED
      BY <1>8, <3>1
  <2>4. Kept(kind, y) = y
    BY <1>12, <2>2, <2>3 DEF Kept
  <2> QED
    BY <1>3, <1>4, <1>6, <1>7, <2>4 DEF HasEnded
<1> QED
  BY <1>10, <1>11, <1>12
\* The messages of s after a page of messages.
EndedMessages(s, kind, page) ==
    [m \in Msgs |-> IF m \in page THEN Final(s, kind, s.messages[m]) ELSE s.messages[m]]

\* t is what a page of messages leaves of s.
MessagesPaged(s, t, kind, scope, page) ==
    /\ t \in ArchiveState /\ BodiesValid(t) /\ Waiting(t, scope)
    /\ SeenOf(t, kind, scope) = SeenOf(s, kind, scope)
    /\ VersionsDone(t, kind, scope)
    /\ \A m \in Msgs : IF m \in page THEN Kept(kind, t.messages[m]) = t.messages[m]
                       ELSE t.messages[m] = s.messages[m]

\* A page of messages ends them.
LEMMA MessagesPage ==
  ASSUME NEW s \in ArchiveState, BodiesValid(s), NEW kind \in Kinds, NEW scope,
         Waiting(s, scope), VersionsDone(s, kind, scope),
         NEW page, \A m \in page : InScope(scope, m), NEW t,
         t = [s EXCEPT !.messages = EndedMessages(s, kind, page)]
  PROVE  MessagesPaged(s, t, kind, scope, page)
<1> DEFINE ms == [m \in Msgs |->
                    IF m \in page THEN Final(s, kind, s.messages[m]) ELSE s.messages[m]]
<1>1. ASSUME NEW m \in Msgs
      PROVE  /\ ms[m] \in Message /\ BodyValid(ms[m])
             /\ s.messages[m] \in Message /\ BodyValid(s.messages[m])
             /\ \A k \in DOMAIN ms[m].versions : \E n \in DOMAIN s.messages[m].versions :
                  /\ ms[m].versions[k].id = s.messages[m].versions[n].id
                  /\ DOMAIN ms[m].versions[k].refs = DOMAIN s.messages[m].versions[n].refs
                  /\ \A i \in DOMAIN s.messages[m].versions[n].refs :
                       \/ ms[m].versions[k].refs[i] = s.messages[m].versions[n].refs[i]
                       \/ ms[m].versions[k].refs[i] =
                            Ends(s, i, s.messages[m].versions[n].refs[i])
             /\ IF m \in page
                THEN /\ Kept(kind, ms[m]) = ms[m]
                     /\ \A k \in DOMAIN ms[m].versions : Settled(s, ms[m].versions[k])
                ELSE ms[m] = s.messages[m]
             /\ m \in page => ms[m] = Final(s, kind, s.messages[m])
  <2>1. PICK x, y : x = s.messages[m] /\ y = ms[m]
    OBVIOUS
  <2>2. x \in Message /\ BodyValid(x)
    BY <2>1, StateFields DEF BodiesValid
  <2>3. CASE m \in page
    <3>1. y = Final(s, kind, x)
      BY <2>1, <2>3
    <3> HIDE DEF ms
    <3>2. HasEnded(s, kind, x, y)
      BY <2>2, <3>1, FinalOnce
    <3>3. \A k \in DOMAIN y.versions : \E n \in DOMAIN x.versions :
            /\ y.versions[k].id = x.versions[n].id
            /\ DOMAIN y.versions[k].refs = DOMAIN x.versions[n].refs
            /\ \A i \in DOMAIN x.versions[n].refs :
                 \/ y.versions[k].refs[i] = x.versions[n].refs[i]
                 \/ y.versions[k].refs[i] = Ends(s, i, x.versions[n].refs[i])
      BY <3>2 DEF Alike, HasEnded
    <3> QED
      BY <2>1, <2>2, <2>3, <3>1, <3>2, <3>3 DEF HasEnded
  <2>4. CASE m \notin page
    <3>1. y = x
      BY <2>1, <2>4
    <3>2. \A k \in DOMAIN y.versions : \E n \in DOMAIN x.versions :
            /\ y.versions[k].id = x.versions[n].id
            /\ DOMAIN y.versions[k].refs = DOMAIN x.versions[n].refs
            /\ \A i \in DOMAIN x.versions[n].refs :
                 \/ y.versions[k].refs[i] = x.versions[n].refs[i]
                 \/ y.versions[k].refs[i] = Ends(s, i, x.versions[n].refs[i])
      BY <3>1
    <3> HIDE DEF ms
    <3> QED
      BY <2>1, <2>2, <2>4, <3>1, <3>2
  <2> QED
    BY <2>3, <2>4
<1>2. /\ t \in ArchiveState /\ t.messages = ms /\ t.jobs = s.jobs /\ t.leases = s.leases
      /\ t.blobs = s.blobs /\ t.account = s.account /\ t.chats = s.chats
  <2>1. t = [s EXCEPT !.messages = ms]
    BY DEF EndedMessages
  <2>2. ms \in [Msgs -> Message]
    BY <1>1
  <2> HIDE DEF ms
  <2> QED
    BY <2>1, <2>2 DEF ArchiveState
<1> HIDE DEF ms
<1>3. BodiesValid(t)
  BY <1>1, <1>2 DEF BodiesValid
<1>4. ASSUME NEW m \in Msgs, NEW k \in DOMAIN t.messages[m].versions,
             NEW i \in DOMAIN t.messages[m].versions[k].refs
      PROVE  \E n \in DOMAIN s.messages[m].versions :
               /\ s.messages[m].versions[n].id = t.messages[m].versions[k].id
               /\ i \in DOMAIN s.messages[m].versions[n].refs
               /\ \/ t.messages[m].versions[k].refs[i] = s.messages[m].versions[n].refs[i]
                  \/ t.messages[m].versions[k].refs[i] =
                       Ends(s, i, s.messages[m].versions[n].refs[i])
  BY <1>1, <1>2
<1>5. Owned(t) \subseteq Owned(s)
  <2>1. ASSUME NEW i \in Owned(t) PROVE i \in Owned(s)
    <3>1. PICK m \in Msgs : \E k \in DOMAIN t.messages[m].versions :
            /\ i \in DOMAIN t.messages[m].versions[k].refs
            /\ t.messages[m].versions[k].refs[i] = "Complete"
      BY OwnedBy
    <3>2. PICK k \in DOMAIN t.messages[m].versions :
            /\ i \in DOMAIN t.messages[m].versions[k].refs
            /\ t.messages[m].versions[k].refs[i] = "Complete"
      BY <3>1
    <3>3. PICK n \in DOMAIN s.messages[m].versions :
            /\ i \in DOMAIN s.messages[m].versions[n].refs
            /\ \/ t.messages[m].versions[k].refs[i] = s.messages[m].versions[n].refs[i]
               \/ t.messages[m].versions[k].refs[i] =
                    Ends(s, i, s.messages[m].versions[n].refs[i])
      BY <1>4, <3>2
    <3>4. PICK a : a = s.messages[m].versions[n].refs[i]
      OBVIOUS
    <3>5. a = "Complete" \/ i \in Owned(s)
      BY <3>2, <3>3, <3>4 DEF Ends
    <3> QED
      BY <3>3, <3>4, <3>5, OwnedBy
  <2> QED
    BY <2>1
<1>6. \A v : Settled(s, v) => Settled(t, v)
  BY <1>5 DEF Settled
<1>7. ASSUME NEW m \in Msgs, InScope(scope, m)
      PROVE  /\ \A k \in DOMAIN Kept(kind, t.messages[m]).versions :
                  Settled(t, Kept(kind, t.messages[m]).versions[k])
             /\ Final(t, kind, t.messages[m]) = Final(s, kind, s.messages[m])
  <2>1. PICK x, y : x = s.messages[m] /\ y = t.messages[m]
    OBVIOUS
  <2>2. x \in Message /\ BodyValid(x) /\ y \in Message /\ BodyValid(y)
    BY <1>1, <1>2, <2>1
  <2>3. CASE m \in page
    <3>1. /\ Kept(kind, y) = y /\ \A k \in DOMAIN y.versions : Settled(s, y.versions[k])
          /\ y = Final(s, kind, x)
      BY <1>1, <1>2, <2>1, <2>3
    <3>2. \A k \in DOMAIN Kept(kind, y).versions : Settled(t, Kept(kind, y).versions[k])
      BY <1>6, <3>1
    <3>3. Final(t, kind, y) = Kept(kind, y)
      BY <2>2, <3>2, FinalSettled
    <3> QED
      BY <2>1, <3>1, <3>2, <3>3
  <2>4. CASE m \notin page
    <3>1. y = x
      BY <1>1, <1>2, <2>1, <2>4
    <3>2. \A k \in DOMAIN Kept(kind, x).versions : Settled(s, Kept(kind, x).versions[k])
      BY <1>7, <2>1 DEF VersionsDone
    <3>3. \A k \in DOMAIN Kept(kind, x).versions : Settled(t, Kept(kind, x).versions[k])
      BY <1>6, <3>2
    <3>4. Final(s, kind, x) = Kept(kind, x)
      BY <2>2, <3>2, FinalSettled
    <3>5. Final(t, kind, x) = Kept(kind, x)
      BY <2>2, <3>3, FinalSettled
    <3> QED
      BY <2>1, <3>1, <3>3, <3>4, <3>5
  <2> QED
    BY <2>3, <2>4
<1>8. Ending(s, t, scope)
  <2>1. \A m \in Msgs : ~InScope(scope, m) => t.messages[m] = s.messages[m]
    BY <1>1, <1>2
  <2> QED
    BY <1>2, <2>1 DEF Ending
<1>9. StagedBefore(s, t)
  <2>1. ASSUME NEW m \in Msgs, NEW k \in DOMAIN t.messages[m].versions,
               NEW i \in DOMAIN t.messages[m].versions[k].refs,
               t.messages[m].versions[k].refs[i] = "Staged"
        PROVE  \E n \in DOMAIN s.messages[m].versions :
                 /\ s.messages[m].versions[n].id = t.messages[m].versions[k].id
                 /\ i \in DOMAIN s.messages[m].versions[n].refs
                 /\ s.messages[m].versions[n].refs[i] = "Staged"
    <3>1. PICK n \in DOMAIN s.messages[m].versions :
            /\ s.messages[m].versions[n].id = t.messages[m].versions[k].id
            /\ i \in DOMAIN s.messages[m].versions[n].refs
            /\ \/ t.messages[m].versions[k].refs[i] = s.messages[m].versions[n].refs[i]
               \/ t.messages[m].versions[k].refs[i] =
                    Ends(s, i, s.messages[m].versions[n].refs[i])
      BY <1>4, <2>1
    <3>2. PICK a : a = s.messages[m].versions[n].refs[i]
      OBVIOUS
    <3>3. a = "Staged"
      BY <2>1, <3>1, <3>2 DEF Ends
    <3> QED
      BY <3>1, <3>2, <3>3
  <2> QED
    BY <2>1 DEF StagedBefore
<1>10. Waiting(t, scope)
  BY <1>2, <1>8, <1>9, WaitingStays
<1>11. SeenOf(t, kind, scope) = SeenOf(s, kind, scope)
  BY <1>2, <1>3, <1>7, <1>8, <1>10, SameSeen
<1>12. VersionsDone(t, kind, scope)
  BY <1>7 DEF VersionsDone
<1>13. \A m \in Msgs : IF m \in page THEN Kept(kind, t.messages[m]) = t.messages[m]
                       ELSE t.messages[m] = s.messages[m]
  BY <1>1, <1>2
<1> QED
  BY <1>2, <1>3, <1>10, <1>11, <1>12, <1>13 DEF MessagesPaged

\* Nothing waits in the scope once its messages have ended.
LEMMA NoneWaits ==
  ASSUME NEW s, NEW kind, NEW scope, VersionsDone(s, kind, scope), MessagesDone(s, kind, scope),
         NEW m \in Msgs, InScope(scope, m), NEW k \in DOMAIN s.messages[m].versions,
         NEW i \in DOMAIN s.messages[m].versions[k].refs
  PROVE  s.messages[m].versions[k].refs[i] # "Staged"
<1>1. Settled(s, s.messages[m].versions[k])
  <2>1. Kept(kind, s.messages[m]) = s.messages[m]
    BY DEF MessagesDone
  <2> QED
    BY <2>1 DEF VersionsDone
<1> QED
  BY <1>1 DEF Settled

\* A page of jobs or readers leaves the messages alone.
LEMMA EndingPage ==
  ASSUME NEW s \in ArchiveState, BodiesValid(s), NEW kind \in Kinds, NEW scope,
         Waiting(s, scope), VersionsDone(s, kind, scope), MessagesDone(s, kind, scope),
         NEW t \in ArchiveState, t.messages = s.messages, Ending(s, t, scope)
  PROVE  /\ BodiesValid(t) /\ Waiting(t, scope)
         /\ SeenOf(t, kind, scope) = SeenOf(s, kind, scope)
         /\ VersionsDone(t, kind, scope) /\ MessagesDone(t, kind, scope)
<1>1. BodiesValid(t)
  BY DEF BodiesValid
<1>2. Owned(t) = Owned(s)
  BY DEF Owned, VersionsOf
<1>3. VersionsDone(t, kind, scope) /\ MessagesDone(t, kind, scope)
  BY <1>2 DEF VersionsDone, MessagesDone, Settled
<1>4. StagedBefore(s, t)
  BY DEF StagedBefore
<1>5. Waiting(t, scope)
  BY <1>3, <1>4, NoneWaits, WaitingStays
<1>6. ASSUME NEW m \in Msgs PROVE Final(t, kind, t.messages[m]) = Final(s, kind, s.messages[m])
  BY <1>2 DEF Final, Given
<1>7. SeenOf(t, kind, scope) = SeenOf(s, kind, scope)
  BY <1>1, <1>5, <1>6, SameSeen
<1> QED
  BY <1>1, <1>3, <1>5, <1>7
---------------------------------------------------------------------------
(* The steps of a purge.                                                   *)

\* What a page makes of a message is what it ends as.
LEMMA PurgedIsFinal ==
  ASSUME NEW msg \in Message, BodyValid(msg), journal.kind \in Kinds,
         IF journal.kind = "Trashbin" THEN msg.deleted ELSE msg.versions # <<>>
  PROVE  PurgedMessage(msg) = Final(db, journal.kind, msg)
<1>1. PICK kind, p, f : /\ kind = journal.kind /\ p = Kept(kind, msg)
                        /\ f = Final(db, kind, msg)
  OBVIOUS
<1>2. p \in Message
  <2>1. Kept(kind, msg) \in Message
    BY KeptFacts
  <2> QED
    BY <1>1, <2>1
<1>3. /\ f \in Message /\ MessageAlike(p, f)
      /\ \A k \in DOMAIN p.versions : f.versions[k] = Given(db, p.versions[k])
  <2>1. /\ Final(db, kind, msg) \in Message
        /\ MessageAlike(Kept(kind, msg), Final(db, kind, msg))
        /\ \A k \in DOMAIN Kept(kind, msg).versions :
             Final(db, kind, msg).versions[k] = Given(db, Kept(kind, msg).versions[k])
    BY FinalFacts
  <2> QED
    BY <1>1, <2>1
<1>4. CASE kind = "Trashbin"
  <2>1. PurgedMessage(msg) = [msg EXCEPT !.versions = <<>>, !.purged = TRUE]
    BY <1>1, <1>4 DEF PurgedMessage
  <2>2. p = [msg EXCEPT !.versions = <<>>, !.purged = TRUE]
    BY <1>1, <1>4 DEF Kept
  <2>3. DOMAIN p.versions = {}
    BY <2>2 DEF Message
  <2>4. p = f
    BY <1>2, <1>3, <2>3, AlikeEqual
  <2> QED
    BY <1>1, <2>1, <2>2, <2>4
<1>5. CASE kind = "EditHistory"
  <2>1. PICK v : v = Newest(msg.versions)
    OBVIOUS
  <2>2. v \in Version
    <3>1. /\ msg.versions \in Seq(Version) /\ Len(msg.versions) \in Nat
          /\ (Len(msg.versions) = 0 => msg.versions = <<>>)
      BY MessageFields
    <3>2. Len(msg.versions) \in DOMAIN msg.versions
      BY <1>1, <1>5, <3>1
    <3> QED
      BY <2>1, <3>2, MessageFields DEF Newest
  <2>3. PICK w : w = Given(db, v)
    OBVIOUS
  <2>4. Reconciled(v) = w
    BY <2>3 DEF Reconciled, ReconciledRefs, Given
  <2>5. PICK q : q = PurgedMessage(msg)
    OBVIOUS
  <2>6. q = [msg EXCEPT !.versions = <<w>>]
    BY <1>1, <1>5, <2>1, <2>4, <2>5 DEF PurgedMessage
  <2>7. p = [msg EXCEPT !.versions = <<v>>]
    BY <1>1, <1>5, <2>1 DEF Kept
  <2>8. w \in Version
    BY <2>2, <2>3, GivenFacts
  <2>9. <<w>> \in Seq(Version)
    BY <2>8
  <2>10. /\ q \in Message /\ q.versions = <<w>>
         /\ q.deleted = p.deleted /\ q.purged = p.purged
         /\ q.order = p.order /\ q.receipts = p.receipts
    BY <2>6, <2>7, <2>9 DEF Message
  <2>11. p.versions = <<v>>
    BY <2>7 DEF Message
  <2>12. DOMAIN p.versions = {1} /\ p.versions[1] = v
    BY <2>11
  <2>13. DOMAIN q.versions = {1} /\ q.versions[1] = w
    BY <2>10
  <2>14. f.versions[1] = w /\ DOMAIN f.versions = {1}
    BY <1>3, <2>3, <2>12 DEF MessageAlike
  <2>15. MessageAlike(q, f)
    BY <1>3, <2>10, <2>12, <2>13, <2>14 DEF MessageAlike, Alike
  <2>16. q = f
    BY <1>3, <2>10, <2>13, <2>14, <2>15, AlikeEqual
  <2> QED
    BY <1>1, <2>5, <2>16
<1> QED
  BY <1>1, <1>4, <1>5 DEF Kinds

\* What users see while the archive is closed.
LEMMA SeenClosed ==
  journal # Nothing => Seen = SeenOf(db, journal.kind, journal.scope)
BY DEF Seen, SeenOf

\* Users do not see a page.
LEMMA PageStep ==
  ASSUME journal # Nothing, Underway(db, journal), Page
  PROVE  Seen' = Seen /\ journal' # Nothing /\ Underway(db, journal)'
<1>1. PICK page \in (SUBSET Left) \ {{}} :
        db' = AfterPage(page) /\ journal' = [journal EXCEPT !.passed = @ \cup page]
  BY DEF Page
<1>2. PICK t, j, n : t = db' /\ j = journal /\ n = journal'
  OBVIOUS
<1>3. j \in Journal /\ j.kind \in Kinds
  BY <1>2 DEF Underway, Journal, Kinds
<1>4. page \subseteq Rows
  BY <1>1 DEF Left
<1>5. Rows \subseteq (Msgs \X Ids) \cup Msgs \cup Jobs \cup Leases
  BY DEF Rows, VersionRows, MessageRows, JobRows, LeaseRows
<1>6. /\ n \in Journal /\ n.kind = j.kind /\ n.scope = j.scope
      /\ n.phase = j.phase /\ n.passed = j.passed \cup page
  BY <1>1, <1>2, <1>3, <1>4, <1>5 DEF Journal
<1>7. ASSUME SeenOf(t, j.kind, j.scope) = SeenOf(db, j.kind, j.scope), Underway(t, n)
      PROVE  Seen' = Seen /\ journal' # Nothing /\ Underway(db, journal)'
  <2>1. journal' # Nothing
    BY <1>2, <1>6, SqlAssumption
  <2>2. Seen = SeenOf(db, j.kind, j.scope)
    BY <1>2, SeenClosed
  <2>3. Seen' = SeenOf(t, n.kind, n.scope)
    <3>1. Seen' = Reconcile(Erase(KeepCopies(t, n.kind, n.scope), n.kind, n.scope))
      BY <1>2, <2>1 DEF Seen
    <3> QED
      BY <3>1 DEF SeenOf
  <2> QED
    BY <1>2, <1>6, <1>7, <2>1, <2>2, <2>3
<1>8. /\ db \in ArchiveState /\ BodiesValid(db) /\ Waiting(db, j.scope) /\ PassedDone(db, j)
      /\ j.phase # "Versions" => VersionsDone(db, j.kind, j.scope)
      /\ j.phase \in {"Jobs", "Leases", "Finish"} => MessagesDone(db, j.kind, j.scope)
      /\ j.phase \in {"Leases", "Finish"} => JobsDone(db, j.scope)
  BY <1>2 DEF Underway
<1>9. CASE j.phase = "Versions"
  <2>1. page \subseteq VersionRows
    BY <1>2, <1>4, <1>9 DEF Rows
  <2>2. \A r \in page : InScope(j.scope, r[1])
    BY <1>2, <2>1 DEF VersionRows
  <2>3. \A v : Reconciled(v) = Given(db, v)
    BY DEF Reconciled, ReconciledRefs, Given
  <2>4. t = [db EXCEPT !.messages = PagedMessages(db, page)]
    <3>1. PICK ms : ms = [m \in Msgs |->
            [db.messages[m] EXCEPT !.versions = PagedVersions(page, m)]]
      OBVIOUS
    <3>2. t = [db EXCEPT !.messages = ms]
      BY <1>1, <1>2, <1>9, <3>1 DEF AfterPage
    <3>3. \A m : PagedVersions(page, m) = [k \in DOMAIN db.messages[m].versions |->
            IF <<m, db.messages[m].versions[k].id>> \in page
            THEN Given(db, db.messages[m].versions[k]) ELSE db.messages[m].versions[k]]
      BY <2>3 DEF PagedVersions
    <3>4. ms = PagedMessages(db, page)
      BY <3>1, <3>3, Zenon DEF PagedMessages
    <3> QED
      BY <3>2, <3>4
  <2>5. VersionsPaged(db, t, j.kind, j.scope, page)
    BY <1>3, <1>8, <2>2, <2>4, VersionsPage
  <2>6. PassedDone(t, n)
    BY <1>6, <1>8, <1>9, <2>5 DEF PassedDone, VersionsPaged
  <2> QED
    BY <1>6, <1>7, <1>9, <2>5, <2>6 DEF Underway, VersionsPaged
<1>10. CASE j.phase = "Messages"
  <2>1. page \subseteq MessageRows
    BY <1>2, <1>4, <1>10 DEF Rows
  <2>2. \A m \in page : InScope(j.scope, m)
    BY <1>2, <2>1 DEF MessageRows
  <2>3. ASSUME NEW m \in page
        PROVE  PurgedMessage(db.messages[m]) = Final(db, j.kind, db.messages[m])
    <3>1. /\ m \in Msgs
          /\ IF journal.kind = "Trashbin" THEN db.messages[m].deleted
             ELSE db.messages[m].versions # <<>>
      BY <2>1 DEF MessageRows
    <3>2. db.messages[m] \in Message /\ BodyValid(db.messages[m])
      BY <1>8, <3>1, StateFields DEF BodiesValid
    <3> QED
      BY <1>2, <1>3, <3>1, <3>2, PurgedIsFinal
  <2>4. t = [db EXCEPT !.messages = EndedMessages(db, j.kind, page)]
    <3>1. PICK ms : ms = [m \in Msgs |->
            IF m \in page THEN PurgedMessage(db.messages[m]) ELSE db.messages[m]]
      OBVIOUS
    <3>2. t = [db EXCEPT !.messages = ms]
      BY <1>1, <1>2, <1>10, <3>1 DEF AfterPage
    <3>3. ms = EndedMessages(db, j.kind, page)
      BY <2>3, <3>1 DEF EndedMessages
    <3> QED
      BY <3>2, <3>3
  <2>5. MessagesPaged(db, t, j.kind, j.scope, page)
    BY <1>3, <1>8, <1>10, <2>2, <2>4, MessagesPage
  <2>6. PassedDone(t, n)
    BY <1>6, <1>8, <1>10, <2>5 DEF PassedDone, MessagesPaged
  <2> QED
    BY <1>6, <1>7, <1>10, <2>5, <2>6 DEF Underway, MessagesPaged
<1>11. CASE j.phase = "Jobs"
  <2>1. page \subseteq JobRows
    BY <1>2, <1>4, <1>11 DEF Rows
  <2>2. PICK js : js = [x \in Jobs |-> IF x \in page
                          THEN [db.jobs[x] EXCEPT !.state = "Cancelled"] ELSE db.jobs[x]]
    OBVIOUS
  <2>3. t = [db EXCEPT !.jobs = js]
    BY <1>1, <1>2, <1>11, <2>2 DEF AfterPage
  <2>4. ASSUME NEW x \in Jobs
        PROVE  /\ js[x] \in Job \cup {Nothing}
               /\ \/ js[x] = db.jobs[x]
                  \/ /\ Staged(db, x) /\ InScope(j.scope, db.jobs[x].msg)
                     /\ js[x] = [db.jobs[x] EXCEPT !.state = "Cancelled"]
               /\ x \in page => js[x] # Nothing /\ js[x].state = "Cancelled"
    <3>1. db.jobs[x] \in Job \cup {Nothing}
      BY <1>8, StateFields
    <3>2. CASE x \in page
      <4>1. Staged(db, x) /\ InScope(j.scope, db.jobs[x].msg)
        BY <1>2, <2>1, <3>2 DEF JobRows
      <4>2. PICK a, b : a = db.jobs[x] /\ b = js[x]
        OBVIOUS
      <4>3. a \in Job /\ b = [a EXCEPT !.state = "Cancelled"]
        BY <2>2, <3>1, <3>2, <4>1, <4>2 DEF Staged
      <4>4. b \in Job /\ b.state = "Cancelled"
        BY <4>3 DEF Job
      <4> QED
        BY <4>1, <4>2, <4>3, <4>4, ArchiveAssumption
    <3>3. CASE x \notin page
      BY <2>2, <3>1, <3>3
    <3> QED
      BY <3>2, <3>3
  <2>5. js \in [Jobs -> Job \cup {Nothing}]
    BY <2>2, <2>4
  <2>6. /\ t \in ArchiveState /\ t.messages = db.messages /\ t.jobs = js
        /\ t.leases = db.leases /\ t.blobs = db.blobs
        /\ t.account = db.account /\ t.chats = db.chats
    BY <1>8, <2>3, <2>5 DEF ArchiveState
  <2>7. Ending(db, t, j.scope)
    BY <2>4, <2>6 DEF Ending
  <2>8. /\ BodiesValid(t) /\ Waiting(t, j.scope)
        /\ SeenOf(t, j.kind, j.scope) = SeenOf(db, j.kind, j.scope)
        /\ VersionsDone(t, j.kind, j.scope) /\ MessagesDone(t, j.kind, j.scope)
    BY <1>3, <1>8, <1>11, <2>6, <2>7, EndingPage
  <2>9. PassedDone(t, n)
    <3>1. ASSUME NEW x \in Jobs, x \in n.passed PROVE ~Staged(t, x)
      <4>1. CASE x \in page
        BY <2>4, <2>6, <4>1 DEF Staged
      <4>2. CASE x \notin page
        <5>1. ~Staged(db, x)
          BY <1>6, <1>8, <1>11, <3>1, <4>2 DEF PassedDone
        <5>2. js[x] = db.jobs[x]
          BY <2>2, <4>2
        <5> QED
          BY <2>6, <5>1, <5>2 DEF Staged
      <4> QED
        BY <4>1, <4>2
    <3> QED
      BY <1>6, <1>11, <3>1 DEF PassedDone
  <2> QED
    BY <1>6, <1>7, <1>11, <2>6, <2>8, <2>9 DEF Underway
<1>12. CASE j.phase = "Leases"
  <2>1. page \subseteq LeaseRows
    BY <1>2, <1>4, <1>12 DEF Rows
  <2>2. PICK ls : ls = [x \in Leases |-> IF x \in page
                          THEN [db.leases[x] EXCEPT !.revoked = TRUE] ELSE db.leases[x]]
    OBVIOUS
  <2>3. t = [db EXCEPT !.leases = ls]
    BY <1>1, <1>2, <1>12, <2>2 DEF AfterPage
  <2>4. ASSUME NEW x \in Leases
        PROVE  /\ ls[x] \in Lease \cup {Nothing}
               /\ \/ ls[x] = db.leases[x]
                  \/ /\ db.leases[x] # Nothing /\ InScope(j.scope, db.leases[x].msg)
                     /\ ls[x] = [db.leases[x] EXCEPT !.revoked = TRUE]
               /\ x \in page => ls[x].revoked
    <3>1. db.leases[x] \in Lease \cup {Nothing}
      BY <1>8, StateFields
    <3>2. CASE x \in page
      <4>1. db.leases[x] # Nothing /\ InScope(j.scope, db.leases[x].msg)
        BY <1>2, <2>1, <3>2 DEF LeaseRows
      <4>2. PICK a, b : a = db.leases[x] /\ b = ls[x]
        OBVIOUS
      <4>3. a \in Lease /\ b = [a EXCEPT !.revoked = TRUE]
        BY <2>2, <3>1, <3>2, <4>1, <4>2
      <4>4. b \in Lease /\ b.revoked
        BY <4>3 DEF Lease
      <4> QED
        BY <4>1, <4>2, <4>3, <4>4
    <3>3. CASE x \notin page
      BY <2>2, <3>1, <3>3
    <3> QED
      BY <3>2, <3>3
  <2>5. ls \in [Leases -> Lease \cup {Nothing}]
    BY <2>2, <2>4
  <2>6. /\ t \in ArchiveState /\ t.messages = db.messages /\ t.leases = ls
        /\ t.jobs = db.jobs /\ t.blobs = db.blobs
        /\ t.account = db.account /\ t.chats = db.chats
    BY <1>8, <2>3, <2>5 DEF ArchiveState
  <2>7. Ending(db, t, j.scope)
    BY <2>4, <2>6 DEF Ending
  <2>8. /\ BodiesValid(t) /\ Waiting(t, j.scope)
        /\ SeenOf(t, j.kind, j.scope) = SeenOf(db, j.kind, j.scope)
        /\ VersionsDone(t, j.kind, j.scope) /\ MessagesDone(t, j.kind, j.scope)
    BY <1>3, <1>8, <1>12, <2>6, <2>7, EndingPage
  <2>9. JobsDone(t, j.scope)
    BY <1>8, <1>12, <2>6 DEF JobsDone, Staged
  <2>10. PassedDone(t, n)
    <3>1. ASSUME NEW x \in Leases, x \in n.passed, t.leases[x] # Nothing PROVE t.leases[x].revoked
      <4>1. CASE x \in page
        BY <2>4, <2>6, <4>1
      <4>2. CASE x \notin page
        <5>1. ls[x] = db.leases[x]
          BY <2>2, <4>2
        <5>2. db.leases[x].revoked
          BY <1>6, <1>8, <1>12, <2>6, <3>1, <4>2, <5>1 DEF PassedDone
        <5> QED
          BY <2>6, <5>1, <5>2
      <4> QED
        BY <4>1, <4>2
    <3> QED
      BY <1>6, <1>12, <3>1 DEF PassedDone
  <2> QED
    BY <1>6, <1>7, <1>12, <2>6, <2>8, <2>9, <2>10 DEF Underway
<1>13. CASE j.phase = "Finish"
  <2>1. Rows = {}
    BY <1>2, <1>13 DEF Rows
  <2> QED
    BY <1>1, <1>4, <2>1
<1> QED
  BY <1>3, <1>9, <1>10, <1>11, <1>12, <1>13 DEF Journal, Phases

\* The next phase begins when the last one has done its work.
LEMMA AdvanceStep ==
  ASSUME journal # Nothing, Underway(db, journal), Advance
  PROVE  Seen' = Seen /\ journal' # Nothing /\ Underway(db, journal)'
<1>1. PICK j, n : j = journal /\ n = journal'
  OBVIOUS
<1>2. /\ j \in Journal /\ j.kind \in Kinds /\ db \in ArchiveState /\ BodiesValid(db)
      /\ Waiting(db, j.scope) /\ PassedDone(db, j)
      /\ j.phase # "Versions" => VersionsDone(db, j.kind, j.scope)
      /\ j.phase \in {"Jobs", "Leases", "Finish"} => MessagesDone(db, j.kind, j.scope)
      /\ j.phase \in {"Leases", "Finish"} => JobsDone(db, j.scope)
  BY <1>1 DEF Underway, Journal, Kinds
<1>3. /\ j.phase \in {"Versions", "Messages", "Jobs", "Leases"}
      /\ n = [j EXCEPT !.phase = PhaseAfter(j.phase), !.passed = {}] /\ db' = db
      /\ Rows \subseteq j.passed
  BY <1>1, <1>2 DEF Advance, Left, Journal, Phases
<1>4. PhaseAfter(j.phase) \in Phases
  BY <1>3 DEF PhaseAfter, Phases
<1>5. /\ n \in Journal /\ n.kind = j.kind /\ n.scope = j.scope
      /\ n.phase = PhaseAfter(j.phase) /\ n.passed = {}
  BY <1>2, <1>3, <1>4 DEF Journal
<1>6. journal' # Nothing
  BY <1>1, <1>5, SqlAssumption
<1>7. Seen' = Seen
  <2>1. Seen' = Reconcile(Erase(KeepCopies(db, n.kind, n.scope), n.kind, n.scope))
    BY <1>1, <1>3, <1>6 DEF Seen
  <2> QED
    BY <1>1, <1>5, <2>1 DEF Seen
<1>8. ASSUME Underway(db, n)
      PROVE  Seen' = Seen /\ journal' # Nothing /\ Underway(db, journal)'
  BY <1>1, <1>3, <1>6, <1>7, <1>8
<1>9. PassedDone(db, n)
  BY <1>5 DEF PassedDone
<1>10. CASE j.phase = "Versions"
  <2>1. ASSUME NEW m \in Msgs, InScope(j.scope, m),
               NEW k \in DOMAIN Kept(j.kind, db.messages[m]).versions
        PROVE  Settled(db, Kept(j.kind, db.messages[m]).versions[k])
    <3>1. PICK x : x = db.messages[m]
      OBVIOUS
    <3>2. x \in Message /\ MessageAlike(x, x)
      BY <1>2, <3>1, StateFields DEF MessageAlike, Alike
    <3>3. PICK i \in DOMAIN x.versions :
            /\ Kept(j.kind, x).versions[k] = x.versions[i]
            /\ Survives(j.kind, x, x.versions[i])
      BY <1>2, <2>1, <3>1, <3>2, KeptAt
    <3>4. PICK v : v = x.versions[i]
      OBVIOUS
    <3>5. v \in Version /\ v.id \in Ids /\ v \in VersionsOf(db, m)
      <4>1. x.versions \in Seq(Version)
        BY <3>2 DEF Message
      <4>2. v \in Version
        BY <3>3, <3>4, <4>1
      <4> QED
        BY <3>1, <3>3, <3>4, <4>2 DEF Version, VersionsOf
    <3>6. CASE \A r \in DOMAIN v.refs : v.refs[r] = "Complete"
      BY <3>1, <3>3, <3>4, <3>6 DEF Settled
    <3>7. CASE \E r \in DOMAIN v.refs : v.refs[r] # "Complete"
      <4>1. <<m, v.id>> \in VersionRows
        BY <1>1, <2>1, <3>1, <3>3, <3>4, <3>5, <3>7 DEF VersionRows
      <4>2. <<m, v.id>> \in j.passed
        BY <1>1, <1>3, <1>10, <4>1 DEF Rows
      <4> QED
        BY <1>2, <1>10, <3>1, <3>3, <3>4, <3>5, <4>2 DEF PassedDone
    <3> QED
      BY <3>6, <3>7
  <2>2. VersionsDone(db, n.kind, n.scope)
    BY <1>5, <2>1 DEF VersionsDone
  <2>3. n.phase = "Messages"
    BY <1>5, <1>10 DEF PhaseAfter
  <2> QED
    BY <1>2, <1>5, <1>8, <1>9, <2>2, <2>3 DEF Underway
<1>11. CASE j.phase = "Messages"
  <2>1. ASSUME NEW m \in Msgs, InScope(j.scope, m)
        PROVE  Kept(j.kind, db.messages[m]) = db.messages[m]
    <3>1. PICK x : x = db.messages[m]
      OBVIOUS
    <3>2. x \in Message /\ BodyValid(x)
      BY <1>2, <3>1, StateFields DEF BodiesValid
    <3>3. CASE m \in MessageRows
      <4>1. m \in j.passed
        BY <1>1, <1>3, <1>11, <3>3 DEF Rows
      <4> QED
        BY <1>2, <1>11, <4>1 DEF PassedDone
    <3>4. CASE m \notin MessageRows
      <4>1. IF j.kind = "Trashbin" THEN ~x.deleted \/ x.purged ELSE x.versions = <<>>
        BY <1>1, <2>1, <3>1, <3>4 DEF MessageRows
      <4>2. x.purged => x.versions = <<>>
        BY <3>2 DEF BodyValid
      <4>3. CASE j.kind = "Trashbin" /\ x.deleted
        <5>1. x.versions = <<>> /\ x.purged
          BY <4>1, <4>2, <4>3
        <5>2. x = [x EXCEPT !.versions = <<>>, !.purged = TRUE]
          BY <3>2, <5>1 DEF Message
        <5> QED
          BY <3>1, <4>3, <5>2 DEF Kept
      <4>4. CASE ~(j.kind = "Trashbin" /\ x.deleted)
        <5>1. ~(j.kind = "EditHistory" /\ x.versions # <<>>)
          BY <4>1
        <5> QED
          BY <3>1, <4>4, <5>1 DEF Kept
      <4> QED
        BY <4>3, <4>4
    <3> QED
      BY <3>3, <3>4
  <2>2. MessagesDone(db, n.kind, n.scope)
    BY <1>5, <2>1 DEF MessagesDone
  <2>3. n.phase = "Jobs"
    BY <1>5, <1>11 DEF PhaseAfter
  <2> QED
    BY <1>2, <1>5, <1>8, <1>9, <1>11, <2>2, <2>3 DEF Underway
<1>12. CASE j.phase = "Jobs"
  <2>1. ASSUME NEW x \in Jobs, Staged(db, x), InScope(j.scope, db.jobs[x].msg) PROVE FALSE
    <3>1. x \in j.passed
      BY <1>1, <1>3, <1>12, <2>1 DEF Rows, JobRows
    <3> QED
      BY <1>2, <1>12, <2>1, <3>1 DEF PassedDone
  <2>2. JobsDone(db, n.scope)
    BY <1>5, <2>1 DEF JobsDone
  <2>3. n.phase = "Leases"
    BY <1>5, <1>12 DEF PhaseAfter
  <2> QED
    BY <1>2, <1>5, <1>8, <1>9, <1>12, <2>2, <2>3 DEF Underway
<1>13. CASE j.phase = "Leases"
  <2>1. ASSUME NEW x \in Leases, db.leases[x] # Nothing, InScope(j.scope, db.leases[x].msg),
               ~db.leases[x].revoked
        PROVE  FALSE
    <3>1. x \in j.passed
      BY <1>1, <1>3, <1>13, <2>1 DEF Rows, LeaseRows
    <3> QED
      BY <1>2, <1>13, <2>1, <3>1 DEF PassedDone
  <2>2. LeasesDone(db, n.scope)
    BY <1>5, <2>1 DEF LeasesDone
  <2>3. n.phase = "Finish"
    BY <1>5, <1>13 DEF PhaseAfter
  <2> QED
    BY <1>2, <1>5, <1>8, <1>9, <1>13, <2>2, <2>3 DEF Underway
<1> QED
  BY <1>3, <1>10, <1>11, <1>12, <1>13

\* Once every phase has done its work nothing is left to erase.
LEMMA FinishStep ==
  ASSUME journal # Nothing, Underway(db, journal), Finish
  PROVE  Seen' = Seen
<1>1. PICK j : j = journal
  OBVIOUS
<1>2. /\ j.kind \in Kinds /\ db \in ArchiveState /\ BodiesValid(db) /\ Waiting(db, j.scope)
      /\ VersionsDone(db, j.kind, j.scope) /\ MessagesDone(db, j.kind, j.scope)
      /\ JobsDone(db, j.scope) /\ LeasesDone(db, j.scope)
  BY <1>1 DEF Underway, Journal, Kinds, Finish
<1>3. PICK t : t = SeenOf(db, j.kind, j.scope)
  OBVIOUS
<1>4. Seen' = db /\ Seen = t
  BY <1>1, <1>3, SeenClosed DEF Finish, Seen
<1>5. /\ t \in ArchiveState
      /\ \A m \in Msgs : t.messages[m] =
           IF InScope(j.scope, m) THEN Final(db, j.kind, db.messages[m]) ELSE db.messages[m]
      /\ \A x \in Jobs : t.jobs[x] =
           IF Staged(db, x) /\ InScope(j.scope, db.jobs[x].msg)
           THEN [db.jobs[x] EXCEPT !.state = "Cancelled"] ELSE db.jobs[x]
      /\ \A l \in Leases : t.leases[l] =
           IF db.leases[l] # Nothing /\ InScope(j.scope, db.leases[l].msg)
           THEN [db.leases[l] EXCEPT !.revoked = TRUE] ELSE db.leases[l]
      /\ t.blobs = db.blobs /\ t.account = db.account /\ t.chats = db.chats
  BY <1>2, <1>3, SeenFacts
<1>6. ASSUME NEW m \in Msgs PROVE t.messages[m] = db.messages[m]
  <2>1. CASE InScope(j.scope, m)
    <3>1. db.messages[m] \in Message /\ BodyValid(db.messages[m])
      BY <1>2, StateFields DEF BodiesValid
    <3>2. Final(db, j.kind, db.messages[m]) = Kept(j.kind, db.messages[m])
      BY <1>2, <2>1, <3>1, FinalSettled DEF VersionsDone
    <3> QED
      BY <1>2, <1>5, <2>1, <3>2 DEF MessagesDone
  <2> QED
    BY <1>5, <2>1
<1>7. \A x \in Jobs : t.jobs[x] = db.jobs[x]
  BY <1>2, <1>5 DEF JobsDone
<1>8. ASSUME NEW l \in Leases PROVE t.leases[l] = db.leases[l]
  <2>1. CASE db.leases[l] # Nothing /\ InScope(j.scope, db.leases[l].msg)
    <3>1. PICK a : a = db.leases[l]
      OBVIOUS
    <3>2. a \in Lease /\ a.revoked
      BY <1>2, <2>1, <3>1, StateFields DEF LeasesDone
    <3>3. a = [a EXCEPT !.revoked = TRUE]
      BY <3>2 DEF Lease
    <3> QED
      BY <1>5, <2>1, <3>1, <3>3
  <2> QED
    BY <1>5, <2>1
<1> QED
  BY <1>2, <1>4, <1>5, <1>6, <1>7, <1>8, StateEqual

---------------------------------------------------------------------------
(* The beginning of a purge is all of it for users.                        *)

\* Bumping generations touches nothing else, and changes those of the scope.
LEMMA BumpFacts ==
  ASSUME NEW s \in ArchiveState, NEW scope \in Scopes, NEW b, b = BumpGenerations(s, scope)
  PROVE  /\ b \in ArchiveState
         /\ b.messages = s.messages /\ b.jobs = s.jobs /\ b.leases = s.leases
         /\ b.blobs = s.blobs
         /\ \A m \in Msgs : IF InScope(scope, m) THEN GenerationFor(b, m) # GenerationFor(s, m)
                            ELSE GenerationFor(b, m) = GenerationFor(s, m)
<1>1. s.account \in Nat /\ s.chats \in [Chats -> Nat]
  BY StateFields
<1>2. \A m \in Msgs : ChatOf[m] \in Chats
  BY ArchiveAssumption
<1>3. CASE scope = Account
  <2>1. b = [s EXCEPT !.account = s.account + 1]
    BY <1>3 DEF BumpGenerations
  <2>2. /\ b \in ArchiveState /\ b.messages = s.messages /\ b.jobs = s.jobs
        /\ b.leases = s.leases /\ b.blobs = s.blobs
        /\ b.account = s.account + 1 /\ b.chats = s.chats
    BY <1>1, <2>1 DEF ArchiveState
  <2>3. \A m \in Msgs : GenerationFor(b, m) # GenerationFor(s, m) /\ InScope(scope, m)
    <3>1. s.account + 1 # s.account
      BY <1>1
    <3> QED
      BY <1>3, <2>2, <3>1 DEF GenerationFor, InScope
  <2> QED
    BY <2>2, <2>3
<1>4. CASE scope # Account
  <2>1. PICK cs : cs = [c \in Chats |-> IF c \in scope THEN s.chats[c] + 1 ELSE s.chats[c]]
    OBVIOUS
  <2>2. b = [s EXCEPT !.chats = cs]
    BY <1>4, <2>1 DEF BumpGenerations
  <2>3. cs \in [Chats -> Nat]
    BY <1>1, <2>1
  <2>4. /\ b \in ArchiveState /\ b.messages = s.messages /\ b.jobs = s.jobs
        /\ b.leases = s.leases /\ b.blobs = s.blobs
        /\ b.account = s.account /\ b.chats = cs
    BY <1>1, <2>2, <2>3 DEF ArchiveState
  <2>5. ASSUME NEW m \in Msgs
        PROVE  IF InScope(scope, m) THEN GenerationFor(b, m) # GenerationFor(s, m)
               ELSE GenerationFor(b, m) = GenerationFor(s, m)
    <3>1. /\ InScope(scope, m) <=> ChatOf[m] \in scope
          /\ ChatOf[m] \in Chats /\ s.chats[ChatOf[m]] \in Nat
      BY <1>1, <1>2, <1>4 DEF InScope
    <3>2. cs[ChatOf[m]] = IF ChatOf[m] \in scope THEN s.chats[ChatOf[m]] + 1
                          ELSE s.chats[ChatOf[m]]
      BY <2>1, <3>1
    <3>3. IF InScope(scope, m) THEN cs[ChatOf[m]] # s.chats[ChatOf[m]]
          ELSE cs[ChatOf[m]] = s.chats[ChatOf[m]]
      BY <3>1, <3>2
    <3> QED
      BY <2>4, <3>3 DEF GenerationFor
  <2> QED
    BY <2>4, <2>5
<1> QED
  BY <1>3, <1>4

\* What waits when a purge begins.
LEMMA BumpWaiting ==
  ASSUME NEW s \in ArchiveState, Sound(s), NEW scope \in Scopes,
         NEW b, b = BumpGenerations(s, scope)
  PROVE  Waiting(b, scope)
<1>1. /\ b.messages = s.messages /\ b.jobs = s.jobs /\ b.leases = s.leases
      /\ \A m \in Msgs : IF InScope(scope, m) THEN GenerationFor(b, m) # GenerationFor(s, m)
                         ELSE GenerationFor(b, m) = GenerationFor(s, m)
  BY BumpFacts
<1>2. /\ \A j : Staged(b, j) = Staged(s, j) /\ JobRef(b, j) = JobRef(s, j)
      /\ \A m : VersionsOf(b, m) = VersionsOf(s, m)
      /\ \A l : LeaseCurrent(b, l) = LeaseCurrent(s, l)
  BY <1>1 DEF Staged, JobRef, VersionsOf, LeaseCurrent
<1>3. ASSUME NEW m \in Msgs, NEW k \in DOMAIN b.messages[m].versions,
             NEW i \in DOMAIN b.messages[m].versions[k].refs,
             b.messages[m].versions[k].refs[i] = "Staged"
      PROVE  \E j \in Jobs : Staged(b, j) /\ JobRef(b, j) = <<m, b.messages[m].versions[k].id, i>>
  BY <1>1, <1>2, <1>3 DEF Sound, JobsTied
<1>4. ASSUME NEW j \in Jobs, Staged(b, j)
      PROVE  IF InScope(scope, b.jobs[j].msg)
             THEN b.jobs[j].generation # GenerationFor(b, b.jobs[j].msg) ELSE JobCurrent(b, j)
  <2>1. PICK job : job = s.jobs[j]
    OBVIOUS
  <2>2. job \in Job /\ job.msg \in Msgs
    BY <1>2, <1>4, <2>1, StateFields DEF Staged, Job
  <2>3. JobCurrent(s, j)
    BY <1>2, <1>4 DEF Sound
  <2>4. job.generation = GenerationFor(s, job.msg)
    BY <2>1, <2>3 DEF JobCurrent
  <2>5. CASE InScope(scope, job.msg)
    BY <1>1, <2>1, <2>2, <2>4, <2>5
  <2>6. CASE ~InScope(scope, job.msg)
    <3>1. GenerationFor(b, job.msg) = GenerationFor(s, job.msg)
      BY <1>1, <2>2, <2>6
    <3>2. JobCurrent(b, j)
      BY <1>1, <1>2, <2>1, <2>3, <3>1 DEF JobCurrent
    <3> QED
      BY <1>1, <2>1, <2>6, <3>2
  <2> QED
    BY <2>5, <2>6
<1>5. \A l \in Leases : b.leases[l] # Nothing /\ ~b.leases[l].revoked => LeaseCurrent(b, l)
  BY <1>1, <1>2 DEF Sound
<1> QED
  BY <1>3, <1>4, <1>5 DEF Waiting

\* Copies are kept of the same bodies before generations change and after.
LEMMA BumpedSeen ==
  ASSUME NEW s \in ArchiveState, NEW kind, NEW scope \in Scopes
  PROVE  SeenOf(BumpGenerations(s, scope), kind, scope) = Reconcile(Purged(s, kind, scope))
<1>1. PICK b : b = BumpGenerations(s, scope)
  OBVIOUS
<1>2. b.messages = s.messages
  BY <1>1, BumpFacts
<1>3. /\ Owned(b) = Owned(s) /\ \A m : VersionsOf(b, m) = VersionsOf(s, m)
  BY <1>2 DEF Owned, VersionsOf
<1>4. PICK ms : ms = SetRefs(s.messages,
        {r \in Sharing(s, kind, scope) : r[3] \in Owned(s)}, "Complete")
  OBVIOUS
<1>5. Sharing(b, kind, scope) = Sharing(s, kind, scope)
  BY <1>2, <1>3 DEF Sharing
<1>6. KeepCopies(s, kind, scope) = [s EXCEPT !.messages = ms]
  BY <1>4 DEF KeepCopies, ShareKnownMedia, Sharing
<1>7. KeepCopies(b, kind, scope) = [b EXCEPT !.messages = ms]
  <2>1. KeepCopies(b, kind, scope) = ShareKnownMedia(b, Sharing(b, kind, scope))
    BY DEF KeepCopies, Sharing
  <2> QED
    BY <1>2, <1>3, <1>4, <1>5, <2>1 DEF ShareKnownMedia
<1>8. BumpGenerations([s EXCEPT !.messages = ms], scope) = [b EXCEPT !.messages = ms]
  <2>1. CASE scope = Account
    BY <1>1, <2>1 DEF BumpGenerations, ArchiveState
  <2>2. CASE scope # Account
    BY <1>1, <2>2 DEF BumpGenerations, ArchiveState
  <2> QED
    BY <2>1, <2>2
<1>9. KeepCopies(b, kind, scope) = BumpGenerations(KeepCopies(s, kind, scope), scope)
  BY <1>6, <1>7, <1>8
<1> QED
  BY <1>1, <1>9 DEF SeenOf, Purged

\* A purge is planned by the instance as by the store.
LEMMA SamePurge ==
  ASSUME NEW kind, NEW scope, Seen = db
  PROVE  /\ Store!Purged(db, kind, scope) = Purged(db, kind, scope)
         /\ Store!Removed(kind, scope) = Removed(kind, scope)
<1>1. \A m : Store!InScope(scope, m) = InScope(scope, m)
  BY DEF Store!InScope, InScope
<1>2. \A msg : Store!Kept(kind, msg) = Kept(kind, msg)
  BY SameReads DEF Store!Kept, Kept
<1>3. \A msg, v : Store!Survives(kind, msg, v) = Survives(kind, msg, v)
  BY SameReads DEF Store!Survives, Survives
<1>4. \A s : Store!BumpGenerations(s, scope) = BumpGenerations(s, scope)
  BY DEF Store!BumpGenerations, BumpGenerations
<1>5. \A s : Store!KeepCopies(s, kind, scope) = KeepCopies(s, kind, scope)
  BY <1>1, <1>3, SameReads, SameShare DEF Store!KeepCopies, KeepCopies, Store!Ids, Ids
<1>6. \A s : Store!Erase(s, kind, scope) = Erase(s, kind, scope)
  BY <1>1, <1>2 DEF Store!Erase, Erase
<1>7. Store!Removed(kind, scope) = Removed(kind, scope)
  BY <1>1, <1>2, SameReads DEF Store!Removed, Removed, Store!Ids, Ids
<1> QED
  BY <1>4, <1>5, <1>6, <1>7 DEF Store!Purged, Purged

\* While the archive is open the invariant of the store is that of its users.
LEMMA OpenInv ==
  /\ StoreInv(db) <=> ArchiveInv
  /\ StoreInv(db)' <=> ArchiveInv'
BY DEF StoreInv, ArchiveInv, TypeOK, FilesSound, ErasedSound, BlobFor

\* To users a purge happens when it begins.
LEMMA BeginStep ==
  ASSUME SqlInv, NEW kind \in Kinds, NEW scope \in Scopes, Begin(kind, scope)
  PROVE  Store!Next /\ SqlInv'
<1>1. Seen = db /\ ArchiveInv /\ DbInv
  BY OpenInv DEF SqlInv, Begin, Seen, ArchiveInv, TypeOK, DbInv
<1>2. PICK b, p, t, n : /\ b = BumpGenerations(db, scope) /\ p = Purged(db, kind, scope)
                        /\ t = Reconcile(p) /\ n = journal'
  OBVIOUS
<1>3. /\ db' = b /\ files' = files /\ published' = published
      /\ erased' = erased \cup Removed(kind, scope)
      /\ n = [kind |-> kind, scope |-> scope, phase |-> "Versions", passed |-> {}]
  BY <1>2 DEF Begin, FirstPhase
<1>4. n \in Journal /\ journal' # Nothing
  BY <1>2, <1>3, SqlAssumption DEF Journal, Kinds, Phases
<1>5. Seen' = t
  <2>1. Seen' = Reconcile(Erase(KeepCopies(b, n.kind, n.scope), n.kind, n.scope))
    BY <1>2, <1>3, <1>4 DEF Seen
  <2>2. Seen' = SeenOf(b, kind, scope)
    BY <1>3, <2>1 DEF SeenOf
  <2> QED
    BY <1>1, <1>2, <2>2, BumpedSeen DEF DbInv
<1>6. Store!Next
  <2>1. Store!Purged(db, kind, scope) = p /\ Store!Removed(kind, scope) = Removed(kind, scope)
    BY <1>1, <1>2, SamePurge
  <2>2. Store!Commit(p)
    BY <1>2, <1>5, SameReconcile DEF Store!Commit
  <2>3. \A c \in Chats : scope = Account \/ c \in scope => db.account + db.chats[c] < MaxPurges
    BY DEF Begin
  <2>4. Store!Purge(kind, scope)
    BY <1>1, <1>3, <2>1, <2>2, <2>3 DEF Store!Purge
  <2> QED
    BY <2>4 DEF Store!Next, Kinds
<1>7. /\ Ready(p) /\ p.blobs = db.blobs
      /\ \A m \in Msgs, id \in Ids : <<m, id>> \in Removed(kind, scope) => Gone(p, m, id)
  BY <1>1, <1>2, PurgePlan DEF Kinds
<1>8. Plans(t) /\ t.blobs = db.blobs /\ BodiesKept(p, t) /\ Sound(t)
  BY <1>2, <1>7, CommitPlan
<1>9. StoreInv(Seen)'
  <2>1. /\ t \in ArchiveState /\ BodiesValid(t) /\ RowsSound(t)
        /\ BodiesKept(db, t) /\ JobsKept(db, t)
    BY <1>8 DEF Plans
  <2>2. files' \subseteq Blobs /\ published' \subseteq Jobs /\ erased' \subseteq Msgs \X Ids
    BY <1>1, <1>3 DEF ArchiveInv, TypeOK, Removed
  <2>3. \A x \in Blobs : t.blobs[x] = "Complete" => x \in files'
    BY <1>1, <1>3, <1>8 DEF ArchiveInv, FilesSound
  <2>4. \A j \in published' : t.jobs[j] # Nothing /\ BlobOf[t.jobs[j].identity] \in files'
    BY <1>1, <1>3, <2>1 DEF ArchiveInv, TypeOK, FilesSound, BlobFor, JobsKept
  <2>5. \A m \in Msgs, id \in Ids : <<m, id>> \in erased' => Gone(t, m, id)
    BY <1>1, <1>3, <1>7, <1>8, <2>1, GoneStays DEF ArchiveInv, ErasedSound
  <2> QED
    BY <1>5, <1>8, <2>1, <2>2, <2>3, <2>4, <2>5 DEF StoreInv
<1>10. Underway(b, n)
  <2>1. b \in ArchiveState /\ b.messages = db.messages
    BY <1>1, <1>2, BumpFacts DEF DbInv
  <2>2. BodiesValid(b)
    BY <1>1, <2>1 DEF DbInv, BodiesValid
  <2>3. Waiting(b, scope)
    BY <1>1, <1>2, BumpWaiting DEF DbInv
  <2>4. PassedDone(b, n)
    BY <1>3 DEF PassedDone
  <2> QED
    BY <1>3, <1>4, <2>1, <2>2, <2>3, <2>4 DEF Underway
<1> QED
  BY <1>2, <1>3, <1>6, <1>9, <1>10 DEF SqlInv

\* A purge under way changes neither rows nor what a job is for.
LEMMA SeenRows ==
  ASSUME SqlInv
  PROVE  /\ Seen.blobs = db.blobs
         /\ \A j \in Jobs : Seen.jobs[j] # Nothing => Seen.jobs[j].identity = db.jobs[j].identity
<1>1. CASE journal = Nothing
  BY <1>1 DEF Seen
<1>2. CASE journal # Nothing
  <2>1. PICK k, t : k = journal /\ t = SeenOf(db, k.kind, k.scope)
    OBVIOUS
  <2>2. k.kind \in Kinds /\ db \in ArchiveState /\ BodiesValid(db) /\ Waiting(db, k.scope)
    BY <1>2, <2>1 DEF SqlInv, Underway, Journal, Kinds
  <2>3. /\ t.blobs = db.blobs
        /\ \A j \in Jobs : t.jobs[j] =
             IF Staged(db, j) /\ InScope(k.scope, db.jobs[j].msg)
             THEN [db.jobs[j] EXCEPT !.state = "Cancelled"] ELSE db.jobs[j]
    BY <2>1, <2>2, SeenFacts
  <2>4. Seen = t
    BY <1>2, <2>1, SeenClosed
  <2>5. ASSUME NEW j \in Jobs, t.jobs[j] # Nothing
        PROVE  t.jobs[j].identity = db.jobs[j].identity
    <3>1. PICK x : x = db.jobs[j]
      OBVIOUS
    <3>2. CASE Staged(db, j) /\ InScope(k.scope, db.jobs[j].msg)
      <4>1. x \in Job
        BY <2>2, <3>1, <3>2, StateFields DEF Staged
      <4>2. [x EXCEPT !.state = "Cancelled"].identity = x.identity
        BY <4>1 DEF Job
      <4> QED
        BY <2>3, <3>1, <3>2, <4>2
    <3>3. CASE ~(Staged(db, j) /\ InScope(k.scope, db.jobs[j].msg))
      BY <2>3, <3>3
    <3> QED
      BY <3>2, <3>3
  <2> QED
    BY <2>3, <2>4, <2>5
<1> QED
  BY <1>1, <1>2

\* What touches files only does so whether the archive is open or not.
LEMMA FilesStep ==
  ASSUME SqlInv, OnFiles
  PROVE  Store!Next /\ SqlInv'
<1>1. db' = db /\ journal' = journal /\ erased' = erased /\ Seen' = Seen
  BY DEF OnFiles, Crash, DeleteFile, Seen
<1>2. PICK s : s = Seen
  OBVIOUS
<1>3. /\ s \in ArchiveState /\ BodiesValid(s) /\ RowsSound(s) /\ Sound(s)
      /\ files \subseteq Blobs /\ published \subseteq Jobs /\ erased \subseteq Msgs \X Ids
      /\ \A b \in Blobs : s.blobs[b] = "Complete" => b \in files
      /\ \A j \in published : s.jobs[j] # Nothing /\ BlobOf[s.jobs[j].identity] \in files
      /\ \A m \in Msgs, id \in Ids : <<m, id>> \in erased => Gone(s, m, id)
  BY <1>2 DEF SqlInv, StoreInv
<1>4. (journal # Nothing => Underway(db, journal))'
  BY <1>1 DEF SqlInv
<1>5. ASSUME /\ files' \subseteq Blobs /\ published' \subseteq Jobs
             /\ \A b \in Blobs : s.blobs[b] = "Complete" => b \in files'
             /\ \A j \in published' : s.jobs[j] # Nothing /\ BlobOf[s.jobs[j].identity] \in files'
      PROVE  SqlInv'
  <2>1. StoreInv(Seen)'
    BY <1>1, <1>2, <1>3, <1>5 DEF StoreInv
  <2> QED
    BY <1>4, <2>1 DEF SqlInv
<1>6. CASE Crash
  <2>1. files' = files /\ published' = {} /\ published # {}
    BY <1>6 DEF Crash
  <2>2. Store!Crash
    BY <1>1, <2>1 DEF Store!Crash
  <2>3. SqlInv'
    BY <1>3, <1>5, <2>1
  <2> QED
    BY <2>2, <2>3 DEF Store!Next
<1>7. ASSUME NEW b \in Blobs, DeleteFile(b) PROVE Store!Next /\ SqlInv'
  <2>1. s.blobs = db.blobs
    BY <1>2, SeenRows
  <2>2. \A j \in published : s.jobs[j].identity = db.jobs[j].identity
    BY <1>2, <1>3, SeenRows
  <2>3. /\ s.blobs[b] = "GarbagePending" /\ files' = files \ {b}
        /\ published' = {j \in published : BlobOf[s.jobs[j].identity] # b}
    BY <1>7, <2>1, <2>2 DEF DeleteFile, BlobFor
  <2>4. Store!DeleteFile(b)
    BY <1>1, <1>2, <2>3 DEF Store!DeleteFile, Store!BlobFor
  <2>5. SqlInv'
    BY <1>3, <1>5, <2>3
  <2> QED
    BY <2>4, <2>5 DEF Store!Next
<1> QED
  BY <1>6, <1>7 DEF OnFiles

\* Every step is one of the store, or none that users see.
LEMMA SqlStep ==
  ASSUME SqlInv, [SqlNext]_sqlVars
  PROVE  [Store!Next]_(Store!vars) /\ SqlInv'
<1>1. CASE WhileOpen
  <2>1. Seen = db /\ Seen' = db' /\ journal' = Nothing /\ ArchiveInv
    BY <1>1, OpenInv DEF WhileOpen, Seen, SqlInv
  <2>2. Next
    BY <1>1 DEF WhileOpen, Next
  <2>3. ArchiveInv'
    BY <2>1, <2>2, StepKeeps
  <2>4. StoreInv(Seen)'
    BY <2>1, <2>3, OpenInv DEF StoreInv
  <2> QED
    BY <1>1, <2>1, <2>4, OpenStep DEF SqlInv
<1>2. CASE OnFiles
  BY <1>2, FilesStep
<1>3. CASE \E kind \in {"Trashbin", "EditHistory"}, scope \in Scopes : Begin(kind, scope)
  BY <1>3, BeginStep DEF Kinds
<1>4. ASSUME Seen' = Seen, files' = files, published' = published, erased' = erased,
             (journal # Nothing => Underway(db, journal))'
      PROVE  [Store!Next]_(Store!vars) /\ SqlInv'
  <2>1. StoreInv(Seen)'
    BY <1>4 DEF SqlInv, StoreInv
  <2> QED
    BY <1>4, <2>1 DEF SqlInv, Store!vars
<1>5. CASE Page
  BY <1>4, <1>5, PageStep DEF SqlInv, Page
<1>6. CASE Advance
  BY <1>4, <1>6, AdvanceStep DEF SqlInv, Advance
<1>7. CASE Finish
  BY <1>4, <1>7, FinishStep DEF SqlInv, Finish
<1>8. CASE UNCHANGED sqlVars
  BY <1>4, <1>8 DEF SqlInv, Seen, sqlVars
<1> QED
  BY <1>1, <1>2, <1>3, <1>5, <1>6, <1>7, <1>8 DEF SqlNext

\* The empty archive is open, and as its users see it.
LEMMA SqlInitInv ==
  ASSUME SqlInit
  PROVE  Store!Init /\ SqlInv
<1>1. Init /\ journal = Nothing /\ Seen = db
  BY DEF SqlInit, Seen
<1>2. Store!Init
  BY <1>1 DEF Init, Store!Init, Fresh, Store!Fresh
<1>3. ArchiveInv
  BY <1>1, InitInv
<1> QED
  BY <1>1, <1>2, <1>3, OpenInv DEF SqlInv

\* However a purge in SQL is cut into pages and interrupted, and whatever is

\* asked of the files meanwhile, users see an archive in which it is one step:
\* ArchiveSqlPurge implements ArchiveStore.
THEOREM PurgesAreOneStep == SqlSpec => ActsAsOnePurge
<1>1. SqlInit => Store!Init /\ SqlInv
  BY SqlInitInv
<1>2. SqlInv /\ [SqlNext]_sqlVars => [Store!Next]_(Store!vars) /\ SqlInv'
  BY SqlStep
<1> QED
  BY <1>1, <1>2, PTL DEF SqlSpec, ActsAsOnePurge, Store!Spec
=============================================================================
