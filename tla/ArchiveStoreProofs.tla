------------------------ MODULE ArchiveStoreProofs ------------------------
(***************************************************************************)
(* TypeOK, StateValid, OwnedBytesOnDisk, ErasedNeverReturns,               *)
(* BodiesOnlyGain and CopiesKept of the archive, for every account and     *)
(* whatever is delivered.  A plan is first described by what it does to    *)
(* bodies, references, jobs and rows (Ready); the commit, which reconciles *)
(* jobs and leases, then takes staged references back and nothing else.    *)
(* What makes the properties inductive: every id a version has or had is   *)
(* in the receipts of its message, versions of a message have ids of their *)
(* own, staged references and staged jobs name each other, and what is     *)
(* owned, leased or published has its row or its file.                     *)
(***************************************************************************)
EXTENDS ArchiveStore, FiniteSetTheorems, TLAPS

\* What one message says of its versions.
BodyValid(msg) ==
    /\ msg.purged => msg.versions = <<>> /\ msg.deleted
    /\ \A k \in DOMAIN msg.versions :
         /\ \A n \in 1..(k - 1) :
              /\ msg.versions[n].order < msg.versions[k].order
              /\ msg.versions[n].id # msg.versions[k].id
         /\ msg.versions[k].order <= msg.order
         /\ msg.versions[k].open => ~msg.versions[k].complete
         /\ {msg.versions[k].id, msg.versions[k].revision} \subseteq msg.receipts
         /\ DOMAIN msg.versions[k].refs = msg.versions[k].content.media

BodiesValid(s) == \A m \in Msgs : BodyValid(s.messages[m])

---------------------------------------------------------------------------
(* Versions, messages and their references.                                *)

\* A function on the first n numbers is a sequence.
LEMMA FunctionIsSeq ==
  ASSUME NEW S, NEW n \in Nat, NEW s \in [1..n -> S]
  PROVE  s \in Seq(S) /\ Len(s) = n
OBVIOUS

\* What a version is made of.
LEMMA VersionFields ==
  ASSUME NEW v \in Version
  PROVE  /\ v.id \in Ids /\ v.revision \in Ids /\ v.order \in Nat /\ v.content \in Contents
         /\ v.open \in BOOLEAN /\ v.complete \in BOOLEAN
         /\ DOMAIN v.refs \subseteq Identities /\ v.refs \in [DOMAIN v.refs -> RefStates]
         /\ v = [id |-> v.id, revision |-> v.revision, order |-> v.order,
                 content |-> v.content, open |-> v.open, complete |-> v.complete,
                 refs |-> v.refs]
BY DEF Version

\* The versions of a message are numbered from the first.
LEMMA MessageFields ==
  ASSUME NEW msg \in Message
  PROVE  /\ msg.versions \in Seq(Version) /\ Len(msg.versions) \in Nat
         /\ DOMAIN msg.versions = 1..Len(msg.versions)
         /\ \A k \in DOMAIN msg.versions : msg.versions[k] \in Version
         /\ msg.deleted \in BOOLEAN /\ msg.purged \in BOOLEAN /\ msg.order \in Nat
         /\ msg.receipts \subseteq Ids
BY DEF Message

\* w is v, apart from the state of its references.
Alike(v, w) ==
    /\ w.id = v.id /\ w.revision = v.revision /\ w.order = v.order
    /\ w.content = v.content /\ w.open = v.open /\ w.complete = v.complete
    /\ DOMAIN w.refs = DOMAIN v.refs

MessageAlike(x, y) ==
    /\ y.deleted = x.deleted /\ y.purged = x.purged
    /\ y.order = x.order /\ y.receipts = x.receipts
    /\ DOMAIN y.versions = DOMAIN x.versions
    /\ \A k \in DOMAIN x.versions : Alike(x.versions[k], y.versions[k])

\* The messages with their references, and nothing else, changed.
SameBodies(ms, ns) == \A m \in Msgs : MessageAlike(ms[m], ns[m])

\* A body is as valid with other states of its references.
LEMMA AlikeValid ==
  ASSUME NEW x \in Message, NEW y \in Message, MessageAlike(x, y), BodyValid(x)
  PROVE  BodyValid(y)
<1>1. DOMAIN x.versions = 1..Len(x.versions) /\ Len(x.versions) \in Nat
  BY MessageFields
<1>2. \A k \in DOMAIN x.versions : 1..(k - 1) \subseteq DOMAIN x.versions
  BY <1>1
<1>3. y.purged => y.versions = <<>> /\ y.deleted
  <2>1. Len(x.versions) = 0 => Len(y.versions) = 0
    <3>1. DOMAIN y.versions = 1..Len(y.versions) /\ Len(y.versions) \in Nat
      BY MessageFields
    <3> QED
      BY <1>1, <3>1 DEF MessageAlike
  <2>2. Len(y.versions) = 0 => y.versions = <<>>
    BY MessageFields
  <2> QED
    BY <2>1, <2>2 DEF MessageAlike, BodyValid
<1> QED
  BY <1>1, <1>2, <1>3 DEF MessageAlike, Alike, BodyValid

\* Setting references changes those named, and nothing else.
LEMMA SetRefsFacts ==
  ASSUME NEW ms \in [Msgs -> Message], NEW refs, NEW state \in RefStates
  PROVE  /\ SetRefs(ms, refs, state) \in [Msgs -> Message]
         /\ SameBodies(ms, SetRefs(ms, refs, state))
         /\ \A m \in Msgs : \A k \in DOMAIN ms[m].versions :
              \A i \in DOMAIN ms[m].versions[k].refs :
                SetRefs(ms, refs, state)[m].versions[k].refs[i] =
                  IF <<m, ms[m].versions[k].id, i>> \in refs THEN state
                  ELSE ms[m].versions[k].refs[i]
<1> DEFINE new(v, m) == [v EXCEPT !.refs = [i \in DOMAIN v.refs |->
                           IF <<m, v.id, i>> \in refs THEN state ELSE v.refs[i]]]
           vers(m) == [k \in DOMAIN ms[m].versions |-> new(ms[m].versions[k], m)]
           ns == SetRefs(ms, refs, state)
<1>1. ASSUME NEW v \in Version, NEW m
      PROVE  /\ new(v, m) \in Version /\ Alike(v, new(v, m))
             /\ \A i \in DOMAIN v.refs : new(v, m).refs[i] =
                  IF <<m, v.id, i>> \in refs THEN state ELSE v.refs[i]
  <2> DEFINE r == [i \in DOMAIN v.refs |-> IF <<m, v.id, i>> \in refs THEN state ELSE v.refs[i]]
  <2>1. DOMAIN v.refs \in SUBSET Identities /\ r \in [DOMAIN v.refs -> RefStates]
    BY VersionFields
  <2>2. r \in UNION {[i -> RefStates] : i \in SUBSET Identities} /\ DOMAIN r = DOMAIN v.refs
    BY <2>1
  <2> HIDE DEF r
  <2>3. /\ new(v, m).refs = r /\ new(v, m).id = v.id /\ new(v, m).revision = v.revision
        /\ new(v, m).order = v.order /\ new(v, m).content = v.content
        /\ new(v, m).open = v.open /\ new(v, m).complete = v.complete
        /\ new(v, m) \in Version
    <3>1. new(v, m) = [v EXCEPT !.refs = r]
      BY DEF r
    <3> HIDE DEF new
    <3> QED
      BY <2>2, <3>1 DEF Version
  <2> HIDE DEF new
  <2>4. Alike(v, new(v, m))
    BY <2>2, <2>3 DEF Alike
  <2> QED
    BY <2>1, <2>3, <2>4 DEF r
<1> HIDE DEF new
<1>2. ASSUME NEW m \in Msgs
      PROVE  /\ ns[m] = [ms[m] EXCEPT !.versions = vers(m)]
             /\ ms[m] \in Message
  BY <1>2 DEF SetRefs, new
<1>3. ASSUME NEW m \in Msgs
      PROVE  /\ vers(m) \in Seq(Version) /\ DOMAIN vers(m) = DOMAIN ms[m].versions
             /\ \A k \in DOMAIN ms[m].versions : vers(m)[k] = new(ms[m].versions[k], m)
  <2>1. /\ DOMAIN ms[m].versions = 1..Len(ms[m].versions) /\ Len(ms[m].versions) \in Nat
        /\ \A k \in DOMAIN ms[m].versions : ms[m].versions[k] \in Version
    BY <1>2, MessageFields
  <2>2. vers(m) \in [1..Len(ms[m].versions) -> Version]
    BY <1>1, <2>1
  <2> QED
    BY <2>1, <2>2, FunctionIsSeq
<1> HIDE DEF vers
<1>4. ASSUME NEW m \in Msgs
      PROVE  /\ ns[m] \in Message /\ ns[m].versions = vers(m)
             /\ ns[m].deleted = ms[m].deleted /\ ns[m].purged = ms[m].purged
             /\ ns[m].order = ms[m].order /\ ns[m].receipts = ms[m].receipts
  BY <1>2, <1>3 DEF Message
<1>5. ns \in [Msgs -> Message]
  <2>1. ns = [m \in Msgs |-> ns[m]]
    BY DEF SetRefs
  <2> QED
    BY <1>4, <2>1
<1>6. \A m \in Msgs : \A k \in DOMAIN ms[m].versions : ms[m].versions[k] \in Version
  BY <1>2, MessageFields
<1>7. SameBodies(ms, ns)
  BY <1>1, <1>3, <1>4, <1>6 DEF SameBodies, MessageAlike
<1> QED
  BY <1>1, <1>3, <1>4, <1>5, <1>6, <1>7

---------------------------------------------------------------------------
(* What an account owns, and what a commit does to a plan.                 *)

\* What is owned, by the version that owns it.
LEMMA OwnedBy ==
  ASSUME NEW s, NEW i
  PROVE  i \in Owned(s) <=>
           \E m \in Msgs : \E k \in DOMAIN s.messages[m].versions :
             /\ i \in DOMAIN s.messages[m].versions[k].refs
             /\ s.messages[m].versions[k].refs[i] = "Complete"
BY DEF Owned, VersionsOf

\* What the fields of a state are.
LEMMA StateFields ==
  ASSUME NEW s \in ArchiveState
  PROVE  /\ s.messages \in [Msgs -> Message]
         /\ s.jobs \in [Jobs -> Job \cup {Nothing}]
         /\ s.leases \in [Leases -> Lease \cup {Nothing}]
         /\ s.blobs \in [Blobs -> {"None", "Complete", "GarbagePending"}]
         /\ s.account \in Nat /\ s.chats \in [Chats -> Nat]
         /\ \A m \in Msgs : s.messages[m] \in Message
BY DEF ArchiveState

\* Owned identities have a blob.
LEMMA OwnedIdentities ==
  ASSUME NEW s \in ArchiveState
  PROVE  Owned(s) \subseteq Identities
<1>1. ASSUME NEW m \in Msgs, NEW k \in DOMAIN s.messages[m].versions
      PROVE  DOMAIN s.messages[m].versions[k].refs \subseteq Identities
  BY StateFields, MessageFields, VersionFields
<1> QED
  BY <1>1, OwnedBy

\* What setting references takes or gives of what is owned.
LEMMA SetRefsOwned ==
  ASSUME NEW s \in ArchiveState, NEW t, NEW refs, NEW state \in RefStates,
         t.messages = SetRefs(s.messages, refs, state)
  PROVE  \A i \in Owned(t) : i \in Owned(s) \/ (state = "Complete" /\ \E m, id : <<m, id, i>> \in refs)
<1> SUFFICES ASSUME NEW i \in Owned(t)
             PROVE  i \in Owned(s) \/ (state = "Complete" /\ \E m, id : <<m, id, i>> \in refs)
  OBVIOUS
<1>1. s.messages \in [Msgs -> Message]
  BY StateFields
<1>2. PICK m \in Msgs : \E k \in DOMAIN t.messages[m].versions :
        /\ i \in DOMAIN t.messages[m].versions[k].refs
        /\ t.messages[m].versions[k].refs[i] = "Complete"
  BY OwnedBy
<1>3. PICK k \in DOMAIN t.messages[m].versions :
        /\ i \in DOMAIN t.messages[m].versions[k].refs
        /\ t.messages[m].versions[k].refs[i] = "Complete"
  BY <1>2
<1>4. /\ k \in DOMAIN s.messages[m].versions
      /\ i \in DOMAIN s.messages[m].versions[k].refs
      /\ t.messages[m].versions[k].refs[i] =
           IF <<m, s.messages[m].versions[k].id, i>> \in refs THEN state
           ELSE s.messages[m].versions[k].refs[i]
  BY <1>1, <1>3, SetRefsFacts DEF SameBodies, MessageAlike, Alike
<1>5. CASE <<m, s.messages[m].versions[k].id, i>> \in refs
  BY <1>3, <1>4, <1>5
<1>6. CASE <<m, s.messages[m].versions[k].id, i>> \notin refs
  BY <1>3, <1>4, <1>6, OwnedBy
<1> QED
  BY <1>5, <1>6

\* Sharing gives references what is owned already.
LEMMA ShareFacts ==
  ASSUME NEW s \in ArchiveState, NEW refs
  PROVE  /\ ShareKnownMedia(s, refs) \in ArchiveState
         /\ ShareKnownMedia(s, refs).messages =
              SetRefs(s.messages, {r \in refs : r[3] \in Owned(s)}, "Complete")
         /\ SameBodies(s.messages, ShareKnownMedia(s, refs).messages)
         /\ Owned(ShareKnownMedia(s, refs)) \subseteq Owned(s)
         /\ ShareKnownMedia(s, refs).jobs = s.jobs
         /\ ShareKnownMedia(s, refs).leases = s.leases
         /\ ShareKnownMedia(s, refs).blobs = s.blobs
         /\ ShareKnownMedia(s, refs).account = s.account
         /\ ShareKnownMedia(s, refs).chats = s.chats
<1> DEFINE shared == {r \in refs : r[3] \in Owned(s)}
           t == ShareKnownMedia(s, refs)
<1>1. t = [s EXCEPT !.messages = SetRefs(s.messages, shared, "Complete")]
  BY DEF ShareKnownMedia
<1> HIDE DEF t
<1>2. /\ s.messages \in [Msgs -> Message] /\ "Complete" \in RefStates
      /\ t.messages = SetRefs(s.messages, shared, "Complete")
      /\ t.jobs = s.jobs /\ t.leases = s.leases /\ t.blobs = s.blobs
      /\ t.account = s.account /\ t.chats = s.chats
      /\ t = [messages |-> t.messages, jobs |-> t.jobs, leases |-> t.leases,
              blobs |-> t.blobs, account |-> t.account, chats |-> t.chats]
  BY <1>1 DEF ArchiveState, RefStates
<1>3. t.messages \in [Msgs -> Message] /\ SameBodies(s.messages, t.messages)
  BY <1>2, SetRefsFacts
<1>4. t \in ArchiveState
  BY <1>2, <1>3 DEF ArchiveState
<1>5. ASSUME NEW i \in Owned(t) PROVE i \in Owned(s)
  <2>1. i \in Owned(s) \/ \E m, id : <<m, id, i>> \in shared
    <3> HIDE DEF shared
    <3> QED
      BY <1>2, SetRefsOwned
  <2> QED
    BY <2>1
<1> QED
  BY <1>2, <1>3, <1>4, <1>5 DEF t

\* The staged references of jobs whose body has changed.
DeadRefs(s) == {ref \in {JobRef(s, j) : j \in Dead(s)} : IsStagedRef(s, ref)}

\* A commit cancels jobs, revokes leases and takes staged references back.
LEMMA ReconcileFacts ==
  ASSUME NEW s \in ArchiveState
  PROVE  /\ Reconcile(s) \in ArchiveState
         /\ Reconcile(s).messages = SetRefs(s.messages, DeadRefs(s), "Missing")
         /\ SameBodies(s.messages, Reconcile(s).messages)
         /\ Owned(Reconcile(s)) \subseteq Owned(s)
         /\ \A j \in Jobs : Reconcile(s).jobs[j] =
              IF j \in Dead(s) THEN [s.jobs[j] EXCEPT !.state = "Cancelled"] ELSE s.jobs[j]
         /\ \A l \in Leases : Reconcile(s).leases[l] =
              IF s.leases[l] # Nothing /\ ~LeaseCurrent(s, l)
              THEN [s.leases[l] EXCEPT !.revoked = TRUE] ELSE s.leases[l]
         /\ Reconcile(s).blobs = s.blobs
         /\ Reconcile(s).account = s.account
         /\ Reconcile(s).chats = s.chats
<1> DEFINE t == Reconcile(s)
           js == [j \in Jobs |->
                    IF j \in Dead(s) THEN [s.jobs[j] EXCEPT !.state = "Cancelled"] ELSE s.jobs[j]]
           ls == [l \in Leases |->
                    IF s.leases[l] # Nothing /\ ~LeaseCurrent(s, l)
                    THEN [s.leases[l] EXCEPT !.revoked = TRUE] ELSE s.leases[l]]
           ms == SetRefs(s.messages, DeadRefs(s), "Missing")
<1>1. t = [s EXCEPT !.jobs = js, !.messages = ms, !.leases = ls]
  BY DEF Reconcile, DeadRefs
<1>2. js \in [Jobs -> Job \cup {Nothing}]
  <2>1. ASSUME NEW j \in Dead(s) PROVE [s.jobs[j] EXCEPT !.state = "Cancelled"] \in Job
    <3>1. s.jobs[j] \in Job
      BY <2>1, StateFields DEF Dead, Staged
    <3> QED
      BY <3>1 DEF Job
  <2> QED
    BY <2>1, StateFields
<1>3. ls \in [Leases -> Lease \cup {Nothing}]
  <2>1. ASSUME NEW l \in Leases, s.leases[l] # Nothing
        PROVE  [s.leases[l] EXCEPT !.revoked = TRUE] \in Lease
    <3>1. s.leases[l] \in Lease
      BY <2>1, StateFields
    <3> QED
      BY <3>1 DEF Lease
  <2> QED
    BY <2>1, StateFields
<1>4. s.messages \in [Msgs -> Message] /\ "Missing" \in RefStates
  BY StateFields DEF RefStates
<1>5. ms \in [Msgs -> Message] /\ SameBodies(s.messages, ms)
  BY <1>4, SetRefsFacts
<1> HIDE DEF ms, t
<1>6. /\ \A j \in Jobs : js[j] =
           IF j \in Dead(s) THEN [s.jobs[j] EXCEPT !.state = "Cancelled"] ELSE s.jobs[j]
      /\ \A l \in Leases : ls[l] =
           IF s.leases[l] # Nothing /\ ~LeaseCurrent(s, l)
           THEN [s.leases[l] EXCEPT !.revoked = TRUE] ELSE s.leases[l]
  OBVIOUS
<1> HIDE DEF js, ls
<1>7. /\ t.messages = ms /\ t.jobs = js /\ t.leases = ls /\ t.blobs = s.blobs
      /\ t.account = s.account /\ t.chats = s.chats
      /\ t = [messages |-> t.messages, jobs |-> t.jobs, leases |-> t.leases,
              blobs |-> t.blobs, account |-> t.account, chats |-> t.chats]
  BY <1>1 DEF ArchiveState
<1>8. t \in ArchiveState
  BY <1>2, <1>3, <1>5, <1>7, StateFields DEF ArchiveState
<1>9. Owned(t) \subseteq Owned(s)
  BY <1>4, <1>7, SetRefsOwned DEF ms
<1> QED
  BY <1>5, <1>6, <1>7, <1>8, <1>9 DEF t, ms

\* Bodies that are valid stay so when only references change.
LEMMA SameBodiesValid ==
  ASSUME NEW s \in ArchiveState, NEW t \in ArchiveState, SameBodies(s.messages, t.messages),
         BodiesValid(s)
  PROVE  BodiesValid(t)
BY StateFields, AlikeValid DEF BodiesValid, SameBodies

---------------------------------------------------------------------------
(* What an event makes of its message.                                     *)

\* A version that is kept gains what it lacked, and loses nothing.
Gains(v, w, e) ==
    /\ w \in Version
    /\ w.id = v.id /\ w.order = v.order /\ w.refs = v.refs
    /\ w.revision \in {v.revision, e.id}
    /\ w.content.text = v.content.text /\ w.content.media = v.content.media
    /\ v.content.fill # Empty => w.content.fill = v.content.fill
    /\ v.complete => w.complete /\ w.content = v.content
    /\ (v.open => ~v.complete) => (w.open => ~w.complete)

\* x is msg after e: its versions are those of msg, and perhaps a new one.
Delivered(msg, x, e) ==
    /\ x \in Message
    /\ x.purged = msg.purged /\ (msg.deleted => x.deleted)
    /\ x.receipts = msg.receipts /\ msg.order <= x.order
    /\ \A k \in DOMAIN msg.versions : Gains(msg.versions[k], x.versions[k], e)
    /\ \/ Len(x.versions) = Len(msg.versions)
       \/ /\ Len(x.versions) = Len(msg.versions) + 1
          /\ ~msg.purged
          /\ x.versions[Len(x.versions)] = MakeVersion(e)
          /\ \A k \in DOMAIN msg.versions : msg.versions[k].order < e.order
          /\ x.order = e.order
          /\ e.content \in Contents

\* What is known of an event.
LEMMA EventFields ==
  ASSUME NEW e \in Events
  PROVE  /\ e.msg \in Msgs /\ e.id \in Ids /\ e.order \in Nat
         /\ e.open \in BOOLEAN /\ e.complete \in BOOLEAN /\ (e.complete => ~e.open)
         /\ e.origin \in Observations \cup {"Hydration"} => e.content \in Contents
         /\ e.origin \in Observations \cup Deletions \cup {"Hydration", "SendMetadata"}
BY ArchiveAssumption DEF Ids

\* A version gains nothing by not changing.
LEMMA GainsItself ==
  ASSUME NEW v \in Version, NEW e
  PROVE  Gains(v, v, e)
BY DEF Gains

\* One version in the place of another.
LEMMA ReplaceVersion ==
  ASSUME NEW msg \in Message, NEW k \in DOMAIN msg.versions, NEW w \in Version
  PROVE  /\ [msg EXCEPT !.versions[k] = w] \in Message
         /\ Len([msg EXCEPT !.versions[k] = w].versions) = Len(msg.versions)
         /\ [msg EXCEPT !.versions[k] = w].versions[k] = w
         /\ \A n \in DOMAIN msg.versions \ {k} :
              [msg EXCEPT !.versions[k] = w].versions[n] = msg.versions[n]
         /\ [msg EXCEPT !.versions[k] = w].deleted = msg.deleted
         /\ [msg EXCEPT !.versions[k] = w].purged = msg.purged
         /\ [msg EXCEPT !.versions[k] = w].order = msg.order
         /\ [msg EXCEPT !.versions[k] = w].receipts = msg.receipts
<1> DEFINE vs == [msg.versions EXCEPT ![k] = w]
<1>1. msg.versions \in [1..Len(msg.versions) -> Version] /\ Len(msg.versions) \in Nat
  BY MessageFields
<1>2. vs \in [1..Len(msg.versions) -> Version] /\ vs[k] = w
      /\ \A n \in DOMAIN msg.versions \ {k} : vs[n] = msg.versions[n]
  BY <1>1
<1>3. vs \in Seq(Version) /\ Len(vs) = Len(msg.versions)
  BY <1>1, <1>2, FunctionIsSeq
<1>4. [msg EXCEPT !.versions[k] = w] = [msg EXCEPT !.versions = vs]
  BY DEF Message
<1> HIDE DEF vs
<1> QED
  BY <1>2, <1>3, <1>4 DEF Message

\* A hydration enriches one version.
LEMMA HydrationFacts ==
  ASSUME NEW msg \in Message, NEW e \in Events, e.origin = "Hydration",
         NEW k \in Hydrated(msg, e)
  PROVE  Delivered(msg, [msg EXCEPT !.versions[k] = ReplaceBody(@, e)], e)
<1> DEFINE v == msg.versions[k]
           w == ReplaceBody(v, e)
<1>1. k \in DOMAIN msg.versions /\ v \in Version
  BY MessageFields DEF Hydrated
<1>2. HydrationPreservesKnownContent(v, e) /\ (v.complete => e.complete /\ e.content = v.content)
  BY DEF Hydrated
<1>3. e.content \in Contents /\ e.open \in BOOLEAN /\ e.complete \in BOOLEAN
      /\ (e.complete => ~e.open)
  BY EventFields
<1> HIDE DEF v
<1>4. w \in Version /\ w.id = v.id /\ w.order = v.order /\ w.refs = v.refs
      /\ w.revision = v.revision /\ w.content = e.content /\ w.open = e.open
      /\ w.complete = e.complete
  BY <1>1, <1>3 DEF ReplaceBody, Version
<1>5. Gains(v, w, e)
  <2>1. v.content.fill # Empty => e.content.fill = v.content.fill
    BY <1>2 DEF HydrationPreservesKnownContent
  <2>2. e.content.text = v.content.text /\ e.content.media = v.content.media
    BY <1>2 DEF HydrationPreservesKnownContent
  <2> HIDE DEF w
  <2> QED
    BY <1>2, <1>3, <1>4, <2>1, <2>2 DEF Gains
<1> HIDE DEF w
<1>6. PICK x : x = [msg EXCEPT !.versions[k] = w]
  OBVIOUS
<1>7. [msg EXCEPT !.versions[k] = ReplaceBody(@, e)] = x
  BY <1>1, <1>6 DEF w, v, Message
<1>8. /\ x \in Message /\ Len(x.versions) = Len(msg.versions)
      /\ x.versions[k] = w
      /\ \A n \in DOMAIN msg.versions \ {k} : x.versions[n] = msg.versions[n]
      /\ x.deleted = msg.deleted /\ x.purged = msg.purged
      /\ x.order = msg.order /\ x.receipts = msg.receipts
  BY <1>1, <1>4, <1>6, ReplaceVersion
<1>9. \A n \in DOMAIN msg.versions : Gains(msg.versions[n], x.versions[n], e)
  BY <1>5, <1>8, GainsItself, MessageFields DEF v
<1>10. msg.order <= x.order
  BY <1>8, MessageFields
<1> QED
  BY <1>7, <1>8, <1>9, <1>10 DEF Delivered

\* An event that finds the body it names leaves it, and one that is sent when
\* the body is deleted hides it.
LEMMA MarkFacts ==
  ASSUME NEW msg \in Message, NEW e \in Events, NEW deleted \in BOOLEAN, NEW order \in Nat,
         msg.deleted => deleted, msg.order <= order
  PROVE  Delivered(msg, [msg EXCEPT !.deleted = deleted, !.order = order], e)
<1>1. PICK x : x = [msg EXCEPT !.deleted = deleted, !.order = order]
  OBVIOUS
<1>2. /\ x \in Message /\ x.versions = msg.versions
      /\ x.deleted = deleted /\ x.purged = msg.purged
      /\ x.order = order /\ x.receipts = msg.receipts
  BY <1>1 DEF Message
<1>3. \A n \in DOMAIN msg.versions : Gains(msg.versions[n], x.versions[n], e)
  BY <1>2, GainsItself, MessageFields
<1> QED
  BY <1>1, <1>2, <1>3 DEF Delivered

\* A body that is new.
LEMMA AppendFacts ==
  ASSUME NEW msg \in Message, NEW e \in Events, e.content \in Contents, ~msg.purged,
         msg.order <= e.order,
         \A k \in DOMAIN msg.versions : msg.versions[k].order < e.order
  PROVE  Delivered(msg, [[msg EXCEPT !.versions = Append(@, MakeVersion(e))]
                          EXCEPT !.order = e.order], e)
<1>1. MakeVersion(e) \in Version
  <2>1. e.content.media \in SUBSET Identities
    BY DEF Contents
  <2>2. [i \in e.content.media |-> "Missing"] \in UNION {[i -> RefStates] : i \in SUBSET Identities}
    BY <2>1 DEF RefStates
  <2> QED
    BY <2>2, EventFields DEF MakeVersion, Version
<1>2. PICK new : new = MakeVersion(e)
  OBVIOUS
<1>3. PICK vs : vs = Append(msg.versions, new)
  OBVIOUS
<1>4. /\ msg.versions \in Seq(Version) /\ Len(msg.versions) \in Nat
      /\ DOMAIN msg.versions = 1..Len(msg.versions)
  BY MessageFields
<1>5. /\ vs \in Seq(Version) /\ Len(vs) = Len(msg.versions) + 1
      /\ vs[Len(vs)] = new
      /\ \A n \in DOMAIN msg.versions : vs[n] = msg.versions[n]
  BY <1>1, <1>2, <1>3, <1>4
<1>6. PICK x : x = [[msg EXCEPT !.versions = Append(@, MakeVersion(e))] EXCEPT !.order = e.order]
  OBVIOUS
<1>7. /\ x \in Message /\ x.versions = vs
      /\ x.deleted = msg.deleted /\ x.purged = msg.purged
      /\ x.order = e.order /\ x.receipts = msg.receipts
  BY <1>2, <1>3, <1>5, <1>6, EventFields DEF Message
<1>8. \A n \in DOMAIN msg.versions : Gains(msg.versions[n], x.versions[n], e)
  BY <1>5, <1>7, GainsItself, MessageFields
<1>9. Delivered(msg, x, e)
  BY <1>2, <1>5, <1>7, <1>8 DEF Delivered
<1> QED
  BY <1>6, <1>9

\* A body that is the newest again.
LEMMA RefreshFacts ==
  ASSUME NEW msg \in Message, NEW e \in Events, msg.versions # <<>>,
         Newest(msg.versions).content = e.content, CanRefreshHead(msg, e),
         msg.order <= e.order
  PROVE  Delivered(msg, [RefreshHead(msg, e) EXCEPT !.order = e.order], e)
<1> DEFINE k == Len(msg.versions)
           v == msg.versions[k]
<1>1. k \in DOMAIN msg.versions /\ v \in Version
  <2>1. k \in Nat /\ DOMAIN msg.versions = 1..k /\ k # 0
    BY MessageFields
  <2> QED
    BY <2>1, MessageFields
<1>2. v = Newest(msg.versions)
  BY DEF Newest
<1> HIDE DEF v, k
<1>3. PICK w : w = Refreshed(v, msg, e)
  OBVIOUS
<1>4. v.open \in BOOLEAN /\ v.complete \in BOOLEAN /\ e.open \in BOOLEAN
      /\ e.complete \in BOOLEAN /\ e.id \in Ids
  BY <1>1, VersionFields, EventFields
<1>5. /\ w \in Version /\ w.id = v.id /\ w.order = v.order /\ w.refs = v.refs
      /\ w.content = v.content /\ w.revision \in {v.revision, e.id}
      /\ w.open = IF Advances(msg, e) THEN e.open ELSE v.open
      /\ w.complete = (v.complete \/ e.complete)
  BY <1>1, <1>3, <1>4 DEF Refreshed, Version
<1>6. (v.open => ~v.complete) => (w.open => ~w.complete)
  BY <1>2, <1>4, <1>5 DEF CanRefreshHead
<1>7. Gains(v, w, e)
  BY <1>4, <1>5, <1>6 DEF Gains
<1>8. PICK y : y = [msg EXCEPT !.versions[k] = w]
  OBVIOUS
<1>9. RefreshHead(msg, e) = y
  <2>1. RefreshHead(msg, e) = [msg EXCEPT !.versions[k] = Refreshed(v, msg, e)]
    BY DEF RefreshHead, k, v
  <2> QED
    BY <1>3, <1>8, <2>1
<1>10. /\ y \in Message /\ Len(y.versions) = Len(msg.versions)
       /\ y.versions[k] = w
       /\ \A n \in DOMAIN msg.versions \ {k} : y.versions[n] = msg.versions[n]
       /\ y.deleted = msg.deleted /\ y.purged = msg.purged
       /\ y.order = msg.order /\ y.receipts = msg.receipts
  BY <1>1, <1>5, <1>8, ReplaceVersion
<1>11. PICK x : x = [y EXCEPT !.order = e.order]
  OBVIOUS
<1>12. /\ x \in Message /\ x.versions = y.versions
       /\ x.deleted = y.deleted /\ x.purged = y.purged
       /\ x.order = e.order /\ x.receipts = y.receipts
  BY <1>10, <1>11, EventFields DEF Message
<1>13. \A n \in DOMAIN msg.versions : Gains(msg.versions[n], x.versions[n], e)
  BY <1>7, <1>10, <1>12, GainsItself, MessageFields DEF v
<1>14. Delivered(msg, x, e)
  BY <1>10, <1>12, <1>13 DEF Delivered
<1> QED
  BY <1>9, <1>11, <1>14

\* What an event makes of its message, of whatever kind it is.
LEMMA AfterEventFacts ==
  ASSUME NEW msg \in Message, NEW e \in Events, BodyValid(msg), NEW x \in AfterEvent(msg, e)
  PROVE  Delivered(msg, x, e)
<1>1. /\ e.order \in Nat /\ msg.order \in Nat
      /\ e.origin \in Observations \cup Deletions \cup {"Hydration", "SendMetadata"}
      /\ e.origin \in Observations => e.content \in Contents
  BY EventFields, MessageFields
<1>2. CASE e.origin = "Hydration"
  <2>1. PICK k \in Hydrated(msg, e) : x = [msg EXCEPT !.versions[k] = ReplaceBody(@, e)]
    BY <1>2 DEF AfterEvent, Deletions
  <2> QED
    BY <1>2, <2>1, HydrationFacts
<1>3. CASE e.origin = "SendMetadata"
  <2>1. x = msg
    BY <1>3 DEF AfterEvent, Deletions
  <2>2. \A n \in DOMAIN msg.versions : Gains(msg.versions[n], msg.versions[n], e)
    BY GainsItself, MessageFields
  <2> QED
    BY <1>1, <2>1, <2>2 DEF Delivered
<1>4. CASE e.origin \in Deletions
  <2>1. e.origin # "Hydration" /\ e.origin # "SendMetadata" /\ e.origin # "Baseline"
    BY <1>4 DEF Deletions
  <2>2. x = [msg EXCEPT !.deleted = TRUE, !.order = e.order] /\ Newer(msg, e)
    BY <1>4, <2>1 DEF AfterEvent
  <2>3. msg.order <= e.order
    BY <1>1, <2>1, <2>2 DEF Newer
  <2> QED
    BY <1>1, <2>2, <2>3, MarkFacts
<1>5. CASE e.origin \in Observations
  <2>1. e.origin # "Hydration" /\ e.origin # "SendMetadata" /\ e.origin \notin Deletions
    BY <1>5 DEF Observations, Deletions
  <2>2. x \in AfterObservation(msg, e) /\ Newer(msg, e) /\ ~msg.purged
    BY <2>1 DEF AfterEvent
  <2>3. msg.order <= e.order
    BY <1>1, <2>2 DEF Newer
  <2>4. PICK new : new = [msg EXCEPT !.versions = Append(@, MakeVersion(e))]
    OBVIOUS
  <2>5. \/ /\ x = [new EXCEPT !.order = e.order]
           /\ \/ msg.versions = <<>>
              \/ e.origin = "AuthoritativeEdit"
              \/ e.order > msg.order
        \/ /\ x = [RefreshHead(msg, e) EXCEPT !.order = e.order]
           /\ msg.versions # <<>> /\ Newest(msg.versions).content = e.content
           /\ CanRefreshHead(msg, e)
    BY <2>2, <2>4 DEF AfterObservation
  <2>6. CASE /\ x = [new EXCEPT !.order = e.order]
             /\ \/ msg.versions = <<>>
                \/ e.origin = "AuthoritativeEdit"
                \/ e.order > msg.order
    <3>1. \A k \in DOMAIN msg.versions : msg.versions[k].order < e.order
      <4>1. CASE msg.versions = <<>>
        BY <4>1
      <4>2. CASE e.order > msg.order
        <5>1. \A k \in DOMAIN msg.versions :
                msg.versions[k].order <= msg.order /\ msg.versions[k].order \in Nat
          BY MessageFields, VersionFields DEF BodyValid
        <5> QED
          BY <1>1, <4>2, <5>1
      <4>3. e.origin = "AuthoritativeEdit" => e.order > msg.order
        BY <2>2 DEF Newer
      <4> QED
        BY <2>6, <4>1, <4>2, <4>3
    <3>2. e.content \in Contents
      BY <1>1, <1>5
    <3> QED
      BY <2>2, <2>3, <2>4, <2>6, <3>1, <3>2, AppendFacts
  <2>7. CASE /\ x = [RefreshHead(msg, e) EXCEPT !.order = e.order]
             /\ msg.versions # <<>> /\ Newest(msg.versions).content = e.content
             /\ CanRefreshHead(msg, e)
    BY <2>3, <2>7, RefreshFacts
  <2> QED
    BY <2>5, <2>6, <2>7
<1> QED
  BY <1>1, <1>2, <1>3, <1>4, <1>5

\* y is x with the receipt of the event that made it of msg.
Received(msg, x, y, e) ==
    /\ y \in Message /\ BodyValid(y)
    /\ y.versions = x.versions /\ y.receipts = msg.receipts \cup {e.id}
    /\ y.purged = msg.purged /\ (msg.deleted => y.deleted)

\* With the receipt of the event the message is valid again: its id is new.
LEMMA ReceiptValid ==
  ASSUME NEW msg \in Message, NEW e \in Events, BodyValid(msg), e.id \notin msg.receipts,
         NEW x, Delivered(msg, x, e)
  PROVE  Received(msg, x, [x EXCEPT !.receipts = @ \cup {e.id}], e)
<1> DEFINE y == [x EXCEPT !.receipts = @ \cup {e.id}]
<1>1. x \in Message /\ e.id \in Ids
  BY EventFields DEF Delivered
<1>2. /\ y \in Message /\ y.versions = x.versions /\ y.receipts = x.receipts \cup {e.id}
      /\ y.purged = x.purged /\ y.deleted = x.deleted /\ y.order = x.order
  BY <1>1 DEF Message
<1> HIDE DEF y
<1>3. /\ x.receipts = msg.receipts /\ x.purged = msg.purged /\ (msg.deleted => x.deleted)
      /\ msg.order <= x.order
      /\ \A k \in DOMAIN msg.versions : Gains(msg.versions[k], x.versions[k], e)
  BY DEF Delivered
<1>4. /\ DOMAIN msg.versions = 1..Len(msg.versions) /\ DOMAIN x.versions = 1..Len(x.versions)
      /\ Len(msg.versions) \in Nat /\ Len(x.versions) \in Nat
      /\ \A k \in DOMAIN msg.versions : msg.versions[k] \in Version
      /\ \A k \in DOMAIN x.versions : x.versions[k] \in Version
      /\ msg.order \in Nat /\ x.order \in Nat
  BY <1>1, MessageFields
<1> DEFINE Fits(k) ==
             /\ \A n \in 1..(k - 1) : /\ x.versions[n].order < x.versions[k].order
                                      /\ x.versions[n].id # x.versions[k].id
             /\ x.versions[k].order <= x.order
             /\ x.versions[k].open => ~x.versions[k].complete
             /\ {x.versions[k].id, x.versions[k].revision} \subseteq x.receipts \cup {e.id}
             /\ DOMAIN x.versions[k].refs = x.versions[k].content.media
<1>5. ASSUME NEW k \in DOMAIN msg.versions PROVE Fits(k)
  <2>1. 1..(k - 1) \subseteq DOMAIN msg.versions
    BY <1>4
  <2>2. \A n \in 1..(k - 1) : Gains(msg.versions[n], x.versions[n], e)
    BY <1>3, <2>1
  <2>3. Gains(msg.versions[k], x.versions[k], e)
    BY <1>3
  <2>4. /\ msg.versions[k].order <= msg.order
        /\ msg.versions[k].open => ~msg.versions[k].complete
        /\ {msg.versions[k].id, msg.versions[k].revision} \subseteq msg.receipts
        /\ DOMAIN msg.versions[k].refs = msg.versions[k].content.media
        /\ \A n \in 1..(k - 1) : /\ msg.versions[n].order < msg.versions[k].order
                                 /\ msg.versions[n].id # msg.versions[k].id
    BY DEF BodyValid
  <2>5. msg.versions[k].order \in Nat
    BY <1>4, VersionFields
  <2>6. x.versions[k].order <= x.order
    BY <1>3, <1>4, <2>3, <2>4, <2>5 DEF Gains
  <2> QED
    BY <1>3, <2>2, <2>3, <2>4, <2>6 DEF Gains
<1>6. ASSUME Len(x.versions) # Len(msg.versions), NEW k, k = Len(x.versions) PROVE Fits(k)
  <2>1. /\ k = Len(msg.versions) + 1 /\ x.versions[k] = MakeVersion(e)
        /\ \A n \in DOMAIN msg.versions : msg.versions[n].order < e.order
        /\ x.order = e.order /\ e.content \in Contents
    BY <1>6 DEF Delivered
  <2>2. /\ x.versions[k].id = e.id /\ x.versions[k].revision = e.id
        /\ x.versions[k].order = e.order /\ x.versions[k].content = e.content
        /\ x.versions[k].open = e.open /\ x.versions[k].complete = e.complete
        /\ DOMAIN x.versions[k].refs = e.content.media
    BY <2>1 DEF MakeVersion
  <2>3. 1..(k - 1) = DOMAIN msg.versions
    BY <1>4, <2>1
  <2>4. \A n \in DOMAIN msg.versions : msg.versions[n].id \in msg.receipts
    BY DEF BodyValid
  <2>5. \A n \in 1..(k - 1) : /\ x.versions[n].order < e.order
                              /\ x.versions[n].id # e.id
    BY <1>3, <2>1, <2>3, <2>4 DEF Gains
  <2>6. e.order \in Nat /\ (e.open => ~e.complete)
    BY EventFields
  <2> QED
    BY <2>1, <2>2, <2>5, <2>6
<1>7. \A k \in DOMAIN x.versions : Fits(k)
  <2>1. SUFFICES ASSUME NEW k \in DOMAIN x.versions PROVE Fits(k)
    OBVIOUS
  <2>2. CASE k \in DOMAIN msg.versions
    BY <1>5, <2>2
  <2>3. CASE k \notin DOMAIN msg.versions
    <3>1. Len(x.versions) # Len(msg.versions)
      BY <1>4, <2>3
    <3>2. Len(x.versions) = Len(msg.versions) + 1
      BY <3>1 DEF Delivered
    <3>3. k = Len(x.versions)
      BY <1>4, <2>1, <2>3, <3>2
    <3> QED
      BY <1>6, <3>1, <3>3
  <2> QED
    BY <2>2, <2>3
<1>8. y.purged => y.versions = <<>> /\ y.deleted
  <2>1. SUFFICES ASSUME msg.purged PROVE Len(x.versions) = 0 /\ x.deleted
    BY <1>1, <1>2, <1>3, MessageFields
  <2>2. Len(msg.versions) = 0 /\ msg.deleted
    BY <2>1 DEF BodyValid
  <2> QED
    BY <1>3, <2>1, <2>2 DEF Delivered
<1>9. BodyValid(y)
  BY <1>2, <1>7, <1>8 DEF BodyValid
<1> QED
  BY <1>2, <1>3, <1>9 DEF Received, y

---------------------------------------------------------------------------
(* What a plan keeps of the bodies, and of the rows of blobs.              *)

\* w is v at a later time: as much of it as there was, and the copies it owns.
Preserves(v, w) ==
    /\ w.id = v.id
    /\ w.content.text = v.content.text /\ w.content.media = v.content.media
    /\ v.content.fill # Empty => w.content.fill = v.content.fill
    /\ v.complete => w.complete /\ w.content = v.content
    /\ DOMAIN w.refs = DOMAIN v.refs
    /\ \A i \in DOMAIN v.refs : v.refs[i] = "Complete" => w.refs[i] = "Complete"

\* A version is one the message had, or its id is new to the message.
MessageKept(x, y) ==
    /\ x.receipts \subseteq y.receipts
    /\ \A k \in DOMAIN y.versions :
         \/ \E n \in DOMAIN x.versions : Preserves(x.versions[n], y.versions[k])
         \/ y.versions[k].id \notin x.receipts

BodiesKept(s, t) == \A m \in Msgs : MessageKept(s.messages[m], t.messages[m])

\* No reference loses its copy.
CopiesStay(s, t) ==
    \A m \in Msgs : \A k \in DOMAIN s.messages[m].versions :
      \A i \in DOMAIN s.messages[m].versions[k].refs :
        s.messages[m].versions[k].refs[i] = "Complete" =>
          t.messages[m].versions[k].refs[i] = "Complete"

RowsSound(s) ==
    /\ \A i \in Owned(s) : s.blobs[BlobOf[i]] = "Complete"
    /\ \A l \in Leases : s.leases[l] # Nothing => s.blobs[s.leases[l].blob] = "Complete"

JobsKept(s, t) ==
    \A j \in Jobs : s.jobs[j] # Nothing =>
      t.jobs[j] # Nothing /\ t.jobs[j].identity = s.jobs[j].identity

\* Bodies that only change in their references are kept.
LEMMA SameBodiesKept ==
  ASSUME NEW r, NEW s, NEW t, BodiesKept(r, s), SameBodies(s.messages, t.messages),
         CopiesStay(s, t)
  PROVE  BodiesKept(r, t)
<1>1. SUFFICES ASSUME NEW m \in Msgs
               PROVE  MessageKept(r.messages[m], t.messages[m])
  BY DEF BodiesKept
<1> DEFINE x == r.messages[m]
           y == s.messages[m]
           z == t.messages[m]
<1>2. MessageKept(x, y) /\ MessageAlike(y, z)
  BY DEF BodiesKept, SameBodies
<1>3. ASSUME NEW k \in DOMAIN z.versions
      PROVE  \/ \E n \in DOMAIN x.versions : Preserves(x.versions[n], z.versions[k])
             \/ z.versions[k].id \notin x.receipts
  <2>1. k \in DOMAIN y.versions /\ Alike(y.versions[k], z.versions[k])
    BY <1>2, <1>3 DEF MessageAlike
  <2>2. ASSUME NEW n \in DOMAIN x.versions, Preserves(x.versions[n], y.versions[k])
        PROVE  Preserves(x.versions[n], z.versions[k])
    <3>1. \A i \in DOMAIN y.versions[k].refs :
            y.versions[k].refs[i] = "Complete" => z.versions[k].refs[i] = "Complete"
      BY <2>1 DEF CopiesStay
    <3> HIDE DEF x, y, z
    <3> QED
      BY <2>1, <2>2, <3>1 DEF Preserves, Alike
  <2>3. CASE \E n \in DOMAIN x.versions : Preserves(x.versions[n], y.versions[k])
    BY <2>2, <2>3
  <2>4. CASE y.versions[k].id \notin x.receipts
    BY <2>1, <2>4 DEF Alike
  <2> QED
    BY <1>2, <2>1, <2>3, <2>4 DEF MessageKept
<1> QED
  BY <1>2, <1>3 DEF MessageKept, MessageAlike

\* Nothing changes.
LEMMA ItselfKept ==
  ASSUME NEW s
  PROVE  BodiesKept(s, s) /\ SameBodies(s.messages, s.messages) /\ CopiesStay(s, s)
BY DEF BodiesKept, MessageKept, Preserves, SameBodies, MessageAlike, Alike, CopiesStay

\* Giving a copy takes none.
LEMMA CompleteStays ==
  ASSUME NEW s \in ArchiveState, NEW t, NEW refs,
         t.messages = SetRefs(s.messages, refs, "Complete")
  PROVE  CopiesStay(s, t)
<1>1. s.messages \in [Msgs -> Message] /\ "Complete" \in RefStates
  BY StateFields DEF RefStates
<1>2. SUFFICES ASSUME NEW m \in Msgs, NEW k \in DOMAIN s.messages[m].versions,
                      NEW i \in DOMAIN s.messages[m].versions[k].refs,
                      s.messages[m].versions[k].refs[i] = "Complete"
               PROVE  t.messages[m].versions[k].refs[i] = "Complete"
  BY DEF CopiesStay
<1>3. t.messages[m].versions[k].refs[i] =
        IF <<m, s.messages[m].versions[k].id, i>> \in refs THEN "Complete"
        ELSE s.messages[m].versions[k].refs[i]
  BY <1>1, SetRefsFacts
<1> QED
  BY <1>2, <1>3

\* None of these references holds a copy.
NoCopies(s, refs) ==
    \A m \in Msgs : \A k \in DOMAIN s.messages[m].versions :
      \A i \in DOMAIN s.messages[m].versions[k].refs :
        <<m, s.messages[m].versions[k].id, i>> \in refs =>
          s.messages[m].versions[k].refs[i] # "Complete"

\* Setting references that are no copies takes none.
LEMMA OthersStay ==
  ASSUME NEW s \in ArchiveState, NEW t, NEW refs, NEW state \in RefStates,
         t.messages = SetRefs(s.messages, refs, state), NoCopies(s, refs)
  PROVE  CopiesStay(s, t)
<1>1. s.messages \in [Msgs -> Message]
  BY StateFields
<1>2. SUFFICES ASSUME NEW m \in Msgs, NEW k \in DOMAIN s.messages[m].versions,
                      NEW i \in DOMAIN s.messages[m].versions[k].refs,
                      s.messages[m].versions[k].refs[i] = "Complete"
               PROVE  t.messages[m].versions[k].refs[i] = "Complete"
  BY DEF CopiesStay
<1>3. t.messages[m].versions[k].refs[i] =
        IF <<m, s.messages[m].versions[k].id, i>> \in refs THEN state
        ELSE s.messages[m].versions[k].refs[i]
  BY <1>1, SetRefsFacts
<1> QED
  BY <1>2, <1>3 DEF NoCopies

\* The versions of a message have ids of their own.
LEMMA IdsDiffer ==
  ASSUME NEW msg \in Message, BodyValid(msg), NEW k \in DOMAIN msg.versions,
         NEW n \in DOMAIN msg.versions, msg.versions[k].id = msg.versions[n].id
  PROVE  k = n
<1>1. k \in 1..Len(msg.versions) /\ n \in 1..Len(msg.versions) /\ Len(msg.versions) \in Nat
  BY MessageFields
<1>2. ~(n \in 1..(k - 1)) /\ ~(k \in 1..(n - 1))
  BY DEF BodyValid
<1> QED
  BY <1>1, <1>2

\* A commit only takes back references that are staged.
LEMMA DeadRefsStaged ==
  ASSUME NEW s \in ArchiveState, BodiesValid(s), NEW m \in Msgs,
         NEW k \in DOMAIN s.messages[m].versions, NEW i,
         <<m, s.messages[m].versions[k].id, i>> \in DeadRefs(s)
  PROVE  i \in DOMAIN s.messages[m].versions[k].refs
         /\ s.messages[m].versions[k].refs[i] = "Staged"
<1>1. IsStagedRef(s, <<m, s.messages[m].versions[k].id, i>>)
  BY DEF DeadRefs
<1>2. PICK n \in DOMAIN s.messages[m].versions :
        /\ s.messages[m].versions[n].id = s.messages[m].versions[k].id
        /\ i \in DOMAIN s.messages[m].versions[n].refs
        /\ s.messages[m].versions[n].refs[i] = "Staged"
  BY <1>1 DEF IsStagedRef, VersionsOf
<1>3. s.messages[m] \in Message /\ BodyValid(s.messages[m])
  BY StateFields DEF BodiesValid
<1>4. n = k
  BY <1>2, <1>3, IdsDiffer
<1> QED
  BY <1>2, <1>4

\* A commit keeps bodies, rows and jobs: it takes back staged references only.
LEMMA ReconcileKeeps ==
  ASSUME NEW s \in ArchiveState, BodiesValid(s), RowsSound(s)
  PROVE  /\ BodiesValid(Reconcile(s)) /\ RowsSound(Reconcile(s))
         /\ CopiesStay(s, Reconcile(s)) /\ JobsKept(s, Reconcile(s))
<1> DEFINE t == Reconcile(s)
<1>1. /\ t \in ArchiveState /\ SameBodies(s.messages, t.messages)
      /\ t.messages = SetRefs(s.messages, DeadRefs(s), "Missing")
      /\ Owned(t) \subseteq Owned(s) /\ t.blobs = s.blobs
      /\ \A j \in Jobs : t.jobs[j] =
           IF j \in Dead(s) THEN [s.jobs[j] EXCEPT !.state = "Cancelled"] ELSE s.jobs[j]
      /\ \A l \in Leases : t.leases[l] =
           IF s.leases[l] # Nothing /\ ~LeaseCurrent(s, l)
           THEN [s.leases[l] EXCEPT !.revoked = TRUE] ELSE s.leases[l]
  BY ReconcileFacts
<1> HIDE DEF t
<1>2. BodiesValid(t)
  BY <1>1, SameBodiesValid
<1>3. RowsSound(t)
  <2>1. \A l \in Leases : t.leases[l] # Nothing =>
          s.leases[l] # Nothing /\ t.leases[l].blob = s.leases[l].blob
    <3>1. SUFFICES ASSUME NEW l \in Leases, t.leases[l] # Nothing
                   PROVE  s.leases[l] # Nothing /\ t.leases[l].blob = s.leases[l].blob
      OBVIOUS
    <3>2. s.leases[l] # Nothing
      BY <1>1, <3>1
    <3>3. s.leases[l] \in Lease
      BY <3>2, StateFields
    <3> QED
      BY <1>1, <3>2, <3>3 DEF Lease
  <2> QED
    BY <1>1, <2>1 DEF RowsSound
<1>4. CopiesStay(s, t)
  <2>1. "Missing" \in RefStates
    BY DEF RefStates
  <2>2. NoCopies(s, DeadRefs(s))
    BY DeadRefsStaged DEF NoCopies
  <2> QED
    BY <1>1, <2>1, <2>2, OthersStay
<1>5. JobsKept(s, t)
  <2>1. SUFFICES ASSUME NEW j \in Jobs, s.jobs[j] # Nothing
                 PROVE  t.jobs[j] # Nothing /\ t.jobs[j].identity = s.jobs[j].identity
    BY DEF JobsKept
  <2>2. s.jobs[j] \in Job /\ [s.jobs[j] EXCEPT !.state = "Cancelled"] \in Job
    <3>1. s.jobs[j] \in Job
      BY <2>1, StateFields
    <3> QED
      BY <3>1 DEF Job
  <2>3. [s.jobs[j] EXCEPT !.state = "Cancelled"].identity = s.jobs[j].identity
    BY <2>2 DEF Job
  <2> QED
    BY <1>1, <2>1, <2>2, <2>3, ArchiveAssumption
<1> QED
  BY <1>2, <1>3, <1>4, <1>5 DEF t

---------------------------------------------------------------------------
(* Jobs and their references, leases and their generations.                *)

\* A staged reference has its job, and a staged job its reference to itself.
JobsTied(s) ==
    /\ \A m \in Msgs : \A k \in DOMAIN s.messages[m].versions :
         \A i \in DOMAIN s.messages[m].versions[k].refs :
           s.messages[m].versions[k].refs[i] = "Staged" =>
             \E j \in Jobs : Staged(s, j) /\ JobRef(s, j) = <<m, s.messages[m].versions[k].id, i>>
    /\ \A j, n \in Jobs :
         Staged(s, j) /\ Staged(s, n) /\ JobRef(s, j) = JobRef(s, n) => j = n

\* A lease that is not revoked is of the generation of its message.
LeasesTied(s) ==
    \A l \in Leases : s.leases[l] # Nothing /\ ~s.leases[l].revoked =>
      s.leases[l].generation = GenerationFor(s, s.leases[l].msg)

\* What a commit leaves.
Sound(s) ==
    /\ JobsTied(s) /\ LeasesTied(s)
    /\ \A j \in Jobs : Staged(s, j) => JobCurrent(s, j)
    /\ \A l \in Leases : s.leases[l] # Nothing /\ ~s.leases[l].revoked => LeaseCurrent(s, l)

\* What is staged in t was staged in s.
StagedBefore(s, t) ==
    \A m \in Msgs : \A k \in DOMAIN t.messages[m].versions :
      \A i \in DOMAIN t.messages[m].versions[k].refs :
        t.messages[m].versions[k].refs[i] = "Staged" =>
          \E n \in DOMAIN s.messages[m].versions :
            /\ s.messages[m].versions[n].id = t.messages[m].versions[k].id
            /\ i \in DOMAIN s.messages[m].versions[n].refs
            /\ s.messages[m].versions[n].refs[i] = "Staged"

\* Jobs that stay, and no new staged reference, stay tied.
LEMMA TiedStay ==
  ASSUME NEW s, NEW t, JobsTied(s), t.jobs = s.jobs, StagedBefore(s, t)
  PROVE  JobsTied(t)
<1>1. \A j \in Jobs : (Staged(t, j) <=> Staged(s, j)) /\ JobRef(t, j) = JobRef(s, j)
  BY DEF Staged, JobRef
<1>2. \A j, n \in Jobs :
        Staged(t, j) /\ Staged(t, n) /\ JobRef(t, j) = JobRef(t, n) => j = n
  BY <1>1 DEF JobsTied
<1>3. ASSUME NEW m \in Msgs, NEW k \in DOMAIN t.messages[m].versions,
             NEW i \in DOMAIN t.messages[m].versions[k].refs,
             t.messages[m].versions[k].refs[i] = "Staged"
      PROVE  \E j \in Jobs : Staged(t, j) /\ JobRef(t, j) = <<m, t.messages[m].versions[k].id, i>>
  <2>1. PICK n \in DOMAIN s.messages[m].versions :
          /\ s.messages[m].versions[n].id = t.messages[m].versions[k].id
          /\ i \in DOMAIN s.messages[m].versions[n].refs
          /\ s.messages[m].versions[n].refs[i] = "Staged"
    BY <1>3 DEF StagedBefore
  <2>2. PICK j \in Jobs : Staged(s, j) /\ JobRef(s, j) = <<m, s.messages[m].versions[n].id, i>>
    BY <2>1 DEF JobsTied
  <2> QED
    BY <1>1, <2>1, <2>2
<1> QED
  BY <1>2, <1>3 DEF JobsTied

\* Setting references to something else stages none.
LEMMA SetRefsStages ==
  ASSUME NEW s \in ArchiveState, NEW t, NEW refs, NEW state \in RefStates, state # "Staged",
         t.messages = SetRefs(s.messages, refs, state)
  PROVE  StagedBefore(s, t)
<1>1. s.messages \in [Msgs -> Message]
  BY StateFields
<1>2. SUFFICES ASSUME NEW m \in Msgs, NEW k \in DOMAIN t.messages[m].versions,
                      NEW i \in DOMAIN t.messages[m].versions[k].refs,
                      t.messages[m].versions[k].refs[i] = "Staged"
               PROVE  /\ k \in DOMAIN s.messages[m].versions
                      /\ s.messages[m].versions[k].id = t.messages[m].versions[k].id
                      /\ i \in DOMAIN s.messages[m].versions[k].refs
                      /\ s.messages[m].versions[k].refs[i] = "Staged"
  BY DEF StagedBefore
<1>3. /\ k \in DOMAIN s.messages[m].versions
      /\ s.messages[m].versions[k].id = t.messages[m].versions[k].id
      /\ i \in DOMAIN s.messages[m].versions[k].refs
  BY <1>1, SetRefsFacts DEF SameBodies, MessageAlike, Alike
<1>4. t.messages[m].versions[k].refs[i] =
        IF <<m, s.messages[m].versions[k].id, i>> \in refs THEN state
        ELSE s.messages[m].versions[k].refs[i]
  BY <1>1, <1>3, SetRefsFacts
<1> QED
  BY <1>2, <1>3, <1>4

\* After a commit every staged job is current, every staged reference has one
\* job, and every lease that is not revoked is of a copy that is there.
LEMMA ReconcileSound ==
  ASSUME NEW s \in ArchiveState, BodiesValid(s), RowsSound(s), JobsTied(s), LeasesTied(s)
  PROVE  Sound(Reconcile(s))
<1> DEFINE t == Reconcile(s)
<1>1. /\ t \in ArchiveState /\ SameBodies(s.messages, t.messages)
      /\ t.messages = SetRefs(s.messages, DeadRefs(s), "Missing")
      /\ \A j \in Jobs : t.jobs[j] =
           IF j \in Dead(s) THEN [s.jobs[j] EXCEPT !.state = "Cancelled"] ELSE s.jobs[j]
      /\ \A l \in Leases : t.leases[l] =
           IF s.leases[l] # Nothing /\ ~LeaseCurrent(s, l)
           THEN [s.leases[l] EXCEPT !.revoked = TRUE] ELSE s.leases[l]
      /\ t.account = s.account /\ t.chats = s.chats
      /\ s.messages \in [Msgs -> Message] /\ "Missing" \in RefStates
  BY ReconcileFacts, StateFields DEF RefStates
<1>2. CopiesStay(s, t)
  BY ReconcileKeeps
<1> HIDE DEF t
<1>3. \A m \in Msgs : \A k \in DOMAIN s.messages[m].versions :
        \A i \in DOMAIN s.messages[m].versions[k].refs :
          t.messages[m].versions[k].refs[i] =
            IF <<m, s.messages[m].versions[k].id, i>> \in DeadRefs(s) THEN "Missing"
            ELSE s.messages[m].versions[k].refs[i]
  BY <1>1, SetRefsFacts
<1>4. \A m \in Msgs : DOMAIN t.messages[m].versions = DOMAIN s.messages[m].versions
        /\ \A k \in DOMAIN s.messages[m].versions :
             Alike(s.messages[m].versions[k], t.messages[m].versions[k])
  BY <1>1 DEF SameBodies, MessageAlike
<1>5. ASSUME NEW j \in Jobs, Staged(t, j)
      PROVE  /\ Staged(s, j) /\ j \notin Dead(s) /\ t.jobs[j] = s.jobs[j]
             /\ JobRef(t, j) = JobRef(s, j)
  <2>1. j \notin Dead(s)
    <3>1. SUFFICES ASSUME j \in Dead(s) PROVE FALSE
      OBVIOUS
    <3>2. s.jobs[j] \in Job
      BY <3>1, StateFields DEF Dead, Staged
    <3>3. t.jobs[j].state = "Cancelled"
      BY <1>1, <3>1, <3>2 DEF Job
    <3> QED
      BY <1>5, <3>3 DEF Staged
  <2> QED
    BY <1>1, <1>5, <2>1 DEF Staged, JobRef
<1>6. ASSUME NEW j \in Jobs, Staged(s, j), j \notin Dead(s)
      PROVE  Staged(t, j) /\ JobRef(t, j) = JobRef(s, j) /\ t.jobs[j] = s.jobs[j]
  BY <1>1, <1>6 DEF Staged, JobRef
<1>7. ASSUME NEW j \in Jobs, Staged(t, j)
      PROVE  JobCurrent(t, j)
  <2>1. Staged(s, j) /\ j \notin Dead(s) /\ t.jobs[j] = s.jobs[j]
    BY <1>5, <1>7
  <2>2. JobCurrent(s, j)
    BY <2>1 DEF Dead
  <2>3. s.jobs[j].msg \in Msgs
    BY <2>1, StateFields DEF Staged, Job
  <2>4. PICK m \in Msgs : m = s.jobs[j].msg
    BY <2>3
  <2>5. PICK i : i = s.jobs[j].identity
    OBVIOUS
  <2>6. PICK k \in DOMAIN s.messages[m].versions :
          LET v == s.messages[m].versions[k]
          IN  /\ v.id = s.jobs[j].version /\ i \in DOMAIN v.refs /\ v.refs[i] = "Staged"
              /\ v.revision = s.jobs[j].revision /\ v.content = s.jobs[j].content
    BY <2>2, <2>4, <2>5 DEF JobCurrent, VersionsOf
  <2>7. <<m, s.messages[m].versions[k].id, i>> \notin DeadRefs(s)
    <3>1. SUFFICES ASSUME <<m, s.messages[m].versions[k].id, i>> \in DeadRefs(s) PROVE FALSE
      OBVIOUS
    <3>2. PICK n \in Dead(s) : JobRef(s, n) = <<m, s.messages[m].versions[k].id, i>>
      BY <3>1 DEF DeadRefs
    <3>3. JobRef(s, j) = JobRef(s, n)
      BY <2>4, <2>5, <2>6, <3>2 DEF JobRef
    <3>4. n \in Jobs /\ Staged(s, n)
      BY DEF Dead
    <3> QED
      BY <2>1, <3>3, <3>4 DEF JobsTied
  <2>8. t.messages[m].versions[k].refs[i] = "Staged"
    BY <1>3, <2>6, <2>7
  <2>9. k \in DOMAIN t.messages[m].versions /\ Alike(s.messages[m].versions[k], t.messages[m].versions[k])
    BY <1>4
  <2>10. \E v \in VersionsOf(t, m) :
           /\ v.id = s.jobs[j].version /\ i \in DOMAIN v.refs /\ v.refs[i] = "Staged"
           /\ v.revision = s.jobs[j].revision /\ v.content = s.jobs[j].content
    BY <2>6, <2>8, <2>9 DEF VersionsOf, Alike
  <2>11. s.jobs[j].generation = GenerationFor(t, m)
    BY <1>1, <2>2, <2>4 DEF JobCurrent, GenerationFor
  <2> QED
    BY <2>1, <2>4, <2>5, <2>10, <2>11 DEF JobCurrent
<1>8. JobsTied(t)
  <2>1. \A j, n \in Jobs :
          Staged(t, j) /\ Staged(t, n) /\ JobRef(t, j) = JobRef(t, n) => j = n
    BY <1>5 DEF JobsTied
  <2>2. ASSUME NEW m \in Msgs, NEW k \in DOMAIN t.messages[m].versions,
               NEW i \in DOMAIN t.messages[m].versions[k].refs,
               t.messages[m].versions[k].refs[i] = "Staged"
        PROVE  \E j \in Jobs : Staged(t, j) /\ JobRef(t, j) = <<m, t.messages[m].versions[k].id, i>>
    <3>1. /\ k \in DOMAIN s.messages[m].versions /\ i \in DOMAIN s.messages[m].versions[k].refs
          /\ t.messages[m].versions[k].id = s.messages[m].versions[k].id
      BY <1>4 DEF Alike
    <3>2. /\ <<m, s.messages[m].versions[k].id, i>> \notin DeadRefs(s)
          /\ s.messages[m].versions[k].refs[i] = "Staged"
      BY <1>3, <2>2, <3>1
    <3>3. PICK j \in Jobs : Staged(s, j) /\ JobRef(s, j) = <<m, s.messages[m].versions[k].id, i>>
      BY <3>1, <3>2 DEF JobsTied
    <3>4. IsStagedRef(s, <<m, s.messages[m].versions[k].id, i>>)
      BY <3>1, <3>2 DEF IsStagedRef, VersionsOf
    <3>5. j \notin Dead(s)
      BY <3>2, <3>3, <3>4 DEF DeadRefs
    <3> QED
      BY <1>6, <3>1, <3>3, <3>5
  <2> QED
    BY <2>1, <2>2 DEF JobsTied
<1>9. ASSUME NEW l \in Leases, t.leases[l] # Nothing, ~t.leases[l].revoked
      PROVE  LeaseCurrent(t, l) /\ t.leases[l].generation = GenerationFor(t, t.leases[l].msg)
  <2>1. s.leases[l] \in Lease \cup {Nothing}
    BY StateFields
  <2>2. s.leases[l] # Nothing /\ LeaseCurrent(s, l) /\ t.leases[l] = s.leases[l]
    BY <1>1, <1>9, <2>1 DEF Lease
  <2>3. s.leases[l].msg \in Msgs
    BY <2>1, <2>2 DEF Lease
  <2>4. PICK m \in Msgs : m = s.leases[l].msg
    BY <2>3
  <2>5. PICK k \in DOMAIN s.messages[m].versions :
          /\ s.messages[m].versions[k].id = s.leases[l].version
          /\ \E i \in DOMAIN s.messages[m].versions[k].refs :
               s.messages[m].versions[k].refs[i] = "Complete" /\ BlobOf[i] = s.leases[l].blob
    BY <2>2, <2>4 DEF LeaseCurrent, VersionsOf
  <2>6. k \in DOMAIN t.messages[m].versions /\ Alike(s.messages[m].versions[k], t.messages[m].versions[k])
    BY <1>4
  <2>7. \A i \in DOMAIN s.messages[m].versions[k].refs :
          s.messages[m].versions[k].refs[i] = "Complete" =>
            t.messages[m].versions[k].refs[i] = "Complete"
    BY <1>2 DEF CopiesStay
  <2>8. LeaseCurrent(t, l)
    BY <2>2, <2>4, <2>5, <2>6, <2>7 DEF LeaseCurrent, VersionsOf, Alike
  <2> QED
    BY <1>1, <1>9, <2>2, <2>8 DEF LeasesTied, GenerationFor
<1> QED
  BY <1>7, <1>8, <1>9 DEF Sound, LeasesTied, t

---------------------------------------------------------------------------
(* The plans, one lemma per reducer.                                       *)

\* What every reducer plans: a state of the archive that keeps its bodies and
\* jobs, whose rows are sound and whose staged references have their jobs.
Plans(s) ==
    /\ s \in ArchiveState /\ BodiesValid(s) /\ RowsSound(s) /\ JobsTied(s)
    /\ BodiesKept(db, s) /\ JobsKept(db, s)

\* Where the generation of a message changed, the bodies that stay took the
\* copies that were owned.
Spread(s) ==
    \A m \in Msgs : GenerationFor(s, m) # GenerationFor(db, m) =>
      \A k \in DOMAIN s.messages[m].versions : \A n \in DOMAIN db.messages[m].versions :
        s.messages[m].versions[k].id = db.messages[m].versions[n].id =>
          \A i \in DOMAIN s.messages[m].versions[k].refs :
            i \in Owned(db) => s.messages[m].versions[k].refs[i] = "Complete"

\* A plan that can be committed.
Ready(s) == Plans(s) /\ LeasesTied(s) /\ Spread(s)

\* Nothing was purged.
SameGenerations(s) == s.account = db.account /\ s.chats = db.chats

DbInv == db \in ArchiveState /\ BodiesValid(db) /\ RowsSound(db) /\ Sound(db)

\* Without a purge a plan with the leases there were can be committed.
LEMMA SameGenerationsReady ==
  ASSUME DbInv, NEW s, Plans(s), SameGenerations(s), s.leases = db.leases
  PROVE  Ready(s)
<1>1. \A m : GenerationFor(s, m) = GenerationFor(db, m)
  BY DEF SameGenerations, GenerationFor
<1>2. LeasesTied(s)
  BY <1>1 DEF DbInv, Sound, LeasesTied
<1> QED
  BY <1>1, <1>2 DEF Spread, Ready

\* A plan whose references take copies that are owned is a plan.
LEMMA SharePlan ==
  ASSUME NEW s, Plans(s), NEW refs
  PROVE  /\ Plans(ShareKnownMedia(s, refs)) /\ ShareKnownMedia(s, refs).blobs = s.blobs
         /\ ShareKnownMedia(s, refs).leases = s.leases
         /\ ShareKnownMedia(s, refs).account = s.account
         /\ ShareKnownMedia(s, refs).chats = s.chats
<1> DEFINE t == ShareKnownMedia(s, refs)
           shared == {r \in refs : r[3] \in Owned(s)}
<1>1. s \in ArchiveState /\ BodiesValid(s) /\ RowsSound(s) /\ JobsTied(s)
      /\ BodiesKept(db, s) /\ JobsKept(db, s)
  BY DEF Plans
<1>2. /\ t \in ArchiveState /\ SameBodies(s.messages, t.messages)
      /\ t.messages = SetRefs(s.messages, shared, "Complete")
      /\ Owned(t) \subseteq Owned(s)
      /\ t.jobs = s.jobs /\ t.leases = s.leases /\ t.blobs = s.blobs
      /\ t.account = s.account /\ t.chats = s.chats
  BY <1>1, ShareFacts
<1> HIDE DEF t, shared
<1>3. CopiesStay(s, t)
  BY <1>1, <1>2, CompleteStays
<1>4. BodiesValid(t) /\ BodiesKept(db, t)
  BY <1>1, <1>2, <1>3, SameBodiesValid, SameBodiesKept
<1>5. RowsSound(t) /\ JobsKept(db, t)
  BY <1>1, <1>2 DEF RowsSound, JobsKept
<1>6. JobsTied(t)
  <2>1. "Complete" \in RefStates
    BY DEF RefStates
  <2>2. StagedBefore(s, t)
    BY <1>1, <1>2, <2>1, SetRefsStages
  <2> QED
    BY <1>1, <1>2, <2>2, TiedStay
<1> QED
  BY <1>2, <1>4, <1>5, <1>6 DEF Plans, t

\* An event that is delivered.
LEMMA DeliverPlan ==
  ASSUME DbInv, NEW e \in Events, Deliver(e)
  PROVE  \E s : Ready(s) /\ s.blobs = db.blobs /\ db' = Reconcile(s)
<1>1. /\ db \in ArchiveState /\ BodiesValid(db) /\ RowsSound(db) /\ JobsTied(db)
      /\ e.msg \in Msgs
  BY EventFields DEF DbInv, Sound
<1>2. PICK old : old = db.messages[e.msg]
  OBVIOUS
<1>3. old \in Message /\ BodyValid(old) /\ e.id \notin old.receipts
  BY <1>1, <1>2, StateFields DEF BodiesValid, Deliver
<1>4. PICK x \in AfterEvent(old, e) :
        db' = Reconcile(ShareKnownMedia(
                [db EXCEPT !.messages[e.msg] = [x EXCEPT !.receipts = @ \cup {e.id}]],
                {e.msg} \X Ids \X Identities))
  BY <1>2 DEF Deliver, Commit
<1>5. Delivered(old, x, e)
  BY <1>3, AfterEventFacts
<1>6. PICK y : y = [x EXCEPT !.receipts = @ \cup {e.id}]
  OBVIOUS
<1>7. /\ y \in Message /\ BodyValid(y) /\ y.versions = x.versions
      /\ y.receipts = old.receipts \cup {e.id}
  <2>1. Received(old, x, [x EXCEPT !.receipts = @ \cup {e.id}], e)
    BY <1>3, <1>5, ReceiptValid
  <2> QED
    BY <1>6, <2>1 DEF Received
<1>8. PICK next : next = [db EXCEPT !.messages[e.msg] = y]
  OBVIOUS
<1>9. /\ next \in ArchiveState
      /\ next.messages[e.msg] = y
      /\ \A m \in Msgs \ {e.msg} : next.messages[m] = db.messages[m]
      /\ next.jobs = db.jobs /\ next.leases = db.leases /\ next.blobs = db.blobs
      /\ next.account = db.account /\ next.chats = db.chats
  BY <1>1, <1>7, <1>8 DEF ArchiveState
<1>10. BodiesValid(next)
  BY <1>1, <1>7, <1>9 DEF BodiesValid
<1>11. \A k \in DOMAIN y.versions :
         \/ k \in DOMAIN old.versions /\ Gains(old.versions[k], y.versions[k], e)
         \/ y.versions[k] = MakeVersion(e)
  <2>1. /\ DOMAIN old.versions = 1..Len(old.versions) /\ Len(old.versions) \in Nat
        /\ DOMAIN y.versions = 1..Len(y.versions) /\ Len(y.versions) \in Nat
    BY <1>3, <1>7, MessageFields
  <2> QED
    BY <1>5, <1>7, <2>1 DEF Delivered
<1>12. BodiesKept(db, next)
  <2>1. ASSUME NEW m \in Msgs, m # e.msg
        PROVE  MessageKept(db.messages[m], next.messages[m])
    BY <1>9, <2>1, ItselfKept DEF BodiesKept
  <2>2. MessageKept(old, y)
    <3>1. ASSUME NEW k \in DOMAIN old.versions, Gains(old.versions[k], y.versions[k], e)
          PROVE  Preserves(old.versions[k], y.versions[k])
      BY <3>1 DEF Gains, Preserves
    <3>2. MakeVersion(e).id \notin old.receipts
      BY <1>3 DEF MakeVersion
    <3> QED
      BY <1>7, <1>11, <3>1, <3>2 DEF MessageKept
  <2> QED
    BY <1>2, <1>9, <2>1, <2>2 DEF BodiesKept
<1>13. ASSUME NEW i \in Owned(next) PROVE i \in Owned(db)
  <2>1. PICK m \in Msgs : \E k \in DOMAIN next.messages[m].versions :
          /\ i \in DOMAIN next.messages[m].versions[k].refs
          /\ next.messages[m].versions[k].refs[i] = "Complete"
    BY OwnedBy
  <2>2. PICK k \in DOMAIN next.messages[m].versions :
          /\ i \in DOMAIN next.messages[m].versions[k].refs
          /\ next.messages[m].versions[k].refs[i] = "Complete"
    BY <2>1
  <2>3. CASE m # e.msg
    BY <1>9, <2>2, <2>3, OwnedBy
  <2>4. CASE m = e.msg
    <3>1. y.versions[k] # MakeVersion(e)
      BY <1>9, <2>2, <2>4 DEF MakeVersion
    <3>2. k \in DOMAIN old.versions /\ y.versions[k].refs = old.versions[k].refs
      BY <1>9, <1>11, <2>2, <2>4, <3>1 DEF Gains
    <3> QED
      BY <1>2, <1>9, <2>2, <2>4, <3>2, OwnedBy
  <2> QED
    BY <2>3, <2>4
<1>14. RowsSound(next)
  BY <1>1, <1>9, <1>13 DEF RowsSound
<1>15. Plans(next)
  <2>1. ASSUME NEW m \in Msgs, NEW k \in DOMAIN next.messages[m].versions,
               NEW i \in DOMAIN next.messages[m].versions[k].refs,
               next.messages[m].versions[k].refs[i] = "Staged"
        PROVE  /\ k \in DOMAIN db.messages[m].versions
               /\ db.messages[m].versions[k].id = next.messages[m].versions[k].id
               /\ db.messages[m].versions[k].refs = next.messages[m].versions[k].refs
    <3>1. CASE m # e.msg
      BY <1>9, <3>1
    <3>2. CASE m = e.msg
      <4>1. y.versions[k] # MakeVersion(e)
        BY <1>9, <2>1, <3>2 DEF MakeVersion
      <4> QED
        BY <1>2, <1>9, <1>11, <3>2, <4>1 DEF Gains
    <3> QED
      BY <3>1, <3>2
  <2>2. StagedBefore(db, next)
    BY <2>1 DEF StagedBefore
  <2>3. JobsTied(next)
    BY <1>1, <1>9, <2>2, TiedStay
  <2> QED
    BY <1>9, <1>10, <1>12, <1>14, <2>3 DEF Plans, JobsKept
<1>16. PICK s : s = ShareKnownMedia(next, {e.msg} \X Ids \X Identities)
  OBVIOUS
<1>17. Ready(s) /\ s.blobs = next.blobs
  BY <1>9, <1>15, <1>16, SharePlan, SameGenerationsReady DEF SameGenerations
<1> QED
  BY <1>4, <1>6, <1>8, <1>9, <1>16, <1>17

\* What a purge keeps of a message is some of it.
LEMMA KeptFacts ==
  ASSUME NEW msg \in Message, BodyValid(msg), NEW kind
  PROVE  /\ Kept(kind, msg) \in Message /\ BodyValid(Kept(kind, msg))
         /\ Kept(kind, msg).receipts = msg.receipts
         /\ \A k \in DOMAIN Kept(kind, msg).versions :
              \E n \in DOMAIN msg.versions : Kept(kind, msg).versions[k] = msg.versions[n]
<1>1. /\ msg.versions \in Seq(Version) /\ Len(msg.versions) \in Nat
      /\ DOMAIN msg.versions = 1..Len(msg.versions)
      /\ \A k \in DOMAIN msg.versions : msg.versions[k] \in Version
  BY MessageFields
<1>2. CASE kind = "Trashbin" /\ msg.deleted
  <2>1. Kept(kind, msg) = [msg EXCEPT !.versions = <<>>, !.purged = TRUE]
    BY <1>2 DEF Kept
  <2>2. PICK x : x = [msg EXCEPT !.versions = <<>>, !.purged = TRUE]
    OBVIOUS
  <2>3. <<>> \in Seq(Version)
    OBVIOUS
  <2>4. x \in Message /\ x.versions = <<>> /\ x.deleted = msg.deleted
        /\ x.receipts = msg.receipts
    BY <2>2, <2>3 DEF Message
  <2>5. BodyValid(x)
    BY <1>2, <2>4 DEF BodyValid
  <2> QED
    BY <2>1, <2>2, <2>4, <2>5
<1>3. CASE kind = "EditHistory" /\ msg.versions # <<>>
  <2>1. Len(msg.versions) \in DOMAIN msg.versions
    BY <1>1, <1>3
  <2>2. PICK v : v = Newest(msg.versions)
    OBVIOUS
  <2>3. v \in Version /\ v = msg.versions[Len(msg.versions)]
    BY <1>1, <2>1, <2>2 DEF Newest
  <2>4. PICK x : x = [msg EXCEPT !.versions = <<v>>]
    OBVIOUS
  <2>5. Kept(kind, msg) = x
    BY <1>3, <2>2, <2>4 DEF Kept
  <2>6. /\ x \in Message /\ x.versions = <<v>> /\ x.deleted = msg.deleted
        /\ x.purged = msg.purged /\ x.receipts = msg.receipts /\ x.order = msg.order
    <3>1. PICK vs : vs = <<v>>
      OBVIOUS
    <3>2. vs \in Seq(Version)
      BY <2>3, <3>1
    <3>3. x = [msg EXCEPT !.versions = vs]
      BY <2>4, <3>1
    <3>4. x \in Message /\ x.versions = vs /\ x.deleted = msg.deleted
          /\ x.purged = msg.purged /\ x.receipts = msg.receipts /\ x.order = msg.order
      BY <3>2, <3>3 DEF Message
    <3> QED
      BY <3>1, <3>4
  <2>7. DOMAIN x.versions = {1} /\ x.versions[1] = v
    BY <2>6
  <2>8. ~msg.purged
    BY <1>3 DEF BodyValid
  <2>9. BodyValid(x)
    BY <2>1, <2>3, <2>6, <2>7, <2>8 DEF BodyValid
  <2> QED
    BY <2>1, <2>3, <2>5, <2>6, <2>7, <2>9
<1>4. CASE ~(kind = "Trashbin" /\ msg.deleted) /\ ~(kind = "EditHistory" /\ msg.versions # <<>>)
  <2>1. Kept(kind, msg) = msg
    BY <1>4 DEF Kept
  <2> QED
    BY <2>1
<1> QED
  BY <1>2, <1>3, <1>4

\* It keeps the same ids of two messages that differ in their references.
LEMMA KeptAlike ==
  ASSUME NEW x \in Message, NEW y \in Message, MessageAlike(x, y), NEW kind
  PROVE  \A k \in DOMAIN Kept(kind, y).versions :
           \E n \in DOMAIN Kept(kind, x).versions :
             Kept(kind, y).versions[k].id = Kept(kind, x).versions[n].id
<1>1. /\ DOMAIN x.versions = 1..Len(x.versions) /\ Len(x.versions) \in Nat
      /\ DOMAIN y.versions = 1..Len(y.versions) /\ Len(y.versions) \in Nat
      /\ (x.versions = <<>> <=> Len(x.versions) = 0)
      /\ (y.versions = <<>> <=> Len(y.versions) = 0)
  BY MessageFields
<1>2. Len(x.versions) = Len(y.versions) /\ x.deleted = y.deleted
      /\ \A k \in DOMAIN x.versions : x.versions[k].id = y.versions[k].id
  BY <1>1 DEF MessageAlike, Alike
<1>3. CASE kind = "Trashbin" /\ y.deleted
  <2>1. Kept(kind, y).versions = <<>>
    BY <1>3 DEF Kept, Message
  <2> QED
    BY <2>1
<1>4. CASE kind = "EditHistory" /\ y.versions # <<>>
  <2>1. /\ Kept(kind, y).versions = <<Newest(y.versions)>>
        /\ Kept(kind, x).versions = <<Newest(x.versions)>>
    BY <1>1, <1>2, <1>4 DEF Kept, Message
  <2>2. Newest(y.versions).id = Newest(x.versions).id
    BY <1>1, <1>2, <1>4 DEF Newest
  <2> QED
    BY <2>1, <2>2
<1>5. CASE ~(kind = "Trashbin" /\ y.deleted) /\ ~(kind = "EditHistory" /\ y.versions # <<>>)
  <2>1. Kept(kind, y) = y /\ Kept(kind, x) = x
    BY <1>1, <1>2, <1>5 DEF Kept
  <2> QED
    BY <1>1, <1>2, <2>1
<1> QED
  BY <1>3, <1>4, <1>5
---------------------------------------------------------------------------
(* Purges.                                                                 *)

\* The state itself is a plan.
LEMMA ItselfPlan ==
  ASSUME DbInv
  PROVE  Plans(db)
BY ItselfKept DEF DbInv, Plans, JobsKept, Sound

\* A plan with other generations is a plan.
LEMMA BumpPlan ==
  ASSUME NEW s, Plans(s), NEW scope \in Scopes
  PROVE  /\ Plans(BumpGenerations(s, scope))
         /\ BumpGenerations(s, scope).messages = s.messages
         /\ BumpGenerations(s, scope).blobs = s.blobs
         /\ BumpGenerations(s, scope).leases = s.leases
         /\ \A m \in Msgs : ~InScope(scope, m) =>
              GenerationFor(BumpGenerations(s, scope), m) = GenerationFor(s, m)
<1> DEFINE t == BumpGenerations(s, scope)
<1>1. s \in ArchiveState
  BY DEF Plans
<1>2. /\ t \in ArchiveState
      /\ t.messages = s.messages /\ t.jobs = s.jobs /\ t.leases = s.leases
      /\ t.blobs = s.blobs
      /\ \A m \in Msgs : ~InScope(scope, m) =>
           t.account = s.account /\ t.chats[ChatOf[m]] = s.chats[ChatOf[m]]
  <2>1. CASE scope = Account
    <3>1. t = [s EXCEPT !.account = s.account + 1]
      BY <2>1 DEF BumpGenerations
    <3>2. s.account + 1 \in Nat
      BY <1>1, StateFields
    <3>3. \A m : InScope(scope, m)
      BY <2>1 DEF InScope
    <3> HIDE DEF t
    <3> QED
      BY <1>1, <3>1, <3>2, <3>3 DEF ArchiveState
  <2>2. CASE scope # Account
    <3>1. PICK cs : cs = [c \in Chats |-> IF c \in scope THEN s.chats[c] + 1 ELSE s.chats[c]]
      OBVIOUS
    <3>2. cs \in [Chats -> Nat]
      BY <1>1, <3>1, StateFields
    <3>3. t = [s EXCEPT !.chats = cs]
      BY <2>2, <3>1 DEF BumpGenerations
    <3> HIDE DEF t
    <3>4. /\ t \in ArchiveState
          /\ t.messages = s.messages /\ t.jobs = s.jobs /\ t.leases = s.leases
          /\ t.blobs = s.blobs /\ t.account = s.account /\ t.chats = cs
      BY <1>1, <3>2, <3>3 DEF ArchiveState
    <3>5. \A m \in Msgs : ~InScope(scope, m) => cs[ChatOf[m]] = s.chats[ChatOf[m]]
      BY <3>1, ArchiveAssumption DEF InScope
    <3> QED
      BY <3>4, <3>5
  <2> QED
    BY <2>1, <2>2
<1> HIDE DEF t
<1>3. BodiesValid(t) /\ BodiesKept(db, t)
  BY <1>2 DEF Plans, BodiesValid, BodiesKept
<1>4. RowsSound(t) /\ JobsKept(db, t)
  <2>1. Owned(t) = Owned(s)
    BY <1>2 DEF Owned, VersionsOf
  <2> QED
    BY <1>2, <2>1 DEF Plans, RowsSound, JobsKept
<1>5. JobsTied(t)
  BY <1>2, TiedStay DEF Plans, StagedBefore
<1>6. \A m \in Msgs : ~InScope(scope, m) => GenerationFor(t, m) = GenerationFor(s, m)
  BY <1>2 DEF GenerationFor
<1> QED
  BY <1>2, <1>3, <1>4, <1>5, <1>6 DEF Plans, t

\* What is left after bodies are removed from a plan is a plan.
LEMMA ErasePlan ==
  ASSUME NEW s, Plans(s), NEW kind, NEW scope
  PROVE  /\ Plans(Erase(s, kind, scope)) /\ Erase(s, kind, scope).blobs = s.blobs
         /\ Erase(s, kind, scope).account = s.account
         /\ Erase(s, kind, scope).chats = s.chats
         /\ \A m \in Msgs : InScope(scope, m) =>
              Erase(s, kind, scope).messages[m] = Kept(kind, s.messages[m])
         /\ \A l \in Leases :
              LET lease == Erase(s, kind, scope).leases[l]
              IN  lease # Nothing /\ ~lease.revoked =>
                    lease = s.leases[l] /\ ~InScope(scope, lease.msg)
<1> DEFINE t == Erase(s, kind, scope)
           ms == [m \in Msgs |-> IF InScope(scope, m) THEN Kept(kind, s.messages[m])
                                 ELSE s.messages[m]]
           ls == [l \in Leases |->
                    IF s.leases[l] # Nothing /\ InScope(scope, s.leases[l].msg)
                    THEN [s.leases[l] EXCEPT !.revoked = TRUE] ELSE s.leases[l]]
<1>1. s \in ArchiveState /\ BodiesValid(s) /\ RowsSound(s) /\ JobsTied(s)
      /\ BodiesKept(db, s) /\ JobsKept(db, s)
  BY DEF Plans
<1>2. \A m \in Msgs : s.messages[m] \in Message /\ BodyValid(s.messages[m])
  BY <1>1, StateFields DEF BodiesValid
<1>3. \A m \in Msgs : /\ ms[m] \in Message /\ BodyValid(ms[m])
                      /\ ms[m].receipts = s.messages[m].receipts
                      /\ \A k \in DOMAIN ms[m].versions :
                           \E n \in DOMAIN s.messages[m].versions :
                             ms[m].versions[k] = s.messages[m].versions[n]
  <2>1. SUFFICES ASSUME NEW m \in Msgs
                 PROVE  /\ ms[m] \in Message /\ BodyValid(ms[m])
                        /\ ms[m].receipts = s.messages[m].receipts
                        /\ \A k \in DOMAIN ms[m].versions :
                             \E n \in DOMAIN s.messages[m].versions :
                               ms[m].versions[k] = s.messages[m].versions[n]
    OBVIOUS
  <2>2. CASE InScope(scope, m)
    <3>1. ms[m] = Kept(kind, s.messages[m])
      BY <2>2
    <3> HIDE DEF ms
    <3> QED
      BY <1>2, <3>1, KeptFacts
  <2>3. CASE ~InScope(scope, m)
    <3>1. ms[m] = s.messages[m]
      BY <2>3
    <3> HIDE DEF ms
    <3> QED
      BY <1>2, <3>1
  <2> QED
    BY <2>2, <2>3
<1>4. ms \in [Msgs -> Message]
  <2>1. ms = [m \in Msgs |-> ms[m]]
    OBVIOUS
  <2> HIDE DEF ms
  <2> QED
    BY <1>3, <2>1
<1>5. ASSUME NEW l \in Leases
      PROVE  /\ ls[l] \in Lease \cup {Nothing}
             /\ ls[l] # Nothing => s.leases[l] # Nothing /\ ls[l].blob = s.leases[l].blob
             /\ ls[l] # Nothing /\ ~ls[l].revoked =>
                  ls[l] = s.leases[l] /\ ~InScope(scope, ls[l].msg)
  <2>1. s.leases[l] \in Lease \cup {Nothing}
    BY <1>1, StateFields
  <2>2. CASE s.leases[l] # Nothing /\ InScope(scope, s.leases[l].msg)
    <3>1. ls[l] = [s.leases[l] EXCEPT !.revoked = TRUE]
      BY <2>2
    <3> HIDE DEF ls
    <3> QED
      BY <2>1, <2>2, <3>1 DEF Lease
  <2>3. CASE ~(s.leases[l] # Nothing /\ InScope(scope, s.leases[l].msg))
    BY <2>1, <2>3
  <2> QED
    BY <2>2, <2>3
<1>6. ls \in [Leases -> Lease \cup {Nothing}]
  <2>1. ls = [l \in Leases |-> ls[l]]
    OBVIOUS
  <2> HIDE DEF ls
  <2> QED
    BY <1>5, <2>1
<1>7. t = [s EXCEPT !.messages = ms, !.leases = ls]
  BY DEF Erase
<1>8. \A m \in Msgs : InScope(scope, m) => ms[m] = Kept(kind, s.messages[m])
  OBVIOUS
<1> HIDE DEF t, ms, ls
<1>9. /\ t \in ArchiveState /\ t.messages = ms /\ t.leases = ls
      /\ t.jobs = s.jobs /\ t.blobs = s.blobs
      /\ t.account = s.account /\ t.chats = s.chats
  BY <1>1, <1>4, <1>6, <1>7 DEF ArchiveState
<1>10. BodiesValid(t)
  BY <1>3, <1>9 DEF BodiesValid
<1>11. BodiesKept(db, t)
  BY <1>1, <1>3, <1>9 DEF BodiesKept, MessageKept
<1>12. RowsSound(t)
  <2>1. ASSUME NEW i \in Owned(t) PROVE i \in Owned(s)
    BY <1>3, <1>9, OwnedBy
  <2> QED
    BY <1>1, <1>5, <1>9, <2>1 DEF RowsSound
<1>13. JobsKept(db, t) /\ JobsTied(t)
  <2>1. StagedBefore(s, t)
    BY <1>3, <1>9 DEF StagedBefore
  <2> QED
    BY <1>1, <1>9, <2>1, TiedStay DEF JobsKept
<1>14. \A l \in Leases : t.leases[l] # Nothing /\ ~t.leases[l].revoked =>
         t.leases[l] = s.leases[l] /\ ~InScope(scope, t.leases[l].msg)
  BY <1>5, <1>9
<1> QED
  BY <1>8, <1>9, <1>10, <1>11, <1>12, <1>13, <1>14 DEF Plans, t

\* No version of s has the id a purge has removed, and its receipt is kept.
Gone(s, m, id) ==
    /\ id \in s.messages[m].receipts
    /\ \A k \in DOMAIN s.messages[m].versions : s.messages[m].versions[k].id # id

\* What is gone stays gone.
LEMMA GoneStays ==
  ASSUME NEW s, NEW t, BodiesKept(s, t), NEW m \in Msgs, NEW id, Gone(s, m, id)
  PROVE  Gone(t, m, id)
BY DEF BodiesKept, MessageKept, Preserves, Gone

\* A body that a purge leaves is one it gives the copies to.
LEMMA KeptSurvives ==
  ASSUME NEW x \in Message, NEW y \in Message, MessageAlike(x, y), BodyValid(x),
         NEW kind \in {"Trashbin", "EditHistory"},
         NEW k \in DOMAIN Kept(kind, y).versions
  PROVE  \E n \in DOMAIN x.versions : Kept(kind, y).versions[k] = y.versions[n]
                                    /\ Survives(kind, x, x.versions[n])
<1>1. /\ DOMAIN x.versions = 1..Len(x.versions) /\ Len(x.versions) \in Nat
      /\ DOMAIN y.versions = 1..Len(y.versions) /\ Len(y.versions) \in Nat
      /\ (x.versions = <<>> <=> Len(x.versions) = 0)
      /\ (y.versions = <<>> <=> Len(y.versions) = 0)
  BY MessageFields
<1>2. Len(x.versions) = Len(y.versions) /\ x.deleted = y.deleted
  BY <1>1 DEF MessageAlike
<1>3. CASE kind = "Trashbin" /\ y.deleted
  <2>1. Kept(kind, y).versions = <<>>
    BY <1>3 DEF Kept, Message
  <2> QED
    BY <2>1
<1>4. CASE kind = "Trashbin" /\ ~y.deleted
  <2>1. Kept(kind, y) = y
    BY <1>4 DEF Kept
  <2> QED
    BY <1>1, <1>2, <1>4, <2>1 DEF Survives
<1>5. CASE kind = "EditHistory" /\ y.versions = <<>>
  <2>1. Kept(kind, y) = y
    BY <1>5 DEF Kept
  <2> QED
    BY <1>5, <2>1
<1>6. CASE kind = "EditHistory" /\ y.versions # <<>>
  <2>1. Kept(kind, y).versions = <<y.versions[Len(y.versions)]>>
    BY <1>6 DEF Kept, Message, Newest
  <2>2. k = 1
    BY <2>1
  <2>3. Len(x.versions) \in DOMAIN x.versions
    BY <1>1, <1>2, <1>6
  <2>4. Survives(kind, x, x.versions[Len(x.versions)])
    BY <1>6 DEF Survives, Newest
  <2> QED
    BY <1>2, <2>1, <2>2, <2>3, <2>4
<1> QED
  BY <1>3, <1>4, <1>5, <1>6

\* A purge removes what it says, keeps the owned copies for the bodies that
\* stay and revokes the leases in its scope.
LEMMA PurgePlan ==
  ASSUME DbInv, NEW kind \in {"Trashbin", "EditHistory"}, NEW scope \in Scopes
  PROVE  /\ Ready(Purged(db, kind, scope)) /\ Purged(db, kind, scope).blobs = db.blobs
         /\ \A m \in Msgs, id \in Ids :
              <<m, id>> \in Removed(kind, scope) => Gone(Purged(db, kind, scope), m, id)
<1> DEFINE refs == {r \in Msgs \X Ids \X Identities :
                      /\ InScope(scope, r[1])
                      /\ \E v \in VersionsOf(db, r[1]) :
                           v.id = r[2] /\ Survives(kind, db.messages[r[1]], v)}
           copied == KeepCopies(db, kind, scope)
           bumped == BumpGenerations(copied, scope)
           t == Purged(db, kind, scope)
<1>1. copied = ShareKnownMedia(db, refs)
  BY DEF KeepCopies
<1>2. t = Erase(bumped, kind, scope)
  BY DEF Purged
<1>3. Plans(db) /\ db \in ArchiveState
  BY ItselfPlan DEF DbInv
<1> HIDE DEF refs, copied, t
<1>4. /\ Plans(copied) /\ copied.blobs = db.blobs /\ copied.leases = db.leases
      /\ copied.account = db.account /\ copied.chats = db.chats
      /\ SameBodies(db.messages, copied.messages)
  BY <1>1, <1>3, SharePlan, ShareFacts
<1>5. /\ Plans(bumped) /\ bumped.blobs = db.blobs /\ bumped.messages = copied.messages
      /\ bumped.leases = db.leases
      /\ \A m \in Msgs : ~InScope(scope, m) => GenerationFor(bumped, m) = GenerationFor(copied, m)
  BY <1>4, BumpPlan
<1> HIDE DEF bumped
<1>6. /\ Plans(t) /\ t.blobs = db.blobs
      /\ t.account = bumped.account /\ t.chats = bumped.chats
      /\ \A m \in Msgs : InScope(scope, m) => t.messages[m] = Kept(kind, copied.messages[m])
      /\ \A l \in Leases : t.leases[l] # Nothing /\ ~t.leases[l].revoked =>
           t.leases[l] = db.leases[l] /\ ~InScope(scope, t.leases[l].msg)
  BY <1>2, <1>5, ErasePlan
<1>7. ASSUME NEW m \in Msgs, NEW id \in Ids, <<m, id>> \in Removed(kind, scope)
      PROVE  Gone(t, m, id)
  <2>1. /\ InScope(scope, m)
        /\ \E v \in VersionsOf(db, m) : v.id = id
        /\ ~\E k \in DOMAIN Kept(kind, db.messages[m]).versions :
              Kept(kind, db.messages[m]).versions[k].id = id
    BY <1>7 DEF Removed
  <2>2. id \in db.messages[m].receipts
    BY <2>1 DEF VersionsOf, DbInv, BodiesValid, BodyValid
  <2>3. id \in t.messages[m].receipts
    BY <1>6, <2>2 DEF Plans, BodiesKept, MessageKept
  <2>4. /\ db.messages[m] \in Message /\ copied.messages[m] \in Message
        /\ MessageAlike(db.messages[m], copied.messages[m])
    BY <1>3, <1>4, StateFields DEF SameBodies, Plans
  <2>5. \A k \in DOMAIN t.messages[m].versions :
           \E n \in DOMAIN Kept(kind, db.messages[m]).versions :
             t.messages[m].versions[k].id = Kept(kind, db.messages[m]).versions[n].id
    BY <1>6, <2>1, <2>4, KeptAlike
  <2> QED
    BY <2>1, <2>3, <2>5 DEF Gone
<1>8. \A m \in Msgs : ~InScope(scope, m) => GenerationFor(t, m) = GenerationFor(db, m)
  BY <1>4, <1>5, <1>6 DEF GenerationFor
<1>9. LeasesTied(t)
  <2>1. SUFFICES ASSUME NEW l \in Leases, t.leases[l] # Nothing, ~t.leases[l].revoked
                 PROVE  t.leases[l].generation = GenerationFor(t, t.leases[l].msg)
    BY DEF LeasesTied
  <2>2. t.leases[l] = db.leases[l] /\ ~InScope(scope, t.leases[l].msg)
    BY <1>6, <2>1
  <2>3. db.leases[l].msg \in Msgs
    BY <1>3, <2>1, <2>2, StateFields DEF Lease
  <2>4. db.leases[l].generation = GenerationFor(db, db.leases[l].msg)
    BY <2>1, <2>2 DEF DbInv, Sound, LeasesTied
  <2> QED
    BY <1>8, <2>2, <2>3, <2>4
<1>10. Spread(t)
  <2>1. SUFFICES ASSUME NEW m \in Msgs, GenerationFor(t, m) # GenerationFor(db, m),
                        NEW k \in DOMAIN t.messages[m].versions,
                        NEW n \in DOMAIN db.messages[m].versions,
                        t.messages[m].versions[k].id = db.messages[m].versions[n].id,
                        NEW i \in DOMAIN t.messages[m].versions[k].refs, i \in Owned(db)
                 PROVE  t.messages[m].versions[k].refs[i] = "Complete"
    BY DEF Spread
  <2>2. InScope(scope, m) /\ t.messages[m] = Kept(kind, copied.messages[m])
    BY <1>6, <1>8, <2>1
  <2>3. /\ db.messages[m] \in Message /\ copied.messages[m] \in Message
        /\ MessageAlike(db.messages[m], copied.messages[m]) /\ BodyValid(db.messages[m])
    BY <1>3, <1>4, StateFields DEF SameBodies, Plans, BodiesValid
  <2>4. PICK x \in DOMAIN db.messages[m].versions :
          /\ t.messages[m].versions[k] = copied.messages[m].versions[x]
          /\ Survives(kind, db.messages[m], db.messages[m].versions[x])
    BY <2>2, <2>3, KeptSurvives
  <2>5. db.messages[m].versions[x].id = db.messages[m].versions[n].id
    BY <2>1, <2>3, <2>4 DEF MessageAlike, Alike
  <2>6. x = n
    BY <2>3, <2>5, IdsDiffer
  <2>7. /\ <<m, db.messages[m].versions[n].id, i>> \in refs
        /\ i \in DOMAIN db.messages[m].versions[n].refs
    <3>1. db.messages[m].versions[n] \in Version
      BY <2>3, MessageFields
    <3>2. i \in DOMAIN db.messages[m].versions[n].refs
      BY <2>1, <2>3, <2>4, <2>6 DEF MessageAlike, Alike
    <3>3. db.messages[m].versions[n].id \in Ids /\ i \in Identities
      BY <3>1, <3>2, VersionFields
    <3>4. db.messages[m].versions[n] \in VersionsOf(db, m)
      BY DEF VersionsOf
    <3> QED
      BY <2>2, <2>4, <2>6, <3>3, <3>4, <3>2 DEF refs
  <2>8. PICK shared : shared = {r \in refs : r[3] \in Owned(db)}
    OBVIOUS
  <2>9. <<m, db.messages[m].versions[n].id, i>> \in shared
    BY <2>1, <2>7, <2>8
  <2>10. copied.messages = SetRefs(db.messages, shared, "Complete")
    BY <1>1, <1>3, <2>8, ShareFacts
  <2>11. db.messages \in [Msgs -> Message] /\ "Complete" \in RefStates
    BY <1>3, StateFields DEF RefStates
  <2>12. copied.messages[m].versions[n].refs[i] = "Complete"
    BY <2>7, <2>9, <2>10, <2>11, SetRefsFacts
  <2> QED
    BY <2>4, <2>6, <2>12
<1> QED
  BY <1>6, <1>7, <1>9, <1>10 DEF t, Ready
---------------------------------------------------------------------------
(* Media jobs.                                                             *)

\* A version named by a reference of a state.
LEMMA VersionAt ==
  ASSUME NEW s \in ArchiveState, NEW m \in Msgs, NEW v \in VersionsOf(s, m)
  PROVE  v \in Version /\ \E k \in DOMAIN s.messages[m].versions : v = s.messages[m].versions[k]
<1>1. s.messages[m] \in Message
  BY StateFields
<1> QED
  BY <1>1, MessageFields DEF VersionsOf

\* A reference that holds no copy can be set.
LEMMA SetRefPlan ==
  ASSUME DbInv, NEW t \in ArchiveState, RowsSound(t), JobsKept(db, t), JobsTied(t),
         NEW m \in Msgs, NEW v \in VersionsOf(db, m), NEW i \in DOMAIN v.refs,
         v.refs[i] # "Complete", NEW state \in RefStates,
         t.messages = SetRefs(db.messages, {<<m, v.id, i>>}, state)
  PROVE  Plans(t)
<1>1. db \in ArchiveState /\ BodiesValid(db) /\ db.messages \in [Msgs -> Message]
  BY StateFields DEF DbInv
<1>2. PICK refs : refs = {<<m, v.id, i>>}
  OBVIOUS
<1>3. PICK k \in DOMAIN db.messages[m].versions : v = db.messages[m].versions[k]
  BY <1>1, VersionAt
<1>4. ASSUME NEW x \in Msgs, NEW n \in DOMAIN db.messages[x].versions,
             NEW y \in DOMAIN db.messages[x].versions[n].refs,
             <<x, db.messages[x].versions[n].id, y>> \in refs
      PROVE  db.messages[x].versions[n].refs[y] # "Complete"
  <2>1. x = m /\ y = i /\ db.messages[m].versions[n].id = db.messages[m].versions[k].id
    BY <1>2, <1>3, <1>4
  <2>2. db.messages[m] \in Message /\ BodyValid(db.messages[m])
    BY <1>1 DEF BodiesValid
  <2>3. n = k
    BY <2>1, <2>2, IdsDiffer
  <2> QED
    BY <1>3, <2>1, <2>3
<1>5. CopiesStay(db, t)
  <2>1. t.messages = SetRefs(db.messages, refs, state)
    BY <1>2
  <2>2. NoCopies(db, refs)
    BY <1>4 DEF NoCopies
  <2> QED
    BY <1>1, <2>1, <2>2, OthersStay
<1>6. SameBodies(db.messages, t.messages)
  BY <1>1, SetRefsFacts
<1> QED
  BY <1>1, <1>5, <1>6, SameBodiesValid, SameBodiesKept, ItselfKept DEF Plans

\* What is owned after a reference is set.
LEMMA SetRefOwned ==
  ASSUME NEW s \in ArchiveState, NEW t, NEW m, NEW id, NEW i, NEW state \in RefStates,
         t.messages = SetRefs(s.messages, {<<m, id, i>>}, state)
  PROVE  \A y \in Owned(t) : y \in Owned(s) \/ (state = "Complete" /\ y = i)
<1>1. PICK refs : refs = {<<m, id, i>>}
  OBVIOUS
<1>2. \A y \in Owned(t) : y \in Owned(s) \/ (state = "Complete" /\ \E x, z : <<x, z, y>> \in refs)
  BY <1>1, SetRefsOwned
<1> QED
  BY <1>1, <1>2

\* No staged job has a reference that is not staged.
LEMMA UnstagedRef ==
  ASSUME DbInv, NEW m \in Msgs, NEW v \in VersionsOf(db, m), NEW i, v.refs[i] # "Staged",
         NEW n \in Jobs, Staged(db, n)
  PROVE  JobRef(db, n) # <<m, v.id, i>>
<1>1. SUFFICES ASSUME db.jobs[n].msg = m, db.jobs[n].version = v.id, db.jobs[n].identity = i
               PROVE  FALSE
  BY DEF JobRef
<1>2. PICK w \in VersionsOf(db, m) : w.id = v.id /\ w.refs[i] = "Staged"
  BY <1>1 DEF DbInv, Sound, JobCurrent
<1>3. PICK k \in DOMAIN db.messages[m].versions : v = db.messages[m].versions[k]
  BY DEF VersionsOf
<1>4. PICK x \in DOMAIN db.messages[m].versions : w = db.messages[m].versions[x]
  BY DEF VersionsOf
<1>5. db.messages[m] \in Message /\ BodyValid(db.messages[m])
  BY StateFields DEF DbInv, BodiesValid
<1>6. k = x
  BY <1>2, <1>3, <1>4, <1>5, IdsDiffer
<1> QED
  BY <1>2, <1>3, <1>4, <1>6

\* A new job is the only one of the reference it stages.
LEMMA StageTied ==
  ASSUME DbInv, NEW m \in Msgs, NEW v \in VersionsOf(db, m), NEW i, v.refs[i] # "Staged",
         NEW j \in Jobs, db.jobs[j] = Nothing, NEW job \in Job, job.state = "Staged",
         job.msg = m, job.version = v.id, job.identity = i,
         NEW s, s.jobs = [db.jobs EXCEPT ![j] = job],
         s.messages = SetRefs(db.messages, {<<m, v.id, i>>}, "Staged")
  PROVE  JobsTied(s)
<1>1. /\ db.messages \in [Msgs -> Message] /\ "Staged" \in RefStates
      /\ db.jobs \in [Jobs -> Job \cup {Nothing}]
  BY StateFields DEF DbInv, RefStates
<1>2. PICK refs : refs = {<<m, v.id, i>>}
  OBVIOUS
<1>3. s.messages = SetRefs(db.messages, refs, "Staged")
  BY <1>2
<1>4. Staged(s, j) /\ JobRef(s, j) = <<m, v.id, i>>
  BY <1>1, ArchiveAssumption DEF Staged, JobRef
<1>5. \A n \in Jobs \ {j} : /\ s.jobs[n] = db.jobs[n]
                             /\ JobRef(s, n) = JobRef(db, n)
                             /\ (Staged(s, n) <=> Staged(db, n))
  BY <1>1 DEF Staged, JobRef
<1>6. ~Staged(db, j)
  BY DEF Staged
<1>7. ASSUME NEW x \in Msgs, NEW k \in DOMAIN s.messages[x].versions,
             NEW y \in DOMAIN s.messages[x].versions[k].refs,
             s.messages[x].versions[k].refs[y] = "Staged"
      PROVE  \E n \in Jobs : Staged(s, n) /\ JobRef(s, n) = <<x, s.messages[x].versions[k].id, y>>
  <2>1. /\ k \in DOMAIN db.messages[x].versions
        /\ db.messages[x].versions[k].id = s.messages[x].versions[k].id
        /\ y \in DOMAIN db.messages[x].versions[k].refs
    BY <1>1, <1>3, SetRefsFacts DEF SameBodies, MessageAlike, Alike
  <2>2. s.messages[x].versions[k].refs[y] =
          IF <<x, db.messages[x].versions[k].id, y>> \in refs THEN "Staged"
          ELSE db.messages[x].versions[k].refs[y]
    BY <1>1, <1>3, <2>1, SetRefsFacts
  <2>3. CASE <<x, db.messages[x].versions[k].id, y>> \in refs
    BY <1>2, <1>4, <2>1, <2>3
  <2>4. CASE <<x, db.messages[x].versions[k].id, y>> \notin refs
    <3>1. db.messages[x].versions[k].refs[y] = "Staged"
      BY <1>7, <2>2, <2>4
    <3>2. PICK n \in Jobs : Staged(db, n) /\ JobRef(db, n) = <<x, db.messages[x].versions[k].id, y>>
      BY <2>1, <3>1 DEF DbInv, Sound, JobsTied
    <3>3. n # j
      BY <1>6, <3>2
    <3> QED
      BY <1>5, <2>1, <3>2, <3>3
  <2> QED
    BY <2>3, <2>4
<1>8. ASSUME NEW a \in Jobs, NEW b \in Jobs, Staged(s, a), Staged(s, b),
             JobRef(s, a) = JobRef(s, b)
      PROVE  a = b
  <2>1. \A n \in Jobs : Staged(db, n) => JobRef(db, n) # <<m, v.id, i>>
    BY UnstagedRef
  <2>2. \A n \in Jobs \ {j} : Staged(s, n) => JobRef(s, n) # JobRef(s, j)
    BY <1>4, <1>5, <2>1
  <2>3. CASE a = j \/ b = j
    BY <1>8, <2>2, <2>3
  <2>4. CASE a # j /\ b # j
    BY <1>5, <1>8, <2>4 DEF DbInv, Sound, JobsTied
  <2> QED
    BY <2>3, <2>4
<1> QED
  BY <1>7, <1>8 DEF JobsTied

\* A job that ends takes its reference along.
LEMMA EndTied ==
  ASSUME DbInv, NEW j \in Jobs, Staged(db, j), NEW state \in RefStates, state # "Staged",
         NEW job, job.state = state, NEW s, s.jobs = [db.jobs EXCEPT ![j] = job],
         NEW refs, JobRef(db, j) \in refs, s.messages = SetRefs(db.messages, refs, state)
  PROVE  JobsTied(s)
<1>1. db \in ArchiveState /\ db.jobs \in [Jobs -> Job \cup {Nothing}]
      /\ db.messages \in [Msgs -> Message]
  BY StateFields DEF DbInv
<1>2. ~Staged(s, j)
  BY <1>1 DEF Staged
<1>3. \A n \in Jobs \ {j} : /\ JobRef(s, n) = JobRef(db, n)
                             /\ (Staged(s, n) <=> Staged(db, n))
  BY <1>1 DEF Staged, JobRef
<1>4. ASSUME NEW x \in Msgs, NEW k \in DOMAIN s.messages[x].versions,
             NEW y \in DOMAIN s.messages[x].versions[k].refs,
             s.messages[x].versions[k].refs[y] = "Staged"
      PROVE  \E n \in Jobs : Staged(s, n) /\ JobRef(s, n) = <<x, s.messages[x].versions[k].id, y>>
  <2>1. /\ k \in DOMAIN db.messages[x].versions
        /\ db.messages[x].versions[k].id = s.messages[x].versions[k].id
        /\ y \in DOMAIN db.messages[x].versions[k].refs
    BY <1>1, SetRefsFacts DEF SameBodies, MessageAlike, Alike
  <2>2. s.messages[x].versions[k].refs[y] =
          IF <<x, db.messages[x].versions[k].id, y>> \in refs THEN state
          ELSE db.messages[x].versions[k].refs[y]
    BY <1>1, <2>1, SetRefsFacts
  <2>3. /\ <<x, db.messages[x].versions[k].id, y>> \notin refs
        /\ db.messages[x].versions[k].refs[y] = "Staged"
    BY <1>4, <2>2
  <2>4. PICK n \in Jobs : Staged(db, n) /\ JobRef(db, n) = <<x, db.messages[x].versions[k].id, y>>
    BY <2>1, <2>3 DEF DbInv, Sound, JobsTied
  <2>5. n # j
    BY <2>3, <2>4
  <2> QED
    BY <1>3, <2>1, <2>4, <2>5
<1>5. \A a, b \in Jobs : Staged(s, a) /\ Staged(s, b) /\ JobRef(s, a) = JobRef(s, b) => a = b
  BY <1>2, <1>3 DEF DbInv, Sound, JobsTied
<1> QED
  BY <1>4, <1>5 DEF JobsTied

\* A reference is staged, or takes a copy at once.
LEMMA StagePlan ==
  ASSUME DbInv, NEW j \in Jobs, NEW m \in Msgs, NEW v \in VersionsOf(db, m),
         NEW i \in Identities, Stage(j, m, v, i)
  PROVE  \E s : Ready(s) /\ s.blobs = db.blobs /\ db' = Reconcile(s)
<1>1. db \in ArchiveState /\ Plans(db) /\ RowsSound(db)
  BY ItselfPlan DEF DbInv
<1>2. PICK job : job = [state |-> "Staged", msg |-> m, version |-> v.id, identity |-> i,
                   revision |-> v.revision, content |-> v.content,
                   generation |-> GenerationFor(db, m)]
  OBVIOUS
<1>3. /\ db.jobs[j] = Nothing /\ i \in DOMAIN v.refs
      /\ \/ /\ i \in Owned(db)
            /\ db' = Reconcile(ShareKnownMedia(db, {<<m, v.id, i>>}))
         \/ /\ i \notin Owned(db) /\ v.refs[i] # "Staged"
            /\ db' = Reconcile([db EXCEPT !.jobs[j] = job,
                                  !.messages = SetRefs(@, {<<m, v.id, i>>}, "Staged")])
  BY <1>2 DEF Stage, Commit
<1>4. CASE i \in Owned(db)
  <2>1. PICK s : s = ShareKnownMedia(db, {<<m, v.id, i>>})
    OBVIOUS
  <2>2. Ready(s) /\ s.blobs = db.blobs
    BY <1>1, <2>1, SharePlan, SameGenerationsReady DEF SameGenerations
  <2> QED
    BY <1>3, <1>4, <2>1, <2>2
<1>5. CASE i \notin Owned(db)
  <2> v.refs[i] # "Staged" /\ v.refs[i] # "Complete"
    BY <1>3, <1>5 DEF Owned
  <2>1. job \in Job
    <3>1. v.id \in Ids /\ v.revision \in Ids /\ v.content \in Contents
      BY <1>1, VersionAt, VersionFields
    <3>2. GenerationFor(db, m) \in Generation
      BY <1>1, StateFields, ArchiveAssumption DEF GenerationFor, Generation
    <3> QED
      BY <1>2, <3>1, <3>2 DEF Job
  <2>2. PICK ms : ms = SetRefs(db.messages, {<<m, v.id, i>>}, "Staged")
    OBVIOUS
  <2>3. ms \in [Msgs -> Message] /\ "Staged" \in RefStates
    <3>1. "Staged" \in RefStates /\ db.messages \in [Msgs -> Message]
      BY <1>1, StateFields DEF RefStates
    <3>2. PICK refs : refs = {<<m, v.id, i>>}
      OBVIOUS
    <3> QED
      BY <2>2, <3>1, <3>2, SetRefsFacts
  <2>4. PICK s : s = [db EXCEPT !.jobs[j] = job, !.messages = ms]
    OBVIOUS
  <2>5. /\ s \in ArchiveState /\ s.messages = ms /\ s.jobs = [db.jobs EXCEPT ![j] = job]
        /\ s.leases = db.leases /\ s.blobs = db.blobs
        /\ s.account = db.account /\ s.chats = db.chats
    <3>1. [db.jobs EXCEPT ![j] = job] \in [Jobs -> Job \cup {Nothing}]
      BY <1>1, <2>1, StateFields
    <3> QED
      BY <1>1, <2>3, <2>4, <3>1 DEF ArchiveState
  <2>6. RowsSound(s)
    <3>1. \A y \in Owned(s) : y \in Owned(db)
      <4>1. s.messages = SetRefs(db.messages, {<<m, v.id, i>>}, "Staged")
        BY <2>2, <2>5
      <4>2. \A y \in Owned(s) : y \in Owned(db) \/ ("Staged" = "Complete" /\ y = i)
        BY <1>1, <2>3, <4>1, SetRefOwned
      <4> QED
        BY <4>2
    <3> QED
      BY <1>1, <2>5, <3>1 DEF RowsSound
  <2>7. JobsKept(db, s)
    BY <1>1, <1>3, <2>5, StateFields DEF JobsKept
  <2>8. Ready(s)
    <3>1. /\ job.state = "Staged" /\ job.msg = m /\ job.version = v.id /\ job.identity = i
          /\ s.messages = SetRefs(db.messages, {<<m, v.id, i>>}, "Staged")
      BY <1>2, <2>2, <2>5
    <3>2. JobsTied(s)
      BY <1>3, <2>1, <2>5, <3>1, StageTied
    <3>3. Plans(s)
      BY <1>3, <2>3, <2>5, <2>6, <2>7, <3>1, <3>2, SetRefPlan
    <3> QED
      BY <2>5, <3>3, SameGenerationsReady DEF SameGenerations
  <2> QED
    BY <1>3, <1>5, <2>2, <2>4, <2>5, <2>8
<1> QED
  BY <1>4, <1>5

\* What the end of a current job leaves, with the rows its blob then has.
LEMMA EndedPlan ==
  ASSUME DbInv, NEW j \in Jobs, Staged(db, j), JobCurrent(db, j),
         NEW state \in {"Complete", "Failed"},
         NEW bs \in [Blobs -> {"None", "Complete", "GarbagePending"}],
         \A b \in Blobs : db.blobs[b] = "Complete" => bs[b] = "Complete",
         state = "Complete" => bs[BlobFor(j)] = "Complete"
  PROVE  Ready([Ended(db, j, state) EXCEPT !.blobs = bs])
<1>1. db \in ArchiveState /\ RowsSound(db) /\ db.jobs[j] \in Job /\ state \in RefStates
      /\ db.messages \in [Msgs -> Message]
  BY StateFields DEF DbInv, Staged, RefStates
<1>2. db.jobs[j].msg \in Msgs /\ db.jobs[j].identity \in Identities
  BY <1>1 DEF Job
<1>3. PICK m \in Msgs : m = db.jobs[j].msg
  BY <1>2
<1>4. PICK i \in Identities : i = db.jobs[j].identity
  BY <1>2
<1>5. PICK v \in VersionsOf(db, m) : v.id = db.jobs[j].version /\ i \in DOMAIN v.refs
                                     /\ v.refs[i] = "Staged"
  BY <1>3, <1>4 DEF JobCurrent
<1>6. JobRef(db, j) = <<m, v.id, i>>
  BY <1>3, <1>4, <1>5 DEF JobRef
<1>7. PICK ms : ms = SetRefs(db.messages, {<<m, v.id, i>>}, state)
  OBVIOUS
<1>8. ms \in [Msgs -> Message]
  <2>1. PICK refs : refs = {<<m, v.id, i>>}
    OBVIOUS
  <2> QED
    BY <1>1, <1>7, <2>1, SetRefsFacts
<1>9. PICK js : js = [db.jobs EXCEPT ![j] = [db.jobs[j] EXCEPT !.state = state]]
  OBVIOUS
<1>10. js \in [Jobs -> Job \cup {Nothing}] /\ JobsKept(db, [db EXCEPT !.jobs = js])
  <2>1. PICK job : job = [db.jobs[j] EXCEPT !.state = state]
    OBVIOUS
  <2>2. job \in Job /\ job.identity = db.jobs[j].identity
    BY <1>1, <2>1 DEF Job
  <2>3. db.jobs \in [Jobs -> Job \cup {Nothing}] /\ js = [db.jobs EXCEPT ![j] = job]
    BY <1>1, <1>9, <2>1, StateFields
  <2>4. js \in [Jobs -> Job \cup {Nothing}]
    BY <2>2, <2>3
  <2>5. job # Nothing
    BY <2>2, ArchiveAssumption
  <2>6. \A n \in Jobs : db.jobs[n] # Nothing =>
          js[n] # Nothing /\ js[n].identity = db.jobs[n].identity
    BY <2>2, <2>3, <2>5
  <2>7. [db EXCEPT !.jobs = js].jobs = js
    BY <1>1 DEF ArchiveState
  <2> QED
    BY <2>4, <2>6, <2>7 DEF JobsKept
<1>11. PICK s : s = [db EXCEPT !.jobs = js, !.messages = ms, !.blobs = bs]
  OBVIOUS
<1>12. [Ended(db, j, state) EXCEPT !.blobs = bs] = s
  BY <1>1, <1>6, <1>7, <1>9, <1>11 DEF Ended, ArchiveState
<1>13. /\ s \in ArchiveState /\ s.messages = ms /\ s.jobs = js /\ s.blobs = bs
       /\ s.leases = db.leases /\ s.account = db.account /\ s.chats = db.chats
  BY <1>1, <1>8, <1>10, <1>11 DEF ArchiveState
<1>14. RowsSound(s)
  <2>1. \A y \in Owned(s) : y \in Owned(db) \/ (state = "Complete" /\ y = i)
    <3>1. s.messages = SetRefs(db.messages, {<<m, v.id, i>>}, state)
      BY <1>7, <1>13
    <3> QED
      BY <1>1, <3>1, SetRefOwned
  <2>2. \A y \in Owned(s) : bs[BlobOf[y]] = "Complete"
    <3>1. SUFFICES ASSUME NEW y \in Owned(s) PROVE bs[BlobOf[y]] = "Complete"
      OBVIOUS
    <3>2. y \in Identities /\ BlobOf[y] \in Blobs
      BY <1>13, OwnedIdentities, ArchiveAssumption
    <3> QED
      BY <1>1, <1>4, <2>1, <3>2 DEF RowsSound, BlobFor
  <2>3. ASSUME NEW l \in Leases, db.leases[l] # Nothing
        PROVE  bs[db.leases[l].blob] = "Complete"
    <3>1. db.leases[l].blob \in Blobs
      BY <1>1, <2>3, StateFields DEF Lease
    <3> QED
      BY <1>1, <2>3, <3>1 DEF RowsSound
  <2> QED
    BY <1>13, <2>2, <2>3 DEF RowsSound
<1>15. JobsKept(db, s)
  BY <1>1, <1>10, <1>13 DEF JobsKept, ArchiveState
<1>16. JobsTied(s)
  <2>1. PICK job : job = [db.jobs[j] EXCEPT !.state = state]
    OBVIOUS
  <2>2. job.state = state /\ s.jobs = [db.jobs EXCEPT ![j] = job] /\ state # "Staged"
    BY <1>1, <1>9, <1>13, <2>1 DEF Job
  <2>3. PICK refs : refs = {<<m, v.id, i>>}
    OBVIOUS
  <2>4. JobRef(db, j) \in refs /\ s.messages = SetRefs(db.messages, refs, state)
    BY <1>6, <1>7, <1>13, <2>3
  <2> QED
    BY <1>1, <2>2, <2>4, EndTied
<1>17. Ready(s)
  <2>1. v.refs[i] # "Complete"
    BY <1>5
  <2>2. Plans(s)
    BY <1>1, <1>5, <1>7, <1>13, <1>14, <1>15, <1>16, <2>1, SetRefPlan
  <2> QED
    BY <1>13, <2>2, SameGenerationsReady DEF SameGenerations
<1> QED
  BY <1>12, <1>17

---------------------------------------------------------------------------
(* Leases and rows.                                                        *)

\* A state with other leases or rows is a plan when its rows are sound.
LEMMA RowsPlan ==
  ASSUME DbInv, NEW t \in ArchiveState, t.messages = db.messages, t.jobs = db.jobs,
         \A i \in Owned(db) : t.blobs[BlobOf[i]] = "Complete",
         \A l \in Leases : t.leases[l] # Nothing => t.blobs[t.leases[l].blob] = "Complete"
  PROVE  Plans(t)
<1>1. Owned(t) = Owned(db)
  BY DEF Owned, VersionsOf
<1>2. BodiesKept(db, t) /\ BodiesValid(t)
  BY ItselfKept DEF BodiesKept, DbInv, BodiesValid
<1> QED
  BY <1>1, <1>2, ItselfPlan, TiedStay DEF Plans, RowsSound, JobsKept, StagedBefore

\* A lease on a copy the version holds.
LEMMA AcquirePlan ==
  ASSUME DbInv, NEW l \in Leases, NEW m \in Msgs, NEW v \in VersionsOf(db, m),
         NEW i \in Identities, Acquire(l, m, v, i)
  PROVE  \E s : Ready(s) /\ s.blobs = db.blobs /\ db' = Reconcile(s)
<1>1. db \in ArchiveState /\ RowsSound(db)
  BY DEF DbInv
<1>2. PICK lease : lease = [msg |-> m, version |-> v.id, blob |-> BlobOf[i],
                    revoked |-> FALSE, generation |-> GenerationFor(db, m)]
  OBVIOUS
<1>3. /\ lease \in Lease /\ lease.blob = BlobOf[i]
      /\ lease.msg = m /\ lease.generation = GenerationFor(db, m)
  <2>1. v.id \in Ids /\ BlobOf[i] \in Blobs
    BY <1>1, VersionAt, VersionFields, ArchiveAssumption
  <2>2. GenerationFor(db, m) \in Generation
    BY <1>1, StateFields, ArchiveAssumption DEF GenerationFor, Generation
  <2> QED
    BY <1>2, <2>1, <2>2 DEF Lease
<1>4. PICK s : s = [db EXCEPT !.leases[l] = lease]
  OBVIOUS
<1>5. /\ s \in ArchiveState /\ s.messages = db.messages /\ s.jobs = db.jobs
      /\ s.leases = [db.leases EXCEPT ![l] = lease] /\ s.blobs = db.blobs
      /\ SameGenerations(s)
  <2>1. [db.leases EXCEPT ![l] = lease] \in [Leases -> Lease \cup {Nothing}]
    BY <1>1, <1>3, StateFields
  <2> QED
    BY <1>1, <1>4, <2>1 DEF ArchiveState, SameGenerations
<1>6. i \in Owned(db)
  <2>1. i \in DOMAIN v.refs /\ v.refs[i] = "Complete"
    BY DEF Acquire
  <2>2. PICK k \in DOMAIN db.messages[m].versions : v = db.messages[m].versions[k]
    BY DEF VersionsOf
  <2> QED
    BY <2>1, <2>2, OwnedBy
<1>7. db.leases \in [Leases -> Lease \cup {Nothing}]
  BY <1>1, StateFields
<1>8. Ready(s)
  <2>1. Plans(s)
    BY <1>1, <1>3, <1>5, <1>6, <1>7, RowsPlan DEF RowsSound
  <2>2. \A x : GenerationFor(s, x) = GenerationFor(db, x)
    BY <1>5 DEF SameGenerations, GenerationFor
  <2>3. LeasesTied(s)
    BY <1>3, <1>5, <1>7, <2>2 DEF DbInv, Sound, LeasesTied
  <2> QED
    BY <2>1, <2>2, <2>3 DEF Ready, Spread
<1>9. db' = Reconcile(s)
  BY <1>2, <1>4 DEF Acquire, Commit
<1> QED
  BY <1>5, <1>8, <1>9

\* A lease that is given up.
LEMMA ReleasePlan ==
  ASSUME DbInv, NEW l \in Leases, Release(l)
  PROVE  \E s : Ready(s) /\ s.blobs = db.blobs /\ db' = Reconcile(s)
<1>1. db \in ArchiveState /\ RowsSound(db)
  BY DEF DbInv
<1>2. PICK s : s = [db EXCEPT !.leases[l] = Nothing]
  OBVIOUS
<1>3. db.leases \in [Leases -> Lease \cup {Nothing}]
  BY <1>1, StateFields
<1>4. /\ s \in ArchiveState /\ s.messages = db.messages /\ s.jobs = db.jobs
      /\ s.leases = [db.leases EXCEPT ![l] = Nothing] /\ s.blobs = db.blobs
      /\ SameGenerations(s)
  BY <1>1, <1>2, <1>3 DEF ArchiveState, SameGenerations
<1>5. Ready(s)
  <2>1. Plans(s)
    BY <1>1, <1>3, <1>4, RowsPlan DEF RowsSound
  <2>2. \A x : GenerationFor(s, x) = GenerationFor(db, x)
    BY <1>4 DEF SameGenerations, GenerationFor
  <2>3. LeasesTied(s)
    BY <1>3, <1>4, <2>2 DEF DbInv, Sound, LeasesTied
  <2> QED
    BY <2>1, <2>2, <2>3 DEF Ready, Spread
<1>6. db' = Reconcile(s)
  BY <1>2 DEF Release, Commit
<1> QED
  BY <1>4, <1>5, <1>6

\* What is owned or leased is referenced.
LEMMA ReferencedRows ==
  ASSUME DbInv
  PROVE  /\ \A i \in Owned(db) : BlobOf[i] \in Blobs /\ Referenced(db, BlobOf[i])
         /\ \A l \in Leases : db.leases[l] # Nothing =>
              db.leases[l].blob \in Blobs /\ Referenced(db, db.leases[l].blob)
<1>1. \A i \in Owned(db) : BlobOf[i] \in Blobs
  BY OwnedIdentities, ArchiveAssumption DEF DbInv
<1>2. \A l \in Leases : db.leases[l] # Nothing => db.leases[l].blob \in Blobs
  BY StateFields DEF DbInv, Lease
<1> QED
  BY <1>1, <1>2 DEF Referenced

\* Collection marks and forgets rows that nothing refers to.
LEMMA RowsChangedPlan ==
  ASSUME DbInv, NEW bs \in [Blobs -> {"None", "Complete", "GarbagePending"}],
         \A b \in Blobs : Referenced(db, b) => bs[b] = db.blobs[b]
  PROVE  Ready([db EXCEPT !.blobs = bs]) /\ [db EXCEPT !.blobs = bs].blobs = bs
<1>1. db \in ArchiveState /\ RowsSound(db)
  BY DEF DbInv
<1>2. PICK s : s = [db EXCEPT !.blobs = bs]
  OBVIOUS
<1>3. /\ s \in ArchiveState /\ s.messages = db.messages /\ s.jobs = db.jobs
      /\ s.leases = db.leases /\ s.blobs = bs /\ SameGenerations(s)
  BY <1>1, <1>2 DEF ArchiveState, SameGenerations
<1>4. Ready(s)
  <2>1. Plans(s)
    BY <1>1, <1>3, ReferencedRows, RowsPlan DEF RowsSound
  <2> QED
    BY <1>3, <2>1, SameGenerationsReady
<1> QED
  BY <1>2, <1>3, <1>4

---------------------------------------------------------------------------
(* The invariant.                                                          *)

\* A complete row has its bytes on disk, and so has a job that was published.
FilesSound ==
    /\ \A b \in Blobs : db.blobs[b] = "Complete" => b \in files
    /\ \A j \in published : db.jobs[j] # Nothing /\ BlobFor(j) \in files

ErasedSound == \A m \in Msgs, id \in Ids : <<m, id>> \in erased => Gone(db, m, id)

ArchiveInv ==
    TypeOK /\ BodiesValid(db) /\ RowsSound(db) /\ Sound(db) /\ FilesSound /\ ErasedSound

\* The commit of a plan is a plan, and sound.
LEMMA CommitPlan ==
  ASSUME NEW s, Ready(s)
  PROVE  /\ Plans(Reconcile(s)) /\ Reconcile(s).blobs = s.blobs
         /\ BodiesKept(s, Reconcile(s)) /\ Sound(Reconcile(s)) /\ Spread(Reconcile(s))
<1> DEFINE t == Reconcile(s)
<1>1. /\ s \in ArchiveState /\ BodiesValid(s) /\ RowsSound(s) /\ JobsTied(s)
      /\ BodiesKept(db, s) /\ JobsKept(db, s) /\ LeasesTied(s) /\ Spread(s)
  BY DEF Ready, Plans
<1>2. /\ t \in ArchiveState /\ SameBodies(s.messages, t.messages) /\ t.blobs = s.blobs
      /\ t.account = s.account /\ t.chats = s.chats
  BY <1>1, ReconcileFacts
<1>3. BodiesValid(t) /\ RowsSound(t) /\ CopiesStay(s, t) /\ JobsKept(s, t)
  BY <1>1, ReconcileKeeps
<1>4. Sound(t)
  BY <1>1, ReconcileSound
<1> HIDE DEF t
<1>5. BodiesKept(db, t) /\ BodiesKept(s, t)
  BY <1>1, <1>2, <1>3, SameBodiesKept, ItselfKept
<1>6. JobsKept(db, t)
  BY <1>1, <1>3 DEF JobsKept
<1>7. Spread(t)
  <2>1. SUFFICES ASSUME NEW m \in Msgs, GenerationFor(t, m) # GenerationFor(db, m),
                        NEW k \in DOMAIN t.messages[m].versions,
                        NEW n \in DOMAIN db.messages[m].versions,
                        t.messages[m].versions[k].id = db.messages[m].versions[n].id,
                        NEW i \in DOMAIN t.messages[m].versions[k].refs, i \in Owned(db)
                 PROVE  t.messages[m].versions[k].refs[i] = "Complete"
    BY DEF Spread
  <2>2. /\ k \in DOMAIN s.messages[m].versions
        /\ Alike(s.messages[m].versions[k], t.messages[m].versions[k])
    BY <1>2 DEF SameBodies, MessageAlike
  <2>3. GenerationFor(s, m) # GenerationFor(db, m)
    BY <1>2, <2>1 DEF GenerationFor
  <2>4. s.messages[m].versions[k].refs[i] = "Complete"
    BY <1>1, <2>1, <2>2, <2>3 DEF Spread, Alike
  <2>5. i \in DOMAIN s.messages[m].versions[k].refs
    BY <2>1, <2>2 DEF Alike
  <2> QED
    BY <1>3, <2>2, <2>4, <2>5 DEF CopiesStay
<1> QED
  BY <1>2, <1>3, <1>4, <1>5, <1>6, <1>7 DEF Sound, Plans, t

\* A commit keeps the invariant when the rows it completes have their bytes and
\* what it adds to the erased is gone.
LEMMA Committed ==
  ASSUME ArchiveInv, NEW s, Ready(s), db' = Reconcile(s),
         files' = files, published' \subseteq published, erased' \subseteq Msgs \X Ids,
         \A b \in Blobs : s.blobs[b] = "Complete" => b \in files,
         \A m \in Msgs, id \in Ids : <<m, id>> \in erased' =>
           <<m, id>> \in erased \/ Gone(s, m, id)
  PROVE  ArchiveInv' /\ BodiesKept(db, db') /\ Spread(db')
<1>1. PICK t : t = db' /\ t = Reconcile(s)
  OBVIOUS
<1>2. Plans(t) /\ t.blobs = s.blobs /\ BodiesKept(s, t) /\ Sound(t) /\ Spread(t)
  BY <1>1, CommitPlan
<1>3. t \in ArchiveState /\ BodiesValid(t) /\ RowsSound(t)
      /\ BodiesKept(db, t) /\ JobsKept(db, t)
  BY <1>2 DEF Plans
<1>4. TypeOK'
  BY <1>1, <1>3 DEF ArchiveInv, TypeOK
<1>5. BodiesValid(db)' /\ RowsSound(db)' /\ Sound(db)'
  BY <1>1, <1>2, <1>3
<1>6. FilesSound'
  <2>1. \A b \in Blobs : t.blobs[b] = "Complete" => b \in files
    BY <1>2
  <2>2. \A j \in published : t.jobs[j] # Nothing /\ BlobOf[t.jobs[j].identity] \in files
    BY <1>3 DEF ArchiveInv, TypeOK, FilesSound, BlobFor, JobsKept
  <2> QED
    BY <1>1, <2>1, <2>2 DEF FilesSound, BlobFor
<1>7. ErasedSound'
  <2>1. \A m \in Msgs, id \in Ids : <<m, id>> \in erased' => Gone(t, m, id)
    BY <1>2, <1>3, GoneStays DEF ArchiveInv, ErasedSound
  <2> QED
    BY <1>1, <2>1 DEF ErasedSound
<1> QED
  BY <1>1, <1>2, <1>3, <1>4, <1>5, <1>6, <1>7 DEF ArchiveInv

\* What a step does to the bodies: nothing, or it commits a plan.
LEMMA StepKeeps ==
  ASSUME ArchiveInv, [Next]_vars
  PROVE  ArchiveInv' /\ BodiesKept(db, db') /\ Spread(db')
<1>1. DbInv
  BY DEF ArchiveInv, TypeOK, DbInv
<1> DEFINE Planned(s) == Ready(s) /\ db' = Reconcile(s)
<1>2. ASSUME NEW s, Planned(s), s.blobs = db.blobs,
             files' = files, published' = published, erased' = erased
      PROVE  ArchiveInv' /\ BodiesKept(db, db') /\ Spread(db')
  <2>1. /\ \A b \in Blobs : s.blobs[b] = "Complete" => b \in files
        /\ erased' \subseteq Msgs \X Ids
    BY <1>2 DEF ArchiveInv, FilesSound, TypeOK
  <2>2. ArchiveInv' /\ BodiesKept(db, db') /\ Spread(db')
    BY <1>2, <2>1, Committed
  <2> QED
    BY <1>2, <2>2
<1>3. ASSUME NEW e \in Events, Deliver(e)
      PROVE  ArchiveInv' /\ BodiesKept(db, db') /\ Spread(db')
  <2>1. PICK s : Planned(s) /\ s.blobs = db.blobs
    BY <1>1, <1>3, DeliverPlan
  <2> QED
    BY <1>2, <1>3, <2>1 DEF Deliver
<1>4. ASSUME NEW kind \in {"Trashbin", "EditHistory"}, NEW scope \in Scopes,
             Purge(kind, scope)
      PROVE  ArchiveInv' /\ BodiesKept(db, db') /\ Spread(db')
  <2>1. PICK s : s = Purged(db, kind, scope)
    OBVIOUS
  <2>2. /\ Planned(s) /\ s.blobs = db.blobs
        /\ \A m \in Msgs, id \in Ids : <<m, id>> \in Removed(kind, scope) => Gone(s, m, id)
    BY <1>1, <1>4, <2>1, PurgePlan DEF Purge, Commit
  <2>3. /\ files' = files /\ published' = published
        /\ erased' = erased \cup Removed(kind, scope)
    BY <1>4 DEF Purge
  <2>4. erased' \subseteq Msgs \X Ids
    BY <2>3 DEF ArchiveInv, TypeOK, Removed
  <2>5. \A m \in Msgs, id \in Ids : <<m, id>> \in erased' =>
           <<m, id>> \in erased \/ Gone(s, m, id)
    BY <2>2, <2>3
  <2>6. \A b \in Blobs : s.blobs[b] = "Complete" => b \in files
    BY <2>2 DEF ArchiveInv, FilesSound
  <2>7. ArchiveInv' /\ BodiesKept(db, db') /\ Spread(db')
    BY <2>2, <2>3, <2>4, <2>5, <2>6, Committed
  <2> QED
    BY <2>2, <2>7
<1>5. ASSUME NEW j \in Jobs, NEW m \in Msgs, NEW i \in Identities,
             NEW v \in VersionsOf(db, m), Stage(j, m, v, i)
      PROVE  ArchiveInv' /\ BodiesKept(db, db') /\ Spread(db')
  <2>1. PICK s : Planned(s) /\ s.blobs = db.blobs
    BY <1>1, <1>5, StagePlan
  <2> QED
    BY <1>2, <1>5, <2>1 DEF Stage
<1>6. ASSUME NEW j \in Jobs, Publish(j)
      PROVE  ArchiveInv' /\ BodiesKept(db, db') /\ Spread(db')
  <2>1. db' = db /\ erased' = erased /\ files' = files \cup {BlobFor(j)}
        /\ published' = published \cup {j} /\ db.jobs[j] # Nothing
    BY <1>6 DEF Publish, Staged
  <2>2. BlobFor(j) \in Blobs
    <3>1. db.jobs[j] \in Job
      BY <1>1, <2>1, StateFields DEF DbInv
    <3> QED
      BY <3>1, ArchiveAssumption DEF BlobFor, Job
  <2>3. TypeOK' /\ BodiesValid(db)' /\ RowsSound(db)' /\ Sound(db)' /\ ErasedSound'
    BY <2>1, <2>2 DEF ArchiveInv, TypeOK, ErasedSound
  <2>4. FilesSound'
    BY <2>1 DEF ArchiveInv, FilesSound, BlobFor
  <2> QED
    BY <2>1, <2>3, <2>4, ItselfKept DEF ArchiveInv, Spread
<1>7. ASSUME NEW j \in Jobs, Complete(j)
      PROVE  ArchiveInv' /\ BodiesKept(db, db') /\ Spread(db')
  <2>1. /\ Staged(db, j) /\ JobCurrent(db, j) /\ j \in published /\ MayOwn(db, j)
        /\ files' = files /\ erased' = erased /\ published' \subseteq published
    BY <1>7 DEF Complete
  <2>2. BlobFor(j) \in files /\ BlobFor(j) \in Blobs /\ db.blobs[BlobFor(j)] # "GarbagePending"
    BY <2>1 DEF ArchiveInv, FilesSound, TypeOK, MayOwn, BlobFor
  <2>3. PICK bs : bs = [db.blobs EXCEPT ![BlobFor(j)] = IF @ = "None" THEN "Complete" ELSE @]
    OBVIOUS
  <2>4. db.blobs \in [Blobs -> {"None", "Complete", "GarbagePending"}] /\ db \in ArchiveState
    BY <1>1, StateFields DEF DbInv
  <2>5. /\ bs \in [Blobs -> {"None", "Complete", "GarbagePending"}]
        /\ bs[BlobFor(j)] = "Complete"
        /\ \A b \in Blobs : bs[b] = db.blobs[b] \/ b = BlobFor(j)
        /\ \A b \in Blobs : db.blobs[b] = "Complete" => bs[b] = "Complete"
    BY <2>2, <2>3, <2>4
  <2>6. PICK s : s = [Ended(db, j, "Complete") EXCEPT !.blobs = bs]
    OBVIOUS
  <2>7. Ready(s)
    BY <1>1, <2>1, <2>5, <2>6, EndedPlan
  <2>8. PICK ended : ended = Ended(db, j, "Complete")
    OBVIOUS
  <2>9. ended.blobs = db.blobs /\ s.blobs = bs
        /\ s = [ended EXCEPT !.blobs[BlobFor(j)] = IF @ = "None" THEN "Complete" ELSE @]
    BY <2>3, <2>4, <2>6, <2>8 DEF Ended, ArchiveState
  <2>10. db' = Reconcile(s)
    BY <1>7, <2>8, <2>9 DEF Complete, Commit
  <2>11. \A b \in Blobs : s.blobs[b] = "Complete" => b \in files
    BY <2>2, <2>5, <2>9 DEF ArchiveInv, FilesSound
  <2>12. ArchiveInv' /\ BodiesKept(db, db') /\ Spread(db')
    <3>1. erased' \subseteq Msgs \X Ids
      BY <2>1 DEF ArchiveInv, TypeOK
    <3> QED
      BY <2>1, <2>7, <2>10, <2>11, <3>1, Committed
  <2> QED
    BY <2>7, <2>10, <2>12
<1>8. ASSUME NEW j \in Jobs, Fail(j)
      PROVE  ArchiveInv' /\ BodiesKept(db, db') /\ Spread(db')
  <2>1. /\ Staged(db, j) /\ JobCurrent(db, j)
        /\ files' = files /\ erased' = erased /\ published' \subseteq published
        /\ db' = Reconcile(Ended(db, j, "Failed"))
    BY <1>8 DEF Fail, Commit
  <2>2. PICK bs : bs = db.blobs
    OBVIOUS
  <2>3. bs \in [Blobs -> {"None", "Complete", "GarbagePending"}] /\ db \in ArchiveState
    BY <1>1, <2>2, StateFields DEF DbInv
  <2>4. PICK s : s = [Ended(db, j, "Failed") EXCEPT !.blobs = bs]
    OBVIOUS
  <2>5. Ready(s)
    BY <1>1, <2>1, <2>2, <2>3, <2>4, EndedPlan
  <2>6. s = Ended(db, j, "Failed") /\ s.blobs = db.blobs
    BY <2>2, <2>3, <2>4 DEF Ended, ArchiveState
  <2>7. ArchiveInv' /\ BodiesKept(db, db') /\ Spread(db')
    <3>1. /\ erased' \subseteq Msgs \X Ids
          /\ \A b \in Blobs : s.blobs[b] = "Complete" => b \in files
      BY <2>1, <2>6 DEF ArchiveInv, TypeOK, FilesSound
    <3> QED
      BY <2>1, <2>5, <2>6, <3>1, Committed
  <2> QED
    BY <2>1, <2>5, <2>6, <2>7
<1>9. ASSUME NEW l \in Leases, NEW m \in Msgs, NEW i \in Identities,
             NEW v \in VersionsOf(db, m), Acquire(l, m, v, i)
      PROVE  ArchiveInv' /\ BodiesKept(db, db') /\ Spread(db')
  <2>1. PICK s : Planned(s) /\ s.blobs = db.blobs
    BY <1>1, <1>9, AcquirePlan
  <2> QED
    BY <1>2, <1>9, <2>1 DEF Acquire
<1>10. ASSUME NEW l \in Leases, Release(l)
       PROVE  ArchiveInv' /\ BodiesKept(db, db') /\ Spread(db')
  <2>1. PICK s : Planned(s) /\ s.blobs = db.blobs
    BY <1>1, <1>10, ReleasePlan
  <2> QED
    BY <1>2, <1>10, <2>1 DEF Release
<1>11. ASSUME NEW bs \in [Blobs -> {"None", "Complete", "GarbagePending"}],
              \A b \in Blobs : Referenced(db, b) => bs[b] = db.blobs[b],
              \A b \in Blobs : bs[b] = "Complete" => db.blobs[b] = "Complete",
              db' = Reconcile([db EXCEPT !.blobs = bs]),
              files' = files, published' = published, erased' = erased
       PROVE  ArchiveInv' /\ BodiesKept(db, db') /\ Spread(db')
  <2>1. PICK s : s = [db EXCEPT !.blobs = bs]
    OBVIOUS
  <2>2. Planned(s) /\ s.blobs = bs
    BY <1>1, <1>11, <2>1, RowsChangedPlan
  <2>3. /\ erased' \subseteq Msgs \X Ids
        /\ \A b \in Blobs : s.blobs[b] = "Complete" => b \in files
    BY <1>11, <2>2 DEF ArchiveInv, TypeOK, FilesSound
  <2>4. ArchiveInv' /\ BodiesKept(db, db') /\ Spread(db')
    BY <1>11, <2>2, <2>3, Committed
  <2> QED
    BY <2>2, <2>4
<1>12. db.blobs \in [Blobs -> {"None", "Complete", "GarbagePending"}] /\ db \in ArchiveState
  BY <1>1, StateFields DEF DbInv
<1>13. ASSUME MarkGarbage
       PROVE  ArchiveInv' /\ BodiesKept(db, db') /\ Spread(db')
  <2>1. PICK bs : bs = [b \in Blobs |-> IF b \in Garbage(db) THEN "GarbagePending"
                                        ELSE db.blobs[b]]
    OBVIOUS
  <2>2. /\ db' = Reconcile([db EXCEPT !.blobs = bs])
        /\ files' = files /\ published' = published /\ erased' = erased
    BY <1>13, <2>1 DEF MarkGarbage, Commit
  <2>3. /\ bs \in [Blobs -> {"None", "Complete", "GarbagePending"}]
        /\ \A b \in Blobs : Referenced(db, b) => bs[b] = db.blobs[b]
        /\ \A b \in Blobs : bs[b] = "Complete" => db.blobs[b] = "Complete"
    BY <1>12, <2>1 DEF Garbage
  <2> QED
    BY <1>11, <2>2, <2>3
<1>14. ASSUME NEW b \in Blobs, ForgetBlob(b)
       PROVE  ArchiveInv' /\ BodiesKept(db, db') /\ Spread(db')
  <2>1. PICK bs : bs = [db.blobs EXCEPT ![b] = "None"]
    OBVIOUS
  <2>2. /\ db' = Reconcile([db EXCEPT !.blobs = bs]) /\ ~Referenced(db, b)
        /\ files' = files /\ published' = published /\ erased' = erased
    BY <1>14, <2>1 DEF ForgetBlob, Commit
  <2>3. /\ bs \in [Blobs -> {"None", "Complete", "GarbagePending"}]
        /\ \A x \in Blobs : Referenced(db, x) => bs[x] = db.blobs[x]
        /\ \A x \in Blobs : bs[x] = "Complete" => db.blobs[x] = "Complete"
    BY <1>12, <2>1, <2>2
  <2> QED
    BY <1>11, <2>2, <2>3
<1>15. ASSUME NEW b \in Blobs, DeleteFile(b)
       PROVE  ArchiveInv' /\ BodiesKept(db, db') /\ Spread(db')
  <2>1. /\ db' = db /\ erased' = erased /\ files' = files \ {b}
        /\ published' = {j \in published : BlobFor(j) # b}
        /\ db.blobs[b] = "GarbagePending"
    BY <1>15 DEF DeleteFile
  <2>2. TypeOK' /\ BodiesValid(db)' /\ RowsSound(db)' /\ Sound(db)' /\ ErasedSound'
    BY <2>1 DEF ArchiveInv, TypeOK, ErasedSound
  <2>3. FilesSound'
    BY <2>1 DEF ArchiveInv, FilesSound, BlobFor
  <2> QED
    BY <2>1, <2>2, <2>3, ItselfKept DEF ArchiveInv, Spread
<1>16. ASSUME Crash \/ UNCHANGED vars
       PROVE  ArchiveInv' /\ BodiesKept(db, db') /\ Spread(db')
  <2>1. db' = db /\ erased' = erased /\ files' = files /\ published' \subseteq published
    BY <1>16 DEF Crash, vars
  <2>2. TypeOK' /\ BodiesValid(db)' /\ RowsSound(db)' /\ Sound(db)' /\ ErasedSound'
    BY <2>1 DEF ArchiveInv, TypeOK, ErasedSound
  <2>3. FilesSound'
    BY <2>1 DEF ArchiveInv, FilesSound, BlobFor
  <2> QED
    BY <2>1, <2>2, <2>3, ItselfKept DEF ArchiveInv, Spread
<1> QED
  BY <1>3, <1>4, <1>5, <1>6, <1>7, <1>8, <1>9, <1>10, <1>13, <1>14, <1>15, <1>16 DEF Next

\* The empty archive satisfies the invariant.
LEMMA InitInv ==
  ASSUME Init
  PROVE  ArchiveInv
<1>1. PICK msg : msg = [versions |-> <<>>, deleted |-> FALSE, purged |-> FALSE,
                        order |-> 0, receipts |-> {}]
  OBVIOUS
<1>2. msg \in Message /\ msg.versions = <<>> /\ ~msg.purged
  <2>1. <<>> \in Seq(Version)
    OBVIOUS
  <2> QED
    BY <1>1, <2>1 DEF Message
<1>3. /\ db = [messages |-> [m \in Msgs |-> msg], jobs |-> [j \in Jobs |-> Nothing],
               leases |-> [l \in Leases |-> Nothing], blobs |-> [b \in Blobs |-> "None"],
               account |-> 0, chats |-> [c \in Chats |-> 0]]
      /\ files = {} /\ published = {} /\ erased = {}
  BY <1>1 DEF Init, Fresh
<1>4. TypeOK
  BY <1>2, <1>3 DEF TypeOK, ArchiveState
<1>5. BodiesValid(db)
  BY <1>2, <1>3 DEF BodiesValid, BodyValid
<1>6. RowsSound(db)
  <2>1. Owned(db) = {}
    BY <1>2, <1>3 DEF Owned, VersionsOf
  <2> QED
    BY <1>3, <2>1 DEF RowsSound
<1>7. FilesSound /\ ErasedSound
  BY <1>3 DEF FilesSound, ErasedSound
<1>8. Sound(db)
  <2>1. \A j \in Jobs : ~Staged(db, j)
    BY <1>3 DEF Staged
  <2>2. \A m \in Msgs : DOMAIN db.messages[m].versions = {}
    BY <1>2, <1>3
  <2>3. \A l \in Leases : db.leases[l] = Nothing
    BY <1>3
  <2> QED
    BY <2>1, <2>2, <2>3 DEF Sound, JobsTied, LeasesTied
<1> QED
  BY <1>4, <1>5, <1>6, <1>7, <1>8 DEF ArchiveInv

\* In every state the bodies are valid and what they own is accounted for.
LEMMA AlwaysInv == Spec => []ArchiveInv
<1>1. Init => ArchiveInv
  BY InitInv
<1>2. ArchiveInv /\ [Next]_vars => ArchiveInv'
  BY StepKeeps
<1> QED
  BY <1>1, <1>2, PTL DEF Spec

---------------------------------------------------------------------------
(* The theorems.                                                           *)

\* The archive is always an ArchiveState, and what was erased was a version.
THEOREM AlwaysTyped == Spec => []TypeOK
BY AlwaysInv, PTL DEF ArchiveInv

\* What the archive says it owns, and what a reader has open, is on disk,
\* whatever collection, crashes, sharing and completions do in between.
THEOREM OwnedAlwaysOnDisk == Spec => []OwnedBytesOnDisk
<1>1. ArchiveInv => OwnedBytesOnDisk
  BY DEF ArchiveInv, RowsSound, FilesSound, OwnedBytesOnDisk, Referenced
<1> QED
  BY <1>1, AlwaysInv, PTL

\* A body a purge has removed never comes back, whatever is delivered again.
THEOREM NeverReturns == Spec => []ErasedNeverReturns
<1>1. ArchiveInv => ErasedNeverReturns
  <2>1. SUFFICES ASSUME ArchiveInv, NEW m \in Msgs, NEW v \in VersionsOf(db, m),
                        <<m, v.id>> \in erased
                 PROVE  FALSE
    BY DEF ErasedNeverReturns
  <2>2. v.id \in Ids
    <3>1. db \in ArchiveState
      BY <2>1 DEF ArchiveInv, TypeOK
    <3>2. v \in Version
      BY <3>1, VersionAt
    <3> QED
      BY <3>2, VersionFields
  <2>3. Gone(db, m, v.id)
    BY <2>1, <2>2 DEF ArchiveInv, ErasedSound
  <2> QED
    BY <2>3 DEF Gone, VersionsOf
<1> QED
  BY <1>1, AlwaysInv, PTL

\* A version that a step keeps is the one that had its id.
LEMMA SameVersion ==
  ASSUME ArchiveInv, [Next]_vars, NEW m \in Msgs, NEW v \in VersionsOf(db, m),
         NEW w \in VersionsOf(db', m), v.id = w.id
  PROVE  Preserves(v, w)
<1>1. BodiesKept(db, db') /\ db \in ArchiveState /\ BodiesValid(db)
  BY StepKeeps DEF ArchiveInv, TypeOK
<1>2. PICK k \in DOMAIN db'.messages[m].versions : w = db'.messages[m].versions[k]
  BY DEF VersionsOf
<1>3. PICK n \in DOMAIN db.messages[m].versions : v = db.messages[m].versions[n]
  BY DEF VersionsOf
<1>4. db.messages[m] \in Message /\ BodyValid(db.messages[m])
  BY <1>1, StateFields DEF BodiesValid
<1>5. v.id \in db.messages[m].receipts
  BY <1>3, <1>4 DEF BodyValid
<1>6. PICK x \in DOMAIN db.messages[m].versions :
          Preserves(db.messages[m].versions[x], w)
  BY <1>1, <1>2, <1>5 DEF BodiesKept, MessageKept
<1>7. db.messages[m].versions[x].id = db.messages[m].versions[n].id
  BY <1>3, <1>6 DEF Preserves
<1>8. x = n
  BY <1>4, <1>7, IdsDiffer
<1> QED
  BY <1>3, <1>6, <1>8

\* As long as a version is kept it only gains what it lacked: no event, edit or
\* purge rewrites its words or its media, or makes it less complete.
THEOREM OnlyGain == Spec => BodiesOnlyGain
<1>1. ArchiveInv /\ [Next]_vars =>
        \A m \in Msgs : \A v \in VersionsOf(db, m) : \A w \in VersionsOf(db', m) :
          v.id = w.id =>
            /\ w.content.text = v.content.text
            /\ w.content.media = v.content.media
            /\ v.content.fill # Empty => w.content.fill = v.content.fill
            /\ v.complete => w.complete /\ w.content = v.content
  <2>1. SUFFICES ASSUME ArchiveInv, [Next]_vars, NEW m \in Msgs,
                        NEW v \in VersionsOf(db, m), NEW w \in VersionsOf(db', m),
                        v.id = w.id
                 PROVE  Preserves(v, w)
    BY DEF Preserves
  <2> QED
    BY <2>1, SameVersion
<1> QED
  BY <1>1, AlwaysInv, PTL DEF Spec, BodiesOnlyGain

\* Every plan the reducers make leaves a state the store accepts: references,
\* jobs, leases and rows agree, and each staged reference has the one job that
\* will end it.
THEOREM AlwaysValid == Spec => []StateValid
<1>1. ASSUME ArchiveInv PROVE StateValid
  <2>1. /\ db \in ArchiveState /\ BodiesValid(db) /\ RowsSound(db) /\ JobsTied(db)
        /\ LeasesTied(db) /\ \A j \in Jobs : Staged(db, j) => JobCurrent(db, j)
        /\ \A l \in Leases : db.leases[l] # Nothing /\ ~db.leases[l].revoked => LeaseCurrent(db, l)
    BY <1>1 DEF ArchiveInv, TypeOK, Sound
  <2>2. ASSUME NEW m \in Msgs, NEW k \in DOMAIN db.messages[m].versions,
               NEW i \in DOMAIN db.messages[m].versions[k].refs,
               db.messages[m].versions[k].refs[i] = "Complete"
        PROVE  db.blobs[BlobOf[i]] = "Complete"
    BY <2>1, <2>2, OwnedBy DEF RowsSound
  <2>3. ASSUME NEW m \in Msgs, NEW k \in DOMAIN db.messages[m].versions,
               NEW i \in DOMAIN db.messages[m].versions[k].refs,
               db.messages[m].versions[k].refs[i] = "Staged"
        PROVE  Cardinality(JobsOf(<<m, db.messages[m].versions[k].id, i>>)) = 1
    <3>1. PICK j \in Jobs :
            Staged(db, j) /\ JobRef(db, j) = <<m, db.messages[m].versions[k].id, i>>
      BY <2>1, <2>3 DEF JobsTied
    <3>2. \A n \in Jobs : Staged(db, n) /\ JobRef(db, n) = JobRef(db, j) => n = j
      BY <2>1, <3>1 DEF JobsTied
    <3>3. JobsOf(<<m, db.messages[m].versions[k].id, i>>) = {j}
      BY <3>1, <3>2 DEF JobsOf
    <3> QED
      BY <3>3, FS_Singleton
  <2>4. ASSUME NEW m \in Msgs PROVE MessageValid(m)
    <3>1. BodyValid(db.messages[m])
      BY <2>1 DEF BodiesValid
    <3> QED
      BY <2>2, <2>3, <3>1 DEF BodyValid, MessageValid
  <2> QED
    BY <2>1, <2>4 DEF StateValid, RowsSound, LeasesTied
<1> QED
  BY <1>1, AlwaysInv, PTL

\* A body that stays keeps the copies it owns, and a purge gives it those of
\* the bodies it removes.
THEOREM CopiesAlwaysKept == Spec => CopiesKept
<1>1. ArchiveInv /\ [Next]_vars =>
        \A m \in Msgs : \A v \in VersionsOf(db, m) : \A w \in VersionsOf(db', m) :
          v.id = w.id => \A i \in DOMAIN v.refs :
            (\/ v.refs[i] = "Complete"
             \/ i \in Owned(db) /\ GenerationFor(db, m) # GenerationFor(db, m)')
              => w.refs[i] = "Complete"
  <2>1. SUFFICES ASSUME ArchiveInv, [Next]_vars, NEW m \in Msgs,
                        NEW v \in VersionsOf(db, m), NEW w \in VersionsOf(db', m),
                        v.id = w.id, NEW i \in DOMAIN v.refs,
                        \/ v.refs[i] = "Complete"
                        \/ i \in Owned(db) /\ GenerationFor(db, m) # GenerationFor(db, m)'
                 PROVE  w.refs[i] = "Complete"
    OBVIOUS
  <2>2. Preserves(v, w)
    BY <2>1, SameVersion
  <2>3. CASE v.refs[i] = "Complete"
    BY <2>2, <2>3 DEF Preserves
  <2>4. CASE i \in Owned(db) /\ GenerationFor(db, m) # GenerationFor(db, m)'
    <3>1. PICK k \in DOMAIN db'.messages[m].versions : w = db'.messages[m].versions[k]
      BY DEF VersionsOf
    <3>2. PICK n \in DOMAIN db.messages[m].versions : v = db.messages[m].versions[n]
      BY DEF VersionsOf
    <3>3. i \in DOMAIN w.refs
      BY <2>2 DEF Preserves
    <3>4. Spread(db')
      BY <2>1, StepKeeps
    <3>5. GenerationFor(db', m) # GenerationFor(db, m)
      BY <2>4 DEF GenerationFor
    <3> QED
      BY <2>1, <2>4, <3>1, <3>2, <3>3, <3>4, <3>5 DEF Spread
  <2> QED
    BY <2>1, <2>3, <2>4
<1> QED
  BY <1>1, AlwaysInv, PTL DEF Spec, CopiesKept
=============================================================================
