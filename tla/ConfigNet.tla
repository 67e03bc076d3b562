---------------------------- MODULE ConfigNet -----------------------------
(***************************************************************************)
(* The installs of one sync space, each with a settings file, its sync     *)
(* state and its newest record in the chat.  An install edits its file,    *)
(* takes what a check offers (PlanSyncConfigApply, CompleteSyncConfigApply *)
(* and CheckSyncConfigDataCommit), or stages what the publish gate lets it *)
(* publish; the record is posted and read back later.                      *)
(*                                                                         *)
(* An answer changes only files of its own install, so it happens at the   *)
(* moment its inventory was read: whatever others post before it is        *)
(* committed commutes with it, and an edit in between makes it stop        *)
(* (ReadBackMismatch, NeedsRecheck).  A staged record is different: it may *)
(* appear in the chat long after the heads it was planned on.              *)
(* A crash between the replacement of the file and the commit of the state *)
(* leaves what an edit to the offered text leaves.                         *)
(***************************************************************************)
EXTENDS ConfigSync

CONSTANTS
    FreshEdits, \* bound: edits when the installs start out unpublished
    JoinedEdits,\* bound: edits when they start at one version
    MaxPosts,   \* bound: records staged while everyone is at work
    MaxTurns    \* bound: steps taken after that; 0 for no such phase

ASSUME ConfigNetAssumption ==
    {FreshEdits, JoinedEdits, MaxPosts, MaxTurns} \subseteq Nat

VARIABLES
    text,    \* install -> its settings file
    state,   \* install -> its ConfigSyncState
    staged,  \* install -> the version it has staged and not yet posted
    own,     \* install -> its newest record in the chat, or NoHead
    edits,   \* edits of settings files still to come
    quiet,   \* no more edits, and one install acts at a time
    turns    \* steps taken while quiet

vars == <<text, state, staged, own, edits, quiet, turns>>

NoVersion == [key |-> NoKey, lineage |-> <<>>]

Current(d) == {own[i] : i \in Installs \ {d}} \ {NoHead}
PlanOf(d) == Plan(text[d], state[d], Current(d), own[d])
Staged == {d \in Installs : staged[d] # NoVersion}
Posts == MapThenSumSet(LAMBDA d : own[d].seq, Installs) + Cardinality(Staged)

---------------------------------------------------------------------------
\* Nobody has published, and the files are whatever they are.
FreshStart ==
    /\ text \in [Installs -> Texts]
    /\ state = [d \in Installs |-> InitialState(d)]
    /\ own = [d \in Installs |-> NoHead]

\* Install d has published its file and the others have adopted it.
JoinedStart(d) ==
    \E t \in Texts :
      LET key == [gen |-> 1, text |-> t]
          head == [install |-> d, seq |-> 1, key |-> key, lineage |-> <<>>]
          published == [InitialState(d) EXCEPT !.base = key]
      IN  /\ text = [i \in Installs |-> t]
          /\ own = [i \in Installs |-> IF i = d THEN head ELSE NoHead]
          /\ state = [i \in Installs |->
                IF i = d THEN published
                ELSE AdoptConfigHeads(InitialState(i), t, {head})]

Init ==
    /\ \/ FreshStart /\ edits = FreshEdits
       \/ \E d \in Installs : JoinedStart(d) /\ edits = JoinedEdits
    /\ staged = [d \in Installs |-> NoVersion]
    /\ quiet = FALSE
    /\ turns = 0

---------------------------------------------------------------------------
Pending(d) == state[d].pending # NoKey
MayAct(d) == quiet => \A e \in Installs \ {d} : ~Pending(e)

Edit(d, t) ==
    /\ ~quiet
    /\ edits > 0
    /\ t # text[d]
    /\ text' = [text EXCEPT ![d] = t]
    /\ edits' = edits - 1
    /\ UNCHANGED <<state, staged, own, quiet, turns>>

\* mutant: the file is replaced, and the adoption never committed.
CompletedSeenOnly(s, c) == RaiseSeen(s, c.seen)

\* CompleteSyncConfigApply: the state after choice c was written and adopted.
Completed(s, c) == Recorded(s, c.text, c.adopt, c.seen)

\* An update, an adoption, or an answer to a choice that takes heads in.
Take(d) ==
    /\ MayAct(d)
    /\ \E c \in Answers(state[d], text[d], PlanOf(d)) :
         /\ c.accepted
         /\ CanAdopt(state[d], c.text, c.adopt)
         /\ text' = [text EXCEPT ![d] = c.text]
         /\ state' = [state EXCEPT ![d] = Completed(@, c)]
    /\ UNCHANGED <<staged, own, edits>>

\* mutant: the staged version is not marked as pending.
StageUnmarked(d, plan) ==
    /\ Proposes(plan)
    /\ staged' = [staged EXCEPT ![d] =
                    MakeConfigVersion(text[d], ProposedParents(state[d], plan))]
    /\ UNCHANGED <<text, state, own, edits>>

\* The staging of PlanSyncConfigPost.
StageProposed(d, plan) ==
    /\ Proposes(plan)
    /\ staged' = [staged EXCEPT ![d] =
                    MakeConfigVersion(text[d], ProposedParents(state[d], plan))]
    /\ state' = [state EXCEPT ![d].pending = staged'[d].key]
    /\ UNCHANGED <<text, own, edits>>

\* PlanSyncConfigPublishGate lets through what the plan proposes.
Stage(d) ==
    /\ MayAct(d)
    /\ Posts < MaxPosts \/ quiet
    /\ StageProposed(d, PlanOf(d))

\* The staged record appears in the chat.
Post(d) ==
    /\ staged[d] # NoVersion
    /\ own' = [own EXCEPT ![d] = [install |-> d, seq |-> own[d].seq + 1,
                                  key |-> staged[d].key,
                                  lineage |-> staged[d].lineage]]
    /\ staged' = [staged EXCEPT ![d] = NoVersion]
    /\ UNCHANGED <<text, state, edits>>

\* ConfirmConfigReadBack
Confirmed(s, version) ==
    [s EXCEPT !.base = version.key, !.lineage = version.lineage,
              !.equiv = IF s.base.text = version.key.text THEN s.equiv ELSE {},
              !.pending = NoKey]

Confirm(d) ==
    /\ state[d].pending # NoKey
    /\ staged[d] = NoVersion
    /\ state' = [state EXCEPT ![d] = Confirmed(@, Version(own[d]))]
    /\ UNCHANGED <<text, staged, own, edits>>

\* Everyone stops editing, and each install finishes what it stages before
\* another one acts.
Hush ==
    /\ ~quiet
    /\ MaxTurns > 0
    /\ quiet' = TRUE
    /\ UNCHANGED <<text, state, staged, own, edits, turns>>

AllUpToDate == \A d \in Installs : PlanOf(d).verdict = "UpToDate"

Rest == quiet /\ AllUpToDate /\ UNCHANGED vars

Act(d) ==
    /\ quiet => turns < MaxTurns
    /\ Take(d) \/ Stage(d) \/ Post(d) \/ Confirm(d)
    /\ turns' = IF quiet THEN turns + 1 ELSE turns
    /\ UNCHANGED quiet

Next ==
    \/ \E d \in Installs : Act(d) \/ \E t \in Texts : Edit(d, t)
    \/ Hush
    \/ Rest

Spec == Init /\ [][Next]_vars

---------------------------------------------------------------------------
\* Values keep their shape, and a pending key is that of the version staged
\* or just posted (PlanSyncConfigPost marks what it stages).
TypeOK ==
    /\ text \in [Installs -> Texts]
    /\ state \in [Installs -> State]
    /\ own \in [Installs -> ConfigHead \cup {NoHead}]
    /\ \A d \in Installs :
         /\ staged[d] # NoVersion => state[d].pending = staged[d].key
         /\ state[d].pending \in {NoKey, staged[d].key, own[d].key}
         /\ own[d].install \in {0, d}
    /\ {edits, turns} \subseteq Nat
    /\ quiet \in BOOLEAN

\* No check ever refuses its inputs: whatever was adopted, merged, trimmed and
\* published, states and published lineages stay valid, and an own head is
\* never met without a base or a pending key (Classify and Plan return
\* Invalid, which no action of the user leaves).
PlansValid == \A d \in Installs : PlanOf(d).verdict # "Invalid"

\* The devices never all report UpToDate with different settings, the case
\* that OwnStale and the own head were added for.  Claimed for two installs, or
\* while no lineage was trimmed.
NoSilentDivergence ==
    AllUpToDate => \A d, e \in Installs : text[d] = text[e]

ChatHeads == {own[d] : d \in Installs} \ {NoHead}

\* When everyone is up to date, a device that joins now is offered their
\* settings and no others: MaximalConfigHeads of the chat hold one text, theirs.
\* True while no lineage was trimmed.
NewcomerAgrees ==
    AllUpToDate => \A h \in MaximalConfigHeads(ChatHeads) :
                     \A d \in Installs : h.key.text = text[d]

\* A fresh check of the same heads once choice c was written and adopted.
FreshPlan(d, c) ==
    Plan(c.text, Completed(state[d], c), Current(d), own[d])

Kept(verdict, c, next, fresh) ==
    IF verdict \in {"UpdateReady", "Adopt"}
    THEN fresh.verdict \in {"UpToDate", "LocalChanges"}
    ELSE /\ c.publish = Proposes(fresh)
         /\ c.publish => c.parents = KeysOf(ProposedParents(next, fresh))

PlanKept(d, plan) ==
    \A c \in Answers(state[d], text[d], plan) :
        /\ c.accepted
        /\ c.adopt # {} => CanAdopt(state[d], c.text, c.adopt)
        /\ Kept(plan.verdict, c, Completed(state[d], c), FreshPlan(d, c))

\* An answer to a review posts what the review said it would: every answer is
\* accepted, an update or an adoption leaves nothing to choose, and after a
\* choice a fresh check proposes a publish exactly when one was promised,
\* with the promised parents (PlanConfigChoice works this out by applying the
\* choice and planning again, CompleteSyncConfigApply compares).
PromiseKept == \A d \in Installs : PlanKept(d, PlanOf(d))

Knows(s, h) == h.key \in KnownKeys(s) \cup ToSet(s.lineage)

\* Install d is offered a head it accounted for before the step.
OffersKnown(d) ==
    \E h \in Current(d) \cap Current(d)' :
        Knows(state[d], h) /\ h \in PlanOf(d)'.offered

\* Version v is accounted for in state s, with all it was built on, except for
\* what a full lineage had no room for, which is the oldest.
Accounts(s, v) ==
    /\ v.key.gen <= s.base.gen
    /\ \A k \in {v.key} \cup ToSet(v.lineage) :
         \/ k \in KnownKeys(s) \cup ToSet(s.lineage)
         \/ /\ Len(s.lineage) = LineageLimit
            /\ \A o \in ToSet(s.lineage) : k.gen <= o.gen

\* The heads that install d has not seen.
New(d) == {h \in Current(d) : h.seq > state[d].seen[h.install]}

\* The versions of its text that a step of install d must account for: the base,
\* and the unknown heads that no other was built on.
Taken(d) ==
    {v \in {BaseVersion(state[d])}
           \cup {Version(h) : h \in {x \in MaximalConfigHeads(New(d)) : ~Knows(state[d], x)}} :
        v.key.text = text'[d]}

\* Settings are taken in for good: a head a device already accounts for is not
\* offered to it again once it takes another text in, although that replaces its
\* lineage and with it most of what it knows.  The heads PlanConfigChoice lists
\* as seen make up for it.  The answer that keeps the own text lists none, it
\* accounts for the others by a lineage, which is bounded.
TakesForGood ==
    [][\A d \in Installs : state[d]' # state[d] /\ ~Pending(d) => ~OffersKnown(d)]_vars

\* Of several versions of one text the base becomes the newest, with the history
\* of all (AdoptConfigHeads), or a version that one of them replaced could come
\* back as an update.
AdoptionKeepsHistory ==
    [][\A d \in Installs : state[d]' # state[d] /\ ~Pending(d) =>
         \A v \in Taken(d) : Accounts(state[d]', v)]_vars

HidesNothing(d, plan) ==
    plan.verdict = "UpdateReady" =>
      \A h \in MaximalConfigHeads(New(d)) :
         \/ Knows(state[d], h)
         \/ h.key.text \in {text[d]} \cup {o.key.text : o \in plan.offered}

\* An update is offered only when it is all there is: a head this device has
\* neither seen nor knows, that no other such head was built on, carries the
\* offered text or the one the device has.  Two concurrent changes must come as
\* a Conflict, or taking one would pass over the other.
UpdateHidesNothing == \A d \in Installs : HidesNothing(d, PlanOf(d))

\* Once nobody edits and one install acts at a time, everyone is up to date
\* after MaxTurns steps at the latest, whatever the answers are.  With Rest
\* the only step of such a state, and deadlock checked, nobody is stuck
\* before that either: a reachable step always exists, and the longest
\* sequence of them ends up to date.
Settles == quiet /\ turns = MaxTurns => AllUpToDate
=============================================================================
