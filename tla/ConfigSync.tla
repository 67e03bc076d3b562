---------------------------- MODULE ConfigSync ----------------------------
(***************************************************************************)
(* The decisions of purple_config_sync.cpp: what a device makes of the     *)
(* settings versions ("heads") that the installs of its sync space have    *)
(* published, and what the version it publishes itself says.               *)
(*                                                                         *)
(* A version key is a generation number and the fingerprint of the         *)
(* settings text.  A text and its fingerprint are the same value (SHA-256  *)
(* is taken to be injective); install ids are numbers, because the code    *)
(* breaks ties by their string order.  All heads are of one space.  The    *)
(* state is of an install that has joined it: a preview before joining     *)
(* differs only in having no heads of its own.                             *)
(***************************************************************************)
EXTENDS Integers, FiniteSets, Sequences, SequencesExt

CONSTANTS
    Installs,      \* install ids
    Texts,         \* settings texts
    NoText,        \* the fingerprint of an empty key
    LineageLimit,  \* kLineageLimit, 64 in the code
    EquivLimit     \* equivalent keys kept, 16 in the code

ASSUME ConfigSyncAssumption ==
    /\ Installs \subseteq Nat \ {0} /\ IsFiniteSet(Installs)
    /\ NoText \notin Texts
    /\ LineageLimit \in Nat \ {0, 1, 2}  \* OwnStale skips two entries
    /\ EquivLimit \in Nat \ {0}

Key == [gen : Nat \ {0}, text : Texts]
NoKey == [gen |-> 0, text |-> NoText]  \* the empty QString
Lineage == {s \in Seq(Key) : Len(s) <= LineageLimit}

ConfigHead == [install : Installs, seq : Nat \ {0}, key : Key, lineage : Lineage]
NoHead == [install |-> 0, seq |-> 0, key |-> NoKey, lineage |-> <<>>]

\* ConfigSyncState; seen[i] is 0 for an install seenSeq does not list.
State == [install : Installs, base : Key \cup {NoKey}, lineage : Lineage,
          equiv : SUBSET Key, pending : Key \cup {NoKey},
          seen : [Installs -> Nat], unpublished : BOOLEAN]

InitialState(i) ==
    [install |-> i, base |-> NoKey, lineage |-> <<>>, equiv |-> {},
     pending |-> NoKey, seen |-> [j \in Installs |-> 0],
     unpublished |-> FALSE]

---------------------------------------------------------------------------
(* Lineages and orders.                                                    *)

ValidLineage(key, lineage) ==
    /\ Len(lineage) <= LineageLimit
    /\ \A k \in ToSet(lineage) : k.gen < key.gen
    /\ IsInjective(lineage)

StateValid(s) ==
    /\ s.base = NoKey => s.lineage = <<>>
    /\ s.base # NoKey => ValidLineage(s.base, s.lineage)
    /\ Cardinality(s.equiv) <= EquivLimit

\* Generation, then sequence, both descending, then install.  The code's
\* last resort, the key, never decides: a plan has one head per install.
Precedes(a, b) ==
    \/ a.key.gen > b.key.gen
    \/ a.key.gen = b.key.gen /\ a.seq > b.seq
    \/ a.key.gen = b.key.gen /\ a.seq = b.seq /\ a.install < b.install

First(heads) == CHOOSE h \in heads : \A o \in heads \ {h} : Precedes(h, o)

\* mutant: only the first head of all.
RepresentativesFirst(heads) == IF heads = {} THEN {} ELSE {First(heads)}

\* One head for each content, the first of it.
Representatives(heads) ==
    {h \in heads : \A o \in heads \ {h} :
                     o.key.text = h.key.text => Precedes(h, o)}

\* The members of S, each at its place in the order R.
Ranked(S, R) ==
    [r \in 1..Cardinality(S) |->
       CHOOSE x \in S : Cardinality({y \in S : <<y, x>> \in R}) = r - 1]

\* The places of keys in lines of keys.
Places(lines) == UNION {{n} \X DOMAIN lines[n] : n \in DOMAIN lines}
KeyAt(lines, p) == lines[p[1]][p[2]]
Earlier(p, q) == p[1] < q[1] \/ (p[1] = q[1] /\ p[2] < q[2])

\* Where a key stands for the first time (Has).
NewPlaces(lines) ==
    {p \in Places(lines) : \A q \in Places(lines) :
                             Earlier(q, p) => KeyAt(lines, q) # KeyAt(lines, p)}

\* std::stable_sort of the keys at these places by descending generation, after
\* those that lead.
SortsBefore(lines, lead, p, q) ==
    \/ p \in lead /\ q \notin lead
    \/ /\ p \in lead \/ q \notin lead
       /\ \/ KeyAt(lines, p).gen > KeyAt(lines, q).gen
          \/ KeyAt(lines, p).gen = KeyAt(lines, q).gen /\ Earlier(p, q)

ByGeneration(lines, places, lead) ==
    LET before == {pq \in places \X places : SortsBefore(lines, lead, pq[1], pq[2])}
        sorted == Ranked(places, before)
    IN  [r \in DOMAIN sorted |-> KeyAt(lines, sorted[r])]

Truncated(keys) == SubSeq(keys, 1, IF Len(keys) < LineageLimit
                                   THEN Len(keys) ELSE LineageLimit)

---------------------------------------------------------------------------
(* Classify: a set of outcomes, each a head with its kind.                 *)

HeldByAnother(h, o) ==
    o.install # h.install /\ Contains(o.lineage, h.key)

MaximalConfigHeads(heads) ==
    {h \in heads : \A o \in heads : ~HeldByAnother(h, o)}

UnseenHeads(s, heads) ==
    LET unseen == {h \in heads : /\ h.install # s.install
                                 /\ h.seq > s.seen[h.install]}
    IN  {h \in unseen : \A o \in unseen :
                          o.install = h.install => o.seq <= h.seq}

Readable(selected) ==
    {h \in selected : /\ \A o \in selected \ {h} : o.install # h.install
                      /\ ValidLineage(h.key, h.lineage)}

KnownKeys(s) == (s.equiv \cup {s.base}) \ {NoKey}

MeetsKnown(s, h) == \E k \in KnownKeys(s) : Contains(h.lineage, k)

KindOf(text, s, h) ==
    LET clean == s.base.text = text
    IN  IF h.key \in KnownKeys(s) \cup ToSet(s.lineage) THEN "Stale"
        ELSE IF h.key.text = text THEN "Same"
        ELSE IF \/ s.pending # NoKey /\ Contains(h.lineage, s.pending)
                \/ clean /\ MeetsKnown(s, h) THEN "Ahead"
        ELSE IF MeetsKnown(s, h) THEN "Concurrent"
        ELSE "Unrelated"

Classify(text, s, heads) ==
    LET selected == UnseenHeads(s, heads)
        readable == Readable(selected)
        maximal == MaximalConfigHeads(readable)
        contents == {h.key.text : h \in maximal}
        outcome(h, kind) == [head |-> h, kind |-> kind]
    IN  [outcomes |-> {outcome(h, "Invalid") : h \in selected \ readable}
                 \cup {outcome(h, "Stale") : h \in readable \ maximal}
                 \cup {outcome(h, KindOf(text, s, h)) : h \in maximal},
         split |-> Cardinality(contents) > 1 /\ text \notin contents]

HeadsOf(outcomes, kinds) ==
    {o.head : o \in {x \in outcomes : x.kind \in kinds}}

---------------------------------------------------------------------------
(* Plan.  ownHead is this install's newest record, or NoHead.              *)

\* mutant: a pending key does not count, as if only a base showed a history.
OwnHeadValidWithBase(s, ownHead) ==
    /\ ownHead.install = s.install
    /\ ValidLineage(ownHead.key, ownHead.lineage)
    /\ s.base # NoKey

OwnHeadValid(s, ownHead) ==
    /\ ownHead.install = s.install
    /\ ValidLineage(ownHead.key, ownHead.lineage)
    /\ s.base # NoKey \/ s.pending # NoKey

\* The record was perhaps trimmed from a full lineage.
PerhapsTrimmed(s, ownHead) ==
    /\ Len(s.lineage) >= LineageLimit
    /\ \A i \in 3..Len(s.lineage) : ownHead.key.gen <= s.lineage[i].gen

\* mutant: the planner without own heads.
OwnNeverStale(s, ownHead) == FALSE

OwnStale(s, ownHead) ==
    /\ s.base # NoKey
    /\ ownHead.key \notin KnownKeys(s) \cup ToSet(s.lineage)
    /\ ~PerhapsTrimmed(s, ownHead)

Verdict(text, s, heads, ownHead, kinds, split, ambiguous) ==
    LET ownStale == ownHead # NoHead /\ OwnStale(s, ownHead)
        others == \E h \in heads : h.install # s.install
        basePublished == \E h \in heads : h.key = s.base
    IN  IF \/ ~StateValid(s) \/ "Invalid" \in kinds
           \/ ownHead # NoHead /\ ~OwnHeadValid(s, ownHead) THEN "Invalid"
        ELSE IF s.pending # NoKey THEN "Pending"
        ELSE IF "Concurrent" \in kinds \/ split THEN "Conflict"
        ELSE IF "Unrelated" \in kinds THEN "Choose"
        ELSE IF ambiguous THEN "Conflict"
        ELSE IF "Ahead" \in kinds THEN "UpdateReady"
        ELSE IF "Same" \in kinds THEN "Adopt"
        ELSE IF s.base = NoKey /\ ~others THEN "Empty"
        ELSE IF /\ s.base # NoKey
                /\ \/ s.base.text # text
                   \/ ownStale
                   \/ s.unpublished /\ ownHead = NoHead /\ ~basePublished
             THEN "LocalChanges"
        ELSE "UpToDate"

\* The parts of Plan, each given what the one after it computes.
PlanOn(verdict, cl, candidates, s, ownHead) ==
    [verdict |-> verdict,
     outcomes |-> cl.outcomes,
     offered |-> CASE verdict \in {"Conflict", "Choose"} -> candidates
                   [] verdict = "UpdateReady" ->
                        {First(HeadsOf(cl.outcomes, {"Ahead"}))}
                   [] OTHER -> {},
     same |-> IF verdict = "Invalid" THEN {}
              ELSE HeadsOf(cl.outcomes, {"Same"}),
     ownHead |-> ownHead,
     ownStale |-> /\ verdict # "Invalid"
                  /\ ownHead # NoHead
                  /\ OwnStale(s, ownHead)]

PlanFor(text, s, heads, ownHead, cl, candidates) ==
    LET several == Cardinality(candidates) > 1
    IN  PlanOn(Verdict(text, s, heads, ownHead, {o.kind : o \in cl.outcomes},
                       cl.split /\ several, several),
               cl, candidates, s, ownHead)

PlanClassified(text, s, heads, ownHead, cl) ==
    PlanFor(text, s, heads, ownHead, cl,
        Representatives(
            HeadsOf(cl.outcomes, {"Ahead", "Concurrent", "Unrelated"})))

Plan(text, s, heads, ownHead) ==
    PlanClassified(text, s, heads, ownHead, Classify(text, s, heads))

---------------------------------------------------------------------------
(* AdoptConfigHeads: the file is known to hold text, and so do the heads.  *)

Version(head) == [key |-> head.key, lineage |-> head.lineage]
BaseVersion(s) == [key |-> s.base, lineage |-> s.lineage]

CanAdopt(s, text, heads) ==
    /\ heads # {}
    /\ s.pending = NoKey
    /\ StateValid(s)
    /\ \A h \in heads : /\ h.install # s.install
                        /\ ValidLineage(h.key, h.lineage)
                        /\ h.key.text = text

\* The versions recorded: the base when it has the text, and the heads.
AdoptedVersions(s, text, heads) ==
    LET sorted == Ranked(heads, {hs \in heads \X heads : Precedes(hs[1], hs[2])})
    IN  (IF s.base.text = text THEN <<BaseVersion(s)>> ELSE <<>>)
        \o [i \in DOMAIN sorted |-> Version(sorted[i])]

\* The first of the highest generation.
Newest(versions) ==
    LET top == {i \in DOMAIN versions : \A j \in DOMAIN versions :
                  versions[j].key.gen <= versions[i].key.gen}
    IN  versions[CHOOSE i \in top : \A j \in top : i <= j]

\* mutant: the history of the newest version only.
MergedLineageOfTop(top, versions) == top.lineage

MergedLineage(top, versions) ==
    LET lines == [n \in 0..Len(versions) |->
                    IF n = 0 THEN top.lineage
                    ELSE versions[n].lineage \o
                         (IF versions[n].key = top.key THEN <<>> ELSE <<versions[n].key>>)]
        places == {p \in Places(lines) : p[1] = 0} \cup NewPlaces(lines)
    IN  Truncated(ByGeneration(lines, places, {}))

\* Keys of one text have different generations, so no ties.
NewestKeys(keys) ==
    {k \in keys : Cardinality({x \in keys : x.gen > k.gen}) < EquivLimit}

RaiseSeen(s, heads) ==
    [s EXCEPT !.seen = [i \in Installs |->
        Max({s.seen[i]} \cup {h.seq : h \in {x \in heads : x.install = i}})]]

AdoptConfigHeads(s, text, heads) ==
    LET versions == AdoptedVersions(s, text, heads)
        top == Newest(versions)
        same == IF s.base.text = text THEN s.equiv ELSE {}
        keys == same \cup {v.key : v \in ToSet(versions)}
    IN  [RaiseSeen(s, heads)
            EXCEPT !.base = top.key,
                   !.lineage = MergedLineage(top, versions),
                   !.equiv = NewestKeys(keys \ {top.key})]

---------------------------------------------------------------------------
(* MakeConfigVersion, for the one or two parents its callers pass.         *)

MakeConfigVersion(text, parents) ==
    LET distinct == IF Len(parents) = 2 /\ parents[1].key = parents[2].key
                    THEN <<parents[1]>> ELSE parents
        gens == {p.key.gen : p \in ToSet(distinct)}
        lines == [n \in DOMAIN distinct |-> <<distinct[n].key>> \o distinct[n].lineage]
        direct == {<<n, 1>> : n \in DOMAIN distinct}
        places == direct \cup NewPlaces(lines)
        others == {p \in places : \A q \in direct : KeyAt(lines, p) # KeyAt(lines, q)}
    IN  [key |-> [gen |-> Max(gens \cup {0}) + 1, text |-> text],
         lineage |-> IF Cardinality(places) > LineageLimit
                     THEN Truncated(ByGeneration(lines, direct \cup others, direct))
                     ELSE ByGeneration(lines, places, {})]

---------------------------------------------------------------------------
(* PlanConfigChoice.  pick is the key of an offered head, or NoKey to keep *)
(* this device's text.                                                     *)

\* Keeping the text publishes it as it stands and adopts nothing.
Proposes(plan) ==
    \/ plan.verdict \in {"Empty", "LocalChanges"}
    \/ plan.verdict \in {"Choose", "Conflict"} /\ plan.same = {}

ProposedParents(s, plan) ==
    LET first == First(plan.offered)
        rest == plan.offered \ {first}
        baseSlot == /\ plan.offered # {} /\ rest = {}
                    /\ s.base \notin {NoKey, first.key}
                    /\ ~Contains(first.lineage, s.base)
    IN  CASE plan.verdict = "Empty" -> <<>>
          [] plan.verdict = "LocalChanges" /\ plan.ownStale ->
               <<BaseVersion(s), Version(plan.ownHead)>>
          [] plan.verdict = "LocalChanges" /\ ~plan.ownStale ->
               <<BaseVersion(s)>>
          [] rest # {} -> <<Version(first), Version(First(rest))>>
          [] baseSlot -> <<Version(first), BaseVersion(s)>>
          [] OTHER -> <<Version(first)>>

KeysOf(parents) == {p.key : p \in ToSet(parents)}

\* The answers a plan may be given.
Picks(plan) ==
    LET keys == {h.key : h \in plan.offered}
    IN  CASE plan.verdict = "UpdateReady" -> keys
          [] plan.verdict \in {"Choose", "Conflict"} -> keys \cup {NoKey}
          [] plan.verdict \in {"Adopt", "LocalChanges", "Empty"} -> {NoKey}
          [] OTHER -> {}

\* The heads adopted and those only marked seen, once the file holds text.
Adopted(plan, text) ==
    {h \in HeadsOf(plan.outcomes, {"Same", "Ahead", "Concurrent", "Unrelated"}) :
        h.key.text = text}

\* mutant: nothing is recorded beside the adopted heads.
BesideNothing(plan, adopt) == {}

\* mutant: the Same heads beside an update are forgotten.
BesideStaleOnly(plan, adopt) ==
    {h \in HeadsOf(plan.outcomes, {"Stale"}) :
        \A a \in adopt : a.install # h.install}

Beside(plan, adopt) ==
    LET kinds == IF plan.verdict = "UpdateReady" THEN {"Stale", "Same"}
                 ELSE {"Stale"}
    IN  {h \in HeadsOf(plan.outcomes, kinds) :
           \A a \in adopt : a.install # h.install}

KeepChoice(s, text, plan) ==
    [accepted |-> TRUE, text |-> text, adopt |-> {}, seen |-> {},
     publish |-> TRUE, parents |-> KeysOf(ProposedParents(s, plan))]

\* The state once the file holds text.
Recorded(s, text, adopt, seen) ==
    RaiseSeen(IF adopt = {} THEN s ELSE AdoptConfigHeads(s, text, adopt), seen)

\* An answer to a choice promises what a fresh plan on its result proposes.
Promising(choice, pick, next, fresh) ==
    LET publish == fresh.verdict \in {"LocalChanges", "Choose", "Conflict"}
    IN  [choice EXCEPT
            !.accepted = /\ @
                         /\ publish => Proposes(fresh)
                         /\ pick = NoKey => publish,
            !.publish = publish,
            !.parents = IF publish THEN KeysOf(ProposedParents(next, fresh))
                        ELSE {}]

Promised(s, plan, pick, choice) ==
    LET next == Recorded(s, choice.text, choice.adopt, choice.seen)
        heads == {o.head : o \in plan.outcomes}
    IN  Promising([choice EXCEPT !.accepted = CanAdopt(s, choice.text, choice.adopt)],
                  pick, next, Plan(choice.text, next, heads, plan.ownHead))

TakeChoice(s, text, plan, pick) ==
    LET written == IF pick = NoKey THEN text ELSE pick.text
        adopt == Adopted(plan, written)
        choice == [accepted |-> TRUE, text |-> written, adopt |-> adopt,
                   seen |-> Beside(plan, adopt),
                   publish |-> FALSE, parents |-> {}]
    IN  IF plan.verdict \in {"Choose", "Conflict"}
        THEN Promised(s, plan, pick, choice)
        ELSE choice

PlanConfigChoice(s, text, plan, pick) ==
    IF pick = NoKey /\ Proposes(plan)
    THEN KeepChoice(s, text, plan)
    ELSE TakeChoice(s, text, plan, pick)

\* One choice for each answer the plan may be given.
Answers(s, text, plan) ==
    {PlanConfigChoice(s, text, plan, pick) : pick \in Picks(plan)}
=============================================================================
