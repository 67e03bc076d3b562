---------------------- MODULE SyncLocalStateProofs ----------------------
(***************************************************************************)
(* What the operations of SyncLocalState keep: a state that the parser     *)
(* accepts is left as one by every operation whose guard it passes, and a  *)
(* complete read that shows anything has a head.  SyncLedger and SyncAuto  *)
(* rest on these.                                                          *)
(***************************************************************************)
EXTENDS SyncLocalState, FiniteSetTheorems, TLAPS

---------------------------------------------------------------------------
(* Finite sets.                                                            *)

\* An integer measure of a non-empty finite set has a least value: strict
\* inclusion is well founded on the finite subsets, and the smallest of the
\* sets of the elements that measure no more than a given one belongs to an
\* element of least measure.
LEMMA LeastExists ==
  ASSUME NEW S, IsFiniteSet(S), S # {}, NEW f \in [S -> Int]
  PROVE  \E x \in S : \A y \in S : f[x] <= f[y]
<1> DEFINE UpTo(x) == {y \in S : f[y] <= f[x]}
           T == {UpTo(x) : x \in S}
<1>1. IsWellFoundedOn(StrictSubsetOrdering(S), FiniteSubsetsOf(S))
  BY FS_StrictSubsetOrderingWellFounded
<1>2. T \subseteq FiniteSubsetsOf(S)
  BY FS_FiniteSubsetsOfFinite
<1>3. T # {}
  <2> HIDE DEF UpTo
  <2> QED
    OBVIOUS
<1>4. \E D \in T : \A E \in T : <<E, D>> \notin StrictSubsetOrdering(S)
  <2> HIDE DEF T
  <2> QED
    BY <1>1, <1>2, <1>3, WFMin
<1>5. PICK x \in S : \A y \in S : <<UpTo(y), UpTo(x)>> \notin StrictSubsetOrdering(S)
  BY <1>4
<1>6. \A y \in S : f[x] <= f[y]
  <2>1. SUFFICES ASSUME NEW y \in S, f[y] < f[x] PROVE FALSE
    OBVIOUS
  <2>2. UpTo(y) \subseteq UpTo(x) /\ x \in UpTo(x) /\ x \notin UpTo(y)
    BY <2>1
  <2>3. <<UpTo(y), UpTo(x)>> \in StrictSubsetOrdering(S)
    <3>1. UpTo(y) \in SUBSET S /\ UpTo(x) \in SUBSET S
      OBVIOUS
    <3>2. UpTo(y) # UpTo(x)
      BY <2>2
    <3> HIDE DEF UpTo
    <3> QED
      BY <2>2, <3>1, <3>2 DEF StrictSubsetOrdering
  <2> QED
    BY <1>5, <2>3
<1> QED
  BY <1>6

\* A set with room for one more element still fits after it is added.
LEMMA AddFits ==
  ASSUME NEW S, IsFiniteSet(S), NEW n \in Nat, Cardinality(S) < n, NEW x
  PROVE  IsFiniteSet(S \cup {x}) /\ Cardinality(S \cup {x}) <= n
<1>1. Cardinality(S) \in Nat
  BY FS_CardinalityType
<1>2. /\ IsFiniteSet(S \cup {x})
      /\ \/ Cardinality(S \cup {x}) = Cardinality(S)
         \/ Cardinality(S \cup {x}) = Cardinality(S) + 1
  BY FS_AddElement
<1> QED
  BY <1>1, <1>2

---------------------------------------------------------------------------
(* Lemmas on the operations of the local state.                            *)

\* A non-empty finite set of records has an oldest one.
LEMMA OldestExists ==
  ASSUME NEW R \in SUBSET Record, IsFiniteSet(R), R # {}
  PROVE  Oldest(R) # {}
<1> DEFINE f == [r \in R |-> r.seq]
<1>1. f \in [R -> Int]
  BY DEF Record
<1>2. PICK r \in R : \A q \in R : f[r] <= f[q]
  BY <1>1, LeastExists
<1> QED
  BY <1>2 DEF Oldest

\* Appending to the issued log keeps it within its limit and keeps the record.
LEMMA AppendFits ==
  ASSUME NEW s \in LocalState, IssuedValid(s), NEW rec \in Record
  PROVE  /\ IsFiniteSet(AppendIssued(s, rec).issued)
         /\ Cardinality(AppendIssued(s, rec).issued) <= MaxIssued
         /\ rec \in AppendIssued(s, rec).issued
         /\ AppendIssued(s, rec).issued \subseteq s.issued \cup {rec}
<1> DEFINE kept == IF Cardinality(s.issued) = MaxIssued
                   THEN s.issued \ Oldest(s.issued) ELSE s.issued
<1>1. AppendIssued(s, rec).issued = kept \cup {rec}
  BY DEF AppendIssued, LocalState
<1>2. /\ IsFiniteSet(s.issued) /\ s.issued \in SUBSET Record
      /\ Cardinality(s.issued) <= MaxIssued /\ MaxIssued \in Nat \ {0}
  BY LocalStateAssumption DEF IssuedValid, LocalState
<1>3. Cardinality(s.issued) \in Nat
  BY <1>2, FS_CardinalityType
<1>4. IsFiniteSet(kept) /\ Cardinality(kept) \in Nat /\ Cardinality(kept) < MaxIssued
  <2>1. CASE Cardinality(s.issued) = MaxIssued
    <3>1. s.issued # {}
      BY <1>2, <2>1, FS_EmptySet
    <3>2. PICK r \in s.issued : r \in Oldest(s.issued)
      BY <1>2, <3>1, OldestExists DEF Oldest
    <3>3. IsFiniteSet(s.issued \ {r}) /\ Cardinality(s.issued \ {r}) = MaxIssued - 1
      BY <1>2, <2>1, <3>2, FS_RemoveElement
    <3>4. kept \subseteq s.issued \ {r}
      BY <2>1, <3>2
    <3>5. /\ IsFiniteSet(kept)
          /\ Cardinality(kept) <= Cardinality(s.issued \ {r})
      BY <3>3, <3>4, FS_Subset
    <3>6. Cardinality(kept) \in Nat
      BY <3>5, FS_CardinalityType
    <3> QED
      BY <1>2, <3>3, <3>5, <3>6
  <2>2. CASE Cardinality(s.issued) # MaxIssued
    BY <1>2, <1>3, <2>2
  <2> QED
    BY <2>1, <2>2
<1>5. IsFiniteSet(kept \cup {rec}) /\ Cardinality(kept \cup {rec}) <= MaxIssued
  <2> HIDE DEF kept
  <2> QED
    BY <1>2, <1>4, AddFits
<1> QED
  BY <1>1, <1>5 DEF Oldest

\* Putting a message into the ledger keeps it finite, keyed by id and, when
\* the id is new, within the limit its caller has checked.
LEMMA PutFits ==
  ASSUME NEW s \in LocalState, OwnValid(s), NEW id \in Nat \ {0},
         NEW rec \in Record,
         AtId(s, id) = {} => Cardinality(s.own) < MaxOwn
  PROVE  /\ IsFiniteSet(Put(s, id, rec).own)
         /\ Cardinality(Put(s, id, rec).own) <= MaxOwn
         /\ \A m1, m2 \in Put(s, id, rec).own : m1.id = m2.id => m1 = m2
         /\ Put(s, id, rec).own \subseteq s.own \cup {[id |-> id, rec |-> rec]}
         /\ [id |-> id, rec |-> rec] \in Put(s, id, rec).own
<1> DEFINE new == [id |-> id, rec |-> rec]
           rest == s.own \ AtId(s, id)
<1>1. Put(s, id, rec).own = rest \cup {new}
  BY DEF Put, LocalState
<1>2. /\ IsFiniteSet(s.own) /\ Cardinality(s.own) <= MaxOwn /\ MaxOwn \in Nat
      /\ s.own \in SUBSET Message
  BY LocalStateAssumption DEF OwnValid, LocalState
<1>3. Cardinality(s.own) \in Nat
  BY <1>2, FS_CardinalityType
<1>4. IsFiniteSet(rest) /\ Cardinality(rest) \in Nat /\ Cardinality(rest) < MaxOwn
  <2>1. CASE AtId(s, id) = {}
    <3>1. rest = s.own
      BY <2>1
    <3> QED
      BY <1>2, <1>3, <2>1, <3>1
  <2>2. CASE AtId(s, id) # {}
    <3>1. PICK m \in s.own : m \in AtId(s, id)
      BY <2>2 DEF AtId
    <3>2. IsFiniteSet(s.own \ {m}) /\ Cardinality(s.own \ {m}) = Cardinality(s.own) - 1
      BY <1>2, <3>1, FS_RemoveElement
    <3>3. IsFiniteSet(rest) /\ Cardinality(rest) <= Cardinality(s.own \ {m})
      BY <3>1, <3>2, FS_Subset
    <3>4. Cardinality(rest) \in Nat
      BY <3>3, FS_CardinalityType
    <3> QED
      BY <1>2, <1>3, <3>2, <3>3, <3>4
  <2> QED
    BY <2>1, <2>2
<1>5. IsFiniteSet(rest \cup {new}) /\ Cardinality(rest \cup {new}) <= MaxOwn
  <2> HIDE DEF rest, new
  <2> QED
    BY <1>2, <1>4, AddFits
<1>6. \A m1, m2 \in rest \cup {new} : m1.id = m2.id => m1 = m2
  BY DEF OwnValid, AtId
<1> QED
  BY <1>1, <1>5, <1>6
---------------------------------------------------------------------------
(* Each operation maps a valid state to a valid state.                     *)

\* Reserving the next sequence and logging the record issued under it.
LEMMA ReserveSerializes ==
  ASSUME NEW s \in LocalState, Serializes(s), s.confirmedSeq <= s.seq,
         CanReserve(s), s.pendingSeq = 0,
         NEW p \in Payloads, NEW rec, NEW r,
         r = ReserveVersion(s, p), rec = PendingRecord(r)
  PROVE  /\ rec \in Record /\ rec.seq = s.seq + 1
         /\ AppendIssued(r, rec) \in LocalState
         /\ Serializes(AppendIssued(r, rec))
         /\ rec \in AppendIssued(r, rec).issued
         /\ AppendIssued(r, rec).issued \subseteq s.issued \cup {rec}
         /\ AppendIssued(r, rec).own = s.own
         /\ AppendIssued(r, rec).confirmedSeq = s.confirmedSeq
         /\ AppendIssued(r, rec).seq = s.seq + 1
         /\ AppendIssued(r, rec).pendingSeq = s.seq + 1
         /\ AppendIssued(r, rec).ownHash = p
         /\ AppendIssued(r, rec).pendingKey = p
         /\ AppendIssued(r, rec).version = s.version
<1> DEFINE n == AppendIssued(r, rec)
<1>1. /\ r \in LocalState
      /\ r.version = s.version /\ r.chat = s.chat /\ r.confirmedSeq = s.confirmedSeq
      /\ r.issued = s.issued /\ r.own = s.own /\ r.seq = s.seq + 1
      /\ r.pendingSeq = s.seq + 1 /\ r.abandonedSeq = 0
      /\ r.ownHash = p /\ r.pendingKey = p
  <2>1. s.seq + 1 \in Nat
    BY DEF LocalState
  <2>2. r = [s EXCEPT !.seq = s.seq + 1, !.pendingSeq = s.seq + 1,
                      !.abandonedSeq = 0, !.ownHash = p, !.pendingKey = p]
    BY DEF ReserveVersion, ReserveSyncSeq, LocalState
  <2> QED
    BY <2>1, <2>2 DEF LocalState
<1>2. rec \in Record /\ rec.seq = s.seq + 1 /\ s.seq \in Nat /\ s.confirmedSeq \in Nat
  BY <1>1 DEF PendingRecord, Record, LocalState
<1>3. IssuedValid(r)
  BY <1>1 DEF Serializes, IssuedValid, LocalState, Record
<1>4. /\ IsFiniteSet(n.issued) /\ Cardinality(n.issued) <= MaxIssued
      /\ rec \in n.issued /\ n.issued \subseteq s.issued \cup {rec}
  BY <1>1, <1>2, <1>3, AppendFits
<1>5. /\ n.version = s.version /\ n.chat = s.chat /\ n.confirmedSeq = s.confirmedSeq
      /\ n.own = s.own /\ n.seq = s.seq + 1
      /\ n.pendingSeq = s.seq + 1 /\ n.abandonedSeq = 0
      /\ n.ownHash = p /\ n.pendingKey = p
  BY <1>1 DEF AppendIssued, LocalState
<1>6. n \in LocalState
  BY <1>1, <1>2, <1>4 DEF AppendIssued, LocalState
<1>7. CountersValid(n)
  <2>2. s.seq + 1 <= MaxSeq /\ p # NoPayload
    BY <1>2, LocalStateAssumption DEF CanReserve
  <2> HIDE DEF n
  <2> QED
    BY <1>2, <1>5, <2>2 DEF CountersValid
<1>8. IssuedValid(n)
  BY <1>2, <1>4, <1>5 DEF Serializes, IssuedValid, LocalState, Record
<1>9. OwnValid(n) /\ ChatValid(n)
  BY <1>5 DEF Serializes, OwnValid, ChatValid
<1> HIDE DEF n
<1> QED
  BY <1>2, <1>4, <1>5, <1>6, <1>7, <1>8, <1>9 DEF Serializes, n

\* Confirming the pending record and entering its message into the ledger.
LEMMA ConfirmSerializes ==
  ASSUME NEW s \in LocalState, Serializes(s), s.pendingSeq # 0,
         NEW id \in Nat \ {0}, NEW rec \in Record, NEW c,
         c = ConfirmReadBack(s), CanRecordConfirmed(c, id, rec)
  PROVE  /\ Put(c, id, rec) \in LocalState
         /\ Serializes(Put(c, id, rec))
         /\ Put(c, id, rec).own \subseteq s.own \cup {[id |-> id, rec |-> rec]}
         /\ Put(c, id, rec).issued = s.issued
         /\ Put(c, id, rec).seq = s.seq
         /\ Put(c, id, rec).confirmedSeq = s.seq
         /\ Put(c, id, rec).pendingSeq = 0
         /\ Put(c, id, rec).pendingKey = NoPayload
         /\ Put(c, id, rec).version = s.version
         /\ Put(c, id, rec).ownHash = s.ownHash
         /\ [id |-> id, rec |-> rec] \in Put(c, id, rec).own
<1> DEFINE n == Put(c, id, rec)
<1>1. /\ c \in LocalState
      /\ c.version = s.version /\ c.chat = s.chat /\ c.seq = s.seq
      /\ c.confirmedSeq = s.seq /\ c.pendingSeq = 0
      /\ c.abandonedSeq = s.abandonedSeq /\ c.ownHash = s.ownHash
      /\ c.issued = s.issued /\ c.own = s.own /\ c.pendingKey = NoPayload
  BY DEF ConfirmReadBack, LocalState
<1>2. s.abandonedSeq = 0 /\ s.seq \in Nat /\ s.confirmedSeq \in Nat /\ s.confirmedSeq < s.seq
  BY DEF Serializes, CountersValid, LocalState
<1>3. OwnValid(c)
  BY <1>1, <1>2 DEF Serializes, OwnValid, LocalState, Message, Record
<1>4. /\ IsFiniteSet(n.own) /\ Cardinality(n.own) <= MaxOwn
      /\ \A m1, m2 \in n.own : m1.id = m2.id => m1 = m2
      /\ n.own \subseteq s.own \cup {[id |-> id, rec |-> rec]}
      /\ [id |-> id, rec |-> rec] \in n.own
  BY <1>1, <1>3, PutFits DEF CanRecordConfirmed
<1>5. /\ n.version = s.version /\ n.chat = s.chat /\ n.seq = s.seq
      /\ n.confirmedSeq = s.seq /\ n.pendingSeq = 0
      /\ n.abandonedSeq = s.abandonedSeq /\ n.ownHash = s.ownHash
      /\ n.issued = s.issued /\ n.pendingKey = NoPayload
  BY <1>1 DEF Put, LocalState
<1>6. n \in LocalState
  BY <1>1, <1>4 DEF Put, LocalState, Message
<1>7. CountersValid(n) /\ IssuedValid(n) /\ ChatValid(n)
  BY <1>2, <1>5 DEF Serializes, CountersValid, IssuedValid, ChatValid
<1>8. rec.seq = s.seq
  BY <1>1 DEF CanRecordConfirmed
<1>9. OwnValid(n)
  BY <1>1, <1>3, <1>4, <1>5, <1>8, <1>2 DEF OwnValid, LocalState, Message, Record
<1> HIDE DEF n
<1> QED
  BY <1>4, <1>5, <1>6, <1>7, <1>9 DEF Serializes, n

\* Adopting a copy of an issued record.
LEMMA AdoptSerializes ==
  ASSUME NEW s \in LocalState, Serializes(s),
         NEW id \in Nat \ {0}, NEW rec \in Record, CanAdoptIssued(s, id, rec)
  PROVE  /\ Put(s, id, rec) \in LocalState
         /\ Serializes(Put(s, id, rec))
         /\ Put(s, id, rec).own \subseteq s.own \cup {[id |-> id, rec |-> rec]}
         /\ Put(s, id, rec).issued = s.issued
         /\ Put(s, id, rec).seq = s.seq
         /\ Put(s, id, rec).confirmedSeq = s.confirmedSeq
         /\ Put(s, id, rec).pendingSeq = s.pendingSeq
         /\ Put(s, id, rec).ownHash = s.ownHash
         /\ Put(s, id, rec).pendingKey = s.pendingKey
<1> DEFINE n == Put(s, id, rec)
<1>1. /\ IsFiniteSet(n.own) /\ Cardinality(n.own) <= MaxOwn
      /\ \A m1, m2 \in n.own : m1.id = m2.id => m1 = m2
      /\ n.own \subseteq s.own \cup {[id |-> id, rec |-> rec]}
  BY PutFits DEF CanAdoptIssued, Serializes
<1>2. /\ n.version = s.version /\ n.chat = s.chat /\ n.seq = s.seq
      /\ n.confirmedSeq = s.confirmedSeq /\ n.pendingSeq = s.pendingSeq
      /\ n.abandonedSeq = s.abandonedSeq /\ n.ownHash = s.ownHash
      /\ n.issued = s.issued /\ n.pendingKey = s.pendingKey
  BY DEF Put, LocalState
<1>3. n \in LocalState
  BY <1>1 DEF Put, LocalState, Message
<1>4. CountersValid(n) /\ IssuedValid(n) /\ ChatValid(n)
  BY <1>2 DEF Serializes, CountersValid, IssuedValid, ChatValid
<1>5. OwnValid(n)
  BY <1>1, <1>2 DEF OwnValid, CanAdoptIssued, Serializes
<1> HIDE DEF n
<1> QED
  BY <1>1, <1>2, <1>3, <1>4, <1>5 DEF Serializes, n

\* Dropping a ledger entry.
LEMMA RemoveSerializes ==
  ASSUME NEW s \in LocalState, Serializes(s), NEW id
  PROVE  /\ RemoveAbsent(s, id) \in LocalState
         /\ Serializes(RemoveAbsent(s, id))
         /\ RemoveAbsent(s, id).own \subseteq s.own
         /\ RemoveAbsent(s, id).issued = s.issued
         /\ RemoveAbsent(s, id).seq = s.seq
         /\ RemoveAbsent(s, id).confirmedSeq = s.confirmedSeq
         /\ RemoveAbsent(s, id).pendingSeq = s.pendingSeq
         /\ RemoveAbsent(s, id).ownHash = s.ownHash
         /\ RemoveAbsent(s, id).pendingKey = s.pendingKey
         /\ RemoveAbsent(s, id).version = s.version
<1> DEFINE n == RemoveAbsent(s, id)
<1>1. /\ n.version = s.version /\ n.chat = s.chat /\ n.seq = s.seq
      /\ n.confirmedSeq = s.confirmedSeq /\ n.pendingSeq = s.pendingSeq
      /\ n.abandonedSeq = s.abandonedSeq /\ n.ownHash = s.ownHash
      /\ n.issued = s.issued /\ n.pendingKey = s.pendingKey
      /\ n.own \subseteq s.own
  BY DEF RemoveAbsent, LocalState
<1>2. n \in LocalState
  BY DEF RemoveAbsent, LocalState
<1>3. CountersValid(n) /\ IssuedValid(n) /\ ChatValid(n)
  BY <1>1 DEF Serializes, CountersValid, IssuedValid, ChatValid
<1>4. OwnValid(n)
  <2>1. IsFiniteSet(s.own) /\ Cardinality(s.own) <= MaxOwn
    BY DEF Serializes, OwnValid
  <2>2. IsFiniteSet(n.own) /\ Cardinality(n.own) <= Cardinality(s.own)
    BY <1>1, <2>1, FS_Subset
  <2>3. Cardinality(n.own) \in Nat /\ Cardinality(s.own) \in Nat /\ MaxOwn \in Nat
    BY <2>1, <2>2, FS_CardinalityType, LocalStateAssumption
  <2> HIDE DEF n
  <2> QED
    BY <1>1, <2>1, <2>2, <2>3 DEF OwnValid, Serializes
<1> HIDE DEF n
<1> QED
  BY <1>1, <1>2, <1>3, <1>4 DEF Serializes, n

\* Moving to another chat: the abandoned stage must be in the issued log.
LEMMA MoveSerializes ==
  ASSUME NEW s \in LocalState, Serializes(s), NEW c \in Chats,
         CanMoveToChat(s, c),
         s.pendingSeq # 0 => \E r \in s.issued : r.seq = s.pendingSeq
  PROVE  /\ MoveToChat(s, c) \in LocalState
         /\ Serializes(MoveToChat(s, c))
         /\ MoveToChat(s, c).own = {}
         /\ MoveToChat(s, c).issued = s.issued
         /\ MoveToChat(s, c).seq = s.seq
         /\ MoveToChat(s, c).confirmedSeq = s.confirmedSeq
         /\ MoveToChat(s, c).pendingSeq = 0
         /\ MoveToChat(s, c).pendingKey = NoPayload
<1> DEFINE n == MoveToChat(s, c)
<1>1. /\ n.version = 2 /\ n.chat = c /\ n.own = {} /\ n.issued = s.issued
      /\ n.seq = s.seq /\ n.confirmedSeq = s.confirmedSeq /\ n.pendingSeq = 0
      /\ n.ownHash = s.ownHash /\ n.pendingKey = NoPayload
      /\ s.pendingSeq = 0 => n.abandonedSeq = s.abandonedSeq
      /\ s.pendingSeq # 0 => n.abandonedSeq = s.pendingSeq
  BY DEF MoveToChat, Abandon, CanMoveToChat, LocalState
<1>2. n \in LocalState
  BY DEF MoveToChat, Abandon, LocalState
<1>3. CountersValid(n)
  BY <1>1 DEF Serializes, CountersValid, LocalState
<1>4. IssuedValid(n)
  BY <1>1 DEF Serializes, IssuedValid
<1>5. OwnValid(n) /\ ChatValid(n)
  BY <1>1, FS_EmptySet, LocalStateAssumption DEF OwnValid, ChatValid
<1> HIDE DEF n
<1> QED
  BY <1>1, <1>2, <1>3, <1>4, <1>5 DEF Serializes, n
---------------------------------------------------------------------------
(* What a client concludes from a complete read.                           *)

\* A complete read that shows anything has a head: a newest record, and of its
\* copies the one with the lowest id.
LEMMA HeadExists ==
  ASSUME NEW S \in SUBSET Message, IsFiniteSet(S), S # {}
  PROVE  \E h \in S : h \in Heads(S)
<1> DEFINE age == [m \in S |-> 0 - m.rec.seq]
           N == {m \in S : \A n \in S : n.rec.seq <= m.rec.seq}
           id == [m \in N |-> m.id]
<1>1. age \in [S -> Int]
  BY DEF Message, Record
<1>2. PICK x \in S : \A y \in S : age[x] <= age[y]
  BY <1>1, LeastExists
<1>3. x \in N
  BY <1>2 DEF Message, Record
<1>4. IsFiniteSet(N)
  BY FS_Subset
<1>5. id \in [N -> Int]
  BY DEF Message
<1>6. PICK h \in N : \A y \in N : id[h] <= id[y]
  <2> HIDE DEF N, id
  <2> QED
    BY <1>3, <1>4, <1>5, LeastExists
<1>7. h \in S /\ h \in Heads(S)
  BY <1>6 DEF Heads
<1> QED
  BY <1>7

\* What is observed of a chat is the newest record the read showed.
LEMMA ObservesNewest ==
  ASSUME NEW S \in SUBSET Message, IsFiniteSet(S), S # {}
  PROVE  \E h \in S : /\ Observation(S) = Observed(h.rec)
                      /\ \A n \in S : n.rec.seq <= h.rec.seq
<1> DEFINE h == CHOOSE m \in S : m \in Heads(S)
<1>1. h \in S /\ h \in Heads(S)
  BY HeadExists
<1>2. Observation(S) = Observed(h.rec)
  BY DEF Observation
<1>3. \A n \in S : n.rec.seq <= h.rec.seq
  <2> HIDE DEF h
  <2> QED
    BY <1>1 DEF Heads
<1> HIDE DEF h
<1> QED
  BY <1>1, <1>2, <1>3
=============================================================================
