------------------------ MODULE SyncChatMagicProofs ------------------------
(***************************************************************************)
(* OneChatEach of SyncChatMagic, for any number of devices, chats and      *)
(* faults.  A device creates only when it is bound to no chat, its lists   *)
(* are complete and empty and no creation of it may still arrive; the      *)
(* invariant says what that means for the chats it made: they are in its   *)
(* lists whenever it is allowed to conclude from them.                     *)
(***************************************************************************)
EXTENDS SyncChatMagic, FiniteSetTheorems, TLAPS

Binding ==
    [chat : Chats \cup {Nobody}, stale : BOOLEAN,
     createStep : {"None", "Requested", "Created", "Uncertain"}, createOld : BOOLEAN,
     rejected : SUBSET Chats, problem : BOOLEAN, waits : SUBSET {"info", "create"}]

Typed ==
    /\ status \in [Chats -> {"None", "Sole", "Shared", "Gone"}]
    /\ maker \in [Chats -> Devices \cup {Nobody}]
    /\ binding \in [Devices -> Binding]
    /\ view \in [Devices -> SUBSET Chats]
    /\ complete \in [Devices -> BOOLEAN]
    /\ request \in [Devices -> Chats \cup {Nobody, Create}]
    /\ floating \in [Devices -> BOOLEAN]
    /\ faults \in Nat

\* The chats d made that are there.
Mine(d) == {c \in Existing : maker[c] = d}

\* A device that waits for a creation, or sent one nobody waits for, has made no
\* chat that is there and knows of its creation; one that may create has all
\* that it made in its lists.
PerDevice(d) ==
    /\ d \in Opened => Mine(d) = {}
    /\ \A b, c \in Mine(d) : b = c
    /\ ~(request[d] = Create /\ floating[d])
    /\ request[d] = Create => binding[d].chat = Nobody
    /\ binding[d].chat = Nobody /\ d \in Opened =>
         binding[d].createStep \in {"Requested", "Uncertain"} /\ ~binding[d].createOld
    /\ binding[d].chat = Nobody /\ complete[d] /\ MayCreate(binding[d]) =>
         Mine(d) \subseteq view[d]

MagicInv ==
    /\ Typed
    /\ \A d \in Devices : PerDevice(d)
    /\ Cardinality(Opened) <= Cardinality(Unmade)

---------------------------------------------------------------------------
(* Sets of chats and of devices.                                           *)

\* Chats are numbers, so a set of them has a least one.
LEMMA OldestChat ==
  ASSUME NEW S \in SUBSET Chats, S # {}
  PROVE  Min(S) \in S
<1>1. S \subseteq Nat
  BY MagicAssumption DEF Chats
<1> DEFINE R == {ss \in Nat \X Nat : ss[1] < ss[2]}
<1>2. IsWellFoundedOn(R, Nat)
  BY NatLessThanWellFounded DEF OpToRel
<1>3. PICK x \in S : \A y \in S : <<y, x>> \notin R
  <2> HIDE DEF R
  <2> QED
    BY <1>1, <1>2, WFMin
<1>4. ASSUME NEW y \in S PROVE x <= y
  <2>1. x \in Nat /\ y \in Nat
    BY <1>1
  <2>2. ~(y < x)
    BY <1>3, <2>1
  <2> HIDE DEF R
  <2> QED
    BY <2>1, <2>2
<1>5. \E z \in S : \A y \in S : z <= y
  BY <1>4
<1> QED
  BY <1>5 DEF Min

\* Both counts are those of finite sets.
LEMMA Counts ==
  ASSUME NEW S, (S \subseteq Chats \/ S \subseteq Devices)
  PROVE  IsFiniteSet(S) /\ Cardinality(S) \in Nat
<1>1. IsFiniteSet(Chats) /\ IsFiniteSet(Devices)
  <2>1. MaxChats \in Nat /\ MaxChats \in Int /\ 1 \in Int
    BY MagicAssumption
  <2>2. IsFiniteSet(1..MaxChats)
    BY <2>1, FS_Interval
  <2> QED
    BY <2>2, MagicAssumption DEF Chats
<1>2. IsFiniteSet(S)
  BY <1>1, FS_Subset
<1> QED
  BY <1>2, FS_CardinalityType

\* Neither nobody nor a request for a new chat is a chat.
LEMMA Distinct == Create \notin Chats /\ Nobody \notin Chats /\ Nobody # Create
BY MagicAssumption DEF Create, Chats

\* A device that nothing happens to, but for chats that are gone.
LEMMA OthersKeep ==
  ASSUME NEW e \in Devices, PerDevice(e), Mine(e)' \subseteq Mine(e),
         binding'[e] = binding[e], request'[e] = request[e],
         floating'[e] = floating[e], complete'[e] = complete[e],
         view[e] \cap Existing' \subseteq view'[e]
  PROVE  PerDevice(e)'
<1>1. (e \in Opened)' <=> e \in Opened
  BY DEF Opened
<1>2. Mine(e)' \subseteq Existing'
  BY DEF Mine
<1> QED
  BY <1>1, <1>2 DEF PerDevice, MayCreate
---------------------------------------------------------------------------
(* What the actions have in common.                                        *)

\* No more creations than there were fit in the chats to come.
LEMMA FewerOpened ==
  ASSUME MagicInv, Opened' \subseteq Opened, Unmade' = Unmade
  PROVE  Cardinality(Opened)' <= Cardinality(Unmade)'
<1>1. Opened \subseteq Devices /\ Unmade \subseteq Chats
  BY DEF Opened, Unmade
<1>2. /\ IsFiniteSet(Opened) /\ Cardinality(Opened) \in Nat
      /\ Cardinality(Opened') \in Nat /\ Cardinality(Unmade) \in Nat
  BY <1>1, Counts
<1>3. Cardinality(Opened') <= Cardinality(Opened)
  BY <1>2, FS_Subset
<1> QED
  BY <1>2, <1>3 DEF MagicInv

\* A chat is made for a device whose creation is open: it is its only one.
LEMMA NewChatFacts ==
  ASSUME MagicInv, NEW d \in Opened, NewChat(d), NEW n, n = Min(Unmade)
  PROVE  /\ n \in Chats /\ d \in Devices
         /\ status' \in [Chats -> {"None", "Sole", "Shared", "Gone"}]
         /\ maker' \in [Chats -> Devices \cup {Nobody}]
         /\ Existing' = Existing \cup {n}
         /\ Mine(d)' \subseteq {n}
         /\ \A e \in Devices \ {d} : Mine(e)' \subseteq Mine(e)
         /\ \A S \in SUBSET (Opened \ {d}) : Cardinality(S) <= Cardinality(Unmade)'
<1>1. /\ d \in Devices /\ Opened \subseteq Devices /\ Unmade \subseteq Chats /\ PerDevice(d)
      /\ status \in [Chats -> {"None", "Sole", "Shared", "Gone"}]
      /\ maker \in [Chats -> Devices \cup {Nobody}]
      /\ Cardinality(Opened) <= Cardinality(Unmade)
  BY DEF Opened, Unmade, MagicInv, Typed
<1>2. IsFiniteSet(Opened) /\ Cardinality(Opened) \in Nat
      /\ IsFiniteSet(Unmade) /\ Cardinality(Unmade) \in Nat
  BY <1>1, Counts
<1>3. n \in Unmade
  <2>1. Cardinality(Opened) # 0 /\ Cardinality({}) = 0
    BY <1>2, FS_EmptySet
  <2>2. Unmade # {}
    BY <1>1, <1>2, <2>1
  <2> QED
    BY <1>1, <2>2, OldestChat
<1>4. status' = [status EXCEPT ![n] = "Sole"] /\ maker' = [maker EXCEPT ![n] = d]
  BY DEF NewChat
<1>5. Unmade' = Unmade \ {n} /\ Existing' = Existing \cup {n}
  BY <1>1, <1>3, <1>4 DEF Unmade, Existing
<1>6. Mine(d)' \subseteq {n}
  <2>1. Mine(d) = {}
    BY <1>1 DEF PerDevice
  <2> QED
    BY <1>1, <1>4, <1>5, <2>1 DEF Mine
<1>7. \A e \in Devices \ {d} : Mine(e)' \subseteq Mine(e)
  BY <1>1, <1>3, <1>4, <1>5 DEF Mine, Unmade
<1>8. ASSUME NEW S \in SUBSET (Opened \ {d})
      PROVE  Cardinality(S) <= Cardinality(Unmade')
  <2>1. Cardinality(Opened \ {d}) = Cardinality(Opened) - 1
        /\ Cardinality(Unmade \ {n}) = Cardinality(Unmade) - 1
        /\ IsFiniteSet(Opened \ {d})
    BY <1>2, <1>3, FS_RemoveElement
  <2>2. Cardinality(S) <= Cardinality(Opened \ {d}) /\ Cardinality(S) \in Nat
    BY <2>1, FS_Subset, FS_CardinalityType
  <2> QED
    BY <1>1, <1>2, <1>5, <2>1, <2>2
<1> QED
  BY <1>1, <1>3, <1>4, <1>5, <1>6, <1>7, <1>8 DEF Unmade

\* A request is sent or answered that is not one for a new chat, and the
\* binding of the device keeps its chat and its creation, or takes a chat.
LEMMA QuietKeeps ==
  ASSUME MagicInv, NEW d \in Devices, NEW b \in Binding, NEW r \in Chats \cup {Nobody},
         request[d] # Create,
         \/ /\ b.chat = binding[d].chat /\ b.createStep = binding[d].createStep
            /\ b.createOld = binding[d].createOld
         \/ b.chat # Nobody,
         binding' = [binding EXCEPT ![d] = b], request' = [request EXCEPT ![d] = r],
         UNCHANGED <<status, maker, view, complete, floating>>, faults' \in Nat
  PROVE  MagicInv'
<1>1. Typed'
  BY DEF MagicInv, Typed
<1>2. Opened' = Opened /\ Unmade' = Unmade /\ Existing' = Existing
      /\ \A e : Mine(e)' = Mine(e)
  BY Distinct DEF MagicInv, Typed, Opened, Unmade, Existing, Mine
<1>3. ASSUME NEW e \in Devices, e # d PROVE PerDevice(e)'
  BY <1>2, <1>3, OthersKeep DEF MagicInv, Typed
<1>4. PerDevice(d)'
  <2>1. PerDevice(d) /\ binding'[d] = b /\ request'[d] = r /\ r # Create
        /\ floating'[d] = floating[d] /\ complete'[d] = complete[d] /\ view'[d] = view[d]
    BY Distinct DEF MagicInv, Typed
  <2> QED
    BY <1>2, <2>1 DEF PerDevice, MayCreate
<1>5. Cardinality(Opened)' <= Cardinality(Unmade)'
  BY <1>2, FewerOpened
<1> QED
  BY <1>1, <1>3, <1>4, <1>5 DEF MagicInv
---------------------------------------------------------------------------
(* One lemma per action.                                                   *)

\* A device looks at its lists.
LEMMA LookupKeeps ==
  ASSUME MagicInv, NEW d \in Devices, Lookup(d)
  PROVE  MagicInv'
<1>1. /\ binding[d] \in Binding /\ view[d] \subseteq Chats /\ PerDevice(d) /\ Typed
      /\ request[d] = Nobody
  BY DEF MagicInv, Typed, Lookup, LookVerify, LookProblem, LookCreate, Looking
<1>2. ASSUME NEW bad, NEW fresh \in BOOLEAN, LookVerify(d, bad, fresh)
      PROVE  MagicInv'
  <2>1. ASSUME NEW c \in Chats, Verify(d, c) PROVE MagicInv'
    <3>1. /\ request' = [request EXCEPT ![d] = c]
          /\ UNCHANGED <<status, maker, binding, view, complete, floating, faults>>
      BY <2>1 DEF Verify
    <3>2. binding' = [binding EXCEPT ![d] = binding[d]] /\ faults' \in Nat
      BY <1>1, <3>1 DEF Typed
    <3> QED
      BY <1>1, <3>1, <3>2, Distinct, QuietKeeps
  <2>2. CASE Better(d, bad)
    <3>1. PICK cs : cs = Admitted(d, bad)
      OBVIOUS
    <3>2. cs \in SUBSET Chats /\ cs # {} /\ Verify(d, PickMagicChat(cs))
      BY <1>1, <1>2, <2>2, <3>1 DEF LookVerify, Better, Admitted
    <3>3. PickMagicChat(cs) \in Chats
      BY <3>2, OldestChat DEF PickMagicChat
    <3> QED
      BY <2>1, <3>2, <3>3
  <2>3. CASE ~Better(d, bad)
    <3>1. binding[d].chat \in Chats /\ Verify(d, binding[d].chat)
      BY <1>1, <1>2, <2>3 DEF LookVerify, Binding
    <3> QED
      BY <2>1, <3>1
  <2> QED
    BY <2>2, <2>3
<1>3. ASSUME NEW bad, LookProblem(d, bad)
      PROVE  MagicInv'
  <2>1. PICK b : b = [binding[d] EXCEPT !.problem = TRUE]
    OBVIOUS
  <2>2. /\ b \in Binding /\ b.chat = binding[d].chat /\ b.createStep = binding[d].createStep
        /\ b.createOld = binding[d].createOld
    BY <1>1, <2>1 DEF Binding
  <2>3. /\ binding' = [binding EXCEPT ![d] = b]
        /\ UNCHANGED <<status, maker, view, complete, request, floating, faults>>
    BY <1>3, <2>1 DEF LookProblem, Set
  <2>4. request' = [request EXCEPT ![d] = request[d]] /\ faults' \in Nat
    BY <1>1, <2>3 DEF Typed
  <2> QED
    BY <1>1, <2>2, <2>3, <2>4, Distinct, QuietKeeps
<1>4. ASSUME LookCreate(d)
      PROVE  MagicInv'
  <2>1. PICK b : b = [binding[d] EXCEPT !.createStep = "Requested", !.createOld = FALSE]
    OBVIOUS
  <2>2. b \in Binding /\ b.chat = binding[d].chat /\ b.createStep = "Requested" /\ ~b.createOld
    BY <1>1, <2>1 DEF Binding
  <2>3. /\ binding[d].chat = Nobody /\ complete[d] /\ view[d] = {} /\ MayCreate(binding[d])
        /\ binding' = [binding EXCEPT ![d] = b]
        /\ request' = [request EXCEPT ![d] = Create]
        /\ UNCHANGED <<status, maker, view, complete, floating, faults>>
        /\ Cardinality(Opened) < Cardinality(Unmade)
    BY <1>4, <2>1 DEF LookCreate, Set
  <2>4. Typed'
    BY <1>1, <2>2, <2>3 DEF Typed
  <2>5. Opened' = Opened \cup {d} /\ Unmade' = Unmade /\ Existing' = Existing
        /\ \A e : Mine(e)' = Mine(e)
    BY <1>1, <2>3 DEF Typed, Opened, Unmade, Existing, Mine
  <2>6. ASSUME NEW e \in Devices, e # d PROVE PerDevice(e)'
    BY <1>1, <2>3, <2>5, <2>6, OthersKeep DEF MagicInv, Typed
  <2>7. PerDevice(d)'
    <3>1. Mine(d) = {} /\ d \notin Opened
      BY <1>1, <2>3 DEF PerDevice, MayCreate
    <3>2. ~floating'[d]
      BY <1>1, <2>3, <3>1 DEF Opened, Typed
    <3>3. binding'[d] = b /\ request'[d] = Create
      BY <1>1, <2>3 DEF Typed
    <3> QED
      BY <2>2, <2>3, <2>5, <3>1, <3>2, <3>3 DEF PerDevice, MayCreate
  <2>8. Cardinality(Opened)' <= Cardinality(Unmade)'
    <3>1. /\ IsFiniteSet(Opened) /\ Cardinality(Opened) \in Nat /\ Cardinality(Unmade) \in Nat
      BY Counts DEF Opened, Unmade
    <3>2. Cardinality(Opened \cup {d}) <= Cardinality(Unmade)
      <4>1. \/ Cardinality(Opened \cup {d}) = Cardinality(Opened)
            \/ Cardinality(Opened \cup {d}) = Cardinality(Opened) + 1
        BY <3>1, FS_AddElement
      <4> QED
        BY <2>3, <3>1, <4>1
    <3> QED
      BY <2>5, <3>2
  <2> QED
    BY <2>4, <2>6, <2>7, <2>8 DEF MagicInv
<1> QED
  BY <1>2, <1>3, <1>4 DEF Lookup

\* The full info of a chat is answered.
LEMMA VerifiedKeeps ==
  ASSUME MagicInv, NEW d \in Devices, Verified(d)
  PROVE  MagicInv'
<1>1. binding[d] \in Binding /\ Typed
  BY DEF MagicInv, Typed
<1>2. PICK c \in Chats : c = request[d]
  BY DEF Verified
<1>3. PICK b : b = IF status[c] = "Sole" THEN Bound(binding[d], c)
                   ELSE VerifyProblem(binding[d], c)
  OBVIOUS
<1>4. /\ b \in Binding
      /\ \/ /\ b.chat = binding[d].chat /\ b.createStep = binding[d].createStep
            /\ b.createOld = binding[d].createOld
         \/ b.chat # Nobody
  BY <1>1, <1>3, Distinct DEF Bound, VerifyProblem, Binding
<1>5. /\ binding' = [binding EXCEPT ![d] = b] /\ request' = [request EXCEPT ![d] = Nobody]
      /\ UNCHANGED <<status, maker, view, complete, floating, faults>>
  BY <1>2, <1>3 DEF Verified, Set
<1>6. request[d] # Create /\ faults' \in Nat
  BY <1>1, <1>2, <1>5, Distinct DEF Typed
<1> QED
  BY <1>4, <1>5, <1>6, QuietKeeps

\* The creation is answered: the chat is in the lists of its device.
LEMMA CreatedKeeps ==
  ASSUME MagicInv, NEW d \in Devices, Created(d)
  PROVE  MagicInv'
<1>1. binding[d] \in Binding /\ Typed /\ PerDevice(d) /\ d \in Opened
  BY DEF MagicInv, Typed, Created, Opened
<1>2. PICK n : n = Min(Unmade)
  OBVIOUS
<1>3. PICK b : b = [binding[d] EXCEPT !.createStep = "Created"]
  OBVIOUS
<1>4. b \in Binding /\ b.chat = binding[d].chat
  BY <1>1, <1>3 DEF Binding
<1>5. /\ request[d] = Create /\ NewChat(d)
      /\ binding' = [binding EXCEPT ![d] = b]
      /\ view' = [view EXCEPT ![d] = @ \cup {n}]
      /\ request' = [request EXCEPT ![d] = Nobody]
      /\ UNCHANGED <<complete, floating, faults>>
  BY <1>2, <1>3 DEF Created, Set
<1>6. /\ n \in Chats
      /\ status' \in [Chats -> {"None", "Sole", "Shared", "Gone"}]
      /\ maker' \in [Chats -> Devices \cup {Nobody}]
      /\ Mine(d)' \subseteq {n}
      /\ \A e \in Devices \ {d} : Mine(e)' \subseteq Mine(e)
      /\ \A S \in SUBSET (Opened \ {d}) : Cardinality(S) <= Cardinality(Unmade)'
  BY <1>1, <1>2, <1>5, NewChatFacts
<1>7. Typed'
  BY <1>1, <1>4, <1>5, <1>6 DEF Typed
<1>8. ASSUME NEW e \in Devices, e # d PROVE PerDevice(e)'
  BY <1>1, <1>5, <1>6, <1>8, OthersKeep DEF MagicInv, Typed
<1>9. ~floating'[d]
  BY <1>1, <1>5 DEF PerDevice
<1>10. Opened' = Opened \ {d}
  BY <1>1, <1>5, <1>9, Distinct DEF Opened, Typed
<1>11. PerDevice(d)'
  <2>1. request'[d] = Nobody /\ n \in view'[d]
    BY <1>1, <1>5 DEF Typed
  <2> QED
    BY <1>6, <1>9, <1>10, <2>1, Distinct DEF PerDevice
<1>12. Cardinality(Opened)' <= Cardinality(Unmade)'
  BY <1>6, <1>10
<1> QED
  BY <1>7, <1>8, <1>11, <1>12 DEF MagicInv

\* A creation nobody waits for arrives, or does not.
LEMMA LateKeeps ==
  ASSUME MagicInv, NEW d \in Devices, Late(d)
  PROVE  MagicInv'
<1>1. Typed /\ PerDevice(d) /\ d \in Opened /\ floating[d]
  BY DEF MagicInv, Typed, Late, Opened
<1>2. /\ floating' = [floating EXCEPT ![d] = FALSE]
      /\ UNCHANGED <<binding, view, complete, request, faults>>
  BY DEF Late
<1>3. request[d] # Create
  BY <1>1 DEF PerDevice
<1>4. Opened' = Opened \ {d}
  BY <1>1, <1>2, <1>3 DEF Opened, Typed
<1>5. CASE UNCHANGED <<status, maker>>
  <2>1. Existing' = Existing /\ Unmade' = Unmade /\ \A e : Mine(e)' = Mine(e)
    BY <1>5 DEF Existing, Unmade, Mine
  <2>2. Typed'
    BY <1>1, <1>2, <1>5 DEF Typed
  <2>3. ASSUME NEW e \in Devices, e # d PROVE PerDevice(e)'
    BY <1>1, <1>2, <2>1, <2>3, OthersKeep DEF MagicInv, Typed
  <2>4. PerDevice(d)'
    BY <1>1, <1>2, <1>3, <1>4, <2>1 DEF PerDevice, MayCreate
  <2>5. Cardinality(Opened)' <= Cardinality(Unmade)'
    BY <1>4, <2>1, FewerOpened
  <2> QED
    BY <2>2, <2>3, <2>4, <2>5 DEF MagicInv
<1>6. CASE NewChat(d)
  <2>1. PICK n : n = Min(Unmade)
    OBVIOUS
  <2>2. /\ n \in Chats
        /\ status' \in [Chats -> {"None", "Sole", "Shared", "Gone"}]
        /\ maker' \in [Chats -> Devices \cup {Nobody}]
        /\ Mine(d)' \subseteq {n}
        /\ \A e \in Devices \ {d} : Mine(e)' \subseteq Mine(e)
        /\ \A S \in SUBSET (Opened \ {d}) : Cardinality(S) <= Cardinality(Unmade)'
    BY <1>1, <1>6, <2>1, NewChatFacts
  <2>3. Typed'
    BY <1>1, <1>2, <2>2 DEF Typed
  <2>4. ASSUME NEW e \in Devices, e # d PROVE PerDevice(e)'
    BY <1>1, <1>2, <2>2, <2>4, OthersKeep DEF MagicInv, Typed
  <2>5. PerDevice(d)'
    <3>1. binding[d].chat = Nobody =>
            binding[d].createStep \in {"Requested", "Uncertain"} /\ ~binding[d].createOld
      BY <1>1 DEF PerDevice
    <3> QED
      BY <1>2, <1>3, <1>4, <2>2, <3>1 DEF PerDevice, MayCreate
  <2>6. Cardinality(Opened)' <= Cardinality(Unmade)'
    BY <1>4, <2>2
  <2> QED
    BY <2>3, <2>4, <2>5, <2>6 DEF MagicInv
<1> QED
  BY <1>5, <1>6 DEF Late

\* The client answers a wait, a timeout or a refusal.
LEMMA FailedKeeps ==
  ASSUME MagicInv, NEW d \in Devices, Failed(d)
  PROVE  MagicInv'
<1>1. binding[d] \in Binding /\ Typed /\ PerDevice(d)
  BY DEF MagicInv, Typed
<1>2. /\ request' = [request EXCEPT ![d] = Nobody] /\ request[d] # Nobody
      /\ UNCHANGED <<status, maker, view, complete>> /\ faults' \in Nat
  BY <1>1 DEF Failed, Fault, Typed
<1>3. CASE request[d] # Create
  <2>1. request[d] \in Chats
    BY <1>1, <1>2, <1>3 DEF Typed
  <2>2. PICK b : /\ b \in {[binding[d] EXCEPT !.waits = @ \cup {"info"}], binding[d],
                           VerifyProblem(binding[d], request[d])}
                 /\ binding' = [binding EXCEPT ![d] = b]
                 /\ floating' = floating
    BY <1>1, <1>3 DEF Failed, Set, Typed
  <2>3. /\ b \in Binding /\ b.chat = binding[d].chat /\ b.createStep = binding[d].createStep
        /\ b.createOld = binding[d].createOld
    <3>1. CASE b = [binding[d] EXCEPT !.waits = @ \cup {"info"}]
      BY <1>1, <3>1 DEF Binding
    <3>2. CASE b = binding[d]
      BY <1>1, <3>2
    <3>3. CASE b = VerifyProblem(binding[d], request[d])
      <4>1. CASE binding[d].chat = request[d]
        <5>1. b = [binding[d] EXCEPT !.problem = TRUE]
          BY <3>3, <4>1 DEF VerifyProblem
        <5> QED
          BY <1>1, <5>1 DEF Binding
      <4>2. CASE binding[d].chat # request[d]
        <5>1. b = [binding[d] EXCEPT !.rejected = @ \cup {request[d]}]
          BY <3>3, <4>2 DEF VerifyProblem
        <5> QED
          BY <1>1, <2>1, <5>1 DEF Binding
      <4> QED
        BY <4>1, <4>2
    <3> QED
      BY <2>2, <3>1, <3>2, <3>3
  <2> QED
    BY <1>2, <1>3, <2>2, <2>3, QuietKeeps
<1>4. CASE request[d] = Create
  <2>1. PICK b : /\ binding' = [binding EXCEPT ![d] = b]
                 /\ \/ /\ b \in {[binding[d] EXCEPT !.createStep = "None",
                                                    !.waits = @ \cup {"create"}],
                                 [binding[d] EXCEPT !.createStep = "None", !.problem = TRUE]}
                       /\ floating' = floating
                    \/ /\ b = [binding[d] EXCEPT !.createStep = "Uncertain"]
                       /\ floating' = [floating EXCEPT ![d] = TRUE]
    BY <1>1, <1>4 DEF Failed, Set, Binding
  <2>2. /\ b \in Binding /\ b.chat = binding[d].chat /\ b.createOld = binding[d].createOld
    BY <1>1, <2>1 DEF Binding
  <2>3. Typed'
    BY <1>1, <1>2, <2>1, <2>2 DEF Typed
  <2>4. Existing' = Existing /\ Unmade' = Unmade /\ \A e : Mine(e)' = Mine(e)
    BY <1>2 DEF Existing, Unmade, Mine
  <2>5. ASSUME NEW e \in Devices, e # d PROVE PerDevice(e)'
    BY <1>1, <1>2, <2>1, <2>4, <2>5, OthersKeep DEF MagicInv, Typed
  <2>6. d \in Opened /\ Mine(d) = {} /\ ~floating[d] /\ ~binding[d].createOld
    BY <1>1, <1>4 DEF Opened, PerDevice
  <2>7. request'[d] = Nobody /\ binding'[d] = b
    BY <1>1, <1>2, <2>1 DEF Typed
  <2>8. PerDevice(d)'
    <3>1. floating'[d] => b.createStep = "Uncertain"
      BY <1>1, <2>1, <2>6 DEF Typed, Binding
    <3> QED
      BY <2>2, <2>4, <2>6, <2>7, <3>1, Distinct DEF PerDevice, Opened
  <2>9. Opened' \subseteq Opened
    BY <1>1, <1>2, <2>1, <2>6, Distinct DEF Opened, Typed
  <2> QED
    BY <2>3, <2>4, <2>5, <2>8, <2>9, FewerOpened DEF MagicInv
<1> QED
  BY <1>3, <1>4

\* A client restarts: the answer it waited for may still come.
LEMMA RestartKeeps ==
  ASSUME MagicInv, NEW d \in Devices, Restart(d)
  PROVE  MagicInv'
<1>1. Typed /\ PerDevice(d)
  BY DEF MagicInv
<1>2. /\ request' = [request EXCEPT ![d] = Nobody]
      /\ floating' = [floating EXCEPT ![d] = @ \/ request[d] = Create]
      /\ view' = [view EXCEPT ![d] = {}] /\ complete' = [complete EXCEPT ![d] = FALSE]
      /\ UNCHANGED <<status, maker, binding>> /\ faults' \in Nat
  BY <1>1 DEF Restart, Fault, Typed
<1>3. Typed'
  BY <1>1, <1>2 DEF Typed
<1>4. Existing' = Existing /\ Unmade' = Unmade /\ \A e : Mine(e)' = Mine(e)
  BY <1>2 DEF Existing, Unmade, Mine
<1>5. ASSUME NEW e \in Devices, e # d PROVE PerDevice(e)'
  BY <1>1, <1>2, <1>4, <1>5, OthersKeep DEF MagicInv, Typed
<1>6. request'[d] = Nobody /\ ~complete'[d] /\ (floating'[d] <=> d \in Opened)
  BY <1>1, <1>2 DEF Typed, Opened
<1>7. d \in Opened' <=> d \in Opened
  BY <1>6, Distinct DEF Opened
<1>8. PerDevice(d)'
  BY <1>1, <1>2, <1>4, <1>6, <1>7, Distinct DEF PerDevice
<1>9. Opened' \subseteq Opened
  BY <1>1, <1>2, <1>7 DEF Opened, Typed
<1> QED
  BY <1>3, <1>4, <1>5, <1>8, <1>9, FewerOpened DEF MagicInv

\* The lists of a device change: a chat that is there is never taken out.
LEMMA ListsKeep ==
  ASSUME MagicInv, NEW d \in Devices, NEW v \in SUBSET Chats, NEW full \in BOOLEAN,
         view[d] \cap Existing \subseteq v, complete[d] \/ ~full \/ Existing \subseteq v,
         view' = [view EXCEPT ![d] = v], complete' = [complete EXCEPT ![d] = full],
         UNCHANGED <<status, maker, binding, request, floating, faults>>
  PROVE  MagicInv'
<1>1. Typed /\ PerDevice(d)
  BY DEF MagicInv
<1>2. Typed'
  BY <1>1 DEF Typed
<1>3. Opened' = Opened /\ Existing' = Existing /\ Unmade' = Unmade
      /\ \A e : Mine(e)' = Mine(e)
  BY DEF Existing, Unmade, Mine, Opened
<1>4. ASSUME NEW e \in Devices, e # d PROVE PerDevice(e)'
  BY <1>1, <1>3, <1>4, OthersKeep DEF MagicInv, Typed
<1>5. PerDevice(d)'
  <2>1. view'[d] = v /\ complete'[d] = full
    BY <1>1 DEF Typed
  <2>2. Mine(d) \subseteq Existing
    BY DEF Mine
  <2> QED
    BY <1>1, <1>3, <2>1, <2>2 DEF PerDevice, MayCreate
<1> QED
  BY <1>2, <1>3, <1>4, <1>5, FewerOpened DEF MagicInv

\* A chat comes into or leaves the local lists.
LEMMA UpdateKeeps ==
  ASSUME MagicInv, NEW d \in Devices, Update(d)
  PROVE  MagicInv'
<1>1. Typed /\ view[d] \in SUBSET Chats /\ complete[d] \in BOOLEAN
  BY DEF MagicInv, Typed
<1>2. UNCHANGED <<status, maker, binding, complete, request, floating, faults>>
  BY DEF Update
<1>3. complete' = [complete EXCEPT ![d] = complete[d]]
  BY <1>1, <1>2 DEF Typed
<1>4. PICK v : /\ view' = [view EXCEPT ![d] = v]
               /\ \/ \E c \in Existing \ view[d] : v = view[d] \cup {c}
                  \/ \E c \in view[d] \ Existing : v = view[d] \ {c}
  BY <1>1 DEF Update, Typed
<1>5. v \in SUBSET Chats /\ view[d] \cap Existing \subseteq v
  BY <1>1, <1>4 DEF Existing
<1> QED
  BY <1>1, <1>2, <1>3, <1>4, <1>5, ListsKeep

\* All of the lists are loaded.
LEMMA LoadKeeps ==
  ASSUME MagicInv, NEW d \in Devices, Load(d)
  PROVE  MagicInv'
<1>1. Existing \in SUBSET Chats
  BY DEF Existing
<1> QED
  BY <1>1, ListsKeep DEF Load

\* The user has every chat considered again.
LEMMA ManualCheckKeeps ==
  ASSUME MagicInv, NEW d \in Devices, ManualCheck(d)
  PROVE  MagicInv'
<1>1. binding[d] \in Binding /\ Typed /\ request[d] = Nobody
  BY DEF MagicInv, Typed, ManualCheck
<1>2. PICK b : b = [binding[d] EXCEPT !.problem = FALSE, !.rejected = {}]
  OBVIOUS
<1>3. /\ b \in Binding /\ b.chat = binding[d].chat /\ b.createStep = binding[d].createStep
      /\ b.createOld = binding[d].createOld
  BY <1>1, <1>2 DEF Binding
<1>4. /\ binding' = [binding EXCEPT ![d] = b]
      /\ UNCHANGED <<status, maker, view, complete, request, floating, faults>>
  BY <1>2 DEF ManualCheck, Set
<1>5. request' = [request EXCEPT ![d] = Nobody] /\ faults' \in Nat
  BY <1>1, <1>4 DEF Typed
<1> QED
  BY <1>1, <1>3, <1>4, <1>5, Distinct, QuietKeeps

\* 24 hours pass: no creation is open then, and the lists show all there is.
LEMMA DayKeeps ==
  ASSUME MagicInv, Day
  PROVE  MagicInv'
<1>1. /\ Typed
      /\ \A d \in Devices : PerDevice(d) /\ view[d] = Existing
                            /\ request[d] = Nobody /\ ~floating[d]
      /\ UNCHANGED <<status, maker, view, complete, request, floating, faults>>
  BY DEF MagicInv, Day, Typed
<1>2. binding' \in [Devices -> Binding]
  <2>1. ASSUME NEW d \in Devices
        PROVE  [binding[d] EXCEPT !.stale = @ \/ binding[d].chat # Nobody,
                                  !.createOld = binding[d].createStep # "None",
                                  !.waits = {}] \in Binding
    <3>1. binding[d] \in Binding
      BY <1>1 DEF Typed
    <3> QED
      BY <3>1 DEF Binding
  <2> QED
    BY <2>1 DEF Day
<1>3. Typed'
  BY <1>1, <1>2 DEF Typed
<1>4. Opened' = Opened /\ Existing' = Existing /\ Unmade' = Unmade
      /\ \A e : Mine(e)' = Mine(e)
  BY <1>1 DEF Existing, Unmade, Mine, Opened
<1>5. ASSUME NEW d \in Devices PROVE PerDevice(d)'
  <2>1. d \notin Opened /\ request[d] # Create
    BY <1>1, Distinct DEF Opened
  <2>2. Mine(d) \subseteq view[d]
    BY <1>1 DEF Mine
  <2> QED
    BY <1>1, <1>4, <2>1, <2>2 DEF PerDevice
<1> QED
  BY <1>3, <1>4, <1>5, FewerOpened DEF MagicInv

\* Somebody joins or leaves a chat, or it is deleted.
LEMMA ChangeKeeps ==
  ASSUME MagicInv, Change
  PROVE  MagicInv'
<1>1. Typed /\ UNCHANGED <<maker, binding, view, complete, request, floating>>
      /\ faults' \in Nat
  BY DEF MagicInv, Typed, Change, Fault
<1>2. PICK c \in Existing, s \in {"Sole", "Shared", "Gone"} :
        status' = [status EXCEPT ![c] = s]
  BY DEF Change
<1>3. status' \in [Chats -> {"None", "Sole", "Shared", "Gone"}]
  BY <1>1, <1>2 DEF Typed
<1>4. Existing' \subseteq Existing /\ Unmade' = Unmade
  BY <1>1, <1>2 DEF Typed, Existing, Unmade
<1>5. Opened' = Opened /\ \A e : Mine(e)' \subseteq Mine(e)
  BY <1>1, <1>4 DEF Opened, Mine
<1>6. Typed'
  BY <1>1, <1>3 DEF Typed
<1>7. ASSUME NEW d \in Devices PROVE PerDevice(d)'
  BY <1>1, <1>4, <1>5, OthersKeep DEF MagicInv
<1> QED
  BY <1>4, <1>5, <1>6, <1>7, FewerOpened DEF MagicInv
---------------------------------------------------------------------------
(* The invariant, and what it says.                                        *)

\* Every step of a device, of the others in a chat and of time keeps it.
LEMMA StepKeeps ==
  ASSUME MagicInv, [Next]_vars
  PROVE  MagicInv'
<1>1. ASSUME NEW d \in Devices,
             \/ Lookup(d) \/ Verified(d) \/ Created(d) \/ Late(d) \/ Failed(d)
             \/ Restart(d) \/ Update(d) \/ Load(d) \/ ManualCheck(d)
      PROVE  MagicInv'
  BY <1>1, LookupKeeps, VerifiedKeeps, CreatedKeeps, LateKeeps, FailedKeeps,
     RestartKeeps, UpdateKeeps, LoadKeeps, ManualCheckKeeps
<1>2. CASE UNCHANGED vars
  BY <1>2 DEF vars, MagicInv, Typed, PerDevice, Mine, Existing, Unmade, Opened
<1> QED
  BY <1>1, <1>2, DayKeeps, ChangeKeeps DEF Next

\* No device has made or sent anything at first.
LEMMA InitMagic == Init => MagicInv
<1> SUFFICES ASSUME Init PROVE MagicInv
  OBVIOUS
<1>1. Typed
  <2>1. Unbound \in Binding
    BY DEF Unbound, Binding
  <2> QED
    BY <2>1 DEF Init, Typed
<1>2. Existing = {} /\ Opened = {}
  BY Distinct DEF Init, Existing, Opened
<1>3. \A d \in Devices : PerDevice(d)
  BY <1>1, <1>2, Distinct DEF Init, PerDevice, Mine, Typed
<1>4. Cardinality(Opened) <= Cardinality(Unmade)
  <2>1. Cardinality(Unmade) \in Nat /\ Cardinality({}) = 0
    BY Counts, FS_EmptySet DEF Unmade
  <2> QED
    BY <1>2, <2>1
<1> QED
  BY <1>1, <1>3, <1>4 DEF MagicInv

\* A device makes no second chat while one it made is there, or while a
\* creation it sent may still arrive (PlanSyncChatLookup, for any number of
\* devices, lost answers and restarts).
THEOREM NeverTwoChats == Spec => []OneChatEach
<1>1. MagicInv => OneChatEach
  <2> SUFFICES ASSUME MagicInv, NEW d \in Devices
               PROVE  Cardinality({c \in Existing : maker[c] = d})
                        + (IF d \in Opened THEN 1 ELSE 0) <= 1
    BY DEF OneChatEach
  <2>1. /\ d \in Opened => Mine(d) = {}
        /\ \A b, c \in Mine(d) : b = c
    BY DEF MagicInv, PerDevice
  <2>2. CASE Mine(d) = {}
    BY <2>2, FS_EmptySet DEF Mine
  <2>3. CASE Mine(d) # {}
    <3>1. PICK c : Mine(d) = {c}
      BY <2>1, <2>3
    <3>2. Cardinality({c}) = 1
      BY FS_Singleton
    <3> QED
      BY <2>1, <2>3, <3>1, <3>2 DEF Mine
  <2> QED
    BY <2>2, <2>3
<1> QED
  BY <1>1, InitMagic, StepKeeps, PTL DEF Spec

\* Bindings keep the states of SyncChatBinding, lists show chats that exist, and a
\* request is for a chat or for a new one, whatever fails in between.
THEOREM MagicAlwaysTyped == Spec => []Typed
<1>1. MagicInv => Typed
  BY DEF MagicInv
<1> QED
  BY <1>1, InitMagic, StepKeeps, PTL DEF Spec
=============================================================================
