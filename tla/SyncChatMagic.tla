-------------------------- MODULE SyncChatMagic ---------------------------
(***************************************************************************)
(* How the devices of an account find or create their sync chat            *)
(* (purple_sync_chat_magic.cpp).  Each looks at its own chat list, verifies*)
(* the oldest chat of the right title by reading its full info, binds it,  *)
(* and creates one when complete lists show none.  Two devices may create  *)
(* at once, a creation may be answered late or never, other people may be  *)
(* in a chat when it is verified: the devices still have to end in one.    *)
(*                                                                         *)
(* Chats are numbered by their ids, which grow.  A device knows the counts *)
(* of a chat as they are now or does not know them (Unverified); every     *)
(* reason for a chat to be ineligible is "Shared" or "Gone".  A problem is *)
(* one flag: which it is only matters to what is shown.  Times are told    *)
(* apart by one fact each: whether 24 hours are over.  A manual binding    *)
(* looks at no other chat and is left out.                                 *)
(***************************************************************************)
EXTENDS Integers, FiniteSets, FiniteSetsExt

CONSTANTS
    Devices,
    Nobody,   \* no chat
    MaxChats, \* bound: chats created
    MaxFaults \* bound: lost answers, floods, refusals and restarts
              \* of clients, and changes of who is in a chat

Chats == 1..MaxChats
Create == 0 \* the request for a new chat

ASSUME MagicAssumption ==
    /\ IsFiniteSet(Devices)
    /\ MaxChats \in Nat /\ MaxFaults \in Nat
    /\ Nobody \notin Chats \cup {Create}

VARIABLES
    status,   \* chat -> None, Sole, Shared or Gone, on the server
    maker,    \* history: chat -> the device that created it
    binding,  \* device -> its SyncChatBinding
    view,     \* device -> the magic chats in its local lists
    complete, \* device -> listsComplete
    request,  \* device -> the chat it verifies, Nobody, or Create
    floating, \* device -> a creation was sent and nobody waits for it
    faults

vars == <<status, maker, binding, view, complete, request, floating, faults>>

Unbound ==
    [chat |-> Nobody, stale |-> FALSE, createStep |-> "None", createOld |-> FALSE,
     rejected |-> {}, problem |-> FALSE, waits |-> {}]

Init ==
    /\ status = [c \in Chats |-> "None"]
    /\ maker = [c \in Chats |-> Nobody]
    /\ binding = [d \in Devices |-> Unbound]
    /\ view = [d \in Devices |-> {}]
    /\ complete = [d \in Devices |-> FALSE]
    /\ request = [d \in Devices |-> Nobody]
    /\ floating = [d \in Devices |-> FALSE]
    /\ faults = 0

Existing == {c \in Chats : status[c] \in {"Sole", "Shared"}}
Unmade == {c \in Chats : status[c] = "None"}
Opened == {d \in Devices : request[d] = Create \/ floating[d]}

Set(d, b) == binding' = [binding EXCEPT ![d] = b]

---------------------------------------------------------------------------
\* Chats in the lists that are known to be ineligible now: any of those that are.
Known(d) == SUBSET {c \in view[d] : status[c] # "Sole"}

\* What PickMagicChat chooses from: not rejected, eligible or unverified.
Admitted(d, bad) == view[d] \ (bad \cup binding[d].rejected)

PickMagicChat(cs) == Min(cs)

\* mutant: a bound device looks at no other chat.
KeepsBound(d, bad) == binding[d].chat = Nobody /\ Admitted(d, bad) # {}

\* There is a chat to bind instead of the bound one, or of none.
Better(d, bad) ==
    /\ Admitted(d, bad) # {}
    /\ binding[d].chat = Nobody \/ PickMagicChat(Admitted(d, bad)) < binding[d].chat

BoundUsable(d, bad) == binding[d].chat \in view[d] \ bad

CreatesAgain(b) == TRUE  \* mutant: an open creation does not keep from another

\* No creation that may still arrive.  The code asks in addition that the creation
\* does not lie in the future: the clock of a device is taken never to be set back.
MayCreate(b) == b.createStep = "None" \/ b.createOld

\* PlanSyncChatLookup, with the request the client sends for it.  fresh: the
\* trigger needs evidence, or the counts of the bound chat are not known.
Verify(d, c) ==
    /\ "info" \notin binding[d].waits
    /\ request' = [request EXCEPT ![d] = c]
    /\ UNCHANGED <<status, maker, binding, view, complete, floating, faults>>

Looking(d) == request[d] = Nobody /\ ~binding[d].problem

LookVerify(d, bad, fresh) ==
    /\ Looking(d)
    /\ binding[d].chat # Nobody => BoundUsable(d, bad)
    /\ IF Better(d, bad) THEN Verify(d, PickMagicChat(Admitted(d, bad)))
       ELSE /\ binding[d].chat # Nobody
            /\ binding[d].stale /\ fresh
            /\ Verify(d, binding[d].chat)

LookProblem(d, bad) ==
    /\ Looking(d)
    /\ IF binding[d].chat = Nobody
       THEN ~Better(d, bad) /\ complete[d] /\ view[d] # {}
       ELSE /\ ~BoundUsable(d, bad)
            /\ \/ binding[d].chat \in view[d] \/ complete[d]
               \/ status[binding[d].chat] = "Gone"
    /\ Set(d, [binding[d] EXCEPT !.problem = TRUE])
    /\ UNCHANGED <<status, maker, view, complete, request, floating, faults>>

LookCreate(d) ==
    /\ Looking(d)
    /\ binding[d].chat = Nobody
    /\ complete[d] /\ view[d] = {}
    /\ MayCreate(binding[d])
    /\ Cardinality(Opened) < Cardinality(Unmade) \* bound: no more than MaxChats
    /\ "create" \notin binding[d].waits
    /\ Set(d, [binding[d] EXCEPT !.createStep = "Requested", !.createOld = FALSE])
    /\ request' = [request EXCEPT ![d] = Create]
    /\ UNCHANGED <<status, maker, view, complete, floating, faults>>

Lookup(d) ==
    \/ \E bad \in Known(d), fresh \in BOOLEAN : LookVerify(d, bad, fresh)
    \/ \E bad \in Known(d) : LookProblem(d, bad)
    \/ LookCreate(d)

---------------------------------------------------------------------------
\* CompleteSyncChatVerify, for a chat that passed.
Bound(b, c) ==
    [b EXCEPT !.chat = c, !.stale = FALSE, !.createStep = "None", !.createOld = FALSE,
              !.problem = FALSE]

\* RecordSyncChatVerifyProblem: only the bound chat's problem is raised.
VerifyProblem(b, c) ==
    IF b.chat = c THEN [b EXCEPT !.problem = TRUE]
    ELSE [b EXCEPT !.rejected = @ \cup {c}]

Verified(d) ==
    LET c == request[d]
    IN  /\ c \in Chats
        /\ Set(d, IF status[c] = "Sole" THEN Bound(binding[d], c)
                  ELSE VerifyProblem(binding[d], c))
        /\ request' = [request EXCEPT ![d] = Nobody]
        /\ UNCHANGED <<status, maker, view, complete, floating, faults>>

\* The server makes the next chat for d.
NewChat(d) ==
    /\ status' = [status EXCEPT ![Min(Unmade)] = "Sole"]
    /\ maker' = [maker EXCEPT ![Min(Unmade)] = d]

Created(d) ==
    /\ request[d] = Create
    /\ NewChat(d)
    /\ Set(d, [binding[d] EXCEPT !.createStep = "Created"])
    /\ view' = [view EXCEPT ![d] = @ \cup {Min(Unmade)}]
    /\ request' = [request EXCEPT ![d] = Nobody]
    /\ UNCHANGED <<complete, floating, faults>>

\* A creation nobody waits for arrives, or does not.
Late(d) ==
    /\ floating[d]
    /\ floating' = [floating EXCEPT ![d] = FALSE]
    /\ NewChat(d) \/ UNCHANGED <<status, maker>>
    /\ UNCHANGED <<binding, view, complete, request, faults>>

Fault == faults < MaxFaults /\ faults' = faults + 1

\* ClassifySyncChatError: a wait is kept, a timeout only repeated, and what
\* became of a creation is not known then; anything else is a problem.
Failed(d) ==
    /\ Fault
    /\ request[d] # Nobody
    /\ request' = [request EXCEPT ![d] = Nobody]
    /\ LET b == binding[d]
           create == request[d] = Create
           answered == IF create THEN [b EXCEPT !.createStep = "None"] ELSE b
       IN  \/ /\ Set(d, [answered EXCEPT !.waits = @ \cup {IF create THEN "create" ELSE "info"}])
              /\ UNCHANGED floating
           \/ /\ Set(d, IF create THEN [b EXCEPT !.createStep = "Uncertain"] ELSE b)
              /\ floating' = [floating EXCEPT ![d] = @ \/ create]
           \/ /\ Set(d, IF create THEN [answered EXCEPT !.problem = TRUE]
                        ELSE VerifyProblem(b, request[d]))
              /\ UNCHANGED floating
    /\ UNCHANGED <<status, maker, view, complete>>

\* Lists are in memory, the binding is on disk.
Restart(d) ==
    /\ Fault
    /\ request' = [request EXCEPT ![d] = Nobody]
    /\ floating' = [floating EXCEPT ![d] = @ \/ request[d] = Create]
    /\ view' = [view EXCEPT ![d] = {}]
    /\ complete' = [complete EXCEPT ![d] = FALSE]
    /\ UNCHANGED <<status, maker, binding>>

---------------------------------------------------------------------------
\* A chat comes into or leaves the local lists, or all of them are loaded.
Update(d) ==
    /\ \/ \E c \in Existing \ view[d] : view' = [view EXCEPT ![d] = @ \cup {c}]
       \/ \E c \in view[d] \ Existing : view' = [view EXCEPT ![d] = @ \ {c}]
    /\ UNCHANGED <<status, maker, binding, complete, request, floating, faults>>

Load(d) ==
    /\ ~complete[d]
    /\ view' = [view EXCEPT ![d] = Existing]
    /\ complete' = [complete EXCEPT ![d] = TRUE]
    /\ UNCHANGED <<status, maker, binding, request, floating, faults>>

\* The user clears the problem and has every candidate considered again
\* (ClearSyncChatProblem, ReadmitSyncChatCandidates), when a lookup is at rest.
ManualCheck(d) ==
    /\ request[d] = Nobody
    /\ binding[d].problem \/ ~Better(d, {})
    /\ binding[d].problem \/ binding[d].rejected # {}
    /\ Set(d, [binding[d] EXCEPT !.problem = FALSE, !.rejected = {}])
    /\ UNCHANGED <<status, maker, view, complete, request, floating, faults>>

\* 24 hours: every answer and every update has arrived or is lost.  The code looks
\* at the clock alone; that nothing is slower is an assumption about the server.
Day ==
    /\ \A d \in Devices :
         request[d] = Nobody /\ ~floating[d] /\ complete[d] /\ view[d] = Existing
    /\ binding' = [d \in Devices |->
         [binding[d] EXCEPT !.stale = @ \/ binding[d].chat # Nobody,
                            !.createOld = binding[d].createStep # "None",
                            !.waits = {}]]
    /\ UNCHANGED <<status, maker, view, complete, request, floating, faults>>

\* Somebody joins or leaves a chat, or it is deleted.
Change ==
    /\ Fault
    /\ \E c \in Existing, s \in {"Sole", "Shared", "Gone"} :
         status[c] # s /\ status' = [status EXCEPT ![c] = s]
    /\ UNCHANGED <<maker, binding, view, complete, request, floating>>

Next ==
    \/ \E d \in Devices :
         \/ Lookup(d) \/ Verified(d) \/ Created(d) \/ Late(d) \/ Failed(d)
         \/ Restart(d) \/ Update(d) \/ Load(d) \/ ManualCheck(d)
    \/ Day
    \/ Change

\* Clients look again whenever a list changes or a deadline passes, requests are
\* answered, lists load and time passes.  A user checks a device again and again
\* while it has a problem or a rejected chat (between its daily verifications).
Fairness ==
    /\ \A d \in Devices :
         /\ WF_vars(Lookup(d))
         /\ WF_vars(Verified(d) \/ Created(d))
         /\ WF_vars(Late(d))
         /\ WF_vars(Update(d))
         /\ WF_vars(Load(d))
         /\ SF_vars(ManualCheck(d))
    /\ SF_vars(Day)

Spec == Init /\ [][Next]_vars /\ Fairness

---------------------------------------------------------------------------
\* A device makes no second chat while one it made is there, or while a creation
\* it sent may still arrive: not after a timeout, a restart or an incomplete list.
OneChatEach ==
    \A d \in Devices :
      Cardinality({c \in Existing : maker[c] = d})
        + (IF d \in Opened THEN 1 ELSE 0) <= 1

\* Whoever created what, and whatever was verified at a bad moment: once nothing
\* fails any more the devices are bound to the oldest usable chat, except one
\* whose own chat is not usable, which has told its user.
Settled ==
    LET usable == {c \in Chats : status[c] = "Sole"}
    IN  usable # {} =>
          \A d \in Devices :
            \/ binding[d].chat = Min(usable)
            \/ binding[d].chat # Nobody /\ status[binding[d].chat] # "Sole"

Converges == <>[]Settled
=============================================================================
