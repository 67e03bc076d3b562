# A verification project for purple-core

purple-core is the pure C++ core that two Telegram clients share: settings
sync through a Telegram chat, the message archive, Work Mode and the media
helpers. It does no I/O of its own. A client supplies facts, the core returns
a decision and the next durable state, the client persists it and executes it.
What is hard is therefore in what may happen between two calls: crashes,
requests without an answer, another device, the user editing the file.

The modules here are TLA+ translations of that core, checked with TLC on small
instances and, where TLAPS reaches, proved for every value of the constants.
`PROJECT.json` holds the map from definitions to source lines, the runs, the
mutants that show each property can fail, the hazards and the findings.

## Inventory

| Component | State | Operations | Interacts with | Hard behaviour | Correct when |
|---|---|---|---|---|---|
| Local sync state (`purple_sync_local_state`) | `SyncLocalState`: counters, issued log (32), own-message ledger (256), base, pending key, chat | reserve, append issued, confirm, adopt, check deletion, remove absent, plan publish | read by every sync planner, stored by the client with the staged bytes | crash between steps, late requests, full log and ledger | the file always parses, no number is used twice, the staged record can always be finished |
| Sync chat move (`purple_sync_chat`, `_chat_magic`) | chat of the state; binding of the lookup | eligibility, ownership, move, lookup steps | rewrites the local state, resets the auto record | two devices creating chats, floods, rejected candidates, moving back | one chat is agreed on, nothing of the old chat is used |
| Account inventory (`purple_sync_inventory`) | none | classify and aggregate a read, reconcile own records | facts for the planners | incomplete pages, duplicates, foreign bytes | absence is only reported from a complete read |
| Version graph (`purple_config_sync`) | base, lineage, equivalents | classify, plan, adopt, make version, choose | verdicts for review and auto | concurrent edits, truncated lineages | no lost update, devices converge |
| Settings flow (`purple_sync_config_flow`) | none of its own | review, post, staged post, apply, commit, first use, recovery, start again | composes the four above | stale reviews, crash in apply or recovery | nothing unpublished is overwritten |
| Automatic sync (`purple_sync_auto`, `_auto_state`) | `SyncAutoRecord` | one event at a time: triggers, saves, retry timer, completions | drives all of the above through a client | saves during operations, unknown outcomes, restarts, retry budget | exact staged bytes are published once, user bytes are kept |
| Directory (`purple_sync_directory`) | none | elect the space | inventory | concurrent creation | all devices elect the same space |
| Archive store (`purple_archive_model`, `_store`, `_lifecycle`) | `ArchiveState`: messages with versions, media references, media jobs, reader leases, blob rows, generations | capture, hydrate, delete, purge, stage, complete, lease, collect | the client's files; a plan is committed only to the state it was made from | late and repeated captures, purges under way, bytes shared by several bodies | what is owned is on disk, what is purged stays purged, bodies are not rewritten |
| Archive SQL (`purple_archive_sql*`) | the same state in rows, a maintenance journal | reads and writes of bounded slices, paged purge, paged collection | SQLite | a purge cut off between two pages | it acts as the reducers of the store do |
| Archive staging (`purple_archive_staging`) | header and pages of a partly downloaded file, keyed to one revision of one job | begin, piece, freeze, verify, reseal, publish | the store's media jobs, storage of encrypted pieces and chunks | several workers, crashes, torn pieces | a completed file is the bytes that were captured |
| Work Mode (`purple_engine`, `_state`, `_settings`, `_splice`, `_screentime`) | layers, pins, usage counters, settings text | evaluate, toggle, edit, count | settings file and clock | clock changes, midnight, concurrent edits | rules and limits apply as written |
| Media (`purple_playback`, `_recording*`, `_round_journal`, repairs) | journal of a recording | append, scan, repair | files | torn writes | a recording is cut at its last complete entry |
| Codecs (`_envelope`, `_json`, `_config_payload`, `_account_files`, `_peer_token`) | none | parse, format | everything | malformed input | round trips |

## Modules

**`SyncLocalState`** is the durable state of one install reduced to its config
stream, as pure operators: what the parser accepts (`Serializes`), and one
guard with one result for each function that changes the state. Record bytes
are a number and a payload; a hash is the record itself, so SHA-256 is taken
to be injective. The code validates the state before and after every function
and answers InvalidState; the operators do not repeat that guard, so that
`StateSerializes` shows it is never reached.

**`SyncLedger`** puts these operators between a client and a server. The client
reads the whole chat, decides on that view, sends, and confirms only what a
later read shows. A request is applied, lost, or, when its session dies,
left as an orphan that may be applied later. `Move` binds another chat.

**`SyncAuto`** is `PlanSyncAuto`. Each call is one action: `Trigger` (session
ready, foreground, unlock), `Enable`, `Disable`, `Saved`, `RetryTimer`,
`Completed`. The nested returns of `Inventory()` are the operators `Inventory`,
`SettleRetiring`, `NextWork`, `FinishStaged`, `Review`, `ApplySuccessor`,
`StageLocalChanges` and `RetireOrFinish`, in the order of the code. Between
two calls the client executes the operation in the steps a crash can separate
(`Fetch`, `Store`, `WriteFile`, `CommitApply`, `Transmit`, `Serve`,
`Acknowledge`, ...); that part is not in the repository and follows
`docs/sync-auto.md`. Payloads are version keys (generation and text), and one
other device publishes at most one version, knowing this device's records or
not. Two history variables tell what may be published: `vouched` are the texts the
user saved and those applied from the chat, `reported` is what the file held when
a LocalSaved was delivered, which the code takes for what was saved. The clock is two facts: the 15 minutes are over (`due`), the retry
deadline is reached. The many reasons of `Gate` are one condition.

**`ConfigSync`** is `purple_config_sync`: `Classify`, `Plan`, `AdoptConfigHeads`,
`MakeConfigVersion`, `MaximalConfigHeads` and `PlanConfigChoice` as pure
operators over heads (install, sequence, key, lineage), for an install that
has joined the space. A settings text is its fingerprint. Where the code sorts
heads and takes the first, the operators take the least of a set under the
code's order. Lineages stay sequences, because their order decides what is
trimmed: a merged lineage is the keys at the places of the lines it is made of,
each where it stands first, ranked as the code's stable sort ranks them.

**`ConfigNet`** gives each install of a space a settings file, its sync state
and its newest record. `Take` is an answer that adopts heads, from
`PlanSyncConfigApply` to the commit; `Stage` is the publish gate with the
staging of `PlanSyncConfigPost`; `Post` and `Confirm` follow at any later time,
while others act. No install of it has moved to another chat
(`baseUnpublished`). A review needs no state of its own: an answer changes only
its own install and stops when the file or the state changed since, so it
happens when its inventory was read. `Hush` ends the editing; from then on an
install finishes what it stages before another acts.

**`ArchiveStore`** is the archive of one account: `Deliver` is
`PlanArchiveEvent`, `Purge`, `Stage`, `Complete`, `Fail`, `Acquire`, `Release`,
`MarkGarbage` and `ForgetBlob` are the other reducers. A reducer plans on a
state and the client commits the plan only while that state is current, so both
are one action, and `Commit` holds what every transaction does: it cancels the
jobs and revokes the leases whose body is gone. Media sharing, `KeepCopies` and
the hydration rules are operators of their own. Beside the state are the files
(`files`, `published`), which belong to the client: it puts verified bytes on
disk before a completion, and deletes only bytes whose row is pending. Two
duties of the client are assumed as `docs/archive-storage.md` states them.
Publication and deletion take turns, and a session whose bytes were deleted
publishes them again before it completes. And a reducer is given every
owner of the bytes it asks about; an incomplete slice of rows is not modelled.
`erased` is history.

**`ArchiveSqlPurge`** extends it with the maintenance journal. `Begin` bumps
the generations and closes the archive, `Page` takes any rows that are left of
a phase (row ids are keyed digests, so their order says nothing), `Advance` and
`Finish` move the journal. While it is there only files may change. `Store` is
`ArchiveStore` with `db <- Seen`: the archive in which what is left of the purge
has happened. The purge of the specification happens at `Begin`; every page,
and every change of phase, is a stuttering step.

**`ArchiveStaging`** is one media file on its way to the disk. Workers share one
header. Each plans a fetched piece against the header it read (`Plan`), makes it
durable (`WritePiece`) and swaps the header (`Swap`); a worker whose header is no
longer current starts again. The finalizer freezes a snapshot (`Freeze`) and
makes two passes over it, which are the `Advance...` actions: one adds up the
bytes, the other reseals them into the chunks of the archive file, until
`CommitCompletion` hands the file to the media job. The fence of the code is that the job
is still the one it began for and still staged. Bytes are values and a hash is
what it is a hash of; the tree of page proofs is the function from windows to
pages. The client writes pieces before the header that names them and chunks
before the acknowledgement, as `docs/archive-storage.md` demands. A crash ends
every session, a worker that was left behind may still swap, `LosePiece` is
damaged storage, and `Abandon` begins the staging again while no session runs.

**`SyncChatMagic`** is several devices looking for the sync chat: `Lookup` is
`PlanSyncChatLookup` with the request the client sends for its answer,
`Verified` is `CompleteSyncChatVerify`, `Failed` the classes of
`ClassifySyncChatError`. The chat lists (`view`, `complete`) are the client's and
follow the server in any order; the binding survives a restart, they do not.
A creation that was cut off is `floating`: the server makes the chat later or never.
A device may or may not know the counts of a chat (`bad` are those it
knows to be unusable), and `rejected` holds what was verified at a bad moment. Times
are two facts, both changed by `Day`: the last verification is old, the open
creation is. The 16 entries of `rejected` are more than the chats of a run. What
the client does to the creation record after an answered error is not in the
repository; the model clears it, as nothing was created.

The theorems are in modules of their own: `SyncLocalStateProofs` (what the
operators on the state do, for both modules that use them), `SyncLedgerProofs`,
`SyncAutoProofs`, `ConfigNetProofs`, `ArchiveStoreProofs`, `ArchiveSqlPurgeProofs`,
`ArchiveStagingProofs` and `SyncChatMagicProofs`. The section Proofs says what
each shows.

`MCSyncLedger`, `MCSyncAuto`, `MCConfigNet`, `MCArchiveStore`,
`MCArchiveSqlPurge`, `MCArchiveStaging` and `MCSyncChatMagic` instantiate the
modules for TLC. Operators
marked `mutant` are plausible wrong versions of the definition after them; no
specification uses them.

## Runs

| Run | Question | Bounds | Result |
|---|---|---|---|
| `ledger` | Do state file, ledger and chat stay consistent over losses, late requests, crashes and moves? | 2 payloads, 2 chats, 4 numbers, log and ledger of 2, 4 messages a chat, 1 orphan | holds |
| `ledger_returns_unpublished` | Does an empty ledger mean that nothing was published here? | 3 numbers, 3 messages | violated, finding 1 |
| `auto` | The automatic policy: a client that only posts and whose requests end with their session, and one that edits and has one request applied late | 2 texts, 3 generations, 2 numbers, 2 faults (1 for the second client), 2 changes of the file, 1 retry, 1 deletion a run | holds |
| `auto_finish` | Is a staged record finished? | 1 change of the file, 2 faults | holds under fairness |
| `auto_hold` | Is a deletion only held for changed ownership when something changed? | 3 numbers, 3 changes, 1 fault | violated, finding 2 |
| `auto_import` | Is every text that is published one the user saved or one from the chat? | 2 texts, 2 changes of the file, 1 fault | violated, finding 3 |
| `config` | Do answers keep their promises, is what a device took in not offered again, and does up to date mean one text, for newcomers too? | 3 installs, 3 texts, limit 64, 2 edits, 4 posts, from one version or from none published | holds |
| `config_settles` | Do trimmed lineages stay valid, do merged ones keep the history of all versions, and do devices agree once nobody edits? | 2 installs, 2 texts, limit 3, 4 edits, 5 posts, 14 turns | holds |
| `archive` | Do bodies, references, jobs, leases, rows and files stay in agreement over late captures, purges, shared bytes, collection and restarts? | 2 messages in 2 chats, 2 identities with the same bytes, 10 events delivered in any order, 2 jobs, 1 lease, 1 purge a chat | holds |
| `archive_sql` | Does a paged purge act as one step, and end? | 2 messages in 2 chats, 1 identity, 4 events, 2 jobs, 1 lease, one or both chats purged | holds |
| `archive_staging` | Does a completed job own exactly the staged bytes, and does a staging end? | 2 workers, 3 windows of 2 bytes, 5 bytes in chunks of 4, 2 sources that differ, 1 crash, lost piece or restart of the staging | holds, under fairness |
| `chat_lookup` | Do two devices end in one sync chat, and does neither create two? | 2 devices, 3 chats, 2 faults (floods, lost answers, refusals, restarts, changes of a chat) | holds, under fairness |

The log and the ledger hold 2 entries in `ledger`, fewer than the numbers
used, so that both limits are met; the retry budget of one is exhausted by two
faults, the deletion limit by two obsolete copies. Two numbers are enough for
a head and an older copy, which is all a deletion or an edit tells apart.
Crashes, failed answers, closed gates and disables share the fault bound.

`ledger` includes moves back to a chat that was left: `FreshChatUnpublished`
is what finding 1 leaves of the rule that an empty ledger means an unpublished
chat, it holds where the install has never published before the move. In `auto`
the variable `mode` is chosen once and tells the two clients apart.

The events of `archive` are one message captured in parts by two clients (two
hydrations that disagree, and one made for the result of another), edited,
confirmed and consumed, and a second message in another chat with the same
bytes. An identity stands for one blob. One purge of each chat and one of the
account is enough for each order of capture, purge and late capture. A
capture that was queued before a purge carries the old generation and is
refused as Stale in its first line; the model delivers only events with the
current one, which are the harder case. `archive_sql` has fewer captures, because each
row multiplies the ways a purge is cut into pages.

In `archive_staging` window and chunk differ and neither divides the file, so
the last window, the last chunk and a chunk that crosses windows are all there;
one window is fetched by both workers, from sources that disagree.
In `chat_lookup` both devices can create at once and one more chat can follow
after a timeout or a deletion; a device for which no chat number is left waits.

Three texts let a device be offered two contents besides its own, three
installs let two of them concur without the third. With the limit of 64 no
lineage of `config` is trimmed, which `NewcomerAgrees`
needs; `config_settles` lowers it to 3, the least that leaves `OwnStale` an
entry to compare, so that every trimming rule is at work. `TakesForGood` needs the
third install: the head that must not come back is one that another head was
built on while a third one's text is taken. `AdoptionKeepsHistory` needs no third one,
but five posts, for two versions of one text with different histories. Every other
run stops when its bounds are used up, so only `config_settles` checks deadlock.

`Settles` is liveness stated as safety: after `Hush` every step is counted, a
state without a step would be a deadlock unless everyone is up to date
(`Rest`), and after 14 steps everyone is. It needs no fairness beyond that
somebody goes on. It is claimed for two installs. Three installs with three
texts and two posts settled as well; with three posts and answers chosen
against agreement they were still exchanging texts after 30 turns, which is
neither a cycle shown nor a bound found.

Two assumptions about the server are part of the model. A request whose
session is gone may be applied at any later time if it is a post or a
deletion, but an edit has been applied or dropped by the time a later session
has read the whole chat: without it a late edit puts an old record over a new
one, which the code answers with a review hold. It is not enough that the edits of
one message take effect in the order they were sent. Then an old edit can make an
older copy, whose deletion is under way, a copy of the head; the client goes on
with that copy, and the deletion takes it (`DeletionKeepsHead` fails in `ledger`). So the models
say nothing of late edits. And a send queue that still
holds a post (`queued`) may or may not report it.

Fairness (`archive_sql`): a purge that was begun is continued until its journal
is gone. The maintenance row is durable, and the store answers everything else
with Maintenance until it has gone, so the client must resume it after a restart
(`docs/archive-storage.md`). Nothing else is fair in that run.

Fairness (`archive_staging`): the client begins a staged job, workers fetch the
captured bytes again until all are covered, and the finalizer goes on. A swap
that is lost is planned again, which is the loop `StagingEnds` is about. The
property excuses a staging with a lost piece or with bytes of another source:
that one is refused, and only abandoned by the client.

Fairness (`chat_lookup`): a client looks again when a list changes or a deadline
passes, requests are answered, lists load and updates arrive. Time passes, and a
user checks a device again and again while it shows a problem or has rejected a
chat; these two are strong, because a device that verifies its chat every day
is not at rest all the time. A creation that will arrive at all arrives within
the 24 hours for which the code waits, and by then every answer is there and
every list is current: without that `OneChatEach` is false. The code
looks at the clock alone (`purple_sync_chat_magic.cpp:180-183` and `195-199`). For
the same reason the clock of a device is taken never to be set back. Line 196 lets
a creation whose time lies in the future keep nobody from making another, so a
device whose clock goes back creates a second chat while the first may still
arrive; `MayCreate` leaves that case out.

Fairness (`auto_finish`): the client goes on with what it executes, reports
its completion, and fires the retry timer; triggers keep coming while nothing
runs. `docs/sync-auto.md` forbids a polling timer, so the last one is an
assumption about use: without it, Disable and Enable during an operation leave
a staged record waiting for the next foreground. `StagedFinishes` accepts a
hold as an end, since a hold is shown to the user.

## Findings

1. `SyncConfigAwaitsMovedPublish` takes an empty version 2 ledger for a chat
   in which this install published nothing. After moving away and back that is
   wrong, and the automatic policy holds NeedsReview.
2. A deletion whose outcome is unknown stays open while new local bytes are
   staged; the staged record then replaces the bytes the message is compared
   with. Every later inventory holds OwnershipChanged and the staged settings
   are not sent.
3. LocalSaved comes after the save debounce, and the policy takes the fingerprint of
   the file at that time for what was saved (`purple_sync_auto.cpp:462` and `476`).
   The client has a record of its own of what was saved, but staging asks for
   either of the two (line 367).
   An import that replaces the file in between is published as if the user had
   saved it, while `docs/sync-auto.md` says that an import is no save and that the
   fingerprint must come from a saved file. What holds in every case is
   `OnlyClaimedPublished`: the file an account starts with, and an import at any
   other time, are not published.

Met while modelling, without a run:

A device that keeps its own text when asked publishes the offered heads as
parents but does not record them as seen. It accounts for them by its
lineage, which holds 64 ancestors; after that many versions of its own the
other device's old record is offered again. With four installs it takes no
trimming: who keeps the own text against two offered contents publishes both heads
as parents and not the base (`purple_config_sync.cpp:648-657`), so what only the
history of the base accounted for is forgotten. `docs/config-sync.md` describes
the lineage as bounded and promises `seen` for the answers that take a
text in only, so this contradicts nothing; it is why `TakesForGood` is stated of
whoever takes a text in, or stages a publish.

`NoSilentDivergence` is checked for two installs. Random runs of three installs with
lineages cut at 3, and of four with none cut, found no exception. With four
installs, three texts and lineages cut at 3 there is one, in 33 steps: the cut of a
full lineage falls between keys of one generation, so its device is offered a
version again that it had accounted for, takes it, and publishes a version with the
generation and text of an older one that the others have in their lineages. They
call it Stale, its device has already seen what they published since, and all are
up to date with different texts. The limit of the code is 64, and no run of that
length was made.

A chat that is rejected while somebody else is in it stays rejected on that
device until a manual check, also after it is usable again. Two devices may sit
in different chats meanwhile, and neither shows a problem, while
`docs/sync-chat-magic.md` says that every device makes the same choice.
`Converges` therefore assumes the manual checks.

A repeated baseline at the order of the
head that names missing slots is always refused, even when they are the slots
the head has. `EventMissingSlots` stamps them with the revision of the event,
which differs from the revision of the head, and `PlanArchiveEvent` compares the
two. `CanRefreshHead` states it as `~e.open`.

An install that has moved to another chat publishes its base there unless a head
of the chat is that base already (`purple_config_sync.cpp`, `Plan`). The promise of
an answer is worked out on the heads of the classification, which leave out those
already seen (`PlanConfigChoice`, lines 686 to 691), and the apply plans on
all heads (`CompleteSyncConfigApply`). If the base is another device's head that
was already seen, an answer that picks an older head of the base's text is
promised as a publish, and the check after it finds it up to date. Found
with a variant of `ConfigNet` in which a state starts with `baseUnpublished`;
while no install has moved the two agree, which is the theorem `PromisesKept`.

## Proofs

The theorems hold for every value of the constants that satisfies the named
assumptions of the module: for all sets of payloads, chats, events, devices,
workers and every bound. Each inductive invariant was checked by TLC on the
constants of the run of its module before it was proved.

**`SyncLedger`**: `TypeOK`, `StateSerializes`, `StageIsPending` and
`OneRecordPerSeq`. None is inductive alone. `IInv` is their conjunction with
`ConfirmedReserved`: a reservation needs the counters to know its number is new,
a move needs the staged record in the issued log because the abandoned number
must be found there, and that the log keeps it rests on evicting the oldest
entry (`OldestExists`, `AppendFits`). `ConfirmedReserved` excludes a state the
parser accepts and no operation produces (no number reserved, one confirmed).
There is a lemma for each operation on the state, then one for each action.

`HeadPublished`, `DeletionKeepsHead` and `FreshChatUnpublished` need to know what
the requests under way can still do to the chats. `HInv` says so in parts: no
message id is given twice (`IdsUsed`), a view still holds except for old messages
that a late deletion takes (`ViewSound`), what an edit replaces is older than
what it brings and nothing else is about to delete it (`EditsRaise`), and a
deletion takes only what is older than the confirmed record (`DeletesOld`). The
last one is why the ledger has to know the head (`HeadInLedger`) before an older
copy may be asked for.

**`SyncAuto`**: the policy plans and the client executes, so `AInv` has a part
for each. `DataOK` is about the durable files: the state serializes, the stage is
what was reserved, numbers and texts written anywhere agree. `RecOK` is about the
record: its codec writes it, and its staged or retiring record contradicts
nothing written. `OpOK` is about the operation: it is the one the record waits
for, and its precomputed state still fits the state on disk. The core of the
proof is one lemma for each operator of the policy (`StagePlanned` to
`CompletePlanned`): given a record and an inventory that satisfy the invariant,
the plan does. It follows the nested returns of `PlanSyncAuto` once, so that
each event only has to show what it hands to the policy. From it follow
`TypeOK`, `RecordValid`, `StageIsPending`, `OneRecordPerSeq`,
`OnlyClaimedPublished` and the action properties `ApplyKeepsUnpublished` and
`SavesAreChecked`. The last one is more than an invariant can say, so every plan
carries along whether a queued save survives it (`SaveKept`).

A second invariant `HInv` on top of it, like the one of the ledger but with the
policy between a read and what is sent, gives `HeadPublished`, `NoDuplicatePost`
and `DeletionKeepsHead`. Two parts are new. A commit confirms only what a read
has seen, and that stays true until the commit (`CommitSound`), for an edit
cannot be under way after a complete read (`OneEditor`). And with a client
whose requests end with their session, a read is the chat itself until the
operation it leads to is over (`Once`): this is why no retry posts twice.

**`ConfigNet`**: `TypeOK`, `PlansValid`, `UpdateHidesNothing`, `PromiseKept`,
`TakesForGood` and `AdoptionKeepsHistory`, for any number of installs and texts and for lineages cut at any limit. The invariant
says of one install that its base has a valid lineage (older keys, each once, no
more than the limit), that its published head and its staged version have one, that
an own head is met only with a base or a pending key, and that the pending key is
that of the version staged or just posted. What is hard is that merging, sorting
and cutting keep lineages valid: a place of a line is a pair of numbers, an
order on the places ranks each at one position (`PlaceTaken`, `RankedIsWell`),
and of two places with one key only the earlier is kept. A version made of two
parents would hold the second one's key twice if it were in the first one's lineage;
that it is not is what `MaximalConfigHeads` and the base slot of
`ProposedParents` are for (`ProposedParentsGood`).

`PromiseKept` follows from the same invariant by an argument about two checks, the
one that was answered and one on the state the answer leaves. A check looks at new
heads only (`ClassifyIs`). The answer takes in the heads of its text and marks
the `Stale` ones, so what is left are heads of other contents (`LeftAfter`). They
stay unknown: what the install knows after an adoption it or an adopted head
knew before (`AdoptionKnows`), and a head that an adopted one was built on would
not have been offered (`StillOffered`). After an update or an adoption nothing is
left, so there is nothing to choose (`NoneLeft`, `NothingNew`). After a choice the
check of the classified heads, on which the promise is made, and the check of
all heads are the same (`SamePlan`), and whoever keeps the own text is asked again
about the same contents, so that a publish is proposed (`OwnTextProposed`).

The two action properties come from the same lemmas. A head offered after a step
is new to the state the step leaves, and of a check whose answer was carried
out only heads that were not Stale are (`LeftAfter`); a head that was accounted for
is Stale. A staged publish offers nothing until it is read back. That gives
`TakesForGood`. `AdoptionKeepsHistory` needs the other half of what merging does. Every
key has a first place (`NewPlacesAll`), ranking lists every place and lists
them in order (`RankedInOrder`, from counting what is before each), so a sorted
lineage holds every key, the newest first, and a cut drops only keys no newer than
those it leaves (`SortedNewestFirst`, `OldestDropped`). `AdoptedVersions` are the base
and all adopted heads, and these are all unknown heads of the text
(`TakeKeepsHistory`). Where a publish is staged no such head is there, as it would
be adopted first (`NoSameLeft`).

**`ArchiveStore`**: `TypeOK`, `StateValid`, `OwnedBytesOnDisk`,
`ErasedNeverReturns`, `BodiesOnlyGain` and `CopiesKept`. A reducer's plan is first
described by what it does to messages, references, jobs and rows; `Commit`,
which cancels jobs and revokes leases, then only takes staged references back.
With this split no reducer has to be followed through the commit. What makes the
properties inductive: the receipts of a message hold every version id it ever
had, so a purged message knows what it must refuse; versions of a message are in
order and have ids of their own, so a reference names one body; staged references
and staged jobs name each other; what is owned, leased or published has its row or
its file.

**`ArchiveSqlPurge`** implements `ArchiveStore` (`PurgesAreOneStep`), with `Seen`
for the archive: what is left of a purge is erased at once. While the archive is
open a step is the same action of the store. A purge that begins is all of
`PlanArchivePurge` for `Seen`, as it bumps generations before it keeps copies and
the two commute (`BumpedSeen`). The rest must not change `Seen`: `SeenFacts`
computes it without the reducers' steps, every message of the scope as `Final`, a
function of its bodies and of what is owned. A page of versions takes copies
which `Final` would have given (`VersionsPage`). A page of messages removes
bodies that own copies, but `VersionsDone` says that every body that stays has
taken its own, so what it ends as no longer depends on what is owned
(`MessagesPage`); this is why the phases are in this order. `Waiting` says
that staged jobs of the scope, whose generation is old, are still those their
references name, so that the one commit of the reference reducer cancels what
the phases cancel one by one. With it what is proved of `ArchiveStore` holds of
what the users of the SQL archive see.

**`ArchiveStaging`**: the type of the durable parts, `HeaderValid`, `CoverageKept`
and `CompletedIsStaged`. A worker that planned against an old header is harmless
because an update keeps saying what it changes of the header it expects
(`UpdateValid`), and expects one that lacks bytes: hence nothing replaces a
covered header, and the two passes of the finalizer hold a prefix of what that
header stands for (`SessionFits`). The lemmas on windows and chunks are
arithmetic for every file and every chunk that is a multiple of the window.

**`SyncChatMagic`**: `OneChatEach`, and the types of the bindings. A device
creates only when it is bound to no chat, its lists are complete and empty, and
no creation of it may still arrive. `PerDevice` says what that means for the
chats it made: they are in its lists whenever it may conclude from them. That the
server still has a number for each creation under way is a count of two sets.

The assumptions on the constants are what the code or the documents state. An
event is complete or has open slots but not both, and carries content exactly when
its origin does (`archive`); a hydrated or fetched piece is inside its window, and
the archive chunk is a multiple of the staging window, as their constants in
`purple_archive_staging.h` and `purple_archive_envelope.h` are (`staging`); generations begin at one and the retry
and deletion limits are not zero (`auto`); the installs of a space are finitely
many, a lineage may hold at least three keys and one equivalent key is kept
(`config`; the code has 64 and 16). `Nothing`, the value of what is not
there, is no job, lease or journal (`archive`, `archive_sql`).

Only model-checked:

- `NewcomerAgrees` and `NoSilentDivergence` of `ConfigNet`. They speak of whole
  histories (who knew whose head when). The first holds only while no lineage is
  cut, the second not for every limit (see Findings), so neither is a
  theorem of the specification as it stands;
- liveness, which the provers do not reach: `StagedFinishes`, `PurgeEnds`,
  `StagingEnds`, `Converges`; and `Settles`, which counts the steps of a bounded
  instance.

## Not modelled, and the plan

In this order:

1. `ConfigNet`: an abstract register of versions that it implements; installs
   that move to another chat; the preview of an install that has not joined.
2. `SyncAuto` implements `SyncLedger` under a refinement mapping.
3. `SyncSpace` (directory election), and a move found by `SyncChatMagic`
   composed with `SyncAuto` (`MoveSyncAutoRecord`); the manual binding.
4. The rest of the settings flow: apply, first use, recovery, start again.
5. `ArchiveStore`: account removal with its epochs, context binding of bodies.
   `ArchiveStaging`: the empty file.
6. `WorkMode`, `ScreenTime`, `RoundJournal`.

Codecs, TOML parsing and splicing, the impact analysis and the container
repairs are algorithms over bytes and texts whose inputs TLC cannot
enumerate usefully; the models take their results as data. They are most of
the lines: the vendored `toml.hpp` is a third of the implementation, and splice,
settings, settings difference and codecs are another quarter, so the map covers a
small share of all lines and most of what decides over durable state in sync and
archive. Of hazards without a model two more are known: a send resets the retry budget
(`purple_sync_auto.cpp:55`), so a send that always fails between good reads is
retried for ever, which `tests/test_sync_auto.cpp` endorses; and the parser
accepts a state with a confirmed but no reserved number
(`purple_sync_local_state.cpp:134`), which no operation produces.
