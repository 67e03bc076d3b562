-------------------------- MODULE ArchiveStaging --------------------------
(***************************************************************************)
(* The download of one captured file (purple_archive_staging.cpp).  Workers*)
(* write windows of the file as encrypted pieces and move a header from    *)
(* checkpoint to checkpoint by compare-and-swap.  When every byte is       *)
(* covered a finalizer reads the frozen checkpoint twice, once for the     *)
(* hash and once to publish the chunks of the blob, and completes the job. *)
(*                                                                         *)
(* A hash is what it is the hash of, so the root of a header is the pages  *)
(* themselves and a page names its piece by the bytes of the window.       *)
(* Frames are authenticated: a piece that does not open is a piece that is *)
(* not there.  What the code refuses (NoChange, Conflict, Stale, Integrity *)
(* failures) is not a step, or ends the work of the one who tried.  The    *)
(* binding's fence is job = "Staged": an edit, a purge or a removed        *)
(* account ends the job for good.                                          *)
(***************************************************************************)
EXTENDS Integers, Sequences, FiniteSets, FiniteSetsExt

CONSTANTS
    Workers,     \* downloads under way
    Original,    \* the bytes the message was captured with
    Facts,       \* worker -> what it is sent: bytes from..to of a window of a source
    Zero,        \* the byte of a window that is not covered
    WindowBytes, \* kArchiveStagingWindowBytes
    ChunkBytes,  \* kArchiveMediaChunkBytes
    Nothing,     \* no header, no page, no update, no session, no hash
    MaxFaults    \* bound: restarts, lost pieces and stagings given up

Total == Len(Original)

VARIABLES
    job,      \* the media job: Staged, Cancelled or Complete
    owned,    \* the blob of the completed reference
    expected, \* binding.expectedBlobHash, or Nothing
    header,   \* the durable ArchiveStagingHeader
    frozen,   \* the durable snapshot of a covered header
    pieces,   \* durable pieces: <<window, bytes>>
    lost,     \* history: pieces the disk has lost
    chunks,   \* durable chunks: <<blob, index, bytes>>
    update,   \* worker -> the ArchiveStagingUpdate it carries out, and how far
    session,  \* the ArchiveStagingFinalizer
    faults

durable == <<job, owned, expected, header, frozen, pieces, lost, chunks>>
vars == <<durable, update, session, faults>>

ArchiveStagingPageCount == (Total - 1) \div WindowBytes + 1
Windows == 1..ArchiveStagingPageCount
WindowStart(w) == (w - 1) * WindowBytes
WindowSize(w) == Min({WindowBytes, Total - WindowStart(w)})
ChunkCount == (Total - 1) \div ChunkBytes + 1
ChunkSize(k) == Min({ChunkBytes, Total - (k - 1) * ChunkBytes})

Bytes == Seq(STRING)

\* A page, and what the client and the finalizer keep; nothing is none of them.
Page == [checkpoint : Nat, image : Bytes, cover : SUBSET Nat]
Header == [checkpoint : Nat, root : [Windows -> Page \cup {Nothing}],
           coveredBytes : Nat, pages : Nat]
Update == [step : {"planned", "written"}, expected : Header, window : Windows,
           image : Bytes, next : Header]
Session ==
    [phase : {"Verify", "Reseal", "AwaitPublication", "AwaitCompletion", "Finished"},
     request : {"Page", "Piece", "Publish", "Complete", "Finished"},
     checkpoint : Header, window : Nat, hash : Bytes, verifiedHash : Bytes \cup {Nothing},
     buffer : Bytes, publishedChunks : Nat, durable : BOOLEAN]

ASSUME StagingAssumption ==
    /\ Original \in Bytes /\ Zero \in STRING
    /\ Nothing \notin Bytes \cup Page \cup Header \cup Update \cup Session
    /\ \A k \in Workers : \A f \in Facts[k] :
         /\ f.source \in Bytes
         /\ Len(f.source) = Total
         /\ f.window \in Windows
         /\ f.to \in 1..WindowSize(f.window) /\ f.from \in 1..f.to
    /\ Total >= 1
    /\ WindowBytes \in Nat \ {0} /\ ChunkBytes \in Nat \ {0}
    /\ ChunkBytes % WindowBytes = 0
    /\ MaxFaults \in Nat

EmptyHeader ==
    [checkpoint |-> 0, root |-> [w \in Windows |-> Nothing], coveredBytes |-> 0, pages |-> 0]

Idle == [k \in Workers |-> Nothing]

Init ==
    /\ job = "Staged"
    /\ owned = Nothing
    /\ expected \in {Nothing, Original}
    /\ header = Nothing
    /\ frozen = Nothing
    /\ pieces = {}
    /\ lost = {}
    /\ chunks = {}
    /\ update = Idle
    /\ session = Nothing
    /\ faults = 0

---------------------------------------------------------------------------
\* CheckArchiveStagingBinding.
BindingReady == job = "Staged"

\* BeginArchiveStaging: the catalogue has no header of the job.
Begin ==
    /\ BindingReady
    /\ header = Nothing
    /\ header' = EmptyHeader
    /\ UNCHANGED <<job, owned, expected, frozen, pieces, lost, chunks, update, session, faults>>

Fetched(f) == f.from..f.to
Byte(f, o) == f.source[WindowStart(f.window) + o]

CoverOf(page) == IF page = Nothing THEN {} ELSE page.cover
ImageOf(w, page) == IF page = Nothing THEN [o \in 1..WindowSize(w) |-> Zero] ELSE page.image
Complete(w, page) == page # Nothing /\ page.cover = 1..WindowSize(w)

Overwrites(f, page) == TRUE  \* mutant: bytes that are there already are written over

\* No byte that is there already differs.
Agrees(f, page) ==
    \A o \in Fetched(f) \cap CoverOf(page) : page.image[o] = Byte(f, o)

AddedAll(f, page) == f.to - f.from + 1  \* mutant: bytes that are there are counted again

Added(f, page) == Cardinality(Fetched(f) \ CoverOf(page))

NextPage(f, page) ==
    [checkpoint |-> header.checkpoint + 1,
     image |-> [o \in 1..WindowSize(f.window) |->
        IF o \in Fetched(f) THEN Byte(f, o) ELSE ImageOf(f.window, page)[o]],
     cover |-> CoverOf(page) \cup Fetched(f)]

\* PlanArchiveStagingPiece, for a worker that got f and has read the header,
\* the page of the window and its piece.
Plan(k, f) ==
    /\ BindingReady
    /\ update[k] = Nothing
    /\ header # Nothing
    /\ LET page == header.root[f.window]
           next == NextPage(f, page)
       IN  /\ page # Nothing => <<f.window, page.image>> \in pieces
           /\ Agrees(f, page)
           /\ ~(Fetched(f) \subseteq CoverOf(page))
           /\ Added(f, page) <= Total - header.coveredBytes
           /\ update' = [update EXCEPT ![k] =
                [step |-> "planned", expected |-> header, window |-> f.window,
                 image |-> next.image,
                 next |-> [checkpoint |-> header.checkpoint + 1,
                           root |-> [header.root EXCEPT ![f.window] = next],
                           coveredBytes |-> header.coveredBytes + Added(f, page),
                           pages |-> header.pages + (IF page = Nothing THEN 1 ELSE 0)]]]
    /\ UNCHANGED <<durable, session, faults>>

\* The client makes the piece durable, or finds it there.
WritePiece(k) ==
    /\ update[k] # Nothing
    /\ update[k].step = "planned"
    /\ pieces' = pieces \cup {<<update[k].window, update[k].image>>}
    /\ lost' = lost \ {<<update[k].window, update[k].image>>}
    /\ update' = [update EXCEPT ![k].step = "written"]
    /\ UNCHANGED <<job, owned, expected, header, frozen, chunks, session, faults>>

\* The client commits header, page and checkpoint if the header is still the
\* one the plan was made for, and CompleteArchiveStagingPiece credits it.  A
\* worker that comes too late starts again.
Swap(k) ==
    /\ update[k] # Nothing
    /\ update[k].step = "written"
    /\ header' = IF header = update[k].expected THEN update[k].next ELSE header
    /\ update' = [update EXCEPT ![k] = Nothing]
    /\ UNCHANGED <<job, owned, expected, frozen, pieces, lost, chunks, session, faults>>

---------------------------------------------------------------------------
\* mutant: the last window is only counted when it is full.
CoveredFull(h) ==
    h # Nothing /\ h.coveredBytes = Total /\ h.pages = Total \div WindowBytes

Covered(h) ==
    h # Nothing /\ h.coveredBytes = Total /\ h.pages = ArchiveStagingPageCount

\* FreezeArchiveStagingCheckpoint.
Freeze ==
    /\ BindingReady
    /\ Covered(header)
    /\ frozen # header
    /\ frozen' = header
    /\ UNCHANGED <<job, owned, expected, header, pieces, lost, chunks, update, session, faults>>

SameHeader(checkpoint) == header = checkpoint

\* BeginArchiveStagingFinalize.
BeginFinalize ==
    /\ BindingReady
    /\ session = Nothing
    /\ frozen # Nothing
    /\ SameHeader(frozen)
    /\ Covered(frozen)
    /\ session' = [phase |-> "Verify", request |-> "Page", checkpoint |-> frozen,
                   window |-> 1, hash |-> <<>>, verifiedHash |-> Nothing,
                   buffer |-> <<>>, publishedChunks |-> 0, durable |-> FALSE]
    /\ UNCHANGED <<durable, update, faults>>

\* A refused session is of no use any more.
Refuse == session' = Nothing

\* AdvanceArchiveStagingFinalize looks at the fence and the header first.
SessionCurrent == BindingReady /\ SameHeader(session.checkpoint)

Advancing(request) == session # Nothing /\ session.request = request

\* The page of the window, authenticated against the frozen root.
AdvancePage ==
    /\ Advancing("Page")
    /\ IF SessionCurrent /\ Complete(session.window, session.checkpoint.root[session.window])
       THEN session' = [session EXCEPT !.request = "Piece"]
       ELSE Refuse
    /\ UNCHANGED <<durable, update, faults>>

\* Verified: the first pass is over.
Verified(s) == expected = Nothing \/ s.hash = expected

\* The chunk that is ready to be published.
PublishReady(s) ==
    /\ Len(s.buffer) = ChunkSize(s.publishedChunks + 1)
    /\ Len(s.hash) = Total => s.hash = s.verifiedHash

\* A piece of the first pass, which only hashes, or of the second, which
\* fills the buffer of the next chunk.
AdvancePiece ==
    /\ Advancing("Piece")
    /\ LET image == session.checkpoint.root[session.window].image
           read == [session EXCEPT !.hash = @ \o image, !.window = @ + 1, !.request = "Page"]
           filled == [read EXCEPT !.buffer = @ \o image]
       IN  IF ~SessionCurrent \/ <<session.window, image>> \notin pieces
           THEN Refuse
           ELSE IF session.phase = "Verify"
           THEN IF Len(read.hash) < Total THEN session' = read
                ELSE IF Verified(read)
                THEN session' = [read EXCEPT !.phase = "Reseal", !.window = 1, !.hash = <<>>,
                                             !.verifiedHash = read.hash]
                ELSE Refuse
           ELSE IF Len(filled.buffer) < ChunkBytes /\ Len(filled.hash) < Total
           THEN session' = filled
           ELSE IF PublishReady(filled)
           THEN session' = [filled EXCEPT !.phase = "AwaitPublication", !.request = "Publish"]
           ELSE Refuse
    /\ UNCHANGED <<durable, update, faults>>

\* The client makes the chunk durable, after CheckArchiveStagingPublication,
\* unless it is there from an earlier session under another nonce.
WriteChunk ==
    /\ Advancing("Publish")
    /\ ~session.durable
    /\ SessionCurrent
    /\ chunks' = chunks \cup {<<session.verifiedHash, session.publishedChunks + 1, session.buffer>>}
    /\ session' = [session EXCEPT !.durable = TRUE]
    /\ UNCHANGED <<job, owned, expected, header, frozen, pieces, lost, update, faults>>

DurableUnchecked(s) == TRUE  \* mutant: a planned publication is taken for a durable one
Acknowledged(s) == s.durable

\* The acknowledgement of a chunk.
AdvancePublished ==
    /\ Advancing("Publish")
    /\ IF SessionCurrent
       THEN /\ Acknowledged(session)
            /\ LET done == Len(session.hash) = Total
               IN  session' = [session EXCEPT
                     !.publishedChunks = @ + 1, !.buffer = <<>>, !.durable = FALSE,
                     !.phase = IF done THEN "AwaitCompletion" ELSE "Reseal",
                     !.request = IF done THEN "Complete" ELSE "Page"]
       ELSE Refuse
    /\ UNCHANGED <<durable, update, faults>>

\* The last step plans the completion of the job.
AdvanceComplete ==
    /\ Advancing("Complete")
    /\ IF /\ SessionCurrent
          /\ session.hash = session.verifiedHash
          /\ session.publishedChunks = ChunkCount
       THEN session' = [session EXCEPT !.phase = "Finished", !.request = "Finished"]
       ELSE Refuse
    /\ UNCHANGED <<durable, update, faults>>

\* The client commits the plan to the archive it was made for.
CommitCompletion ==
    /\ Advancing("Finished")
    /\ IF job = "Staged"
       THEN job' = "Complete" /\ owned' = session.verifiedHash
       ELSE UNCHANGED <<job, owned>>
    /\ session' = Nothing
    /\ UNCHANGED <<expected, header, frozen, pieces, lost, chunks, update, faults>>

---------------------------------------------------------------------------
\* The job ends in the archive: its body is edited or purged, the account goes.
Cancel ==
    /\ job = "Staged"
    /\ job' = "Cancelled"
    /\ UNCHANGED <<owned, expected, header, frozen, pieces, lost, chunks, update, session, faults>>

Fault == faults < MaxFaults /\ faults' = faults + 1

\* Workers and finalizer are forgotten.
Crash ==
    /\ Fault
    /\ update # Idle \/ session # Nothing
    /\ update' = Idle
    /\ session' = Nothing
    /\ UNCHANGED durable

\* A piece does not authenticate any more.
LosePiece ==
    /\ Fault
    /\ \E p \in pieces : pieces' = pieces \ {p} /\ lost' = lost \cup {p}
    /\ UNCHANGED <<job, owned, expected, header, frozen, chunks, update, session>>

\* The client gives up what was staged, to start again; workers may be late.
Abandon ==
    /\ Fault
    /\ header # Nothing /\ session = Nothing
    /\ header' = Nothing
    /\ UNCHANGED <<job, owned, expected, frozen, pieces, lost, chunks, update, session>>

Download(k) ==
    \/ \E f \in Facts[k] : f.source = Original /\ Plan(k, f)
    \/ WritePiece(k)
    \/ Swap(k)

Finalize ==
    \/ Freeze
    \/ BeginFinalize
    \/ AdvancePage
    \/ AdvancePiece
    \/ WriteChunk
    \/ AdvancePublished
    \/ AdvanceComplete
    \/ CommitCompletion

Next ==
    \/ Begin
    \/ \E k \in Workers : Download(k) \/ \E f \in Facts[k] : Plan(k, f)
    \/ Finalize
    \/ Cancel
    \/ Crash
    \/ LosePiece
    \/ Abandon

Fairness == WF_vars(Begin) /\ WF_vars(Finalize) /\ \A k \in Workers : WF_vars(Download(k))

Spec == Init /\ [][Next]_vars /\ Fairness

---------------------------------------------------------------------------
PagesOf(h) == {w \in Windows : h.root[w] # Nothing}
CoveredOf(h) == UNION {{w} \X h.root[w].cover : w \in PagesOf(h)}

\* The durable header says what the disk holds: its counters are those of its
\* pages, no page is newer than it, and every page has its piece unless the
\* disk lost it, whatever races and crashes there were between a piece and the
\* swap of the header.
HeaderValid ==
    header # Nothing =>
      /\ header.pages = Cardinality(PagesOf(header))
      /\ header.coveredBytes = Cardinality(CoveredOf(header))
      /\ \A w \in PagesOf(header) :
           /\ header.root[w].cover # {}
           /\ header.root[w].checkpoint \in 1..header.checkpoint
           /\ \A o \in 1..WindowSize(w) :
                o \notin header.root[w].cover => header.root[w].image[o] = Zero
           /\ <<w, header.root[w].image>> \in pieces \cup lost

\* A byte that was covered stays covered and stays the byte it was, until the
\* staging is given up: workers that overlap or disagree do not undo each other.
CoverageKept ==
    [][\A w \in Windows :
         header # Nothing /\ header' # Nothing /\ header.root[w] # Nothing =>
           /\ header'.root[w] # Nothing
           /\ header.root[w].cover \subseteq header'.root[w].cover
           /\ \A o \in header.root[w].cover :
                header'.root[w].image[o] = header.root[w].image[o]]_vars

\* The bytes a covered header stands for.
Content(h) ==
    [n \in 1..Total |->
        h.root[((n - 1) \div WindowBytes) + 1].image[((n - 1) % WindowBytes) + 1]]

\* A completed job owns the file that is staged, not one of an earlier attempt,
\* and the bytes the message was captured with when their hash is known; each of
\* its chunks is on disk.
CompletedIsStaged ==
    job = "Complete" =>
      /\ header # Nothing => Covered(header) /\ owned = Content(header)
      /\ expected # Nothing => owned = expected
      /\ \A k \in 1..ChunkCount :
           <<owned, k, SubSeq(owned, (k - 1) * ChunkBytes + 1,
                              (k - 1) * ChunkBytes + ChunkSize(k))>> \in chunks

\* A piece the header needs is gone, or the server sent something else.
Gap ==
    /\ header # Nothing
    /\ \E w \in PagesOf(header) :
         LET page == header.root[w]
         IN  \/ <<w, page.image>> \notin pieces
             \/ \E o \in page.cover : page.image[o] # Original[WindowStart(w) + o]

\* As long as the server sends the file and the disk keeps it, the job ends,
\* whoever wins the races for the header and however often it is cut off.
StagingEnds == []<>(job # "Staged" \/ Gap)
=============================================================================
