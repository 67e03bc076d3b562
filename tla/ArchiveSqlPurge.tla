------------------------- MODULE ArchiveSqlPurge --------------------------
(***************************************************************************)
(* Emptying the trash bin or the edit history of an archive kept in SQL    *)
(* (purple_archive_sql_maintenance.cpp).  A purge of any size is split     *)
(* into transactions of at most one page.  The first bumps the generations *)
(* and writes a journal, which closes the archive to everything else; the  *)
(* pages follow in phases, and a last one opens it again.  A crash between *)
(* two of them loses nothing: the journal says where to go on.             *)
(*                                                                         *)
(* Rows are paged in the order of keyed ids, which says nothing about      *)
(* their contents, so a page may hold any rows that are left of a phase.   *)
(* The queries for copies and the checks that the rows are unchanged       *)
(* always succeed while the archive is closed.                             *)
(***************************************************************************)
EXTENDS ArchiveStore

VARIABLE journal  \* the maintenance row, or Nothing: the archive is open

sqlVars == <<db, files, published, erased, journal>>

Phases == {"Versions", "Messages", "Jobs", "Leases", "Finish"}

PhaseAfter(phase) ==
    CASE phase = "Versions" -> "Messages"
      [] phase = "Messages" -> "Jobs"
      [] phase = "Jobs" -> "Leases"
      [] phase = "Leases" -> "Finish"

FirstPhaseMessages == "Messages"  \* mutant: histories go before copies are taken
FirstPhase == "Versions"

\* The maintenance row: what is purged, how far, and the rows already passed.
Journal ==
    [kind : {"Trashbin", "EditHistory"}, scope : Scopes, phase : Phases,
     passed : SUBSET ((Msgs \X Ids) \cup Msgs \cup Jobs \cup Leases)]

ASSUME SqlAssumption == Nothing \notin Journal

SqlInit == Init /\ journal = Nothing

---------------------------------------------------------------------------
\* Everything else needs the archive open, but for what touches files only.
WhileOpen ==
    /\ journal = Nothing
    /\ \/ \E e \in Events : Deliver(e)
       \/ \E j \in Jobs, m \in Msgs, i \in Identities :
            \E v \in VersionsOf(db, m) : Stage(j, m, v, i)
       \/ \E j \in Jobs : Publish(j) \/ Complete(j) \/ Fail(j)
       \/ \E l \in Leases, m \in Msgs, i \in Identities :
            \E v \in VersionsOf(db, m) : Acquire(l, m, v, i)
       \/ \E l \in Leases : Release(l)
       \/ MarkGarbage
       \/ \E b \in Blobs : ForgetBlob(b)
    /\ UNCHANGED journal

OnFiles ==
    /\ Crash \/ \E b \in Blobs : DeleteFile(b)
    /\ UNCHANGED journal

\* BeginArchiveSqlPurge.
Begin(kind, scope) ==
    /\ journal = Nothing
    /\ \A c \in Chats :
         scope = Account \/ c \in scope => db.account + db.chats[c] < MaxPurges
    /\ db' = BumpGenerations(db, scope)
    /\ journal' = [kind |-> kind, scope |-> scope, phase |-> FirstPhase, passed |-> {}]
    /\ erased' = erased \cup Removed(kind, scope)
    /\ UNCHANGED <<files, published>>

---------------------------------------------------------------------------
\* The rows a phase goes over (Query).
MessageRows ==
    {m \in Msgs :
       /\ InScope(journal.scope, m)
       /\ IF journal.kind = "Trashbin"
          THEN db.messages[m].deleted /\ ~db.messages[m].purged
          ELSE db.messages[m].versions # <<>>}

VersionRows ==
    {mv \in Msgs \X Ids :
       /\ InScope(journal.scope, mv[1])
       /\ \E v \in VersionsOf(db, mv[1]) :
            /\ v.id = mv[2]
            /\ \E i \in DOMAIN v.refs : v.refs[i] # "Complete"
            /\ Survives(journal.kind, db.messages[mv[1]], v)}

JobRows == {j \in Jobs : Staged(db, j) /\ InScope(journal.scope, db.jobs[j].msg)}

LeaseRows ==
    {l \in Leases : /\ db.leases[l] # Nothing
                    /\ ~db.leases[l].revoked
                    /\ InScope(journal.scope, db.leases[l].msg)}

Rows ==
    CASE journal.phase = "Versions" -> VersionRows
      [] journal.phase = "Messages" -> MessageRows
      [] journal.phase = "Jobs" -> JobRows
      [] journal.phase = "Leases" -> LeaseRows
      [] OTHER -> {}

RowsFromStart == Rows  \* mutant: the cursor is not used

\* The rows beyond the cursor.
Left == Rows \ journal.passed

\* ReconcilePurgeMedia: an incomplete reference takes an owned copy.
ReconciledRefs(v) ==
    [i \in DOMAIN v.refs |->
       IF v.refs[i] = "Complete" \/ i \in Owned(db) THEN "Complete"
       ELSE IF v.refs[i] = "Staged" THEN "Missing" ELSE v.refs[i]]

Reconciled(v) == [v EXCEPT !.refs = ReconciledRefs(v)]

\* What a page makes of a message.
PurgedMessage(msg) ==
    IF journal.kind = "Trashbin" THEN [msg EXCEPT !.versions = <<>>, !.purged = TRUE]
    ELSE [msg EXCEPT !.versions = <<Reconciled(Newest(@))>>]

\* The bodies of m after a page of versions.
PagedVersions(page, m) ==
    LET vs == db.messages[m].versions
    IN  [k \in DOMAIN vs |-> IF <<m, vs[k].id>> \in page THEN Reconciled(vs[k]) ELSE vs[k]]

\* The archive after a page of the current phase.
AfterPage(page) ==
    CASE journal.phase = "Versions" ->
           [db EXCEPT !.messages = [m \in Msgs |->
              [@[m] EXCEPT !.versions = PagedVersions(page, m)]]]
      [] journal.phase = "Messages" ->
           [db EXCEPT !.messages = [m \in Msgs |->
              IF m \in page THEN PurgedMessage(@[m]) ELSE @[m]]]
      [] journal.phase = "Jobs" ->
           [db EXCEPT !.jobs = [j \in Jobs |->
              IF j \in page THEN [@[j] EXCEPT !.state = "Cancelled"] ELSE @[j]]]
      [] journal.phase = "Leases" ->
           [db EXCEPT !.leases = [l \in Leases |->
              IF l \in page THEN [@[l] EXCEPT !.revoked = TRUE] ELSE @[l]]]

\* ContinueArchiveSqlPurge with the rows it was given.
Page ==
    /\ journal # Nothing
    /\ \E page \in (SUBSET Left) \ {{}} :
         /\ db' = AfterPage(page)
         /\ journal' = [journal EXCEPT !.passed = @ \cup page]
    /\ UNCHANGED <<files, published, erased>>

\* No row is left of a phase.
Advance ==
    /\ journal # Nothing
    /\ journal.phase # "Finish"
    /\ Left = {}
    /\ journal' = [journal EXCEPT !.phase = PhaseAfter(@), !.passed = {}]
    /\ UNCHANGED <<db, files, published, erased>>

Finish ==
    /\ journal # Nothing
    /\ journal.phase = "Finish"
    /\ journal' = Nothing
    /\ UNCHANGED <<db, files, published, erased>>

SqlNext ==
    \/ WhileOpen
    \/ OnFiles
    \/ \E kind \in {"Trashbin", "EditHistory"}, scope \in Scopes : Begin(kind, scope)
    \/ Page
    \/ Advance
    \/ Finish

\* A purge that was begun is continued, after a restart too.
SqlSpec == SqlInit /\ [][SqlNext]_sqlVars /\ WF_sqlVars(Page \/ Advance \/ Finish)

---------------------------------------------------------------------------
\* The archive as its users see it: a purge happens when it begins.  What is
\* left of it is erased at once, as the reference reducer does.
Seen ==
    IF journal = Nothing THEN db
    ELSE Reconcile(Erase(KeepCopies(db, journal.kind, journal.scope),
                         journal.kind, journal.scope))

Store == INSTANCE ArchiveStore WITH db <- Seen

\* However a purge is cut into pages and interrupted, the archive behaves as if
\* PlanArchivePurge had run in one step: the phases erase the same bodies, keep
\* the same copies, cancel the same jobs and revoke the same readers.
ActsAsOnePurge == Store!Spec

\* A purge that was begun ends, and the archive opens again.
PurgeEnds == journal # Nothing ~> journal = Nothing
=============================================================================
