----------------------------- MODULE ReportRow -----------------------------
(***************************************************************************)
(* A report as the server keeps it (server/routes/reports.js): its row,    *)
(* the versions a save leaves behind, and the draft a new report is until  *)
(* its first save (server/utils/reportDrafts.js).  Handlers are            *)
(* synchronous: each is one step.                                          *)
(*                                                                         *)
(* A body is what a page holds, as the page it was made for and a          *)
(* revision; 0 is the empty page.                                          *)
(***************************************************************************)
EXTENDS Naturals, Sequences, FiniteSets

CONSTANTS
    PageIds,     \* ids a page may have
    Titles,
    Taken,       \* titles other reports of the workspace hold
    VersionCap,  \* versions kept (20 in the code)
    None         \* no page

ASSUME RowAssumption ==
    /\ Taken \subseteq Titles
    /\ Taken # Titles
    /\ VersionCap \in Nat \ {0}
    /\ None \notin PageIds

VARIABLES
    row,       \* the row of reports: state, draft, document
    versions,  \* rows of report_versions: the n-th document, saved_at a second
    log,       \* history: every document the row has held
    times      \* history: the second each was written; what counts is their order

rowVars == <<row, versions, log, times>>

Bodies == [page : PageIds \cup {None}, rev : Nat]
Blank(p) == [page |-> p, rev |-> 0]
Documents == [title : Titles, pages : Seq([id : PageIds, body : Bodies])]

RowTypeOK ==
    /\ row \in [state : {"there", "discarded", "purged", "deleted"}, draft : BOOLEAN, doc : Documents]
    /\ versions \subseteq [n : Nat, doc : Documents, at : Nat]
    /\ log \in Seq(Documents)
    /\ times \in Seq(Nat)

There == row.state = "there"

Now == times[Len(times)]

-----------------------------------------------------------------------------
\* ORDER BY saved_at DESC LIMIT: of versions of one second it keeps any.
Newest(vs) ==
    {kept \in SUBSET vs :
        /\ Cardinality(kept) = IF Cardinality(vs) > VersionCap THEN VersionCap ELSE Cardinality(vs)
        /\ \A v \in kept, w \in vs \ kept : v.at >= w.at}

WithOverwritten(at) == versions \cup {[n |-> Len(log), doc |-> row.doc, at |-> at]}

\* Bug: the pruning keeps the oldest.
SnapshotKeepsOldest(at) ==
    versions' \in {kept \in SUBSET WithOverwritten(at) :
        /\ Cardinality(kept) = IF Cardinality(versions) < VersionCap THEN Cardinality(versions) + 1 ELSE VersionCap
        /\ \A v \in kept, w \in WithOverwritten(at) \ kept : v.at <= w.at}

\* snapshotReportVersion: what is about to be overwritten, pruned to the newest.
Snapshot(at) == versions' \in Newest(WithOverwritten(at))

\* A write, in the second of the one before or in a later one.
Write(written) ==
    \E at \in {Now, Now + 1} :
        /\ Snapshot(at)
        /\ row' = written
        /\ log' = Append(log, written.doc)
        /\ times' = Append(times, at)

\* uniqueReportTitle: a taken title gets the first free suffix.
FreeTitle(title) == IF title \in Taken THEN CHOOSE t \in Titles \ Taken : TRUE ELSE title

\* What PUT /:id answers to a document, auto being autoTitle.
Verdict(doc, auto) ==
    IF ~There THEN "gone" ELSE IF ~auto /\ doc.title \in Taken THEN "taken" ELSE "ok"

Written(doc, auto) == IF auto THEN [doc EXCEPT !.title = FreeTitle(doc.title)] ELSE doc

\* A whole document sets every content column: it is a content change, and a
\* draft is one no more.
Put(doc, auto) ==
    IF Verdict(doc, auto) = "ok"
    THEN Write([row EXCEPT !.doc = Written(doc, auto), !.draft = FALSE])
    ELSE UNCHANGED rowVars

\* POST /:id/widgets: the row is read again and written in one transaction.
\* The picker lists no draft.
AppendWidgets(i, rev) ==
    /\ There /\ ~row.draft
    /\ i \in DOMAIN row.doc.pages
    /\ Write([row EXCEPT !.doc.pages[i].body.rev = rev])

\* Its mode newPage, for a page that has no room left.
AppendPage(p, rev) ==
    /\ There /\ ~row.draft
    /\ Write([row EXCEPT !.doc.pages = Append(@, [id |-> p, body |-> [page |-> p, rev |-> rev]])])

Restore(v) ==
    /\ There
    /\ v \in versions
    /\ Write([row EXCEPT !.doc = v.doc])

\* Bug: what the caller believed is not checked again.
DropReport ==
    /\ row' = IF There THEN [row EXCEPT !.state = "discarded"] ELSE row
    /\ UNCHANGED <<versions, log, times>>

\* DELETE /:id/draft, from an editor left without a save.
DropDraft ==
    /\ row' = IF There /\ row.draft THEN [row EXCEPT !.state = "discarded"] ELSE row
    /\ UNCHANGED <<versions, log, times>>

\* A report is created somewhere, more than a day after this draft was.
PurgeStaleDrafts ==
    /\ There /\ row.draft
    /\ row' = [row EXCEPT !.state = "purged"]
    /\ UNCHANGED <<versions, log, times>>

Delete ==
    /\ There
    /\ row' = [row EXCEPT !.state = "deleted"]
    /\ UNCHANGED <<versions, log, times>>

-----------------------------------------------------------------------------
(* The row is the last document it was given, and the versions are as many  *)
(* of those before it as the cap allows: what was pruned is older than what *)
(* is kept, or of the same second.                                          *)
VersionsAreThePast ==
    LET overwritten == 1..Len(log) - 1 IN
    /\ row.doc = log[Len(log)]
    /\ \A v \in versions : v.n \in overwritten /\ v.doc = log[v.n] /\ v.at = times[v.n + 1]
    /\ Cardinality(versions) = IF Len(log) - 1 > VersionCap THEN VersionCap ELSE Len(log) - 1
    /\ \A k \in overwritten \ {v.n : v \in versions} : \A v \in versions : v.at >= times[k + 1]

(* Only a report nobody ever saved is dropped as a draft, however the save  *)
(* of one tab and the leaving of another are ordered.                       *)
SavedReportsStay == row.state \in {"discarded", "purged"} => Len(log) = 1

(* What was saved is kept.                                                  *)
SavesAreKept == VersionsAreThePast /\ SavedReportsStay

(* "FIFO pruning" (db/index.js): what is pruned was written before whatever *)
(* is kept.  Two writes of one second are not told apart.                   *)
VersionsGoInOrder ==
    \A k \in 1..Len(log) - 1 : (\A v \in versions : v.n # k) => \A v \in versions : v.n > k
=============================================================================
