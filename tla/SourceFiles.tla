---------------------------- MODULE SourceFiles ----------------------------
(***************************************************************************)
(* Sources made of an imported file: the row that names the DuckDB file,   *)
(* the files on disk, the connectors and instances that serve them, the    *)
(* imports that write a new version and retire the old one.                *)
(* server/routes/fileUpload.js, datasources.js and admin.js (deletions),   *)
(* server/utils/dbConnector.js, server/utils/duckdbFiles.js.               *)
(*                                                                         *)
(* Rows, files and the list of pending deletions survive a restart; the    *)
(* rest is the process's memory.                                           *)
(***************************************************************************)
EXTENDS Naturals

CONSTANTS
    Sources,   \* ids of file sources, each used once (uuid)
    Jobs,      \* imports and deletions that may be in flight together
    Queries,   \* requests that have read a row and not connected yet
    MaxFiles   \* bound: file paths ever handed out

ASSUME FilesAssumption == MaxFiles \in Nat /\ 0 \notin Sources

NoFile == 0
Files == 1 .. MaxFiles

VARIABLES
    row,        \* Sources -> the file its row names, NoFile without a row
    known,      \* ids handed out
    nextPath,   \* versionPath: the next path never used before
    disk,       \* files that exist
    pending,    \* pending_file_deletions
    connector,  \* _connectorCache: Sources -> the file its connector opens
    promises,   \* _duckdbPromises: files whose first open is shared
    opens,      \* Files -> opens in flight, listed in promises or not
    instances,  \* _duckdbInstances: files with an open instance
    job,        \* Jobs -> the import or deletion in flight
    query       \* Queries -> the row a request has read

stored == <<row, known, nextPath, disk, pending>>
served == <<connector, promises, opens, instances>>
vars == <<row, known, nextPath, disk, pending, connector, promises, opens, instances, job, query>>

Used == 1 .. (nextPath - 1)
Named == {row[d] : d \in {s \in Sources : row[s] # NoFile}}
NoJob == [pc |-> "idle", source |-> NoFile, old |-> NoFile, new |-> NoFile]
NoQuery == [source |-> NoFile, file |-> NoFile]

\* The synchronous part of closeDuckDBFile: an open in flight goes on.
Close(f) ==
    /\ instances' = instances \ {f}
    /\ promises' = promises \ {f}

-----------------------------------------------------------------------------
(* Imports. *)

\* A first import: the source has an id, and no row before the file is there.
BeginCreate(j, d) ==
    /\ job[j].pc = "idle"
    /\ d \notin known
    /\ nextPath <= MaxFiles
    /\ known' = known \cup {d}
    /\ job' = [job EXCEPT ![j] = [pc |-> "creating", source |-> d, old |-> NoFile, new |-> nextPath]]
    /\ nextPath' = nextPath + 1
    /\ UNCHANGED <<row, disk, pending, served, query>>

\* A refresh, a merge of fiscal years, accounts placed by hand, a reshaped
\* table: the row is read, the child process starts on a new file.
BeginImport(j, d) ==
    /\ job[j].pc = "idle"
    /\ row[d] # NoFile
    /\ nextPath <= MaxFiles
    /\ job' = [job EXCEPT ![j] = [pc |-> "building", source |-> d, old |-> row[d], new |-> nextPath]]
    /\ nextPath' = nextPath + 1
    /\ UNCHANGED <<row, known, disk, pending, served, query>>

\* The child has written the file and exits.
ChildDone(j) ==
    /\ job[j].pc \in {"creating", "building"}
    /\ job' = [job EXCEPT ![j].pc = IF @ = "creating" THEN "created" ELSE "built"]
    /\ disk' = disk \cup {job[j].new}
    /\ UNCHANGED <<row, known, nextPath, pending, served, query>>

\* The child fails and removes what it wrote.
ChildFails(j) ==
    /\ job[j].pc \in {"creating", "building"}
    /\ job' = [job EXCEPT ![j] = NoJob]
    /\ UNCHANGED <<stored, served, query>>

\* The row of a first import is inserted; when that fails its file goes.
Insert(j) ==
    /\ job[j].pc = "created"
    /\ row' = [row EXCEPT ![job[j].source] = job[j].new]
    /\ job' = [job EXCEPT ![j] = NoJob]
    /\ UNCHANGED <<known, nextPath, disk, pending, served, query>>

InsertFails(j) ==
    /\ job[j].pc = "created"
    /\ disk' = disk \ {job[j].new}
    /\ job' = [job EXCEPT ![j] = NoJob]
    /\ UNCHANGED <<row, known, nextPath, pending, served, query>>

\* Bug: the path to retire is read back from the row, after the update.
SwitchThenReadBack(j) ==
    /\ job[j].pc = "built"
    /\ LET d == job[j].source IN
         /\ row' = IF row[d] = NoFile THEN row ELSE [row EXCEPT ![d] = job[j].new]
         /\ connector' = [connector EXCEPT ![d] = NoFile]
    /\ Close(job[j].new)
    /\ job' = [job EXCEPT ![j].pc = "closing", ![j].old = job[j].new]
    /\ UNCHANGED <<known, nextPath, disk, pending, opens, query>>

\* Bug: the cached connector stays.
SwitchKeepingConnector(j) ==
    /\ job[j].pc = "built"
    /\ row' = IF row[job[j].source] = NoFile THEN row
              ELSE [row EXCEPT ![job[j].source] = job[j].new]
    /\ Close(job[j].old)
    /\ job' = [job EXCEPT ![j].pc = "closing"]
    /\ UNCHANGED <<known, nextPath, disk, pending, connector, opens, query>>

\* The UPDATE (of no row, if the source was deleted meanwhile), the connector
\* evicted, the old instance forgotten and closed.
Switch(j) ==
    /\ job[j].pc = "built"
    /\ LET d == job[j].source IN
         /\ row' = IF row[d] = NoFile THEN row ELSE [row EXCEPT ![d] = job[j].new]
         /\ connector' = [connector EXCEPT ![d] = NoFile]
    /\ Close(job[j].old)
    /\ job' = [job EXCEPT ![j].pc = "closing"]
    /\ UNCHANGED <<known, nextPath, disk, pending, opens, query>>

-----------------------------------------------------------------------------
(* Deletions. *)

Gone(j, d) ==
    /\ job[j].pc = "idle"
    /\ row[d] # NoFile
    /\ row' = [row EXCEPT ![d] = NoFile]
    /\ Close(row[d])
    /\ job' = [job EXCEPT ![j] = [pc |-> "closing", source |-> d, old |-> row[d], new |-> NoFile]]
    /\ UNCHANGED <<known, nextPath, disk, pending, opens, query>>

DeleteSource(j, d) ==
    /\ Gone(j, d)
    /\ connector' = [connector EXCEPT ![d] = NoFile]

\* Deleting a user deletes the rows by cascade, and evicts no connector.
DeleteOwner(j, d) ==
    /\ Gone(j, d)
    /\ UNCHANGED connector

\* retryPending, on a list and the files there are: those in use are struck
\* off, the others removed unless they are still held.
RetryPending(list, files) ==
    \E removed \in SUBSET (list \ Named) :
        /\ disk' = files \ removed
        /\ pending' = (list \ Named) \ removed

\* Bug: a file that is still held is not written down.
RetireNow(j) ==
    /\ job[j].pc = "closing"
    /\ \/ RetryPending(pending, disk \ {job[j].old})
       \/ RetryPending(pending, disk)
    /\ job' = [job EXCEPT ![j] = NoJob]
    /\ UNCHANGED <<row, known, nextPath, served, query>>

\* The instance is closed: the file is removed, or written down when it is
\* still held.  Then whatever is pending is tried again.
Retire(j) ==
    /\ job[j].pc = "closing"
    /\ \/ RetryPending(pending, disk \ {job[j].old})
       \/ RetryPending(pending \cup {job[j].old}, disk)
    /\ job' = [job EXCEPT ![j] = NoJob]
    /\ UNCHANGED <<row, known, nextPath, served, query>>

-----------------------------------------------------------------------------
(* Queries. *)

\* The request reads the row of its source, then waits (the rollup planner,
\* the probe of interval columns).
Load(q, d) ==
    /\ query[q] = NoQuery
    /\ row[d] # NoFile
    /\ query' = [query EXCEPT ![q] = [source |-> d, file |-> row[d]]]
    /\ UNCHANGED <<stored, served, job>>

\* createConnection: the connector cached for the id, or one made from the row
\* in hand.
ConnectorFile(q) ==
    IF connector[query[q].source] # NoFile THEN connector[query[q].source] ELSE query[q].file

\* servedDuckDB: the instance, the open others wait for, or a new one; the open
\* of a file that is gone fails.
Connect(q) ==
    /\ query[q] # NoQuery
    /\ LET f == ConnectorFile(q) IN
           /\ connector' = [connector EXCEPT ![query[q].source] = f]
           /\ IF f \in instances \cup promises \/ f \notin disk
                THEN UNCHANGED <<promises, opens>>
                ELSE /\ promises' = promises \cup {f}
                     /\ opens' = [opens EXCEPT ![f] = @ + 1]
    /\ query' = [query EXCEPT ![q] = NoQuery]
    /\ UNCHANGED <<stored, instances, job>>

\* An open ends: the instance is listed whatever happened to its file.
OpenDone(f) ==
    /\ opens[f] > 0
    /\ opens' = [opens EXCEPT ![f] = @ - 1]
    /\ instances' = instances \cup {f}
    /\ promises' = promises \ {f}
    /\ UNCHANGED <<stored, connector, job, query>>

\* Bug: a failed open is what later callers are handed.
OpenFailsForGood(f) ==
    /\ opens[f] > 0
    /\ opens' = [opens EXCEPT ![f] = @ - 1]
    /\ UNCHANGED <<stored, connector, promises, instances, job, query>>

OpenFails(f) ==
    /\ opens[f] > 0
    /\ opens' = [opens EXCEPT ![f] = @ - 1]
    /\ promises' = promises \ {f}
    /\ UNCHANGED <<stored, connector, instances, job, query>>

-----------------------------------------------------------------------------
\* Imports die with the process and may leave what their child had written.
Restart ==
    /\ \E partial \in SUBSET {job[j].new : j \in {i \in Jobs : job[i].pc \in {"creating", "building"}}} :
         RetryPending(pending, disk \cup partial)
    /\ connector' = [d \in Sources |-> NoFile]
    /\ promises' = {}
    /\ opens' = [f \in Files |-> 0]
    /\ instances' = {}
    /\ job' = [j \in Jobs |-> NoJob]
    /\ query' = [q \in Queries |-> NoQuery]
    /\ UNCHANGED <<row, known, nextPath>>

Init ==
    /\ row = [d \in Sources |-> NoFile]
    /\ known = {}
    /\ nextPath = 1
    /\ disk = {}
    /\ pending = {}
    /\ connector = [d \in Sources |-> NoFile]
    /\ promises = {}
    /\ opens = [f \in Files |-> 0]
    /\ instances = {}
    /\ job = [j \in Jobs |-> NoJob]
    /\ query = [q \in Queries |-> NoQuery]

JobStep(j) ==
    \/ \E d \in Sources : BeginCreate(j, d) \/ BeginImport(j, d) \/ DeleteSource(j, d) \/ DeleteOwner(j, d)
    \/ ChildDone(j) \/ ChildFails(j) \/ Insert(j) \/ InsertFails(j) \/ Switch(j) \/ Retire(j)

QueryStep ==
    \/ \E q \in Queries : Connect(q) \/ \E d \in Sources : Load(q, d)
    \/ \E f \in Files : OpenDone(f) \/ OpenFails(f)

Running == (\E j \in Jobs : JobStep(j)) \/ QueryStep
Next == Running \/ Restart

Spec == Init /\ [][Next]_vars

\* The same without a crash.
RunningSpec == Init /\ [][Running]_vars

-----------------------------------------------------------------------------
(* What the code counts on without enforcing it. *)

\* No source is refreshed, reshaped or deleted while another such request
\* about it is under way.
OneJobPerSource ==
    \A i, j \in Jobs : i # j /\ job[i].pc # "idle" => job[i].source # job[j].source

\* No request has read a row that has changed since, and no open is under way
\* on a file no row names.
NoOvertakenQuery ==
    /\ \A q \in Queries : query[q] # NoQuery => query[q].file = row[query[q].source]
    /\ \A f \in Files : opens[f] > 0 => f \in Named

-----------------------------------------------------------------------------
(* What must hold. *)

JobState == [pc : {"idle", "creating", "building", "created", "built", "closing"},
             source : Sources \cup {NoFile}, old : Files \cup {NoFile}, new : Files \cup {NoFile}]

\* Types; a path seen anywhere has been handed out.
TypeOK ==
    /\ row \in [Sources -> Used \cup {NoFile}]
    /\ known \subseteq Sources
    /\ nextPath \in 1 .. MaxFiles + 1
    /\ disk \subseteq Used
    /\ pending \subseteq Used
    /\ connector \in [Sources -> Used \cup {NoFile}]
    /\ promises \subseteq Used
    /\ opens \in [Files -> Nat]
    /\ \A f \in Files \ Used : opens[f] = 0
    /\ instances \subseteq Used
    /\ job \in [Jobs -> JobState]
    /\ \A j \in Jobs : job[j].old \in Used \cup {NoFile} /\ job[j].new \in Used \cup {NoFile}
    /\ query \in [Queries -> [source : Sources, file : Used] \cup {NoQuery}]

\* "The datasource must never name a file whose contents it no longer
\* describes": a row's file exists and is no other row's, whatever imports,
\* deletions, retries and restarts overlap.
RowsNameTheirFiles ==
    \A d \in Sources : row[d] # NoFile =>
        /\ row[d] \in disk
        /\ \A e \in Sources \ {d} : row[e] # row[d]

\* A request that waits for an open waits for one that is under way.
WaitersHaveAnOpen == \A f \in promises : opens[f] > 0

\* "A file Windows still holds is written down and retried", never "kept
\* forever": every file is a row's, pending, or of an import under way.
NoFileIsForgotten ==
    disk \subseteq Named \cup pending \cup UNION {{job[j].old, job[j].new} : j \in Jobs}

\* "Drop the cached pool so the new params take effect": a cached connector
\* opens the file its source is made of.
ConnectorIsCurrent ==
    \A d \in Sources : connector[d] # NoFile /\ row[d] # NoFile => connector[d] = row[d]

\* "Close and forget": an open instance is of a file some row names.
InstancesAreServed == instances \subseteq Named

\* "The file is only opened once even under burst load."
OpenedOnce == \A f \in Files : opens[f] <= 1 /\ (opens[f] = 1 => f \notin instances)

\* The tables of the other files of a source "are copied from the current
\* version": the version a row moves to was built from the one it moves from.
BuiltFromCurrent ==
    [][\A j \in Jobs : LET d == job[j].source IN
         Switch(j) /\ row[d] # NoFile => row[d] = job[j].old]_vars
=============================================================================
