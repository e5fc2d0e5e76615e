-------------------------- MODULE SourceFilesProofs --------------------------
(***************************************************************************)
(* Proofs about SourceFiles: types, the rows that name their files, the    *)
(* waiters that have an open; and while it is calm (CalmFiles), the files  *)
(* that have an owner and the connectors that follow their rows.           *)
(***************************************************************************)
EXTENDS CalmFiles, TLAPS

Live == {"creating", "building", "created", "built"}

\* The path an import writes is nobody else's.
NewIsFresh ==
    \A j \in Jobs : job[j].pc \in Live =>
        /\ job[j].new \in Used
        /\ \A d \in Sources : row[d] # job[j].new
        /\ job[j].new \notin pending
        /\ \A i \in Jobs : job[i].old # job[j].new
        /\ \A i \in Jobs \ {j} : job[i].pc \in Live => job[i].new # job[j].new

NewIsWritten ==
    \A j \in Jobs : job[j].pc \in {"created", "built"} => job[j].new \in disk

\* The path a job will retire is its own source's, and once it is about to
\* remove it, no row's.
OldIsOurs ==
    \A j \in Jobs :
        /\ job[j].pc \in {"building", "built", "closing"} =>
              /\ job[j].old \in Used
              /\ \A e \in Sources \ {job[j].source} : row[e] # job[j].old
        /\ job[j].pc = "closing" => \A e \in Sources : row[e] # job[j].old

IInv == TypeOK /\ RowsNameTheirFiles /\ NewIsFresh /\ NewIsWritten /\ OldIsOurs

\* A path handed out now was in no use.
LEMMA NextIsNew ==
    ASSUME TypeOK
    PROVE  nextPath \in Nat /\ nextPath # NoFile /\ nextPath \notin Used /\ NoFile \notin Used
BY FilesAssumption DEF FilesAssumption, TypeOK, Used, NoFile

\* What is handed out stays so.
LEMMA UsedGrows ==
    ASSUME TypeOK, nextPath' = nextPath + 1
    PROVE  Used \subseteq Used' /\ nextPath \in Used'
BY FilesAssumption DEF FilesAssumption, TypeOK, Used

\* Every path handed out is a file the bound allows.
LEMMA UsedAreFiles ==
    ASSUME TypeOK
    PROVE  Used \subseteq Files
BY FilesAssumption DEF FilesAssumption, TypeOK, Used, Files

\* Retrying what is pending removes no named file, and adds none to the list.
LEMMA RetrySpares ==
    ASSUME NEW list, NEW files, RetryPending(list, files)
    PROVE  /\ pending' \subseteq list
           /\ disk' \subseteq files
           /\ files \ list \subseteq disk'
           /\ files \cap Named \subseteq disk'
BY DEF RetryPending

LEMMA InitIInv == Init => IInv
<1> SUFFICES ASSUME Init PROVE IInv
    OBVIOUS
<1>1. TypeOK
  <2>1. 1 \in 1 .. MaxFiles + 1
      BY FilesAssumption DEF FilesAssumption
  <2>2. job \in [Jobs -> JobState] /\ \A j \in Jobs : job[j] = NoJob
      BY DEF Init, NoJob, JobState
  <2>3. \A j \in Jobs : job[j].old \in Used \cup {NoFile} /\ job[j].new \in Used \cup {NoFile}
      BY <2>2 DEF NoJob
  <2>4. query \in [Queries -> [source : Sources, file : Used] \cup {NoQuery}]
      BY DEF Init
  <2>5. QED
      BY <2>1, <2>2, <2>3, <2>4 DEF Init, TypeOK
<1>2. \A j \in Jobs : job[j].pc = "idle"
    BY DEF Init, NoJob
<1>3. QED
    BY <1>1, <1>2 DEF Init, IInv, RowsNameTheirFiles, NewIsFresh, NewIsWritten, OldIsOurs, Live

-----------------------------------------------------------------------------
(* One lemma per step of a job. *)

LEMMA BeginCreateIInv ==
    ASSUME IInv, NEW j \in Jobs, NEW d \in Sources, BeginCreate(j, d)
    PROVE  IInv'
<1> DEFINE n == [pc |-> "creating", source |-> d, old |-> NoFile, new |-> nextPath]
<1>1. /\ job' = [job EXCEPT ![j] = n]
      /\ known' = known \cup {d}
      /\ nextPath' = nextPath + 1
      /\ nextPath <= MaxFiles
      /\ UNCHANGED <<row, disk, pending, connector, promises, opens, instances, query>>
    BY DEF BeginCreate, served
<1>2. TypeOK /\ RowsNameTheirFiles /\ NewIsFresh /\ NewIsWritten /\ OldIsOurs
    BY DEF IInv
<1>3. Used \subseteq Used' /\ nextPath \in Used' /\ nextPath \in Nat /\ nextPath # NoFile
      /\ nextPath \notin Used /\ NoFile \notin Used
    BY <1>1, <1>2, NextIsNew, UsedGrows
<1>4. /\ job'[j].pc = "creating" /\ job'[j].source = d
      /\ job'[j].old = NoFile /\ job'[j].new = nextPath
      /\ \A i \in Jobs \ {j} : job'[i] = job[i]
    BY <1>1, <1>2 DEF TypeOK
<1>14. \A i \in Jobs : job[i].old \in Used \cup {NoFile} /\ job[i].new \in Used \cup {NoFile}
    BY <1>2 DEF TypeOK
<1>5. TypeOK'
  <2>1. nextPath' \in 1 .. MaxFiles + 1 /\ nextPath \in Files
      BY <1>1, <1>2, <1>3, FilesAssumption DEF FilesAssumption, TypeOK, Files
  <2>2. n \in JobState
      BY <2>1 DEF JobState
  <2>3. job' \in [Jobs -> JobState]
      BY <1>1, <1>2, <2>2 DEF TypeOK
  <2>4. \A i \in Jobs : job'[i].old \in Used' \cup {NoFile} /\ job'[i].new \in Used' \cup {NoFile}
      BY <1>3, <1>4, <1>14
  <2>5. query' \in [Queries -> [source : Sources, file : Used'] \cup {NoQuery}]
      BY <1>1, <1>2, <1>3 DEF TypeOK
  <2>6. QED
      BY <1>1, <1>2, <1>3, <2>1, <2>3, <2>4, <2>5 DEF TypeOK
<1>6. \A e \in Sources : row[e] # nextPath
    BY <1>2, <1>3 DEF TypeOK
<1>7. \A i \in Jobs : job[i].old # nextPath /\ job[i].new # nextPath
    BY <1>2, <1>3 DEF TypeOK
<1>8. nextPath \notin pending
    BY <1>2, <1>3 DEF TypeOK
<1>9. NewIsFresh'
  <2>1. ASSUME NEW i \in Jobs, job'[i].pc \in Live
        PROVE  /\ job'[i].new \in Used'
               /\ \A e \in Sources : row'[e] # job'[i].new
               /\ job'[i].new \notin pending'
    <3>1. CASE i = j
        BY <1>1, <1>3, <1>4, <1>6, <1>8, <3>1
    <3>2. CASE i # j
      <4>1. job'[i] = job[i]
          BY <1>4, <3>2
      <4>2. /\ job[i].new \in Used
            /\ \A e \in Sources : row[e] # job[i].new
            /\ job[i].new \notin pending
          BY <1>2, <2>1, <4>1 DEF NewIsFresh
      <4>3. row' = row /\ pending' = pending
          BY <1>1
      <4>4. QED
          BY <1>3, <4>1, <4>2, <4>3
    <3>3. QED
        BY <3>1, <3>2
  <2>2. ASSUME NEW i \in Jobs, job'[i].pc \in Live, NEW k \in Jobs
        PROVE  job'[k].old # job'[i].new
      BY <1>2, <1>3, <1>4, <1>7, <2>2 DEF NewIsFresh
  <2>3. ASSUME NEW i \in Jobs, job'[i].pc \in Live, NEW k \in Jobs \ {i}, job'[k].pc \in Live
        PROVE  job'[k].new # job'[i].new
      BY <1>2, <1>3, <1>4, <1>7, <2>3 DEF NewIsFresh
  <2>4. QED
      BY <2>1, <2>2, <2>3 DEF NewIsFresh
<1>10. NewIsWritten'
    BY <1>1, <1>2, <1>4 DEF NewIsWritten
<1>11. OldIsOurs'
    BY <1>1, <1>2, <1>3, <1>4 DEF OldIsOurs
<1>12. RowsNameTheirFiles'
    BY <1>1, <1>2 DEF RowsNameTheirFiles
<1>13. QED
    BY <1>5, <1>9, <1>10, <1>11, <1>12 DEF IInv

LEMMA BeginImportIInv ==
    ASSUME IInv, NEW j \in Jobs, NEW d \in Sources, BeginImport(j, d)
    PROVE  IInv'
<1> DEFINE n == [pc |-> "building", source |-> d, old |-> row[d], new |-> nextPath]
<1>1. /\ job' = [job EXCEPT ![j] = n]
      /\ nextPath' = nextPath + 1
      /\ nextPath <= MaxFiles
      /\ row[d] # NoFile
      /\ UNCHANGED <<row, known, disk, pending, connector, promises, opens, instances, query>>
    BY DEF BeginImport, served
<1>2. TypeOK /\ RowsNameTheirFiles /\ NewIsFresh /\ NewIsWritten /\ OldIsOurs
    BY DEF IInv
<1>3. Used \subseteq Used' /\ nextPath \in Used' /\ nextPath \in Nat /\ nextPath # NoFile
      /\ nextPath \notin Used /\ NoFile \notin Used
    BY <1>1, <1>2, NextIsNew, UsedGrows
<1>4. /\ job'[j].pc = "building" /\ job'[j].source = d
      /\ job'[j].old = row[d] /\ job'[j].new = nextPath
      /\ \A i \in Jobs \ {j} : job'[i] = job[i]
    BY <1>1, <1>2 DEF TypeOK
<1>5. \A i \in Jobs : job[i].old \in Used \cup {NoFile} /\ job[i].new \in Used \cup {NoFile}
    BY <1>2 DEF TypeOK
<1>6. row[d] \in Used /\ row[d] # nextPath /\ (\A e \in Sources : row[e] # nextPath) /\ nextPath \notin pending
    BY <1>1, <1>2, <1>3 DEF TypeOK
<1>7. \A i \in Jobs : job[i].old # nextPath /\ job[i].new # nextPath
    BY <1>3, <1>5
<1>8. TypeOK'
  <2>1. nextPath' \in 1 .. MaxFiles + 1 /\ nextPath \in Files
      BY <1>1, <1>2, <1>3, FilesAssumption DEF FilesAssumption, TypeOK, Files
  <2>2. n \in JobState
      BY <2>1, <1>2, <1>6, UsedAreFiles DEF JobState
  <2>3. job' \in [Jobs -> JobState]
      BY <1>1, <1>2, <2>2 DEF TypeOK
  <2>4. \A i \in Jobs : job'[i].old \in Used' \cup {NoFile} /\ job'[i].new \in Used' \cup {NoFile}
      BY <1>3, <1>4, <1>5, <1>6
  <2>5. query' \in [Queries -> [source : Sources, file : Used'] \cup {NoQuery}]
      BY <1>1, <1>2, <1>3 DEF TypeOK
  <2>6. QED
      BY <1>1, <1>2, <1>3, <2>1, <2>3, <2>4, <2>5 DEF TypeOK
<1>9. NewIsFresh'
  <2>1. ASSUME NEW i \in Jobs, job'[i].pc \in Live
        PROVE  /\ job'[i].new \in Used'
               /\ \A e \in Sources : row'[e] # job'[i].new
               /\ job'[i].new \notin pending'
    <3>1. CASE i = j
        BY <1>1, <1>3, <1>4, <1>6, <3>1
    <3>2. CASE i # j
      <4>1. job'[i] = job[i]
          BY <1>4, <3>2
      <4>2. /\ job[i].new \in Used
            /\ \A e \in Sources : row[e] # job[i].new
            /\ job[i].new \notin pending
          BY <1>2, <2>1, <4>1 DEF NewIsFresh
      <4>3. row' = row /\ pending' = pending
          BY <1>1
      <4>4. QED
          BY <1>3, <4>1, <4>2, <4>3
    <3>3. QED
        BY <3>1, <3>2
  <2>2. ASSUME NEW i \in Jobs, job'[i].pc \in Live, NEW k \in Jobs
        PROVE  job'[k].old # job'[i].new
    <3>1. CASE i = j
        BY <1>4, <1>6, <1>7, <3>1
    <3>2. CASE i # j
        BY <1>2, <1>4, <2>2, <3>2 DEF NewIsFresh
    <3>3. QED
        BY <3>1, <3>2
  <2>3. ASSUME NEW i \in Jobs, job'[i].pc \in Live, NEW k \in Jobs \ {i}, job'[k].pc \in Live
        PROVE  job'[k].new # job'[i].new
      BY <1>2, <1>4, <1>7, <2>3 DEF NewIsFresh
  <2>4. QED
      BY <2>1, <2>2, <2>3 DEF NewIsFresh
<1>10. NewIsWritten'
    BY <1>1, <1>2, <1>4 DEF NewIsWritten
<1>11. OldIsOurs'
  <2>1. ASSUME NEW i \in Jobs \ {j}
        PROVE  /\ job'[i].pc \in {"building", "built", "closing"} =>
                     /\ job'[i].old \in Used'
                     /\ \A e \in Sources \ {job'[i].source} : row'[e] # job'[i].old
               /\ job'[i].pc = "closing" => \A e \in Sources : row'[e] # job'[i].old
      BY <1>1, <1>2, <1>3, <1>4 DEF OldIsOurs
  <2>2. \A e \in Sources \ {d} : row'[e] # row[d]
      BY <1>1, <1>2 DEF RowsNameTheirFiles
  <2>3. QED
      BY <1>3, <1>4, <1>6, <2>1, <2>2 DEF OldIsOurs
<1>12. RowsNameTheirFiles'
    BY <1>1, <1>2 DEF RowsNameTheirFiles
<1>13. QED
    BY <1>8, <1>9, <1>10, <1>11, <1>12 DEF IInv

LEMMA ChildDoneIInv ==
    ASSUME IInv, NEW j \in Jobs, ChildDone(j)
    PROVE  IInv'
<1> DEFINE p == IF job[j].pc = "creating" THEN "created" ELSE "built"
<1>1. /\ job[j].pc \in {"creating", "building"}
      /\ job' = [job EXCEPT ![j].pc = p]
      /\ disk' = disk \cup {job[j].new}
      /\ UNCHANGED <<row, known, nextPath, pending, connector, promises, opens, instances, query>>
    BY DEF ChildDone, served
<1>2. TypeOK /\ RowsNameTheirFiles /\ NewIsFresh /\ NewIsWritten /\ OldIsOurs
    BY DEF IInv
<1>3. Used' = Used
    BY <1>1 DEF Used
<1>4. job[j].new \in Used
    BY <1>1, <1>2 DEF NewIsFresh, Live
<1>5. /\ \A i \in Jobs : job'[i].source = job[i].source /\ job'[i].old = job[i].old /\ job'[i].new = job[i].new
      /\ \A i \in Jobs \ {j} : job'[i].pc = job[i].pc
      /\ job'[j].pc = p
      /\ job' \in [Jobs -> JobState]
    BY <1>1, <1>2 DEF TypeOK, JobState
<1>6. \A i \in Jobs : /\ job'[i].pc \in Live => job[i].pc \in Live
                      /\ job'[i].pc \in {"building", "built", "closing"} => job[i].pc \in {"building", "built", "closing"}
                      /\ job'[i].pc = "closing" => job[i].pc = "closing"
    BY <1>1, <1>5 DEF Live
<1> HIDE DEF p
<1>7. TypeOK'
    BY <1>1, <1>2, <1>3, <1>4, <1>5 DEF TypeOK
<1>8. NewIsFresh'
    BY <1>1, <1>2, <1>3, <1>5, <1>6 DEF NewIsFresh
<1>9. NewIsWritten' /\ RowsNameTheirFiles'
    BY <1>1, <1>2, <1>5 DEF NewIsWritten, RowsNameTheirFiles
<1>10. OldIsOurs'
    BY <1>1, <1>2, <1>3, <1>5, <1>6 DEF OldIsOurs
<1>11. QED
    BY <1>7, <1>8, <1>9, <1>10 DEF IInv

\* A job that ends frees its path, whatever becomes of the files it held.
LEMMA EndKeepsOthers ==
    ASSUME IInv, NEW j \in Jobs, job' = [job EXCEPT ![j] = NoJob],
           UNCHANGED <<row, nextPath>>, pending' \subseteq pending \cup {job[j].old}
    PROVE  /\ NewIsFresh'
           /\ OldIsOurs'
           /\ Used' = Used
           /\ job' \in [Jobs -> JobState]
           /\ \A i \in Jobs : job'[i].old \in Used' \cup {NoFile} /\ job'[i].new \in Used' \cup {NoFile}
           /\ \A i \in Jobs \ {j} : job'[i] = job[i]
           /\ job'[j].pc = "idle"
<1>1. TypeOK /\ NewIsFresh /\ OldIsOurs
    BY DEF IInv
<1>2. Used' = Used
    BY DEF Used
<1>3. /\ job'[j].pc = "idle" /\ job'[j].old = NoFile /\ job'[j].new = NoFile
      /\ \A i \in Jobs \ {j} : job'[i] = job[i]
    BY <1>1 DEF TypeOK, NoJob
<1>4. NoJob \in JobState
    BY DEF NoJob, JobState
<1>5. job' \in [Jobs -> JobState]
    BY <1>1, <1>4 DEF TypeOK
<1>6. \A i \in Jobs : job'[i].old \in Used' \cup {NoFile} /\ job'[i].new \in Used' \cup {NoFile}
    BY <1>1, <1>2, <1>3 DEF TypeOK
<1>7. NoFile \notin Used
    BY <1>1, NextIsNew
<1>8. NewIsFresh'
  <2> SUFFICES ASSUME NEW i \in Jobs, job'[i].pc \in Live
               PROVE  /\ job'[i].new \in Used'
                      /\ \A e \in Sources : row'[e] # job'[i].new
                      /\ job'[i].new \notin pending'
                      /\ \A k \in Jobs : job'[k].old # job'[i].new
                      /\ \A k \in Jobs \ {i} : job'[k].pc \in Live => job'[k].new # job'[i].new
      BY DEF NewIsFresh
  <2>1. i # j /\ job'[i] = job[i]
      BY <1>3 DEF Live
  <2>2. /\ job[i].new \in Used /\ job[i].new \notin pending
        /\ \A e \in Sources : row[e] # job[i].new
        /\ \A k \in Jobs : job[k].old # job[i].new
        /\ \A k \in Jobs \ {i} : job[k].pc \in Live => job[k].new # job[i].new
      BY <1>1, <2>1 DEF NewIsFresh
  <2>3. \A k \in Jobs : job'[k].old # job[i].new
      BY <1>3, <1>7, <2>2
  <2>4. \A k \in Jobs \ {i} : job'[k].pc \in Live => job'[k].new # job[i].new
      BY <1>3, <2>2 DEF Live
  <2>5. QED
      BY <1>2, <2>1, <2>2, <2>3, <2>4
<1>9. OldIsOurs'
    BY <1>1, <1>2, <1>3 DEF OldIsOurs
<1>10. QED
    BY <1>2, <1>3, <1>5, <1>6, <1>8, <1>9

LEMMA ChildFailsIInv ==
    ASSUME IInv, NEW j \in Jobs, ChildFails(j)
    PROVE  IInv'
<1>1. /\ job' = [job EXCEPT ![j] = NoJob]
      /\ UNCHANGED <<row, known, nextPath, disk, pending, connector, promises, opens, instances, query>>
    BY DEF ChildFails, stored, served
<1>2. TypeOK /\ RowsNameTheirFiles /\ NewIsWritten
    BY DEF IInv
<1>3. /\ NewIsFresh' /\ OldIsOurs' /\ Used' = Used
      /\ job' \in [Jobs -> JobState]
      /\ \A i \in Jobs : job'[i].old \in Used' \cup {NoFile} /\ job'[i].new \in Used' \cup {NoFile}
      /\ \A i \in Jobs \ {j} : job'[i] = job[i]
      /\ job'[j].pc = "idle"
    BY <1>1, EndKeepsOthers
<1>4. TypeOK'
    BY <1>1, <1>2, <1>3 DEF TypeOK
<1>5. QED
    BY <1>1, <1>2, <1>3, <1>4 DEF IInv, NewIsWritten, RowsNameTheirFiles

LEMMA InsertFailsIInv ==
    ASSUME IInv, NEW j \in Jobs, InsertFails(j)
    PROVE  IInv'
<1>1. /\ job[j].pc = "created"
      /\ job' = [job EXCEPT ![j] = NoJob]
      /\ disk' = disk \ {job[j].new}
      /\ UNCHANGED <<row, known, nextPath, pending, connector, promises, opens, instances, query>>
    BY DEF InsertFails, served
<1>2. TypeOK /\ RowsNameTheirFiles /\ NewIsFresh /\ NewIsWritten
    BY DEF IInv
<1>3. /\ NewIsFresh' /\ OldIsOurs' /\ Used' = Used
      /\ job' \in [Jobs -> JobState]
      /\ \A i \in Jobs : job'[i].old \in Used' \cup {NoFile} /\ job'[i].new \in Used' \cup {NoFile}
      /\ \A i \in Jobs \ {j} : job'[i] = job[i]
      /\ job'[j].pc = "idle"
    BY <1>1, EndKeepsOthers
<1>4. /\ \A e \in Sources : row[e] # job[j].new
      /\ \A i \in Jobs \ {j} : job[i].pc \in Live => job[i].new # job[j].new
    BY <1>1, <1>2 DEF NewIsFresh, Live
<1>5. TypeOK'
    BY <1>1, <1>2, <1>3 DEF TypeOK
<1>6. RowsNameTheirFiles' /\ NewIsWritten'
    BY <1>1, <1>2, <1>3, <1>4 DEF RowsNameTheirFiles, NewIsWritten, Live
<1>7. QED
    BY <1>3, <1>5, <1>6 DEF IInv

LEMMA RetireIInv ==
    ASSUME IInv, NEW j \in Jobs, Retire(j)
    PROVE  IInv'
<1>1. /\ job[j].pc = "closing"
      /\ job' = [job EXCEPT ![j] = NoJob]
      /\ UNCHANGED <<row, known, nextPath, connector, promises, opens, instances, query>>
    BY DEF Retire, served
<1>2. TypeOK /\ RowsNameTheirFiles /\ NewIsFresh /\ NewIsWritten /\ OldIsOurs
    BY DEF IInv
<1>3. job[j].old \in Used /\ \A e \in Sources : row[e] # job[j].old
    BY <1>1, <1>2 DEF OldIsOurs
<1>4. /\ pending' \subseteq pending \cup {job[j].old}
      /\ disk' \subseteq disk
      /\ disk \ (pending \cup {job[j].old}) \subseteq disk'
      /\ (disk \ {job[j].old}) \cap Named \subseteq disk'
  <2>1. CASE RetryPending(pending, disk \ {job[j].old})
      BY <2>1, RetrySpares
  <2>2. CASE RetryPending(pending \cup {job[j].old}, disk)
      BY <2>2, RetrySpares
  <2>3. QED
      BY <2>1, <2>2 DEF Retire
<1>5. /\ NewIsFresh' /\ OldIsOurs' /\ Used' = Used
      /\ job' \in [Jobs -> JobState]
      /\ \A i \in Jobs : job'[i].old \in Used' \cup {NoFile} /\ job'[i].new \in Used' \cup {NoFile}
      /\ \A i \in Jobs \ {j} : job'[i] = job[i]
      /\ job'[j].pc = "idle"
    BY <1>1, <1>4, EndKeepsOthers
<1>6. TypeOK'
    BY <1>1, <1>2, <1>3, <1>4, <1>5 DEF TypeOK
<1>7. NewIsWritten'
  <2> SUFFICES ASSUME NEW i \in Jobs, job'[i].pc \in {"created", "built"}
               PROVE  job'[i].new \in disk'
      BY DEF NewIsWritten
  <2>1. job'[i] = job[i] /\ job[i].pc \in Live
      BY <1>5 DEF Live
  <2>2. job[i].new \in disk /\ job[i].new \notin pending /\ job[i].new # job[j].old
      BY <1>2, <2>1 DEF NewIsWritten, NewIsFresh
  <2>3. QED
      BY <1>4, <2>1, <2>2
<1>8. RowsNameTheirFiles'
    BY <1>1, <1>2, <1>3, <1>4 DEF RowsNameTheirFiles, Named
<1>9. QED
    BY <1>5, <1>6, <1>7, <1>8 DEF IInv

LEMMA InsertIInv ==
    ASSUME IInv, NEW j \in Jobs, Insert(j)
    PROVE  IInv'
<1> DEFINE s == job[j].source
           f == job[j].new
<1>1. /\ job[j].pc = "created"
      /\ row' = [row EXCEPT ![s] = f]
      /\ job' = [job EXCEPT ![j] = NoJob]
      /\ UNCHANGED <<known, nextPath, disk, pending, connector, promises, opens, instances, query>>
    BY DEF Insert, served
<1>2. TypeOK /\ RowsNameTheirFiles /\ NewIsFresh /\ NewIsWritten /\ OldIsOurs
    BY DEF IInv
<1>3. /\ f \in Used /\ f \in disk
      /\ \A e \in Sources : row[e] # f
      /\ \A i \in Jobs : job[i].old # f
      /\ \A i \in Jobs \ {j} : job[i].pc \in Live => job[i].new # f
    BY <1>1, <1>2 DEF NewIsFresh, NewIsWritten, Live
<1>4. NoJob \in JobState
    BY DEF NoJob, JobState
<1>5. /\ job'[j].pc = "idle" /\ job'[j].old = NoFile /\ job'[j].new = NoFile
      /\ \A i \in Jobs \ {j} : job'[i] = job[i]
    BY <1>1, <1>2 DEF TypeOK, NoJob
<1>6. Used' = Used /\ NoFile \notin Used
    BY <1>1, <1>2, NextIsNew DEF Used
<1>7. \A e \in Sources : row'[e] = row[e] \/ row'[e] = f
    BY <1>1, <1>2 DEF TypeOK
<1>8. \A e \in Sources : row'[e] = f => e = s
    BY <1>1, <1>2, <1>3 DEF TypeOK
<1> HIDE DEF f, s
<1>9. TypeOK'
  <2>1. row' \in [Sources -> Used' \cup {NoFile}]
      BY <1>1, <1>2, <1>3, <1>6 DEF TypeOK
  <2>2. job' \in [Jobs -> JobState]
      BY <1>1, <1>2, <1>4 DEF TypeOK
  <2>3. \A i \in Jobs : job'[i].old \in Used' \cup {NoFile} /\ job'[i].new \in Used' \cup {NoFile}
      BY <1>2, <1>5, <1>6 DEF TypeOK
  <2>4. QED
      BY <1>1, <1>2, <1>6, <2>1, <2>2, <2>3 DEF TypeOK
<1>10. RowsNameTheirFiles'
  <2> SUFFICES ASSUME NEW d \in Sources, row'[d] # NoFile
               PROVE  row'[d] \in disk' /\ \A e \in Sources \ {d} : row'[e] # row'[d]
      BY DEF RowsNameTheirFiles
  <2>1. CASE row'[d] = f
      BY <1>1, <1>3, <1>8, <2>1
  <2>2. CASE row'[d] # f
    <3>1. row'[d] = row[d]
        BY <1>7, <2>2
    <3>2. row[d] \in disk /\ \A e \in Sources \ {d} : row[e] # row[d]
        BY <1>2, <3>1 DEF RowsNameTheirFiles
    <3>3. QED
        BY <1>1, <1>7, <2>2, <3>1, <3>2
  <2>3. QED
      BY <2>1, <2>2
<1>11. NewIsFresh'
  <2> SUFFICES ASSUME NEW i \in Jobs, job'[i].pc \in Live
               PROVE  /\ job'[i].new \in Used'
                      /\ \A e \in Sources : row'[e] # job'[i].new
                      /\ job'[i].new \notin pending'
                      /\ \A k \in Jobs : job'[k].old # job'[i].new
                      /\ \A k \in Jobs \ {i} : job'[k].pc \in Live => job'[k].new # job'[i].new
      BY DEF NewIsFresh
  <2>1. i # j /\ job'[i] = job[i]
      BY <1>5 DEF Live
  <2>2. /\ job[i].new \in Used /\ job[i].new \notin pending /\ job[i].new # f
        /\ \A e \in Sources : row[e] # job[i].new
        /\ \A k \in Jobs : job[k].old # job[i].new
        /\ \A k \in Jobs \ {i} : job[k].pc \in Live => job[k].new # job[i].new
      BY <1>2, <1>3, <2>1 DEF NewIsFresh
  <2>3. \A k \in Jobs : job'[k].old # job[i].new
      BY <1>5, <1>6, <2>2
  <2>4. \A k \in Jobs \ {i} : job'[k].pc \in Live => job'[k].new # job[i].new
      BY <1>5, <2>2 DEF Live
  <2>5. pending' = pending
      BY <1>1
  <2>6. QED
      BY <1>6, <1>7, <2>1, <2>2, <2>3, <2>4, <2>5
<1>12. NewIsWritten'
    BY <1>1, <1>2, <1>5 DEF NewIsWritten
<1>13. OldIsOurs'
  <2> SUFFICES ASSUME NEW i \in Jobs, job'[i].pc \in {"building", "built", "closing"}
               PROVE  /\ job'[i].old \in Used'
                      /\ \A e \in Sources \ {job'[i].source} : row'[e] # job'[i].old
                      /\ job'[i].pc = "closing" => \A e \in Sources : row'[e] # job'[i].old
      BY DEF OldIsOurs
  <2>1. i # j /\ job'[i] = job[i]
      BY <1>5
  <2>2. job[i].old # f
      BY <1>3
  <2>3. QED
      BY <1>2, <1>6, <1>7, <2>1, <2>2 DEF OldIsOurs
<1>14. QED
    BY <1>9, <1>10, <1>11, <1>12, <1>13 DEF IInv

LEMMA CloseForgets ==
    ASSUME NEW f, Close(f)
    PROVE  instances' \subseteq instances /\ promises' \subseteq promises
BY DEF Close

LEMMA SwitchIInv ==
    ASSUME IInv, NEW j \in Jobs, Switch(j)
    PROVE  IInv'
<1> DEFINE s == job[j].source
           f == job[j].new
<1>1. /\ job[j].pc = "built"
      /\ row' = IF row[s] = NoFile THEN row ELSE [row EXCEPT ![s] = f]
      /\ connector' = [connector EXCEPT ![s] = NoFile]
      /\ Close(job[j].old)
      /\ job' = [job EXCEPT ![j].pc = "closing"]
      /\ UNCHANGED <<known, nextPath, disk, pending, opens, query>>
    BY DEF Switch
<1>2. TypeOK /\ RowsNameTheirFiles /\ NewIsFresh /\ NewIsWritten /\ OldIsOurs
    BY DEF IInv
<1>3. /\ f \in Used /\ f \in disk
      /\ \A e \in Sources : row[e] # f
      /\ \A i \in Jobs : job[i].old # f
      /\ \A i \in Jobs \ {j} : job[i].pc \in Live => job[i].new # f
    BY <1>1, <1>2 DEF NewIsFresh, NewIsWritten, Live
<1>4. /\ \A i \in Jobs : job'[i].source = job[i].source /\ job'[i].old = job[i].old /\ job'[i].new = job[i].new
      /\ \A i \in Jobs \ {j} : job'[i].pc = job[i].pc
      /\ job'[j].pc = "closing"
      /\ job' \in [Jobs -> JobState]
    BY <1>1, <1>2 DEF TypeOK, JobState
<1>5. Used' = Used /\ NoFile \notin Used
    BY <1>1, <1>2, NextIsNew DEF Used
<1>6. \A e \in Sources : row'[e] = row[e] \/ row'[e] = f
    BY <1>1, <1>2 DEF TypeOK
<1>7. \A e \in Sources : row'[e] = f => e = s
    BY <1>1, <1>2, <1>3 DEF TypeOK
<1>8. s \in Sources => row'[s] = f \/ row'[s] = NoFile
    BY <1>1, <1>2 DEF TypeOK
<1>9. row' \in [Sources -> Used' \cup {NoFile}]
    BY <1>1, <1>2, <1>3, <1>5 DEF TypeOK
<1>10. connector' \in [Sources -> Used' \cup {NoFile}]
    BY <1>1, <1>2, <1>5 DEF TypeOK
<1> HIDE DEF f
<1>11. TypeOK'
    BY <1>1, <1>2, <1>4, <1>5, <1>9, <1>10, CloseForgets DEF TypeOK
<1>12. RowsNameTheirFiles'
  <2> SUFFICES ASSUME NEW d \in Sources, row'[d] # NoFile
               PROVE  row'[d] \in disk' /\ \A e \in Sources \ {d} : row'[e] # row'[d]
      BY DEF RowsNameTheirFiles
  <2>1. CASE row'[d] = f
      BY <1>1, <1>3, <1>7, <2>1
  <2>2. CASE row'[d] # f
    <3>1. row'[d] = row[d]
        BY <1>6, <2>2
    <3>2. row[d] \in disk /\ \A e \in Sources \ {d} : row[e] # row[d]
        BY <1>2, <3>1 DEF RowsNameTheirFiles
    <3>3. QED
        BY <1>1, <1>6, <2>2, <3>1, <3>2
  <2>3. QED
      BY <2>1, <2>2
<1>13. NewIsFresh'
  <2> SUFFICES ASSUME NEW i \in Jobs, job'[i].pc \in Live
               PROVE  /\ job'[i].new \in Used'
                      /\ \A e \in Sources : row'[e] # job'[i].new
                      /\ job'[i].new \notin pending'
                      /\ \A k \in Jobs : job'[k].old # job'[i].new
                      /\ \A k \in Jobs \ {i} : job'[k].pc \in Live => job'[k].new # job'[i].new
      BY DEF NewIsFresh
  <2>1. i # j /\ job[i].pc \in Live
      BY <1>4 DEF Live
  <2>2. /\ job[i].new \in Used /\ job[i].new \notin pending /\ job[i].new # f
        /\ \A e \in Sources : row[e] # job[i].new
        /\ \A k \in Jobs : job[k].old # job[i].new
        /\ \A k \in Jobs \ {i} : job[k].pc \in Live => job[k].new # job[i].new
      BY <1>2, <1>3, <2>1 DEF NewIsFresh
  <2>3. \A k \in Jobs : job'[k].pc \in Live => job[k].pc \in Live
      BY <1>4 DEF Live
  <2>4. QED
      BY <1>1, <1>4, <1>5, <1>6, <2>2, <2>3
<1>14. NewIsWritten'
    BY <1>1, <1>2, <1>4 DEF NewIsWritten
<1>15. OldIsOurs'
  <2> SUFFICES ASSUME NEW i \in Jobs, job'[i].pc \in {"building", "built", "closing"}
               PROVE  /\ job'[i].old \in Used'
                      /\ \A e \in Sources \ {job'[i].source} : row'[e] # job'[i].old
                      /\ job'[i].pc = "closing" => \A e \in Sources : row'[e] # job'[i].old
      BY DEF OldIsOurs
  <2>1. job[i].old # f /\ job[i].pc \in {"building", "built", "closing"}
      BY <1>1, <1>3, <1>4
  <2>2. job[i].old \in Used /\ \A e \in Sources \ {job[i].source} : row[e] # job[i].old
      BY <1>2, <2>1 DEF OldIsOurs
  <2>3. CASE i = j
      BY <1>4, <1>5, <1>6, <1>8, <2>1, <2>2, <2>3
  <2>4. CASE i # j
    <3>1. job[i].pc = "closing" => \A e \in Sources : row[e] # job[i].old
        BY <1>2 DEF OldIsOurs
    <3>2. QED
        BY <1>4, <1>5, <1>6, <2>1, <2>2, <2>4, <3>1
  <2>5. QED
      BY <2>3, <2>4
<1>16. QED
    BY <1>11, <1>12, <1>13, <1>14, <1>15 DEF IInv

LEMMA GoneIInv ==
    ASSUME IInv, NEW j \in Jobs, NEW d \in Sources, Gone(j, d),
           connector' = connector \/ connector' = [connector EXCEPT ![d] = NoFile]
    PROVE  IInv'
<1> DEFINE f == row[d]
           n == [pc |-> "closing", source |-> d, old |-> f, new |-> NoFile]
<1>1. /\ f # NoFile
      /\ row' = [row EXCEPT ![d] = NoFile]
      /\ Close(f)
      /\ job' = [job EXCEPT ![j] = n]
      /\ UNCHANGED <<known, nextPath, disk, pending, opens, query>>
    BY DEF Gone
<1>2. TypeOK /\ RowsNameTheirFiles /\ NewIsFresh /\ NewIsWritten /\ OldIsOurs
    BY DEF IInv
<1>3. Used' = Used /\ NoFile \notin Used
    BY <1>1, <1>2, NextIsNew DEF Used
<1>4. f \in Used /\ \A e \in Sources \ {d} : row[e] # f
    BY <1>1, <1>2 DEF TypeOK, RowsNameTheirFiles
<1>5. \A e \in Sources : row'[e] = IF e = d THEN NoFile ELSE row[e]
    BY <1>1, <1>2 DEF TypeOK
<1>6. row' \in [Sources -> Used' \cup {NoFile}] /\ connector' \in [Sources -> Used' \cup {NoFile}]
    BY <1>1, <1>2, <1>3 DEF TypeOK
<1>7. \A i \in Jobs : job[i].pc \in Live => job[i].new # f
    BY <1>2 DEF NewIsFresh
<1>8. n \in JobState
    BY <1>2, <1>4, UsedAreFiles DEF JobState
<1>9. job' \in [Jobs -> JobState]
    BY <1>1, <1>2, <1>8 DEF TypeOK
<1>10. /\ job'[j].pc = "closing" /\ job'[j].source = d /\ job'[j].old = f /\ job'[j].new = NoFile
       /\ \A i \in Jobs \ {j} : job'[i] = job[i]
    BY <1>1, <1>2 DEF TypeOK
<1> HIDE DEF f, n
<1>11. \A i \in Jobs : job'[i].old \in Used' \cup {NoFile} /\ job'[i].new \in Used' \cup {NoFile}
    BY <1>2, <1>3, <1>4, <1>10 DEF TypeOK
<1>12. TypeOK'
    BY <1>1, <1>2, <1>3, <1>6, <1>9, <1>11, CloseForgets DEF TypeOK
<1>13. RowsNameTheirFiles'
    BY <1>1, <1>2, <1>5 DEF RowsNameTheirFiles
<1>14. NewIsFresh'
  <2> SUFFICES ASSUME NEW i \in Jobs, job'[i].pc \in Live
               PROVE  /\ job'[i].new \in Used'
                      /\ \A e \in Sources : row'[e] # job'[i].new
                      /\ job'[i].new \notin pending'
                      /\ \A k \in Jobs : job'[k].old # job'[i].new
                      /\ \A k \in Jobs \ {i} : job'[k].pc \in Live => job'[k].new # job'[i].new
      BY DEF NewIsFresh
  <2>1. i # j /\ job'[i] = job[i]
      BY <1>10 DEF Live
  <2>2. /\ job[i].new \in Used /\ job[i].new \notin pending /\ job[i].new # f
        /\ \A e \in Sources : row[e] # job[i].new
        /\ \A k \in Jobs : job[k].old # job[i].new
        /\ \A k \in Jobs \ {i} : job[k].pc \in Live => job[k].new # job[i].new
      BY <1>2, <1>7, <2>1 DEF NewIsFresh
  <2>3. \A k \in Jobs : job'[k].old # job[i].new
      BY <1>10, <2>2
  <2>4. \A k \in Jobs \ {i} : job'[k].pc \in Live => job'[k].new # job[i].new
      BY <1>10, <2>2 DEF Live
  <2>5. pending' = pending
      BY <1>1
  <2>6. QED
      BY <1>3, <1>5, <2>1, <2>2, <2>3, <2>4, <2>5
<1>15. NewIsWritten'
    BY <1>1, <1>2, <1>10 DEF NewIsWritten
<1>16. OldIsOurs'
  <2> SUFFICES ASSUME NEW i \in Jobs, job'[i].pc \in {"building", "built", "closing"}
               PROVE  /\ job'[i].old \in Used'
                      /\ \A e \in Sources \ {job'[i].source} : row'[e] # job'[i].old
                      /\ job'[i].pc = "closing" => \A e \in Sources : row'[e] # job'[i].old
      BY DEF OldIsOurs
  <2>1. CASE i = j
    <3>1. \A e \in Sources : row'[e] # f
        BY <1>3, <1>4, <1>5
    <3>2. QED
        BY <1>3, <1>4, <1>10, <2>1, <3>1
  <2>2. CASE i # j
    <3>1. job'[i] = job[i]
        BY <1>10, <2>2
    <3>2. /\ job[i].old \in Used
          /\ \A e \in Sources \ {job[i].source} : row[e] # job[i].old
          /\ job[i].pc = "closing" => \A e \in Sources : row[e] # job[i].old
        BY <1>2, <3>1 DEF OldIsOurs
    <3>3. QED
        BY <1>3, <1>5, <3>1, <3>2
  <2>3. QED
      BY <2>1, <2>2
<1>17. QED
    BY <1>12, <1>13, <1>14, <1>15, <1>16 DEF IInv

-----------------------------------------------------------------------------
(* Queries and restarts: no row and no job of theirs. *)

LEMMA QueryIInv ==
    ASSUME IInv, QueryStep
    PROVE  IInv'
<1>1. TypeOK /\ RowsNameTheirFiles /\ NewIsFresh /\ NewIsWritten /\ OldIsOurs
    BY DEF IInv
<1>2. UNCHANGED <<row, known, nextPath, disk, pending, job>>
    BY DEF QueryStep, Load, Connect, OpenDone, OpenFails, stored
<1>3. Used' = Used /\ Used \subseteq Files
    BY <1>1, <1>2, UsedAreFiles DEF Used
<1>4. TypeOK'
  <2>1. ASSUME NEW q \in Queries, NEW d \in Sources, Load(q, d)
        PROVE  TypeOK'
    <3>1. row[d] \in Used
        BY <1>1, <2>1 DEF Load, TypeOK
    <3>2. query' \in [Queries -> [source : Sources, file : Used] \cup {NoQuery}]
        BY <1>1, <2>1, <3>1 DEF Load, TypeOK
    <3>3. QED
        BY <1>1, <1>2, <1>3, <2>1, <3>2 DEF Load, TypeOK, served
  <2>2. ASSUME NEW q \in Queries, Connect(q)
        PROVE  TypeOK'
    <3> DEFINE d == query[q].source
               f == ConnectorFile(q)
    <3>1. query[q] # NoQuery /\ query[q] \in [source : Sources, file : Used]
        BY <1>1, <2>2 DEF Connect, TypeOK
    <3>2. d \in Sources /\ f \in Used
        BY <1>1, <3>1 DEF TypeOK, ConnectorFile
    <3>3. /\ connector' = [connector EXCEPT ![d] = f]
          /\ query' = [query EXCEPT ![q] = NoQuery]
          /\ UNCHANGED instances
          /\ \/ UNCHANGED <<promises, opens>>
             \/ promises' = promises \cup {f} /\ opens' = [opens EXCEPT ![f] = @ + 1]
        BY <2>2 DEF Connect
    <3> HIDE DEF d, f
    <3>4. connector' \in [Sources -> Used \cup {NoFile}]
        BY <1>1, <3>2, <3>3 DEF TypeOK
    <3>5. query' \in [Queries -> [source : Sources, file : Used] \cup {NoQuery}]
        BY <1>1, <3>3 DEF TypeOK
    <3>6. promises' \subseteq Used /\ opens' \in [Files -> Nat] /\ \A g \in Files \ Used : opens'[g] = 0
        BY <1>1, <1>3, <3>2, <3>3 DEF TypeOK
    <3>7. QED
        BY <1>1, <1>2, <1>3, <3>3, <3>4, <3>5, <3>6 DEF TypeOK
  <2>3. ASSUME NEW f \in Files, OpenDone(f) \/ OpenFails(f)
        PROVE  TypeOK'
    <3>1. /\ opens[f] > 0
          /\ opens' = [opens EXCEPT ![f] = @ - 1]
          /\ promises' = promises \ {f}
          /\ instances' = instances \/ instances' = instances \cup {f}
          /\ UNCHANGED <<connector, query>>
        BY <2>3 DEF OpenDone, OpenFails
    <3>2. opens' \in [Files -> Nat] /\ \A g \in Files \ Used : opens'[g] = 0
        BY <1>1, <3>1 DEF TypeOK
    <3>3. f \in Used
        BY <1>1, <3>1 DEF TypeOK
    <3>4. QED
        BY <1>1, <1>2, <1>3, <3>1, <3>2, <3>3 DEF TypeOK
  <2>4. QED
      BY <2>1, <2>2, <2>3 DEF QueryStep
<1>5. QED
    BY <1>1, <1>2, <1>3, <1>4 DEF IInv, RowsNameTheirFiles, NewIsFresh, NewIsWritten, OldIsOurs

LEMMA RestartIInv ==
    ASSUME IInv, Restart
    PROVE  IInv'
<1>1. TypeOK /\ RowsNameTheirFiles /\ NewIsFresh
    BY DEF IInv
<1>2. PICK partial \in SUBSET {job[j].new : j \in {i \in Jobs : job[i].pc \in {"creating", "building"}}} :
        RetryPending(pending, disk \cup partial)
    BY DEF Restart
<1>3. partial \subseteq Used
    BY <1>1, <1>2 DEF NewIsFresh, Live
<1>4. /\ pending' \subseteq pending
      /\ disk' \subseteq disk \cup partial
      /\ (disk \cup partial) \cap Named \subseteq disk'
    BY <1>2, RetrySpares
<1>5. Used' = Used
    BY DEF Restart, Used
<1>6. /\ \A j \in Jobs : job'[j] = NoJob
      /\ job' \in [Jobs -> JobState]
    BY DEF Restart, NoJob, JobState
<1>7. TypeOK'
  <2>1. /\ disk' \subseteq Used /\ pending' \subseteq Used
      BY <1>1, <1>3, <1>4 DEF TypeOK
  <2>2. /\ connector' \in [Sources -> Used \cup {NoFile}]
        /\ promises' = {} /\ instances' = {}
        /\ opens' \in [Files -> Nat] /\ \A f \in Files : opens'[f] = 0
        /\ query' \in [Queries -> [source : Sources, file : Used] \cup {NoQuery}]
        /\ UNCHANGED <<row, known, nextPath>>
      BY DEF Restart
  <2>3. \A j \in Jobs : job'[j].old \in Used' \cup {NoFile} /\ job'[j].new \in Used' \cup {NoFile}
      BY <1>6 DEF NoJob
  <2>4. QED
      BY <1>1, <1>5, <1>6, <2>1, <2>2, <2>3 DEF TypeOK
<1>8. RowsNameTheirFiles'
    BY <1>1, <1>4 DEF RowsNameTheirFiles, Named, Restart
<1>9. \A j \in Jobs : job'[j].pc = "idle"
    BY <1>6 DEF NoJob
<1>10. NewIsFresh' /\ NewIsWritten' /\ OldIsOurs'
    BY <1>9 DEF NewIsFresh, NewIsWritten, OldIsOurs, Live
<1>11. QED
    BY <1>7, <1>8, <1>10 DEF IInv

LEMMA StepIInv == IInv /\ [Next]_vars => IInv'
<1> SUFFICES ASSUME IInv, [Next]_vars
             PROVE  IInv'
    OBVIOUS
<1>1. ASSUME NEW j \in Jobs, JobStep(j)
      PROVE  IInv'
  <2>1. ASSUME NEW d \in Sources, DeleteSource(j, d) \/ DeleteOwner(j, d)
        PROVE  IInv'
      BY <2>1, GoneIInv DEF DeleteSource, DeleteOwner
  <2>2. QED
      BY <1>1, <2>1, BeginCreateIInv, BeginImportIInv, ChildDoneIInv, ChildFailsIInv,
         InsertIInv, InsertFailsIInv, SwitchIInv, RetireIInv DEF JobStep
<1>2. CASE UNCHANGED vars
    BY <1>2 DEF vars, IInv, TypeOK, RowsNameTheirFiles, NewIsFresh, NewIsWritten, OldIsOurs, Used
<1>3. QED
    BY <1>1, <1>2, QueryIInv, RestartIInv DEF Next, Running

LEMMA Invariance == Spec => []IInv
BY InitIInv, StepIInv, PTL DEF Spec

-----------------------------------------------------------------------------
\* Whatever overlaps, what the process and its database hold is well formed,
\* and no path is met that versionPath has not handed out.
THEOREM TypeCorrect == Spec => []TypeOK
<1>1. IInv => TypeOK
    BY DEF IInv
<1>2. QED
    BY <1>1, Invariance, PTL

\* However imports, deletions, retries of pending removals, crashes and
\* restarts interleave, the file a row names exists and is no other row's:
\* nothing the code removes was still named.
THEOREM RowsKeepTheirFiles == Spec => []RowsNameTheirFiles
<1>1. IInv => RowsNameTheirFiles
    BY DEF IInv
<1>2. QED
    BY <1>1, Invariance, PTL

\* No request waits for an open that is over: a failed open is forgotten, a
\* closed file's too.
THEOREM WaitersAreAnswered == Spec => []WaitersHaveAnOpen
<1>1. Init => WaitersHaveAnOpen
    BY DEF Init, WaitersHaveAnOpen
<1>2. IInv /\ WaitersHaveAnOpen /\ [Next]_vars => WaitersHaveAnOpen'
  <2> SUFFICES ASSUME TypeOK, WaitersHaveAnOpen, [Next]_vars
               PROVE  WaitersHaveAnOpen'
      BY DEF IInv
  <2>1. ASSUME promises' \subseteq promises, opens' = opens
        PROVE  WaitersHaveAnOpen'
      BY <2>1 DEF WaitersHaveAnOpen
  <2>2. ASSUME NEW j \in Jobs, JobStep(j)
        PROVE  promises' \subseteq promises /\ opens' = opens
      BY <2>2 DEF JobStep, BeginCreate, BeginImport, DeleteSource, DeleteOwner, Gone, ChildDone,
           ChildFails, Insert, InsertFails, Switch, Retire, Close, served
  <2>3. ASSUME NEW q \in Queries, NEW d \in Sources, Load(q, d)
        PROVE  promises' \subseteq promises /\ opens' = opens
      BY <2>3 DEF Load, served
  <2>4. ASSUME NEW q \in Queries, Connect(q)
        PROVE  WaitersHaveAnOpen'
    <3>1. PICK f : \/ UNCHANGED <<promises, opens>>
                   \/ /\ f \in Files
                      /\ promises' = promises \cup {f}
                      /\ opens' = [opens EXCEPT ![f] = @ + 1]
      <4> DEFINE f == ConnectorFile(q)
      <4>1. query[q] \in [source : Sources, file : Used]
          BY <2>4 DEF Connect, TypeOK
      <4>2. f \in Files
          BY <4>1, UsedAreFiles DEF TypeOK, ConnectorFile
      <4>3. QED
          BY <2>4, <4>2 DEF Connect
    <3>2. opens \in [Files -> Nat] /\ promises \subseteq Files
        BY UsedAreFiles DEF TypeOK
    <3>3. QED
        BY <3>1, <3>2 DEF WaitersHaveAnOpen
  <2>5. ASSUME NEW f \in Files, OpenDone(f) \/ OpenFails(f)
        PROVE  WaitersHaveAnOpen'
    <3>1. promises' = promises \ {f} /\ opens' = [opens EXCEPT ![f] = @ - 1]
        BY <2>5 DEF OpenDone, OpenFails
    <3>2. opens \in [Files -> Nat] /\ promises \subseteq Files
        BY UsedAreFiles DEF TypeOK
    <3>3. QED
        BY <3>1, <3>2 DEF WaitersHaveAnOpen
  <2>6. CASE Restart
      BY <2>6 DEF Restart, WaitersHaveAnOpen
  <2>7. CASE UNCHANGED vars
      BY <2>7 DEF vars, WaitersHaveAnOpen
  <2>8. QED
      BY <2>1, <2>2, <2>3, <2>4, <2>5, <2>6, <2>7 DEF Next, Running, QueryStep
<1>3. QED
    BY <1>1, <1>2, Invariance, PTL DEF Spec

-----------------------------------------------------------------------------
(* While it is calm, nothing is forgotten and nothing stale is cached.      *)

Creating == {"creating", "created"}

\* An import that does not run holds no file, one that does is of a source; one that has not written its
\* file has none on disk; a first import has none to retire.
JobsHoldFiles ==
    \A j \in Jobs :
        /\ job[j].pc = "idle" => job[j].new = NoFile
        /\ job[j].pc # "idle" => job[j].source \in Sources
        /\ job[j].pc \in {"idle"} \cup Creating => job[j].old = NoFile
        /\ job[j].pc \in {"creating", "building"} => job[j].new \notin disk

\* A source that has no row yet: its id is not handed out, or one first import
\* of it is under way.  Nobody has read it or connected to it.
Unborn(d) == d \notin known \/ \E j \in Jobs : job[j].pc \in Creating /\ job[j].source = d

UnbornAreUnseen ==
    /\ \A d \in Sources : Unborn(d) =>
          row[d] = NoFile /\ connector[d] = NoFile /\ \A q \in Queries : query[q].source # d
    /\ \A j \in Jobs : job[j].pc \in Creating =>
          /\ job[j].source \in known
          /\ \A i \in Jobs \ {j} : job[i].pc \in Creating => job[i].source # job[j].source

\* The row is still what the import read, and what it has made of it.
RowsFollowJobs ==
    \A j \in Jobs :
        /\ job[j].pc \in {"building", "built"} => row[job[j].source] = job[j].old
        /\ job[j].pc = "closing" => row[job[j].source] = job[j].new

Calm ==
    calm => /\ OneJobPerSource /\ NoOvertakenQuery
            /\ RowsFollowJobs
            /\ NoFileIsForgotten
            /\ ConnectorIsCurrent

LEMMA HeldInit == Init => JobsHoldFiles /\ UnbornAreUnseen
<1>1. ASSUME Init, NEW j \in Jobs PROVE job[j] = NoJob
  BY <1>1 DEF Init
<1>2. ASSUME Init, NEW q \in Queries PROVE query[q] = NoQuery
  BY <1>2 DEF Init
<1>3. \A d \in Sources : d # NoFile
  BY FilesAssumption DEF FilesAssumption, NoFile
<1>4. QED
  BY <1>1, <1>2, <1>3 DEF Init, JobsHoldFiles, UnbornAreUnseen, Creating, NoJob, NoQuery

\* A step of one job leaves what the others hold, as long as it writes no file
\* that one of them is about to write.
LEMMA HeldByOthers ==
    ASSUME IInv, JobsHoldFiles, NEW j \in Jobs, \A i \in Jobs \ {j} : job'[i] = job[i],
           disk' \subseteq disk \cup {job[j].new}, job[j].pc \notin Live => disk' \subseteq disk,
           /\ job'[j].pc = "idle" => job'[j].new = NoFile
           /\ job'[j].pc # "idle" => job'[j].source \in Sources
           /\ job'[j].pc \in {"idle"} \cup Creating => job'[j].old = NoFile
           /\ job'[j].pc \in {"creating", "building"} => job'[j].new \notin disk'
    PROVE  JobsHoldFiles'
<1> SUFFICES ASSUME NEW i \in Jobs, i # j, job[i].pc \in {"creating", "building"} PROVE job[i].new \notin disk'
  BY DEF JobsHoldFiles
<1>1. job[i].new \notin disk
  BY DEF JobsHoldFiles
<1>2. job[j].pc \in Live => job[i].new # job[j].new
  BY DEF IInv, NewIsFresh, Live
<1>3. QED
  BY <1>1, <1>2

\* A step that makes no source and starts no first import leaves the unborn so.
LEMMA UnbornStay ==
    ASSUME UnbornAreUnseen, known' = known,
           \A j \in Jobs : job'[j].pc \in Creating => job[j].pc \in Creating /\ job'[j].source = job[j].source,
           \A d \in Sources : Unborn(d)' /\ row[d] = NoFile /\ connector[d] = NoFile
                              => row'[d] = NoFile /\ connector'[d] = NoFile,
           \A q \in Queries : \A d \in Sources : query'[q].source = d => query[q].source = d \/ row[d] # NoFile
    PROVE  UnbornAreUnseen'
<1>1. \A d \in Sources : Unborn(d)' => Unborn(d)
  BY DEF Unborn
<1>2. ASSUME NEW d \in Sources, Unborn(d)'
      PROVE  row'[d] = NoFile /\ connector'[d] = NoFile /\ \A q \in Queries : query'[q].source # d
  BY <1>1, <1>2 DEF UnbornAreUnseen
<1>3. ASSUME NEW j \in Jobs, job'[j].pc \in Creating
      PROVE  /\ job'[j].source \in known'
             /\ \A i \in Jobs \ {j} : job'[i].pc \in Creating => job'[i].source # job'[j].source
  BY <1>3 DEF UnbornAreUnseen
<1>4. QED
  BY <1>2, <1>3 DEF UnbornAreUnseen

LEMMA JobHeld ==
    ASSUME IInv, JobsHoldFiles, UnbornAreUnseen, NEW j \in Jobs, JobStep(j)
    PROVE  JobsHoldFiles' /\ UnbornAreUnseen'
<1>0. /\ TypeOK /\ job = [i \in Jobs |-> job[i]] /\ row = [d \in Sources |-> row[d]]
      /\ connector = [d \in Sources |-> connector[d]]
  BY DEF IInv, TypeOK
<1>1. nextPath \notin disk /\ nextPath # NoFile
  BY <1>0, NextIsNew DEF TypeOK
<1>2. \A i \in Jobs : job[i].pc \in {"idle", "creating", "building", "created", "built", "closing"}
                      /\ job[i].source \in Sources \cup {NoFile}
  BY DEF IInv, TypeOK, JobState
<1>3. ASSUME NEW d \in Sources, BeginCreate(j, d) PROVE JobsHoldFiles' /\ UnbornAreUnseen'
  <2>1. /\ job[j].pc = "idle" /\ d \notin known /\ known' = known \cup {d}
        /\ job' = [job EXCEPT ![j] = [pc |-> "creating", source |-> d, old |-> NoFile, new |-> nextPath]]
        /\ UNCHANGED <<row, disk, connector, query>>
    BY <1>3 DEF BeginCreate, served
  <2>2. \A i \in Jobs : job'[i] = IF i = j THEN [pc |-> "creating", source |-> d, old |-> NoFile, new |-> nextPath] ELSE job[i]
    BY <1>0, <2>1
  <2>3. JobsHoldFiles'
    BY <1>1, <2>1, <2>2, HeldByOthers
  <2>4. \A e \in Sources : Unborn(e)' => Unborn(e)
    BY <2>1, <2>2 DEF Unborn
  <2>5. \A i \in Jobs : job[i].pc \in Creating => job[i].source # d
    BY <2>1 DEF UnbornAreUnseen
  <2>6. QED
    BY <2>1, <2>2, <2>3, <2>4, <2>5 DEF UnbornAreUnseen
<1>4. ASSUME NEW d \in Sources, BeginImport(j, d) PROVE JobsHoldFiles' /\ UnbornAreUnseen'
  <2>1. /\ job' = [job EXCEPT ![j] = [pc |-> "building", source |-> d, old |-> row[d], new |-> nextPath]]
        /\ job[j].pc = "idle"
        /\ UNCHANGED <<row, known, disk, connector, query>>
    BY <1>4 DEF BeginImport, served
  <2>2. \A i \in Jobs : job'[i] = IF i = j THEN [pc |-> "building", source |-> d, old |-> row[d], new |-> nextPath] ELSE job[i]
    BY <1>0, <2>1
  <2>3. JobsHoldFiles'
    BY <1>1, <2>1, <2>2, HeldByOthers DEF Creating
  <2>4. QED
    BY <2>1, <2>2, <2>3, UnbornStay DEF Creating
<1>5. ASSUME NEW d \in Sources, DeleteSource(j, d) \/ DeleteOwner(j, d) PROVE JobsHoldFiles' /\ UnbornAreUnseen'
  <2>1. /\ job' = [job EXCEPT ![j] = [pc |-> "closing", source |-> d, old |-> row[d], new |-> NoFile]]
        /\ job[j].pc = "idle" /\ row' = [row EXCEPT ![d] = NoFile]
        /\ UNCHANGED <<known, disk, query>>
        /\ connector' \in {connector, [connector EXCEPT ![d] = NoFile]}
    BY <1>5 DEF DeleteSource, DeleteOwner, Gone
  <2>2. \A i \in Jobs : job'[i] = IF i = j THEN [pc |-> "closing", source |-> d, old |-> row[d], new |-> NoFile] ELSE job[i]
    BY <1>0, <2>1
  <2>3. JobsHoldFiles'
    BY <2>1, <2>2, HeldByOthers DEF Creating
  <2>4. \A e \in Sources : (row[e] = NoFile => row'[e] = NoFile) /\ (connector[e] = NoFile => connector'[e] = NoFile)
    BY <1>0, <2>1
  <2>5. QED
    BY <2>1, <2>2, <2>3, <2>4, UnbornStay DEF Creating
<1>6. CASE ChildDone(j)
  <2>1. /\ job[j].pc \in {"creating", "building"} /\ disk' = disk \cup {job[j].new}
        /\ job' = [job EXCEPT ![j].pc = IF job[j].pc = "creating" THEN "created" ELSE "built"]
        /\ UNCHANGED <<row, known, connector, query>>
    BY <1>6 DEF ChildDone, served
  <2>2. \A i \in Jobs \ {j} : job'[i] = job[i]
    BY <1>0, <2>1
  <2>3. /\ job'[j].pc = IF job[j].pc = "creating" THEN "created" ELSE "built"
        /\ job'[j].source = job[j].source /\ job'[j].old = job[j].old
    BY <2>1, <1>0 DEF TypeOK, JobState
  <2>4. JobsHoldFiles'
    BY <2>1, <2>2, <2>3, HeldByOthers DEF Creating, Live, JobsHoldFiles
  <2>5. QED
    BY <2>1, <2>2, <2>3, <2>4, UnbornStay DEF Creating
<1>7. CASE ChildFails(j) \/ InsertFails(j) \/ Retire(j)
  <2>1. /\ job' = [job EXCEPT ![j] = NoJob] /\ disk' \subseteq disk
        /\ UNCHANGED <<row, known, connector, query>>
    BY <1>7 DEF ChildFails, InsertFails, Retire, RetryPending, stored, served
  <2>2. \A i \in Jobs : job'[i] = IF i = j THEN NoJob ELSE job[i]
    BY <1>0, <2>1
  <2>3. NoJob.pc = "idle" /\ NoJob.old = NoFile /\ NoJob.new = NoFile
    BY DEF NoJob
  <2>4. JobsHoldFiles'
    BY <2>1, <2>2, <2>3, HeldByOthers DEF Creating
  <2>5. QED
    BY <2>1, <2>2, <2>3, <2>4, UnbornStay DEF Creating
<1>8. CASE Insert(j)
  <2>1. /\ job[j].pc = "created" /\ job' = [job EXCEPT ![j] = NoJob] /\ row' = [row EXCEPT ![job[j].source] = job[j].new]
        /\ UNCHANGED <<disk, known, connector, query>>
    BY <1>8 DEF Insert, served
  <2>2. \A i \in Jobs : job'[i] = IF i = j THEN NoJob ELSE job[i]
    BY <1>0, <2>1
  <2>3. NoJob.pc = "idle" /\ NoJob.old = NoFile /\ NoJob.new = NoFile
    BY DEF NoJob
  <2>4. JobsHoldFiles'
    BY <2>1, <2>2, <2>3, HeldByOthers DEF Creating
  <2>5. ASSUME NEW d \in Sources, Unborn(d)' PROVE d # job[j].source
    BY <2>1, <2>2, <2>3, <2>5 DEF UnbornAreUnseen, Unborn, Creating
  <2>6. QED
    BY <1>0, <2>1, <2>2, <2>3, <2>4, <2>5, UnbornStay DEF Creating
<1>9. CASE Switch(j)
  <2> DEFINE d == job[j].source
  <2>1. /\ job[j].pc = "built" /\ job' = [job EXCEPT ![j].pc = "closing"]
        /\ row' = IF row[d] = NoFile THEN row ELSE [row EXCEPT ![d] = job[j].new]
        /\ connector' = [connector EXCEPT ![d] = NoFile]
        /\ UNCHANGED <<disk, known, query>>
    BY <1>9 DEF Switch
  <2>2. \A i \in Jobs \ {j} : job'[i] = job[i]
    BY <1>0, <2>1
  <2>3. job'[j].pc = "closing" /\ job'[j].source \in Sources
    BY <2>1, <1>0 DEF TypeOK, JobState, JobsHoldFiles
  <2>4. JobsHoldFiles'
    BY <2>1, <2>2, <2>3, HeldByOthers DEF Creating
  <2>5. \A e \in Sources : (row[e] = NoFile => row'[e] = NoFile) /\ (connector[e] = NoFile => connector'[e] = NoFile)
    BY <1>0, <2>1
  <2>6. QED
    BY <2>1, <2>2, <2>3, <2>4, <2>5, UnbornStay DEF Creating
<1>10. QED
  BY <1>3, <1>4, <1>5, <1>6, <1>7, <1>8, <1>9 DEF JobStep

LEMMA HeldStep ==
    IInv /\ JobsHoldFiles /\ UnbornAreUnseen /\ [Next]_vars => (JobsHoldFiles /\ UnbornAreUnseen)'
<1> SUFFICES ASSUME IInv, JobsHoldFiles, UnbornAreUnseen, [Next]_vars PROVE JobsHoldFiles' /\ UnbornAreUnseen'
  OBVIOUS
<1>0. /\ query = [q \in Queries |-> query[q]] /\ connector = [d \in Sources |-> connector[d]]
      /\ \A d \in Sources : d # NoFile
  BY FilesAssumption DEF IInv, TypeOK, FilesAssumption, NoFile
<1>1. ASSUME UNCHANGED <<job, disk>> PROVE JobsHoldFiles'
  BY <1>1 DEF JobsHoldFiles
<1>2. ASSUME NEW q \in Queries, NEW d \in Sources, Load(q, d) PROVE JobsHoldFiles' /\ UnbornAreUnseen'
  <2>1. /\ UNCHANGED <<job, disk, row, known, connector>> /\ row[d] # NoFile
        /\ query' = [query EXCEPT ![q] = [source |-> d, file |-> row[d]]]
    BY <1>2 DEF Load, stored, served
  <2>2. \A p \in Queries : query'[p].source = IF p = q THEN d ELSE query[p].source
    BY <1>0, <2>1
  <2>3. QED
    BY <1>1, <2>1, <2>2, UnbornStay
<1>3. ASSUME NEW q \in Queries, Connect(q) PROVE JobsHoldFiles' /\ UnbornAreUnseen'
  <2>1. /\ UNCHANGED <<job, disk, row, known>> /\ query' = [query EXCEPT ![q] = NoQuery]
        /\ connector' = [connector EXCEPT ![query[q].source] = ConnectorFile(q)]
    BY <1>3 DEF Connect, stored
  <2>2. \A p \in Queries : \A d \in Sources : query'[p].source = d => query[p].source = d
    BY <1>0, <2>1 DEF NoQuery
  <2>3. ASSUME NEW d \in Sources, Unborn(d)' PROVE connector'[d] = connector[d]
    BY <1>0, <2>1, <2>3 DEF UnbornAreUnseen, Unborn
  <2>4. QED
    BY <1>1, <2>1, <2>2, <2>3, UnbornStay
<1>4. ASSUME NEW f \in Files, OpenDone(f) \/ OpenFails(f) PROVE JobsHoldFiles' /\ UnbornAreUnseen'
  <2>1. UNCHANGED <<job, disk, row, known, connector, query>>
    BY <1>4 DEF OpenDone, OpenFails, stored
  <2>2. QED
    BY <1>1, <2>1, UnbornStay
<1>5. CASE Restart
  <2>1. /\ UNCHANGED <<row, known>> /\ \A j \in Jobs : job'[j] = NoJob
        /\ \A d \in Sources : connector'[d] = NoFile
        /\ \A q \in Queries : query'[q] = NoQuery
    BY <1>5 DEF Restart
  <2>2. JobsHoldFiles'
    BY <2>1 DEF JobsHoldFiles, NoJob, Creating
  <2>3. QED
    BY <1>0, <2>1, <2>2, UnbornStay DEF NoJob, NoQuery, Creating
<1>6. CASE UNCHANGED vars
  BY <1>1, <1>6, UnbornStay DEF vars
<1>7. QED
  BY <1>2, <1>3, <1>4, <1>5, <1>6, JobHeld DEF Next, Running, QueryStep

\* Who answers for a file.
Owned(f) == f \in Named \/ f \in pending \/ \E j \in Jobs : f \in {job[j].old, job[j].new}

LEMMA OwnedFiles == NoFileIsForgotten <=> \A f \in disk : Owned(f)
BY DEF NoFileIsForgotten, Owned

LEMMA OwnedAfter == NoFileIsForgotten' <=> \A f \in disk' : Owned(f)'
BY DEF NoFileIsForgotten, Owned, Named

\* What a job does to its source's row is nobody else's business.
LEMMA RowsStillFollow ==
    ASSUME JobsHoldFiles, RowsFollowJobs, NEW j \in Jobs, NEW d,
           \A i \in Jobs \ {j} : job'[i] = job[i] /\ (job[i].pc # "idle" => job[i].source # d),
           \A e \in Sources \ {d} : row'[e] = row[e],
           /\ job'[j].pc \in {"building", "built"} => row'[job'[j].source] = job'[j].old
           /\ job'[j].pc = "closing" => row'[job'[j].source] = job'[j].new
    PROVE  RowsFollowJobs'
<1> SUFFICES ASSUME NEW i \in Jobs, i # j
             PROVE  /\ job'[i].pc \in {"building", "built"} => row'[job'[i].source] = job'[i].old
                    /\ job'[i].pc = "closing" => row'[job'[i].source] = job'[i].new
  BY DEF RowsFollowJobs
<1>1. job'[i] = job[i] /\ (job[i].pc # "idle" => job[i].source # d)
  OBVIOUS
<1>2. QED
  BY <1>1 DEF RowsFollowJobs, JobsHoldFiles

LEMMA JobCalm ==
    ASSUME IInv, JobsHoldFiles, UnbornAreUnseen, OneJobPerSource, OneJobPerSource', NoOvertakenQuery,
           RowsFollowJobs, NoFileIsForgotten, ConnectorIsCurrent, NEW j \in Jobs, JobStep(j)
    PROVE  RowsFollowJobs' /\ NoFileIsForgotten' /\ ConnectorIsCurrent'
<1>0. /\ TypeOK /\ job = [i \in Jobs |-> job[i]] /\ row = [d \in Sources |-> row[d]]
      /\ connector = [d \in Sources |-> connector[d]]
  BY DEF IInv, TypeOK
<1> DEFINE Goal == RowsFollowJobs' /\ NoFileIsForgotten' /\ ConnectorIsCurrent'
<1>1. \A d \in Sources : d # NoFile
  BY FilesAssumption DEF FilesAssumption, NoFile
<1>2. \A f : f \in Named <=> \E d \in Sources : row[d] = f /\ f # NoFile
  BY DEF Named
<1>3. \A f : f \in Named' <=> \E d \in Sources : row'[d] = f /\ f # NoFile
  BY DEF Named
<1>4. NoFile \notin disk
  BY <1>0, NextIsNew DEF TypeOK
<1>5. \A i \in Jobs \ {j} : job[i].pc # "idle" => job[i].source # job[j].source
  BY DEF OneJobPerSource
<1>6. ASSUME NEW d \in Sources, BeginCreate(j, d) \/ BeginImport(j, d) PROVE Goal
  <2>1. /\ job' = [job EXCEPT ![j] = job'[j]] /\ job[j].pc = "idle"
        /\ job'[j].pc \in {"creating", "building"}
        /\ job'[j].pc = "building" => job'[j].source = d /\ job'[j].old = row[d]
        /\ UNCHANGED <<row, disk, pending, connector>>
    BY <1>0, <1>6 DEF BeginCreate, BeginImport, served
  <2>2. \A i \in Jobs \ {j} : job'[i] = job[i]
    BY <1>0, <2>1
  <2>3. RowsFollowJobs'
    BY <2>1, <2>2 DEF RowsFollowJobs
  <2>4. job[j].old = NoFile /\ job[j].new = NoFile
    BY <2>1 DEF JobsHoldFiles
  <2>5. NoFileIsForgotten'
    BY <1>2, <1>3, <1>4, <2>1, <2>2, <2>4, OwnedFiles, OwnedAfter DEF Owned
  <2>6. QED
    BY <2>1, <2>3, <2>5 DEF ConnectorIsCurrent
<1>7. ASSUME NEW d \in Sources, DeleteSource(j, d) \/ DeleteOwner(j, d) PROVE Goal
  <2>1. /\ job' = [job EXCEPT ![j] = [pc |-> "closing", source |-> d, old |-> row[d], new |-> NoFile]]
        /\ job[j].pc = "idle" /\ row' = [row EXCEPT ![d] = NoFile]
        /\ UNCHANGED <<disk, pending>>
        /\ connector' \in {connector, [connector EXCEPT ![d] = NoFile]}
    BY <1>7 DEF DeleteSource, DeleteOwner, Gone
  <2>2. \A i \in Jobs : job'[i] = IF i = j THEN [pc |-> "closing", source |-> d, old |-> row[d], new |-> NoFile] ELSE job[i]
    BY <1>0, <2>1
  <2>3. \A i \in Jobs \ {j} : job[i].pc # "idle" => job[i].source # d
    BY <2>2 DEF OneJobPerSource
  <2>4. /\ row'[d] = NoFile /\ \A e \in Sources \ {d} : row'[e] = row[e]
        /\ \A e \in Sources \ {d} : connector'[e] = connector[e]
    BY <1>0, <2>1
  <2>5. RowsFollowJobs'
    BY <2>2, <2>3, <2>4, RowsStillFollow
  <2>6. job[j].old = NoFile /\ job[j].new = NoFile
    BY <2>1 DEF JobsHoldFiles
  <2>7. ASSUME NEW f \in disk PROVE Owned(f)'
    <3>1. Owned(f) /\ f # NoFile
      BY <1>4, OwnedFiles
    <3>2. CASE f = row[d]
      BY <2>2, <3>2 DEF Owned
    <3>3. CASE f # row[d] /\ f \in Named
      BY <1>2, <1>3, <2>4, <3>3 DEF Owned
    <3>4. CASE f \in pending \/ \E i \in Jobs : f \in {job[i].old, job[i].new}
      BY <2>1, <2>2, <2>6, <3>1, <3>4 DEF Owned
    <3>5. QED
      BY <3>1, <3>2, <3>3, <3>4 DEF Owned
  <2>8. QED
    BY <2>1, <2>4, <2>5, <2>7, OwnedAfter DEF ConnectorIsCurrent
<1>8. CASE ChildDone(j)
  <2>1. /\ job[j].pc \in {"creating", "building"} /\ disk' = disk \cup {job[j].new}
        /\ job' = [job EXCEPT ![j].pc = IF job[j].pc = "creating" THEN "created" ELSE "built"]
        /\ UNCHANGED <<row, pending, connector>>
    BY <1>8 DEF ChildDone, served
  <2>2. \A i \in Jobs \ {j} : job'[i] = job[i]
    BY <1>0, <2>1
  <2>3. /\ job'[j].pc = IF job[j].pc = "creating" THEN "created" ELSE "built"
        /\ job'[j].source = job[j].source /\ job'[j].old = job[j].old /\ job'[j].new = job[j].new
    BY <2>1, <1>0 DEF TypeOK, JobState
  <2>4. RowsFollowJobs'
    BY <2>1, <2>2, <2>3 DEF RowsFollowJobs
  <2>5. NoFileIsForgotten'
    BY <1>2, <1>3, <2>1, <2>2, <2>3, OwnedFiles, OwnedAfter DEF Owned
  <2>6. QED
    BY <2>1, <2>4, <2>5 DEF ConnectorIsCurrent
<1>9. ASSUME job' = [job EXCEPT ![j] = NoJob]
      PROVE  /\ \A i \in Jobs : job'[i] = IF i = j THEN NoJob ELSE job[i]
             /\ NoJob.pc = "idle" /\ NoJob.old = NoFile /\ NoJob.new = NoFile
  BY <1>0, <1>9 DEF NoJob
<1>10. CASE ChildFails(j) \/ InsertFails(j)
  <2>1. /\ job' = [job EXCEPT ![j] = NoJob] /\ UNCHANGED <<row, pending, connector>> /\ disk' \subseteq disk
        /\ job[j].pc \in {"creating", "building", "created"}
        /\ job[j].new \notin disk'
    BY <1>10 DEF ChildFails, InsertFails, JobsHoldFiles, stored, served
  <2>2. RowsFollowJobs'
    BY <1>9, <2>1 DEF RowsFollowJobs
  <2>3. job[j].old = NoFile \/ job[j].old \in Named
    BY <1>2, <2>1 DEF JobsHoldFiles, RowsFollowJobs, Creating
  <2>4. NoFileIsForgotten'
    BY <1>2, <1>3, <1>4, <1>9, <2>1, <2>3, OwnedFiles, OwnedAfter DEF Owned
  <2>5. QED
    BY <2>1, <2>2, <2>4 DEF ConnectorIsCurrent
<1>11. CASE Insert(j)
  <2> DEFINE d == job[j].source
  <2>1. /\ job' = [job EXCEPT ![j] = NoJob] /\ UNCHANGED <<pending, connector, disk>> /\ job[j].pc = "created"
        /\ row' = [row EXCEPT ![d] = job[j].new]
    BY <1>11 DEF Insert, served
  <2>2. d \in Sources /\ job[j].old = NoFile /\ job[j].new # NoFile
    BY <1>0, <2>1, NextIsNew DEF JobsHoldFiles, Creating, IInv, NewIsFresh, Live
  <2>3. row[d] = NoFile /\ connector[d] = NoFile
    BY <2>1, <2>2 DEF UnbornAreUnseen, Unborn, Creating
  <2>4. row'[d] = job[j].new /\ \A e \in Sources \ {d} : row'[e] = row[e]
    BY <1>0, <2>1, <2>2
  <2> HIDE DEF d
  <2>5. RowsFollowJobs'
    <3>1. /\ \A i \in Jobs \ {j} : job'[i] = job[i] /\ (job[i].pc # "idle" => job[i].source # d)
          /\ job'[j].pc = "idle"
      BY <1>5, <1>9, <2>1 DEF d
    <3>2. QED
      BY <2>4, <3>1, RowsStillFollow
  <2>6. ASSUME NEW f \in disk PROVE Owned(f)'
    <3>1. Owned(f) /\ f # NoFile
      BY <1>4, OwnedFiles
    <3>2. CASE f = job[j].new
      BY <1>3, <2>2, <2>4, <3>1, <3>2 DEF Owned
    <3>3. CASE f \in Named
      BY <1>2, <1>3, <2>2, <2>3, <2>4, <3>3 DEF Owned
    <3>4. CASE f # job[j].new /\ (f \in pending \/ \E i \in Jobs : f \in {job[i].old, job[i].new})
      BY <1>9, <2>1, <2>2, <3>1, <3>4 DEF Owned
    <3>5. QED
      BY <3>1, <3>2, <3>3, <3>4 DEF Owned
  <2>7. QED
    BY <2>1, <2>3, <2>4, <2>5, <2>6, OwnedAfter DEF ConnectorIsCurrent
<1>12. CASE Switch(j)
  <2> DEFINE d == job[j].source
  <2>1. /\ job[j].pc = "built" /\ job' = [job EXCEPT ![j].pc = "closing"] /\ UNCHANGED <<pending, disk>>
        /\ row' = IF row[d] = NoFile THEN row ELSE [row EXCEPT ![d] = job[j].new]
        /\ connector' = [connector EXCEPT ![d] = NoFile]
    BY <1>12 DEF Switch
  <2>2. d \in Sources /\ row[d] = job[j].old /\ job[j].old # NoFile /\ job[j].new # NoFile
    BY <1>0, <2>1, NextIsNew DEF JobsHoldFiles, RowsFollowJobs, IInv, OldIsOurs, NewIsFresh, Live
  <2>3. /\ \A i \in Jobs \ {j} : job'[i] = job[i]
        /\ job'[j].pc = "closing" /\ job'[j].source = d /\ job'[j].old = job[j].old /\ job'[j].new = job[j].new
    BY <2>1, <1>0 DEF TypeOK, JobState
  <2>4. /\ row'[d] = job[j].new /\ \A e \in Sources \ {d} : row'[e] = row[e]
        /\ connector'[d] = NoFile /\ \A e \in Sources \ {d} : connector'[e] = connector[e]
    BY <1>0, <2>1, <2>2
  <2> HIDE DEF d
  <2>5. RowsFollowJobs'
    BY <1>5, <2>3, <2>4, RowsStillFollow DEF d
  <2>6. ASSUME NEW f \in disk PROVE Owned(f)'
    <3>1. Owned(f)
      BY OwnedFiles
    <3>2. CASE f = row[d]
      BY <2>2, <2>3, <3>2 DEF Owned
    <3>3. CASE f # row[d] /\ f \in Named
      BY <1>2, <1>3, <2>4, <3>3 DEF Owned
    <3>4. CASE f \in pending \/ \E i \in Jobs : f \in {job[i].old, job[i].new}
      BY <2>1, <2>3, <3>4 DEF Owned
    <3>5. QED
      BY <3>1, <3>2, <3>3, <3>4 DEF Owned
  <2>7. QED
    BY <2>1, <2>4, <2>5, <2>6, OwnedAfter DEF ConnectorIsCurrent
<1>13. CASE Retire(j)
  <2>1. job' = [job EXCEPT ![j] = NoJob] /\ UNCHANGED <<row, connector>> /\ job[j].pc = "closing"
    BY <1>13 DEF Retire, served
  <2>2. RowsFollowJobs'
    BY <1>9, <2>1 DEF RowsFollowJobs
  <2>3. job[j].new = NoFile \/ job[j].new \in Named
    BY <1>2, <2>1 DEF RowsFollowJobs, JobsHoldFiles
  <2>4. PICK list, files : /\ RetryPending(list, files)
                           /\ pending \subseteq list /\ files \subseteq disk
                           /\ job[j].old \in files => job[j].old \in list
    BY <1>13 DEF Retire
  <2>5. ASSUME NEW f \in disk' PROVE Owned(f)'
    <3>1. f \in files /\ (f \in list => f \in pending' \/ f \in Named)
      BY <2>4, <2>5 DEF RetryPending
    <3>2. Owned(f) /\ f # NoFile
      BY <1>4, <2>4, <3>1, OwnedFiles
    <3>3. f \in Named => Owned(f)'
      BY <1>2, <1>3, <2>1 DEF Owned
    <3>4. f \in list => Owned(f)'
      BY <3>1, <3>3 DEF Owned
    <3>5. \A i \in Jobs \ {j} : f \in {job[i].old, job[i].new} => Owned(f)'
      BY <1>9, <2>1 DEF Owned
    <3>6. QED
      BY <2>3, <2>4, <3>1, <3>2, <3>3, <3>4, <3>5 DEF Owned
  <2>6. QED
    BY <2>1, <2>2, <2>5, OwnedAfter DEF ConnectorIsCurrent
<1>14. QED
  BY <1>6, <1>7, <1>8, <1>10, <1>11, <1>12, <1>13 DEF JobStep

LEMMA CalmStep ==
    IInv /\ JobsHoldFiles /\ UnbornAreUnseen /\ Calm /\ [CalmNext]_<<vars, calm>> => Calm'
<1> SUFFICES ASSUME IInv, JobsHoldFiles, UnbornAreUnseen, Calm, [CalmNext]_<<vars, calm>>, calm'
             PROVE  /\ OneJobPerSource' /\ NoOvertakenQuery'
                    /\ RowsFollowJobs' /\ NoFileIsForgotten' /\ ConnectorIsCurrent'
  BY DEF Calm
<1>1. CASE UNCHANGED <<vars, calm>>
  BY <1>1 DEF Calm, vars, OneJobPerSource, NoOvertakenQuery, RowsFollowJobs, NoFileIsForgotten, ConnectorIsCurrent, Named
<1>2. CASE Running /\ calm' = (calm /\ (OneJobPerSource /\ NoOvertakenQuery)')
  <2>1. /\ OneJobPerSource' /\ NoOvertakenQuery' /\ OneJobPerSource /\ NoOvertakenQuery
        /\ RowsFollowJobs /\ NoFileIsForgotten /\ ConnectorIsCurrent
    BY <1>2 DEF Calm
  <2>2. ASSUME NEW j \in Jobs, JobStep(j) PROVE RowsFollowJobs' /\ NoFileIsForgotten' /\ ConnectorIsCurrent'
    BY <2>1, <2>2, JobCalm
  <2>3. ASSUME NEW q \in Queries, Connect(q) PROVE RowsFollowJobs' /\ NoFileIsForgotten' /\ ConnectorIsCurrent'
    <3>1. /\ UNCHANGED <<row, disk, pending, job>> /\ query[q] # NoQuery
          /\ connector' = [connector EXCEPT ![query[q].source] = ConnectorFile(q)]
      BY <2>3 DEF Connect, stored
    <3>2. query[q].file = row[query[q].source] /\ connector = [d \in Sources |-> connector[d]]
      BY <2>1, <3>1 DEF NoOvertakenQuery, IInv, TypeOK
    <3>3. ConnectorIsCurrent'
      BY <2>1, <3>1, <3>2 DEF ConnectorIsCurrent, ConnectorFile
    <3>4. QED
      BY <2>1, <3>1, <3>3 DEF RowsFollowJobs, NoFileIsForgotten, Named
  <2>4. ASSUME NEW q \in Queries, NEW d \in Sources, Load(q, d)
        PROVE  RowsFollowJobs' /\ NoFileIsForgotten' /\ ConnectorIsCurrent'
    BY <2>1, <2>4 DEF Load, stored, served, RowsFollowJobs, NoFileIsForgotten, ConnectorIsCurrent, Named
  <2>5. ASSUME NEW f \in Files, OpenDone(f) \/ OpenFails(f)
        PROVE  RowsFollowJobs' /\ NoFileIsForgotten' /\ ConnectorIsCurrent'
    BY <2>1, <2>5 DEF OpenDone, OpenFails, stored, RowsFollowJobs, NoFileIsForgotten, ConnectorIsCurrent, Named
  <2>6. QED
    BY <1>2, <2>1, <2>2, <2>3, <2>4, <2>5 DEF Running, QueryStep
<1>3. QED
  BY <1>1, <1>2 DEF CalmNext

LEMMA CalmHolds == CalmSpec => [](IInv /\ JobsHoldFiles /\ UnbornAreUnseen /\ Calm)
<1>1. CalmInit => IInv /\ JobsHoldFiles /\ UnbornAreUnseen /\ Calm
  <2>1. ASSUME Init, NEW j \in Jobs PROVE job[j].pc = "idle"
    BY <2>1 DEF Init, NoJob
  <2>2. ASSUME Init, NEW q \in Queries PROVE query[q] = NoQuery
    BY <2>2 DEF Init
  <2>3. ASSUME Init PROVE OneJobPerSource /\ NoOvertakenQuery /\ RowsFollowJobs
    BY <2>1, <2>2, <2>3 DEF Init, OneJobPerSource, NoOvertakenQuery, RowsFollowJobs
  <2>4. ASSUME Init PROVE NoFileIsForgotten /\ ConnectorIsCurrent
    BY <2>4 DEF Init, NoFileIsForgotten, ConnectorIsCurrent
  <2>5. QED
    BY <2>3, <2>4, InitIInv, HeldInit DEF CalmInit, Calm
<1>2. [CalmNext]_<<vars, calm>> => [Next]_vars
  BY DEF CalmNext, Next
<1>3. IInv /\ JobsHoldFiles /\ UnbornAreUnseen /\ Calm /\ [CalmNext]_<<vars, calm>>
      => (IInv /\ JobsHoldFiles /\ UnbornAreUnseen /\ Calm)'
  BY <1>2, StepIInv, HeldStep, CalmStep
<1>4. QED
  BY <1>1, <1>3, PTL DEF CalmSpec

\* As long as imports and deletions of a source do not overlap, no query is
\* overtaken and the process lives, every file on disk is some row's, written
\* down to be removed, or in the hands of a job, whatever removal is refused.
THEOREM FilesHaveOwners == CalmSpec => []CalmForgetsNoFile
<1>1. Calm => CalmForgetsNoFile
  BY DEF Calm, CalmForgetsNoFile
<1>2. QED
  BY <1>1, CalmHolds, PTL

\* As long, a cached connector opens the file its source is made of.
THEOREM ConnectorsFollowRows == CalmSpec => []CalmConnectorIsCurrent
<1>1. Calm => CalmConnectorIsCurrent
  BY DEF Calm, CalmConnectorIsCurrent
<1>2. QED
  BY <1>1, CalmHolds, PTL
=============================================================================
