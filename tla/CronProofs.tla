------------------------------ MODULE CronProofs ------------------------------
(***************************************************************************)
(* Proofs about the two registries of cron tasks: AlertRunner, for any     *)
(* alerts, evaluations, settings and history cap, and CacheScheduler with  *)
(* the tab CacheWarming adds to it, for any schedules, models, reports,    *)
(* builds and settings.                                                    *)
(***************************************************************************)
EXTENDS AlertRunner, CacheWarming, SequenceTheorems, TLAPS

-----------------------------------------------------------------------------
(* The alerts. *)

USE DEF States, Notices, Readings, AlertExists, rows

-----------------------------------------------------------------------------
(* The history. *)

\* Appending a notice and keeping the latest ones leaves it last.
LEMMA LatestEndsWith ==
    ASSUME NEW s \in Seq(Notices), NEW n \in Notices
    PROVE  /\ LatestOf(s \o <<n>>) \in Seq(Notices)
           /\ Len(LatestOf(s \o <<n>>)) <= HistoryCap
           /\ LatestOf(s \o <<n>>) # <<>>
           /\ Last(LatestOf(s \o <<n>>)) = n
<1> DEFINE t == s \o <<n>>
           m == IF Len(t) > HistoryCap THEN Len(t) - HistoryCap + 1 ELSE 1
<1>1. t \in Seq(Notices) /\ Len(t) = Len(s) + 1 /\ t[Len(t)] = n /\ Len(t) \in Nat \ {0}
  OBVIOUS
<1>2. HistoryCap \in Nat \ {0}
  BY AlertAssumption DEF AlertAssumption
<1>3. m \in 1..Len(t) /\ Len(t) - m + 1 \in 1..HistoryCap
  BY <1>1, <1>2
<1> HIDE DEF t, m
<1>4. /\ SubSeq(t, m, Len(t)) \in Seq(Notices)
      /\ Len(SubSeq(t, m, Len(t))) = Len(t) - m + 1
      /\ \A i \in 1..(Len(t) - m + 1) : SubSeq(t, m, Len(t))[i] = t[m + i - 1]
  BY <1>1, <1>3, SubSeqProperties
<1>5. SubSeq(t, m, Len(t))[Len(t) - m + 1] = t[Len(t)]
  BY <1>1, <1>3, <1>4
<1>6. LatestOf(t) = SubSeq(t, m, Len(t))
  BY DEF LatestOf, m
<1>7. /\ LatestOf(t) \in Seq(Notices)
      /\ Len(LatestOf(t)) <= HistoryCap
      /\ LatestOf(t) # <<>>
      /\ Last(LatestOf(t)) = n
  <2> DEFINE u == SubSeq(t, m, Len(t))
  <2>1. u \in Seq(Notices) /\ Len(u) \in 1..HistoryCap /\ u[Len(u)] = n
    BY <1>1, <1>3, <1>4, <1>5
  <2> HIDE DEF u
  <2>2. u # <<>> /\ Len(u) <= HistoryCap
    BY <1>2, <2>1
  <2>3. Last(u) = n
    BY <2>1, <2>2 DEF Last
  <2> QED
    BY <1>6, <2>1, <2>2, <2>3 DEF u
<1> QED
  BY <1>7 DEF t

\* A transition is worth at most one notice, of the state it leads to.
LEMMA Noticed ==
    ASSUME NEW prev \in States, NEW next \in {"ok", "triggered", "error"}
    PROVE  \/ NoticeOf(prev, next) = {} /\ (prev = next \/ (next = "ok" /\ prev \in {"none", "error"}))
           \/ NoticeOf(prev, next) = {"triggered"} /\ next = "triggered"
           \/ NoticeOf(prev, next) = {"error"} /\ next = "error"
           \/ NoticeOf(prev, next) = {"recovered"} /\ next = "ok"
  BY DEF NoticeOf

LEMMA Judged ==
    ASSUME NEW row, NEW value
    PROVE  Verdict(row, value) \in {"ok", "triggered", "error"}
  BY DEF Verdict

\* What Record does to the row and the history of the alert of r.
LEMMA Recorded ==
    ASSUME AlertTypeOK, NEW r \in Runs, NEW prev \in States,
           NEW next \in {"ok", "triggered", "error"},
           run[r].id \in Alerts, Record(r, next, NoticeOf(prev, next))
    PROVE  /\ last_state' \in [Alerts -> States]
           /\ events' \in [Alerts -> Seq(Notices)]
           /\ \A a \in Alerts : Len(events'[a]) <= HistoryCap
           /\ \A a \in Alerts : a # run[r].id \/ ~AlertExists(a) =>
                last_state'[a] = last_state[a] /\ events'[a] = events[a]
           /\ LET a == run[r].id
              IN  AlertExists(a) =>
                    /\ last_state'[a] = next
                    /\ NoticeOf(prev, next) = {} => events'[a] = events[a]
                    /\ \A n \in NoticeOf(prev, next) : events'[a] # <<>> /\ Last(events'[a]) = n
<1> DEFINE a == run[r].id
           N == NoticeOf(prev, next)
<1>1. CASE ~AlertExists(a)
  BY <1>1 DEF Record, AlertTypeOK
<1>2. CASE AlertExists(a) /\ N = {}
  BY <1>2 DEF Record, AlertTypeOK
<1>3. CASE AlertExists(a) /\ N # {}
  <2>1. PICK n \in Notices : N = {n}
    BY <1>3, Noticed
  <2>2. (CHOOSE x \in N : TRUE) = n
    BY <2>1
  <2>3. events[a] \in Seq(Notices)
    BY DEF AlertTypeOK
  <2> DEFINE s == LatestOf(events[a] \o <<n>>)
  <2>4. s \in Seq(Notices) /\ Len(s) <= HistoryCap /\ s # <<>> /\ Last(s) = n
    BY <2>3, LatestEndsWith
  <2>5. events' = [events EXCEPT ![a] = s] /\ last_state' = [last_state EXCEPT ![a] = next]
    BY <1>3, <2>2 DEF Record
  <2> HIDE DEF s, N
  <2>6. /\ last_state' \in [Alerts -> States]
        /\ events' \in [Alerts -> Seq(Notices)]
        /\ events'[a] = s /\ last_state'[a] = next
        /\ \A b \in Alerts : b # a => last_state'[b] = last_state[b] /\ events'[b] = events[b]
    BY <2>4, <2>5 DEF AlertTypeOK
  <2>7. \A b \in Alerts : Len(events'[b]) <= HistoryCap
    BY <2>4, <2>6 DEF AlertTypeOK
  <2> QED
    BY <1>3, <2>1, <2>4, <2>6, <2>7 DEF N
<1> QED
  BY <1>1, <1>2, <1>3

-----------------------------------------------------------------------------
(* Types and the registry. *)

\* An evaluation in flight is of an alert, with the settings it read.
Tracked == \A r \in Runs : run[r].pc # "idle" =>
              run[r].id \in Alerts /\ run[r].row \in AlertRow

AlertInv == AlertTypeOK /\ Tracked /\ NoStrayJob

LEMMA AlertInvInit == AlertInit => AlertInv
<1> SUFFICES ASSUME AlertInit PROVE AlertInv
  OBVIOUS
<1>1. <<>> \in Seq(Notices) /\ Len(<<>>) = 0
  OBVIOUS
<1>2. AlertTypeOK
  BY <1>1, AlertAssumption DEF AlertInit, AlertTypeOK, RunState, NoRun, AlertAssumption
<1>3. Tracked /\ NoStrayJob
  BY DEF AlertInit, Tracked, NoRun, NoStrayJob
<1> QED
  BY <1>2, <1>3 DEF AlertInv

LEMMA InvRoutes ==
    ASSUME AlertInv, NEW a \in Alerts,
           \/ \E row \in AlertSettings : CreateAlert(a, row) \/ UpdateAlert(a, row)
           \/ DeleteAlert(a) \/ DeleteWithParent(a)
    PROVE  AlertInv'
<1>1. UNCHANGED <<run, source>>
  BY DEF CreateAlert, UpdateAlert, DeleteAlert, DeleteWithParent
<1>2. AlertTypeOK'
  <2>1. CASE \E row \in AlertSettings : CreateAlert(a, row) \/ UpdateAlert(a, row)
    BY <1>1, <2>1, RowAssumption
    DEF CreateAlert, UpdateAlert, RegisterAlert, AlertInv, AlertTypeOK, RowAssumption
  <2>2. CASE DeleteAlert(a) \/ DeleteWithParent(a)
    <3>1. <<>> \in Seq(Notices) /\ Len(<<>>) <= HistoryCap
      BY AlertAssumption DEF AlertAssumption
    <3> QED
      BY <1>1, <2>2, <3>1 DEF DeleteAlert, DeleteWithParent, EraseAlert, AlertInv, AlertTypeOK
  <2> QED
    BY <2>1, <2>2
<1>3. Tracked'
  BY <1>1 DEF AlertInv, Tracked
<1>4. NoStrayJob'
  BY RowAssumption
  DEF CreateAlert, UpdateAlert, DeleteAlert, DeleteWithParent, EraseAlert, RegisterAlert, AlertInv, AlertTypeOK,
      NoStrayJob, RowAssumption, DueIn
<1> QED
  BY <1>2, <1>3, <1>4 DEF AlertInv

\* A step of one evaluation: what it becomes is typed and still of an alert.
LEMMA RunMoves ==
    ASSUME AlertInv, NEW r \in Runs, NEW x \in RunState,
           x.pc # "idle" => x.id \in Alerts /\ x.row \in AlertRow,
           run' = [run EXCEPT ![r] = x],
           UNCHANGED <<alert, jobs, retiredAlerts, source>>,
           last_state' \in [Alerts -> States],
           events' \in [Alerts -> Seq(Notices)],
           \A a \in Alerts : Len(events'[a]) <= HistoryCap
    PROVE  AlertInv'
<1>1. run \in [Runs -> RunState]
  BY DEF AlertInv, AlertTypeOK
<1> HIDE DEF RunState
<1>2. run' \in [Runs -> RunState] /\ run'[r] = x /\ \A s \in Runs \ {r} : run'[s] = run[s]
  BY <1>1
<1>3. AlertTypeOK'
  BY <1>2 DEF AlertInv, AlertTypeOK, RunState
<1>4. Tracked'
  BY <1>2 DEF AlertInv, Tracked
<1>5. NoStrayJob'
  BY DEF AlertInv, NoStrayJob, DueIn
<1> QED
  BY <1>3, <1>4, <1>5 DEF AlertInv

LEMMA InvRuns ==
    ASSUME AlertInv, NEW r \in Runs,
           (\E a \in Alerts : Begin(a, r)) \/ RunStep(r)
    PROVE  AlertInv'
<1>1. /\ run[r] \in RunState
      /\ run[r].pc # "idle" => run[r].id \in Alerts /\ run[r].row \in AlertRow
      /\ source \in Readings /\ Broken \in Readings
      /\ run \in [Runs -> RunState]
  BY DEF AlertInv, AlertTypeOK, Tracked, Readings
<1>2. /\ last_state \in [Alerts -> States]
      /\ events \in [Alerts -> Seq(Notices)]
      /\ \A a \in Alerts : Len(events[a]) <= HistoryCap
  BY DEF AlertInv, AlertTypeOK
<1>3. ASSUME NEW a \in Alerts, Begin(a, r)
      PROVE  AlertInv'
  <2> DEFINE x == [pc |-> "asking", id |-> a, row |-> alert[a],
                   prev |-> last_state[a], value |-> Broken]
  <2>1. alert[a] \in AlertRow /\ last_state[a] \in States
    BY <1>2, <1>3 DEF Begin, AlertExists, AlertInv, AlertTypeOK
  <2>2. x \in RunState
    BY <1>1, <2>1 DEF RunState
  <2>3. x.id \in Alerts /\ x.row \in AlertRow
    BY <2>1
  <2>4. run' = [run EXCEPT ![r] = x] /\ UNCHANGED <<alert, last_state, events, jobs, retiredAlerts, source>>
    BY <1>3 DEF Begin, rows
  <2> HIDE DEF x
  <2> QED
    BY <1>2, <2>2, <2>3, <2>4, RunMoves
<1>4. CASE Read(r)
  <2> DEFINE x == [run[r] EXCEPT !.pc = "answered", !.value = source]
  <2>1. x \in RunState /\ x.id = run[r].id /\ x.row = run[r].row
    BY <1>1 DEF RunState
  <2>2. run' = [run EXCEPT ![r] = x] /\ UNCHANGED <<alert, last_state, events, jobs, retiredAlerts, source>>
    BY <1>1, <1>4 DEF Read, rows
  <2>3. run[r].pc # "idle"
    BY <1>4 DEF Read
  <2> HIDE DEF x
  <2> QED
    BY <1>1, <1>2, <2>1, <2>2, <2>3, RunMoves
<1>5. CASE Evaluate(r) /\ run' = [run EXCEPT ![r].pc = "telling"]
  <2> DEFINE x == [run[r] EXCEPT !.pc = "telling"]
  <2>1. x \in RunState /\ x.id = run[r].id /\ x.row = run[r].row
    BY <1>1 DEF RunState
  <2>2. run' = [run EXCEPT ![r] = x]
    BY <1>1, <1>5
  <2>3. run'[r].pc = "telling" /\ NoRun.pc = "idle" /\ run' # [run EXCEPT ![r] = NoRun]
    BY <1>1, <1>5 DEF NoRun, RunState
  <2>4. UNCHANGED <<alert, last_state, events, jobs, retiredAlerts, source>>
    BY <1>5, <2>3 DEF Evaluate
  <2>5. run[r].pc # "idle"
    BY <1>5 DEF Evaluate
  <2> HIDE DEF x
  <2> QED
    BY <1>1, <1>2, <2>1, <2>2, <2>4, <2>5, RunMoves
<1>6. ASSUME NEW next \in {"ok", "triggered", "error"}, run[r].pc # "idle",
             Record(r, next, NoticeOf(run[r].prev, next)),
             run' = [run EXCEPT ![r] = NoRun],
             UNCHANGED <<alert, jobs, retiredAlerts, source>>
      PROVE  AlertInv'
  <2>1. run[r].prev \in States
    BY <1>1 DEF RunState
  <2>2. /\ last_state' \in [Alerts -> States]
        /\ events' \in [Alerts -> Seq(Notices)]
        /\ \A a \in Alerts : Len(events'[a]) <= HistoryCap
    BY <1>1, <1>6, <2>1, Recorded DEF AlertInv
  <2>3. NoRun \in RunState /\ NoRun.pc = "idle"
    BY <1>1 DEF NoRun, RunState, States
  <2> QED
    BY <1>6, <2>2, <2>3, RunMoves
<1>7. CASE Evaluate(r) /\ run' # [run EXCEPT ![r].pc = "telling"]
  BY <1>6, <1>7, Judged DEF Evaluate
<1>8. CASE Told(r)
  BY <1>6, <1>8, Judged DEF Told
<1> QED
  BY <1>3, <1>4, <1>5, <1>7, <1>8 DEF RunStep

LEMMA AlertInvStep == AlertInv /\ [AlertNext]_alertVars => AlertInv'
<1> SUFFICES ASSUME AlertInv, [AlertNext]_alertVars PROVE AlertInv'
  OBVIOUS
<1>1. CASE UNCHANGED alertVars
  BY <1>1 DEF alertVars, AlertInv, AlertTypeOK, Tracked, NoStrayJob, DueIn
<1>2. CASE SourceChanges
  BY <1>2 DEF SourceChanges, AlertInv, AlertTypeOK, Tracked, NoStrayJob, DueIn
<1>3. CASE RestartRunner
  <2>1. jobs' \subseteq DueIn(alert) /\ DueIn(alert) \subseteq Alerts /\ alert' = alert
    BY <1>3 DEF RestartRunner, Booted, AlertInv, AlertTypeOK, DueIn
  <2>2. NoStrayJob'
    BY <2>1 DEF NoStrayJob, DueIn
  <2> QED
    BY <1>3, <2>1, <2>2, AlertAssumption
    DEF RestartRunner, AlertInv, AlertTypeOK, Tracked, RunState, NoRun, AlertAssumption
<1>4. CASE \E a \in Alerts : \/ \E row \in AlertSettings : CreateAlert(a, row) \/ UpdateAlert(a, row)
                            \/ DeleteAlert(a) \/ DeleteWithParent(a)
  BY <1>4, InvRoutes
<1>5. CASE \E r \in Runs : (\E a \in Alerts : Begin(a, r)) \/ RunStep(r)
  BY <1>5, InvRuns
<1> QED
  BY <1>1, <1>2, <1>3, <1>4, <1>5 DEF AlertNext, AlertTick, RunAlertNow

LEMMA Invariance == AlertSpec => []AlertInv
  BY AlertInvInit, AlertInvStep, PTL DEF AlertSpec

\* Every variable keeps its type, and no history outgrows its cap.
THEOREM AlertTypeCorrect == AlertSpec => []AlertTypeOK
<1>1. AlertInv => AlertTypeOK
  BY DEF AlertInv
<1> QED
  BY <1>1, Invariance, PTL

\* An alert keeps its task in every step but a boot that meets a row whose
\* timezone node-cron does not know.
LEMMA AlertKeepsTask ==
    ASSUME AlertInv, [AlertNext]_alertVars
    PROVE  AlertsUntasked' \subseteq AlertsUntasked \/ (RestartRunner /\ SomeThrow(alert))
<1>1. CASE UNCHANGED <<alert, jobs>>
  BY <1>1 DEF AlertsUntasked, DueIn
<1>2. CASE RestartRunner
  <2>1. CASE SomeThrow(alert)
    BY <1>2, <2>1
  <2>2. CASE ~SomeThrow(alert)
    <3>1. jobs' = DueIn(alert) /\ alert' = alert
      BY <1>2, <2>2 DEF RestartRunner, Booted
    <3> QED
      BY <3>1 DEF AlertsUntasked, DueIn
  <2> QED
    BY <2>1, <2>2
<1>3. ASSUME NEW a \in Alerts,
             \/ \E row \in AlertSettings : CreateAlert(a, row) \/ UpdateAlert(a, row)
             \/ DeleteAlert(a) \/ DeleteWithParent(a)
      PROVE  AlertsUntasked' \subseteq AlertsUntasked
  <2>1. alert \in [Alerts -> AlertRow \cup {NoRow}]
    BY DEF AlertInv, AlertTypeOK
  <2>2. CASE \E row \in AlertSettings : CreateAlert(a, row) \/ UpdateAlert(a, row)
    BY <2>1, <2>2 DEF CreateAlert, UpdateAlert, RegisterAlert, AlertsUntasked, DueIn
  <2>3. CASE DeleteAlert(a) \/ DeleteWithParent(a)
    BY <2>1, <2>3 DEF DeleteAlert, DeleteWithParent, EraseAlert, AlertsUntasked, DueIn
  <2> QED
    BY <1>3, <2>2, <2>3
<1>4. ASSUME NEW r \in Runs, (\E a \in Alerts : Begin(a, r)) \/ RunStep(r)
      PROVE  UNCHANGED <<alert, jobs>>
  BY <1>4 DEF Begin, RunStep, Read, Evaluate, Told
<1>5. SourceChanges \/ UNCHANGED alertVars => UNCHANGED <<alert, jobs>>
  BY DEF SourceChanges, alertVars
<1> QED
  BY <1>1, <1>2, <1>3, <1>4, <1>5 DEF AlertNext, AlertTick, RunAlertNow

\* The cron registry follows the rows through every creation, edit, deletion
\* and restart, whatever is being evaluated meanwhile: no task too many, and
\* none lost but by a boot that an unknown timezone cut short.
THEOREM AlertJobsFollowRows == AlertSpec => JobsFollowRows
<1>1. AlertInv => NoStrayJob
  BY DEF AlertInv
<1>2. AlertInv /\ [AlertNext]_alertVars
        => [AlertsUntasked' \subseteq AlertsUntasked \/ (RestartRunner /\ SomeThrow(alert))]_alertVars
  BY AlertKeepsTask
<1> QED
  BY <1>1, <1>2, Invariance, PTL DEF AlertSpec, JobsFollowRows

-----------------------------------------------------------------------------
(* The history, when no alert is evaluated twice at once. *)

\* An evaluation still holds what the row says, unless the alert is deleted;
\* an alert never judged has no history.
Snapshot == \A r \in Runs : run[r].pc # "idle" =>
               IF AlertExists(run[r].id) THEN run[r].prev = last_state[run[r].id]
                                         ELSE run[r].id \in retiredAlerts
Unjudged == \A a \in Alerts :
               /\ ~AlertExists(a) => last_state[a] = "none"
               /\ last_state[a] = "none" => events[a] = <<>>
HInv == AlertInv /\ Snapshot /\ Unjudged /\ LastWordIsTrue

LEMMA HistoryInit == AlertInit => HInv
  BY AlertInvInit DEF AlertInit, HInv, Snapshot, Unjudged, LastWordIsTrue, NoRun

LEMMA HistoryRoutes ==
    ASSUME HInv, NEW a \in Alerts,
           \/ \E row \in AlertSettings : CreateAlert(a, row) \/ UpdateAlert(a, row)
           \/ DeleteAlert(a) \/ DeleteWithParent(a)
    PROVE  Snapshot' /\ Unjudged' /\ LastWordIsTrue'
<1>1. CASE \E row \in AlertSettings : CreateAlert(a, row) \/ UpdateAlert(a, row)
  <2>1. /\ UNCHANGED <<last_state, events, retiredAlerts, run>>
        /\ \A b \in Alerts : AlertExists(b) => AlertExists(b)'
        /\ \A b \in Alerts : AlertExists(b)' /\ ~AlertExists(b) => b \notin retiredAlerts
    BY <1>1, RowAssumption
    DEF CreateAlert, UpdateAlert, HInv, AlertInv, AlertTypeOK, RowAssumption
  <2>2. \A b \in Alerts : ~AlertExists(b) => last_state[b] = "none" /\ events[b] = <<>>
    BY DEF HInv, Unjudged
  <2>3. Snapshot'
    BY <2>1 DEF HInv, AlertInv, Tracked, Snapshot
  <2> QED
    BY <2>1, <2>2, <2>3 DEF HInv, Unjudged, LastWordIsTrue
<1>2. CASE DeleteAlert(a) \/ DeleteWithParent(a)
  <2>1. /\ UNCHANGED run
        /\ ~AlertExists(a)' /\ last_state'[a] = "none" /\ events'[a] = <<>>
        /\ retiredAlerts' = retiredAlerts \cup {a}
        /\ \A b \in Alerts : b # a => /\ alert'[b] = alert[b]
                                      /\ last_state'[b] = last_state[b]
                                      /\ events'[b] = events[b]
    BY <1>2 DEF DeleteAlert, DeleteWithParent, EraseAlert, HInv, AlertInv, AlertTypeOK
  <2>2. Snapshot'
    BY <2>1 DEF HInv, AlertInv, Tracked, Snapshot
  <2> QED
    BY <2>1, <2>2 DEF HInv, Unjudged, LastWordIsTrue
<1> QED
  BY <1>1, <1>2

\* An evaluation that nothing overlapped writes the state and, when it is due,
\* the notice of the transition from the state the row still had.
LEMMA HistoryRecord ==
    ASSUME HInv, OneRunPerAlert, NEW r \in Runs, run[r].pc # "idle",
           NEW next \in {"ok", "triggered", "error"},
           Record(r, next, NoticeOf(run[r].prev, next)),
           run' = [run EXCEPT ![r] = NoRun],
           UNCHANGED <<alert, retiredAlerts>>
    PROVE  Snapshot' /\ Unjudged' /\ LastWordIsTrue'
<1> DEFINE a == run[r].id
           prev == run[r].prev
<1>1. a \in Alerts /\ prev \in States /\ run \in [Runs -> RunState]
  BY DEF HInv, AlertInv, Tracked, AlertTypeOK, RunState
<1>2. \A b \in Alerts : b # a \/ ~AlertExists(b) =>
        last_state'[b] = last_state[b] /\ events'[b] = events[b]
  BY <1>1, Recorded DEF HInv, AlertInv
<1>3. AlertExists(a) => /\ last_state'[a] = next
                        /\ NoticeOf(prev, next) = {} => events'[a] = events[a]
                        /\ \A n \in NoticeOf(prev, next) : events'[a] # <<>> /\ Last(events'[a]) = n
  BY <1>1, Recorded DEF HInv, AlertInv
<1>4. \A s \in Runs : s # r => run'[s] = run[s] /\ (run[s].pc # "idle" => run[s].id # a)
  BY <1>1 DEF OneRunPerAlert
<1>5. run'[r].pc = "idle"
  BY <1>1 DEF NoRun
<1>6. Snapshot'
  BY <1>2, <1>4, <1>5 DEF HInv, AlertInv, Tracked, Snapshot
<1>7. CASE ~AlertExists(a)
  BY <1>2, <1>6, <1>7 DEF HInv, Unjudged, LastWordIsTrue
<1>8. CASE AlertExists(a)
  <2>1. prev = last_state[a]
    BY <1>8 DEF HInv, Snapshot
  <2>2. /\ last_state'[a] = next /\ next # "none"
        /\ next = "triggered" => Last(events'[a]) = "triggered"
        /\ next = "ok" => Last(events'[a]) # "triggered"
        /\ next = "error" => Last(events'[a]) = "error"
    <3>1. CASE NoticeOf(prev, next) = {} /\ prev = next
      BY <1>1, <1>3, <1>8, <2>1, <3>1 DEF HInv, LastWordIsTrue
    <3>2. CASE NoticeOf(prev, next) = {} /\ next = "ok" /\ prev = "none"
      BY <1>1, <1>3, <1>8, <2>1, <3>2 DEF HInv, Unjudged, Last
    <3>3. CASE NoticeOf(prev, next) = {} /\ next = "ok" /\ prev = "error"
      BY <1>1, <1>3, <1>8, <2>1, <3>3 DEF HInv, LastWordIsTrue
    <3>4. CASE NoticeOf(prev, next) # {}
      BY <1>1, <1>3, <1>8, <3>4, Noticed
    <3> QED
      BY <1>1, <3>1, <3>2, <3>3, <3>4, Noticed
  <2>3. Unjudged'
    BY <1>2, <1>8, <2>2 DEF HInv, Unjudged
  <2>4. LastWordIsTrue'
    BY <1>2, <1>8, <2>2 DEF HInv, LastWordIsTrue
  <2> QED
    BY <1>6, <2>3, <2>4
<1> QED
  BY <1>7, <1>8

LEMMA HistoryStep == HInv /\ OneRunPerAlert /\ [AlertNext]_alertVars => HInv'
<1> SUFFICES ASSUME HInv, OneRunPerAlert, [AlertNext]_alertVars PROVE HInv'
  OBVIOUS
<1> AlertInv'
  BY AlertInvStep DEF HInv
<1> SUFFICES Snapshot' /\ Unjudged' /\ LastWordIsTrue'
  BY DEF HInv
<1>1. CASE UNCHANGED alertVars \/ SourceChanges
  BY <1>1 DEF alertVars, SourceChanges, HInv, Snapshot, Unjudged, LastWordIsTrue
<1>2. CASE RestartRunner
  BY <1>2 DEF RestartRunner, NoRun, HInv, Snapshot, Unjudged, LastWordIsTrue
<1>3. CASE \E a \in Alerts : \/ \E row \in AlertSettings : CreateAlert(a, row) \/ UpdateAlert(a, row)
                            \/ DeleteAlert(a) \/ DeleteWithParent(a)
  BY <1>3, HistoryRoutes
<1>4. CASE \E a \in Alerts, r \in Runs : Begin(a, r)
  <2>1. PICK a \in Alerts, r \in Runs : Begin(a, r)
    BY <1>4
  <2>2. /\ UNCHANGED <<alert, last_state, events, retiredAlerts>>
        /\ AlertExists(a)
        /\ run'[r].id = a /\ run'[r].prev = last_state[a]
        /\ \A s \in Runs : s # r => run'[s] = run[s]
    BY <2>1 DEF Begin, HInv, AlertInv, AlertTypeOK
  <2> QED
    BY <2>2 DEF HInv, Snapshot, Unjudged, LastWordIsTrue
<1>5. CASE \E r \in Runs : Read(r)
  BY <1>5 DEF Read, HInv, AlertInv, AlertTypeOK, RunState, Snapshot, Unjudged, LastWordIsTrue
<1>6. CASE \E r \in Runs : Evaluate(r)
  <2>1. PICK r \in Runs : Evaluate(r)
    BY <1>6
  <2>2. CASE run' = [run EXCEPT ![r].pc = "telling"]
    <3>1. run'[r].pc = "telling" /\ NoRun.pc = "idle"
      BY <2>2 DEF HInv, AlertInv, AlertTypeOK, RunState, NoRun
    <3>2. UNCHANGED <<last_state, events, alert, retiredAlerts>>
      BY <2>1, <3>1 DEF Evaluate, HInv, AlertInv, AlertTypeOK
    <3> QED
      BY <2>1, <2>2, <3>2
      DEF Evaluate, HInv, AlertInv, AlertTypeOK, RunState, Snapshot, Unjudged, LastWordIsTrue
  <2>3. CASE run' # [run EXCEPT ![r].pc = "telling"]
    BY <2>1, <2>3, Judged, HistoryRecord DEF Evaluate
  <2> QED
    BY <2>2, <2>3
<1>7. CASE \E r \in Runs : Told(r)
  <2>1. PICK r \in Runs : Told(r)
    BY <1>7
  <2> DEFINE next == Verdict(run[r].row, run[r].value)
  <2>2. /\ run[r].pc # "idle"
        /\ next \in {"ok", "triggered", "error"}
        /\ Record(r, next, NoticeOf(run[r].prev, next))
        /\ run' = [run EXCEPT ![r] = NoRun]
        /\ UNCHANGED <<alert, retiredAlerts>>
    BY <2>1, Judged DEF Told
  <2> HIDE DEF next
  <2> QED
    BY <2>2, HistoryRecord
<1> QED
  BY <1>1, <1>2, <1>3, <1>4, <1>5, <1>6, <1>7 DEF AlertNext, AlertTick, RunAlertNow, RunStep

\* The history agrees with the state for as long as no alert is evaluated
\* twice at once.  Where two evaluations overlap, TLC finds it violated.
THEOREM SerialHistoryIsTrue == AlertSpec => HistoryIsTrue
<1>1. HInv => LastWordIsTrue
  BY DEF HInv
<1> QED
  BY <1>1, HistoryInit, HistoryStep, PTL DEF AlertSpec, HistoryIsTrue

-----------------------------------------------------------------------------
(* Nor does such a history repeat itself. *)

Unrepeated(s) == \A i \in 2..Len(s) : s[i] = "error" \/ s[i] # s[i - 1]

\* The latest notices of a history that does not repeat itself, one more
\* notice included that the last one does not already say.
LEMMA LatestIsUnrepeated ==
    ASSUME NEW s \in Seq(Notices), NEW n \in Notices,
           Unrepeated(s), n = "error" \/ Last(s) # n
    PROVE  Unrepeated(LatestOf(s \o <<n>>))
<1> DEFINE t == s \o <<n>>
           m == IF Len(t) > HistoryCap THEN Len(t) - HistoryCap + 1 ELSE 1
           u == SubSeq(t, m, Len(t))
<1>1. /\ t \in Seq(Notices) /\ Len(t) = Len(s) + 1 /\ Len(s) \in Nat
      /\ t[Len(t)] = n
      /\ \A i \in 1..Len(s) : t[i] = s[i]
  OBVIOUS
<1>2. HistoryCap \in Nat \ {0}
  BY AlertAssumption DEF AlertAssumption
<1>3. m \in 1..Len(t)
  BY <1>1, <1>2
<1>4. Unrepeated(t)
  <2> SUFFICES ASSUME NEW i \in 2..Len(t) PROVE t[i] = "error" \/ t[i] # t[i - 1]
    BY DEF Unrepeated
  <2> HIDE DEF t, m, u
  <2>1. CASE i = Len(t)
    <3>1. Len(s) >= 1 /\ i - 1 = Len(s) /\ t[i - 1] = s[Len(s)]
      BY <1>1, <2>1
    <3>2. Last(s) = s[Len(s)]
      BY <3>1 DEF Last
    <3> QED
      BY <1>1, <2>1, <3>1, <3>2
  <2>2. CASE i # Len(t)
    <3>1. i \in 2..Len(s) /\ i \in 1..Len(s) /\ i - 1 \in 1..Len(s)
      BY <1>1, <2>2
    <3>2. t[i] = s[i] /\ t[i - 1] = s[i - 1]
      BY <1>1, <3>1
    <3>3. s[i] = "error" \/ s[i] # s[i - 1]
      BY <3>1 DEF Unrepeated
    <3> QED
      BY <3>2, <3>3
  <2> QED
    BY <2>1, <2>2
<1> HIDE DEF t, m
<1>5. /\ Len(u) = Len(t) - m + 1
      /\ \A i \in 1..(Len(t) - m + 1) : u[i] = t[m + i - 1]
  BY <1>1, <1>3, SubSeqProperties
<1> HIDE DEF u
<1>6. Unrepeated(u)
  <2> SUFFICES ASSUME NEW i \in 2..Len(u) PROVE u[i] = "error" \/ u[i] # u[i - 1]
    BY DEF Unrepeated
  <2>1. /\ i \in 1..(Len(t) - m + 1) /\ i - 1 \in 1..(Len(t) - m + 1)
        /\ m + i - 1 \in 2..Len(t)
        /\ m + (i - 1) - 1 = (m + i - 1) - 1
    BY <1>1, <1>3, <1>5
  <2>2. u[i] = t[m + i - 1] /\ u[i - 1] = t[(m + i - 1) - 1]
    BY <1>5, <2>1
  <2> QED
    BY <1>4, <2>1, <2>2 DEF Unrepeated
<1> QED
  BY <1>6 DEF LatestOf, t, m, u

RInv == HInv /\ NotTwiceInARow

\* The notice a transition is worth is not the one its alert was last given.
LEMMA NoticeIsNews ==
    ASSUME HInv, NEW a \in Alerts, AlertExists(a), NEW next \in {"ok", "triggered", "error"},
           NEW n \in NoticeOf(last_state[a], next)
    PROVE  n \in Notices /\ (n = "error" \/ Last(events[a]) # n)
<1>1. last_state[a] \in States
  BY DEF HInv, AlertInv, AlertTypeOK
<1>2. CASE n = "error"
  BY <1>2
<1>3. CASE n = "triggered" /\ last_state[a] \in {"none", "ok", "error"}
  BY <1>3 DEF HInv, LastWordIsTrue, Unjudged, Last
<1>4. CASE n = "recovered" /\ last_state[a] = "triggered"
  BY <1>4 DEF HInv, LastWordIsTrue
<1> QED
  BY <1>1, <1>2, <1>3, <1>4 DEF NoticeOf

LEMMA RecordIsUnrepeated ==
    ASSUME RInv, NEW r \in Runs, run[r].pc # "idle",
           NEW next \in {"ok", "triggered", "error"},
           Record(r, next, NoticeOf(run[r].prev, next))
    PROVE  NotTwiceInARow'
<1> DEFINE a == run[r].id
           N == NoticeOf(last_state[a], next)
<1>1. a \in Alerts /\ run[r].prev \in States /\ events \in [Alerts -> Seq(Notices)]
  BY DEF RInv, HInv, AlertInv, Tracked, AlertTypeOK, RunState
<1>2. CASE ~AlertExists(a)
  BY <1>2 DEF Record, RInv, NotTwiceInARow
<1>3. CASE AlertExists(a)
  <2>1. run[r].prev = last_state[a]
    BY <1>3 DEF RInv, HInv, Snapshot
  <2>2. CASE N = {}
    <3>1. events' = events
      BY <1>1, <1>3, <2>1, <2>2 DEF Record
    <3> QED
      BY <3>1 DEF RInv, NotTwiceInARow
  <2>3. CASE N # {}
    <3> DEFINE n == CHOOSE x \in N : TRUE
               s == LatestOf(events[a] \o <<n>>)
    <3>1. n \in N
      BY <2>3
    <3>2. events' = [events EXCEPT ![a] = s]
      BY <1>3, <2>1, <2>3 DEF Record
    <3> HIDE DEF n, N
    <3>3. n \in Notices /\ (n = "error" \/ Last(events[a]) # n)
      BY <1>1, <1>3, <3>1, NoticeIsNews DEF RInv, N
    <3>4. Unrepeated(events[a]) /\ events[a] \in Seq(Notices)
      BY <1>1 DEF RInv, NotTwiceInARow, Unrepeated
    <3>5. Unrepeated(s)
      BY <3>3, <3>4, LatestIsUnrepeated
    <3> HIDE DEF s
    <3>6. \A b \in Alerts : events'[b] = IF b = a THEN s ELSE events[b]
      BY <1>1, <3>2
    <3> QED
      BY <3>5, <3>6 DEF RInv, NotTwiceInARow, Unrepeated
  <2> QED
    BY <2>2, <2>3
<1> QED
  BY <1>2, <1>3

LEMMA UnrepeatedStep == RInv /\ OneRunPerAlert /\ [AlertNext]_alertVars => RInv'
<1> SUFFICES ASSUME RInv, OneRunPerAlert, [AlertNext]_alertVars PROVE NotTwiceInARow'
  BY HistoryStep DEF RInv
<1>1. CASE events' = events
  BY <1>1 DEF RInv, NotTwiceInARow
<1>2. CASE \E a \in Alerts : DeleteAlert(a) \/ DeleteWithParent(a)
  <2>1. PICK a \in Alerts : EraseAlert(a)
    BY <1>2 DEF DeleteAlert, DeleteWithParent
  <2>2. \A b \in Alerts : events'[b] = IF b = a THEN <<>> ELSE events[b]
    BY <2>1 DEF EraseAlert, RInv, HInv, AlertInv, AlertTypeOK
  <2>3. Unrepeated(<<>>)
    BY DEF Unrepeated
  <2> QED
    BY <2>2, <2>3 DEF RInv, NotTwiceInARow, Unrepeated
<1>3. ASSUME NEW r \in Runs, Evaluate(r) \/ Told(r) PROVE NotTwiceInARow'
  BY <1>1, <1>3, Judged, RecordIsUnrepeated DEF Evaluate, Told
<1>4. events' = events \/ (\E a \in Alerts : DeleteAlert(a) \/ DeleteWithParent(a))
                      \/ (\E r \in Runs : Evaluate(r) \/ Told(r))
  BY DEF AlertNext, CreateAlert, UpdateAlert, AlertTick, RunAlertNow, Begin, RunStep, Read, SourceChanges, RestartRunner, alertVars
<1> QED
  BY <1>1, <1>2, <1>3, <1>4

\* Nor is anything said twice in a row, errors aside, however long the history
\* and wherever its cap cuts it.
THEOREM SerialHistoryIsNotRepeated == AlertSpec => SaidOnce
<1>1. AlertInit => RInv
  BY HistoryInit DEF AlertInit, RInv, NotTwiceInARow
<1>2. RInv => NotTwiceInARow
  BY DEF RInv
<1> QED
  BY <1>1, <1>2, UnrepeatedStep, PTL DEF AlertSpec, SaidOnce

-----------------------------------------------------------------------------
(* The cache schedules, and a tab that watches their builds. *)

USE DEF Exists, ModelFor, M

\* Nothing is built for a later wish, or from later data, than there is; a
\* build in flight will not set its model's rollups back.
NeverAhead ==
    /\ \A m \in Models : rollups[m].plan <= wanted[m] /\ rollups[m].read <= data[m]
    /\ \A b \in Builds : build[b].pc # "idle" =>
         LET m == build[b].model
         IN  /\ rollups[m].plan <= build[b].plan /\ build[b].plan <= wanted[m]
             /\ build[b].pc = "read" =>
                  rollups[m].read <= build[b].read /\ build[b].read <= data[m]

IInv == TypeOK /\ TasksAreTrue /\ PromisesAreBuilds /\ NeverAhead

Forward == \A m \in Models : /\ rollups'[m].read >= rollups[m].read
                             /\ rollups'[m].plan >= rollups[m].plan

-----------------------------------------------------------------------------
(* The builds. *)

LEMMA IdleBuild == Idle \in BuildState /\ Idle.pc = "idle"
<1>1. \E m \in Models : TRUE
  BY SchedulerAssumption, WarmingAssumption DEF SchedulerAssumption, WarmingAssumption
<1>2. (CHOOSE m \in Models : TRUE) \in Models
  BY <1>1
<1>3. 0 \in Revisions
  BY SchedulerAssumption DEF SchedulerAssumption, Revisions
<1> QED
  BY <1>2, <1>3 DEF Idle, BuildState

LEMMA FreeBuildIsIdle ==
    ASSUME \E b \in Builds : build[b].pc = "idle"
    PROVE  FreeBuild \in Builds /\ build[FreeBuild].pc = "idle"
  BY DEF FreeBuild

LEMMA StartedBuild ==
    ASSUME TypeOK, NEW m \in Models
    PROVE  /\ Started(m) \in BuildState
           /\ Started(m).pc \in {"reading", "empty"}
           /\ Started(m).model = m
           /\ Started(m).plan = wanted[m]
<1>1. 0 \in Revisions /\ wanted[m] \in Revisions
  BY SchedulerAssumption DEF SchedulerAssumption, Revisions, TypeOK
<1> QED
  BY <1>1 DEF Started, BuildState

\* Asking for a build gives the caller one that is in flight.
LEMMA AskGivesABuild ==
    ASSUME IInv, NEW m \in Models, Ask(m), UNCHANGED worldVars
    PROVE  /\ build' \in [Builds -> BuildState]
           /\ promise' \in [Models -> Builds \cup {NoBuild}]
           /\ promise'[m] \in Builds
           /\ \A b \in Builds : build'[b].pc # "idle" => promise'[build'[b].model] = b
           /\ \A k \in Models : promise'[k] # NoBuild =>
                build'[promise'[k]].pc # "idle" /\ build'[promise'[k]].model = k
           /\ \A b \in Builds : build[b].pc # "idle" => build'[b] = build[b]
           /\ NeverAhead'
<1>1. CASE promise[m] # NoBuild
  BY <1>1 DEF Ask, BuildOrJoin, IInv, TypeOK, PromisesAreBuilds, NeverAhead, worldVars
<1>2. CASE promise[m] = NoBuild
  <2>1. FreeBuild \in Builds /\ build[FreeBuild].pc = "idle"
    BY <1>2, FreeBuildIsIdle DEF Ask
  <2> DEFINE f == FreeBuild
             st == Started(m)
  <2>2. /\ st \in BuildState /\ st.pc \in {"reading", "empty"}
        /\ st.model = m /\ st.plan = wanted[m]
    BY StartedBuild DEF IInv
  <2>3. /\ build' = [build EXCEPT ![f] = st]
        /\ promise' = [promise EXCEPT ![m] = f]
        /\ UNCHANGED <<rollups, wanted, data>>
    BY <1>2 DEF Ask, BuildOrJoin, worldVars
  <2>4. f # NoBuild
    BY <2>1, SchedulerAssumption DEF SchedulerAssumption
  <2> HIDE DEF f, st
  <2>5. build \in [Builds -> BuildState] /\ promise \in [Models -> Builds \cup {NoBuild}]
    BY DEF IInv, TypeOK
  <2>6. \A b \in Builds : b # f => build'[b] = build[b]
    BY <2>3, <2>5
  <2>7. build'[f] = st /\ build' \in [Builds -> BuildState]
    BY <2>1, <2>2, <2>3, <2>5 DEF f
  <2>8. /\ promise'[m] = f /\ promise' \in [Models -> Builds \cup {NoBuild}]
        /\ \A k \in Models : k # m => promise'[k] = promise[k]
    BY <2>1, <2>3, <2>5 DEF f
  <2>9. build[f].pc = "idle" /\ f \in Builds
    BY <2>1 DEF f
  <2>10. \A b \in Builds : build'[b].pc # "idle" => promise'[build'[b].model] = b
    <3> SUFFICES ASSUME NEW b \in Builds, build'[b].pc # "idle", b # f
                 PROVE  promise'[build'[b].model] = b
      BY <2>2, <2>7, <2>8
    <3>1. build'[b] = build[b] /\ promise[build[b].model] = b /\ build[b].model \in Models
      BY <2>5, <2>6 DEF IInv, PromisesAreBuilds, BuildState
    <3>2. build[b].model # m
      BY <1>2, <3>1, SchedulerAssumption DEF SchedulerAssumption
    <3> QED
      BY <2>8, <3>1, <3>2
  <2>11. \A k \in Models : promise'[k] # NoBuild =>
                build'[promise'[k]].pc # "idle" /\ build'[promise'[k]].model = k
    <3> SUFFICES ASSUME NEW k \in Models, promise'[k] # NoBuild, k # m
                 PROVE  build'[promise'[k]].pc # "idle" /\ build'[promise'[k]].model = k
      BY <2>2, <2>7, <2>8
    <3>1. promise'[k] = promise[k] /\ promise[k] \in Builds /\ promise[k] # NoBuild
      BY <2>5, <2>8
    <3>2. build[promise[k]].pc # "idle" /\ build[promise[k]].model = k
      BY <3>1 DEF IInv, PromisesAreBuilds
    <3> QED
      BY <2>6, <2>9, <3>1, <3>2
  <2>12. NeverAhead'
    <3>1. \A k \in Models : rollups'[k].plan <= wanted'[k] /\ rollups'[k].read <= data'[k]
      BY <2>3 DEF IInv, NeverAhead
    <3>2. ASSUME NEW b \in Builds, build'[b].pc # "idle"
          PROVE  LET k == build'[b].model
                 IN  /\ rollups'[k].plan <= build'[b].plan /\ build'[b].plan <= wanted'[k]
                     /\ build'[b].pc = "read" =>
                          rollups'[k].read <= build'[b].read /\ build'[b].read <= data'[k]
      <4>1. CASE b = f
        <5>1. rollups'[m].plan <= wanted'[m] /\ wanted'[m] = wanted[m] /\ wanted[m] \in Nat
          BY <2>3, <3>1 DEF IInv, TypeOK, Revisions
        <5> QED
          BY <2>2, <2>7, <4>1, <5>1
      <4>2. CASE b # f
        BY <2>3, <2>6, <3>2, <4>2 DEF IInv, NeverAhead
      <4> QED
        BY <4>1, <4>2
    <3> QED
      BY <3>1, <3>2 DEF NeverAhead
  <2> QED
    BY <2>6, <2>7, <2>8, <2>9, <2>10, <2>11, <2>12
<1> QED
  BY <1>1, <1>2

-----------------------------------------------------------------------------
(* The steps. *)

LEMMA InvInit == Init => IInv
<1> SUFFICES ASSUME Init PROVE IInv
  OBVIOUS
<1>1. 0 \in Revisions /\ 0 \in 0..MaxRestarts
  BY SchedulerAssumption DEF SchedulerAssumption, Revisions
<1>2. TypeOK
  BY <1>1, IdleBuild DEF Init, TypeOK
<1>3. TasksAreTrue
  BY DEF Init, TasksAreTrue
<1>4. PromisesAreBuilds
  BY IdleBuild DEF Init, PromisesAreBuilds
<1>5. NeverAhead
  BY IdleBuild DEF Init, NeverAhead
<1> QED
  BY <1>2, <1>3, <1>4, <1>5 DEF IInv

\* Routes and cascades: the builds are left alone.
LEMMA InvRows ==
    ASSUME IInv,
           \/ \E s \in Schedules :
                \/ \E row \in Settings : Create(s, row) \/ Update(s, row)
                \/ Delete(s) \/ DeleteOwner(s)
           \/ \E r \in Reports : DeleteReport(r)
    PROVE  IInv' /\ Forward
<1>1. UNCHANGED <<worldVars, buildVars, runs, restarts>>
  BY DEF Create, Update, Delete, DeleteOwner, DeleteReport
<1>2. PromisesAreBuilds' /\ NeverAhead'
  BY <1>1 DEF IInv, PromisesAreBuilds, NeverAhead, worldVars, buildVars
<1>3. Forward
  <2>1. \A m \in Models : rollups[m].plan \in Nat /\ rollups[m].read \in Nat
    BY DEF IInv, TypeOK, Revisions
  <2> QED
    BY <1>1, <2>1 DEF Forward, buildVars
<1>4. NoTask \notin Exprs /\ NoRow \notin Row /\ Settings \subseteq Row
  BY SchedulerAssumption DEF SchedulerAssumption
<1>5. ASSUME NEW s \in Schedules, NEW row \in Settings, Create(s, row)
      PROVE  TypeOK' /\ TasksAreTrue'
  <2>1. TypeOK'
    BY <1>1, <1>4, <1>5 DEF IInv, TypeOK, Create, Register, worldVars, buildVars, Row
  <2>2. TasksAreTrue'
    BY <1>4, <1>5 DEF IInv, TypeOK, TasksAreTrue, Create, Register
  <2> QED
    BY <2>1, <2>2
<1>6. ASSUME NEW s \in Schedules, NEW row \in Settings, Update(s, row)
      PROVE  TypeOK' /\ TasksAreTrue'
  <2>1. TypeOK'
    BY <1>1, <1>4, <1>6 DEF IInv, TypeOK, Update, Register, worldVars, buildVars, Row
  <2>2. TasksAreTrue'
    BY <1>4, <1>6 DEF IInv, TypeOK, TasksAreTrue, Update, Register
  <2> QED
    BY <2>1, <2>2
<1>7. ASSUME NEW s \in Schedules, Delete(s) \/ DeleteOwner(s)
      PROVE  TypeOK' /\ TasksAreTrue'
  <2>1. TypeOK'
    BY <1>1, <1>7 DEF IInv, TypeOK, Delete, DeleteOwner, Erase, worldVars, buildVars
  <2>2. TasksAreTrue'
    BY <1>7 DEF IInv, TypeOK, TasksAreTrue, Delete, DeleteOwner, Erase
  <2> QED
    BY <2>1, <2>2
<1>8. ASSUME NEW r \in Reports, DeleteReport(r)
      PROVE  TypeOK' /\ TasksAreTrue'
  <2>1. TypeOK'
    BY <1>1, <1>8 DEF IInv, TypeOK, DeleteReport, Erase, worldVars, buildVars
  <2>2. TasksAreTrue'
    BY <1>8 DEF IInv, TypeOK, TasksAreTrue, DeleteReport, Erase
  <2> QED
    BY <2>1, <2>2
<1> QED
  BY <1>2, <1>3, <1>5, <1>6, <1>7, <1>8 DEF IInv

\* Ticks and requests: a build is joined or started.
LEMMA InvAsk ==
    ASSUME IInv,
           \/ \E s \in Schedules : RunOne(s)
           \/ \E m \in Models : Refresh(m)
    PROVE  IInv' /\ Forward
<1>1. UNCHANGED <<rowVars, tasks, worldVars, rollups, restarts>>
  BY DEF RunOne, Refresh, Ask
<1>2. TasksAreTrue'
  BY <1>1 DEF IInv, TasksAreTrue, rowVars
<1>3. Forward
  <2>1. \A m \in Models : rollups[m].plan \in Nat /\ rollups[m].read \in Nat
    BY DEF IInv, TypeOK, Revisions
  <2> QED
    BY <1>1, <2>1 DEF Forward
<1>4. ASSUME NEW m \in Models, Ask(m),
             runs' \in [Schedules -> SUBSET Builds],
             \A s \in Schedules : runs'[s] \subseteq runs[s] \cup {promise'[m]}
      PROVE  TypeOK' /\ PromisesAreBuilds' /\ NeverAhead'
  <2>1. /\ build' \in [Builds -> BuildState]
        /\ promise' \in [Models -> Builds \cup {NoBuild}]
        /\ promise'[m] \in Builds
        /\ \A b \in Builds : build'[b].pc # "idle" => promise'[build'[b].model] = b
        /\ \A k \in Models : promise'[k] # NoBuild =>
             build'[promise'[k]].pc # "idle" /\ build'[promise'[k]].model = k
        /\ \A b \in Builds : build[b].pc # "idle" => build'[b] = build[b]
        /\ NeverAhead'
    BY <1>1, <1>4, AskGivesABuild
  <2>2. TypeOK'
    BY <1>1, <1>4, <2>1 DEF IInv, TypeOK, rowVars, worldVars
  <2>3. ASSUME NEW s \in Schedules, NEW b \in runs'[s]
        PROVE  build'[b].pc # "idle"
    <3>1. CASE b \in runs[s]
      <4>1. b \in Builds /\ build[b].pc # "idle"
        BY <3>1 DEF IInv, TypeOK, PromisesAreBuilds
      <4> QED
        BY <2>1, <4>1
    <3>2. CASE b = promise'[m]
      <4>1. NoBuild \notin Builds
        BY SchedulerAssumption DEF SchedulerAssumption
      <4> QED
        BY <2>1, <3>2, <4>1
    <3> QED
      BY <1>4, <2>3, <3>1, <3>2
  <2>4. PromisesAreBuilds'
    BY <2>1, <2>3 DEF PromisesAreBuilds
  <2> QED
    BY <2>1, <2>2, <2>4
<1>5. ASSUME NEW s \in Schedules, RunOne(s)
      PROVE  TypeOK' /\ PromisesAreBuilds' /\ NeverAhead'
  <2> DEFINE m == ModelFor(s)
  <2>1. sched[s] \in Row
    BY <1>5 DEF RunOne, IInv, TypeOK
  <2>2. m \in Models
    BY <2>1, SchedulerAssumption DEF SchedulerAssumption, Row
  <2>3. Ask(m) /\ runs' = [runs EXCEPT ![s] = @ \cup {promise'[m]}]
    BY <1>5 DEF RunOne
  <2> HIDE DEF m
  <2>4. promise'[m] \in Builds
    BY <1>1, <2>2, <2>3, AskGivesABuild
  <2>5. runs \in [Schedules -> SUBSET Builds]
    BY DEF IInv, TypeOK
  <2>6. /\ runs' \in [Schedules -> SUBSET Builds]
        /\ \A t \in Schedules : runs'[t] \subseteq runs[t] \cup {promise'[m]}
    BY <2>3, <2>4, <2>5
  <2> QED
    BY <1>4, <2>2, <2>3, <2>6
<1>6. ASSUME NEW m \in Models, Refresh(m)
      PROVE  TypeOK' /\ PromisesAreBuilds' /\ NeverAhead'
  <2>1. Ask(m) /\ runs' = runs
    BY <1>6 DEF Refresh
  <2>2. /\ runs' \in [Schedules -> SUBSET Builds]
        /\ \A s \in Schedules : runs'[s] \subseteq runs[s] \cup {promise'[m]}
    BY <2>1 DEF IInv, TypeOK
  <2> QED
    BY <1>4, <2>1, <2>2
<1> QED
  BY <1>2, <1>3, <1>5, <1>6 DEF IInv

LEMMA InvBuildReads ==
    ASSUME IInv, NEW b \in Builds, BuildReads(b)
    PROVE  IInv' /\ Forward
<1> DEFINE m == build[b].model
           now == [build[b] EXCEPT !.pc = IF m \in up THEN "read" ELSE "failed",
                                   !.read = IF m \in up THEN data[m] ELSE 0]
<1>1. /\ build[b] \in BuildState /\ build[b].pc = "reading" /\ m \in Models
      /\ build \in [Builds -> BuildState]
  BY DEF BuildReads, IInv, TypeOK, BuildState
<1>2. data[m] \in Revisions /\ 0 \in Revisions
  BY <1>1, SchedulerAssumption DEF IInv, TypeOK, SchedulerAssumption, Revisions
<1>3. /\ build' = [build EXCEPT ![b] = now]
      /\ UNCHANGED <<rowVars, tasks, worldVars, rollups, promise, runs, restarts>>
  BY <1>1 DEF BuildReads
<1>4. /\ now \in BuildState /\ now.pc \in {"read", "failed"}
      /\ now.model = m /\ now.plan = build[b].plan
      /\ now.pc = "read" => now.read = data[m]
  BY <1>1, <1>2 DEF BuildState
<1> HIDE DEF now
<1>5. /\ build'[b] = now /\ build' \in [Builds -> BuildState]
      /\ \A c \in Builds : c # b => build'[c] = build[c]
  BY <1>1, <1>3, <1>4
<1>6. TypeOK' /\ TasksAreTrue'
  BY <1>3, <1>5 DEF IInv, TypeOK, TasksAreTrue, rowVars, worldVars
<1>7. \A c \in Builds : build'[c].model = build[c].model
                        /\ (build'[c].pc = "idle" <=> build[c].pc = "idle")
  BY <1>1, <1>4, <1>5
<1>8. PromisesAreBuilds'
  <2>1. \A c \in Builds : build'[c].pc # "idle" => promise'[build'[c].model] = c
    BY <1>3, <1>7 DEF IInv, PromisesAreBuilds
  <2>2. \A k \in Models : promise'[k] # NoBuild =>
             build'[promise'[k]].pc # "idle" /\ build'[promise'[k]].model = k
    BY <1>3, <1>7 DEF IInv, TypeOK, PromisesAreBuilds
  <2>3. \A s \in Schedules : \A c \in runs'[s] : build'[c].pc # "idle"
    BY <1>3, <1>7 DEF IInv, TypeOK, PromisesAreBuilds
  <2> QED
    BY <2>1, <2>2, <2>3 DEF PromisesAreBuilds
<1>9. NeverAhead'
  <2>1. UNCHANGED <<rollups, wanted, data>>
    BY <1>3 DEF worldVars
  <2>2. /\ rollups[m].plan <= build[b].plan /\ build[b].plan <= wanted[m]
        /\ rollups[m].read <= data[m] /\ data[m] \in Nat
    BY <1>1, <1>2 DEF IInv, NeverAhead, Revisions
  <2>3. ASSUME NEW c \in Builds, build'[c].pc # "idle"
        PROVE  LET k == build'[c].model
               IN  /\ rollups'[k].plan <= build'[c].plan /\ build'[c].plan <= wanted'[k]
                   /\ build'[c].pc = "read" =>
                        rollups'[k].read <= build'[c].read /\ build'[c].read <= data'[k]
    <3>1. CASE c = b
      BY <1>4, <1>5, <2>1, <2>2, <3>1
    <3>2. CASE c # b
      BY <1>5, <2>1, <2>3, <3>2 DEF IInv, NeverAhead
    <3> QED
      BY <3>1, <3>2
  <2> QED
    BY <2>1, <2>3 DEF IInv, NeverAhead
<1>10. Forward
  <2>1. \A k \in Models : rollups[k].plan \in Nat /\ rollups[k].read \in Nat
    BY DEF IInv, TypeOK, Revisions
  <2> QED
    BY <1>3, <2>1 DEF Forward
<1> QED
  BY <1>6, <1>8, <1>9, <1>10 DEF IInv

LEMMA InvBuildEnds ==
    ASSUME IInv, NEW b \in Builds, BuildEnds(b)
    PROVE  IInv' /\ Forward
<1> DEFINE m == build[b].model
           made == [plan |-> build[b].plan, read |-> build[b].read]
<1>1. /\ build[b] \in BuildState /\ build[b].pc # "idle" /\ m \in Models
      /\ build \in [Builds -> BuildState] /\ promise \in [Models -> Builds \cup {NoBuild}]
      /\ promise[m] = b
  BY DEF BuildEnds, AtItsEnd, IInv, TypeOK, BuildState, PromisesAreBuilds
<1>2. /\ build' = [build EXCEPT ![b] = Idle]
      /\ promise' = [promise EXCEPT ![m] = NoBuild]
      /\ runs' = [s \in Schedules |-> runs[s] \ {b}]
      /\ rollups' = IF build[b].pc = "read" THEN [rollups EXCEPT ![m] = made] ELSE rollups
      /\ UNCHANGED <<reports, sched, retired, tasks, worldVars, restarts>>
  BY DEF BuildEnds, Forget
<1>3. /\ build'[b].pc = "idle" /\ build' \in [Builds -> BuildState]
      /\ \A c \in Builds : c # b => build'[c] = build[c]
  BY <1>1, <1>2, IdleBuild
<1>4. /\ promise'[m] = NoBuild /\ promise' \in [Models -> Builds \cup {NoBuild}]
      /\ \A k \in Models : k # m => promise'[k] = promise[k]
  BY <1>1, <1>2
<1>5. made \in [plan : Revisions, read : Revisions] /\ rollups \in [Models -> [plan : Revisions, read : Revisions]]
  BY <1>1 DEF BuildState, IInv, TypeOK
<1>6. /\ rollups' \in [Models -> [plan : Revisions, read : Revisions]]
      /\ \A k \in Models : k # m => rollups'[k] = rollups[k]
      /\ IF build[b].pc = "read"
           THEN rollups'[m].plan = build[b].plan /\ rollups'[m].read = build[b].read
           ELSE rollups'[m] = rollups[m]
  BY <1>1, <1>2, <1>5
<1>7. status' \in [Schedules -> {"none", "ok", "error"}]
  BY DEF BuildEnds, RecordRuns, IInv, TypeOK
<1>8. runs' \in [Schedules -> SUBSET Builds]
  BY <1>2 DEF IInv, TypeOK
<1>9. TypeOK' /\ TasksAreTrue'
  BY <1>2, <1>3, <1>4, <1>6, <1>7, <1>8 DEF IInv, TypeOK, TasksAreTrue, worldVars
<1>10. \A c \in Builds : c # b /\ build[c].pc # "idle" =>
          build[c].model \in Models /\ build[c].model # m /\ promise[build[c].model] = c
  BY <1>1 DEF IInv, PromisesAreBuilds, BuildState
<1>11. PromisesAreBuilds'
  <2>1. \A c \in Builds : build'[c].pc # "idle" => promise'[build'[c].model] = c
    BY <1>3, <1>4, <1>10
  <2>2. ASSUME NEW k \in Models, promise'[k] # NoBuild
        PROVE  build'[promise'[k]].pc # "idle" /\ build'[promise'[k]].model = k
    <3>1. k # m /\ promise'[k] = promise[k] /\ promise[k] \in Builds
      BY <1>1, <1>4, <2>2
    <3>2. build[promise[k]].pc # "idle" /\ build[promise[k]].model = k
      BY <2>2, <3>1 DEF IInv, PromisesAreBuilds
    <3>3. promise[k] # b
      BY <3>1, <3>2
    <3> QED
      BY <1>3, <3>1, <3>2, <3>3
  <2>3. ASSUME NEW s \in Schedules, NEW c \in runs'[s]
        PROVE  build'[c].pc # "idle"
    <3>1. c \in runs[s] /\ c # b /\ c \in Builds
      BY <1>2 DEF IInv, TypeOK
    <3> QED
      BY <1>3, <3>1 DEF IInv, PromisesAreBuilds
  <2> QED
    BY <2>1, <2>2, <2>3 DEF PromisesAreBuilds
<1>12. /\ rollups[m].plan <= build[b].plan /\ build[b].plan <= wanted[m]
       /\ build[b].pc = "read" => rollups[m].read <= build[b].read /\ build[b].read <= data[m]
  BY <1>1 DEF IInv, NeverAhead
<1>13. NeverAhead'
  <2>1. UNCHANGED <<wanted, data>>
    BY <1>2 DEF worldVars
  <2>2. \A k \in Models : rollups'[k].plan <= wanted'[k] /\ rollups'[k].read <= data'[k]
    BY <1>1, <1>6, <1>12, <2>1 DEF IInv, NeverAhead
  <2>3. ASSUME NEW c \in Builds, build'[c].pc # "idle"
        PROVE  LET k == build'[c].model
               IN  /\ rollups'[k].plan <= build'[c].plan /\ build'[c].plan <= wanted'[k]
                   /\ build'[c].pc = "read" =>
                        rollups'[k].read <= build'[c].read /\ build'[c].read <= data'[k]
    <3>1. c # b /\ build'[c] = build[c] /\ build[c].pc # "idle"
      BY <1>3, <2>3
    <3>2. rollups'[build[c].model] = rollups[build[c].model]
      BY <1>6, <1>10, <3>1
    <3> QED
      BY <2>1, <3>1, <3>2 DEF IInv, NeverAhead
  <2> QED
    BY <2>2, <2>3 DEF NeverAhead
<1>14. Forward
  <2>1. \A k \in Models : rollups[k].plan \in Nat /\ rollups[k].read \in Nat
    BY <1>5 DEF Revisions
  <2>2. build[b].plan \in Nat /\ build[b].read \in Nat
    BY <1>1 DEF BuildState, Revisions
  <2> QED
    BY <1>6, <1>12, <2>1, <2>2 DEF Forward
<1> QED
  BY <1>9, <1>11, <1>13, <1>14 DEF IInv

LEMMA InvWorld ==
    ASSUME IInv, NEW m \in Models, World(m)
    PROVE  IInv' /\ Forward
<1>1. UNCHANGED <<rowVars, tasks, buildVars, runs, restarts>>
  BY DEF World, ReportsChange, DataChanges, SourceGoesDown, SourceComesBack
<1>2. TasksAreTrue' /\ PromisesAreBuilds'
  BY <1>1 DEF IInv, TasksAreTrue, PromisesAreBuilds, rowVars, buildVars
<1>3. /\ wanted \in [Models -> Revisions] /\ data \in [Models -> Revisions]
      /\ MaxRevision \in Nat
  BY SchedulerAssumption DEF IInv, TypeOK, SchedulerAssumption
<1>4. /\ wanted' \in [Models -> Revisions] /\ data' \in [Models -> Revisions]
      /\ up' \subseteq Models
      /\ \A k \in Models : wanted'[k] >= wanted[k] /\ data'[k] >= data[k]
  <2>1. \A k \in Models : wanted[k] \in Nat /\ data[k] \in Nat
    BY <1>3 DEF Revisions
  <2>2. up \subseteq Models
    BY DEF IInv, TypeOK
  <2>3. CASE ReportsChange(m)
    <3>1. wanted[m] + 1 \in Revisions
      BY <1>3, <2>1, <2>3 DEF ReportsChange, Revisions
    <3> QED
      BY <1>3, <2>1, <2>2, <2>3, <3>1 DEF ReportsChange
  <2>4. CASE DataChanges(m)
    <3>1. data[m] + 1 \in Revisions
      BY <1>3, <2>1, <2>4 DEF DataChanges, Revisions
    <3> QED
      BY <1>3, <2>1, <2>2, <2>4, <3>1 DEF DataChanges
  <2>5. CASE SourceGoesDown(m) \/ SourceComesBack(m)
    BY <1>3, <2>1, <2>2, <2>5 DEF SourceGoesDown, SourceComesBack
  <2> QED
    BY <2>3, <2>4, <2>5 DEF World
<1>5. TypeOK'
  BY <1>1, <1>4 DEF IInv, TypeOK, rowVars, buildVars
<1>6. \A k \in Models : /\ rollups[k].plan \in Nat /\ rollups[k].read \in Nat
                        /\ wanted[k] \in Nat /\ data[k] \in Nat
                        /\ wanted'[k] \in Nat /\ data'[k] \in Nat
  BY <1>3, <1>4 DEF IInv, TypeOK, Revisions
<1>7. \A b \in Builds : /\ build[b].model \in Models
                        /\ build[b].plan \in Nat /\ build[b].read \in Nat
  BY DEF IInv, TypeOK, BuildState, Revisions
<1>8. NeverAhead'
  BY <1>1, <1>4, <1>6, <1>7 DEF IInv, NeverAhead, buildVars
<1>9. Forward
  BY <1>1, <1>6 DEF Forward, buildVars
<1> QED
  BY <1>2, <1>5, <1>8, <1>9 DEF IInv

LEMMA InvRestart ==
    ASSUME IInv, Restart
    PROVE  IInv' /\ Forward
<1>1. /\ restarts < MaxRestarts /\ restarts' = restarts + 1
      /\ \E booted \in Booted(sched) :
           tasks' = [s \in Schedules |-> IF s \in booted THEN sched[s].expr ELSE NoTask]
      /\ build' = [b \in Builds |-> Idle]
      /\ promise' = [k \in Models |-> NoBuild]
      /\ runs' = [s \in Schedules |-> {}]
      /\ UNCHANGED <<rowVars, worldVars, rollups>>
  BY DEF Restart
<1>2. restarts' \in 0..MaxRestarts
  BY <1>1, SchedulerAssumption DEF IInv, TypeOK, SchedulerAssumption
<1> PICK booted \in Booted(sched) :
       tasks' = [s \in Schedules |-> IF s \in booted THEN sched[s].expr ELSE NoTask]
  BY <1>1
<1>8. booted \subseteq DueIn(sched)
  BY DEF Booted
<1>9. \A s \in DueIn(sched) : s \in Schedules /\ Exists(s) /\ Due(sched[s]) /\ sched[s].expr \in Exprs
  BY DEF DueIn, IInv, TypeOK, Row
<1>3. tasks' \in [Schedules -> Exprs \cup {NoTask}]
  BY <1>8, <1>9
<1>4. TypeOK'
  BY <1>1, <1>2, <1>3, IdleBuild DEF IInv, TypeOK, rowVars, worldVars
<1>5. TasksAreTrue'
  BY <1>1, <1>8, <1>9 DEF IInv, TypeOK, TasksAreTrue, rowVars
<1>6. PromisesAreBuilds' /\ NeverAhead'
  BY <1>1, IdleBuild DEF IInv, PromisesAreBuilds, NeverAhead, worldVars
<1>7. Forward
  <2>1. \A k \in Models : rollups[k].plan \in Nat /\ rollups[k].read \in Nat
    BY DEF IInv, TypeOK, Revisions
  <2> QED
    BY <1>1, <2>1 DEF Forward
<1> QED
  BY <1>4, <1>5, <1>6, <1>7 DEF IInv

LEMMA InvStutter ==
    ASSUME IInv, UNCHANGED vars
    PROVE  IInv' /\ Forward
<1>1. IInv'
  BY DEF IInv, TypeOK, TasksAreTrue, PromisesAreBuilds, NeverAhead,
         vars, rowVars, worldVars, buildVars
<1>2. \A k \in Models : rollups[k].plan \in Nat /\ rollups[k].read \in Nat
  BY DEF IInv, TypeOK, Revisions
<1> QED
  BY <1>1, <1>2 DEF Forward, vars, buildVars

LEMMA InvStep == IInv /\ [Next]_vars => IInv' /\ Forward
<1> SUFFICES ASSUME IInv, [Next]_vars PROVE IInv' /\ Forward
  OBVIOUS
<1> QED
  BY InvRows, InvAsk, InvBuildReads, InvBuildEnds, InvWorld, InvRestart, InvStutter
     DEF Next, Tick, RunNow, BuildStep

\* Every variable keeps its type.
THEOREM TypeCorrect == Spec => []TypeOK
  BY InvInit, InvStep, PTL DEF Spec, IInv

\* A schedule keeps its task in every step but a boot that meets a row whose
\* timezone node-cron does not know.
LEMMA KeepsTask ==
    ASSUME IInv, [Next]_vars
    PROVE  Untasked' \subseteq Untasked \/ (Restart /\ SomeThrow(sched))
<1>1. /\ sched \in [Schedules -> Row \cup {NoRow}]
      /\ tasks \in [Schedules -> Exprs \cup {NoTask}]
      /\ NoTask \notin Exprs /\ NoRow \notin Row /\ Settings \subseteq Row
      /\ \A row \in Row : row.expr \in Exprs
  BY SchedulerAssumption DEF IInv, TypeOK, SchedulerAssumption, Row
<1>2. CASE UNCHANGED <<sched, tasks>>
  BY <1>2 DEF Untasked, DueIn
<1>3. CASE Restart
  <2>1. CASE SomeThrow(sched)
    BY <1>3, <2>1
  <2>2. CASE ~SomeThrow(sched)
    <3>1. /\ tasks' = [s \in Schedules |-> IF s \in DueIn(sched) THEN sched[s].expr ELSE NoTask]
          /\ sched' = sched
      BY <1>3, <2>2 DEF Restart, Booted, rowVars
    <3>2. \A s \in DueIn(sched) : s \in Schedules /\ tasks'[s] \in Exprs
      BY <1>1, <3>1 DEF DueIn
    <3> QED
      BY <1>1, <3>1, <3>2 DEF Untasked, DueIn
  <2> QED
    BY <2>1, <2>2
<1>4. ASSUME NEW s \in Schedules, NEW row \in Settings, Create(s, row) \/ Update(s, row)
      PROVE  Untasked' \subseteq Untasked
  BY <1>1, <1>4 DEF Create, Update, Register, Untasked, DueIn
<1>5. ASSUME NEW s \in Schedules, Delete(s) \/ DeleteOwner(s)
      PROVE  Untasked' \subseteq Untasked
  BY <1>1, <1>5 DEF Delete, DeleteOwner, Erase, Untasked, DueIn
<1>6. ASSUME NEW r \in Reports, DeleteReport(r)
      PROVE  Untasked' \subseteq Untasked
  BY <1>1, <1>6 DEF DeleteReport, Erase, Untasked, DueIn
<1>7. \/ \E s \in Schedules : RunOne(s)
      \/ \E m \in Models : Refresh(m) \/ World(m)
      \/ \E b \in Builds : BuildStep(b)
      \/ UNCHANGED vars
      => UNCHANGED <<sched, tasks>>
  BY DEF RunOne, Refresh, World, ReportsChange, DataChanges, SourceGoesDown, SourceComesBack,
         BuildStep, BuildReads, BuildEnds, vars, rowVars
<1> QED
  BY <1>2, <1>3, <1>4, <1>5, <1>6, <1>7 DEF Next, Tick, RunNow

\* cacheScheduler.register/unregister and _buildPromises: after any edits,
\* deletions, cascades, ticks, builds and restarts, the tasks are what the
\* rows ask for and the promises are the builds in flight, one per model; and
\* no task is lost but by a boot that an unknown timezone cut short.
THEOREM RegistryFollowsRows == Spec => RegistryIsTrue
<1>1. IInv => TasksAreTrue /\ PromisesAreBuilds
  BY DEF IInv
<1>2. IInv /\ [Next]_vars => [Untasked' \subseteq Untasked \/ (Restart /\ SomeThrow(sched))]_vars
  BY KeepsTask
<1> QED
  BY <1>1, <1>2, InvInit, InvStep, PTL DEF Spec, RegistryIsTrue, TasksStay

\* buildRollupsForModel shares one build among its callers, and so never puts
\* older rollups over newer ones.
THEOREM RollupsGoForward == Spec => CacheNeverRegresses
<1>1. Forward => [\A m \in Models : /\ rollups'[m].read >= rollups[m].read
                                    /\ rollups'[m].plan >= rollups[m].plan]_rollups
  BY DEF Forward
<1> QED
  BY <1>1, InvInit, InvStep, PTL DEF Spec, CacheNeverRegresses

-----------------------------------------------------------------------------
(* The tab. *)

\* What a tab may have been shown, or owes its user, is a past of the rollups.
TabBehind ==
    /\ shown \in [plan : Revisions, read : Revisions]
    /\ owed \in [plan : Revisions, read : Revisions]
    /\ owed.plan <= rollups[M].plan /\ owed.read <= rollups[M].read

WarmInv == IInv /\ TabBehind /\ RebuiltIsOnScreen

LEMMA OwnModel == M \in Models
  BY SchedulerAssumption, WarmingAssumption DEF SchedulerAssumption, WarmingAssumption

\* Whatever the tab does, the server takes a step of its own, or none.
LEMMA TabStepsAreServerSteps ==
    ASSUME [WarmNext]_warmVars PROVE [Next]_vars
<1>1. CASE ServerStep \/ RestartForTab \/ \E b \in Builds : BuildEndsForTab(b)
  BY <1>1 DEF ServerStep, RestartForTab, BuildEndsForTab, Next, BuildStep
<1>2. CASE PostWaits
  BY <1>2, OwnModel DEF PostWaits, Next
<1>3. CASE \/ \E p \in {"editor", "dashboard", "away"} : Enter(p)
           \/ Rebuild \/ PostIsRefused \/ PostEnds \/ PollIsServed \/ PollArrives
           \/ PollAgain \/ PollFails
  BY <1>3 DEF Enter, Rebuild, PostIsRefused, PostEnds, PollIsServed, PollArrives,
              PollAgain, PollFails
<1>4. CASE UNCHANGED warmVars
  BY <1>4 DEF warmVars
<1> QED
  BY <1>1, <1>2, <1>3, <1>4 DEF WarmNext, TabStep

LEMMA WarmInvInit == WarmInit => WarmInv
<1> SUFFICES ASSUME WarmInit PROVE WarmInv
  OBVIOUS
<1>1. IInv
  BY InvInit DEF WarmInit
<1>2. rollups[M] \in [plan : Revisions, read : Revisions]
  BY <1>1, OwnModel DEF IInv, TypeOK
<1>3. rollups[M].plan \in Nat /\ rollups[M].read \in Nat
  BY <1>2 DEF Revisions
<1> QED
  BY <1>1, <1>2, <1>3 DEF WarmInit, WarmInv, TabBehind, RebuiltIsOnScreen

\* The loader leaves the screen by a refetch alone: the answer of the tab's own
\* POST, or a poll that no longer finds the build of another.
LEMMA WarmInvStep == WarmInv /\ [WarmNext]_warmVars => WarmInv'
<1> SUFFICES ASSUME WarmInv, [WarmNext]_warmVars PROVE WarmInv'
  OBVIOUS
<1>1. IInv' /\ Forward
  BY TabStepsAreServerSteps, InvStep DEF WarmInv
<1> DEFINE Stamps == [plan : Revisions, read : Revisions]
<1>2. rollups[M] \in Stamps /\ rollups'[M] \in Stamps
  BY <1>1, OwnModel DEF WarmInv, IInv, TypeOK
<1>3. rollups'[M].plan >= rollups[M].plan /\ rollups'[M].read >= rollups[M].read
  BY <1>1, OwnModel DEF Forward
<1>4. \A r \in Stamps : r.plan \in Nat /\ r.read \in Nat
  BY DEF Revisions
<1>5. shown \in Stamps /\ owed \in Stamps
      /\ owed.plan <= rollups[M].plan /\ owed.read <= rollups[M].read
  BY DEF WarmInv, TabBehind
<1> HIDE DEF Stamps
<1>6. CASE UNCHANGED <<page, loader, shown, owed>>
  <2>1. owed.plan <= rollups'[M].plan /\ owed.read <= rollups'[M].read
    BY <1>2, <1>3, <1>4, <1>5
  <2> QED
    BY <1>1, <1>5, <1>6, <2>1 DEF WarmInv, TabBehind, RebuiltIsOnScreen, Stamps
<1>7. CASE shown' = rollups[M] /\ owed' \in {owed, rollups[M]}
  <2>1. /\ owed'.plan <= rollups[M].plan /\ owed'.read <= rollups[M].read
        /\ owed' \in Stamps /\ shown' \in Stamps
    BY <1>2, <1>4, <1>5, <1>7
  <2>2. owed'.plan <= rollups'[M].plan /\ owed'.read <= rollups'[M].read
    BY <1>2, <1>3, <1>4, <2>1
  <2>3. shown'.plan >= owed'.plan /\ shown'.read >= owed'.read
    BY <1>2, <1>4, <1>7, <2>1
  <2> QED
    BY <1>1, <2>1, <2>2, <2>3 DEF WarmInv, TabBehind, RebuiltIsOnScreen, Stamps
<1>8. CASE loader' = TRUE /\ UNCHANGED <<shown, owed>>
  <2>1. owed.plan <= rollups'[M].plan /\ owed.read <= rollups'[M].read
    BY <1>2, <1>3, <1>4, <1>5
  <2> QED
    BY <1>1, <1>5, <1>8, <2>1 DEF WarmInv, TabBehind, RebuiltIsOnScreen, Stamps
<1>9. ASSUME NEW b \in Builds, BuildEndsForTab(b)
      PROVE  WarmInv'
  <2>1. UNCHANGED <<page, loader, shown>> /\ owed' = IF loader THEN rollups'[M] ELSE owed
    BY <1>9 DEF BuildEndsForTab
  <2>2. CASE ~loader
    BY <1>6, <2>1, <2>2
  <2>3. CASE loader
    <3>1. owed' = rollups'[M] /\ owed' \in Stamps
      BY <1>2, <2>1, <2>3
    <3>2. owed'.plan <= rollups'[M].plan /\ owed'.read <= rollups'[M].read
      BY <1>4, <3>1
    <3> QED
      BY <1>1, <1>5, <2>1, <2>3, <3>1, <3>2 DEF WarmInv, TabBehind, RebuiltIsOnScreen, Stamps
  <2> QED
    BY <2>2, <2>3
<1>10. CASE \E p \in {"editor", "dashboard", "away"} : Enter(p)
  BY <1>7, <1>10 DEF Enter
<1>11. CASE PostEnds
  BY <1>7, <1>11 DEF PostEnds, Refetch
<1>12. CASE Rebuild
  BY <1>8, <1>12 DEF Rebuild
<1>13. CASE PollArrives
  BY <1>6, <1>7, <1>8, <1>13 DEF PollArrives, EditorSees, Refetch
<1>14. CASE \/ ServerStep /\ UNCHANGED tabVars
            \/ RestartForTab \/ PostWaits \/ PostIsRefused \/ PollIsServed
            \/ PollAgain \/ PollFails
  BY <1>6, <1>14 DEF tabVars, RestartForTab, PostWaits, PostIsRefused, PollIsServed,
                     PollAgain, PollFails
<1>15. CASE UNCHANGED warmVars
  BY <1>6, <1>15 DEF warmVars, tabVars
<1> QED
  BY <1>9, <1>10, <1>11, <1>12, <1>13, <1>14, <1>15 DEF WarmNext, TabStep

\* A tab only watches: with it, the server is the server.
THEOREM TabOnlyWatches == WarmSpec => Spec
<1>1. WarmInit => Init
  BY DEF WarmInit
<1>2. [WarmNext]_warmVars => [Next]_vars
  BY TabStepsAreServerSteps
<1> QED
  BY <1>1, <1>2, PTL DEF WarmSpec, Spec

\* Editor.handleRebuildCache and the poll of its mount: however the answer of
\* the POST, the polls, other builds and reloads fall, the loader never goes
\* with the widgets older than what was built under it.
THEOREM RebuiltIsShown == WarmSpec => []RebuiltIsOnScreen
  BY WarmInvInit, WarmInvStep, PTL DEF WarmSpec, WarmInv
=============================================================================
