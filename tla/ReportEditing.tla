--------------------------- MODULE ReportEditing ---------------------------
(***************************************************************************)
(* The tabs a report is open in, over its row.  An editor                  *)
(* (client/src/pages/Editor.jsx) shows one page at a time, records the     *)
(* changes of the page on screen (client/src/hooks/useHistory.jsx) and     *)
(* keeps the other pages aside; a studio (client/src/pages/AiStudio.jsx)   *)
(* records the whole document.  Both guard what is not saved               *)
(* (client/src/hooks/useSaveAndDirtyTracking.js) and drop a draft they     *)
(* leave (client/src/hooks/useDiscardDraftOnExit.js).                      *)
(***************************************************************************)
EXTENDS ReportRow, SequencesExt

CONSTANTS
    Editors, Studios,
    Acts,         \* what the users do
    HistoryCap,   \* states a history keeps (50 in the code)
    MaxActs,      \* bound: acts of the users
    FirstDoc,     \* the document the report is created with
    NoDoc

Tabs == Editors \cup Studios

\* A document has a page, and no page twice.
Whole(doc) ==
    /\ doc.pages # << >>
    /\ \A i, j \in DOMAIN doc.pages : doc.pages[i].id = doc.pages[j].id => i = j

ASSUME EditingAssumption ==
    /\ Editors \cap Studios = {}
    /\ None \notin Tabs
    /\ HistoryCap \in Nat \ {0, 1}
    /\ MaxActs \in Nat
    /\ FirstDoc \in Documents /\ Whole(FirstDoc)
    /\ NoDoc \notin Documents

VARIABLES
    mode,      \* Tabs -> away, loading, open, asked (save before leaving?), leaving
    editor,    \* Editors -> its pages, the one on screen, those aside, its title
    history,   \* Tabs -> what is recorded: bodies in an editor, documents in a studio
    given,     \* Studios -> the title the app gave the report, None once typed
    saved,     \* Tabs -> the document last exchanged with the server
    isDraft,   \* draftRef
    saving,    \* the Save button waits
    puts,      \* saves in flight
    dropping,  \* tabs left as a draft, whose DELETE is on its way
    acts

sessionVars == <<mode, editor, history, given, saved, isDraft, saving>>
vars == <<row, versions, log, times, mode, editor, history, given, saved, isDraft, saving, puts, dropping, acts>>

Shown(t) == history[t].states[history[t].at]

\* What an editor saves and compares: the page on screen over those aside.
EditorDoc(e) ==
    [title |-> editor[e].title,
     pages |-> [i \in DOMAIN editor[e].pages |->
        [id |-> editor[e].pages[i],
         body |-> IF i = editor[e].current THEN Shown(e) ELSE editor[e].aside[editor[e].pages[i]]]]]

Doc(t) == IF t \in Editors THEN EditorDoc(t) ELSE Shown(t)
Dirty(t) == Doc(t) # saved[t]
Mounted(t) == mode[t] \in {"open", "asked", "leaving"}

NoEditor == [pages |-> << >>, current |-> 0, aside |-> [p \in PageIds |-> Blank(p)], title |-> FirstDoc.title]
NewHistory(state) == [states |-> <<state>>, at |-> 1]

\* pushToHistory: what was undone is forgotten, and the oldest past the cap.
Pushed(h, state) ==
    LET states == Append(SubSeq(h.states, 1, h.at), state) IN
    IF Len(states) > HistoryCap
    THEN [states |-> Tail(states), at |-> h.at]
    ELSE [states |-> states, at |-> h.at + 1]

Bodied(doc) == [p \in PageIds |->
    IF \E i \in DOMAIN doc.pages : doc.pages[i].id = p
    THEN doc.pages[CHOOSE i \in DOMAIN doc.pages : doc.pages[i].id = p].body
    ELSE Blank(p)]

Ids(pages) == {pages[i] : i \in DOMAIN pages}

-----------------------------------------------------------------------------
(* Opening and leaving. *)

Act(name) ==
    /\ name \in Acts
    /\ acts < MaxActs
    /\ acts' = acts + 1

Open(t) ==
    /\ mode[t] = "away"
    /\ t \notin dropping
    /\ mode' = [mode EXCEPT ![t] = "loading"]
    /\ UNCHANGED <<rowVars, editor, history, given, saved, isDraft, saving, puts, dropping, acts>>

Gone(t) ==
    /\ mode[t] = "loading" /\ ~There
    /\ mode' = [mode EXCEPT ![t] = "away"]
    /\ UNCHANGED <<rowVars, editor, history, given, saved, isDraft, saving, puts, dropping, acts>>

\* The editor records what it loads, after the empty page it started with.
LoadEditor(e) ==
    /\ mode[e] = "loading" /\ There
    /\ mode' = [mode EXCEPT ![e] = "open"]
    /\ editor' = [editor EXCEPT ![e] = [
           pages |-> [i \in DOMAIN row.doc.pages |-> row.doc.pages[i].id],
           current |-> 1, aside |-> Bodied(row.doc), title |-> row.doc.title]]
    /\ history' = [history EXCEPT ![e] = Pushed(NewHistory(Blank(None)), row.doc.pages[1].body)]
    /\ saved' = [saved EXCEPT ![e] = row.doc]
    /\ isDraft' = [isDraft EXCEPT ![e] = row.draft]
    /\ UNCHANGED <<rowVars, given, saving, puts, dropping, acts>>

LoadStudio(s) ==
    /\ mode[s] = "loading" /\ There
    /\ mode' = [mode EXCEPT ![s] = "open"]
    /\ history' = [history EXCEPT ![s] = NewHistory(row.doc)]
    /\ saved' = [saved EXCEPT ![s] = row.doc]
    /\ given' = [given EXCEPT ![s] = IF row.draft THEN row.doc.title ELSE None]
    /\ isDraft' = [isDraft EXCEPT ![s] = row.draft]
    /\ UNCHANGED <<rowVars, editor, saving, puts, dropping, acts>>

\* The component is gone: what its saves still bring concerns nobody.
Orphaned(t) == {[p EXCEPT !.of = IF p.of = t THEN None ELSE p.of] : p \in puts}

Closed(t) ==
    /\ mode' = [mode EXCEPT ![t] = "away"]
    /\ editor' = IF t \in Editors THEN [editor EXCEPT ![t] = NoEditor] ELSE editor
    /\ history' = [history EXCEPT ![t] = NewHistory(IF t \in Editors THEN Blank(None) ELSE FirstDoc)]
    /\ given' = IF t \in Studios THEN [given EXCEPT ![t] = None] ELSE given
    /\ saved' = [saved EXCEPT ![t] = NoDoc]
    /\ isDraft' = [isDraft EXCEPT ![t] = FALSE]
    /\ saving' = [saving EXCEPT ![t] = FALSE]

\* Leaving within the app: the cleanup of useDiscardDraftOnExit.
Unmount(t, draft) ==
    /\ Closed(t)
    /\ dropping' = IF draft THEN dropping \cup {t} ELSE dropping

\* A click on a link: the blocker asks if something is not saved.
Leave(t) ==
    /\ Act("leave")
    /\ mode[t] = "open"
    /\ IF Dirty(t)
       THEN /\ mode' = [mode EXCEPT ![t] = "asked"]
            /\ UNCHANGED <<editor, history, given, saved, isDraft, saving, puts, dropping>>
       ELSE Unmount(t, isDraft[t]) /\ puts' = Orphaned(t)
    /\ UNCHANGED rowVars

\* Also while it saves: the answer then has no navigation to let through.
Stay(t) ==
    /\ mode[t] \in {"asked", "leaving"}
    /\ mode' = [mode EXCEPT ![t] = "open"]
    /\ puts' = {[p EXCEPT !.leave = p.leave /\ p.of # t] : p \in puts}
    /\ UNCHANGED <<rowVars, editor, history, given, saved, isDraft, saving, dropping, acts>>

LeaveUnsaved(t) ==
    /\ mode[t] = "asked"
    /\ t \in Studios => ~saving[t]
    /\ Unmount(t, isDraft[t])
    /\ puts' = Orphaned(t)
    /\ UNCHANGED <<rowVars, acts>>

\* The browser's tab is closed, or dies: no cleanup runs.
Kill(t) ==
    /\ Act("kill")
    /\ mode[t] # "away"
    /\ Closed(t)
    /\ puts' = Orphaned(t)
    /\ UNCHANGED <<rowVars, dropping>>

-----------------------------------------------------------------------------
(* Changes. *)

\* Each change makes a body no other change made.
NewRev == acts + 1

Record(t, state) == history' = [history EXCEPT ![t] = Pushed(@, state)]

OnlyHistory == UNCHANGED <<rowVars, mode, editor, given, saved, isDraft, saving, puts, dropping>>

Edit(e) ==
    /\ Act("edit")
    /\ mode[e] = "open"
    /\ Record(e, [Shown(e) EXCEPT !.rev = NewRev])
    /\ OnlyHistory

\* A card of the assistant on a page of the studio's copy.
ApplyCard(s, i) ==
    /\ Act("edit")
    /\ mode[s] = "open"
    /\ i \in DOMAIN Shown(s).pages
    /\ Record(s, [Shown(s) EXCEPT !.pages[i].body.rev = NewRev])
    /\ OnlyHistory

\* The shortcuts are the window's: a question on screen does not stop them.
Undo(t) ==
    /\ Act("undo")
    /\ Mounted(t)
    /\ history[t].at > 1
    /\ history' = [history EXCEPT ![t].at = @ - 1]
    /\ OnlyHistory

Redo(t) ==
    /\ Act("undo")
    /\ Mounted(t)
    /\ history[t].at < Len(history[t].states)
    /\ history' = [history EXCEPT ![t].at = @ + 1]
    /\ OnlyHistory

Retitle(e, t) ==
    /\ Act("retitle")
    /\ mode[e] = "open" /\ t # editor[e].title
    /\ editor' = [editor EXCEPT ![e].title = t]
    /\ UNCHANGED <<rowVars, mode, history, given, saved, isDraft, saving, puts, dropping>>

RetitleStudio(s, t) ==
    /\ Act("retitle")
    /\ mode[s] = "open" /\ t # Shown(s).title
    /\ Record(s, [Shown(s) EXCEPT !.title = t])
    /\ OnlyHistory

-----------------------------------------------------------------------------
(* Pages of an editor.  The page on screen is in the history, the others   *)
(* aside; every act below changes which is which.                          *)

\* Bug: the page left is not put aside.
PutNothingAside(e) == editor[e].aside

PutAside(e) == [editor[e].aside EXCEPT ![editor[e].pages[editor[e].current]] = Shown(e)]

ShowPage(e, ids, i, aside) ==
    /\ editor' = [editor EXCEPT ![e].pages = ids, ![e].current = i, ![e].aside = aside]
    /\ Record(e, aside[ids[i]])
    /\ UNCHANGED <<rowVars, mode, given, saved, isDraft, saving, puts, dropping>>

SwitchPage(e, i) ==
    /\ Act("page")
    /\ mode[e] = "open"
    /\ i \in DOMAIN editor[e].pages \ {editor[e].current}
    /\ ShowPage(e, editor[e].pages, i, PutAside(e))

Unused(p) ==
    /\ \A d \in ({row.doc} \cup {saved[t] : t \in Tabs}) \ {NoDoc} : p \notin {d.pages[i].id : i \in DOMAIN d.pages}
    /\ \A e \in Editors : p \notin Ids(editor[e].pages)

AddPage(e, p) ==
    /\ Act("page")
    /\ mode[e] = "open" /\ Unused(p)
    /\ ShowPage(e, Append(editor[e].pages, p), Len(editor[e].pages) + 1, [PutAside(e) EXCEPT ![p] = Blank(p)])

CopyPage(e, i, p) ==
    /\ Act("page")
    /\ mode[e] = "open" /\ Unused(p)
    /\ i \in DOMAIN editor[e].pages
    /\ ShowPage(e, Append(editor[e].pages, p), Len(editor[e].pages) + 1,
                [PutAside(e) EXCEPT ![p] = [page |-> p, rev |-> PutAside(e)[editor[e].pages[i]].rev]])

\* Of the page's menu, on screen or not; the page on screen is not put aside.
DeletePage(e, i) ==
    LET ids == RemoveAt(editor[e].pages, i) IN
    /\ Act("delete page")
    /\ mode[e] = "open"
    /\ Len(editor[e].pages) > 1
    /\ i \in DOMAIN editor[e].pages
    /\ ShowPage(e, ids, IF i > Len(ids) THEN Len(ids) ELSE i,
                [editor[e].aside EXCEPT ![editor[e].pages[i]] = Blank(editor[e].pages[i])])

\* A design card that reaches another page changes it where it is kept.
RestyleElsewhere(e, i) ==
    /\ Act("edit")
    /\ mode[e] = "open"
    /\ i \in DOMAIN editor[e].pages \ {editor[e].current}
    /\ editor' = [editor EXCEPT ![e].aside[editor[e].pages[i]].rev = NewRev]
    /\ UNCHANGED <<rowVars, mode, history, given, saved, isDraft, saving, puts, dropping>>

-----------------------------------------------------------------------------
(* Saves.  A request may be answered, lost before it arrives or after, and *)
(* two of them may overtake each other.                                    *)

Request(t, leave) ==
    [of |-> t, doc |-> Doc(t), auto |-> t \in Studios /\ given[t] = Doc(t).title,
     leave |-> leave, reply |-> "none", title |-> Doc(t).title]

Send(t, leave) ==
    /\ Request(t, leave) \notin puts
    /\ puts' = puts \cup {Request(t, leave)}
    /\ saving' = [saving EXCEPT ![t] = TRUE]

\* The Save button waits for the answer; "Save and preview", offered when
\* something is not saved, does not.
Save(e) ==
    /\ Act("save")
    /\ mode[e] = "open"
    /\ ~saving[e] \/ Dirty(e)
    /\ Send(e, FALSE)
    /\ editor' = [editor EXCEPT ![e].aside = PutAside(e)]
    /\ UNCHANGED <<rowVars, mode, history, given, saved, isDraft, dropping>>

SaveStudio(s) ==
    /\ Act("save")
    /\ Mounted(s) /\ Dirty(s) /\ ~saving[s]
    /\ Send(s, FALSE)
    /\ UNCHANGED <<rowVars, mode, editor, history, given, saved, isDraft, dropping>>

SaveAndLeave(e) ==
    /\ mode[e] = "asked"
    /\ Send(e, TRUE)
    /\ mode' = [mode EXCEPT ![e] = "leaving"]
    /\ editor' = [editor EXCEPT ![e].aside = PutAside(e)]
    /\ UNCHANGED <<rowVars, history, given, saved, isDraft, dropping, acts>>

\* The studio's save declines when nothing is left to save.
SaveAndLeaveStudio(s) ==
    /\ mode[s] = "asked" /\ ~saving[s]
    /\ IF Dirty(s)
       THEN Send(s, TRUE) /\ mode' = [mode EXCEPT ![s] = "leaving"]
       ELSE mode' = [mode EXCEPT ![s] = "open"] /\ UNCHANGED <<puts, saving>>
    /\ UNCHANGED <<rowVars, editor, history, given, saved, isDraft, dropping, acts>>

\* The handler of PUT /:id.
Serve(p) ==
    /\ p.reply = "none"
    /\ Put(p.doc, p.auto)
    /\ puts' = (puts \ {p}) \cup
           {[p EXCEPT !.reply = Verdict(p.doc, p.auto), !.title = Written(p.doc, p.auto).title]}
    /\ UNCHANGED <<sessionVars, dropping, acts>>

Lose(p) ==
    /\ p.reply # "lost"
    /\ puts' = (puts \ {p}) \cup {[p EXCEPT !.reply = "lost"]}
    /\ UNCHANGED <<rowVars, sessionVars, dropping, acts>>

Leaves(p) == p.leave /\ mode[p.of] = "leaving"

\* Bug: what is on screen when the answer comes is taken for what was sent.
RememberedLate(p) == [Doc(p.of) EXCEPT !.title = p.title]

\* What an accepted save is remembered by: what was sent.
Remembered(p) == [p.doc EXCEPT !.title = p.title]

\* A title the server freed becomes a change of the studio's copy, made on
\* the copy that was sent.
Accepted(p) ==
    LET t == p.of IN
    /\ p.reply = "ok"
    /\ puts' = IF Leaves(p) THEN Orphaned(t) \ {[p EXCEPT !.of = None]} ELSE puts \ {p}
    /\ IF Leaves(p)
       THEN Unmount(t, FALSE)
       ELSE /\ saved' = [saved EXCEPT ![t] = Remembered(p)]
            /\ isDraft' = [isDraft EXCEPT ![t] = FALSE]
            /\ saving' = [saving EXCEPT ![t] = FALSE]
            /\ IF p.title # p.doc.title
               THEN /\ Record(t, Remembered(p))
                    /\ given' = [given EXCEPT ![t] = p.title]
               ELSE UNCHANGED <<history, given>>
            /\ UNCHANGED <<mode, editor, dropping>>
    /\ UNCHANGED <<rowVars, acts>>

\* Bug: the navigation goes on whatever became of the save.
RefusedAnyway(p) ==
    LET t == p.of IN
    /\ p.reply \in {"taken", "gone", "lost"}
    /\ IF Leaves(p)
       THEN puts' = Orphaned(t) \ {[p EXCEPT !.of = None]} /\ Unmount(t, isDraft[t])
       ELSE /\ puts' = puts \ {p}
            /\ saving' = [saving EXCEPT ![t] = FALSE]
            /\ UNCHANGED <<mode, editor, history, given, saved, isDraft, dropping>>
    /\ UNCHANGED <<rowVars, acts>>

\* The navigation is called off; an editor whose title was taken goes back to
\* the title it last saved.
Refused(p) ==
    LET t == p.of IN
    /\ p.reply \in {"taken", "gone", "lost"}
    /\ puts' = puts \ {p}
    /\ saving' = [saving EXCEPT ![t] = FALSE]
    /\ mode' = [mode EXCEPT ![t] = IF Leaves(p) THEN "open" ELSE @]
    /\ editor' = IF p.reply = "taken" /\ t \in Editors
                  THEN [editor EXCEPT ![t].title = saved[t].title] ELSE editor
    /\ UNCHANGED <<rowVars, history, given, saved, isDraft, dropping, acts>>

Orphan(p) ==
    /\ p.of = None /\ p.reply # "none"
    /\ puts' = puts \ {p}
    /\ UNCHANGED <<rowVars, sessionVars, dropping, acts>>

Answer(p) == p.of # None /\ (Accepted(p) \/ Refused(p))

\* The DELETE of a draft left behind arrives, or is lost.
Drop(t) ==
    /\ t \in dropping
    /\ dropping' = dropping \ {t}
    /\ DropDraft \/ UNCHANGED rowVars
    /\ UNCHANGED <<sessionVars, puts, acts>>

-----------------------------------------------------------------------------
(* Elsewhere: the assistant of the landing page, an administrator, a new   *)
(* report, the owner.                                                      *)

Elsewhere ==
    /\ Act("elsewhere")
    /\ \/ \E i \in DOMAIN row.doc.pages : AppendWidgets(i, NewRev)
       \/ \E p \in PageIds : Unused(p) /\ AppendPage(p, NewRev)
       \/ \E v \in versions : Restore(v)
       \/ PurgeStaleDrafts
       \/ Delete
    /\ UNCHANGED <<sessionVars, puts, dropping>>

Init ==
    /\ row \in [state : {"there"}, draft : BOOLEAN, doc : {FirstDoc}]
    /\ versions = {}
    /\ log = <<FirstDoc>>
    /\ times = <<0>>
    /\ mode = [t \in Tabs |-> "away"]
    /\ editor = [e \in Editors |-> NoEditor]
    /\ history = [t \in Tabs |-> NewHistory(IF t \in Editors THEN Blank(None) ELSE FirstDoc)]
    /\ given = [s \in Studios |-> None]
    /\ saved = [t \in Tabs |-> NoDoc]
    /\ isDraft = [t \in Tabs |-> FALSE]
    /\ saving = [t \in Tabs |-> FALSE]
    /\ puts = {}
    /\ dropping = {}
    /\ acts = 0

EditorNext(e) ==
    \/ LoadEditor(e) \/ Edit(e) \/ Save(e) \/ SaveAndLeave(e)
    \/ \E t \in Titles : Retitle(e, t)
    \/ \E i \in 1 .. Len(editor[e].pages) : SwitchPage(e, i) \/ DeletePage(e, i) \/ RestyleElsewhere(e, i)
    \/ \E p \in PageIds : AddPage(e, p) \/ \E i \in 1 .. Len(editor[e].pages) : CopyPage(e, i, p)

StudioNext(s) ==
    \/ LoadStudio(s) \/ SaveStudio(s) \/ SaveAndLeaveStudio(s)
    \/ \E i \in 1 .. Len(Shown(s).pages) : ApplyCard(s, i)
    \/ \E t \in Titles : RetitleStudio(s, t)

TabNext(t) ==
    \/ Open(t) \/ Gone(t) \/ Leave(t) \/ Stay(t) \/ LeaveUnsaved(t) \/ Kill(t)
    \/ Undo(t) \/ Redo(t) \/ Drop(t)

Next ==
    \/ \E t \in Tabs : TabNext(t)
    \/ \E e \in Editors : EditorNext(e)
    \/ \E s \in Studios : StudioNext(s)
    \/ \E p \in puts : Serve(p) \/ Lose(p) \/ Answer(p) \/ Orphan(p)
    \/ Elsewhere

Spec == Init /\ [][Next]_vars

-----------------------------------------------------------------------------
Histories == [states : Seq(Bodies) \cup Seq(Documents), at : Nat]
PutState == [of : Tabs \cup {None}, doc : Documents, auto : BOOLEAN, leave : BOOLEAN,
             reply : {"none", "ok", "taken", "gone", "lost"}, title : Titles]

TypeOK ==
    /\ RowTypeOK
    /\ mode \in [Tabs -> {"away", "loading", "open", "asked", "leaving"}]
    /\ editor \in [Editors -> [pages : Seq(PageIds), current : Nat, aside : [PageIds -> Bodies], title : Titles]]
    /\ history \in [Tabs -> Histories]
    /\ \A t \in Tabs : history[t].at \in 1 .. Len(history[t].states) /\ Len(history[t].states) <= HistoryCap
    /\ \A e \in Editors : history[e].states \in Seq(Bodies) /\ (Mounted(e) => editor[e].current \in DOMAIN editor[e].pages)
    /\ \A s \in Studios : history[s].states \in Seq(Documents)
    /\ given \in [Studios -> Titles \cup {None}]
    /\ saved \in [Tabs -> Documents \cup {NoDoc}]
    /\ isDraft \in [Tabs -> BOOLEAN] /\ saving \in [Tabs -> BOOLEAN]
    /\ puts \subseteq PutState
    /\ dropping \subseteq Tabs
    /\ acts \in 0 .. MaxActs

(* A tab that says nothing is unsaved shows a document the server has      *)
(* held: an edit made while a save was on its way is not taken for saved.   *)
CleanIsStored == \A t \in Tabs : Mounted(t) /\ ~Dirty(t) => Doc(t) \in ToSet(log)

(* Every tab left with "Save and leave" leaves a document the server took. *)
LeavingSaves ==
    [][\A t \in Tabs : mode[t] = "leaving" /\ mode'[t] = "away" /\ acts' = acts =>
          \E p \in puts : p.of = t /\ p.leave /\ Written(p.doc, p.auto) \in ToSet(log)]_vars

(* Turning, adding and copying pages, saving and being answered never      *)
(* change what a page of an editor holds; neither does another tab.        *)
PagesKeepTheirBodies ==
    [][\A e \in Editors :
          /\ mode[e] = "open" /\ mode'[e] = "open"
          /\ acts' = acts \/ editor'[e].current # editor[e].current \/ editor'[e].pages # editor[e].pages
          /\ Len(editor'[e].pages) >= Len(editor[e].pages)
          => \A i \in DOMAIN editor[e].pages : \A j \in DOMAIN editor'[e].pages :
                editor[e].pages[i] = editor'[e].pages[j] => EditorDoc(e).pages[i] = (EditorDoc(e)').pages[j]]_vars

(* The page on screen shows what was made for it, so that a save stores     *)
(* under no page what belongs to another.                                   *)
ScreenShowsItsPage ==
    \A e \in Editors : mode[e] = "open" => Shown(e).page \in {None, editor[e].pages[editor[e].current]}
=============================================================================
