----------------------------- MODULE JoinEditing -----------------------------
(***************************************************************************)
(* The joins of a model being edited: drawn on the diagram, sampled in the *)
(* background, switched and removed by hand, detected by the server and    *)
(* proposed by the assistant.  The server checks an answer against the     *)
(* draft it was sent; the draft goes on changing until the answer is back. *)
(* client/src/components/SchemaCanvas/SchemaCanvas.jsx,                     *)
(* client/src/pages/ModelEditor.jsx, client/src/utils/modelProposal.js.     *)
(***************************************************************************)
EXTENDS JoinGraph

CONSTANTS
    FirstDrafts,  \* the drafts the editor may open on
    Candidates,   \* what a detection may find, before it is checked
    Wishes,       \* what the assistant may ask to add
    FactMarks,    \* the tables that may be marked as facts
    Asks,         \* detections that may be under way together
    MaxJoins,     \* bound on the joins of a draft
    MaxActs       \* bound on the acts of the author

NoAsk == [pc |-> "idle"]
NoCard == [pc |-> "none"]

\* The code sets both sides of a join, or neither.
Drafts == {js \in Seq(Join) : \A i \in DOMAIN js : js[i].fc = "unset" <=> js[i].tc = "unset"}

ASSUME EditingAssumption ==
    /\ FirstDrafts \subseteq Drafts
    /\ Candidates \subseteq Drafts
    /\ Wishes \subseteq Drafts
    /\ MaxJoins \in Nat /\ MaxActs \in Nat

VARIABLES
    joins,     \* the draft
    sampling,  \* joins drawn whose columns are being sampled
    ask,       \* Asks -> the draft sent to a detection, and what it looks at
    card,      \* the proposal of the assistant, and the draft it was checked on
    acts

vars == <<joins, sampling, ask, card, acts>>

Init ==
    /\ joins \in FirstDrafts
    /\ sampling = {}
    /\ ask = [a \in Asks |-> NoAsk]
    /\ card = NoCard
    /\ acts = 0

Act == acts < MaxActs /\ acts' = acts + 1

-----------------------------------------------------------------------------
(* By hand. *)

Draw(a, b, k) ==
    LET j == ManyToOne(a, b, k) IN
    /\ Act
    /\ a # b /\ Len(joins) < MaxJoins
    /\ ~\E i \in DOMAIN joins : SameLink(joins[i], j)
    /\ ~WouldCreateCycle(a, b, joins)
    /\ joins' = Append(joins, j)
    /\ sampling' = sampling \cup {[from |-> a, to |-> b, key |-> k]}
    /\ UNCHANGED <<ask, card>>

\* Each side is "1" or "*" by the sample; a side that cannot be sampled is "*".
SampleArrives(s, fc, tc) ==
    LET drawn == {i \in DOMAIN joins : joins[i].from = s.from /\ joins[i].to = s.to
                                         /\ joins[i].key = s.key} IN
    /\ s \in sampling
    /\ sampling' = sampling \ {s}
    /\ joins' = IF drawn = {} THEN joins
                ELSE [joins EXCEPT ![Min(drawn)].fc = fc, ![Min(drawn)].tc = tc]
    /\ UNCHANGED <<ask, card, acts>>

Flip(c) == IF c = "1" THEN "*" ELSE "1"

\* A join without cardinality is shown, and switched, as many to one.
Toggle(i, side) ==
    LET j == IF joins[i].fc = "unset" THEN [joins[i] EXCEPT !.fc = "*", !.tc = "1"] ELSE joins[i] IN
    /\ Act
    /\ joins' = [joins EXCEPT ![i] = IF side = "from" THEN [j EXCEPT !.fc = Flip(@)]
                                                      ELSE [j EXCEPT !.tc = Flip(@)]]
    /\ UNCHANGED <<sampling, ask, card>>

RemoveJoin(i) ==
    /\ Act
    /\ joins' = RemoveAt(joins, i)
    /\ UNCHANGED <<sampling, ask, card>>

RemoveTable(t) ==
    /\ Act
    /\ joins' = Among(joins, {j \in ToSet(joins) : t \notin Ends(j)})
    /\ UNCHANGED <<sampling, ask, card>>

-----------------------------------------------------------------------------
(* Detection: by the button, greyed while it works, and whenever tables     *)
(* come in.                                                                 *)

Ask(a, candidates, facts) ==
    /\ Act
    /\ ask[a] = NoAsk
    /\ ask' = [ask EXCEPT ![a] = [pc |-> "sent", draft |-> joins,
                                  candidates |-> candidates, facts |-> facts]]
    /\ UNCHANGED <<joins, sampling, card>>

Answer(a) == Detected(ask[a].draft, ask[a].candidates, ask[a].facts)

\* The joins found are added to what the draft has become.
DetectionArrives(a) ==
    /\ ask[a].pc = "sent" /\ ~Answer(a).died
    /\ Len(joins) + Len(Answer(a).added) <= MaxJoins
    /\ joins' = joins \o Answer(a).added
    /\ ask' = [ask EXCEPT ![a] = NoAsk]
    /\ UNCHANGED <<sampling, card, acts>>

\* The handler throws, and nobody answers: the request hangs, and with it the
\* button.
DetectionDies(a) ==
    /\ ask[a].pc = "sent" /\ Answer(a).died
    /\ ask' = [ask EXCEPT ![a] = [pc |-> "hung"]]
    /\ UNCHANGED <<joins, sampling, card, acts>>

-----------------------------------------------------------------------------
(* The assistant: a card checked on the draft sent with the question.       *)

Propose(removed, wish) ==
    LET answer == Proposed(joins, removed, wish) IN
    /\ Act
    /\ card = NoCard
    /\ ~answer.died
    /\ card' = [pc |-> "shown", draft |-> joins, removed |-> removed, added |-> answer.added]
    /\ UNCHANGED <<joins, sampling, ask>>

\* The author may untick lines of the card.
Apply(removed, added) ==
    /\ card.pc = "shown"
    /\ removed \subseteq card.removed /\ ToSet(added) \subseteq ToSet(card.added)
    /\ joins' = Applied(joins, removed, added)
    /\ Len(joins') <= MaxJoins
    /\ card' = NoCard
    /\ UNCHANGED <<sampling, ask, acts>>

ApplyWhole == card.pc = "shown" /\ Apply(card.removed, card.added)
ApplyPart ==
    /\ card.pc = "shown"
    /\ \E removed \in SUBSET card.removed, kept \in SUBSET ToSet(card.added) :
         /\ removed # card.removed \/ kept # ToSet(card.added)
         /\ Apply(removed, Among(card.added, kept))

Dismiss ==
    /\ card.pc = "shown"
    /\ card' = NoCard
    /\ UNCHANGED <<joins, sampling, ask, acts>>

Next ==
    \/ \E a, b \in Tables, k \in Keys : Draw(a, b, k)
    \/ \E s \in sampling, fc, tc \in {"1", "*"} : SampleArrives(s, fc, tc)
    \/ \E i \in DOMAIN joins : Toggle(i, "from") \/ Toggle(i, "to") \/ RemoveJoin(i)
    \/ \E t \in Tables : RemoveTable(t)
    \/ \E a \in Asks :
         \/ \E c \in Candidates, f \in FactMarks : Ask(a, c, f)
         \/ DetectionArrives(a) \/ DetectionDies(a)
    \/ \E removed \in SUBSET ToSet(joins), w \in Wishes :
         Cardinality(removed) <= 1 /\ Propose(removed, w)
    \/ ApplyWhole
    \/ ApplyPart
    \/ Dismiss

Spec == Init /\ [][Next]_vars

-----------------------------------------------------------------------------
(* What the rules mean, apart from how the code checks them.                *)

\* The orders a set of tables can be met in.
Orders(S) == {s \in [1..Cardinality(S) -> S] : ToSet(s) = S}

\* The tables can be lined up so that every join goes forward.
Acyclic(js) ==
    \E line \in Orders(Tables) : \A i, k \in DOMAIN line :
        <<line[i], line[k]>> \in Edges(js) => i < k

\* The paths of a draft, as the joins they take.
Paths(js) ==
    {p \in UNION {[1..n -> DOMAIN js] : n \in 1..Len(js)} :
        \A i \in 1..Len(p) - 1 : Orient(js[p[i]])[2] = Orient(js[p[i + 1]])[1]}
Start(js, p) == Orient(js[p[1]])[1]
Finish(js, p) == Orient(js[p[Len(p)]])[2]

OneWay(js) ==
    LET paths == Paths(js) IN
    \A p, q \in paths : Start(js, p) = Start(js, q) /\ Finish(js, p) = Finish(js, q) => p = q
OneJoinPerPair(js) == \A i, k \in DOMAIN js : Ends(js[i]) = Ends(js[k]) => i = k

Sound(js) == Acyclic(js) /\ OneWay(js) /\ OneJoinPerPair(js)

-----------------------------------------------------------------------------
(* What must hold. *)

\* The shape of the editor's state.
TypeOK ==
    /\ joins \in Drafts
    /\ sampling \subseteq [from : Tables, to : Tables, key : Keys]
    /\ \A a \in Asks : ask[a].pc \in {"idle", "sent", "hung"}
    /\ card.pc \in {"none", "shown"}
    /\ acts \in 0..MaxActs

\* "A set of joins kept to be queried without surprise": whatever order the
\* joins came in, an answer of the server applied to the draft it was made for
\* leaves a sound draft sound, and so does a join refused or drawn: no loop, no
\* second way, one join per pair.
AnswersKeepTheRules ==
    [][\A a \in Asks :
         (DetectionArrives(a) /\ ask[a].draft = joins) \/ (ApplyWhole /\ card.draft = joins)
           => (Sound(joins) => Sound(joins'))]_vars

\* The checks and the queries read the joins alone: they are looked at on the
\* drafts with nothing under way.
Quiet == sampling = {} /\ card = NoCard /\ \A a \in Asks : ask[a].pc # "sent"

\* "A loop is a way back to where one started following the joins many to
\* one", "two ways from one table to another": the checks answer what paths
\* enumerated one by one say, and a draft gets an answer unless it has a loop.
ChecksAreExact == Quiet =>
    /\ \A a, b \in Tables : a # b /\ Acyclic(joins) =>
         \A k \in Keys : LET more == Append(joins, ManyToOne(a, b, k)) IN
            /\ MakesLoop(joins, ManyToOne(a, b, k)) <=> ~Acyclic(more)
            /\ WouldCreateCycle(a, b, joins) <=> ~Acyclic(more)
    /\ Acyclic(joins) => SecondPath(joins) = IF OneWay(joins) THEN "none" ELSE "second"
    /\ SecondPath(joins) = "overflow" => ~Acyclic(joins)

\* "Pull in the intermediate tables": the FROM clause joins every table that
\* some chain of joins links to its root, and leaves out the others alone.
FromIsWhole == Quiet =>
    \A S \in (SUBSET Tables) \ {{}} : \A used \in Orders(S) :
        LET from == FromClause(joins, used)
            root == Head(ByScore(joins, used))
        IN  /\ S \cap Connected(joins, root) \subseteq from.tables
            /\ ToSet(from.left) = S \ Connected(joins, root)

\* The tables a fact's rows are still one each, once the joins are taken.
RowsOnce(js, taken, f) ==
    Reach({<<Other(e[1], e[2]), e[2]>> : e \in {e \in taken \X Tables :
              e[2] \in Ends(e[1]) /\ CardOf(e[2], e[1]) = "1"}}, {f})

\* "Each build query joins exactly one fact and conformed dimensions: no
\* fan-out".
NoFanOut(js, f, dims) ==
    \A used \in Orders({f} \cup dims) :
        LET from == FromClause(js, used) IN
        /\ from.tables \cap RealFacts(js) = {f}
        /\ from.tables = RowsOnce(js, from.joins, f)

AllManyToOne(js) == \A i \in DOMAIN js : {js[i].fc, js[i].tc} = {"1", "*"}
\* The fact comes first whatever the order of the fields.
Leads(js, f, dims) == \A t \in dims : FactScore(js, t) < FactScore(js, f)
\* Two joins away at most.
Near(js, f) == LET step(S) == {e[2] : e \in {e \in Edges(js) : e[1] \in S}}
               IN  step({f}) \cup step(step({f}))

\* On a sound model of many-to-one joins, a query of a fact that has more joins
\* than each of its dimensions, two joins away at most, counts each row once.
NearDimensionsDoNotFanOut ==
    Quiet /\ Sound(joins) /\ AllManyToOne(joins) =>
        \A f \in RealFacts(joins) : \A dims \in SUBSET Near(joins, f) :
            Leads(joins, f, dims) => NoFanOut(joins, f, dims)

\* "Each build query then joins exactly ONE fact (+ conformed dims)".
OneFactPerBuild ==
    Sound(joins) /\ AllManyToOne(joins) =>
        \A f \in RealFacts(joins) : \A dims \in SUBSET Conformed(joins, f) : NoFanOut(joins, f, dims)
=============================================================================
