------------------------------ MODULE JoinGraph ------------------------------
(***************************************************************************)
(* The joins of a model, and what the code reads off them: the checks of   *)
(* server/utils/joinChecks.js and of the diagram, the joins detected       *)
(* (relationships.js) or proposed (ai/modelAssistant.js), the facts and    *)
(* the dimensions conformed to them (rollupPlanning.js), and the FROM      *)
(* clause of a query (sqlBuilder/fromClause.js).                           *)
(*                                                                         *)
(* A draft is a sequence of joins: several of these functions answer by    *)
(* the first join, or the first table, they meet.                          *)
(***************************************************************************)
EXTENDS Naturals, Sequences, SequencesExt, FiniteSetsExt

CONSTANTS
    Tables,
    Keys,     \* the pairs of columns two tables can be joined by
    NoTable

Sides == {"1", "*", "unset"}
Join == [from : Tables, to : Tables, key : Keys, fc : Sides, tc : Sides]

ASSUME GraphAssumption == IsFiniteSet(Tables) /\ NoTable \notin Tables

ManyToOne(a, b, k) == [from |-> a, to |-> b, key |-> k, fc |-> "*", tc |-> "1"]

Ends(j) == {j.from, j.to}
Other(j, t) == IF j.from = t THEN j.to ELSE j.from

-----------------------------------------------------------------------------
(* The checks of a join about to be added. *)

SameLink(a, b) == Ends(a) = Ends(b) /\ a.key = b.key
JoinedPair(js, a, b) == \E i \in DOMAIN js : Ends(js[i]) = {a, b}

\* From the many side to the one side; as drawn when the sides do not say.
Orient(j) == IF j.fc = "1" /\ j.tc = "*" THEN <<j.to, j.from>> ELSE <<j.from, j.to>>
Edges(js) == {Orient(js[i]) : i \in DOMAIN js}

\* The tables that can be walked to from those of S.
Reach(edges, S) ==
    LET after[n \in 0..Cardinality(Tables)] ==
          IF n = 0 THEN S
          ELSE LET near == after[n - 1]
               IN  near \cup {t \in Tables : \E u \in near : <<u, t>> \in edges}
    IN  after[Cardinality(Tables)]

\* Bugs: a loop looked for one join away only, a FROM clause
\* without the tables between, or rooted at the first field's table.
LoopOfTwo(js, added) == <<Orient(added)[2], Orient(added)[1]>> \in Edges(js)
UsedOnly(js, used) == used
AsMet(js, used) == used

MakesLoop(js, added) == Orient(added)[1] \in Reach(Edges(js), {Orient(added)[2]})

\* The diagram's own: the join to come is taken for many to one.
WouldCreateCycle(a, b, js) == a \in Reach(Edges(js), {b})

\* The number of walks between two tables: that of the paths of a draft
\* without a loop, which is what `reach` counts.
Walks(js) ==
    LET upTo[n \in 0..Cardinality(Tables)] ==
          IF n = 0 THEN [p \in Tables \X Tables |-> 0]
          ELSE LET shorter == upTo[n - 1] IN
               [p \in Tables \X Tables |->
                  MapThenSumSet(
                    LAMBDA i : (IF Orient(js[i])[2] = p[2] THEN 1 ELSE 0)
                                 + shorter[<<Orient(js[i])[2], p[2]>>],
                    {i \in DOMAIN js : Orient(js[i])[1] = p[1]})]
    IN  upTo[Cardinality(Tables)]

\* `reach` never returns from a table that leads to a loop.
LeadsToLoop(js, t) ==
    \E u \in Reach(Edges(js), {t}) :
        u \in Reach(Edges(js), {v \in Tables : <<u, v>> \in Edges(js)})

\* The tables are tried in the order of their first join: the first to show a
\* second path, or to lead to a loop, settles the answer.
SecondPath(js) ==
    LET walks == Walks(js)
        twice(t) == \E far \in Tables : walks[<<t, far>>] > 1
        stops == {i \in DOMAIN js : LET t == Orient(js[i])[1] IN LeadsToLoop(js, t) \/ twice(t)}
    IN  IF stops = {} THEN "none"
        ELSE IF LeadsToLoop(js, Orient(js[Min(stops)])[1]) THEN "overflow" ELSE "second"

-----------------------------------------------------------------------------
(* The joins the server adds to a draft.  A refusal leaves the draft as it  *)
(* is; an endless recursion ends the whole answer.                          *)

Try(acc, j) ==
    LET path == SecondPath(Append(acc.joins, j)) IN
    CASE path = "overflow" -> [acc EXCEPT !.died = TRUE]
      [] path = "second"   -> acc
      [] path = "none"     -> [acc EXCEPT !.joins = Append(@, j), !.added = Append(@, j)]

Nothing(js) == [joins |-> js, added |-> <<>>, died |-> FALSE]

\* Bug: each candidate is checked against the draft alone.
DetectedApart(js, candidates, facts) ==
    LET kept == SelectSeq(candidates, LAMBDA j :
                  /\ ~JoinedPair(js, j.from, j.to) /\ j.to \notin facts /\ ~MakesLoop(js, j)
                  /\ SecondPath(Append(js, j)) = "none")
    IN  [joins |-> js \o kept, added |-> kept, died |-> FALSE]

\* `facts`: the tables marked as facts, which nothing points at.
Detected(js, candidates, facts) ==
    FoldLeft(
        LAMBDA acc, j :
            IF acc.died \/ JoinedPair(acc.joins, j.from, j.to) \/ j.to \in facts
               \/ MakesLoop(acc.joins, j)
              THEN acc ELSE Try(acc, j),
        Nothing(js), candidates)

\* Each removal takes the first join of its columns.
Without(js, removed) ==
    FoldSet(LAMBDA r, acc : RemoveAt(acc, Min({i \in DOMAIN acc : SameLink(acc[i], r)})), js, removed)

\* A proposal: the joins it removes first, then those it adds, whatever the
\* marks on the tables.
Proposed(js, removed, added) == Detected(Without(js, removed), added, {})

\* What a sequence has among some, in its order.
Among(js, some) ==
    FoldLeft(LAMBDA acc, j : IF j \in some THEN Append(acc, j) ELSE acc, <<>>, js)

\* What the editor makes of a card: whatever the draft has become.
Applied(js, removed, added) ==
    FoldLeft(
        LAMBDA acc, j : IF \E i \in DOMAIN acc : SameLink(acc[i], j) THEN acc ELSE Append(acc, j),
        Among(js, {j \in ToSet(js) : ~\E r \in removed : SameLink(j, r)}), added)

-----------------------------------------------------------------------------
(* Facts, and the dimensions each can be grouped by. *)

ManySides(js) ==
    {js[i].from : i \in {i \in DOMAIN js : js[i].fc = "*"}} \cup
    {js[i].to : i \in {i \in DOMAIN js : js[i].tc \in {"*", "unset"}}}
OneSides(js) ==
    {js[i].from : i \in {i \in DOMAIN js : js[i].fc \in {"1", "unset"} /\ js[i].tc # "1"}} \cup
    {js[i].to : i \in {i \in DOMAIN js : js[i].tc = "1" /\ js[i].fc = "*"}}
RealFacts(js) == ManySides(js) \ OneSides(js)

\* A join nobody set the sides of goes from a dimension to a fact.
CardOf(t, j) ==
    CASE j.fc # "unset" -> IF t = j.to THEN j.tc ELSE j.fc
      [] j.fc = "unset" -> IF t = j.to THEN "*" ELSE "1"

\* Joins walked towards a one side only, never into a fact.
Conformed(js, f) ==
    LET steps == {<<Other(js[i], t), t>> : i \in DOMAIN js, t \in Tables}
        safe == {e \in steps : \E i \in DOMAIN js :
                   Ends(js[i]) = {e[1], e[2]} /\ CardOf(e[2], js[i]) = "1"}
    IN  Reach({e \in safe : e[2] \notin RealFacts(js)}, {f}) \ {f}

Connected(js, t) ==
    Reach(UNION {{<<js[i].from, js[i].to>>, <<js[i].to, js[i].from>>} : i \in DOMAIN js}, {t})

-----------------------------------------------------------------------------
(* The FROM clause.  `used`: the tables of the fields, in the order the     *)
(* compiler met them.                                                       *)

FactScore(js, t) == Cardinality({i \in DOMAIN js : \/ js[i].fc = "*" /\ js[i].from = t
                                                   \/ js[i].tc = "*" /\ js[i].to = t})

\* The highest score first, and as met among equals.
ByScore(js, used) ==
    FoldLeft(
        LAMBDA acc, t :
            LET before == {i \in DOMAIN acc : FactScore(js, acc[i]) >= FactScore(js, t)}
            IN  InsertAt(acc, Cardinality(before) + 1, t),
        <<>>, used)

Neighbours(js, t) ==
    FoldLeft(LAMBDA acc, j : IF t \in Ends(j) /\ ~Contains(acc, Other(j, t))
                               THEN Append(acc, Other(j, t)) ELSE acc,
             <<>>, js)

\* Breadth first from the root: each table's parent on the way back.
Parents(js, root) ==
    LET visit[n \in 0..Cardinality(Tables)] ==
          IF n = 0 THEN [queue |-> <<root>>, parent |-> [t \in {root} |-> NoTable]]
          ELSE LET was == visit[n - 1] IN
               IF was.queue = <<>> THEN was
               ELSE LET cur == Head(was.queue)
                        new == Among(Neighbours(js, cur), Tables \ DOMAIN was.parent)
                    IN  [queue |-> Tail(was.queue) \o new,
                         parent |-> [t \in DOMAIN was.parent \cup ToSet(new) |->
                                       IF t \in ToSet(new) THEN cur ELSE was.parent[t]]]
    IN  visit[Cardinality(Tables)].parent

\* The tables between `t` and the root.
Bridges(parent, root, t) ==
    LET up[n \in 0..Cardinality(Tables)] ==
          IF n = 0 THEN <<parent[t]>>
          ELSE LET was == up[n - 1] IN
               IF Last(was) \in {root, NoTable} THEN was ELSE Append(was, parent[Last(was)])
    IN  Among(up[Cardinality(Tables)], Tables \ {root})

TableList(js, used) ==
    LET sorted == ByScore(js, used)
        root == Head(sorted)
        parent == Parents(js, root)
    IN  FoldLeft(LAMBDA acc, t : acc \o Among(IF t \in DOMAIN parent THEN Bridges(parent, root, t) ELSE <<>>,
                                              Tables \ ToSet(acc)),
                 sorted, sorted)

\* The first table left that some join links to the FROM clause, by the first
\* join that does; the tables left when there is none are unreachable.
FromClause(js, used) ==
    LET list == TableList(js, used)
        linksTo(t, added) == {i \in DOMAIN js : t \in Ends(js[i]) /\ Other(js[i], t) \in added}
        take[n \in 0..Len(list) - 1] ==
          IF n = 0 THEN [tables |-> {Head(list)}, joins |-> {}, left |-> Tail(list)]
          ELSE LET was == take[n - 1]
                   ready == {k \in DOMAIN was.left : linksTo(was.left[k], was.tables) # {}}
               IN  IF ready = {} THEN was
                   ELSE LET t == was.left[Min(ready)] IN
                        [tables |-> was.tables \cup {t},
                         joins |-> was.joins \cup {js[Min(linksTo(t, was.tables))]},
                         left |-> RemoveAt(was.left, Min(ready))]
    IN  take[Len(list) - 1]
=============================================================================
