--------------------------- MODULE RollupMatching ---------------------------
(***************************************************************************)
(* Which rollups are built for the saved reports of a model, and which of  *)
(* them answers a query, with what figures: the plan and the manifest of   *)
(* server/utils/rollupBuilder.js and rollupPlanning.js, the components of  *)
(* a measure (measureType/plan.js), the queries a visual sends             *)
(* (client/src/utils/widgetQueryPayload.js), and the planner that answers  *)
(* them or leaves them to the source (server/utils/rollupPlanner.js).      *)
(*                                                                         *)
(* The data does not change here, and a build is one step: RollupStore has *)
(* the rest.  What a table holds follows from its row and the data.        *)
(***************************************************************************)
EXTENDS JoinGraph

CONSTANTS
    Joins,     \* the joins of the model
    Dims, TableOf,
    Members,   \* Dims -> what a reader can pick
    YearDims,  \* dimensions a comparison with the year before shifts
    Parts,     \* the year and month an incremental model adds, or none
    DateTable,
    Measures,
    Def,       \* Measures -> what each aggregates
    Rows,      \* fact -> its rows: where each is in the dimensions, its columns
    Reports,   \* 1..n, in the order the plan reads them
    Offers,    \* what may be saved as a report
    NoReport, NoValue,
    MaxActs    \* bound on the saves and builds

VARIABLES
    reports,  \* Reports -> the report saved, or NoReport
    rollups,  \* the manifest, each row with the table it names
    whole,    \* the last build was of these reports, and nothing failed
    gen,      \* generation of the last build
    acts

vars == <<reports, rollups, whole, gen, acts>>

-----------------------------------------------------------------------------
(* Facts and the dimensions each can be grouped by (see JoinGraph). *)

\* A fact, or a table no join can multiply.
Rollable(f) == f \in RealFacts(Joins) \/ (\A i \in DOMAIN Joins : f \notin Ends(Joins[i]))
Tied(f, t) == t = f \/ (f \in RealFacts(Joins) /\ t \in Conformed(Joins, f))

ConformedDims == [f \in Tables |-> {d \in Dims : Tied(f, TableOf[d])}]
PartsFor == [f \in Tables |-> IF Tied(f, DateTable) THEN Parts ELSE {}]

-----------------------------------------------------------------------------
(* Measures.  A widget asks for <<name, aggregation>>: the model's own, or  *)
(* the one it overrides it with.                                            *)

EffectiveDef(e) == [Def[e[1]] EXCEPT !.agg = e[2]]
Own(m) == <<m, Def[m].agg>>

Additive == {"sum", "count", "min", "max"}
Plain(d) == d.agg \in Additive \cup {"avg"}

\* What has a sum, a count or an extreme to be made of.  A measure that drops
\* filters, or counts distinct values without sketches, has not.
Decomposes(d) == Plain(d) \/ (d.agg = "ratio" /\ Plain(Def[d.num]) /\ Plain(Def[d.den]))

Components(d) ==
    IF d.agg = "avg" THEN {[agg |-> "sum", col |-> d.col], [agg |-> "count", col |-> d.col]}
    ELSE {[agg |-> d.agg, col |-> d.col]}

Atoms(d) ==
    CASE ~Decomposes(d) -> {}
      [] Plain(d)       -> Components(d)
      [] OTHER          -> Components(Def[d.num]) \cup Components(Def[d.den])

FactsForMeasure(d) == IF d.agg = "ratio" THEN {Def[d.num].table, Def[d.den].table} ELSE {d.table}

\* Hundredths, cut: both sides divide the same totals.  A denominator of zero
\* is replaced by what its guard says, if it has one.
Quotient(n, d, orElse) ==
    IF NoValue \in {n, d} THEN NoValue
    ELSE IF d # 0 THEN (100 * n) \div d
    ELSE IF orElse = 0 THEN NoValue ELSE (100 * n) \div orElse

\* Bug: the sum of the means' numerators is taken for the mean.
RecomposeUndivided(d, value) == value[[agg |-> IF d.agg = "avg" THEN "sum" ELSE d.agg, col |-> d.col]]

RecomposePlain(d, value) ==
    IF d.agg = "avg"
      THEN Quotient(value[[agg |-> "sum", col |-> d.col]], value[[agg |-> "count", col |-> d.col]], 0)
      ELSE value[[agg |-> d.agg, col |-> d.col]]

RecomposeMeasure(d, value) ==
    IF d.agg = "ratio"
      THEN Quotient(RecomposePlain(Def[d.num], value), RecomposePlain(Def[d.den], value), d.orElse)
      ELSE RecomposePlain(d, value)

-----------------------------------------------------------------------------
(* Filter rules.  A list of values is there whatever the operator. *)

Meets(at, rule) == IF rule.op = "in" THEN at[rule.field] \in rule.values ELSE at[rule.field] = rule.value
MeetsAll(at, rules) == \A r \in rules : Meets(at, r)

\* What of a rule goes into the hash of a selection: the list, and not the
\* single value an operator such as "eq" reads.
Normal(rule) == [field |-> rule.field, op |-> rule.op, values |-> rule.values]
BaseFilter(rules) == {Normal(r) : r \in rules}

RulesFor(bar, w) == {r \in bar : w.id \notin r.except}

\* A year before: the list of a rule of a year dimension.
Shifted(rules) ==
    {IF r.field \in YearDims THEN [r EXCEPT !.values = {v - 1 : v \in @}] ELSE r : r \in rules}

-----------------------------------------------------------------------------
(* The plan. *)

Shown(w) == ToSet(w.dims) \cup ToSet(w.by)

CrossFilterDims(page, w) ==
    UNION {IF s.slicer THEN ToSet(s.dims) ELSE Shown(s) : s \in {s \in page : s # w /\ w.id \notin s.excludes}}

\* What the levels of a drill ask for is together what the widget shows.
GrainsFor(page, w) == Shown(w) \cup CrossFilterDims(page, w) \cup {r.field : r \in w.own}

Widgets(r) == UNION ToSet(r.pages)
PageOf(r, w) == CHOOSE page \in ToSet(r.pages) : w \in page

PlannedMeasures(r, f) ==
    {e \in UNION {w.measures : w \in Widgets(r)} : FactsForMeasure(EffectiveDef(e)) = {f} /\ Rollable(f)}

\* Bug: the slice of the year before is left to the source.
SelectionsThisYear(r, w) == {RulesFor(r.bar, w)}

\* The selections the tables of a widget are baked for.
Selections(r, w) == {RulesFor(r.bar, w), Shifted(RulesFor(r.bar, w))}

\* One table per selection and fact, for all the widgets of the report.
ItemsOf(r) ==
    LET selections == UNION {Selections(r, w) : w \in Widgets(r)}
        baked(w) == {BaseFilter(s) : s \in Selections(r, w)}
        dims(base) == UNION {GrainsFor(PageOf(r, w), w) : w \in {w \in Widgets(r) : base \in baked(w)}}
    IN  {[grain |-> (dims(base) \cap ConformedDims[f]) \cup PartsFor[f], base |-> base, fact |-> f,
          rules |-> CHOOSE s \in selections : BaseFilter(s) = base,
          measures |-> PlannedMeasures(r, f)] :
            base \in {BaseFilter(s) : s \in selections},
            f \in {f \in Tables : PlannedMeasures(r, f) # {}}}

Key(item) == <<item.grain, item.base, item.fact>>

\* Of two reports that need the same key, the first one's measures are built.
Plan ==
    LET saved == {i \in Reports : reports[i] # NoReport}
        keys(i) == {Key(item) : item \in ItemsOf(reports[i])}
    IN  UNION {{item \in ItemsOf(reports[i]) : \A j \in saved : j < i => Key(item) \notin keys(j)} : i \in saved}

ItemAtoms(item) == UNION {Atoms(EffectiveDef(e)) : e \in item.measures}

\* The rows say where they are in what their fact is tied to, and the rules
\* of a bar are on dimensions every fact is tied to.
ASSUME MatchingAssumption ==
    /\ \A f \in DOMAIN Rows : \A k \in DOMAIN Rows[f] : DOMAIN Rows[f][k].at = ConformedDims[f] \cup PartsFor[f]
    /\ \A r \in Offers : \A rule \in r.bar : \A f \in DOMAIN Rows : rule.field \in ConformedDims[f]

-----------------------------------------------------------------------------
(* The build: the rows of a fact in the selection baked, by cell. *)

Picked(f, rules) == {k \in DOMAIN Rows[f] : MeetsAll(Rows[f][k].at, rules)}

\* SUM, COUNT, MIN and MAX pass over what is null.
Total(a, f, ks) ==
    LET some == {k \in ks : Rows[f][k].of[a.col] # NoValue}
        value(k) == Rows[f][k].of[a.col]
    IN  CASE a.agg = "count" -> Cardinality(some)
          [] a.agg # "count" /\ some = {} -> NoValue
          [] a.agg = "sum" /\ some # {} -> MapThenSumSet(value, some)
          [] a.agg = "min" /\ some # {} -> Min({value(k) : k \in some})
          [] a.agg = "max" /\ some # {} -> Max({value(k) : k \in some})

\* One cell for the whole when nothing is grouped by, rows or not.
Cells(f, ks, grain) ==
    IF grain = {} THEN {<<>>} ELSE {Restrict(Rows[f][k].at, grain) : k \in ks}
Within(f, ks, cell) == {k \in ks : \A d \in DOMAIN cell : Rows[f][k].at[d] = cell[d]}

TableFor(item) ==
    LET ks == Picked(item.fact, item.rules) IN
    {[at |-> cell,
      value |-> [a \in ItemAtoms(item) |-> Total(a, item.fact, Within(item.fact, ks, cell))]] :
        cell \in Cells(item.fact, ks, item.grain)}

\* What has nothing to store is skipped.  A failure keeps the row of its key
\* only if it is of the same outputs; rows no report needs any more go as
\* soon as something was built.
Build(failed) ==
    LET due == {item \in Plan : ItemAtoms(item) # {}}
        done == due \ failed
        kept == {row \in rollups :
                   /\ Key(row) \notin {Key(item) : item \in done}
                   /\ done # {} => Key(row) \in {Key(item) : item \in Plan}
                   /\ \A item \in failed : Key(item) = Key(row) => item.measures = row.outs}
    IN  /\ acts < MaxActs /\ acts' = acts + 1
        /\ failed \subseteq due
        /\ rollups' = kept \cup {[grain |-> item.grain, base |-> item.base, fact |-> item.fact,
                                  outs |-> item.measures, table |-> TableFor(item),
                                  gen |-> gen + 1] : item \in done}
        /\ whole' = (failed = {})
        /\ gen' = gen + 1
        /\ UNCHANGED reports

\* A report is saved over, or deleted.
Save(i, r) ==
    /\ acts < MaxActs /\ acts' = acts + 1
    /\ reports[i] # r
    /\ reports' = [reports EXCEPT ![i] = r]
    /\ whole' = FALSE
    /\ UNCHANGED <<rollups, gen>>

Init ==
    /\ reports = [i \in Reports |-> NoReport]
    /\ rollups = {} /\ whole = FALSE /\ gen = 0 /\ acts = 0

Next ==
    \/ \E i \in Reports, r \in Offers \cup {NoReport} : Save(i, r)
    \/ Build({})
    \/ \E item \in Plan : Build({item})

Spec == Init /\ [][Next]_vars

-----------------------------------------------------------------------------
(* The queries of a visual, whatever its reader has clicked: values of the  *)
(* dimensions the other visuals of its page offer, a level of its drill,    *)
(* the rules of the bar as he left them.                                    *)

Drills(w) == w.drills /\ Len(w.dims) > 1
Levels(w) == IF Drills(w) THEN DOMAIN w.dims ELSE {1}
AxisAt(w, level) == IF Drills(w) THEN <<w.dims[level]>> ELSE w.dims
Ancestors(w, level) == IF Drills(w) THEN {w.dims[k] : k \in 1..level - 1} ELSE {}

\* A slicer offers its first dimension.
Clickable(page, w) ==
    UNION {IF s.slicer THEN {s.dims[1]} ELSE Shown(s) : s \in {s \in page : s # w /\ w.id \notin s.excludes}}

In(field, values) == [field |-> field, op |-> "in", values |-> values, value |-> NoValue, except |-> {}]

\* At most one value of each dimension; an ancestor of a drill has one.
Picks(clickable, ancestors) ==
    {{In(d, {pick[d]}) : d \in {d \in DOMAIN pick : pick[d] # NoValue}} :
        pick \in {pick \in [clickable \cup ancestors -> UNION {Members[d] : d \in Dims} \cup {NoValue}] :
                    /\ \A d \in DOMAIN pick : pick[d] \in Members[d] \cup {NoValue}
                    /\ \A d \in ancestors : pick[d] # NoValue}}

Changed(rule) ==
    IF rule.op = "in" THEN {[rule EXCEPT !.values = vs] : vs \in SUBSET Members[rule.field]}
    ELSE {[rule EXCEPT !.value = v] : v \in Members[rule.field]}
Bars(bar) ==
    {{f[rule] : rule \in bar} :
        f \in {f \in [bar -> UNION {Changed(rule) : rule \in bar}] : \A rule \in bar : f[rule] \in Changed(rule)}}

\* sanitizeWidgetFilters: a list without values is not sent.
Sent(rules) == {r \in rules : r.op = "in" => r.values # {}}

\* The main query; that of the year before, of a visual that compares; the
\* total next to a top; the list of a slicer.
Questions(r, w, bar) ==
    LET rules == RulesFor(bar, w) \cup w.own
        asked == w.measures \cup w.aside
        main(level, picks) ==
            [dims |-> AxisAt(w, level) \o w.by, xgrain |-> w.by # <<>> /\ w.having # {},
             measures |-> asked, rules |-> Sent(rules), filters |-> picks,
             top |-> w.top, having |-> w.having, limit |-> w.limit]
        mains == UNION {{main(level, picks) : picks \in Picks(Clickable(PageOf(r, w), w), Ancestors(w, level))} :
                          level \in Levels(w)}
    IN  IF w.slicer
          THEN {[main(1, {}) EXCEPT !.dims = <<w.dims[1]>>]}
          ELSE mains
               \cup (IF w.compare
                       THEN {[q EXCEPT !.rules = Sent(Shifted(rules)), !.filters = Shifted(@), !.top = {},
                                       !.xgrain = FALSE] : q \in mains}
                       ELSE {})
               \cup {[q EXCEPT !.dims = <<>>, !.measures = {t.of : t \in q.top}, !.top = {}, !.limit = 1] :
                       q \in {q \in mains : q.top # {}}}

-----------------------------------------------------------------------------
(* The planner.  `bar` is that of the report as saved: a rule sent is one   *)
(* of its own when it has the field and the operator of one of them.        *)

Global(q, bar) == {r \in q.rules : \E b \in bar : b.field = r.field /\ b.op = r.op}
Runtime(q, bar) == (q.rules \ Global(q, bar)) \cup q.filters
Fields(rules) == {r.field : r \in rules}

Facts(q) == UNION {FactsForMeasure(Def[e[1]]) : e \in q.measures}

\* The dimensions some rollup of the fact has.
Universe(f) == UNION {row.grain : row \in {row \in rollups : row.fact = f}}

\* Filters on the others are not looked for in its grain.
Allowed(f, runtime) ==
    IF Universe(f) = {} THEN Fields(runtime) ELSE Fields(runtime) \cap Universe(f)

Smallest(rows) == {row \in rows : \A other \in rows : Cardinality(row.table) <= Cardinality(other.table)}

\* Whatever its measures: of two as small, either.
FindBestRollup(f, wanted, base) ==
    LET ofBase == {row \in rollups : row.fact = f /\ row.base = base}
        exact == {row \in ofBase : row.grain = wanted}
    IN  IF exact # {} THEN exact ELSE Smallest({row \in ofBase : wanted \subseteq row.grain})

\* The rollups a query may be answered from, one for each of its facts.
Found(q, bar) ==
    LET best == [f \in Facts(q) |->
                   FindBestRollup(f, ToSet(q.dims) \cup Allowed(f, Runtime(q, bar)),
                                  BaseFilter(Global(q, bar)))]
    IN  {found \in [Facts(q) -> rollups] : \A f \in Facts(q) : found[f] \in best[f]}

\* Bug: a filter a rollup has no column for is passed over.
NothingLeftOut(f, runtime) == TRUE

\* A filter on what no rollup of the fact has is for the source.
AllTaken(f, runtime) == Fields(runtime) \subseteq Allowed(f, runtime)

\* The comparisons the planner makes itself.
HavingOps == {"eq", "neq", "gt", "gte", "lt", "lte", "between"}
Holds(h, n) ==
    CASE h.op = "eq"  -> n = h.value
      [] h.op = "neq" -> n # h.value
      [] h.op = "gt"  -> n > h.value
      [] h.op = "gte" -> n >= h.value
      [] h.op = "lt"  -> n < h.value
      [] h.op = "lte" -> n <= h.value
      [] h.op = "between" -> h.value <= n /\ n <= h.upto

Served(q, bar, found) ==
    /\ q.measures # {} /\ ~q.xgrain
    /\ \A e \in q.measures : Cardinality(FactsForMeasure(Def[e[1]])) = 1
    /\ \A e \in q.measures, f \in Facts(q) :
         f \in FactsForMeasure(Def[e[1]]) => e \in found[f].outs /\ Decomposes(EffectiveDef(e))
    /\ \A f \in Facts(q) : AllTaken(f, Runtime(q, bar))
    /\ Cardinality({found[f].gen : f \in Facts(q)}) = 1
    /\ \A h \in q.having : h.of \in q.measures /\ h.op \in HavingOps

Combined(a, cells) ==
    LET some == {c.value[a] : c \in cells} \ {NoValue} IN
    CASE some = {} -> NoValue
      [] some # {} /\ a.agg \in {"sum", "count"} ->
           MapThenSumSet(LAMBDA c : c.value[a], {c \in cells : c.value[a] # NoValue})
      [] some # {} /\ a.agg = "min" -> Min(some)
      [] some # {} /\ a.agg = "max" -> Max(some)

\* Grouped by fact, then joined on the dimensions: a fact without a row for
\* a group leaves its measures null.
Joined(q, bar, found) ==
    LET taken(f) == {c \in found[f].table :
                       \A r \in Runtime(q, bar) : r.field \in Allowed(f, Runtime(q, bar)) => Meets(c.at, r)}
        groups(f) == IF q.dims = <<>> THEN {<<>>} ELSE {Restrict(c.at, ToSet(q.dims)) : c \in taken(f)}
        under(f, group) == {c \in taken(f) : \A d \in ToSet(q.dims) : c.at[d] = group[d]}
        value(e, group) ==
            LET f == CHOOSE f \in Facts(q) : f \in FactsForMeasure(Def[e[1]]) IN
            IF group \in groups(f)
              THEN RecomposeMeasure(EffectiveDef(e),
                     [a \in Atoms(EffectiveDef(e)) |-> Combined(a, under(f, group))])
              ELSE NoValue
    IN  {[at |-> group, out |-> [e \in q.measures |-> value(e, group)]] :
           group \in UNION {groups(f) : f \in Facts(q)}}

Before(dims, a, b) ==
    \E k \in DOMAIN dims : a[dims[k]] < b[dims[k]] /\ \A j \in 1..k - 1 : a[dims[j]] = b[dims[j]]
FirstRows(rows, dims, n) == {r \in rows : Cardinality({s \in rows : Before(dims, s.at, r.at)}) < n}

\* Number(null) is zero, here and in the order of a top.
Zeroed(v) == IF v = NoValue THEN 0 ELSE v
Passing(rows, having) == {r \in rows : \A h \in having : Holds(h, Zeroed(r.out[h.of]))}

Leads(t, m, n) == IF t.op = "top_n" THEN m > n ELSE m < n

\* What ties is left in the order of the dimensions.
TopRows(rows, dims, t) ==
    LET rank(r) == Zeroed(r.out[t.of])
        ahead(s, r) == Leads(t, rank(s), rank(r)) \/ (rank(s) = rank(r) /\ Before(dims, s.at, r.at))
    IN  {r \in rows : Cardinality({s \in rows : ahead(s, r)}) < t.n}

\* Bug: the rows are limited before they are filtered or ranked.
LimitedFirst(q, rows) ==
    LET kept == Passing(FirstRows(rows, q.dims, q.limit), q.having) IN
    IF q.top = {} THEN kept ELSE UNION {TopRows(kept, q.dims, t) : t \in q.top}

\* The limit comes last, and a top stands for it.
Limited(q, rows) ==
    LET kept == Passing(rows, q.having) IN
    IF q.top = {} THEN FirstRows(kept, q.dims, q.limit) ELSE UNION {TopRows(kept, q.dims, t) : t \in q.top}

\* tryServeFromRollup
Answer(q, bar, found) == Limited(q, Joined(q, bar, found))

\* tryServeSlicerDistinct: from the smallest table of the selection that has
\* the dimension, whatever its fact, the rules that are not baked among it.
SlicerRollups(q, bar) ==
    {row \in Smallest({row \in rollups : row.base = BaseFilter(Global(q, bar)) /\ q.dims[1] \in row.grain}) :
        Fields(Runtime(q, bar)) \subseteq row.grain}
SlicerAnswer(q, bar, row) == {c.at[q.dims[1]] : c \in {c \in row.table : MeetsAll(c.at, Runtime(q, bar))}}

-----------------------------------------------------------------------------
(* The source itself: the same query over the rows of the facts. *)

LivePlain(d, ks) ==
    IF d.agg = "avg"
      THEN Quotient(Total([agg |-> "sum", col |-> d.col], d.table, ks),
                    Total([agg |-> "count", col |-> d.col], d.table, ks), 0)
      ELSE Total([agg |-> d.agg, col |-> d.col], d.table, ks)
LiveValue(d, ks) ==
    IF d.agg = "ratio" THEN Quotient(LivePlain(Def[d.num], ks), LivePlain(Def[d.den], ks), d.orElse)
    ELSE LivePlain(d, ks)

\* A filter on a dimension the fact does not reach is not its to answer.
LivePicked(f, q) == Picked(f, {r \in q.rules \cup q.filters : r.field \in ConformedDims[f]})

LiveRows(q) ==
    LET picked(f) == LivePicked(f, q)
        groups(f) == Cells(f, picked(f), ToSet(q.dims))
        value(e, group) ==
            LET f == CHOOSE f \in Facts(q) : f \in FactsForMeasure(Def[e[1]]) IN
            IF group \in groups(f) THEN LiveValue(EffectiveDef(e), Within(f, picked(f), group)) ELSE NoValue
    IN  {[at |-> group, out |-> [e \in q.measures |-> value(e, group)]] :
           group \in UNION {groups(f) : f \in Facts(q)}}

\* HAVING, where no comparison of a null holds.
LivePassing(q) ==
    {r \in LiveRows(q) : \A h \in q.having : r.out[h.of] # NoValue /\ Holds(h, r.out[h.of])}

\* A top is one of the sets of n rows that none of the others beats; what is
\* null comes last.
IsLive(q, answer) ==
    LET kept == LivePassing(q)
        beats(s, r, t) ==
            s.out[t.of] # NoValue /\ (r.out[t.of] = NoValue \/ Leads(t, s.out[t.of], r.out[t.of]))
    IN  IF q.top = {} THEN answer = FirstRows(kept, q.dims, q.limit)
        ELSE \A t \in q.top :
               /\ answer \subseteq kept /\ Cardinality(answer) = Min({t.n, Cardinality(kept)})
               /\ \A r \in answer, s \in kept \ answer : ~beats(s, r, t)

-----------------------------------------------------------------------------
(* Properties. *)

Asked(i) == {<<w, bar>> \in Widgets(reports[i]) \X Bars(reports[i].bar) : TRUE}

\* The aggregates of no row at all: a count is zero at the source and null
\* in what a rollup sums.
SomeRow(q) == q.dims # <<>> \/ \A f \in Facts(q) : LivePicked(f, q) # {}

\* Where a missing figure meets no rule that zero passes, and no top in which
\* zero leads a figure, a planner that takes it for zero does no harm.
ZeroTells(q) ==
    LET missing(of, rows) == \E r \in rows : r.out[of] = NoValue IN
    /\ \A h \in q.having : h.op \in HavingOps /\ (Holds(h, 0) => ~missing(h.of, LiveRows(q)))
    /\ \A t \in q.top : missing(t.of, LivePassing(q)) =>
         \A r \in LivePassing(q) : r.out[t.of] # NoValue => Leads(t, r.out[t.of], 0)

AnsweredLive(q, bar) ==
    \A found \in Found(q, bar) : Served(q, bar, found) => IsLive(q, Answer(q, bar, found))

\* Whatever was saved, built or failed before, and whatever its reader has
\* picked, a query a rollup answers has the answer of the source: the right
\* selection, no filter lost, means and ratios of the totals, filters on
\* measures before limits and tops, as long as no missing figure is tested or
\* ranked in place of a zero; and a slicer offers what some fact of its
\* dimension has.
AnswersAreLive ==
    \A i \in {i \in Reports : reports[i] # NoReport} :
    \A asked \in Asked(i) :
    \A q \in Questions(reports[i], asked[1], asked[2]) :
        IF asked[1].slicer
          THEN \A row \in SlicerRollups(q, reports[i].bar) :
                 \E f \in DOMAIN Rows :
                   /\ q.dims[1] \in ConformedDims[f]
                   /\ SlicerAnswer(q, reports[i].bar, row)
                        = {Rows[f][k].at[q.dims[1]] : k \in LivePicked(f, q)}
          ELSE SomeRow(q) /\ ZeroTells(q) => AnsweredLive(q, reports[i].bar)

\* What the plan is for: measures a sum can be made of, each of one fact,
\* over dimensions of that fact, and nothing asked that is not planned.
Cacheable(q, w) ==
    /\ w.aside = {} /\ ~q.xgrain /\ \A h \in q.having : h.of \in q.measures /\ h.op \in HavingOps
    /\ \A e \in q.measures : Decomposes(EffectiveDef(e)) /\ Cardinality(FactsForMeasure(Def[e[1]])) = 1
    /\ \A f \in Facts(q) :
         Rollable(f) /\ ToSet(q.dims) \cup Fields(q.filters) \cup Fields(w.own) \subseteq ConformedDims[f]

\* After a whole build of the one report there is, every query of it that
\* can be cached is answered from a rollup, with whatever is picked on its
\* page and drilled into, and for the year before as well, as long as the
\* bar is as it was saved.
WidgetsAreServed ==
    \A i \in Reports :
    (whole /\ {j \in Reports : reports[j] # NoReport} = {i}) =>
      \A w \in {w \in Widgets(reports[i]) : ~w.slicer} :
      \A q \in {q \in Questions(reports[i], w, reports[i].bar) : Cacheable(q, w)} :
        /\ Found(q, reports[i].bar) # {}
        /\ \A found \in Found(q, reports[i].bar) : Served(q, reports[i].bar, found)

-----------------------------------------------------------------------------
(* What the code says of itself, and does not do. *)

\* "A NULL aggregate makes every comparison UNKNOWN, so the row is excluded"
\* (numericHavingMatch): a filter on a measure keeps what HAVING keeps.
MissingIsExcluded ==
    \A i \in {i \in Reports : reports[i] # NoReport} :
    \A asked \in {asked \in Asked(i) : ~asked[1].slicer} :
    \A q \in Questions(reports[i], asked[1], asked[2]) :
        SomeRow(q) /\ q.top = {} => AnsweredLive(q, reports[i].bar)
=============================================================================
