-------------------------- MODULE MCRollupMatching --------------------------
(* A small instance of RollupMatching: sales and returns, by year and item, *)
(* the sales by channel as well.                                            *)
EXTENDS RollupMatching

CONSTANTS sales, returns, date, product, k1

MCJoins == <<ManyToOne(sales, date, k1), ManyToOne(sales, product, k1),
             ManyToOne(returns, date, k1), ManyToOne(returns, product, k1)>>
MCDims == {"year", "item", "channel"}
MCTableOf == [year |-> date, item |-> product, channel |-> sales]
MCMembers == [d \in MCDims |-> {1, 2}]
MCYearDims == {"year"}
MCParts == {"part"}

Plainly(agg, table, col) ==
    [agg |-> agg, table |-> table, col |-> col, num |-> "", den |-> "", orElse |-> 0]
MCDef == [revenue  |-> Plainly("sum", sales, "amount"),
          lines    |-> Plainly("count", sales, "line"),
          returned |-> Plainly("sum", returns, "amount"),
          basket   |-> [Plainly("ratio", sales, "") EXCEPT !.num = "revenue", !.den = "lines"],
          rate     |-> [Plainly("ratio", sales, "") EXCEPT !.num = "returned", !.den = "revenue", !.orElse = 1],
          target   |-> Plainly("live", sales, "amount")]
MCMeasures == DOMAIN MCDef

Sale(y, i, c, amount) ==
    [at |-> [year |-> y, item |-> i, channel |-> c, part |-> y], of |-> [amount |-> amount, line |-> 1]]
Back(y, i, amount) == [at |-> [year |-> y, item |-> i, part |-> y], of |-> [amount |-> amount]]
MCRows == sales :> <<Sale(2, 1, 1, 3), Sale(2, 1, 2, 5), Sale(2, 2, 1, NoValue), Sale(2, 1, 1, 6),
                     Sale(1, 1, 1, 2), Sale(1, 2, 2, 7)>>
          @@ returns :> <<Back(2, 1, 1), Back(1, 2, 0 - 2), Back(2, 1, 4)>>

Widget(id, dims, measures) ==
    [id |-> id, slicer |-> FALSE, drills |-> FALSE, dims |-> dims, by |-> <<>>, measures |-> measures,
     aside |-> {}, own |-> {}, excludes |-> {}, compare |-> FALSE, top |-> {}, having |-> {}, limit |-> 9]
Slicer(id, dim) == [Widget(id, <<dim>>, {}) EXCEPT !.slicer = TRUE]

\* A filter on the revenue.
Rule(op, value) == [of |-> Own("revenue"), op |-> op, value |-> value, upto |-> value]

ThisYear(except) == [In("year", {2}) EXCEPT !.except = except]

\* A slicer, a chart that compares with the year before, means by channel.
Compared ==
    [bar |-> {ThisYear({})},
     pages |-> <<{Slicer(1, "channel"),
                  [Widget(2, <<"channel">>, {<<"revenue", "avg">>, Own("basket")}) EXCEPT !.compare = TRUE]}>>]
\* A drill that leaves the bar alone, next to figures of both facts.
Drilled ==
    [bar |-> {ThisYear({3})},
     pages |-> <<{Slicer(10, "channel"),
                  [Widget(3, <<"year", "item">>, {Own("revenue")}) EXCEPT !.drills = TRUE],
                  Widget(4, <<>>, {Own("revenue"), Own("returned")}), Widget(12, <<>>, {Own("basket")})}>>]
\* A legend, filters on a measure, one with a limit and one the planner leaves
\* to the source, a top and a bottom.
Ranked ==
    [bar |-> {},
     pages |-> <<{[Widget(5, <<"item">>, {Own("revenue")}) EXCEPT !.by = <<"channel">>, !.excludes = {7}],
                  [Widget(6, <<"year">>, {Own("revenue")}) EXCEPT !.having = {Rule("gt", 6)}, !.limit = 1],
                  [Widget(7, <<"item">>, {Own("returned"), Own("revenue")})
                     EXCEPT !.top = {[op |-> "top_n", of |-> Own("returned"), n |-> 1]}],
                  [Widget(13, <<"item", "channel">>, {Own("revenue")})
                     EXCEPT !.having = {Rule("lt", 9), Rule("neq", 2)}, !.excludes = {6, 7}],
                  [Widget(14, <<"channel">>, {Own("revenue")})
                     EXCEPT !.having = {[Rule("between", 3) EXCEPT !.upto = 12]},
                            !.top = {[op |-> "bottom_n", of |-> Own("revenue"), n |-> 1]}],
                  [Widget(15, <<"year">>, {Own("revenue")}) EXCEPT !.having = {Rule("is_not_empty", 0)}]}>>]
\* The same dimensions as that one, and measures no sum makes.
Aside ==
    [bar |-> {},
     pages |-> <<{[Widget(8, <<"item", "channel">>, {Own("target"), Own("rate")}) EXCEPT !.own = {In("year", {1})}]},
                 {[Widget(9, <<>>, {Own("lines")}) EXCEPT !.aside = {Own("target")}]}>>]

MCOffers == {Compared, Drilled, Ranked, Aside}
MCReports == 1..2

\* A bar of one rule that reads a single value.
OfOneYear ==
    [bar |-> {[In("year", {}) EXCEPT !.op = "eq", !.value = 2]},
     pages |-> <<{Widget(11, <<"item">>, {Own("revenue")})}>>]
MCScalarOffers == {OfOneYear}
=============================================================================
