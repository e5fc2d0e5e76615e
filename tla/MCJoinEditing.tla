---------------------------- MODULE MCJoinEditing ----------------------------
(* Small instances of JoinEditing. *)
EXTENDS JoinEditing

CONSTANTS t1, t2, t3, t4, k1, sales, returns, customer, product, country, segment

Empty == <<>>
Chain == <<ManyToOne(t1, t2, k1), ManyToOne(t2, t3, k1)>>
\* A fact and its dimensions, and a join short of a second one on the same.
TwoFacts == <<ManyToOne(t4, t2, k1), ManyToOne(t4, t3, k1), ManyToOne(t1, t2, k1)>>
\* As models had them before cardinalities: from the dimension to the fact.
Unset == <<[ManyToOne(t1, t2, k1) EXCEPT !.fc = "unset", !.tc = "unset"],
           [ManyToOne(t1, t3, k1) EXCEPT !.fc = "unset", !.tc = "unset"]>>
MCFirstDrafts == {Empty, Chain, TwoFacts, Unset}

\* Found in any order: a star, a chain and its shortcut.
MCCandidates == {<<ManyToOne(t1, t2, k1), ManyToOne(t1, t3, k1), ManyToOne(t1, t4, k1)>>,
                 <<ManyToOne(t3, t1, k1), ManyToOne(t2, t3, k1)>>}
MCWishes == {<<ManyToOne(t2, t3, k1)>>,
             <<[ManyToOne(t1, t3, k1) EXCEPT !.fc = "1", !.tc = "*"], ManyToOne(t3, t2, k1)>>}
MCFactMarks == {{}, {t3}}

\* Two facts, the dimensions they share, and what lies behind one of these.
Constellation == <<ManyToOne(returns, customer, k1), ManyToOne(sales, customer, k1),
                   ManyToOne(sales, product, k1), ManyToOne(customer, country, k1),
                   ManyToOne(customer, segment, k1)>>
MCConstellation == {Constellation}
=============================================================================
