---------------------------- MODULE MCQueryCache ----------------------------
(* QueryCache over two sources and up to three models.  ma and mb read the  *)
(* same source and may ask the same SQL; mab combines two files.            *)
EXTENDS QueryCache, TLC

CONSTANTS ma, mb, mab, da, db, oa, k1, k2, k3

AskA == [key |-> k1, model |-> ma, sources |-> {da}, org |-> NoOrg]
AskB == [key |-> k1, model |-> mb, sources |-> {da}, org |-> NoOrg]
AskAB == [key |-> k2, model |-> mab, sources |-> {da, db}, org |-> NoOrg]
AskOther == [key |-> k3, model |-> ma, sources |-> {da}, org |-> NoOrg]
InOrg(o) == [o EXCEPT !.org = oa]

Questions == {AskA, AskAB, AskOther}
OneQuestion == {AskA}
OneOrgQuestion == {InOrg(AskA)}
SharedSQL == {AskA, AskB}
OrgQuestions == {InOrg(AskA), InOrg(AskAB), AskOther}

QuotaOfThree == [w \in {oa} |-> 3]
NoQuota == [w \in {} |-> 0]
=============================================================================
