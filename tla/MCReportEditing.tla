--------------------------- MODULE MCReportEditing ---------------------------
(* Small instances of ReportEditing. *)
EXTENDS ReportEditing

CONSTANTS e1, s1, p1, p2, p3, none, noDoc

MCPageIds == {p1, p2, p3}
MCTitles == {"Sales", "Sales (1)"}
MCTaken == {"Sales"}

\* Two pages, under a title another report was given since.
MCFirstDoc == [title |-> "Sales", pages |-> <<[id |-> p1, body |-> Blank(p1)], [id |-> p2, body |-> Blank(p2)]>>]
=============================================================================
