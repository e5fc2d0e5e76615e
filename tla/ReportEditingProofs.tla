------------------------- MODULE ReportEditingProofs -------------------------
(***************************************************************************)
(* Proofs about ReportRow and ReportEditing, for any tabs, pages, titles,  *)
(* caps and number of acts.                                                *)
(***************************************************************************)
EXTENDS ReportEditing, SequenceTheorems, FiniteSetTheorems, TLAPS

-----------------------------------------------------------------------------
(* Sequences. *)

Of(S, s) == \A i \in DOMAIN s : s[i] \in S

LEMMA SeqFacts ==
    ASSUME NEW S, NEW s \in Seq(S)
    PROVE  /\ Len(s) \in Nat /\ DOMAIN s = 1..Len(s)
           /\ \A i \in 1..Len(s) : s[i] \in S
  OBVIOUS

\* What was in a log is in it for ever.
LEMMA ToSetAppend ==
    ASSUME NEW S, NEW s \in Seq(S), NEW x \in S
    PROVE  /\ Append(s, x) \in Seq(S) /\ Len(Append(s, x)) = Len(s) + 1
           /\ Append(s, x)[Len(s) + 1] = x
           /\ \A i \in 1..Len(s) : Append(s, x)[i] = s[i]
           /\ ToSet(Append(s, x)) = ToSet(s) \cup {x}
<1> DEFINE t == Append(s, x)
<1>1. /\ t \in Seq(S) /\ Len(t) = Len(s) + 1 /\ Len(s) \in Nat
      /\ t[Len(s) + 1] = x
      /\ \A i \in 1..Len(s) : t[i] = s[i]
      /\ DOMAIN t = 1..(Len(s) + 1) /\ DOMAIN s = 1..Len(s)
  OBVIOUS
<1> HIDE DEF t
<1>2. ToSet(t) = ToSet(s) \cup {x}
  <2>1. ASSUME NEW y \in ToSet(t) PROVE y \in ToSet(s) \cup {x}
    <3>1. PICK i \in 1..(Len(s) + 1) : y = t[i]
      BY <1>1 DEF ToSet
    <3>2. i = Len(s) + 1 \/ i \in 1..Len(s)
      BY <1>1
    <3> QED
      BY <1>1, <3>1, <3>2 DEF ToSet
  <2>2. ASSUME NEW y \in ToSet(s) PROVE y \in ToSet(t)
    <3>1. PICK i \in 1..Len(s) : y = s[i]
      BY <1>1 DEF ToSet
    <3>2. i \in DOMAIN t /\ t[i] = y
      BY <1>1, <3>1
    <3> QED
      BY <3>2 DEF ToSet
  <2>3. x \in ToSet(t)
    <3>1. Len(s) + 1 \in DOMAIN t
      BY <1>1
    <3> QED
      BY <1>1, <3>1 DEF ToSet
  <2> QED
    BY <2>1, <2>2, <2>3
<1> QED
  BY <1>1, <1>2 DEF t

\* The first n of a sequence.
LEMMA Prefix ==
    ASSUME NEW S, NEW s \in Seq(S), NEW n \in 0..Len(s)
    PROVE  /\ SubSeq(s, 1, n) \in Seq(S) /\ Len(SubSeq(s, 1, n)) = n
           /\ \A i \in 1..n : SubSeq(s, 1, n)[i] = s[i]
<1> DEFINE u == SubSeq(s, 1, n)
<1>1. n \in Int /\ \A i \in 1..n : s[i] \in S
  OBVIOUS
<1>2. /\ u \in Seq(S) /\ Len(u) = IF 1 <= n THEN n - 1 + 1 ELSE 0
      /\ \A i \in 1..(n - 1 + 1) : u[i] = s[1 + i - 1]
  BY <1>1, SubSeqProperties
<1>3. /\ n - 1 + 1 = n /\ \A i \in 1..n : 1 + i - 1 = i
      /\ 1 <= n \/ n = 0
  OBVIOUS
<1> HIDE DEF u
<1>4. Len(u) = n
  BY <1>2, <1>3
<1>5. \A i \in 1..n : u[i] = s[i]
  BY <1>2, <1>3
<1> QED
  BY <1>2, <1>4, <1>5 DEF u

-----------------------------------------------------------------------------
(* Documents. *)

Page == [id : PageIds, body : Bodies]

LEMMA DocFacts ==
    ASSUME NEW d \in Documents
    PROVE  /\ d.title \in Titles /\ d.pages \in Seq(Page)
           /\ Len(d.pages) \in Nat /\ DOMAIN d.pages = 1..Len(d.pages)
           /\ \A i \in DOMAIN d.pages : /\ d.pages[i] \in Page
                                        /\ d.pages[i].id \in PageIds
                                        /\ d.pages[i].body \in Bodies
<1>1. d.title \in Titles /\ d.pages \in Seq(Page)
  BY DEF Documents, Page
<1>2. /\ Len(d.pages) \in Nat /\ DOMAIN d.pages = 1..Len(d.pages)
      /\ \A i \in DOMAIN d.pages : d.pages[i] \in Page
  BY <1>1, SeqFacts
<1> QED
  BY <1>1, <1>2 DEF Page

\* A change of what one page holds leaves the pages.
LEMMA Restyled ==
    ASSUME NEW d \in Documents, NEW i \in DOMAIN d.pages, NEW rev \in Nat, Whole(d)
    PROVE  /\ [d EXCEPT !.pages[i].body.rev = rev] \in Documents
           /\ Whole([d EXCEPT !.pages[i].body.rev = rev])
<1> DEFINE page == [d.pages[i] EXCEPT !.body.rev = rev]
           pages == [d.pages EXCEPT ![i] = page]
           c == [d EXCEPT !.pages[i].body.rev = rev]
<1>1. /\ d.title \in Titles /\ d.pages \in Seq(Page)
      /\ Len(d.pages) \in Nat /\ DOMAIN d.pages = 1..Len(d.pages)
      /\ \A j \in DOMAIN d.pages : d.pages[j] \in Page
  BY DocFacts
<1>2. page \in Page /\ page.id = d.pages[i].id
  BY <1>1 DEF Page, Bodies
<1>3. c = [d EXCEPT !.pages = pages]
  BY DEF Documents
<1> HIDE DEF page
<1>4. /\ pages \in Seq(Page) /\ Len(pages) = Len(d.pages) /\ DOMAIN pages = DOMAIN d.pages
      /\ \A j \in DOMAIN d.pages : pages[j] = IF j = i THEN page ELSE d.pages[j]
  BY <1>1, <1>2, ExceptSeq
<1> HIDE DEF pages, c
<1>5. c \in Documents /\ c.pages = pages
  BY <1>1, <1>3, <1>4 DEF Documents, Page
<1>6. pages # << >>
  <2>1. Len(pages) # 0
    BY <1>1, <1>4
  <2> QED
    BY <2>1
<1>7. \A j \in DOMAIN pages : pages[j].id = d.pages[j].id
  BY <1>2, <1>4
<1>8. Whole(c)
  BY <1>4, <1>5, <1>6, <1>7 DEF Whole
<1> QED
  BY <1>5, <1>8 DEF c

LEMMA Retitled ==
    ASSUME NEW d \in Documents, NEW t \in Titles
    PROVE  /\ [d EXCEPT !.title = t] \in Documents
           /\ [d EXCEPT !.title = t].title = t
           /\ Whole(d) => Whole([d EXCEPT !.title = t])
  BY DEF Documents, Whole

\* One more page, of an id not in the document.
LEMMA Lengthened ==
    ASSUME NEW d \in Documents, Whole(d), NEW page \in Page,
           \A i \in DOMAIN d.pages : d.pages[i].id # page.id
    PROVE  /\ [d EXCEPT !.pages = Append(@, page)] \in Documents
           /\ Whole([d EXCEPT !.pages = Append(@, page)])
<1> DEFINE pages == Append(d.pages, page)
           c == [d EXCEPT !.pages = Append(@, page)]
<1>1. /\ d.title \in Titles /\ d.pages \in Seq(Page)
      /\ Len(d.pages) \in Nat /\ DOMAIN d.pages = 1..Len(d.pages)
  BY DocFacts
<1>2. /\ pages \in Seq(Page) /\ Len(pages) = Len(d.pages) + 1
      /\ pages[Len(d.pages) + 1] = page
      /\ \A i \in 1..Len(d.pages) : pages[i] = d.pages[i]
  BY <1>1, ToSetAppend
<1>3. c \in Documents /\ c.pages = pages
  BY <1>1, <1>2 DEF Documents, Page
<1> HIDE DEF pages, c
<1>4. DOMAIN pages = 1..(Len(d.pages) + 1) /\ pages # << >>
  BY <1>1, <1>2
<1>5. ASSUME NEW i \in DOMAIN pages, NEW j \in DOMAIN pages, pages[i].id = pages[j].id
      PROVE  i = j
  <2>1. (i \in 1..Len(d.pages) \/ i = Len(d.pages) + 1) /\ (j \in 1..Len(d.pages) \/ j = Len(d.pages) + 1)
    BY <1>1, <1>4
  <2> QED
    BY <1>1, <1>2, <1>5, <2>1 DEF Whole
<1>6. Whole(c)
  BY <1>3, <1>4, <1>5 DEF Whole
<1> QED
  BY <1>3, <1>6 DEF c

\* What the server writes of a document it is put: the document, under the
\* title it answers with.
LEMMA WrittenFacts ==
    ASSUME NEW d \in Documents, NEW auto \in BOOLEAN
    PROVE  /\ Written(d, auto) \in Documents
           /\ Written(d, auto) = [d EXCEPT !.title = Written(d, auto).title]
           /\ Written(d, auto).title \in Titles
           /\ ~auto => Written(d, auto) = d
           /\ Whole(d) => Whole(Written(d, auto))
<1>1. d.title \in Titles
  BY DocFacts
<1>2. FreeTitle(d.title) \in Titles
  <2>1. \E t \in Titles \ Taken : TRUE
    BY RowAssumption DEF RowAssumption
  <2> QED
    BY <1>1, <2>1 DEF FreeTitle
<1>3. CASE auto
  <2> DEFINE w == [d EXCEPT !.title = FreeTitle(d.title)]
  <2>1. Written(d, auto) = w
    BY <1>3 DEF Written
  <2>2. w \in Documents /\ w.title = FreeTitle(d.title) /\ (Whole(d) => Whole(w))
    BY <1>2, Retitled
  <2> QED
    BY <1>2, <1>3, <2>1, <2>2
<1>4. CASE ~auto
  <2>1. Written(d, auto) = d
    BY <1>4 DEF Written
  <2>2. d = [d EXCEPT !.title = d.title]
    BY DEF Documents
  <2> QED
    BY <1>1, <2>1, <2>2
<1> QED
  BY <1>3, <1>4

-----------------------------------------------------------------------------
(* The row, its versions and its log. *)

\* A draft was never saved, and every document the row held is whole.
Drafted == row.draft => Len(log) = 1
LogIsWhole == \A i \in DOMAIN log : Whole(log[i])

\* Every document has the second it was written in, none later than the last.
Dated == Len(times) = Len(log) /\ \A i \in DOMAIN times : times[i] <= Now

RowInv ==
    /\ RowTypeOK
    /\ Len(log) \in Nat \ {0}
    /\ Dated
    /\ IsFiniteSet(versions)
    /\ VersionsAreThePast
    /\ SavedReportsStay
    /\ Drafted
    /\ LogIsWhole

LEMMA RowFacts ==
    ASSUME RowInv
    PROVE  /\ row.doc \in Documents /\ row.doc \in ToSet(log) /\ Whole(row.doc)
           /\ \A v \in versions : v.doc \in Documents /\ Whole(v.doc)
           /\ ToSet(log) \subseteq Documents
           /\ Len(log) = 1 => versions = {}
<1>1. /\ log \in Seq(Documents)
      /\ Len(log) \in 1..Len(log) /\ DOMAIN log = 1..Len(log)
      /\ row.doc = log[Len(log)]
      /\ \A v \in versions : v.n \in 1..Len(log) - 1 /\ v.doc = log[v.n]
  BY DEF RowInv, RowTypeOK, VersionsAreThePast
<1>2. \A i \in DOMAIN log : log[i] \in Documents
  BY <1>1, SeqFacts
<1>3. row.doc \in Documents /\ row.doc \in ToSet(log) /\ Whole(row.doc)
  BY <1>1, <1>2 DEF RowInv, LogIsWhole, ToSet
<1>4. \A v \in versions : v.doc \in Documents /\ Whole(v.doc)
  <2> SUFFICES ASSUME NEW v \in versions PROVE v.doc \in Documents /\ Whole(v.doc)
    OBVIOUS
  <2>1. v.n \in DOMAIN log /\ v.doc = log[v.n]
    BY <1>1
  <2> QED
    BY <1>2, <2>1 DEF RowInv, LogIsWhole
<1>5. ASSUME Len(log) = 1 PROVE versions = {}
  BY <1>1, <1>5
<1> QED
  BY <1>1, <1>2, <1>3, <1>4, <1>5 DEF ToSet

\* The pruning keeps as many as the cap allows, and none older than it drops.
LEMMA NewestFacts ==
    ASSUME NEW vs, IsFiniteSet(vs), NEW kept \in Newest(vs)
    PROVE  /\ kept \subseteq vs /\ IsFiniteSet(kept)
           /\ Cardinality(kept) = IF Cardinality(vs) > VersionCap THEN VersionCap ELSE Cardinality(vs)
           /\ \A v \in kept, w \in vs \ kept : v.at >= w.at
<1>1. kept \subseteq vs
  BY DEF Newest
<1>2. IsFiniteSet(kept)
  BY <1>1, FS_Subset
<1> QED
  BY <1>1, <1>2 DEF Newest

\* A document written over the row, which is no draft then.
LEMMA RowWritten ==
    ASSUME RowInv, NEW doc \in Documents, Whole(doc), There, ~row.draft',
           NEW written, Write(written),
           written \in {[row EXCEPT !.doc = doc], [row EXCEPT !.doc = doc, !.draft = FALSE]}
    PROVE  RowInv' /\ ToSet(log)' = ToSet(log) \cup {doc}
<1> DEFINE L == Len(log)
<1>1. /\ row \in [state : {"there", "discarded", "purged", "deleted"}, draft : BOOLEAN, doc : Documents]
      /\ versions \subseteq [n : Nat, doc : Documents, at : Nat] /\ log \in Seq(Documents)
      /\ L \in Nat \ {0} /\ DOMAIN log = 1..L
      /\ times \in Seq(Nat) /\ Len(times) = L
  BY DEF RowInv, RowTypeOK, Dated
<1>2. row' = written /\ written.doc = doc /\ written.state = "there"
      /\ row' \in [state : {"there", "discarded", "purged", "deleted"}, draft : BOOLEAN, doc : Documents]
  BY <1>1 DEF There, Write
<1>3. PICK at \in {Now, Now + 1} : Snapshot(at) /\ log' = Append(log, doc) /\ times' = Append(times, at)
  BY <1>2 DEF Write
<1>4. /\ log' \in Seq(Documents) /\ Len(log') = L + 1 /\ log'[L + 1] = doc
      /\ \A i \in 1..L : log'[i] = log[i]
      /\ ToSet(log') = ToSet(log) \cup {doc}
  BY <1>1, <1>3, ToSetAppend
<1>5. /\ \A i \in 1..L : times[i] \in Nat /\ times[i] <= Now
      /\ Now \in Nat /\ at \in Nat /\ Now <= at
  <2>1. \A i \in 1..L : times[i] \in Nat /\ times[i] <= Now
    BY <1>1, SeqFacts DEF RowInv, Dated
  <2>2. Now \in Nat
    BY <1>1, <2>1 DEF Now
  <2> QED
    BY <2>1, <2>2
<1>6. /\ times' \in Seq(Nat) /\ Len(times') = L + 1 /\ times'[L + 1] = at
      /\ \A i \in 1..L : times'[i] = times[i]
  BY <1>1, <1>3, <1>5, ToSetAppend
<1>7. /\ row.doc = log[L] /\ row.doc \in Documents
      /\ \A v \in versions : v.n \in 1..L - 1 /\ v.doc = log[v.n] /\ v.at = times[v.n + 1]
      /\ Cardinality(versions) = IF L - 1 > VersionCap THEN VersionCap ELSE L - 1
      /\ \A k \in (1..L - 1) \ {v.n : v \in versions} : \A v \in versions : v.at >= times[k + 1]
      /\ IsFiniteSet(versions)
  BY <1>1 DEF RowInv, VersionsAreThePast
<1> HIDE DEF L
<1> DEFINE x == [n |-> L, doc |-> row.doc, at |-> at]
           W == versions \cup {x}
<1>8. x \notin versions /\ x \in [n : Nat, doc : Documents, at : Nat]
  BY <1>1, <1>5, <1>7
<1>9. IsFiniteSet(W) /\ Cardinality(W) = Cardinality(versions) + 1
  BY <1>7, <1>8, FS_AddElement
<1>10. x.n = L /\ x.doc = row.doc /\ x.at = at
  OBVIOUS
<1> HIDE DEF x
<1>11. versions' \in Newest(W)
  BY <1>3 DEF Snapshot, WithOverwritten, L, x
<1>12. /\ versions' \subseteq W /\ IsFiniteSet(versions')
       /\ Cardinality(versions') = IF Cardinality(W) > VersionCap THEN VersionCap ELSE Cardinality(W)
       /\ \A v \in versions', w \in W \ versions' : v.at >= w.at
  BY <1>9, <1>11, NewestFacts
<1>13. VersionsAreThePast'
  <2>1. Len(log') - 1 = L /\ 1..(Len(log') - 1) = 1..L
    BY <1>1, <1>4
  <2>2. row'.doc = log'[Len(log')]
    BY <1>2, <1>4
  <2>3. ASSUME NEW v \in versions'
        PROVE  v.n \in 1..L /\ v.doc = log'[v.n] /\ v.at = times'[v.n + 1]
    <3>1. CASE v \in versions
      <4>1. v.n \in 1..L /\ v.n + 1 \in 1..L
        BY <1>1, <1>7, <3>1
      <4> QED
        BY <1>4, <1>6, <1>7, <3>1, <4>1
    <3>2. CASE v = x
      <4>1. L \in 1..L
        BY <1>1
      <4> QED
        BY <1>4, <1>6, <1>7, <1>10, <3>2, <4>1
    <3> QED
      BY <1>12, <3>1, <3>2
  <2>4. Cardinality(versions') = IF L > VersionCap THEN VersionCap ELSE L
    <3>1. VersionCap \in Nat
      BY RowAssumption DEF RowAssumption
    <3> QED
      BY <1>1, <1>7, <1>9, <1>12, <3>1
  <2>5. ASSUME NEW k \in 1..L, k \notin {v.n : v \in versions'}, NEW v \in versions'
        PROVE  v.at >= times'[k + 1]
    <3>1. CASE k = L
      <4>1. x \in W \ versions'
        BY <1>10, <2>5, <3>1
      <4> QED
        BY <1>6, <1>10, <1>12, <3>1, <4>1
    <3>2. CASE k # L
      <4>1. k \in 1..L - 1 /\ k + 1 \in 1..L /\ times'[k + 1] = times[k + 1]
        BY <1>1, <1>6, <3>2
      <4>2. CASE \E w \in versions : w.n = k
        <5>1. PICK w \in versions : w.n = k
          BY <4>2
        <5>2. w \in W \ versions' /\ w.at = times[k + 1]
          BY <1>7, <2>5, <5>1
        <5> QED
          BY <1>12, <4>1, <5>2
      <4>3. CASE ~\E w \in versions : w.n = k
        <5>1. k \in (1..L - 1) \ {w.n : w \in versions}
          BY <4>1, <4>3
        <5>2. v \in versions => v.at >= times[k + 1]
          BY <1>7, <5>1
        <5>3. v = x => v.at >= times[k + 1]
          BY <1>5, <1>10, <4>1
        <5> QED
          BY <1>12, <4>1, <5>2, <5>3
      <4> QED
        BY <4>2, <4>3
    <3> QED
      BY <3>1, <3>2
  <2> QED
    BY <2>1, <2>2, <2>3, <2>4, <2>5 DEF VersionsAreThePast
<1>14. versions' \subseteq [n : Nat, doc : Documents, at : Nat]
  BY <1>1, <1>8, <1>12
<1>15. Dated'
  <2>1. Now' = at
    BY <1>1, <1>6 DEF Now
  <2>2. DOMAIN times' = 1..L + 1 /\ Len(times') = Len(log')
    BY <1>1, <1>4, <1>6
  <2>3. ASSUME NEW i \in 1..L + 1 PROVE times'[i] <= at
    <3>1. i \in 1..L \/ i = L + 1
      BY <1>1
    <3> QED
      BY <1>5, <1>6, <3>1
  <2> QED
    BY <2>1, <2>2, <2>3 DEF Dated
<1>16. LogIsWhole'
  <2> SUFFICES ASSUME NEW i \in DOMAIN log' PROVE Whole(log'[i])
    BY DEF LogIsWhole
  <2>1. i \in 1..L \/ i = L + 1
    BY <1>1, <1>4
  <2>2. i \in 1..L => Whole(log[i]) /\ log'[i] = log[i]
    BY <1>1, <1>4 DEF RowInv, LogIsWhole
  <2> QED
    BY <1>4, <2>1, <2>2
<1>17. Len(log') \in Nat \ {0}
  BY <1>1, <1>4
<1>18. SavedReportsStay' /\ Drafted'
  BY <1>2 DEF SavedReportsStay, Drafted
<1> QED
  BY <1>2, <1>4, <1>6, <1>12, <1>13, <1>14, <1>15, <1>16, <1>17, <1>18 DEF RowInv, RowTypeOK

\* A report that goes: only as the draft it still is, unless its owner deletes it.
LEMMA RowDropped ==
    ASSUME RowInv, UNCHANGED <<versions, log, times>>,
           \/ row' = row
           \/ row' = [row EXCEPT !.state = "deleted"]
           \/ row.draft /\ row' \in {[row EXCEPT !.state = "discarded"], [row EXCEPT !.state = "purged"]}
    PROVE  RowInv' /\ UNCHANGED ToSet(log)
<1>1. row \in [state : {"there", "discarded", "purged", "deleted"}, draft : BOOLEAN, doc : Documents]
  BY DEF RowInv, RowTypeOK
<1>2. /\ row' \in [state : {"there", "discarded", "purged", "deleted"}, draft : BOOLEAN, doc : Documents]
      /\ row'.doc = row.doc /\ row'.draft = row.draft
      /\ row'.state \in {"discarded", "purged"} => row.draft \/ row'.state = row.state
  BY <1>1
<1>3. SavedReportsStay'
  BY <1>2 DEF RowInv, SavedReportsStay, Drafted
<1> QED
  BY <1>2, <1>3 DEF RowInv, RowTypeOK, VersionsAreThePast, Dated, Now, Drafted, LogIsWhole

\* PUT /:id.
LEMMA RowPut ==
    ASSUME RowInv, NEW doc \in Documents, Whole(doc), NEW auto \in BOOLEAN, Put(doc, auto)
    PROVE  /\ RowInv' /\ ToSet(log) \subseteq ToSet(log)'
           /\ Verdict(doc, auto) = "ok" => Written(doc, auto) \in ToSet(log)'
<1> DEFINE w == Written(doc, auto)
<1>1. w \in Documents /\ Whole(w)
  BY WrittenFacts
<1>2. CASE Verdict(doc, auto) = "ok"
  <2>1. There
    BY <1>2 DEF Verdict
  <2>2. Write([row EXCEPT !.doc = w, !.draft = FALSE])
    BY <1>2 DEF Put
  <2> HIDE DEF w
  <2>3. ~row.draft'
    BY <2>2 DEF RowInv, RowTypeOK, Write
  <2>4. RowInv' /\ ToSet(log)' = ToSet(log) \cup {w}
    BY <1>1, <2>1, <2>2, <2>3, RowWritten
  <2> QED
    BY <2>4 DEF w
<1>3. CASE Verdict(doc, auto) # "ok"
  <2>1. UNCHANGED <<row, versions, log, times>>
    BY <1>3 DEF Put, rowVars
  <2>2. RowInv' /\ UNCHANGED ToSet(log)
    BY <2>1, RowDropped
  <2> QED
    BY <1>3, <2>2
<1> QED
  BY <1>2, <1>3

\* What others do to the report.
LEMMA RowElsewhere ==
    ASSUME RowInv, NEW rev \in Nat,
           \/ \E i \in DOMAIN row.doc.pages : AppendWidgets(i, rev)
           \/ \E p \in PageIds : (\A i \in DOMAIN row.doc.pages : row.doc.pages[i].id # p) /\ AppendPage(p, rev)
           \/ \E v \in versions : Restore(v)
           \/ PurgeStaleDrafts
           \/ Delete
    PROVE  RowInv' /\ ToSet(log) \subseteq ToSet(log)'
<1>1. /\ row.doc \in Documents /\ Whole(row.doc)
      /\ \A v \in versions : v.doc \in Documents /\ Whole(v.doc)
      /\ Len(log) = 1 => versions = {}
  BY RowFacts
<1>2. ASSUME NEW doc \in Documents, Whole(doc), There, ~row.draft, Write([row EXCEPT !.doc = doc])
      PROVE  RowInv' /\ ToSet(log) \subseteq ToSet(log)'
  <2>1. ~row.draft'
    BY <1>2 DEF RowInv, RowTypeOK, Write
  <2>2. RowInv' /\ ToSet(log)' = ToSet(log) \cup {doc}
    BY <1>2, <2>1, RowWritten
  <2> QED
    BY <2>2
<1>3. ASSUME NEW i \in DOMAIN row.doc.pages, AppendWidgets(i, rev)
      PROVE  RowInv' /\ ToSet(log) \subseteq ToSet(log)'
  <2> DEFINE d == [row.doc EXCEPT !.pages[i].body.rev = rev]
  <2>1. d \in Documents /\ Whole(d)
    BY <1>1, Restyled
  <2>2. There /\ ~row.draft /\ Write([row EXCEPT !.doc = d])
    BY <1>3 DEF AppendWidgets
  <2> HIDE DEF d
  <2> QED
    BY <1>2, <2>1, <2>2
<1>4. ASSUME NEW p \in PageIds, \A i \in DOMAIN row.doc.pages : row.doc.pages[i].id # p, AppendPage(p, rev)
      PROVE  RowInv' /\ ToSet(log) \subseteq ToSet(log)'
  <2> DEFINE page == [id |-> p, body |-> [page |-> p, rev |-> rev]]
             d == [row.doc EXCEPT !.pages = Append(@, page)]
  <2>1. page \in Page /\ page.id = p
    BY DEF Page, Bodies
  <2>2. There /\ ~row.draft /\ Write([row EXCEPT !.doc = d])
    BY <1>4 DEF AppendPage
  <2> HIDE DEF page
  <2>3. d \in Documents /\ Whole(d)
    BY <1>1, <1>4, <2>1, Lengthened
  <2> HIDE DEF d
  <2> QED
    BY <1>2, <2>2, <2>3
<1>5. ASSUME NEW v \in versions, Restore(v)
      PROVE  RowInv' /\ ToSet(log) \subseteq ToSet(log)'
  <2>1. There /\ Write([row EXCEPT !.doc = v.doc])
    BY <1>5 DEF Restore
  <2>2. ~row.draft
    BY <1>1, <1>5 DEF RowInv, Drafted
  <2> QED
    BY <1>1, <1>2, <1>5, <2>1, <2>2
<1>6. CASE PurgeStaleDrafts \/ Delete
  BY <1>6, RowDropped DEF PurgeStaleDrafts, Delete
<1> QED
  BY <1>3, <1>4, <1>5, <1>6

-----------------------------------------------------------------------------
(* Histories. *)

HistoryOf(S, h) ==
    /\ h \in [states : Seq(S), at : Nat]
    /\ h.at \in 1..Len(h.states)
    /\ Len(h.states) <= HistoryCap

\* What is recorded is what is shown next, and the cap is kept.
LEMMA PushedFacts ==
    ASSUME NEW S, NEW h, HistoryOf(S, h), NEW x \in S
    PROVE  /\ HistoryOf(S, Pushed(h, x))
           /\ Pushed(h, x).states[Pushed(h, x).at] = x
           /\ \A i \in DOMAIN Pushed(h, x).states :
                Pushed(h, x).states[i] = x \/ \E j \in DOMAIN h.states : Pushed(h, x).states[i] = h.states[j]
<1> DEFINE u == SubSeq(h.states, 1, h.at)
           s == Append(u, x)
<1>1. /\ h.states \in Seq(S) /\ h.at \in 1..Len(h.states) /\ Len(h.states) \in Nat
      /\ Len(h.states) <= HistoryCap /\ DOMAIN h.states = 1..Len(h.states)
      /\ \A i \in 1..Len(h.states) : h.states[i] \in S
  BY SeqFacts DEF HistoryOf
<1>2. HistoryCap \in Nat \ {0, 1}
  BY EditingAssumption DEF EditingAssumption
<1>3. u \in Seq(S) /\ Len(u) = h.at /\ \A i \in 1..h.at : u[i] = h.states[i]
  BY <1>1, Prefix
<1> HIDE DEF u
<1>4. /\ s \in Seq(S) /\ Len(s) = h.at + 1 /\ s[h.at + 1] = x
      /\ \A i \in 1..h.at : s[i] = h.states[i]
  BY <1>3, ToSetAppend
<1> HIDE DEF s
<1>5. \A i \in 1..(h.at + 1) : s[i] = x \/ \E j \in DOMAIN h.states : s[i] = h.states[j]
  <2> SUFFICES ASSUME NEW i \in 1..(h.at + 1) PROVE s[i] = x \/ \E j \in DOMAIN h.states : s[i] = h.states[j]
    OBVIOUS
  <2>1. i = h.at + 1 \/ i \in 1..h.at
    BY <1>1
  <2>2. i \in 1..h.at => i \in DOMAIN h.states
    BY <1>1
  <2> QED
    BY <1>4, <2>1, <2>2
<1>6. Pushed(h, x) = IF Len(s) > HistoryCap THEN [states |-> Tail(s), at |-> h.at]
                                            ELSE [states |-> s, at |-> h.at + 1]
  BY DEF Pushed, s, u
<1>7. CASE Len(s) > HistoryCap
  <2>1. s # << >>
    BY <1>2, <1>7
  <2>2. /\ Tail(s) \in Seq(S) /\ Len(Tail(s)) = Len(s) - 1
        /\ \A i \in 1..Len(Tail(s)) : Tail(s)[i] = s[i + 1]
    BY <1>4, <2>1, HeadTailProperties
  <2> DEFINE v == Tail(s)
  <2> HIDE DEF v
  <2>3. /\ v \in Seq(S) /\ Len(v) = h.at /\ DOMAIN v = 1..h.at
        /\ \A i \in 1..h.at : v[i] = s[i + 1]
    BY <1>1, <1>4, <2>2 DEF v
  <2>4. Pushed(h, x) = [states |-> v, at |-> h.at]
    BY <1>6, <1>7 DEF v
  <2>5. v[h.at] = x
    BY <1>1, <1>4, <2>3
  <2>6. \A i \in DOMAIN v : v[i] = x \/ \E j \in DOMAIN h.states : v[i] = h.states[j]
    <3>1. \A i \in 1..h.at : i + 1 \in 1..(h.at + 1)
      BY <1>1
    <3> QED
      BY <1>5, <2>3, <3>1
  <2>7. HistoryOf(S, [states |-> v, at |-> h.at])
    <3>1. h.at \in Nat /\ h.at \in 1..h.at /\ h.at <= HistoryCap
      BY <1>1, <1>2
    <3> QED
      BY <2>3, <3>1 DEF HistoryOf
  <2> QED
    BY <2>4, <2>5, <2>6, <2>7
<1>8. CASE ~(Len(s) > HistoryCap)
  <2>1. Pushed(h, x) = [states |-> s, at |-> h.at + 1]
    BY <1>6, <1>8
  <2>2. HistoryOf(S, [states |-> s, at |-> h.at + 1])
    BY <1>1, <1>2, <1>4, <1>8 DEF HistoryOf
  <2>3. DOMAIN s = 1..(h.at + 1)
    BY <1>4
  <2> QED
    BY <1>4, <1>5, <2>1, <2>2, <2>3
<1> QED
  BY <1>7, <1>8

LEMMA NewHistoryFacts ==
    ASSUME NEW S, NEW x \in S
    PROVE  HistoryOf(S, NewHistory(x)) /\ NewHistory(x).states = <<x>> /\ NewHistory(x).at = 1
  BY EditingAssumption DEF HistoryOf, NewHistory, EditingAssumption

-----------------------------------------------------------------------------
(* The tabs. *)

Modes == {"away", "loading", "open", "asked", "leaving"}
EditorState == [pages : Seq(PageIds), current : Nat, aside : [PageIds -> Bodies], title : Titles]

\* An editor shows one of its pages, and has none twice.
Paged(ed) ==
    /\ ed.current \in DOMAIN ed.pages
    /\ \A i, j \in DOMAIN ed.pages : ed.pages[i] = ed.pages[j] => i = j

GoodEditor(e) == HistoryOf(Bodies, history[e]) /\ (Mounted(e) => Paged(editor[e]))
GoodStudio(s) ==
    /\ HistoryOf(Documents, history[s])
    /\ \A i \in DOMAIN history[s].states : Whole(history[s].states[i])

\* What a tab takes for saved is a document the server has held.
KnowsLog(t) == Mounted(t) => saved[t] \in ToSet(log)

\* A save is of a tab still there, or of nobody; an editor never asks for
\* another title; the answer to an accepted save names what was written.
GoodPut(p) ==
    /\ p \in PutState
    /\ Whole(p.doc)
    /\ p.of # None => Mounted(p.of)
    /\ p.of \in Editors => ~p.auto /\ p.title = p.doc.title
    /\ p.reply = "ok" => /\ Written(p.doc, p.auto) \in ToSet(log)
                         /\ p.title = Written(p.doc, p.auto).title

Shapes ==
    /\ mode \in [Tabs -> Modes]
    /\ editor \in [Editors -> EditorState]
    /\ history \in [Tabs -> Histories]
    /\ given \in [Studios -> Titles \cup {None}]
    /\ saved \in [Tabs -> Documents \cup {NoDoc}]
    /\ isDraft \in [Tabs -> BOOLEAN]
    /\ saving \in [Tabs -> BOOLEAN]

IInv ==
    /\ RowInv
    /\ Shapes
    /\ \A e \in Editors : GoodEditor(e)
    /\ \A s \in Studios : GoodStudio(s)
    /\ \A t \in Tabs : KnowsLog(t)
    /\ \A p \in puts : GoodPut(p)
    /\ dropping \subseteq Tabs
    /\ acts \in 0..MaxActs

LEMMA TabFacts ==
    /\ Editors \cap Studios = {} /\ None \notin Tabs
    /\ \A t \in Tabs : t \in Editors \/ t \in Studios
    /\ Editors \subseteq Tabs /\ Studios \subseteq Tabs
  BY EditingAssumption DEF EditingAssumption, Tabs

\* A step of one tab, whatever it does to the row.
LEMMA TabStep ==
    ASSUME IInv, NEW t \in Tabs,
           RowInv', ToSet(log) \subseteq ToSet(log)', Shapes',
           t \in Editors => GoodEditor(t)',
           t \in Studios => GoodStudio(t)',
           KnowsLog(t)',
           \A p \in puts' : GoodPut(p)',
           dropping' \subseteq Tabs,
           acts' \in 0..MaxActs,
           \A u \in Tabs \ {t} : /\ mode'[u] = mode[u]
                                 /\ history'[u] = history[u]
                                 /\ saved'[u] = saved[u],
           \A e \in Editors \ {t} : editor'[e] = editor[e]
    PROVE  IInv'
<1>1. ASSUME NEW e \in Editors PROVE GoodEditor(e)'
  <2>1. CASE e = t
    BY <2>1
  <2>2. CASE e # t
    <3>1. e \in Tabs \ {t} /\ e \in Editors \ {t}
      BY <2>2, TabFacts
    <3>2. mode'[e] = mode[e] /\ history'[e] = history[e] /\ editor'[e] = editor[e]
      BY <3>1
    <3>3. GoodEditor(e)
      BY DEF IInv
    <3> QED
      BY <3>2, <3>3 DEF GoodEditor, Mounted
  <2> QED
    BY <2>1, <2>2
<1>2. ASSUME NEW s \in Studios PROVE GoodStudio(s)'
  <2>1. CASE s = t
    BY <2>1
  <2>2. CASE s # t
    <3>1. history'[s] = history[s]
      BY <2>2, TabFacts
    <3>2. GoodStudio(s)
      BY DEF IInv
    <3> QED
      BY <3>1, <3>2 DEF GoodStudio
  <2> QED
    BY <2>1, <2>2
<1>3. ASSUME NEW u \in Tabs PROVE KnowsLog(u)'
  <2>1. CASE u # t
    <3>1. mode'[u] = mode[u] /\ saved'[u] = saved[u] /\ KnowsLog(u)
      BY <2>1 DEF IInv
    <3> QED
      BY <3>1 DEF KnowsLog, Mounted
  <2> QED
    BY <2>1
<1> QED
  BY <1>1, <1>2, <1>3 DEF IInv

\* Saves in flight stay what they are while their tabs stay.
LEMMA PutsStay ==
    ASSUME IInv, ToSet(log) \subseteq ToSet(log)', puts' \subseteq puts,
           \A u \in Tabs : Mounted(u) => Mounted(u)'
    PROVE  \A p \in puts' : GoodPut(p)'
<1> SUFFICES ASSUME NEW p \in puts' PROVE GoodPut(p)'
  OBVIOUS
<1>1. GoodPut(p)
  BY DEF IInv
<1>2. p.of \in Tabs \cup {None}
  BY <1>1 DEF GoodPut, PutState
<1>3. p.of # None => Mounted(p.of)'
  BY <1>1, <1>2 DEF GoodPut
<1> QED
  BY <1>1, <1>3 DEF GoodPut

\* Those of a tab that closes are nobody's any more.
LEMMA PutsOrphaned ==
    ASSUME IInv, NEW t \in Tabs, ToSet(log) \subseteq ToSet(log)', puts' \subseteq Orphaned(t),
           \A u \in Tabs \ {t} : mode'[u] = mode[u]
    PROVE  \A p \in puts' : GoodPut(p)'
<1> SUFFICES ASSUME NEW q \in puts' PROVE GoodPut(q)'
  OBVIOUS
<1>1. PICK p \in puts : q = [p EXCEPT !.of = IF p.of = t THEN None ELSE p.of]
  BY DEF Orphaned
<1>2. GoodPut(p) /\ p \in PutState
  BY DEF IInv, GoodPut
<1>3. /\ q \in PutState /\ q.doc = p.doc /\ q.auto = p.auto /\ q.reply = p.reply
      /\ q.title = p.title /\ q.of = IF p.of = t THEN None ELSE p.of
  BY <1>1, <1>2 DEF PutState
<1>4. q.of # None => p.of = q.of /\ q.of \in Tabs \ {t}
  BY <1>2, <1>3 DEF PutState
<1>5. q.of # None => Mounted(q.of)'
  BY <1>2, <1>4 DEF GoodPut, Mounted
<1>6. q.of \in Editors => ~q.auto /\ q.title = q.doc.title
  <2>1. q.of \in Editors => q.of # None
    BY TabFacts
  <2> QED
    BY <1>2, <1>3, <1>4, <2>1 DEF GoodPut
<1> QED
  BY <1>2, <1>3, <1>5, <1>6 DEF GoodPut

\* What a tab shows, as a document.
LEMMA ShownFacts ==
    ASSUME IInv
    PROVE  /\ \A e \in Editors : Shown(e) \in Bodies
           /\ \A s \in Studios : Shown(s) \in Documents /\ Whole(Shown(s))
<1>1. ASSUME NEW e \in Editors PROVE Shown(e) \in Bodies
  <2>1. HistoryOf(Bodies, history[e])
    BY DEF IInv, GoodEditor
  <2> QED
    BY <2>1 DEF Shown, HistoryOf
<1>2. ASSUME NEW s \in Studios PROVE Shown(s) \in Documents /\ Whole(Shown(s))
  <2>1. HistoryOf(Documents, history[s]) /\ \A i \in DOMAIN history[s].states : Whole(history[s].states[i])
    BY DEF IInv, GoodStudio
  <2>2. history[s].at \in DOMAIN history[s].states
    BY <2>1 DEF HistoryOf
  <2>3. history[s].states[history[s].at] \in Documents
    BY <2>1 DEF HistoryOf
  <2> QED
    BY <2>1, <2>2, <2>3 DEF Shown
<1> QED
  BY <1>1, <1>2

LEMMA EditorFacts ==
    ASSUME IInv, NEW e \in Editors
    PROVE  /\ editor[e] \in EditorState
           /\ Len(editor[e].pages) \in Nat /\ DOMAIN editor[e].pages = 1..Len(editor[e].pages)
           /\ \A i \in DOMAIN editor[e].pages : editor[e].pages[i] \in PageIds
           /\ Mounted(e) => Paged(editor[e])
<1>1. editor[e] \in EditorState /\ (Mounted(e) => Paged(editor[e]))
  BY DEF IInv, Shapes, GoodEditor
<1>2. editor[e].pages \in Seq(PageIds)
  BY <1>1 DEF EditorState
<1> QED
  BY <1>1, <1>2, SeqFacts

LEMMA DocIsWhole ==
    ASSUME IInv, NEW t \in Tabs, Mounted(t)
    PROVE  Doc(t) \in Documents /\ Whole(Doc(t))
<1>1. CASE t \in Studios
  BY <1>1, ShownFacts, TabFacts DEF Doc
<1>2. CASE t \in Editors
  <2> DEFINE ed == editor[t]
             n == Len(ed.pages)
             pages == [i \in DOMAIN ed.pages |->
                         [id |-> ed.pages[i],
                          body |-> IF i = ed.current THEN Shown(t) ELSE ed.aside[ed.pages[i]]]]
  <2>1. /\ ed \in EditorState /\ n \in Nat /\ DOMAIN ed.pages = 1..n
        /\ \A i \in DOMAIN ed.pages : ed.pages[i] \in PageIds
        /\ Paged(ed)
    BY <1>2, EditorFacts
  <2>2. Shown(t) \in Bodies
    BY <1>2, ShownFacts
  <2>3. Doc(t) = [title |-> ed.title, pages |-> pages]
    BY <1>2 DEF Doc, EditorDoc
  <2>4. ed.title \in Titles /\ ed.aside \in [PageIds -> Bodies]
    BY <2>1 DEF EditorState
  <2> HIDE DEF ed, n
  <2>5. pages \in [1..n -> Page] /\ DOMAIN pages = 1..n
    BY <2>1, <2>2, <2>4 DEF Page
  <2>6. pages \in Seq(Page)
    BY <2>1, <2>5, SeqDef
  <2>7. \A i \in 1..n : pages[i].id = ed.pages[i]
    BY <2>1
  <2>8. ed.current \in 1..n /\ \A i, j \in 1..n : ed.pages[i] = ed.pages[j] => i = j
    BY <2>1 DEF Paged
  <2>9. pages # << >>
    BY <2>1, <2>5, <2>8
  <2> HIDE DEF pages
  <2> QED
    BY <2>3, <2>4, <2>5, <2>6, <2>7, <2>8, <2>9 DEF Documents, Page, Whole
<1> QED
  BY <1>1, <1>2, TabFacts

\* What is put aside when a page is left is a body for each page.
LEMMA AsideFacts ==
    ASSUME IInv, NEW e \in Editors, Mounted(e)
    PROVE  PutAside(e) \in [PageIds -> Bodies]
<1>1. Shown(e) \in Bodies
  BY ShownFacts
<1>2. editor[e].aside \in [PageIds -> Bodies]
  BY EditorFacts DEF EditorState
<1> QED
  BY <1>1, <1>2 DEF PutAside

-----------------------------------------------------------------------------
(* Types and the initial states. *)

LEMMA TypesHold == IInv => TypeOK
<1> SUFFICES ASSUME IInv PROVE TypeOK
  OBVIOUS
<1>1. RowTypeOK
  BY DEF IInv, RowInv
<1>2. \A t \in Tabs : history[t].at \in 1..Len(history[t].states) /\ Len(history[t].states) <= HistoryCap
  BY TabFacts DEF IInv, GoodEditor, GoodStudio, HistoryOf
<1>3. \A e \in Editors : history[e].states \in Seq(Bodies) /\ (Mounted(e) => editor[e].current \in DOMAIN editor[e].pages)
  BY DEF IInv, GoodEditor, HistoryOf, Paged
<1>4. \A s \in Studios : history[s].states \in Seq(Documents)
  BY DEF IInv, GoodStudio, HistoryOf
<1>5. puts \subseteq PutState
  BY DEF IInv, GoodPut
<1> QED
  BY <1>1, <1>2, <1>3, <1>4, <1>5 DEF IInv, Shapes, TypeOK, Modes, EditorState

LEMMA InvInit == Init => IInv
<1> SUFFICES ASSUME Init PROVE IInv
  OBVIOUS
<1>1. FirstDoc \in Documents /\ Whole(FirstDoc) /\ FirstDoc.title \in Titles
  BY EditingAssumption DEF EditingAssumption, Documents
<1>2. RowInv
  <2>1. /\ row \in [state : {"there", "discarded", "purged", "deleted"}, draft : BOOLEAN, doc : Documents]
        /\ row.doc = FirstDoc /\ row.state = "there"
    BY <1>1 DEF Init
  <2>2. /\ log = <<FirstDoc>> /\ times = <<0>> /\ versions = {}
        /\ log \in Seq(Documents) /\ times \in Seq(Nat)
        /\ Len(log) = 1 /\ log[1] = FirstDoc /\ DOMAIN log = 1..1
        /\ Len(times) = 1 /\ times[1] = 0 /\ DOMAIN times = 1..1
    BY <1>1 DEF Init
  <2>3. IsFiniteSet({}) /\ Cardinality({}) = 0
    BY FS_EmptySet
  <2>4. VersionsAreThePast /\ Dated
    <3>1. VersionCap \in Nat \ {0}
      BY RowAssumption DEF RowAssumption
    <3> QED
      BY <2>1, <2>2, <2>3, <3>1 DEF VersionsAreThePast, Dated, Now
  <2>5. SavedReportsStay /\ Drafted /\ LogIsWhole
    BY <1>1, <2>1, <2>2 DEF SavedReportsStay, Drafted, LogIsWhole
  <2> QED
    BY <2>1, <2>2, <2>3, <2>4, <2>5 DEF RowInv, RowTypeOK
<1>3. Blank(None) \in Bodies /\ \A p \in PageIds : Blank(p) \in Bodies
  BY DEF Blank, Bodies
<1>4. /\ \A e \in Editors : history[e] = NewHistory(Blank(None))
      /\ \A s \in Studios : history[s] = NewHistory(FirstDoc)
  BY TabFacts DEF Init
<1>5. /\ HistoryOf(Bodies, NewHistory(Blank(None)))
      /\ HistoryOf(Documents, NewHistory(FirstDoc))
      /\ NewHistory(FirstDoc).states = <<FirstDoc>>
  BY <1>1, <1>3, NewHistoryFacts
<1>6. Shapes
  <2>1. NoEditor \in EditorState
    BY <1>1, <1>3 DEF NoEditor, EditorState
  <2>2. history \in [Tabs -> Histories]
    <3>1. \A t \in Tabs : history[t] \in Histories
      BY <1>4, <1>5, TabFacts DEF HistoryOf, Histories
    <3> QED
      BY <3>1 DEF Init
  <2> QED
    BY <2>1, <2>2 DEF Init, Shapes, Modes
<1>7. /\ \A e \in Editors : GoodEditor(e)
      /\ \A t \in Tabs : KnowsLog(t)
  <2>1. \A t \in Tabs : ~Mounted(t)
    BY DEF Init, Mounted
  <2> QED
    BY <1>4, <1>5, <2>1, TabFacts DEF GoodEditor, KnowsLog
<1>8. \A s \in Studios : GoodStudio(s)
  BY <1>1, <1>4, <1>5 DEF GoodStudio
<1>9. 0 \in 0..MaxActs
  BY EditingAssumption DEF EditingAssumption
<1> QED
  BY <1>2, <1>6, <1>7, <1>8, <1>9 DEF Init, IInv

-----------------------------------------------------------------------------
(* Steps that leave the row alone. *)

LEMMA RowStays ==
    ASSUME IInv, UNCHANGED rowVars
    PROVE  RowInv' /\ UNCHANGED <<row, versions, log, times>> /\ ToSet(log)' = ToSet(log)
<1>1. UNCHANGED <<row, versions, log, times>>
  BY DEF rowVars
<1> QED
  BY <1>1, RowDropped DEF IInv

\* The record of one tab grows, is undone or redone; an editor turns its pages.
LEMMA TabRecords ==
    ASSUME IInv, NEW t \in Tabs, NEW h,
           t \in Editors => HistoryOf(Bodies, h),
           t \in Studios => HistoryOf(Documents, h) /\ \A i \in DOMAIN h.states : Whole(h.states[i]),
           history' = [history EXCEPT ![t] = h],
           UNCHANGED rowVars, UNCHANGED <<mode, given, saved, isDraft, saving, puts, dropping>>,
           acts' \in 0..MaxActs,
           editor' \in [Editors -> EditorState],
           \A e \in Editors \ {t} : editor'[e] = editor[e],
           t \in Editors /\ Mounted(t) => Paged(editor'[t])
    PROVE  IInv'
<1>1. RowInv' /\ ToSet(log)' = ToSet(log)
  BY RowStays
<1>2. h \in Histories
  BY TabFacts DEF HistoryOf, Histories
<1>3. history' \in [Tabs -> Histories] /\ history'[t] = h /\ \A u \in Tabs \ {t} : history'[u] = history[u]
  BY <1>2 DEF IInv, Shapes
<1>4. Shapes'
  BY <1>3 DEF IInv, Shapes
<1>5. t \in Editors => GoodEditor(t)'
  BY <1>3 DEF GoodEditor, Mounted
<1>6. t \in Studios => GoodStudio(t)'
  BY <1>3 DEF GoodStudio
<1>7. KnowsLog(t)'
  BY <1>1 DEF IInv, KnowsLog, Mounted
<1>8. \A p \in puts' : GoodPut(p)'
  BY <1>1, PutsStay DEF Mounted
<1> QED
  BY <1>1, <1>3, <1>4, <1>5, <1>6, <1>7, <1>8, TabStep DEF IInv

\* Something is recorded.
LEMMA TabPushes ==
    ASSUME IInv, NEW t \in Tabs, NEW x,
           t \in Editors => x \in Bodies,
           t \in Studios => x \in Documents /\ Whole(x)
    PROVE  /\ t \in Editors => HistoryOf(Bodies, Pushed(history[t], x))
           /\ t \in Studios => /\ HistoryOf(Documents, Pushed(history[t], x))
                               /\ \A i \in DOMAIN Pushed(history[t], x).states : Whole(Pushed(history[t], x).states[i])
<1>1. ASSUME t \in Editors PROVE HistoryOf(Bodies, Pushed(history[t], x))
  <2>1. HistoryOf(Bodies, history[t])
    BY <1>1 DEF IInv, GoodEditor
  <2> QED
    BY <1>1, <2>1, PushedFacts
<1>2. ASSUME t \in Studios
      PROVE  /\ HistoryOf(Documents, Pushed(history[t], x))
             /\ \A i \in DOMAIN Pushed(history[t], x).states : Whole(Pushed(history[t], x).states[i])
  <2>1. HistoryOf(Documents, history[t]) /\ \A i \in DOMAIN history[t].states : Whole(history[t].states[i])
    BY <1>2 DEF IInv, GoodStudio
  <2>2. /\ HistoryOf(Documents, Pushed(history[t], x))
        /\ \A i \in DOMAIN Pushed(history[t], x).states :
             Pushed(history[t], x).states[i] = x
             \/ \E j \in DOMAIN history[t].states : Pushed(history[t], x).states[i] = history[t].states[j]
    BY <1>2, <2>1, PushedFacts
  <2> QED
    BY <1>2, <2>1, <2>2
<1> QED
  BY <1>1, <1>2

LEMMA ActFacts ==
    ASSUME IInv, NEW name, Act(name)
    PROVE  acts' \in 0..MaxActs /\ acts' = acts + 1 /\ acts' # acts /\ NewRev \in Nat
<1>1. acts \in 0..MaxActs /\ MaxActs \in Nat
  BY EditingAssumption DEF IInv, EditingAssumption
<1> QED
  BY <1>1 DEF Act, NewRev

LEMMA Changes ==
    ASSUME IInv, NEW t \in Tabs,
           \/ t \in Editors /\ Edit(t)
           \/ t \in Studios /\ (\E i \in 1..Len(Shown(t).pages) : ApplyCard(t, i))
           \/ t \in Studios /\ (\E title \in Titles : RetitleStudio(t, title))
    PROVE  IInv'
<1>1. ASSUME NEW x, t \in Editors => x \in Bodies, t \in Studios => x \in Documents /\ Whole(x),
             Record(t, x), OnlyHistory, acts' \in 0..MaxActs
      PROVE  IInv'
  <2>1. /\ t \in Editors => HistoryOf(Bodies, Pushed(history[t], x))
        /\ t \in Studios => /\ HistoryOf(Documents, Pushed(history[t], x))
                            /\ \A i \in DOMAIN Pushed(history[t], x).states : Whole(Pushed(history[t], x).states[i])
    BY <1>1, TabPushes
  <2>2. history' = [history EXCEPT ![t] = Pushed(history[t], x)]
    BY <1>1 DEF Record
  <2>3. editor' = editor /\ (t \in Editors /\ Mounted(t) => Paged(editor[t]))
    BY <1>1 DEF OnlyHistory, IInv, GoodEditor
  <2> QED
    BY <1>1, <2>1, <2>2, <2>3, TabRecords DEF OnlyHistory, IInv, Shapes
<1>2. CASE t \in Editors /\ Edit(t)
  <2>1. t \notin Studios
    BY <1>2, TabFacts
  <2>2. acts' \in 0..MaxActs /\ NewRev \in Nat
    BY <1>2, ActFacts DEF Edit
  <2>3. [Shown(t) EXCEPT !.rev = NewRev] \in Bodies
    BY <1>2, <2>2, ShownFacts DEF Bodies
  <2> QED
    BY <1>1, <1>2, <2>1, <2>2, <2>3 DEF Edit
<1>3. ASSUME t \in Studios, NEW i \in 1..Len(Shown(t).pages), ApplyCard(t, i) PROVE IInv'
  <2>1. t \notin Editors
    BY <1>3, TabFacts
  <2>2. acts' \in 0..MaxActs /\ NewRev \in Nat
    BY <1>3, ActFacts DEF ApplyCard
  <2> DEFINE d == [Shown(t) EXCEPT !.pages[i].body.rev = NewRev]
  <2>3. Shown(t) \in Documents /\ Whole(Shown(t)) /\ i \in DOMAIN Shown(t).pages
    BY <1>3, ShownFacts DEF ApplyCard
  <2>4. d \in Documents /\ Whole(d)
    BY <2>2, <2>3, Restyled
  <2>5. Record(t, d) /\ OnlyHistory
    BY <1>3 DEF ApplyCard
  <2> HIDE DEF d
  <2> QED
    BY <1>1, <2>1, <2>2, <2>4, <2>5
<1>4. ASSUME t \in Studios, NEW title \in Titles, RetitleStudio(t, title) PROVE IInv'
  <2>1. t \notin Editors
    BY <1>4, TabFacts
  <2>2. acts' \in 0..MaxActs
    BY <1>4, ActFacts DEF RetitleStudio
  <2> DEFINE d == [Shown(t) EXCEPT !.title = title]
  <2>3. Shown(t) \in Documents /\ Whole(Shown(t))
    BY <1>4, ShownFacts
  <2>4. d \in Documents /\ Whole(d)
    BY <2>3, Retitled
  <2>5. Record(t, d) /\ OnlyHistory
    BY <1>4 DEF RetitleStudio
  <2> HIDE DEF d
  <2> QED
    BY <1>1, <2>1, <2>2, <2>4, <2>5
<1> QED
  BY <1>2, <1>3, <1>4

LEMMA UndoRedo ==
    ASSUME IInv, NEW t \in Tabs, Undo(t) \/ Redo(t)
    PROVE  IInv'
<1> DEFINE n == IF Undo(t) THEN history[t].at - 1 ELSE history[t].at + 1
           h == [history[t] EXCEPT !.at = n]
<1>1. acts' \in 0..MaxActs /\ OnlyHistory
  BY ActFacts DEF Undo, Redo
<1>2. /\ history[t] \in Histories /\ history[t].at \in 1..Len(history[t].states)
      /\ Len(history[t].states) \in Nat
  BY TabFacts DEF IInv, Shapes, GoodEditor, GoodStudio, HistoryOf
<1>3. n \in 1..Len(history[t].states) /\ n \in Nat
  <2>1. CASE Undo(t)
    BY <1>2, <2>1 DEF Undo
  <2>2. CASE ~Undo(t) /\ Redo(t)
    BY <1>2, <2>2 DEF Redo
  <2> QED
    BY <2>1, <2>2
<1>4. history' = [history EXCEPT ![t] = h]
  <2>1. CASE Undo(t)
    BY <1>2, <2>1 DEF Undo
  <2>2. CASE ~Undo(t) /\ Redo(t)
    BY <1>2, <2>2 DEF Redo
  <2> QED
    BY <2>1, <2>2
<1> HIDE DEF n
<1>5. h.states = history[t].states /\ h.at = n
  BY <1>2 DEF Histories
<1>6. t \in Editors => HistoryOf(Bodies, h)
  BY <1>3, <1>5 DEF IInv, GoodEditor, HistoryOf
<1>7. t \in Studios => HistoryOf(Documents, h) /\ \A i \in DOMAIN h.states : Whole(h.states[i])
  BY <1>3, <1>5 DEF IInv, GoodStudio, HistoryOf
<1>8. editor' = editor /\ (t \in Editors /\ Mounted(t) => Paged(editor[t]))
  BY <1>1 DEF OnlyHistory, IInv, GoodEditor
<1> HIDE DEF h
<1> QED
  BY <1>1, <1>4, <1>6, <1>7, <1>8, TabRecords DEF OnlyHistory, IInv, Shapes

-----------------------------------------------------------------------------
(* Pages of an editor. *)

LEMMA Showing ==
    ASSUME IInv, NEW e \in Editors, Mounted(e), NEW ids \in Seq(PageIds),
           NEW i \in DOMAIN ids,
           \A j, k \in DOMAIN ids : ids[j] = ids[k] => j = k,
           NEW aside \in [PageIds -> Bodies],
           ShowPage(e, ids, i, aside), acts' \in 0..MaxActs
    PROVE  IInv'
<1>1. ids[i] \in PageIds /\ i \in Nat
  BY SeqFacts
<1>2. aside[ids[i]] \in Bodies /\ e \in Tabs /\ e \notin Studios
  BY <1>1, TabFacts
<1>3. HistoryOf(Bodies, Pushed(history[e], aside[ids[i]]))
  BY <1>2, TabPushes
<1>4. history' = [history EXCEPT ![e] = Pushed(history[e], aside[ids[i]])]
  BY DEF ShowPage, Record
<1> DEFINE ed == [editor[e] EXCEPT !.pages = ids, !.current = i, !.aside = aside]
<1>5. editor \in [Editors -> EditorState] /\ editor[e] \in EditorState
  BY DEF IInv, Shapes
<1>6. ed \in EditorState /\ ed.pages = ids /\ ed.current = i
  BY <1>1, <1>5 DEF EditorState
<1>7. editor' = [editor EXCEPT ![e] = ed]
  BY <1>5 DEF ShowPage
<1> HIDE DEF ed
<1>8. /\ editor' \in [Editors -> EditorState] /\ editor'[e] = ed
      /\ \A f \in Editors \ {e} : editor'[f] = editor[f]
  BY <1>5, <1>6, <1>7
<1>9. Paged(editor'[e])
  BY <1>6, <1>8 DEF Paged
<1> QED
  BY <1>2, <1>3, <1>4, <1>8, <1>9, TabRecords DEF ShowPage

\* A sequence without its element i.
LEMMA Removed ==
    ASSUME NEW S, NEW s \in Seq(S), NEW i \in DOMAIN s
    PROVE  /\ RemoveAt(s, i) \in Seq(S) /\ Len(RemoveAt(s, i)) = Len(s) - 1
           /\ \A j \in 1..(Len(s) - 1) : RemoveAt(s, i)[j] = IF j < i THEN s[j] ELSE s[j + 1]
<1> DEFINE a == SubSeq(s, 1, i - 1)
           b == SubSeq(s, i + 1, Len(s))
<1>1. Len(s) \in Nat /\ DOMAIN s = 1..Len(s) /\ i \in 1..Len(s) /\ \A j \in 1..Len(s) : s[j] \in S
  BY SeqFacts
<1>2. a \in Seq(S) /\ Len(a) = i - 1 /\ \A j \in 1..(i - 1) : a[j] = s[j]
  BY <1>1, Prefix
<1>3. /\ b \in Seq(S)
      /\ Len(b) = IF i + 1 <= Len(s) THEN Len(s) - (i + 1) + 1 ELSE 0
      /\ \A j \in 1..(Len(s) - (i + 1) + 1) : b[j] = s[(i + 1) + j - 1]
  <2>1. i + 1 \in Int /\ Len(s) \in Int /\ \A j \in (i + 1)..Len(s) : s[j] \in S
    BY <1>1
  <2> QED
    BY <2>1, SubSeqProperties
<1> HIDE DEF a, b
<1>4. Len(b) = Len(s) - i /\ \A j \in 1..(Len(s) - i) : b[j] = s[i + j]
  <2>1. Len(b) = Len(s) - i
    BY <1>1, <1>3
  <2>2. ASSUME NEW j \in 1..(Len(s) - i) PROVE b[j] = s[i + j]
    <3>1. j \in 1..(Len(s) - (i + 1) + 1) /\ (i + 1) + j - 1 = i + j
      BY <1>1
    <3> QED
      BY <1>3, <3>1
  <2> QED
    BY <2>1, <2>2
<1>5. /\ a \o b \in Seq(S) /\ Len(a \o b) = Len(a) + Len(b)
      /\ \A j \in 1..(Len(a) + Len(b)) : (a \o b)[j] = IF j <= Len(a) THEN a[j] ELSE b[j - Len(a)]
  BY <1>2, <1>3, ConcatProperties
<1>6. Len(a) + Len(b) = Len(s) - 1
  BY <1>1, <1>2, <1>4
<1>7. ASSUME NEW j \in 1..(Len(s) - 1) PROVE (a \o b)[j] = IF j < i THEN s[j] ELSE s[j + 1]
  <2>1. CASE j < i
    <3>1. j <= Len(a) /\ j \in 1..(i - 1)
      BY <1>1, <1>2, <2>1
    <3> QED
      BY <1>2, <1>5, <1>6, <2>1, <3>1
  <2>2. CASE ~(j < i)
    <3>1. ~(j <= Len(a)) /\ j - Len(a) \in 1..(Len(s) - i) /\ i + (j - Len(a)) = j + 1
      BY <1>1, <1>2, <2>2
    <3> QED
      BY <1>4, <1>5, <1>6, <2>2, <3>1
  <2> QED
    BY <2>1, <2>2
<1> QED
  BY <1>5, <1>6, <1>7 DEF RemoveAt, a, b

\* An id none of the pages has.
LEMMA PagesGrow ==
    ASSUME IInv, NEW e \in Editors, Mounted(e), NEW p \in PageIds, p \notin Ids(editor[e].pages)
    PROVE  LET ids == Append(editor[e].pages, p) IN
           /\ ids \in Seq(PageIds) /\ Len(editor[e].pages) + 1 \in DOMAIN ids
           /\ \A j, k \in DOMAIN ids : ids[j] = ids[k] => j = k
<1> DEFINE s == editor[e].pages
           ids == Append(s, p)
<1>1. s \in Seq(PageIds) /\ Len(s) \in Nat /\ DOMAIN s = 1..Len(s) /\ Paged(editor[e])
  BY EditorFacts DEF EditorState
<1>2. /\ ids \in Seq(PageIds) /\ Len(ids) = Len(s) + 1 /\ ids[Len(s) + 1] = p
      /\ \A j \in 1..Len(s) : ids[j] = s[j]
  BY <1>1, ToSetAppend
<1>3. /\ \A j \in 1..Len(s) : s[j] # p
      /\ \A j, k \in 1..Len(s) : s[j] = s[k] => j = k
  BY <1>1 DEF Ids, Paged
<1> HIDE DEF s, ids
<1>4. DOMAIN ids = 1..(Len(s) + 1) /\ Len(s) + 1 \in DOMAIN ids
  BY <1>1, <1>2
<1>5. ASSUME NEW j \in DOMAIN ids, NEW k \in DOMAIN ids, ids[j] = ids[k] PROVE j = k
  <2>1. (j \in 1..Len(s) \/ j = Len(s) + 1) /\ (k \in 1..Len(s) \/ k = Len(s) + 1)
    BY <1>1, <1>4
  <2> QED
    BY <1>2, <1>3, <1>5, <2>1
<1> QED
  BY <1>2, <1>4, <1>5 DEF ids, s

LEMMA PagesStep ==
    ASSUME IInv, NEW e \in Editors,
           \/ \E i \in 1..Len(editor[e].pages) : SwitchPage(e, i) \/ DeletePage(e, i)
           \/ \E p \in PageIds : AddPage(e, p) \/ \E i \in 1..Len(editor[e].pages) : CopyPage(e, i, p)
    PROVE  IInv'
<1> DEFINE s == editor[e].pages
<1>1. /\ s \in Seq(PageIds) /\ Len(s) \in Nat /\ DOMAIN s = 1..Len(s)
      /\ \A i \in DOMAIN s : s[i] \in PageIds
      /\ editor[e].aside \in [PageIds -> Bodies]
  BY EditorFacts DEF EditorState
<1>2. Mounted(e) /\ acts' \in 0..MaxActs
  BY ActFacts DEF SwitchPage, DeletePage, AddPage, CopyPage, Mounted
<1>3. PutAside(e) \in [PageIds -> Bodies] /\ Paged(editor[e])
  BY <1>2, AsideFacts, EditorFacts
<1>4. ASSUME NEW i \in 1..Len(s), SwitchPage(e, i) PROVE IInv'
  <2>1. i \in DOMAIN s /\ ShowPage(e, s, i, PutAside(e))
    BY <1>4 DEF SwitchPage
  <2>2. \A j, k \in DOMAIN s : s[j] = s[k] => j = k
    BY <1>3 DEF Paged
  <2> HIDE DEF s
  <2> QED
    BY <1>1, <1>2, <1>3, <2>1, <2>2, Showing
<1>5. ASSUME NEW i \in 1..Len(s), DeletePage(e, i) PROVE IInv'
  <2> DEFINE ids == RemoveAt(s, i)
             n == IF i > Len(ids) THEN Len(ids) ELSE i
             aside == [editor[e].aside EXCEPT ![s[i]] = Blank(s[i])]
  <2>1. Len(s) > 1 /\ i \in DOMAIN s /\ ShowPage(e, ids, n, aside)
    BY <1>5 DEF DeletePage
  <2>2. /\ ids \in Seq(PageIds) /\ Len(ids) = Len(s) - 1
        /\ \A j \in 1..(Len(s) - 1) : ids[j] = IF j < i THEN s[j] ELSE s[j + 1]
    BY <1>1, <2>1, Removed
  <2>3. aside \in [PageIds -> Bodies]
    BY <1>1, <2>1 DEF Blank, Bodies
  <2>4. \A j, k \in 1..Len(s) : s[j] = s[k] => j = k
    BY <1>1, <1>3 DEF Paged
  <2> HIDE DEF ids, aside, s
  <2>5. DOMAIN ids = 1..(Len(s) - 1) /\ n \in DOMAIN ids
    BY <1>1, <2>1, <2>2
  <2>6. ASSUME NEW j \in DOMAIN ids, NEW k \in DOMAIN ids, ids[j] = ids[k] PROVE j = k
    <3>1. /\ j \in 1..Len(s) /\ j + 1 \in 1..Len(s) /\ k \in 1..Len(s) /\ k + 1 \in 1..Len(s)
          /\ ids[j] = (IF j < i THEN s[j] ELSE s[j + 1])
          /\ ids[k] = (IF k < i THEN s[k] ELSE s[k + 1])
      BY <1>1, <2>2, <2>5
    <3>2. CASE j < i /\ k < i
      BY <2>4, <2>6, <3>1, <3>2
    <3>3. CASE j < i /\ ~(k < i)
      <4>1. j = k + 1
        BY <2>4, <2>6, <3>1, <3>3
      <4> QED
        BY <3>1, <3>3, <4>1
    <3>4. CASE ~(j < i) /\ k < i
      <4>1. j + 1 = k
        BY <2>4, <2>6, <3>1, <3>4
      <4> QED
        BY <3>1, <3>4, <4>1
    <3>5. CASE ~(j < i) /\ ~(k < i)
      <4>1. j + 1 = k + 1
        BY <2>4, <2>6, <3>1, <3>5
      <4> QED
        BY <3>1, <4>1
    <3> QED
      BY <3>2, <3>3, <3>4, <3>5
  <2> HIDE DEF n
  <2> QED
    BY <1>2, <2>1, <2>2, <2>3, <2>5, <2>6, Showing
<1>6. ASSUME NEW p \in PageIds, NEW b \in Bodies, Unused(p),
             ShowPage(e, Append(s, p), Len(s) + 1, [PutAside(e) EXCEPT ![p] = b])
      PROVE  IInv'
  <2>1. p \notin Ids(s)
    BY <1>6 DEF Unused
  <2> DEFINE ids == Append(s, p)
             aside == [PutAside(e) EXCEPT ![p] = b]
  <2>2. /\ ids \in Seq(PageIds) /\ Len(s) + 1 \in DOMAIN ids
        /\ \A j, k \in DOMAIN ids : ids[j] = ids[k] => j = k
    BY <1>2, <2>1, PagesGrow
  <2>3. aside \in [PageIds -> Bodies]
    BY <1>3, <1>6
  <2> HIDE DEF ids, aside, s
  <2>4. ShowPage(e, ids, Len(s) + 1, aside)
    BY <1>6 DEF ids, aside
  <2> QED
    BY <1>2, <2>2, <2>3, <2>4, Showing
<1>7. ASSUME NEW p \in PageIds, AddPage(e, p) PROVE IInv'
  <2>1. Blank(p) \in Bodies
    BY DEF Blank, Bodies
  <2> QED
    BY <1>6, <1>7, <2>1 DEF AddPage
<1>8. ASSUME NEW p \in PageIds, NEW i \in 1..Len(s), CopyPage(e, i, p) PROVE IInv'
  <2> DEFINE b == [page |-> p, rev |-> PutAside(e)[s[i]].rev]
  <2>1. b \in Bodies
    BY <1>1, <1>3 DEF Bodies
  <2>2. Unused(p) /\ ShowPage(e, Append(s, p), Len(s) + 1, [PutAside(e) EXCEPT ![p] = b])
    BY <1>8 DEF CopyPage
  <2> HIDE DEF b
  <2> QED
    BY <1>6, <2>1, <2>2
<1> QED
  BY <1>4, <1>5, <1>7, <1>8

\* What changes an editor and not what it records.
LEMMA EditorChanges ==
    ASSUME IInv, NEW e \in Editors,
           \/ \E t \in Titles : Retitle(e, t)
           \/ \E i \in 1..Len(editor[e].pages) : RestyleElsewhere(e, i)
    PROVE  IInv'
<1>1. /\ editor \in [Editors -> EditorState] /\ editor[e] \in EditorState
      /\ DOMAIN editor[e].pages = 1..Len(editor[e].pages)
      /\ \A i \in DOMAIN editor[e].pages : editor[e].pages[i] \in PageIds
      /\ Mounted(e) => Paged(editor[e])
  BY EditorFacts DEF IInv, Shapes
<1>2. ASSUME NEW ed \in EditorState, ed.pages = editor[e].pages, ed.current = editor[e].current,
             editor' = [editor EXCEPT ![e] = ed], acts' \in 0..MaxActs,
             UNCHANGED rowVars, UNCHANGED <<mode, history, given, saved, isDraft, saving, puts, dropping>>
      PROVE  IInv'
  <2>1. /\ editor' \in [Editors -> EditorState] /\ editor'[e] = ed
        /\ \A f \in Editors \ {e} : editor'[f] = editor[f]
    BY <1>1, <1>2
  <2>2. Mounted(e) => Paged(editor'[e])
    BY <1>1, <1>2, <2>1 DEF Paged
  <2>3. history' = [history EXCEPT ![e] = history[e]]
    BY <1>2 DEF IInv, Shapes
  <2>4. HistoryOf(Bodies, history[e])
    BY DEF IInv, GoodEditor
  <2>5. e \in Tabs /\ e \notin Studios
    BY TabFacts
  <2> QED
    BY <1>2, <2>1, <2>2, <2>3, <2>4, <2>5, TabRecords
<1>3. ASSUME NEW t \in Titles, Retitle(e, t) PROVE IInv'
  <2> DEFINE ed == [editor[e] EXCEPT !.title = t]
  <2>1. ed \in EditorState /\ ed.pages = editor[e].pages /\ ed.current = editor[e].current
    BY <1>1 DEF EditorState
  <2>2. editor' = [editor EXCEPT ![e] = ed]
    BY <1>3 DEF Retitle
  <2>3. acts' \in 0..MaxActs
    BY <1>3, ActFacts DEF Retitle
  <2> HIDE DEF ed
  <2> QED
    BY <1>2, <1>3, <2>1, <2>2, <2>3 DEF Retitle
<1>4. ASSUME NEW i \in 1..Len(editor[e].pages), RestyleElsewhere(e, i) PROVE IInv'
  <2> DEFINE q == editor[e].pages[i]
             aside == [editor[e].aside EXCEPT ![q] = [editor[e].aside[q] EXCEPT !.rev = NewRev]]
             ed == [editor[e] EXCEPT !.aside = aside]
  <2>1. acts' \in 0..MaxActs /\ NewRev \in Nat
    BY <1>4, ActFacts DEF RestyleElsewhere
  <2>2. q \in PageIds /\ editor[e].aside \in [PageIds -> Bodies]
    BY <1>1 DEF EditorState
  <2>3. aside \in [PageIds -> Bodies]
    BY <2>1, <2>2 DEF Bodies
  <2>4. editor' = [editor EXCEPT ![e] = ed]
    BY <1>4 DEF RestyleElsewhere
  <2> HIDE DEF aside
  <2>5. ed \in EditorState /\ ed.pages = editor[e].pages /\ ed.current = editor[e].current
    BY <1>1, <2>3 DEF EditorState
  <2> HIDE DEF ed
  <2> QED
    BY <1>2, <1>4, <2>1, <2>4, <2>5 DEF RestyleElsewhere
<1> QED
  BY <1>3, <1>4

-----------------------------------------------------------------------------
(* Opening and leaving. *)

\* Only where a tab stands changes, and which navigation an answer lets through.
LEMMA ModeStep ==
    ASSUME IInv, NEW t \in Tabs, NEW m \in Modes,
           m \in {"open", "asked", "leaving"} => Mounted(t),
           Mounted(t) => m \in {"open", "asked", "leaving"},
           mode' = [mode EXCEPT ![t] = m],
           UNCHANGED rowVars, UNCHANGED <<editor, history, given, saved, isDraft, saving, dropping>>,
           puts' = puts \/ puts' = {[p EXCEPT !.leave = p.leave /\ p.of # t] : p \in puts},
           acts' \in 0..MaxActs
    PROVE  IInv'
<1>1. RowInv' /\ ToSet(log)' = ToSet(log)
  BY RowStays
<1>2. /\ mode' \in [Tabs -> Modes] /\ mode'[t] = m
      /\ \A u \in Tabs \ {t} : mode'[u] = mode[u]
  BY DEF IInv, Shapes
<1>3. \A u \in Tabs : Mounted(u)' <=> Mounted(u)
  BY <1>2 DEF Mounted
<1>4. Shapes'
  BY <1>2 DEF IInv, Shapes
<1>5. /\ t \in Editors => GoodEditor(t)'
      /\ t \in Studios => GoodStudio(t)'
      /\ KnowsLog(t)'
  BY <1>1, <1>3 DEF IInv, GoodEditor, GoodStudio, KnowsLog
<1>6. \A p \in puts' : GoodPut(p)'
  <2>1. CASE puts' = puts
    BY <1>1, <1>3, <2>1, PutsStay
  <2>2. CASE puts' = {[p EXCEPT !.leave = p.leave /\ p.of # t] : p \in puts}
    <3> SUFFICES ASSUME NEW q \in puts' PROVE GoodPut(q)'
      OBVIOUS
    <3>1. PICK p \in puts : q = [p EXCEPT !.leave = p.leave /\ p.of # t]
      BY <2>2
    <3>2. GoodPut(p) /\ p \in PutState
      BY DEF IInv, GoodPut
    <3>3. /\ q \in PutState /\ q.doc = p.doc /\ q.auto = p.auto /\ q.reply = p.reply
          /\ q.title = p.title /\ q.of = p.of /\ p.of \in Tabs \cup {None}
      <4>1. (p.leave /\ p.of # t) \in BOOLEAN
        BY <3>2 DEF PutState
      <4> QED
        BY <3>1, <3>2, <4>1 DEF PutState
    <3>4. q.of # None => Mounted(q.of)'
      BY <1>3, <3>2, <3>3 DEF GoodPut
    <3> QED
      BY <1>1, <3>2, <3>3, <3>4 DEF GoodPut
  <2> QED
    BY <2>1, <2>2
<1> QED
  BY <1>1, <1>2, <1>4, <1>5, <1>6, TabStep DEF IInv

LEMMA Waiting ==
    ASSUME IInv, NEW t \in Tabs, Open(t) \/ Gone(t) \/ Stay(t)
    PROVE  IInv'
<1>1. CASE Open(t)
  BY <1>1, ModeStep DEF Open, Mounted, Modes, IInv
<1>2. CASE Gone(t)
  BY <1>2, ModeStep DEF Gone, Mounted, Modes, IInv
<1>3. CASE Stay(t)
  BY <1>3, ModeStep DEF Stay, Mounted, Modes, IInv
<1> QED
  BY <1>1, <1>2, <1>3

LEMMA Loading ==
    ASSUME IInv, NEW t \in Tabs,
           (t \in Editors /\ LoadEditor(t)) \/ (t \in Studios /\ LoadStudio(t))
    PROVE  IInv'
<1>1. /\ UNCHANGED rowVars /\ UNCHANGED <<puts, dropping, acts>>
      /\ mode[t] = "loading" /\ mode' = [mode EXCEPT ![t] = "open"]
      /\ saved' = [saved EXCEPT ![t] = row.doc] /\ isDraft' = [isDraft EXCEPT ![t] = row.draft]
      /\ saving' = saving
  BY DEF LoadEditor, LoadStudio
<1>2. RowInv' /\ ToSet(log)' = ToSet(log)
  BY <1>1, RowStays
<1>3. /\ row.doc \in Documents /\ Whole(row.doc) /\ row.doc \in ToSet(log)
      /\ row.draft \in BOOLEAN
  BY RowFacts DEF IInv, RowInv, RowTypeOK
<1>4. /\ mode' \in [Tabs -> Modes] /\ saved' \in [Tabs -> Documents \cup {NoDoc}]
      /\ isDraft' \in [Tabs -> BOOLEAN]
      /\ mode'[t] = "open" /\ saved'[t] = row.doc
      /\ \A u \in Tabs \ {t} : mode'[u] = mode[u] /\ saved'[u] = saved[u]
  BY <1>1, <1>3 DEF IInv, Shapes, Modes
<1>5. KnowsLog(t)'
  BY <1>2, <1>3, <1>4 DEF KnowsLog
<1>6. \A p \in puts' : GoodPut(p)'
  <2>1. \A u \in Tabs : Mounted(u) => Mounted(u)'
    BY <1>1, <1>4 DEF Mounted
  <2> QED
    BY <1>1, <1>2, <2>1, PutsStay
<1>7. /\ row.doc.title \in Titles /\ Len(row.doc.pages) \in Nat
      /\ DOMAIN row.doc.pages = 1..Len(row.doc.pages)
      /\ \A i \in DOMAIN row.doc.pages : row.doc.pages[i].id \in PageIds /\ row.doc.pages[i].body \in Bodies
      /\ 1 \in DOMAIN row.doc.pages
  <2>1. /\ row.doc.title \in Titles /\ row.doc.pages \in Seq(Page) /\ Len(row.doc.pages) \in Nat
        /\ DOMAIN row.doc.pages = 1..Len(row.doc.pages)
        /\ \A i \in DOMAIN row.doc.pages : row.doc.pages[i].id \in PageIds /\ row.doc.pages[i].body \in Bodies
    BY <1>3, DocFacts
  <2>2. Len(row.doc.pages) # 0
    BY <1>3, <2>1 DEF Whole
  <2> QED
    BY <2>1, <2>2
<1>8. CASE t \in Editors /\ LoadEditor(t)
  <2> DEFINE ids == [i \in DOMAIN row.doc.pages |-> row.doc.pages[i].id]
             ed == [pages |-> ids, current |-> 1, aside |-> Bodied(row.doc), title |-> row.doc.title]
             h == Pushed(NewHistory(Blank(None)), row.doc.pages[1].body)
  <2>1. Bodied(row.doc) \in [PageIds -> Bodies]
    <3>1. \A p \in PageIds : Blank(p) \in Bodies
      BY DEF Blank, Bodies
    <3>2. ASSUME NEW p \in PageIds, \E i \in DOMAIN row.doc.pages : row.doc.pages[i].id = p
          PROVE  row.doc.pages[CHOOSE i \in DOMAIN row.doc.pages : row.doc.pages[i].id = p].body \in Bodies
      <4>1. (CHOOSE i \in DOMAIN row.doc.pages : row.doc.pages[i].id = p) \in DOMAIN row.doc.pages
        BY <3>2
      <4> QED
        BY <1>7, <4>1
    <3> QED
      BY <3>1, <3>2 DEF Bodied
  <2>2. ids \in Seq(PageIds) /\ DOMAIN ids = DOMAIN row.doc.pages
    <3>1. ids \in [1..Len(row.doc.pages) -> PageIds]
      BY <1>7
    <3> QED
      BY <1>7, <3>1, SeqDef
  <2>3. \A i \in DOMAIN row.doc.pages : ids[i] = row.doc.pages[i].id
    OBVIOUS
  <2> HIDE DEF ids
  <2>4. ed \in EditorState /\ Paged(ed)
    <3>1. ed \in EditorState
      BY <1>7, <2>1, <2>2 DEF EditorState
    <3>2. Paged(ed)
      BY <1>3, <1>7, <2>2, <2>3 DEF Paged, Whole
    <3> QED
      BY <3>1, <3>2
  <2>5. HistoryOf(Bodies, h)
    <3>1. Blank(None) \in Bodies /\ row.doc.pages[1].body \in Bodies
      BY <1>7 DEF Blank, Bodies
    <3>2. HistoryOf(Bodies, NewHistory(Blank(None)))
      BY <3>1, NewHistoryFacts
    <3> QED
      BY <3>1, <3>2, PushedFacts
  <2>6. editor' = [editor EXCEPT ![t] = ed] /\ history' = [history EXCEPT ![t] = h] /\ given' = given
    BY <1>8 DEF LoadEditor, ids
  <2> HIDE DEF ed, h
  <2>7. /\ editor' \in [Editors -> EditorState] /\ editor'[t] = ed
        /\ \A e \in Editors \ {t} : editor'[e] = editor[e]
    BY <1>8, <2>4, <2>6 DEF IInv, Shapes
  <2>8. /\ history' \in [Tabs -> Histories] /\ history'[t] = h
        /\ \A u \in Tabs \ {t} : history'[u] = history[u]
    <3>1. h \in Histories
      BY <2>5 DEF HistoryOf, Histories
    <3> QED
      BY <2>6, <3>1 DEF IInv, Shapes
  <2>9. GoodEditor(t)'
    BY <2>4, <2>5, <2>7, <2>8 DEF GoodEditor
  <2>10. Shapes'
    BY <1>1, <1>4, <2>6, <2>7, <2>8 DEF IInv, Shapes
  <2>11. t \notin Studios
    BY <1>8, TabFacts
  <2> QED
    BY <1>1, <1>2, <1>4, <1>5, <1>6, <2>7, <2>8, <2>9, <2>10, <2>11, TabStep DEF IInv
<1>9. CASE t \in Studios /\ LoadStudio(t)
  <2> DEFINE h == NewHistory(row.doc)
             g == IF row.draft THEN row.doc.title ELSE None
  <2>1. HistoryOf(Documents, h) /\ \A i \in DOMAIN h.states : Whole(h.states[i])
    BY <1>3, NewHistoryFacts
  <2>2. editor' = editor /\ history' = [history EXCEPT ![t] = h] /\ given' = [given EXCEPT ![t] = g]
    BY <1>9 DEF LoadStudio
  <2>3. g \in Titles \cup {None}
    BY <1>7
  <2> HIDE DEF h, g
  <2>4. /\ history' \in [Tabs -> Histories] /\ history'[t] = h
        /\ \A u \in Tabs \ {t} : history'[u] = history[u]
    <3>1. h \in Histories
      BY <2>1 DEF HistoryOf, Histories
    <3> QED
      BY <2>2, <3>1 DEF IInv, Shapes
  <2>5. given' \in [Studios -> Titles \cup {None}]
    BY <2>2, <2>3 DEF IInv, Shapes
  <2>6. Shapes'
    BY <1>1, <1>4, <2>2, <2>4, <2>5 DEF IInv, Shapes
  <2>7. GoodStudio(t)'
    BY <2>1, <2>4 DEF GoodStudio
  <2>8. t \notin Editors
    BY <1>9, TabFacts
  <2> QED
    BY <1>1, <1>2, <1>4, <1>5, <1>6, <2>2, <2>4, <2>6, <2>7, <2>8, TabStep DEF IInv
<1> QED
  BY <1>8, <1>9

LEMMA Closing ==
    ASSUME IInv, NEW t \in Tabs, Closed(t), UNCHANGED rowVars,
           puts' \subseteq Orphaned(t), dropping' \subseteq Tabs, acts' \in 0..MaxActs
    PROVE  IInv'
<1>1. RowInv' /\ ToSet(log)' = ToSet(log)
  BY RowStays
<1>2. /\ FirstDoc \in Documents /\ Whole(FirstDoc) /\ FirstDoc.title \in Titles
      /\ Blank(None) \in Bodies /\ \A p \in PageIds : Blank(p) \in Bodies
  BY EditingAssumption DEF EditingAssumption, Documents, Blank, Bodies
<1> DEFINE h == NewHistory(IF t \in Editors THEN Blank(None) ELSE FirstDoc)
<1>3. /\ t \in Editors => HistoryOf(Bodies, h)
      /\ t \in Studios => HistoryOf(Documents, h) /\ \A i \in DOMAIN h.states : Whole(h.states[i])
  <2>1. CASE t \in Editors
    BY <1>2, <2>1, NewHistoryFacts, TabFacts
  <2>2. CASE t \in Studios
    <3>1. h = NewHistory(FirstDoc)
      BY <2>2, TabFacts
    <3> HIDE DEF h
    <3> QED
      BY <1>2, <2>2, <3>1, NewHistoryFacts, TabFacts
  <2> QED
    BY <2>1, <2>2, TabFacts
<1>4. history' = [history EXCEPT ![t] = h]
  BY DEF Closed
<1> HIDE DEF h
<1>5. /\ history' \in [Tabs -> Histories] /\ history'[t] = h
      /\ \A u \in Tabs \ {t} : history'[u] = history[u]
  <2>1. h \in Histories
    BY <1>3, TabFacts DEF HistoryOf, Histories
  <2> QED
    BY <1>4, <2>1 DEF IInv, Shapes
<1>6. NoEditor \in EditorState
  BY <1>2 DEF NoEditor, EditorState
<1>7. /\ editor' \in [Editors -> EditorState]
      /\ \A e \in Editors \ {t} : editor'[e] = editor[e]
  BY <1>6 DEF Closed, IInv, Shapes
<1>8. /\ mode' \in [Tabs -> Modes] /\ mode'[t] = "away"
      /\ saved' \in [Tabs -> Documents \cup {NoDoc}]
      /\ isDraft' \in [Tabs -> BOOLEAN] /\ saving' \in [Tabs -> BOOLEAN]
      /\ given' \in [Studios -> Titles \cup {None}]
      /\ \A u \in Tabs \ {t} : mode'[u] = mode[u] /\ saved'[u] = saved[u]
  BY DEF Closed, IInv, Shapes, Modes
<1>9. Shapes'
  BY <1>5, <1>7, <1>8 DEF Shapes
<1>10. /\ t \in Editors => GoodEditor(t)'
       /\ t \in Studios => GoodStudio(t)'
       /\ KnowsLog(t)'
  BY <1>3, <1>5, <1>8 DEF GoodEditor, GoodStudio, KnowsLog, Mounted
<1>11. \A p \in puts' : GoodPut(p)'
  BY <1>1, <1>8, PutsOrphaned
<1> QED
  BY <1>1, <1>5, <1>7, <1>8, <1>9, <1>10, <1>11, TabStep

LEMMA Leaving ==
    ASSUME IInv, NEW t \in Tabs, Leave(t) \/ LeaveUnsaved(t) \/ Kill(t)
    PROVE  IInv'
<1>1. \A draft \in BOOLEAN : Unmount(t, draft) => Closed(t) /\ dropping' \subseteq Tabs
  BY DEF Unmount, IInv
<1>2. isDraft[t] \in BOOLEAN
  BY DEF IInv, Shapes
<1>3. CASE Leave(t) /\ Dirty(t)
  <2>1. acts' \in 0..MaxActs
    BY <1>3, ActFacts DEF Leave
  <2> QED
    BY <1>3, <2>1, ModeStep DEF Leave, Mounted, Modes
<1>4. CASE Leave(t) /\ ~Dirty(t)
  <2>1. acts' \in 0..MaxActs
    BY <1>4, ActFacts DEF Leave
  <2> QED
    BY <1>1, <1>2, <1>4, <2>1, Closing DEF Leave
<1>5. CASE LeaveUnsaved(t)
  BY <1>1, <1>2, <1>5, Closing DEF LeaveUnsaved, IInv
<1>6. CASE Kill(t)
  <2>1. acts' \in 0..MaxActs
    BY <1>6, ActFacts DEF Kill
  <2> QED
    BY <1>6, <2>1, Closing DEF Kill, IInv
<1> QED
  BY <1>3, <1>4, <1>5, <1>6

-----------------------------------------------------------------------------
(* Saves. *)

LEMMA PutStays ==
    ASSUME NEW p, GoodPut(p), ToSet(log) \subseteq ToSet(log)',
           \A u \in Tabs : Mounted(u) => Mounted(u)'
    PROVE  GoodPut(p)'
<1>1. p.of \in Tabs \cup {None}
  BY DEF GoodPut, PutState
<1> QED
  BY <1>1 DEF GoodPut

\* What a tab sends is what it shows.
LEMMA RequestFacts ==
    ASSUME IInv, NEW t \in Tabs, Mounted(t), NEW leave \in BOOLEAN
    PROVE  GoodPut(Request(t, leave))
<1> DEFINE q == Request(t, leave)
           a == t \in Studios /\ given[t] = Doc(t).title
<1>1. Doc(t) \in Documents /\ Whole(Doc(t)) /\ Doc(t).title \in Titles
  BY DocIsWhole, DocFacts
<1>2. a \in BOOLEAN
  OBVIOUS
<1>3. q = [of |-> t, doc |-> Doc(t), auto |-> a, leave |-> leave, reply |-> "none", title |-> Doc(t).title]
  BY DEF Request
<1>4. t \in Editors => ~a
  BY TabFacts
<1> HIDE DEF q, a
<1>5. /\ q \in PutState /\ q.of = t /\ q.doc = Doc(t) /\ q.auto = a
      /\ q.reply = "none" /\ q.title = q.doc.title
  BY <1>1, <1>2, <1>3 DEF PutState
<1>6. GoodPut(q)
  BY <1>1, <1>4, <1>5 DEF GoodPut
<1> QED
  BY <1>6 DEF q

LEMMA Sending ==
    ASSUME IInv, NEW t \in Tabs, NEW leave \in BOOLEAN, Send(t, leave),
           NEW m \in {"open", "asked", "leaving"}, Mounted(t),
           mode' = [mode EXCEPT ![t] = m],
           UNCHANGED rowVars, UNCHANGED <<history, given, saved, isDraft, dropping>>,
           acts' \in 0..MaxActs,
           editor' \in [Editors -> EditorState],
           \A e \in Editors \ {t} : editor'[e] = editor[e],
           t \in Editors => Paged(editor'[t])
    PROVE  IInv'
<1>1. RowInv' /\ ToSet(log)' = ToSet(log)
  BY RowStays
<1>2. /\ mode' \in [Tabs -> Modes] /\ mode'[t] = m
      /\ \A u \in Tabs \ {t} : mode'[u] = mode[u]
  BY DEF IInv, Shapes, Modes
<1>3. \A u \in Tabs : Mounted(u) => Mounted(u)'
  BY <1>2 DEF Mounted
<1>4. Shapes'
  BY <1>2 DEF Send, IInv, Shapes
<1>5. t \in Editors => GoodEditor(t)'
  BY DEF IInv, GoodEditor
<1>6. t \in Studios => GoodStudio(t)'
  BY DEF IInv, GoodStudio
<1>7. KnowsLog(t)'
  BY <1>1 DEF IInv, KnowsLog
<1>8. ASSUME NEW p \in puts' PROVE GoodPut(p)'
  <2>1. p \in puts \/ p = Request(t, leave)
    BY <1>8 DEF Send
  <2>2. GoodPut(p)
    BY <2>1, RequestFacts DEF IInv
  <2> QED
    BY <1>1, <1>3, <2>2, PutStays
<1> QED
  BY <1>1, <1>2, <1>4, <1>5, <1>6, <1>7, <1>8, TabStep DEF IInv

LEMMA Saves ==
    ASSUME IInv, NEW t \in Tabs,
           \/ t \in Editors /\ (Save(t) \/ SaveAndLeave(t))
           \/ t \in Studios /\ (SaveStudio(t) \/ SaveAndLeaveStudio(t))
    PROVE  IInv'
<1>1. mode[t] \in Modes /\ mode = [mode EXCEPT ![t] = mode[t]] /\ editor \in [Editors -> EditorState]
      /\ acts \in 0..MaxActs
  BY DEF IInv, Shapes
<1>2. CASE t \in Editors /\ (Save(t) \/ SaveAndLeave(t))
  <2> DEFINE ed == [editor[t] EXCEPT !.aside = PutAside(t)]
  <2>1. Mounted(t)
    BY <1>2 DEF Save, SaveAndLeave, Mounted
  <2>2. editor[t] \in EditorState /\ Paged(editor[t]) /\ PutAside(t) \in [PageIds -> Bodies]
    BY <1>2, <2>1, EditorFacts, AsideFacts
  <2>3. ed \in EditorState /\ Paged(ed)
    BY <2>2 DEF EditorState, Paged
  <2>4. editor' = [editor EXCEPT ![t] = ed]
    BY <1>2 DEF Save, SaveAndLeave
  <2> HIDE DEF ed
  <2>5. /\ editor' \in [Editors -> EditorState] /\ Paged(editor'[t])
        /\ \A e \in Editors \ {t} : editor'[e] = editor[e]
    BY <1>1, <1>2, <2>3, <2>4
  <2>6. CASE Save(t)
    <3>1. /\ acts' \in 0..MaxActs /\ Send(t, FALSE) /\ mode' = [mode EXCEPT ![t] = "open"]
          /\ UNCHANGED rowVars /\ UNCHANGED <<history, given, saved, isDraft, dropping>>
      BY <1>1, <2>6, ActFacts DEF Save
    <3> QED
      BY <2>1, <2>5, <3>1, Sending
  <2>7. CASE SaveAndLeave(t)
    <3>1. /\ acts' \in 0..MaxActs /\ Send(t, TRUE) /\ mode' = [mode EXCEPT ![t] = "leaving"]
          /\ UNCHANGED rowVars /\ UNCHANGED <<history, given, saved, isDraft, dropping>>
      BY <1>1, <2>7 DEF SaveAndLeave
    <3> QED
      BY <2>1, <2>5, <3>1, Sending
  <2> QED
    BY <1>2, <2>6, <2>7
<1>3. CASE t \in Studios /\ (SaveStudio(t) \/ SaveAndLeaveStudio(t))
  <2>1. Mounted(t) /\ t \notin Editors
    BY <1>3, TabFacts DEF SaveStudio, SaveAndLeaveStudio, Mounted
  <2>2. CASE SaveStudio(t)
    <3>1. /\ acts' \in 0..MaxActs /\ Send(t, FALSE) /\ mode' = [mode EXCEPT ![t] = mode[t]]
          /\ UNCHANGED rowVars /\ UNCHANGED <<editor, history, given, saved, isDraft, dropping>>
      BY <1>1, <2>2, ActFacts DEF SaveStudio
    <3>2. mode[t] \in {"open", "asked", "leaving"}
      BY <2>1 DEF Mounted
    <3> QED
      BY <1>1, <2>1, <3>1, <3>2, Sending
  <2>3. CASE SaveAndLeaveStudio(t) /\ Dirty(t)
    <3>1. /\ acts' \in 0..MaxActs /\ Send(t, TRUE) /\ mode' = [mode EXCEPT ![t] = "leaving"]
          /\ UNCHANGED rowVars /\ UNCHANGED <<editor, history, given, saved, isDraft, dropping>>
      BY <1>1, <2>3 DEF SaveAndLeaveStudio
    <3> QED
      BY <1>1, <2>1, <3>1, Sending
  <2>4. CASE SaveAndLeaveStudio(t) /\ ~Dirty(t)
    BY <1>1, <2>1, <2>4, ModeStep DEF SaveAndLeaveStudio, Modes
  <2> QED
    BY <1>3, <2>2, <2>3, <2>4
<1> QED
  BY <1>2, <1>3

\* Steps that concern no tab.
LEMMA TabsStay ==
    ASSUME IInv, UNCHANGED sessionVars, RowInv', ToSet(log) \subseteq ToSet(log)',
           \A p \in puts' : GoodPut(p)', dropping' \subseteq Tabs, acts' \in 0..MaxActs
    PROVE  IInv'
<1>1. UNCHANGED <<mode, editor, history, given, saved, isDraft, saving>>
  BY DEF sessionVars
<1>2. Shapes'
  BY <1>1 DEF IInv, Shapes
<1>3. \A e \in Editors : GoodEditor(e)'
  BY <1>1 DEF IInv, GoodEditor, Mounted
<1>4. \A s \in Studios : GoodStudio(s)'
  BY <1>1 DEF IInv, GoodStudio
<1>5. \A t \in Tabs : KnowsLog(t)'
  BY <1>1 DEF IInv, KnowsLog, Mounted
<1> QED
  BY <1>2, <1>3, <1>4, <1>5 DEF IInv

LEMMA Serving ==
    ASSUME IInv, NEW p \in puts, Serve(p) \/ Lose(p) \/ Orphan(p)
    PROVE  IInv'
<1>1. GoodPut(p) /\ p \in PutState /\ dropping' \subseteq Tabs /\ acts' \in 0..MaxActs /\ UNCHANGED sessionVars
  BY DEF IInv, GoodPut, Serve, Lose, Orphan
<1>2. \A u \in Tabs : Mounted(u) => Mounted(u)'
  BY <1>1 DEF sessionVars, Mounted
<1>3. ASSUME RowInv', ToSet(log) \subseteq ToSet(log)',
             \A q \in puts' : q \in puts \/ GoodPut(q)'
      PROVE  IInv'
  <2>1. \A q \in puts' : GoodPut(q)'
    BY <1>2, <1>3, PutStays DEF IInv
  <2> QED
    BY <1>1, <1>3, <2>1, TabsStay
<1>4. CASE Serve(p)
  <2> DEFINE w == Written(p.doc, p.auto)
  <2> PICK q : q = [p EXCEPT !.reply = Verdict(p.doc, p.auto), !.title = w.title]
    OBVIOUS
  <2>1. p.doc \in Documents /\ p.auto \in BOOLEAN /\ Whole(p.doc) /\ Put(p.doc, p.auto)
    BY <1>1, <1>4 DEF PutState, GoodPut, Serve
  <2>2. /\ RowInv' /\ ToSet(log) \subseteq ToSet(log)'
        /\ Verdict(p.doc, p.auto) = "ok" => w \in ToSet(log)'
    BY <2>1, RowPut DEF IInv
  <2>3. w.title \in Titles /\ (~p.auto => w = p.doc)
    BY <2>1, WrittenFacts
  <2>4. Verdict(p.doc, p.auto) \in {"ok", "taken", "gone"}
    BY DEF Verdict
  <2>5. /\ q \in PutState /\ q.of = p.of /\ q.doc = p.doc /\ q.auto = p.auto
        /\ q.reply = Verdict(p.doc, p.auto) /\ q.title = w.title
    BY <1>1, <2>3, <2>4 DEF PutState
  <2>6. puts' = (puts \ {p}) \cup {q}
    BY <1>4 DEF Serve
  <2>7. w = Written(q.doc, q.auto)
    BY <2>5
  <2> HIDE DEF w
  <2>8. q.of # None => Mounted(q.of)'
    BY <1>1, <1>2, <2>5 DEF GoodPut, PutState
  <2>9. q.of \in Editors => ~q.auto /\ q.title = q.doc.title
    BY <1>1, <2>3, <2>5 DEF GoodPut
  <2>10. q.reply = "ok" => Written(q.doc, q.auto) \in ToSet(log)' /\ q.title = Written(q.doc, q.auto).title
    BY <2>2, <2>5, <2>7
  <2>11. GoodPut(q)'
    BY <2>1, <2>5, <2>8, <2>9, <2>10 DEF GoodPut
  <2> QED
    BY <1>3, <2>2, <2>6, <2>11
<1>5. CASE Lose(p)
  <2> DEFINE q == [p EXCEPT !.reply = "lost"]
  <2>1. RowInv' /\ ToSet(log)' = ToSet(log)
    BY <1>5, RowStays DEF Lose
  <2>2. /\ q \in PutState /\ q.of = p.of /\ q.doc = p.doc /\ q.auto = p.auto
        /\ q.reply = "lost" /\ q.title = p.title
    BY <1>1 DEF PutState
  <2>3. puts' = (puts \ {p}) \cup {q}
    BY <1>5 DEF Lose
  <2> HIDE DEF q
  <2>4. GoodPut(q)
    BY <1>1, <2>2 DEF GoodPut
  <2>5. GoodPut(q)'
    BY <1>2, <2>1, <2>4, PutStays
  <2> QED
    BY <1>3, <2>1, <2>3, <2>5
<1>6. CASE Orphan(p)
  <2>1. RowInv' /\ ToSet(log)' = ToSet(log) /\ puts' \subseteq puts
    BY <1>6, RowStays DEF Orphan
  <2> QED
    BY <1>3, <2>1
<1> QED
  BY <1>4, <1>5, <1>6

\* What an accepted save is remembered by is what the server wrote.
LEMMA RememberedFacts ==
    ASSUME NEW p, GoodPut(p), p.reply = "ok"
    PROVE  /\ Remembered(p) = Written(p.doc, p.auto)
           /\ Remembered(p) \in ToSet(log)
           /\ Remembered(p) \in Documents /\ Whole(Remembered(p))
<1> DEFINE w == Written(p.doc, p.auto)
<1>1. p.doc \in Documents /\ p.auto \in BOOLEAN /\ Whole(p.doc) /\ w \in ToSet(log) /\ p.title = w.title
  BY DEF GoodPut, PutState
<1>2. w \in Documents /\ w = [p.doc EXCEPT !.title = w.title] /\ Whole(w)
  BY <1>1, WrittenFacts
<1> QED
  BY <1>1, <1>2 DEF Remembered

LEMMA Accepting ==
    ASSUME IInv, NEW p \in puts, p.of # None, Accepted(p)
    PROVE  IInv'
<1> DEFINE t == p.of
           d == Remembered(p)
<1>1. /\ GoodPut(p) /\ t \in Tabs /\ Mounted(t) /\ p.reply = "ok" /\ p.title \in Titles
      /\ UNCHANGED rowVars /\ acts' \in 0..MaxActs
  BY DEF IInv, GoodPut, PutState, Accepted
<1>2. d \in ToSet(log) /\ d \in Documents /\ Whole(d)
  BY <1>1, RememberedFacts
<1>3. RowInv' /\ ToSet(log)' = ToSet(log)
  BY <1>1, RowStays
<1>4. CASE Leaves(p)
  <2>1. Closed(t) /\ dropping' = dropping /\ puts' \subseteq Orphaned(t)
    BY <1>4 DEF Accepted, Unmount
  <2> QED
    BY <1>1, <2>1, Closing DEF IInv
<1>5. CASE ~Leaves(p)
  <2>1. /\ puts' = puts \ {p} /\ saved' = [saved EXCEPT ![t] = d]
        /\ isDraft' = [isDraft EXCEPT ![t] = FALSE] /\ saving' = [saving EXCEPT ![t] = FALSE]
        /\ UNCHANGED <<mode, editor, dropping>>
        /\ \/ p.title # p.doc.title /\ Record(t, d) /\ given' = [given EXCEPT ![t] = p.title]
           \/ UNCHANGED <<history, given>>
    BY <1>5 DEF Accepted
  <2> HIDE DEF d
  <2>2. \A q \in puts' : GoodPut(q)'
    BY <1>3, <2>1, PutsStay DEF Mounted
  <2>3. /\ saved' \in [Tabs -> Documents \cup {NoDoc}] /\ saved'[t] = d
        /\ \A u \in Tabs \ {t} : saved'[u] = saved[u]
        /\ isDraft' \in [Tabs -> BOOLEAN] /\ saving' \in [Tabs -> BOOLEAN]
    BY <1>1, <1>2, <2>1 DEF IInv, Shapes
  <2>4. KnowsLog(t)'
    BY <1>2, <1>3, <2>3 DEF KnowsLog
  <2>5. /\ history' \in [Tabs -> Histories] /\ given' \in [Studios -> Titles \cup {None}]
        /\ \A u \in Tabs \ {t} : history'[u] = history[u]
        /\ t \in Editors => GoodEditor(t)'
        /\ t \in Studios => GoodStudio(t)'
    <3>1. CASE UNCHANGED <<history, given>>
      BY <2>1, <3>1 DEF IInv, Shapes, GoodEditor, GoodStudio, Mounted
    <3>2. CASE p.title # p.doc.title /\ Record(t, d) /\ given' = [given EXCEPT ![t] = p.title]
      <4> DEFINE h == Pushed(history[t], d)
      <4>1. t \notin Editors /\ t \in Studios
        BY <1>1, <3>2, TabFacts DEF GoodPut
      <4>2. HistoryOf(Documents, h) /\ \A i \in DOMAIN h.states : Whole(h.states[i])
        BY <1>1, <1>2, <4>1, TabPushes
      <4>3. history' = [history EXCEPT ![t] = h]
        BY <3>2 DEF Record
      <4> HIDE DEF h
      <4>4. /\ history' \in [Tabs -> Histories] /\ history'[t] = h
            /\ \A u \in Tabs \ {t} : history'[u] = history[u]
        <5>1. h \in Histories
          BY <4>2 DEF HistoryOf, Histories
        <5> QED
          BY <1>1, <4>3, <5>1 DEF IInv, Shapes
      <4>5. GoodStudio(t)'
        BY <4>2, <4>4 DEF GoodStudio
      <4>6. given' \in [Studios -> Titles \cup {None}]
        BY <1>1, <3>2 DEF IInv, Shapes
      <4> QED
        BY <4>1, <4>4, <4>5, <4>6
    <3> QED
      BY <2>1, <3>1, <3>2
  <2>6. Shapes'
    BY <2>1, <2>3, <2>5 DEF IInv, Shapes
  <2> HIDE DEF t
  <2> QED
    BY <1>1, <1>3, <2>1, <2>2, <2>3, <2>4, <2>5, <2>6, TabStep DEF IInv
<1> QED
  BY <1>4, <1>5

LEMMA Refusing ==
    ASSUME IInv, NEW p \in puts, p.of # None, Refused(p)
    PROVE  IInv'
<1> DEFINE t == p.of
           m == IF Leaves(p) THEN "open" ELSE mode[t]
<1>1. /\ GoodPut(p) /\ t \in Tabs /\ Mounted(t)
      /\ UNCHANGED rowVars /\ acts' \in 0..MaxActs
      /\ UNCHANGED <<history, given, saved, isDraft, dropping>>
      /\ puts' = puts \ {p} /\ saving' = [saving EXCEPT ![t] = FALSE]
  BY DEF IInv, GoodPut, PutState, Refused
<1>2. RowInv' /\ ToSet(log)' = ToSet(log)
  BY <1>1, RowStays
<1>3. mode' = [mode EXCEPT ![t] = m] /\ m \in {"open", "asked", "leaving"}
  BY <1>1 DEF Refused, Mounted
<1> HIDE DEF m
<1>4. /\ mode' \in [Tabs -> Modes] /\ mode'[t] = m
      /\ \A u \in Tabs \ {t} : mode'[u] = mode[u]
  BY <1>1, <1>3 DEF IInv, Shapes, Modes
<1>5. /\ editor' \in [Editors -> EditorState]
      /\ \A e \in Editors \ {t} : editor'[e] = editor[e]
      /\ t \in Editors => Paged(editor'[t])
  <2>1. CASE editor' = editor
    BY <1>1, <2>1 DEF IInv, Shapes, GoodEditor
  <2>2. CASE t \in Editors /\ editor' = [editor EXCEPT ![t].title = saved[t].title]
    <3>1. saved[t].title \in Titles
      <4>1. saved[t] \in Documents
        BY <1>1, RowFacts DEF IInv, KnowsLog
      <4> QED
        BY <4>1, DocFacts
    <3> DEFINE ed == [editor[t] EXCEPT !.title = saved[t].title]
    <3>2. editor[t] \in EditorState /\ Paged(editor[t])
      BY <1>1, <2>2, EditorFacts
    <3>3. ed \in EditorState /\ Paged(ed)
      BY <3>1, <3>2 DEF EditorState, Paged
    <3>4. editor' = [editor EXCEPT ![t] = ed]
      BY <2>2
    <3> HIDE DEF ed
    <3> QED
      BY <2>2, <3>3, <3>4 DEF IInv, Shapes
  <2> QED
    BY <2>1, <2>2 DEF Refused
<1>6. \A u \in Tabs : Mounted(u) => Mounted(u)'
  BY <1>3, <1>4 DEF Mounted
<1>7. \A q \in puts' : GoodPut(q)'
  BY <1>1, <1>2, <1>6, PutsStay
<1>8. Shapes'
  BY <1>1, <1>4, <1>5 DEF IInv, Shapes
<1>9. /\ t \in Editors => GoodEditor(t)'
      /\ t \in Studios => GoodStudio(t)'
      /\ KnowsLog(t)'
  BY <1>1, <1>2, <1>5 DEF IInv, GoodEditor, GoodStudio, KnowsLog
<1> HIDE DEF t
<1> QED
  BY <1>1, <1>2, <1>4, <1>5, <1>7, <1>8, <1>9, TabStep DEF IInv

LEMMA Dropping ==
    ASSUME IInv, NEW t \in Tabs, Drop(t)
    PROVE  IInv'
<1>1. RowInv' /\ ToSet(log)' = ToSet(log)
  BY RowDropped DEF Drop, DropDraft, rowVars, IInv
<1>2. UNCHANGED sessionVars /\ puts' = puts /\ dropping' \subseteq Tabs /\ acts' \in 0..MaxActs
  BY DEF Drop, IInv
<1>3. \A p \in puts' : GoodPut(p)'
  BY <1>1, <1>2, PutsStay DEF sessionVars, Mounted
<1> QED
  BY <1>1, <1>2, <1>3, TabsStay

LEMMA FromElsewhere ==
    ASSUME IInv, Elsewhere
    PROVE  IInv'
<1>1. /\ acts' \in 0..MaxActs /\ NewRev \in Nat
      /\ UNCHANGED sessionVars /\ puts' = puts /\ dropping' \subseteq Tabs
  BY ActFacts DEF Elsewhere, IInv
<1>2. \A p \in PageIds : Unused(p) => \A i \in DOMAIN row.doc.pages : row.doc.pages[i].id # p
  <2>1. row.doc \in Documents /\ row.doc # NoDoc
    BY RowFacts, EditingAssumption DEF IInv, EditingAssumption
  <2> QED
    BY <2>1 DEF Unused
<1>3. RowInv' /\ ToSet(log) \subseteq ToSet(log)'
  BY <1>1, <1>2, RowElsewhere DEF Elsewhere, IInv
<1>4. \A p \in puts' : GoodPut(p)'
  BY <1>1, <1>3, PutsStay DEF sessionVars, Mounted
<1> QED
  BY <1>1, <1>3, <1>4, TabsStay

-----------------------------------------------------------------------------
(* The invariant. *)

LEMMA InvStep == IInv /\ [Next]_vars => IInv'
<1> SUFFICES ASSUME IInv, [Next]_vars PROVE IInv'
  OBVIOUS
<1>1. CASE UNCHANGED vars
  <2>1. UNCHANGED rowVars /\ UNCHANGED sessionVars /\ UNCHANGED <<puts, dropping, acts>>
    BY <1>1 DEF vars, rowVars, sessionVars
  <2>2. RowInv' /\ ToSet(log)' = ToSet(log)
    BY <2>1, RowStays
  <2>3. \A p \in puts' : GoodPut(p)'
    BY <2>1, <2>2, PutsStay DEF sessionVars, Mounted
  <2> QED
    BY <2>1, <2>2, <2>3, TabsStay DEF IInv
<1>2. ASSUME NEW t \in Tabs, TabNext(t) PROVE IInv'
  BY <1>2, Waiting, Leaving, UndoRedo, Dropping DEF TabNext
<1>3. ASSUME NEW e \in Editors, EditorNext(e) PROVE IInv'
  BY <1>3, TabFacts, Loading, Changes, Saves, EditorChanges, PagesStep DEF EditorNext
<1>4. ASSUME NEW s \in Studios, StudioNext(s) PROVE IInv'
  BY <1>4, TabFacts, Loading, Changes, Saves DEF StudioNext
<1>5. ASSUME NEW p \in puts, Serve(p) \/ Lose(p) \/ Answer(p) \/ Orphan(p) PROVE IInv'
  BY <1>5, Serving, Accepting, Refusing DEF Answer
<1>6. CASE Elsewhere
  BY <1>6, FromElsewhere
<1> QED
  BY <1>1, <1>2, <1>3, <1>4, <1>5, <1>6 DEF Next

LEMMA Invariance == Spec => []IInv
  BY InvInit, InvStep, PTL DEF Spec

\* Every variable keeps its type: an editor records pages and a studio whole
\* documents, whatever answers come.
THEOREM TypeCorrect == Spec => []TypeOK
  BY Invariance, TypesHold, PTL

\* However tabs, saves, restores and drops interleave, and however many writes
\* fall in one second, the versions are documents the row held before, as many
\* as the cap allows and none older by the second than one pruned; and only a
\* report never saved is dropped.
THEOREM SavesStayKept == Spec => []SavesAreKept
<1>1. IInv => SavesAreKept
  BY DEF IInv, RowInv, SavesAreKept
<1> QED
  BY <1>1, Invariance, PTL

\* A tab that says nothing is unsaved shows a document the server has held.
THEOREM CleanTabsAreStored == Spec => []CleanIsStored
<1>1. IInv => CleanIsStored
  BY DEF IInv, KnowsLog, CleanIsStored, Dirty
<1> QED
  BY <1>1, Invariance, PTL

-----------------------------------------------------------------------------
(* Leaving with a save. *)

\* Only an accepted save lets a tab that saves go, its user aside.
LEMMA GoesByAnswer ==
    ASSUME IInv, [Next]_vars, NEW t \in Tabs,
           mode[t] = "leaving", mode'[t] = "away", acts' = acts
    PROVE  \E p \in puts : p.of = t /\ p.leave /\ p.reply = "ok"
<1>1. mode \in [Tabs -> Modes]
  BY DEF IInv, Shapes
<1>2. CASE mode' = mode
  BY <1>2
<1>3. ASSUME NEW u \in Tabs, NEW m, mode' = [mode EXCEPT ![u] = m], mode[u] # "leaving" \/ m # "away"
      PROVE  FALSE
  BY <1>1, <1>3
<1>4. ASSUME NEW u \in Tabs, TabNext(u) PROVE FALSE
  <2>1. CASE Open(u) \/ Gone(u)
    BY <1>3, <2>1 DEF Open, Gone
  <2>2. CASE Stay(u)
    BY <1>3, <2>2 DEF Stay
  <2>3. CASE LeaveUnsaved(u)
    BY <1>3, <2>3 DEF LeaveUnsaved, Unmount, Closed
  <2>4. CASE Leave(u) \/ Kill(u) \/ Undo(u) \/ Redo(u)
    BY <2>4, ActFacts DEF Leave, Kill, Undo, Redo
  <2>5. CASE Drop(u)
    BY <1>2, <2>5 DEF Drop, sessionVars
  <2> QED
    BY <1>4, <2>1, <2>2, <2>3, <2>4, <2>5 DEF TabNext
<1>5. ASSUME NEW e \in Editors, EditorNext(e) PROVE FALSE
  <2>1. CASE LoadEditor(e) \/ SaveAndLeave(e)
    BY <1>3, <2>1, TabFacts DEF LoadEditor, SaveAndLeave
  <2>2. CASE ~(LoadEditor(e) \/ SaveAndLeave(e))
    BY <1>5, <2>2, ActFacts
    DEF EditorNext, Edit, Save, Retitle, SwitchPage, DeletePage, RestyleElsewhere, AddPage, CopyPage
  <2> QED
    BY <2>1, <2>2
<1>6. ASSUME NEW s \in Studios, StudioNext(s) PROVE FALSE
  <2>1. CASE LoadStudio(s) \/ SaveAndLeaveStudio(s)
    BY <1>3, <2>1, TabFacts DEF LoadStudio, SaveAndLeaveStudio
  <2>2. CASE ~(LoadStudio(s) \/ SaveAndLeaveStudio(s))
    BY <1>6, <2>2, ActFacts DEF StudioNext, SaveStudio, ApplyCard, RetitleStudio
  <2> QED
    BY <2>1, <2>2
<1>7. ASSUME NEW p \in puts, Serve(p) \/ Lose(p) \/ Orphan(p) PROVE FALSE
  BY <1>2, <1>7 DEF Serve, Lose, Orphan, sessionVars
<1>8. ASSUME NEW p \in puts, Answer(p) PROVE p.of = t /\ p.leave /\ p.reply = "ok"
  <2>1. p.of \in Tabs
    BY <1>8 DEF IInv, GoodPut, PutState, Answer
  <2>2. CASE Accepted(p) /\ Leaves(p)
    <3>1. mode' = [mode EXCEPT ![p.of] = "away"]
      BY <2>2 DEF Accepted, Unmount, Closed
    <3>2. p.of = t
      BY <1>1, <2>1, <3>1
    <3> QED
      BY <2>2, <3>2 DEF Accepted, Leaves
  <2>3. CASE Accepted(p) /\ ~Leaves(p)
    BY <1>2, <2>3 DEF Accepted
  <2>4. CASE Refused(p)
    <3>1. mode' = [mode EXCEPT ![p.of] = IF Leaves(p) THEN "open" ELSE mode[p.of]]
      BY <1>1, <2>1, <2>4 DEF Refused
    <3>2. CASE Leaves(p)
      BY <1>3, <2>1, <3>1, <3>2
    <3>3. CASE ~Leaves(p)
      BY <1>1, <1>2, <2>1, <3>1, <3>3
    <3> QED
      BY <3>2, <3>3
  <2> QED
    BY <1>8, <2>2, <2>3, <2>4 DEF Answer
<1>9. CASE Elsewhere
  BY <1>2, <1>9 DEF Elsewhere, sessionVars
<1>10. CASE UNCHANGED vars
  BY <1>2, <1>10 DEF vars
<1> QED
  BY <1>4, <1>5, <1>6, <1>7, <1>8, <1>9, <1>10 DEF Next

\* "Save and leave" lets nobody go before the server has taken the document.
THEOREM LeavingWaitsForTheSave == Spec => LeavingSaves
<1>1. ASSUME IInv, [Next]_vars, NEW t \in Tabs,
             mode[t] = "leaving", mode'[t] = "away", acts' = acts
      PROVE  \E p \in puts : p.of = t /\ p.leave /\ Written(p.doc, p.auto) \in ToSet(log)
  BY <1>1, GoesByAnswer DEF IInv, GoodPut
<1>2. IInv /\ [Next]_vars =>
        [\A t \in Tabs : mode[t] = "leaving" /\ mode'[t] = "away" /\ acts' = acts =>
           \E p \in puts : p.of = t /\ p.leave /\ Written(p.doc, p.auto) \in ToSet(log)]_vars
  BY <1>1
<1> QED
  BY <1>2, Invariance, PTL DEF Spec, LeavingSaves

-----------------------------------------------------------------------------
(* What the pages of an editor hold. *)

Held(e, i) == IF i = editor[e].current THEN Shown(e) ELSE editor[e].aside[editor[e].pages[i]]

Kept(e) ==
    \A i \in DOMAIN editor[e].pages : \A j \in DOMAIN editor'[e].pages :
        editor[e].pages[i] = editor'[e].pages[j] => EditorDoc(e).pages[i] = (EditorDoc(e)').pages[j]

LEMMA KeptWhenHeld ==
    ASSUME NEW e \in Editors,
           \A i \in DOMAIN editor[e].pages : \A j \in DOMAIN editor'[e].pages :
              editor[e].pages[i] = editor'[e].pages[j] => Held(e, i) = Held(e, j)'
    PROVE  Kept(e)
<1>1. \A i \in DOMAIN editor[e].pages :
        EditorDoc(e).pages[i] = [id |-> editor[e].pages[i], body |-> Held(e, i)]
  BY DEF EditorDoc, Held
<1>2. \A j \in DOMAIN editor'[e].pages :
        (EditorDoc(e)').pages[j] = [id |-> editor'[e].pages[j], body |-> Held(e, j)']
  BY DEF EditorDoc, Held
<1> QED
  BY <1>1, <1>2 DEF Kept

\* An editor nothing happens to.
Quiet(e) ==
    /\ history'[e] = history[e]
    /\ editor'[e].pages = editor[e].pages
    /\ editor'[e].current = editor[e].current
    /\ editor'[e].aside = editor[e].aside

LEMMA KeptWhenQuiet ==
    ASSUME IInv, NEW e \in Editors, Mounted(e), Quiet(e)
    PROVE  Kept(e)
<1>1. Paged(editor[e])
  BY DEF IInv, GoodEditor
<1>2. \A i \in DOMAIN editor[e].pages : Held(e, i)' = Held(e, i)
  BY DEF Quiet, Held, Shown
<1> QED
  BY <1>1, <1>2, KeptWhenHeld DEF Quiet, Paged

\* Another page on screen, of pages that were put aside.
LEMMA KeptWhenShown ==
    ASSUME IInv, NEW e \in Editors, Mounted(e), NEW ids \in Seq(PageIds), NEW n \in DOMAIN ids,
           NEW aside \in [PageIds -> Bodies], ShowPage(e, ids, n, aside),
           \A i \in DOMAIN editor[e].pages : aside[editor[e].pages[i]] = Held(e, i)
    PROVE  Kept(e)
<1>1. /\ editor[e] \in EditorState /\ e \in Tabs /\ \A i \in DOMAIN ids : ids[i] \in PageIds
  BY TabFacts, SeqFacts DEF IInv, Shapes
<1>2. /\ editor'[e].pages = ids /\ editor'[e].current = n /\ editor'[e].aside = aside
  BY <1>1 DEF ShowPage, IInv, Shapes, EditorState
<1>3. Shown(e)' = aside[ids[n]]
  <2>1. aside[ids[n]] \in Bodies /\ HistoryOf(Bodies, history[e])
    BY <1>1 DEF IInv, GoodEditor
  <2> DEFINE h == Pushed(history[e], aside[ids[n]])
  <2>2. h.states[h.at] = aside[ids[n]]
    BY <2>1, PushedFacts
  <2>3. history'[e] = h
    BY <1>1 DEF ShowPage, Record, IInv, Shapes
  <2> QED
    BY <2>2, <2>3 DEF Shown
<1>4. \A j \in DOMAIN ids : Held(e, j)' = aside[ids[j]]
  BY <1>2, <1>3 DEF Held
<1> QED
  BY <1>2, <1>4, KeptWhenHeld

LEMMA AsideHolds ==
    ASSUME IInv, NEW e \in Editors, Mounted(e), NEW i \in DOMAIN editor[e].pages
    PROVE  PutAside(e)[editor[e].pages[i]] = Held(e, i)
<1>1. /\ Paged(editor[e]) /\ editor[e].aside \in [PageIds -> Bodies]
      /\ \A j \in DOMAIN editor[e].pages : editor[e].pages[j] \in PageIds
  BY EditorFacts DEF EditorState
<1>2. editor[e].pages[i] = editor[e].pages[editor[e].current] <=> i = editor[e].current
  BY <1>1 DEF Paged
<1> QED
  BY <1>1, <1>2 DEF PutAside, Held

LEMMA KeptByPages ==
    ASSUME IInv, NEW e \in Editors,
           \/ \E i \in 1..Len(editor[e].pages) : SwitchPage(e, i)
           \/ \E p \in PageIds : AddPage(e, p) \/ \E i \in 1..Len(editor[e].pages) : CopyPage(e, i, p)
    PROVE  Kept(e)
<1> DEFINE s == editor[e].pages
<1>1. Mounted(e)
  BY DEF SwitchPage, AddPage, CopyPage, Mounted
<1>2. /\ s \in Seq(PageIds) /\ Len(s) \in Nat /\ DOMAIN s = 1..Len(s)
      /\ \A i \in DOMAIN s : s[i] \in PageIds
      /\ PutAside(e) \in [PageIds -> Bodies]
      /\ \A i \in DOMAIN s : PutAside(e)[s[i]] = Held(e, i)
  BY <1>1, EditorFacts, AsideFacts, AsideHolds DEF EditorState
<1>3. ASSUME NEW i \in 1..Len(s), SwitchPage(e, i) PROVE Kept(e)
  <2>1. i \in DOMAIN s /\ ShowPage(e, s, i, PutAside(e))
    BY <1>3 DEF SwitchPage
  <2> QED
    BY <1>1, <1>2, <2>1, KeptWhenShown
<1>4. ASSUME NEW p \in PageIds, NEW b \in Bodies, Unused(p),
             ShowPage(e, Append(s, p), Len(s) + 1, [PutAside(e) EXCEPT ![p] = b])
      PROVE  Kept(e)
  <2> DEFINE ids == Append(s, p)
             aside == [PutAside(e) EXCEPT ![p] = b]
  <2>1. p \notin Ids(s)
    BY <1>4 DEF Unused
  <2>2. \A i \in DOMAIN s : s[i] # p
    BY <2>1 DEF Ids
  <2>3. ids \in Seq(PageIds) /\ Len(s) + 1 \in DOMAIN ids
    BY <1>1, <2>1, PagesGrow
  <2>4. aside \in [PageIds -> Bodies] /\ \A i \in DOMAIN s : aside[s[i]] = Held(e, i)
    BY <1>2, <2>2
  <2> HIDE DEF ids, aside
  <2>5. ShowPage(e, ids, Len(s) + 1, aside)
    BY <1>4 DEF ids, aside
  <2> QED
    BY <1>1, <2>3, <2>4, <2>5, KeptWhenShown
<1>5. ASSUME NEW p \in PageIds, AddPage(e, p) PROVE Kept(e)
  <2>1. Blank(p) \in Bodies
    BY DEF Blank, Bodies
  <2> QED
    BY <1>4, <1>5, <2>1 DEF AddPage
<1>6. ASSUME NEW p \in PageIds, NEW i \in 1..Len(s), CopyPage(e, i, p) PROVE Kept(e)
  <2> DEFINE b == [page |-> p, rev |-> PutAside(e)[s[i]].rev]
  <2>1. b \in Bodies
    BY <1>2 DEF Bodies
  <2>2. Unused(p) /\ ShowPage(e, Append(s, p), Len(s) + 1, [PutAside(e) EXCEPT ![p] = b])
    BY <1>6 DEF CopyPage
  <2> HIDE DEF b
  <2> QED
    BY <1>4, <2>1, <2>2
<1> QED
  BY <1>3, <1>5, <1>6

\* A page removed leaves fewer.
LEMMA DeletionShortens ==
    ASSUME IInv, NEW e \in Editors, NEW i \in 1..Len(editor[e].pages), DeletePage(e, i)
    PROVE  ~(Len(editor'[e].pages) >= Len(editor[e].pages))
<1> DEFINE s == editor[e].pages
           ids == RemoveAt(s, i)
<1>1. /\ editor[e] \in EditorState /\ s \in Seq(PageIds) /\ Len(s) \in Nat /\ i \in DOMAIN s
  BY EditorFacts DEF EditorState
<1>2. Len(ids) = Len(s) - 1
  BY <1>1, Removed
<1> HIDE DEF ids
<1>3. editor'[e].pages = ids
  BY <1>1 DEF DeletePage, ShowPage, ids, IInv, Shapes, EditorState
<1> QED
  BY <1>1, <1>2, <1>3

LEMMA KeptStep ==
    ASSUME IInv, [Next]_vars, NEW e \in Editors,
           mode[e] = "open", mode'[e] = "open",
           acts' = acts \/ editor'[e].current # editor[e].current \/ editor'[e].pages # editor[e].pages,
           Len(editor'[e].pages) >= Len(editor[e].pages)
    PROVE  Kept(e)
<1>1. /\ mode \in [Tabs -> Modes] /\ editor \in [Editors -> EditorState]
      /\ history \in [Tabs -> Histories] /\ editor[e] \in EditorState
      /\ e \in Tabs /\ e \notin Studios
  BY TabFacts DEF IInv, Shapes
<1>2. CASE editor' = editor /\ history' = history
  BY <1>2, KeptWhenQuiet DEF Quiet, Mounted
<1>3. ASSUME NEW t \in Tabs, t # e,
             \A f \in Editors \ {t} : editor'[f] = editor[f],
             \A u \in Tabs \ {t} : history'[u] = history[u]
      PROVE  Kept(e)
  BY <1>1, <1>3, KeptWhenQuiet DEF Quiet, Mounted
<1>4. ASSUME acts' # acts, editor' = editor PROVE FALSE
  BY <1>4
<1>5. ASSUME NEW t \in Tabs, TabNext(t) PROVE Kept(e)
  <2>1. CASE Open(t) \/ Gone(t) \/ Stay(t)
    BY <1>2, <2>1 DEF Open, Gone, Stay
  <2>2. CASE Drop(t)
    BY <1>2, <2>2 DEF Drop, sessionVars
  <2>3. CASE Undo(t) \/ Redo(t)
    BY <1>4, <2>3, ActFacts DEF Undo, Redo, OnlyHistory
  <2>4. CASE Leave(t) /\ Dirty(t)
    BY <1>2, <2>4 DEF Leave
  <2>5. CASE Closed(t)
    <3>1. t # e
      BY <1>1, <2>5 DEF Closed
    <3>2. /\ \A f \in Editors \ {t} : editor'[f] = editor[f]
          /\ \A u \in Tabs \ {t} : history'[u] = history[u]
      BY <1>1, <2>5 DEF Closed
    <3> QED
      BY <1>3, <3>1, <3>2
  <2> QED
    BY <1>5, <2>1, <2>2, <2>3, <2>4, <2>5 DEF TabNext, Leave, LeaveUnsaved, Kill, Unmount
<1>6. ASSUME NEW f \in Editors, EditorNext(f) PROVE Kept(e)
  <2>0. f \in Tabs
    BY TabFacts
  <2>1. CASE f # e
    <3>1. /\ \A g \in Editors \ {f} : editor'[g] = editor[g]
          /\ \A u \in Tabs \ {f} : history'[u] = history[u]
      BY <1>1, <1>6, <2>0
      DEF EditorNext, LoadEditor, Edit, Record, OnlyHistory, Save, SaveAndLeave, Retitle, SwitchPage,
          DeletePage, RestyleElsewhere, AddPage, CopyPage, ShowPage
    <3> QED
      BY <1>3, <2>0, <2>1, <3>1
  <2>2. CASE f = e /\ (LoadEditor(f) \/ SaveAndLeave(f))
    BY <2>2 DEF LoadEditor, SaveAndLeave
  <2>3. CASE f = e /\ Edit(f)
    BY <1>4, <2>3, ActFacts DEF Edit, OnlyHistory
  <2>4. CASE f = e /\ (Save(f) \/ (\E t \in Titles : Retitle(f, t))
                       \/ (\E i \in 1..Len(editor[f].pages) : RestyleElsewhere(f, i)))
    <3>1. acts' # acts
      BY <2>4, ActFacts DEF Save, Retitle, RestyleElsewhere
    <3>2. editor'[e].current = editor[e].current /\ editor'[e].pages = editor[e].pages
      <4>1. CASE Save(e)
        BY <4>1 DEF Save
      <4>2. ASSUME NEW ed, ed.current = editor[e].current, ed.pages = editor[e].pages,
                   editor' = [editor EXCEPT ![e] = ed]
            PROVE  editor'[e].current = editor[e].current /\ editor'[e].pages = editor[e].pages
        BY <1>1, <4>2
      <4>3. ASSUME NEW t \in Titles, Retitle(e, t) PROVE editor'[e].current = editor[e].current /\ editor'[e].pages = editor[e].pages
        <5> DEFINE ed == [editor[e] EXCEPT !.title = t]
        <5>1. ed.pages = editor[e].pages /\ ed.current = editor[e].current
          BY <1>1 DEF EditorState
        <5>2. editor' = [editor EXCEPT ![e] = ed]
          BY <4>3 DEF Retitle
        <5> HIDE DEF ed
        <5> QED
          BY <4>2, <5>1, <5>2
      <4>4. ASSUME NEW i \in 1..Len(editor[e].pages), RestyleElsewhere(e, i) PROVE editor'[e].current = editor[e].current /\ editor'[e].pages = editor[e].pages
        <5> DEFINE q == editor[e].pages[i]
                   ed == [editor[e] EXCEPT !.aside = [editor[e].aside EXCEPT ![q].rev = NewRev]]
        <5>1. ed.pages = editor[e].pages /\ ed.current = editor[e].current
          BY <1>1 DEF EditorState
        <5>2. editor' = [editor EXCEPT ![e] = ed]
          BY <4>4 DEF RestyleElsewhere
        <5> HIDE DEF ed
        <5> QED
          BY <4>2, <5>1, <5>2
      <4> QED
        BY <2>4, <4>1, <4>3, <4>4
    <3> QED
      BY <3>1, <3>2
  <2>5. CASE f = e /\ \E i \in 1..Len(editor[f].pages) : DeletePage(f, i)
    BY <2>5, DeletionShortens
  <2>6. CASE f = e /\ (\/ \E i \in 1..Len(editor[f].pages) : SwitchPage(f, i)
                       \/ \E p \in PageIds : AddPage(f, p) \/ \E i \in 1..Len(editor[f].pages) : CopyPage(f, i, p))
    BY <2>6, KeptByPages
  <2> QED
    BY <1>6, <2>1, <2>2, <2>3, <2>4, <2>5, <2>6 DEF EditorNext
<1>7. ASSUME NEW s \in Studios, StudioNext(s) PROVE Kept(e)
  <2>1. s \in Tabs /\ s # e /\ s \notin Editors
    BY <1>1, TabFacts
  <2>2. /\ editor' = editor
        /\ \A u \in Tabs \ {s} : history'[u] = history[u]
    BY <1>1, <1>7, <2>1
    DEF StudioNext, LoadStudio, SaveStudio, SaveAndLeaveStudio, ApplyCard, RetitleStudio, Record, OnlyHistory
  <2> QED
    BY <1>3, <2>1, <2>2
<1>8. ASSUME NEW p \in puts, Serve(p) \/ Lose(p) \/ Orphan(p) PROVE Kept(e)
  BY <1>2, <1>8 DEF Serve, Lose, Orphan, sessionVars
<1>9. ASSUME NEW p \in puts, Answer(p) PROVE Kept(e)
  <2>1. p.of \in Tabs /\ GoodPut(p)
    BY <1>9 DEF IInv, GoodPut, PutState, Answer
  <2>2. CASE p.of # e
    <3>1. /\ \A f \in Editors \ {p.of} : editor'[f] = editor[f]
          /\ \A u \in Tabs \ {p.of} : history'[u] = history[u]
      BY <1>1, <1>9, <2>1 DEF Answer, Accepted, Refused, Unmount, Closed, Record
    <3> QED
      BY <1>3, <2>1, <2>2, <3>1
  <2>3. CASE p.of = e /\ Accepted(p)
    <3>1. CASE Leaves(p)
      BY <1>1, <2>3, <3>1 DEF Accepted, Unmount, Closed
    <3>2. CASE ~Leaves(p)
      <4>1. p.title = p.doc.title
        BY <2>1, <2>3 DEF GoodPut
      <4> QED
        BY <1>2, <2>3, <3>2, <4>1 DEF Accepted
    <3> QED
      BY <3>1, <3>2
  <2>4. CASE p.of = e /\ Refused(p)
    <3>1. Quiet(e)
      BY <1>1, <2>4 DEF Refused, Quiet, EditorState
    <3> QED
      BY <3>1, KeptWhenQuiet DEF Mounted
  <2> QED
    BY <1>9, <2>2, <2>3, <2>4 DEF Answer
<1>10. CASE Elsewhere
  BY <1>2, <1>10 DEF Elsewhere, sessionVars
<1>11. CASE UNCHANGED vars
  BY <1>2, <1>11 DEF vars
<1> QED
  BY <1>5, <1>6, <1>7, <1>8, <1>9, <1>10, <1>11 DEF Next

\* Turning, adding and copying pages, saving and being answered, and all that
\* other tabs do, leave every page of an editor what it held.
THEOREM PagesAreKept == Spec => PagesKeepTheirBodies
<1>1. IInv /\ [Next]_vars =>
        [\A e \in Editors :
          /\ mode[e] = "open" /\ mode'[e] = "open"
          /\ acts' = acts \/ editor'[e].current # editor[e].current \/ editor'[e].pages # editor[e].pages
          /\ Len(editor'[e].pages) >= Len(editor[e].pages)
          => \A i \in DOMAIN editor[e].pages : \A j \in DOMAIN editor'[e].pages :
                editor[e].pages[i] = editor'[e].pages[j] => EditorDoc(e).pages[i] = (EditorDoc(e)').pages[j]]_vars
  BY KeptStep DEF Kept
<1> QED
  BY <1>1, Invariance, PTL DEF Spec, PagesKeepTheirBodies
=============================================================================
