-------------------------- MODULE JoinEditingProofs --------------------------
(* What is proved of JoinEditing, over any finite set of tables: the checks  *)
(* of a join are exact, answers keep the rules, the FROM clause is whole,   *)
(* and near dimensions do not fan out.                                      *)
EXTENDS JoinEditing, FiniteSetTheorems, SequenceTheorems, WellFoundedInduction, TLAPS

-----------------------------------------------------------------------------
(* Data.  Induction is by the least counterexample. *)

LEMMA Least ==
    ASSUME NEW T \in SUBSET Nat, T # {}
    PROVE  \E m \in T : \A n \in T : m <= n
<1>1. PICK R : IsWellFoundedOn(R, Nat) /\ \A i, j \in Nat : i < j => <<i, j>> \in R
  <2>1. \A i, j \in Nat : i < j => <<i, j>> \in OpToRel(<, Nat)
    BY Zenon DEF OpToRel
  <2>2. QED
    BY <2>1, NatLessThanWellFounded, Zenon
<1>2. T \subseteq Nat
  OBVIOUS
<1>3. IsWellFoundedOn(R, Nat)
  BY <1>1
<1>4. PICK m \in T : \A n \in T : ~ (<<n, m>> \in R)
  BY <1>2, <1>3, WFMin, ZenonT(30)
<1>5. \A i, j \in Nat : i < j => <<i, j>> \in R
  BY <1>1
<1>6. \A n \in T : ~ (n < m)
  BY <1>4, <1>5, Zenon
<1>7. QED
  BY <1>6

\* A function iterated from a value.
Iterates(S, f, x, n) == {g \in [0..n -> S] : g[0] = x /\ \A i \in 1..n : g[i] = f[g[i - 1]]}

LEMMA IteratesExist ==
    ASSUME NEW S, NEW f \in [S -> S], NEW x \in S, NEW n \in Nat
    PROVE  \E g : g \in Iterates(S, f, x, n)
<1> DEFINE T == {k \in Nat : Iterates(S, f, x, k) = {}}
<1>1. SUFFICES ASSUME T # {} PROVE FALSE
  OBVIOUS
<1>2. T \in SUBSET Nat
  OBVIOUS
<1>3. PICK k \in T : \A j \in T : k <= j
  BY <1>1, <1>2, Least
<1>4. k # 0
  <2>1. [i \in 0..0 |-> x] \in Iterates(S, f, x, 0)
    BY DEF Iterates
  <2>2. QED
    BY <2>1
<1>5. k - 1 \in Nat /\ k - 1 \notin T
  BY <1>3, <1>4
<1>6. PICK g : g \in Iterates(S, f, x, k - 1)
  BY <1>5
<1> DEFINE h == [i \in 0..k |-> IF i = k THEN f[g[k - 1]] ELSE g[i]]
<1>7. g \in [0..k - 1 -> S] /\ g[0] = x /\ \A i \in 1..k - 1 : g[i] = f[g[i - 1]]
  BY <1>6 DEF Iterates
<1>8. h \in [0..k -> S]
  BY <1>5, <1>7
<1>9. h[0] = x
  BY <1>4, <1>5, <1>7
<1>10. \A i \in 1..k : h[i] = f[h[i - 1]]
  BY <1>5, <1>7
<1>11. h \in Iterates(S, f, x, k)
  BY <1>8, <1>9, <1>10 DEF Iterates
<1>12. QED
  BY <1>11

-----------------------------------------------------------------------------
(* Reach is the least set that holds its start and is closed under steps. *)

Closed(edges, C) == \A e \in edges : e[1] \in C => e[2] \in C
Next1(edges, C) == C \cup {t \in Tables : \E u \in C : <<u, t>> \in edges}

LEMMA ReachIsChain ==
    ASSUME NEW edges \in SUBSET (Tables \X Tables), NEW S \in SUBSET Tables
    PROVE  \E chain \in [0..Cardinality(Tables) -> SUBSET Tables] :
              /\ chain[0] = S
              /\ \A n \in 1..Cardinality(Tables) : chain[n] = Next1(edges, chain[n - 1])
              /\ Reach(edges, S) = chain[Cardinality(Tables)]
<1> DEFINE N == Cardinality(Tables)
           step == [C \in SUBSET Tables |-> Next1(edges, C)]
           Chains(c) == c = [n \in 0..N |-> IF n = 0 THEN S
                               ELSE LET near == c[n - 1]
                                    IN  near \cup {t \in Tables : \E u \in near : <<u, t>> \in edges}]
           chain == CHOOSE c : Chains(c)
<1>1. N \in Nat
  BY GraphAssumption, FS_CardinalityType
<1>2. step \in [SUBSET Tables -> SUBSET Tables]
  BY DEF Next1
<1>3. PICK g : g \in Iterates(SUBSET Tables, step, S, N)
  BY <1>1, <1>2, IteratesExist
<1>4. /\ g \in [0..N -> SUBSET Tables] /\ g[0] = S
      /\ \A n \in 1..N : g[n] = Next1(edges, g[n - 1])
  <2>1. g \in [0..N -> SUBSET Tables] /\ g[0] = S /\ \A i \in 1..N : g[i] = step[g[i - 1]]
    BY <1>3 DEF Iterates
  <2>2. ASSUME NEW i \in 1..N PROVE g[i - 1] \in SUBSET Tables
    BY <1>1, <2>1
  <2>3. QED
    BY <2>1, <2>2
<1>5. Chains(g)
  <2>1. ASSUME NEW i \in 0..N, i # 0 PROVE i \in 1..N
    BY <1>1, <2>1
  <2>2. QED
    BY <1>4, <2>1 DEF Next1
<1>6. Chains(chain)
  BY <1>5
<1>7. Reach(edges, S) = chain[N]
  BY DEF Reach
<1> HIDE DEF chain
<1>8. chain = g
  <2>1. \A n \in 0..N : chain[n] = IF n = 0 THEN S ELSE Next1(edges, chain[n - 1])
    BY <1>6 DEF Next1
  <2> DEFINE T == {n \in 0..N : chain[n] # g[n]}
  <2>2. T = {}
    <3>1. SUFFICES ASSUME T # {} PROVE FALSE
      OBVIOUS
    <3>2. T \in SUBSET Nat
      BY <1>1
    <3>3. PICK m \in T : \A n \in T : m <= n
      BY <3>1, <3>2, Least
    <3>4. m # 0
      BY <1>4, <2>1
    <3>5. m - 1 \in 0..N /\ m \in 1..N /\ m - 1 \notin T
      BY <1>1, <3>3, <3>4
    <3>6. QED
      BY <1>4, <2>1, <3>3, <3>4, <3>5
  <2>3. DOMAIN chain = 0..N /\ chain = [n \in 0..N |-> chain[n]]
    BY <1>6
  <2>4. QED
    BY <1>4, <2>2, <2>3
<1>9. QED
  BY <1>4, <1>7, <1>8

LEMMA ReachIs ==
    ASSUME NEW edges \in SUBSET (Tables \X Tables), NEW S \in SUBSET Tables
    PROVE  /\ Reach(edges, S) \in SUBSET Tables
           /\ S \subseteq Reach(edges, S)
           /\ Closed(edges, Reach(edges, S))
           /\ \A C \in SUBSET Tables : S \subseteq C /\ Closed(edges, C) => Reach(edges, S) \subseteq C
<1> DEFINE N == Cardinality(Tables)
<1>1. N \in Nat /\ IsFiniteSet(Tables)
  BY GraphAssumption, FS_CardinalityType
<1>2. PICK chain \in [0..N -> SUBSET Tables] :
              /\ chain[0] = S
              /\ \A n \in 1..N : chain[n] = Next1(edges, chain[n - 1])
              /\ Reach(edges, S) = chain[N]
  BY ReachIsChain
<1> DEFINE Bounded(C, n) == S \subseteq C /\ (Closed(edges, C) \/ n <= Cardinality(C))
           T == {n \in 0..N : ~Bounded(chain[n], n)}
<1>3. T = {}
  <2>1. SUFFICES ASSUME T # {} PROVE FALSE
    OBVIOUS
  <2>2. T \in SUBSET Nat
    BY <1>1
  <2>3. PICK m \in T : \A n \in T : m <= n
    BY <2>1, <2>2, Least
  <2>4. m # 0
    <3>1. IsFiniteSet(S) /\ Cardinality(S) \in Nat
      BY <1>1, FS_Subset, FS_CardinalityType
    <3>2. QED
      BY <1>2, <2>3, <3>1
  <2>5. m - 1 \in 0..N /\ m \in 1..N /\ m - 1 \notin T
    BY <1>1, <2>3, <2>4
  <2> DEFINE before == chain[m - 1]
             after == chain[m]
  <2>6. after = Next1(edges, before) /\ before \in SUBSET Tables /\ after \in SUBSET Tables
    BY <1>2, <2>5
  <2>7. Bounded(before, m - 1)
    BY <2>5
  <2>8. ~Bounded(after, m)
    BY <2>3
  <2> HIDE DEF before, after, T
  <2>9. S \subseteq after /\ ~Closed(edges, after) /\ ~(m <= Cardinality(after))
    BY <2>6, <2>7, <2>8 DEF Next1
  <2>10. ~Closed(edges, before)
    <3>1. ASSUME Closed(edges, before) PROVE after = before
      BY <2>6, <3>1 DEF Closed, Next1
    <3>2. QED
      BY <2>9, <3>1
  <2>11. PICK e \in edges : e[1] \in before /\ e[2] \notin before
    BY <2>10 DEF Closed
  <2>12. before \subseteq after /\ e[2] \in after
    <3>1. e = <<e[1], e[2]>> /\ e[2] \in Tables
      OBVIOUS
    <3>2. QED
      BY <2>6, <2>11, <3>1 DEF Next1
  <2>13. Cardinality(before) < Cardinality(after)
    <3>1. IsFiniteSet(after)
      BY <1>1, <2>6, FS_Subset
    <3>2. Cardinality(before) <= Cardinality(after) /\ Cardinality(before) # Cardinality(after)
      BY <2>11, <2>12, <3>1, FS_Subset
    <3>3. Cardinality(before) \in Nat /\ Cardinality(after) \in Nat
      BY <2>12, <3>1, FS_Subset, FS_CardinalityType
    <3>4. QED
      BY <3>2, <3>3
  <2>14. Cardinality(before) \in Nat /\ Cardinality(after) \in Nat
    BY <1>1, <2>6, FS_Subset, FS_CardinalityType
  <2>15. QED
    BY <2>5, <2>7, <2>9, <2>10, <2>13, <2>14
<1>4. Bounded(chain[N], N) /\ chain[N] \in SUBSET Tables
  BY <1>1, <1>2, <1>3
<1>5. Closed(edges, chain[N])
  <2>1. ASSUME N <= Cardinality(chain[N]) PROVE chain[N] = Tables
    BY <1>1, <1>4, <2>1, FS_Subset, FS_CardinalityType
  <2>2. Closed(edges, Tables)
    BY DEF Closed
  <2>3. QED
    BY <1>4, <2>1, <2>2
<1>6. ASSUME NEW C \in SUBSET Tables, S \subseteq C, Closed(edges, C) PROVE chain[N] \subseteq C
  <2> DEFINE U == {n \in 0..N : ~(chain[n] \subseteq C)}
  <2>1. U = {}
    <3>1. SUFFICES ASSUME U # {} PROVE FALSE
      OBVIOUS
    <3>2. U \in SUBSET Nat
      BY <1>1
    <3>3. PICK m \in U : \A n \in U : m <= n
      BY <3>1, <3>2, Least
    <3>4. m # 0
      BY <1>2, <1>6
    <3>5. m - 1 \in 0..N /\ m \in 1..N /\ m - 1 \notin U
      BY <1>1, <3>3, <3>4
    <3>6. chain[m - 1] \subseteq C /\ chain[m] = Next1(edges, chain[m - 1])
      BY <1>2, <3>5
    <3>7. chain[m] \subseteq C
      BY <1>6, <3>6 DEF Closed, Next1
    <3>8. QED
      BY <3>3, <3>7
  <2>2. QED
    BY <1>1, <2>1
<1>7. QED
  BY <1>2, <1>4, <1>5, <1>6

-----------------------------------------------------------------------------
(* Drafts without a loop are those whose tables have ranks that grow along  *)
(* every edge.                                                              *)

Ranks(js, r) ==
    /\ r \in [Tables -> Nat]
    /\ \A e \in Edges(js) : r[e[1]] < r[e[2]]

LEMMA EdgesType ==
    ASSUME NEW js \in Seq(Join)
    PROVE  /\ \A i \in DOMAIN js : js[i] \in Join /\ Orient(js[i]) \in Tables \X Tables
           /\ Edges(js) \in SUBSET (Tables \X Tables)
<1>1. ASSUME NEW i \in DOMAIN js PROVE js[i] \in Join
  BY ElementOfSeq
<1>2. ASSUME NEW j \in Join PROVE Orient(j) \in Tables \X Tables
  BY DEF Join, Orient
<1>3. QED
  BY <1>1, <1>2 DEF Edges

LEMMA EdgesOfMore ==
    ASSUME NEW js \in Seq(Join), NEW j \in Join
    PROVE  /\ Append(js, j) \in Seq(Join)
           /\ Edges(Append(js, j)) = Edges(js) \cup {Orient(j)}
<1> DEFINE more == Append(js, j)
<1>1. more \in Seq(Join) /\ Len(js) \in Nat /\ DOMAIN js = 1..Len(js) /\ DOMAIN more = 1..Len(js) + 1
      /\ more[Len(js) + 1] = j /\ \A i \in DOMAIN js : more[i] = js[i]
  OBVIOUS
<1> HIDE DEF more
<1>2. ASSUME NEW i \in DOMAIN more PROVE Orient(more[i]) \in Edges(js) \cup {Orient(j)}
  <2>1. CASE i \in DOMAIN js
    BY <1>1, <2>1 DEF Edges
  <2>2. CASE i = Len(js) + 1
    BY <1>1, <2>2
  <2>3. QED
    BY <1>1, <2>1, <2>2
<1>3. ASSUME NEW i \in DOMAIN js PROVE i \in DOMAIN more /\ more[i] = js[i]
  BY <1>1
<1>4. Len(js) + 1 \in DOMAIN more
  BY <1>1
<1>5. Edges(js) \cup {Orient(j)} \subseteq Edges(more)
  BY <1>1, <1>3, <1>4 DEF Edges
<1>6. Edges(more) \subseteq Edges(js) \cup {Orient(j)}
  BY <1>2 DEF Edges
<1>7. QED
  BY <1>1, <1>5, <1>6 DEF more

\* Of some tables, one has the highest rank.
LEMMA Highest ==
    ASSUME NEW r \in [Tables -> Nat], NEW S \in SUBSET Tables, S # {}
    PROVE  \E x \in S : \A y \in S : r[y] <= r[x]
<1> DEFINE Top(U) == \E x \in U : \A y \in U : r[y] <= r[x]
           T == {n \in Nat : \E U \in SUBSET Tables : Cardinality(U) = n /\ U # {} /\ ~Top(U)}
<1>1. \A U \in SUBSET Tables : IsFiniteSet(U) /\ Cardinality(U) \in Nat
  BY GraphAssumption, FS_Subset, FS_CardinalityType
<1>2. T = {}
  <2>1. SUFFICES ASSUME T # {} PROVE FALSE
    OBVIOUS
  <2>2. PICK n \in T : \A m \in T : n <= m
    <3>1. T \in SUBSET Nat
      OBVIOUS
    <3> HIDE DEF T
    <3> QED
      BY <2>1, <3>1, Least
  <2>3. PICK U \in SUBSET Tables : Cardinality(U) = n /\ U # {} /\ ~Top(U)
    OBVIOUS
  <2>4. PICK z \in U : TRUE
    BY <2>3
  <2> DEFINE R == U \ {z}
  <2>5. Cardinality(R) = n - 1 /\ n \in Nat /\ n - 1 \in Nat /\ R \in SUBSET Tables
    <3>1. Cardinality(R) = Cardinality(U) - 1 /\ R \in SUBSET Tables
      BY <1>1, <2>4, FS_RemoveElement
    <3> QED
      BY <1>1, <2>3, <3>1
  <2>6. n - 1 \notin T
    <3> HIDE DEF T
    <3> QED
      BY <2>2, <2>5
  <2>7. \A y \in U : r[y] \in Nat
    OBVIOUS
  <2>8. CASE R = {}
    <3>1. \A y \in U : y = z
      BY <2>8
    <3> QED
      BY <2>3, <2>4, <2>7, <3>1
  <2>9. CASE R # {}
    <3>1. PICK x \in R : \A y \in R : r[y] <= r[x]
      BY <2>5, <2>6, <2>9
    <3>2. CASE r[z] <= r[x]
      BY <2>3, <3>1, <3>2
    <3>3. CASE ~(r[z] <= r[x])
      <4>1. \A y \in U : r[y] <= r[z]
        BY <2>4, <2>7, <3>1, <3>3
      <4> QED
        BY <2>3, <2>4, <4>1
    <3> QED
      BY <3>2, <3>3
  <2> QED
    BY <2>8, <2>9
<1> QED
  BY <1>1, <1>2

\* A finite set can be lined up by rank.
LEMMA Sorted ==
    ASSUME NEW r \in [Tables -> Nat], NEW S \in SUBSET Tables
    PROVE  \E s \in Orders(S) : \A i, k \in DOMAIN s : i < k => r[s[i]] <= r[s[k]]
<1> DEFINE Sort(s, U) == s \in Orders(U) /\ \A i, k \in DOMAIN s : i < k => r[s[i]] <= r[s[k]]
           T == {n \in Nat : \E U \in SUBSET Tables : Cardinality(U) = n /\ ~\E s : Sort(s, U)}
<1>0. \A U \in SUBSET Tables : IsFiniteSet(U) /\ Cardinality(U) \in Nat
  BY GraphAssumption, FS_Subset, FS_CardinalityType
<1>1. T = {}
  <2>1. SUFFICES ASSUME T # {} PROVE FALSE
    OBVIOUS
  <2>2. PICK n \in T : \A m \in T : n <= m
    <3>1. T \in SUBSET Nat
      OBVIOUS
    <3> HIDE DEF T
    <3> QED
      BY <2>1, <3>1, Least
  <2>3. PICK U \in SUBSET Tables : Cardinality(U) = n /\ ~\E s : Sort(s, U)
    OBVIOUS
  <2>4. U # {}
    <3>1. ASSUME U = {} PROVE Sort(<<>>, U)
      <4>1. Cardinality(U) = 0
        BY <3>1, FS_EmptySet
      <4>2. <<>> \in [1..0 -> U] /\ DOMAIN <<>> = {}
        OBVIOUS
      <4>3. ToSet(<<>>) = U
        BY <3>1 DEF ToSet
      <4> QED
        BY <4>1, <4>2, <4>3 DEF Orders
    <3> QED
      BY <2>3, <3>1
  <2>5. PICK x \in U : \A y \in U : r[y] <= r[x]
    BY <2>4, Highest
  <2> DEFINE R == U \ {x}
  <2>6. Cardinality(R) = n - 1 /\ n - 1 \in Nat /\ R \in SUBSET Tables
    <3>1. Cardinality(R) = Cardinality(U) - 1 /\ R \in SUBSET Tables
      BY <1>0, FS_RemoveElement
    <3> QED
      BY <1>0, <2>3, <3>1
  <2>7. n - 1 \notin T
    <3>1. n \in Nat
      OBVIOUS
    <3> HIDE DEF T
    <3> QED
      BY <2>2, <2>6, <3>1
  <2>8. PICK s : Sort(s, R)
    BY <2>6, <2>7
  <2>9. s \in [1..n - 1 -> R] /\ {s[i] : i \in 1..n - 1} = R
    BY <2>6, <2>8 DEF Orders, ToSet
  <2> DEFINE q == [i \in 1..n |-> IF i = n THEN x ELSE s[i]]
  <2>10. n \in Nat \ {0}
    BY <2>6
  <2>11. q \in [1..n -> U] /\ \A i \in 1..n - 1 : i \in 1..n /\ q[i] = s[i]
    BY <2>9, <2>10
  <2>12. q[n] = x /\ n \in 1..n
    BY <2>10
  <2> HIDE DEF q
  <2>13. ToSet(q) = U
    <3>1. ASSUME NEW u \in U PROVE \E i \in 1..n : q[i] = u
      BY <2>9, <2>11, <2>12
    <3> QED
      BY <3>1, <2>11 DEF ToSet
  <2>14. ASSUME NEW i \in 1..n, NEW k \in 1..n, i < k PROVE r[q[i]] <= r[q[k]]
    <3>1. i \in 1..n - 1 /\ q[i] = s[i] /\ q[i] \in U
      BY <2>10, <2>11, <2>14
    <3>2. CASE k = n
      BY <2>5, <2>12, <3>1, <3>2
    <3>3. CASE k # n
      <4>1. k \in 1..n - 1 /\ q[k] = s[k]
        BY <2>10, <2>11, <3>3
      <4>2. r[s[i]] <= r[s[k]]
        BY <2>8, <2>9, <2>14, <3>1, <4>1
      <4> QED
        BY <3>1, <4>1, <4>2
    <3> QED
      BY <3>2, <3>3
  <2>15. q \in Orders(U)
    BY <2>3, <2>11, <2>13 DEF Orders
  <2>16. DOMAIN q = 1..n
    BY <2>11
  <2> QED
    BY <2>3, <2>14, <2>15, <2>16
<1>2. QED
  BY <1>0, <1>1

LEMMA AcyclicIsRanked ==
    ASSUME NEW js \in Seq(Join)
    PROVE  Acyclic(js) <=> \E r : Ranks(js, r)
<1> DEFINE N == Cardinality(Tables)
<1>1. Edges(js) \in SUBSET (Tables \X Tables) /\ N \in Nat
  BY EdgesType, GraphAssumption, FS_CardinalityType
<1>2. ASSUME NEW line \in Orders(Tables), \A i, k \in DOMAIN line : <<line[i], line[k]>> \in Edges(js) => i < k
      PROVE  \E r : Ranks(js, r)
  <2>1. line \in [1..N -> Tables] /\ \A t \in Tables : \E i \in 1..N : line[i] = t
    BY DEF Orders, ToSet
  <2> DEFINE r == [t \in Tables |-> CHOOSE i \in 1..N : line[i] = t]
  <2>2. \A t \in Tables : r[t] \in 1..N /\ line[r[t]] = t
    BY <2>1
  <2>3. r \in [Tables -> Nat]
    BY <2>2
  <2> HIDE DEF r
  <2>4. ASSUME NEW e \in Edges(js) PROVE r[e[1]] < r[e[2]]
    <3>1. e = <<e[1], e[2]>> /\ e[1] \in Tables /\ e[2] \in Tables
      BY <1>1
    <3>2. e = <<line[r[e[1]]], line[r[e[2]]]>> /\ r[e[1]] \in DOMAIN line /\ r[e[2]] \in DOMAIN line
      BY <2>1, <2>2, <3>1
    <3> QED
      BY <1>2, <3>2
  <2> QED
    BY <2>3, <2>4 DEF Ranks
<1>3. ASSUME NEW r, Ranks(js, r) PROVE Acyclic(js)
  <2>1. r \in [Tables -> Nat] /\ \A e \in Edges(js) : r[e[1]] < r[e[2]]
    BY <1>3 DEF Ranks
  <2>2. PICK line \in Orders(Tables) : \A i, k \in DOMAIN line : i < k => r[line[i]] <= r[line[k]]
    BY <2>1, Sorted
  <2>3. line \in [1..N -> Tables]
    BY DEF Orders
  <2>4. ASSUME NEW i \in DOMAIN line, NEW k \in DOMAIN line, <<line[i], line[k]>> \in Edges(js)
        PROVE  i < k
    <3>1. r[line[i]] < r[line[k]]
      BY <2>1, <2>4
    <3>2. i \in Nat /\ k \in Nat /\ r[line[i]] \in Nat /\ r[line[k]] \in Nat
      BY <1>1, <2>1, <2>3
    <3>3. k < i => r[line[k]] <= r[line[i]]
      BY <2>2
    <3>4. i # k
      BY <3>1, <3>2
    <3> QED
      BY <3>1, <3>2, <3>3, <3>4
  <2> QED
    BY <2>4 DEF Acyclic
<1>4. QED
  BY <1>2, <1>3 DEF Acyclic

\* What is reached from somewhere has no lower rank.
LEMMA ReachRises ==
    ASSUME NEW js \in Seq(Join), NEW r, Ranks(js, r), NEW S \in SUBSET Tables, NEW b \in Nat,
           \A t \in S : b <= r[t]
    PROVE  \A t \in Reach(Edges(js), S) : b <= r[t]
<1>1. Edges(js) \in SUBSET (Tables \X Tables)
  BY EdgesType
<1>2. r \in [Tables -> Nat] /\ \A e \in Edges(js) : r[e[1]] < r[e[2]]
  BY DEF Ranks
<1> DEFINE C == {t \in Tables : b <= r[t]}
<1>3. ASSUME NEW e \in Edges(js), e[1] \in C PROVE e[2] \in C
  <2>1. e[1] \in Tables /\ e[2] \in Tables
    BY <1>1
  <2>2. r[e[1]] \in Nat /\ r[e[2]] \in Nat /\ r[e[1]] < r[e[2]] /\ b <= r[e[1]]
    BY <1>2, <1>3, <2>1
  <2> QED
    BY <2>1, <2>2
<1>4. S \subseteq C /\ C \in SUBSET Tables
  OBVIOUS
<1> HIDE DEF C
<1>5. Reach(Edges(js), S) \subseteq C
  BY <1>1, <1>3, <1>4, ReachIs DEF Closed
<1> QED
  BY <1>5 DEF C

\* The check of a join, "a way back to where one started": right whatever the
\* draft and the join.
LEMMA LoopCheck ==
    ASSUME NEW js \in Seq(Join), NEW j \in Join, Acyclic(js)
    PROVE  MakesLoop(js, j) <=> ~Acyclic(Append(js, j))
<1> DEFINE a == Orient(j)[1]
           b == Orient(j)[2]
           more == Append(js, j)
           R == Reach(Edges(js), {b})
           N == Cardinality(Tables)
<1>1. /\ more \in Seq(Join) /\ Edges(more) = Edges(js) \cup {Orient(j)}
      /\ a \in Tables /\ b \in Tables /\ Orient(j) = <<a, b>>
      /\ Edges(js) \in SUBSET (Tables \X Tables)
  <2>1. Orient(j) \in Tables \X Tables
    BY DEF Join, Orient
  <2> QED
    BY <2>1, EdgesOfMore, EdgesType
<1>2. MakesLoop(js, j) <=> a \in R
  BY DEF MakesLoop
<1>3. /\ R \in SUBSET Tables /\ {b} \subseteq R /\ Closed(Edges(js), R)
  BY <1>1, ReachIs
<1> HIDE DEF a, b, more, R
<1>4. ASSUME a \in R, Acyclic(more) PROVE FALSE
  <2>1. PICK r : Ranks(more, r)
    BY <1>1, <1>4, AcyclicIsRanked
  <2>2. Ranks(js, r) /\ r[a] < r[b] /\ r \in [Tables -> Nat]
    BY <1>1, <2>1 DEF Ranks
  <2>3. \A t \in {b} : r[b] <= r[t]
    BY <1>1, <2>2
  <2>4. r[b] <= r[a]
    <3>1. r[b] \in Nat /\ {b} \in SUBSET Tables
      BY <1>1, <2>2
    <3> QED
      BY <1>4, <2>2, <2>3, <3>1, ReachRises DEF R
  <2> QED
    BY <1>1, <2>2, <2>4
<1>5. ASSUME a \notin R PROVE Acyclic(more)
  <2>1. PICK r : Ranks(js, r)
    BY AcyclicIsRanked
  <2>2. r \in [Tables -> Nat] /\ \A e \in Edges(js) : r[e[1]] < r[e[2]]
    BY <2>1 DEF Ranks
  <2>3. PICK top \in Nat : \A t \in Tables : r[t] <= top
    <3>1. Tables # {} /\ Tables \in SUBSET Tables
      BY <1>1
    <3>2. PICK x \in Tables : \A y \in Tables : r[y] <= r[x]
      BY <2>2, <3>1, Highest
    <3> QED
      BY <2>2, <3>2
  <2> DEFINE s == [t \in Tables |-> IF t \in R THEN r[t] + top + 1 ELSE r[t]]
  <2>4. s \in [Tables -> Nat]
    BY <2>2
  <2>5. \A t \in Tables : s[t] = IF t \in R THEN r[t] + top + 1 ELSE r[t]
    OBVIOUS
  <2> HIDE DEF s
  <2>6. ASSUME NEW e \in Edges(more) PROVE s[e[1]] < s[e[2]]
    <3>1. CASE e = <<a, b>>
      <4>1. s[e[1]] = r[a] /\ s[e[2]] = r[b] + top + 1
        BY <1>1, <1>3, <1>5, <2>5, <3>1
      <4> QED
        BY <1>1, <2>2, <2>3, <4>1
    <3>2. CASE e \in Edges(js)
      <4>1. e[1] \in Tables /\ e[2] \in Tables /\ r[e[1]] < r[e[2]]
        BY <1>1, <2>2, <3>2
      <4>2. e[1] \in R => e[2] \in R
        BY <1>3, <3>2 DEF Closed
      <4>3. r[e[1]] \in Nat /\ r[e[2]] \in Nat
        BY <2>2, <4>1
      <4> QED
        BY <2>3, <2>5, <4>1, <4>2, <4>3
    <3> QED
      BY <1>1, <3>1, <3>2
  <2>7. Ranks(more, s)
    BY <2>4, <2>6 DEF Ranks
  <2> QED
    BY <1>1, <2>7, AcyclicIsRanked
<1> QED
  BY <1>2, <1>4, <1>5 DEF more

\* A table leads to no loop when there is none.
LEMMA NoLoopToLead ==
    ASSUME NEW js \in Seq(Join), Acyclic(js), NEW t \in Tables
    PROVE  ~LeadsToLoop(js, t)
<1>1. Edges(js) \in SUBSET (Tables \X Tables)
  BY EdgesType
<1>2. PICK r : Ranks(js, r)
  BY AcyclicIsRanked
<1>3. r \in [Tables -> Nat] /\ \A e \in Edges(js) : r[e[1]] < r[e[2]]
  BY <1>2 DEF Ranks
<1>4. Reach(Edges(js), {t}) \in SUBSET Tables
  BY <1>1, ReachIs
<1>5. ASSUME NEW u \in Tables PROVE u \notin Reach(Edges(js), {v \in Tables : <<u, v>> \in Edges(js)})
  <2> DEFINE S == {v \in Tables : <<u, v>> \in Edges(js)}
  <2>1. \A v \in S : r[u] + 1 <= r[v]
    BY <1>3
  <2>2. r[u] + 1 \in Nat /\ S \in SUBSET Tables
    BY <1>3
  <2> HIDE DEF S
  <2>3. \A v \in Reach(Edges(js), S) : r[u] + 1 <= r[v]
    BY <1>2, <2>1, <2>2, ReachRises
  <2>4. r[u] \in Nat
    BY <1>3
  <2> QED
    BY <2>3, <2>4 DEF S
<1> QED
  BY <1>4, <1>5 DEF LeadsToLoop

-----------------------------------------------------------------------------
(* Folds over finite sets. *)

\* Of subsets of a finite set, one has none of the others within it.
LEMMA Smallest ==
    ASSUME NEW K, IsFiniteSet(K), NEW T \in SUBSET (SUBSET K), T # {}
    PROVE  \E s \in T : \A t \in SUBSET s : t # s => t \notin T
<1> DEFINE N == {Cardinality(s) : s \in T}
<1>1. \A s \in T : IsFiniteSet(s) /\ Cardinality(s) \in Nat
  BY FS_Subset, FS_CardinalityType
<1>2. N \in SUBSET Nat /\ N # {}
  BY <1>1
<1>3. PICK n \in N : \A m \in N : n <= m
  BY <1>2, Least
<1>4. PICK s \in T : Cardinality(s) = n
  BY <1>3
<1>5. ASSUME NEW t \in SUBSET s, t # s, t \in T PROVE FALSE
  <2>1. Cardinality(t) <= n /\ Cardinality(t) # n
    BY <1>1, <1>4, <1>5, FS_Subset
  <2>2. n \in Nat /\ n <= Cardinality(t) /\ Cardinality(t) \in Nat
    BY <1>1, <1>2, <1>3, <1>5
  <2> QED
    BY <2>1, <2>2
<1> QED
  BY <1>5

\* What a fold of K computes on the way, taking the element `pick` names first.
IsFold(g, S, G, base, pick, K) ==
    /\ g \in [SUBSET K -> S]
    /\ g[{}] = base
    /\ \A s \in SUBSET K : s # {} => g[s] = G[<<pick[s], g[s \ {pick[s]}]>>]

LEMMA FoldExists ==
    ASSUME NEW K, IsFiniteSet(K), NEW S, NEW G \in [K \X S -> S], NEW base \in S, NEW pick,
           \A s \in SUBSET K : s # {} => pick[s] \in s
    PROVE  \E g : IsFold(g, S, G, base, pick, K)
<1> DEFINE D(n) == {s \in SUBSET K : Cardinality(s) <= n}
           Upto(g, n) == /\ g \in [D(n) -> S]
                         /\ g[{}] = base
                         /\ \A s \in D(n) : s # {} => g[s] = G[<<pick[s], g[s \ {pick[s]}]>>]
           T == {n \in Nat : ~ \E g : Upto(g, n)}
<1>1. \A s \in SUBSET K : IsFiniteSet(s) /\ Cardinality(s) \in Nat /\ Cardinality(s) <= Cardinality(K)
  BY FS_Subset, FS_CardinalityType
<1>2. T = {}
  <2>1. SUFFICES ASSUME T # {} PROVE FALSE
    OBVIOUS
  <2>2. PICK n \in T : \A m \in T : n <= m
    <3>1. T \in SUBSET Nat
      OBVIOUS
    <3> HIDE DEF T
    <3> QED
      BY <2>1, <3>1, Least
  <2>3. n # 0
    <3>1. \A s \in SUBSET K : s \in D(0) <=> s = {}
      BY <1>1, FS_EmptySet
    <3>2. Upto([s \in D(0) |-> base], 0)
      BY <3>1
    <3> HIDE DEF Upto
    <3> QED
      BY <3>2
  <2>4. n \in Nat /\ n - 1 \in Nat /\ n - 1 \notin T
    <3>1. n \in Nat /\ n - 1 \in Nat
      BY <2>3
    <3> HIDE DEF T
    <3> QED
      BY <2>2, <3>1
  <2>5. PICK g : Upto(g, n - 1)
    BY <2>4
  <2>6. \A s \in SUBSET K : s # {} => s \ {pick[s]} \in SUBSET K /\ Cardinality(s \ {pick[s]}) = Cardinality(s) - 1
    BY <1>1, FS_RemoveElement
  <2>7. \A s \in D(n) : s # {} => s \ {pick[s]} \in D(n - 1) /\ s \ {pick[s]} \in D(n)
    BY <1>1, <2>4, <2>6
  <2>8. \A s \in D(n - 1) : s \in D(n)
    BY <1>1, <2>4
  <2>9. {} \in D(n - 1)
    BY <1>1, <2>4, FS_EmptySet
  <2> DEFINE h == [s \in D(n) |-> IF s \in D(n - 1) THEN g[s] ELSE G[<<pick[s], g[s \ {pick[s]}]>>]]
  <2>10. h \in [D(n) -> S]
    <3>1. ASSUME NEW s \in D(n) PROVE h[s] \in S
      <4>1. CASE s \in D(n - 1)
        BY <2>5, <4>1
      <4>2. CASE s \notin D(n - 1)
        <5>1. s # {} /\ pick[s] \in K /\ g[s \ {pick[s]}] \in S
          BY <2>5, <2>7, <2>9, <4>2
        <5> QED
          BY <4>2, <5>1
      <4> QED
        BY <4>1, <4>2
    <3> QED
      BY <3>1
  <2>11. \A s \in D(n - 1) : h[s] = g[s]
    BY <2>8
  <2>12. \A s \in D(n) : s \notin D(n - 1) => h[s] = G[<<pick[s], g[s \ {pick[s]}]>>]
    OBVIOUS
  <2>13. \A s \in D(n) : s # {} => h[s \ {pick[s]}] = g[s \ {pick[s]}]
    BY <2>7, <2>11
  <2> HIDE DEF h, D
  <2>14. ASSUME NEW s \in D(n), s # {} PROVE h[s] = G[<<pick[s], h[s \ {pick[s]}]>>]
    <3>1. CASE s \in D(n - 1)
      BY <2>5, <2>11, <2>13, <2>14, <3>1
    <3>2. CASE s \notin D(n - 1)
      BY <2>12, <2>13, <2>14, <3>2
    <3> QED
      BY <3>1, <3>2
  <2>15. h[{}] = base
    BY <2>5, <2>9, <2>11
  <2>16. Upto(h, n)
    BY <2>10, <2>14, <2>15
  <2> QED
    BY <2>2, <2>16
<1>3. PICK g : Upto(g, Cardinality(K))
  BY <1>1, <1>2
<1>4. D(Cardinality(K)) = SUBSET K
  BY <1>1
<1> HIDE DEF D
<1> QED
  BY <1>3, <1>4 DEF IsFold

First(s) == CHOOSE x \in s : TRUE

IsSum(g, w, K) == g = [s \in SUBSET K |-> IF s = {} THEN 0 ELSE w[First(s)] + g[s \ {First(s)}]]

LEMMA SumExists ==
    ASSUME NEW K, IsFiniteSet(K), NEW w \in [K -> Nat]
    PROVE  \E g : IsSum(g, w, K)
<1> DEFINE G == [x \in K \X Nat |-> w[x[1]] + x[2]]
           pick == [s \in SUBSET K |-> First(s)]
<1>1. G \in [K \X Nat -> Nat]
  OBVIOUS
<1>2. \A s \in SUBSET K : s # {} => pick[s] = First(s) /\ First(s) \in s
  BY DEF First
<1>3. \A x \in K : \A n \in Nat : G[<<x, n>>] = w[x] + n
  OBVIOUS
<1> HIDE DEF G, pick
<1>4. PICK g : IsFold(g, Nat, G, 0, pick, K)
  <2>1. \A s \in SUBSET K : s # {} => pick[s] \in s
    BY <1>2
  <2> QED
    BY <1>1, <2>1, FoldExists
<1>5. ASSUME NEW s \in SUBSET K
      PROVE  g[s] = IF s = {} THEN 0 ELSE w[First(s)] + g[s \ {First(s)}]
  <2>1. CASE s = {}
    BY <1>4, <2>1 DEF IsFold
  <2>2. CASE s # {}
    <3>1. First(s) \in K /\ g[s \ {First(s)}] \in Nat /\ g[s] = G[<<First(s), g[s \ {First(s)}]>>]
      BY <1>2, <1>4, <2>2 DEF IsFold
    <3> QED
      BY <1>3, <2>2, <3>1
  <2> QED
    BY <2>1, <2>2
<1>6. g \in [SUBSET K -> Nat]
  BY <1>4 DEF IsFold
<1> QED
  BY <1>5, <1>6 DEF IsSum

\* A sum is a number; an element adds its own.
LEMMA SumStep ==
    ASSUME NEW K, IsFiniteSet(K), NEW w \in [K -> Nat], NEW g, IsSum(g, w, K)
    PROVE  \A s \in SUBSET K : g[s] \in Nat /\ \A x \in s : g[s] = w[x] + g[s \ {x}]
<1> DEFINE Good(s) == g[s] \in Nat /\ \A x \in s : g[s] = w[x] + g[s \ {x}]
           T == {s \in SUBSET K : ~Good(s)}
<1>1. \A s \in SUBSET K : g[s] = IF s = {} THEN 0 ELSE w[First(s)] + g[s \ {First(s)}]
  BY DEF IsSum
<1>2. SUFFICES ASSUME T # {} PROVE FALSE
  OBVIOUS
<1>3. PICK s \in T : \A t \in SUBSET s : t # s => t \notin T
  <2>1. T \in SUBSET (SUBSET K)
    OBVIOUS
  <2> HIDE DEF T
  <2> QED
    BY <1>2, <2>1, Smallest
<1>4. s \in SUBSET K /\ \A t \in SUBSET s : t # s => t \in SUBSET K /\ Good(t)
  BY <1>3
<1>5. CASE s = {}
  <2>1. g[s] = 0 /\ \A x \in s : FALSE
    BY <1>1, <1>4, <1>5
  <2> QED
    BY <2>1
<1>6. CASE s # {}
  <2> DEFINE y == First(s)
  <2>1. y \in s
    BY <1>6 DEF First
  <2>2. g[s] = w[y] + g[s \ {y}]
    BY <1>1, <1>4, <1>6
  <2>3. g[s] \in Nat
    BY <1>4, <2>1, <2>2
  <2>4. ASSUME NEW x \in s PROVE g[s] = w[x] + g[s \ {x}]
    <3>1. CASE x = y
      BY <2>2, <3>1
    <3>2. CASE x # y
      <4> DEFINE r == (s \ {x}) \ {y}
      <4>1. r = (s \ {y}) \ {x}
        OBVIOUS
      <4>2. x \in s \ {y} /\ y \in s \ {x}
        BY <2>1, <3>2
      <4>3. g[s \ {y}] = w[x] + g[r]
        BY <1>4, <2>1, <4>1, <4>2
      <4>4. g[s \ {x}] = w[y] + g[r]
        BY <1>4, <4>2
      <4>5. g[r] \in Nat
        BY <1>4
      <4>6. w[x] \in Nat /\ w[y] \in Nat
        BY <1>4, <2>1
      <4> HIDE DEF r
      <4> QED
        BY <2>2, <4>3, <4>4, <4>5, <4>6
    <3> QED
      BY <3>1, <3>2
  <2> QED
    BY <1>3, <2>3, <2>4
<1> QED
  BY <1>5, <1>6

\* A sum is above zero when a term is, and above one when a term is or two
\* terms are above zero.
LEMMA SumIsAbove ==
    ASSUME NEW K, IsFiniteSet(K), NEW w \in [K -> Nat], NEW g, IsSum(g, w, K)
    PROVE  /\ g[K] \in Nat
           /\ g[K] > 0 <=> \E x \in K : w[x] > 0
           /\ g[K] > 1 <=> \/ \E x \in K : w[x] > 1
                           \/ \E x, y \in K : x # y /\ w[x] > 0 /\ w[y] > 0
<1>1. \A s \in SUBSET K : g[s] \in Nat /\ \A x \in s : g[s] = w[x] + g[s \ {x}]
  BY SumStep
<1>2. g[{}] = 0
  BY DEF IsSum
<1>3. \A x \in K : g[K] = w[x] + g[K \ {x}] /\ g[K \ {x}] \in Nat /\ w[x] \in Nat
  BY <1>1
<1> DEFINE T == {s \in SUBSET K : g[s] > 0 /\ ~ \E x \in s : w[x] > 0}
<1>4. T = {}
  <2>1. SUFFICES ASSUME T # {} PROVE FALSE
    OBVIOUS
  <2>2. PICK s \in T : \A t \in SUBSET s : t # s => t \notin T
    <3>1. T \in SUBSET (SUBSET K)
      OBVIOUS
    <3> HIDE DEF T
    <3> QED
      BY <2>1, <3>1, Smallest
  <2>3. PICK x \in s : TRUE
    <3>1. s \in SUBSET K /\ g[s] > 0
      OBVIOUS
    <3>2. s # {}
      BY <1>2, <3>1
    <3> QED
      BY <3>2
  <2>4. w[x] \in Nat /\ ~(w[x] > 0) /\ g[s] = w[x] + g[s \ {x}] /\ g[s] > 0 /\ g[s \ {x}] \in Nat
    BY <1>1, <2>2, <2>3
  <2>5. g[s \ {x}] > 0
    BY <2>4
  <2> QED
    BY <2>2, <2>3, <2>5
<1>5. \A s \in SUBSET K : g[s] > 0 => \E x \in s : w[x] > 0
  BY <1>4
<1> HIDE DEF T
<1>6. ASSUME NEW x \in K, NEW y \in K, x # y, w[x] > 0, w[y] > 0 PROVE g[K] > 1
  <2>1. y \in K \ {x} /\ K \ {x} \in SUBSET K /\ (K \ {x}) \ {y} \in SUBSET K
    BY <1>6
  <2>2. g[K \ {x}] = w[y] + g[(K \ {x}) \ {y}] /\ g[(K \ {x}) \ {y}] \in Nat
    BY <1>1, <2>1
  <2>3. w[y] \in Nat
    OBVIOUS
  <2> QED
    BY <1>3, <1>6, <2>2, <2>3
<1>7. ASSUME g[K] > 1, NEW x \in K, w[x] > 0, ~(w[x] > 1) PROVE \E y \in K : x # y /\ w[y] > 0
  <2>1. g[K \ {x}] > 0
    BY <1>3, <1>7
  <2> QED
    BY <1>5, <2>1
<1>8. g[K] \in Nat
  BY <1>1
<1>9. g[K] > 0 <=> \E x \in K : w[x] > 0
  <2>1. ASSUME NEW x \in K, w[x] > 0 PROVE g[K] > 0
    <3>1. g[K] = w[x] + g[K \ {x}] /\ g[K \ {x}] \in Nat /\ w[x] \in Nat
      BY <1>3
    <3> QED
      BY <2>1, <3>1
  <2> QED
    BY <1>5, <2>1
<1>10. ASSUME NEW x \in K, w[x] > 1 PROVE g[K] > 1
  <2>1. g[K] = w[x] + g[K \ {x}] /\ g[K \ {x}] \in Nat /\ w[x] \in Nat
    BY <1>3
  <2> QED
    BY <1>10, <2>1
<1>11. g[K] > 1 => g[K] > 0
  BY <1>8
<1> QED
  BY <1>6, <1>7, <1>8, <1>9, <1>10, <1>11

-----------------------------------------------------------------------------
(* Walks along the joins of a draft, and the counts of them. *)

Walk(js, p) ==
    /\ p \in Seq(DOMAIN js) /\ Len(p) > 0
    /\ \A i \in 1..Len(p) - 1 : Orient(js[p[i]])[2] = Orient(js[p[i + 1]])[1]

Between(js, a, c, n) ==
    {p \in Seq(DOMAIN js) : Walk(js, p) /\ Len(p) <= n /\ Start(js, p) = a /\ Finish(js, p) = c}

LEMMA WalkGrows ==
    ASSUME NEW js, NEW i \in DOMAIN js, NEW q, Walk(js, q), Start(js, q) = Orient(js[i])[2]
    PROVE  LET p == <<i>> \o q IN
           /\ Walk(js, p) /\ Len(p) = Len(q) + 1 /\ p[1] = i /\ Tail(p) = q
           /\ Start(js, p) = Orient(js[i])[1] /\ Finish(js, p) = Finish(js, q)
<1> DEFINE p == <<i>> \o q
<1>1. q \in Seq(DOMAIN js) /\ Len(q) \in Nat /\ Len(q) > 0
  BY DEF Walk
<1>2. <<i>> \in Seq(DOMAIN js) /\ Len(<<i>>) = 1 /\ <<i>>[1] = i
  OBVIOUS
<1>3. p \in Seq(DOMAIN js) /\ Len(p) = Len(q) + 1 /\ p[1] = i
  BY <1>1, <1>2, ConcatProperties
<1>4. \A k \in 1..Len(q) : p[k + 1] = q[k]
  <2>1. ASSUME NEW k \in 1..Len(q) PROVE p[k + 1] = q[k]
    <3>1. k + 1 \in 1..Len(<<i>>) + Len(q) /\ k + 1 > Len(<<i>>) /\ (k + 1) - Len(<<i>>) = k
      BY <1>1, <1>2
    <3> QED
      BY <1>1, <1>2, <3>1, ConcatProperties
  <2> QED
    BY <2>1
<1> HIDE DEF p
<1>5. Tail(p) = q
  <2>1. Tail(p) \in Seq(DOMAIN js) /\ Len(Tail(p)) = Len(q) /\ \A k \in 1..Len(q) : Tail(p)[k] = p[k + 1]
    BY <1>1, <1>3
  <2> QED
    BY <1>1, <1>4, <2>1, SeqEqual
<1>6. ASSUME NEW k \in 1..Len(p) - 1 PROVE Orient(js[p[k]])[2] = Orient(js[p[k + 1]])[1]
  <2>1. p[k + 1] = q[k]
    BY <1>1, <1>3, <1>4
  <2>2. CASE k = 1
    BY <1>3, <2>1, <2>2 DEF Start
  <2>3. CASE k # 1
    <3>1. k - 1 \in 1..Len(q) - 1 /\ k - 1 \in 1..Len(q) /\ (k - 1) + 1 = k
      BY <1>1, <1>3, <2>3
    <3>2. p[k] = q[k - 1]
      BY <1>4, <3>1
    <3>3. Orient(js[q[k - 1]])[2] = Orient(js[q[k]])[1]
      BY <3>1 DEF Walk
    <3> QED
      BY <2>1, <3>2, <3>3
  <2> QED
    BY <2>2, <2>3
<1>7. Walk(js, p)
  BY <1>1, <1>3, <1>6 DEF Walk
<1>8. Finish(js, p) = Finish(js, q) /\ Start(js, p) = Orient(js[i])[1]
  <2>1. p[Len(p)] = q[Len(q)]
    BY <1>1, <1>3, <1>4
  <2> QED
    BY <1>3, <2>1 DEF Finish, Start
<1> QED
  BY <1>3, <1>5, <1>7, <1>8 DEF p

LEMMA WalkShrinks ==
    ASSUME NEW js, NEW p, Walk(js, p), Len(p) # 1
    PROVE  /\ Walk(js, Tail(p)) /\ Len(Tail(p)) = Len(p) - 1 /\ p[1] \in DOMAIN js
           /\ Start(js, Tail(p)) = Orient(js[p[1]])[2] /\ Finish(js, Tail(p)) = Finish(js, p)
           /\ p = <<p[1]>> \o Tail(p)
<1> DEFINE q == Tail(p)
<1>1. p \in Seq(DOMAIN js) /\ Len(p) \in Nat /\ Len(p) > 1
  <2>1. p \in Seq(DOMAIN js) /\ Len(p) > 0
    BY DEF Walk
  <2>2. Len(p) \in Nat
    BY <2>1, LenProperties
  <2>3. \A n \in Nat : n > 0 /\ n # 1 => n > 1
    OBVIOUS
  <2> QED
    BY <2>1, <2>2, <2>3, Zenon
<1>2. q \in Seq(DOMAIN js) /\ Len(q) = Len(p) - 1 /\ \A k \in 1..Len(q) : q[k] = p[k + 1]
  BY <1>1
<1>3. p[1] \in DOMAIN js
  BY <1>1, ElementOfSeq
<1> HIDE DEF q
<1>4. ASSUME NEW k \in 1..Len(q) - 1 PROVE Orient(js[q[k]])[2] = Orient(js[q[k + 1]])[1]
  <2>1. k \in 1..Len(q) /\ k + 1 \in 1..Len(q) /\ k + 1 \in 1..Len(p) - 1
    BY <1>1, <1>2
  <2>2. q[k] = p[k + 1] /\ q[k + 1] = p[(k + 1) + 1]
    BY <1>2, <2>1
  <2> QED
    BY <2>1, <2>2 DEF Walk
<1>5. Walk(js, q)
  BY <1>1, <1>2, <1>4 DEF Walk
<1>6. Start(js, q) = Orient(js[p[1]])[2]
  <2>1. 1 \in 1..Len(q) /\ 1 \in 1..Len(p) - 1
    BY <1>1, <1>2
  <2>2. q[1] = p[1 + 1]
    BY <1>2, <2>1
  <2>3. Orient(js[p[1]])[2] = Orient(js[p[1 + 1]])[1]
    BY <2>1 DEF Walk
  <2> QED
    BY <2>2, <2>3 DEF Start
<1>7. Finish(js, q) = Finish(js, p)
  <2>1. Len(q) \in 1..Len(q) /\ Len(q) + 1 = Len(p)
    BY <1>1, <1>2
  <2>2. q[Len(q)] = p[Len(p)]
    BY <1>2, <2>1
  <2> QED
    BY <2>2 DEF Finish
<1>8. p = <<p[1]>> \o q
  <2> DEFINE s == <<p[1]>> \o q
  <2>1. <<p[1]>> \in Seq(DOMAIN js) /\ Len(<<p[1]>>) = 1 /\ <<p[1]>>[1] = p[1]
    BY <1>3
  <2>2. s \in Seq(DOMAIN js) /\ Len(s) = Len(p)
    BY <1>1, <1>2, <2>1, ConcatProperties
  <2>3. ASSUME NEW k \in 1..Len(p) PROVE s[k] = p[k]
    <3>1. CASE k = 1
      BY <1>1, <1>2, <2>1, <3>1, ConcatProperties
    <3>2. CASE k # 1
      <4>1. k > 1 /\ k \in 1..1 + Len(q) /\ k - 1 \in 1..Len(q) /\ (k - 1) + 1 = k
        BY <1>1, <1>2, <3>2
      <4>2. s[k] = q[k - 1]
        BY <1>2, <2>1, <4>1, ConcatProperties
      <4> QED
        BY <1>2, <4>1, <4>2
    <3> QED
      BY <3>1, <3>2
  <2> QED
    BY <1>1, <2>2, <2>3, SeqEqual
<1> QED
  BY <1>2, <1>3, <1>5, <1>6, <1>7, <1>8 DEF q

LEMMA UpToCount ==
    ASSUME NEW n \in Nat
    PROVE  IsFiniteSet(1..n) /\ Cardinality(1..n) = n
<1>1. IsFiniteSet(1..n) /\ Cardinality(1..n) = IF 1 > n THEN 0 ELSE n - 1 + 1
  BY FS_Interval
<1> QED
  BY <1>1

\* Without a loop a walk takes no join twice, and meets no table twice.
LEMMA WalksFit ==
    ASSUME NEW js \in Seq(Join), Acyclic(js), NEW p, Walk(js, p)
    PROVE  Len(p) <= Len(js) /\ Len(p) <= Cardinality(Tables)
<1>1. PICK r : Ranks(js, r)
  BY AcyclicIsRanked
<1> DEFINE at(i) == Orient(js[p[i]])[1]
<1>2. p \in Seq(DOMAIN js) /\ Len(p) \in Nat /\ \A i \in 1..Len(p) : p[i] \in DOMAIN js
  <2>1. p \in Seq(DOMAIN js)
    BY DEF Walk
  <2> QED
    BY <2>1, ElementOfSeq
<1>3. \A i \in 1..Len(p) : at(i) \in Tables /\ r[at(i)] \in Nat
  BY <1>1, <1>2, EdgesType DEF Ranks
<1>4. ASSUME NEW i \in 1..Len(p) - 1 PROVE r[at(i)] < r[at(i + 1)]
  <2>1. p[i] \in DOMAIN js /\ Orient(js[p[i]])[2] = at(i + 1)
    BY <1>2 DEF Walk
  <2>2. Orient(js[p[i]]) \in Edges(js)
    BY <2>1 DEF Edges
  <2> QED
    BY <1>1, <2>1, <2>2 DEF Ranks
<1>5. ASSUME NEW i \in 1..Len(p) PROVE \A k \in 1..Len(p) : i < k => r[at(i)] < r[at(k)]
  <2> DEFINE T == {k \in 1..Len(p) : i < k /\ ~(r[at(i)] < r[at(k)])}
  <2>1. T = {}
    <3>1. SUFFICES ASSUME T # {} PROVE FALSE
      OBVIOUS
    <3>2. PICK k \in T : \A l \in T : k <= l
      <4>1. T \in SUBSET Nat
        BY <1>2
      <4> HIDE DEF T
      <4> QED
        BY <3>1, <4>1, Least
    <3>3. k \in 1..Len(p) /\ i < k /\ ~(r[at(i)] < r[at(k)])
      OBVIOUS
    <3>4. k - 1 \in 1..Len(p) - 1 /\ k - 1 \in 1..Len(p) /\ (k - 1) + 1 = k /\ k - 1 \notin T
      <4>1. k \in Nat /\ i \in Nat /\ i >= 1
        BY <1>2, <3>3
      <4>2. k - 1 \in 1..Len(p) - 1 /\ k - 1 \in 1..Len(p) /\ (k - 1) + 1 = k
        BY <1>2, <3>3, <4>1
      <4> HIDE DEF T
      <4> QED
        BY <3>2, <4>1, <4>2
    <3>5. r[at(k - 1)] < r[at(k)]
      BY <1>4, <3>4
    <3>6. i = k - 1 \/ r[at(i)] < r[at(k - 1)]
      BY <1>2, <3>3, <3>4
    <3>7. r[at(i)] \in Nat /\ r[at(k - 1)] \in Nat /\ r[at(k)] \in Nat
      BY <1>3, <3>3, <3>4
    <3> HIDE DEF T, at
    <3> QED
      BY <3>3, <3>5, <3>6, <3>7
  <2> QED
    BY <2>1
<1>6. ASSUME NEW i \in 1..Len(p), NEW k \in 1..Len(p), i # k PROVE at(i) # at(k)
  <2>1. i < k \/ k < i
    BY <1>2, <1>6
  <2>2. r[at(i)] # r[at(k)]
    BY <1>3, <1>5, <2>1
  <2> QED
    BY <2>2
<1>7. Len(p) <= Cardinality(Tables)
  <2> DEFINE f == [i \in 1..Len(p) |-> at(i)]
  <2>1. f \in [1..Len(p) -> Tables] /\ \A i \in 1..Len(p) : f[i] = at(i)
    BY <1>3
  <2> HIDE DEF f, at
  <2>2. f \in Injection(1..Len(p), Tables)
    BY <1>6, <2>1 DEF Injection, IsInjective
  <2>3. Cardinality(1..Len(p)) <= Cardinality(Tables)
    BY <2>2, GraphAssumption, FS_Injection
  <2> QED
    BY <1>2, <2>3, UpToCount
<1>8. Len(p) <= Len(js)
  <2>1. p \in [1..Len(p) -> DOMAIN js] /\ DOMAIN js = 1..Len(js) /\ Len(js) \in Nat
    BY <1>2
  <2>2. ASSUME NEW i \in 1..Len(p), NEW k \in 1..Len(p), p[i] = p[k] PROVE i = k
    BY <1>6, <2>2
  <2>3. p \in Injection(1..Len(p), DOMAIN js)
    BY <2>1, <2>2 DEF Injection, IsInjective
  <2>4. IsFiniteSet(DOMAIN js) /\ Cardinality(DOMAIN js) = Len(js)
    BY <2>1, UpToCount
  <2>5. Cardinality(1..Len(p)) <= Len(js)
    BY <2>3, <2>4, FS_Injection
  <2> QED
    BY <1>2, <2>5, UpToCount
<1> QED
  BY <1>7, <1>8

\* So the paths one can enumerate are all the walks.
LEMMA PathsAreWalks ==
    ASSUME NEW js \in Seq(Join), Acyclic(js)
    PROVE  \A p : p \in Paths(js) <=> Walk(js, p)
<1>1. Len(js) \in Nat
  OBVIOUS
<1>2. ASSUME NEW p, p \in Paths(js) PROVE Walk(js, p)
  <2>1. PICK n \in 1..Len(js) : p \in [1..n -> DOMAIN js]
    BY <1>2 DEF Paths
  <2>2. p \in Seq(DOMAIN js) /\ Len(p) = n /\ n \in Nat /\ n > 0
    BY <1>1, <2>1, SeqDef
  <2>3. \A i \in 1..Len(p) - 1 : Orient(js[p[i]])[2] = Orient(js[p[i + 1]])[1]
    BY <1>2 DEF Paths
  <2> QED
    BY <2>2, <2>3 DEF Walk
<1>3. ASSUME NEW p, Walk(js, p) PROVE p \in Paths(js)
  <2>1. /\ p \in Seq(DOMAIN js) /\ Len(p) > 0
        /\ \A i \in 1..Len(p) - 1 : Orient(js[p[i]])[2] = Orient(js[p[i + 1]])[1]
    BY <1>3 DEF Walk
  <2>2. Len(p) \in 1..Len(js) /\ p \in [1..Len(p) -> DOMAIN js]
    BY <1>1, <1>3, <2>1, WalksFit
  <2> QED
    BY <2>1, <2>2 DEF Paths
<1> QED
  BY <1>2, <1>3

StepsFrom(js, a) == {i \in DOMAIN js : Orient(js[i])[1] = a}
Ways(js, W, p, i) == (IF Orient(js[i])[2] = p[2] THEN 1 ELSE 0) + W[<<Orient(js[i])[2], p[2]>>]
WaysFrom(js, W, p) ==
    MapThenSumSet(
      LAMBDA i : (IF Orient(js[i])[2] = p[2] THEN 1 ELSE 0) + W[<<Orient(js[i])[2], p[2]>>],
      {i \in DOMAIN js : Orient(js[i])[1] = p[1]})

LEMMA WaysAreNumbers ==
    ASSUME NEW js \in Seq(Join), NEW W \in [Tables \X Tables -> Nat], NEW p \in Tables \X Tables,
           NEW i \in DOMAIN js
    PROVE  Ways(js, W, p, i) \in Nat
<1>1. <<Orient(js[i])[2], p[2]>> \in Tables \X Tables
  BY EdgesType
<1>2. W[<<Orient(js[i])[2], p[2]>>] \in Nat
  BY <1>1
<1> QED
  BY <1>2 DEF Ways

LEMMA WaysAddUp ==
    ASSUME NEW js \in Seq(Join), NEW W \in [Tables \X Tables -> Nat], NEW p \in Tables \X Tables
    PROVE  LET K == StepsFrom(js, p[1])
               total == WaysFrom(js, W, p)
           IN  /\ total \in Nat
               /\ total > 0 <=> \E i \in K : Ways(js, W, p, i) > 0
               /\ total > 1 <=> \/ \E i \in K : Ways(js, W, p, i) > 1
                                \/ \E i, k \in K : i # k /\ Ways(js, W, p, i) > 0 /\ Ways(js, W, p, k) > 0
<1> DEFINE K == StepsFrom(js, p[1])
           w == [i \in K |-> Ways(js, W, p, i)]
           Runs(g) == g = [s \in SUBSET K |-> IF s = {} THEN 0 ELSE Ways(js, W, p, First(s)) + g[s \ {First(s)}]]
           iter == CHOOSE g : Runs(g)
<1>1. IsFiniteSet(K)
  <2>1. IsFiniteSet(DOMAIN js)
    <3>1. DOMAIN js = 1..Len(js) /\ Len(js) \in Nat
      OBVIOUS
    <3> QED
      BY <3>1, UpToCount
  <2>2. K \subseteq DOMAIN js
    BY DEF StepsFrom
  <2> QED
    BY <2>1, <2>2, FS_Subset
<1>2. w \in [K -> Nat] /\ \A i \in K : w[i] = Ways(js, W, p, i)
  BY WaysAreNumbers DEF StepsFrom
<1>3. WaysFrom(js, W, p) = iter[K]
  BY DEF WaysFrom, MapThenSumSet, MapThenFoldSet, StepsFrom, Ways, First
<1> HIDE DEF w
<1>4. \A g : Runs(g) <=> IsSum(g, w, K)
  <2>1. \A s \in SUBSET K : s # {} => w[First(s)] = Ways(js, W, p, First(s))
    <3>1. \A s \in SUBSET K : s # {} => First(s) \in K
      BY DEF First
    <3> QED
      BY <1>2, <3>1
  <2> HIDE DEF K
  <2>2. ASSUME NEW g
        PROVE  [s \in SUBSET K |-> IF s = {} THEN 0 ELSE Ways(js, W, p, First(s)) + g[s \ {First(s)}]]
                 = [s \in SUBSET K |-> IF s = {} THEN 0 ELSE w[First(s)] + g[s \ {First(s)}]]
    BY <2>1
  <2> QED
    BY <2>2 DEF IsSum
<1>5. \E g : Runs(g)
  BY <1>1, <1>2, <1>4, SumExists
<1>6. IsSum(iter, w, K)
  <2> HIDE DEF K, Runs
  <2>1. Runs(iter)
    BY <1>5
  <2> QED
    BY <1>4, <2>1
<1> HIDE DEF iter, K
<1>7. /\ iter[K] \in Nat
      /\ iter[K] > 0 <=> \E x \in K : w[x] > 0
      /\ iter[K] > 1 <=> \/ \E x \in K : w[x] > 1
                         \/ \E x, y \in K : x # y /\ w[x] > 0 /\ w[y] > 0
  BY <1>1, <1>2, <1>6, SumIsAbove
<1>8. /\ (\E x \in K : w[x] > 0) <=> \E i \in K : Ways(js, W, p, i) > 0
      /\ (\E x \in K : w[x] > 1) <=> \E i \in K : Ways(js, W, p, i) > 1
      /\ (\E x, y \in K : x # y /\ w[x] > 0 /\ w[y] > 0)
           <=> \E i, k \in K : i # k /\ Ways(js, W, p, i) > 0 /\ Ways(js, W, p, k) > 0
  BY <1>2
<1> QED
  BY <1>3, <1>7, <1>8 DEF K

LEMMA WalksAreChain ==
    ASSUME NEW js \in Seq(Join)
    PROVE  \E chain \in [0..Cardinality(Tables) -> [Tables \X Tables -> Nat]] :
              /\ chain[0] = [p \in Tables \X Tables |-> 0]
              /\ \A n \in 1..Cardinality(Tables) :
                    chain[n] = [p \in Tables \X Tables |-> WaysFrom(js, chain[n - 1], p)]
              /\ Walks(js) = chain[Cardinality(Tables)]
<1> DEFINE N == Cardinality(Tables)
           S == [Tables \X Tables -> Nat]
           none == [p \in Tables \X Tables |-> 0]
           more(W) == [p \in Tables \X Tables |-> WaysFrom(js, W, p)]
           step == [W \in S |-> more(W)]
           Chains(c) == c = [n \in 0..N |-> IF n = 0 THEN none ELSE more(c[n - 1])]
           chain == CHOOSE c : Chains(c)
<1>1. N \in Nat
  BY GraphAssumption, FS_CardinalityType
<1>2. step \in [S -> S] /\ none \in S /\ \A W \in S : step[W] = more(W)
  <2>1. ASSUME NEW W \in S PROVE more(W) \in S
    BY WaysAddUp
  <2> QED
    BY <2>1
<1>3. Walks(js) = chain[N]
  BY DEF Walks, WaysFrom
<1> HIDE DEF step, more, none, S
<1>4. PICK g : g \in Iterates(S, step, none, N)
  BY <1>1, <1>2, IteratesExist
<1>5. g \in [0..N -> S] /\ g[0] = none /\ \A n \in 1..N : g[n] = more(g[n - 1])
  <2>1. g \in [0..N -> S] /\ g[0] = none /\ \A i \in 1..N : g[i] = step[g[i - 1]]
    BY <1>4 DEF Iterates
  <2>2. ASSUME NEW i \in 1..N PROVE g[i - 1] \in S
    BY <1>1, <2>1
  <2> QED
    BY <1>2, <2>1, <2>2
<1>6. Chains(g)
  <2>1. ASSUME NEW i \in 0..N, i # 0 PROVE i \in 1..N
    BY <1>1, <2>1
  <2> QED
    BY <1>5, <2>1
<1>7. Chains(chain)
  BY <1>6
<1> HIDE DEF chain
<1>8. chain = g
  <2>1. \A n \in 0..N : chain[n] = IF n = 0 THEN none ELSE more(chain[n - 1])
    BY <1>7
  <2> DEFINE T == {n \in 0..N : chain[n] # g[n]}
  <2>2. T = {}
    <3>1. SUFFICES ASSUME T # {} PROVE FALSE
      OBVIOUS
    <3>2. T \in SUBSET Nat
      BY <1>1
    <3>3. PICK m \in T : \A n \in T : m <= n
      BY <3>1, <3>2, Least
    <3>4. m # 0
      BY <1>5, <2>1
    <3>5. m - 1 \in 0..N /\ m \in 1..N /\ m - 1 \notin T
      BY <1>1, <3>3, <3>4
    <3> QED
      BY <1>5, <2>1, <3>3, <3>4, <3>5
  <2>3. DOMAIN chain = 0..N /\ chain = [n \in 0..N |-> chain[n]]
    BY <1>7
  <2> QED
    BY <1>5, <2>2, <2>3
<1> QED
  BY <1>3, <1>5, <1>8 DEF S, none, more

\* What the numbers of walks tell apart: none, one, several.
Counts(js, n, W) ==
    \A p \in Tables \X Tables :
        /\ W[p] > 0 <=> Between(js, p[1], p[2], n) # {}
        /\ W[p] > 1 <=> \E q, s \in Between(js, p[1], p[2], n) : q # s

\* The walks that take the join i first.
TakenFirst(n, walks, i) ==
    /\ n > 0 <=> \E q \in walks : q[1] = i
    /\ n > 1 <=> \E q, s \in walks : q # s /\ q[1] = i /\ s[1] = i

LEMMA WaysCount ==
    ASSUME NEW js \in Seq(Join), NEW W \in [Tables \X Tables -> Nat], NEW n \in Nat, Counts(js, n, W),
           NEW p \in Tables \X Tables, NEW i \in StepsFrom(js, p[1])
    PROVE  TakenFirst(Ways(js, W, p, i), Between(js, p[1], p[2], n + 1), i)
<1> DEFINE b == Orient(js[i])[2]
           c == p[2]
           here == Between(js, p[1], c, n + 1)
           there == Between(js, b, c, n)
           k == W[<<b, c>>]
<1>1. i \in DOMAIN js /\ Orient(js[i])[1] = p[1] /\ b \in Tables /\ <<b, c>> \in Tables \X Tables
  <2>1. i \in DOMAIN js /\ Orient(js[i])[1] = p[1]
    BY DEF StepsFrom
  <2> QED
    BY <2>1, EdgesType
<1>2. k \in Nat
  BY <1>1
<1>3. k > 0 <=> there # {}
  BY <1>1 DEF Counts
<1>4. k > 1 <=> \E q, s \in there : q # s
  BY <1>1 DEF Counts
<1>5. Ways(js, W, p, i) = (IF b = c THEN 1 ELSE 0) + k
  BY DEF Ways
<1> DEFINE lone == <<i>>
<1>6. ASSUME b = c PROVE lone \in here /\ lone[1] = i /\ Len(lone) = 1
  <2>1. lone \in Seq(DOMAIN js) /\ Len(lone) = 1 /\ lone[1] = i
    BY <1>1
  <2>2. Walk(js, lone)
    BY <2>1 DEF Walk
  <2>3. Start(js, lone) = p[1] /\ Finish(js, lone) = c
    BY <1>1, <1>6, <2>1 DEF Start, Finish
  <2> QED
    BY <2>1, <2>2, <2>3 DEF Between
<1>7. ASSUME NEW u \in there
      PROVE  <<i>> \o u \in here /\ (<<i>> \o u)[1] = i /\ Tail(<<i>> \o u) = u /\ Len(<<i>> \o u) # 1
  <2>1. Walk(js, u) /\ Len(u) <= n /\ Start(js, u) = b /\ Finish(js, u) = c
    BY DEF Between
  <2>2. Len(u) \in Nat /\ Len(u) > 0
    BY <2>1 DEF Walk
  <2> DEFINE v == <<i>> \o u
  <2>3. /\ Walk(js, v) /\ Len(v) = Len(u) + 1 /\ v[1] = i /\ Tail(v) = u
        /\ Start(js, v) = p[1] /\ Finish(js, v) = c
    BY <1>1, <2>1, WalkGrows
  <2> HIDE DEF v
  <2>4. v \in here
    <3>1. v \in Seq(DOMAIN js) /\ Len(v) <= n + 1
      BY <2>1, <2>2, <2>3 DEF Walk
    <3> QED
      BY <2>3, <3>1 DEF Between
  <2>5. Len(v) # 1
    BY <2>2, <2>3
  <2> QED
    BY <2>3, <2>4, <2>5 DEF v
<1>8. ASSUME NEW q \in here, q[1] = i
      PROVE  \/ b = c /\ q = lone
             \/ Tail(q) \in there /\ q = <<i>> \o Tail(q)
  <2>1. Walk(js, q) /\ Len(q) <= n + 1 /\ Finish(js, q) = c /\ q \in Seq(DOMAIN js)
    BY DEF Between
  <2>2. CASE Len(q) = 1
    <3>1. b = c
      BY <1>8, <2>1, <2>2 DEF Finish
    <3>2. q = lone
      BY <1>1, <1>8, <2>1, <2>2, SeqEqual
    <3> QED
      BY <3>1, <3>2
  <2>3. CASE Len(q) # 1
    <3>1. /\ Walk(js, Tail(q)) /\ Len(Tail(q)) = Len(q) - 1
          /\ Start(js, Tail(q)) = b /\ Finish(js, Tail(q)) = c
          /\ q = <<i>> \o Tail(q)
      BY <1>8, <2>1, <2>3, WalkShrinks
    <3>2. Tail(q) \in Seq(DOMAIN js) /\ Len(Tail(q)) <= n
      <4>1. Len(q) \in Nat
        BY <2>1
      <4> QED
        BY <2>1, <3>1, <4>1 DEF Walk
    <3> QED
      BY <3>1, <3>2 DEF Between
  <2> QED
    BY <2>2, <2>3
<1>9. Ways(js, W, p, i) > 0 <=> b = c \/ there # {}
  BY <1>2, <1>3, <1>5
<1>10. Ways(js, W, p, i) > 1 <=> (b = c /\ there # {}) \/ (\E q, s \in there : q # s)
  <2>1. Ways(js, W, p, i) > 1 <=> (b = c /\ k > 0) \/ k > 1
    BY <1>2, <1>5
  <2> QED
    BY <1>3, <1>4, <2>1
<1> HIDE DEF b, c, here, there, k, lone
<1>11. Ways(js, W, p, i) > 0 <=> \E q \in here : q[1] = i
  BY <1>6, <1>7, <1>8, <1>9
<1>12. ASSUME b = c, there # {} PROVE \E q, s \in here : q # s /\ q[1] = i /\ s[1] = i
  <2>1. PICK u \in there : TRUE
    BY <1>12
  <2>2. lone # <<i>> \o u
    BY <1>6, <1>7, <1>12
  <2> QED
    BY <1>6, <1>7, <1>12, <2>2
<1>13. ASSUME NEW u \in there, NEW v \in there, u # v
       PROVE  \E q, s \in here : q # s /\ q[1] = i /\ s[1] = i
  <2>1. <<i>> \o u # <<i>> \o v
    BY <1>7, <1>13
  <2> QED
    BY <1>7, <2>1
<1>14. ASSUME NEW q \in here, NEW s \in here, q # s, q[1] = i, s[1] = i
       PROVE  (b = c /\ there # {}) \/ (\E u, v \in there : u # v)
  <2>1. (b = c /\ q = lone) \/ (Tail(q) \in there /\ q = <<i>> \o Tail(q))
    BY <1>8, <1>14
  <2>2. (b = c /\ s = lone) \/ (Tail(s) \in there /\ s = <<i>> \o Tail(s))
    BY <1>8, <1>14
  <2>3. CASE b = c /\ q = lone
    BY <1>14, <2>2, <2>3
  <2>4. CASE b = c /\ s = lone
    BY <1>14, <2>1, <2>4
  <2>5. CASE /\ Tail(q) \in there /\ q = <<i>> \o Tail(q)
             /\ Tail(s) \in there /\ s = <<i>> \o Tail(s)
    <3>1. Tail(q) # Tail(s)
      BY <1>14, <2>5, Zenon
    <3> QED
      BY <2>5, <3>1, Zenon
  <2> QED
    BY <2>1, <2>2, <2>3, <2>4, <2>5
<1> QED
  BY <1>10, <1>11, <1>12, <1>13, <1>14 DEF here, c, TakenFirst

LEMMA CountsGrow ==
    ASSUME NEW js \in Seq(Join), NEW W \in [Tables \X Tables -> Nat], NEW n \in Nat, Counts(js, n, W),
           NEW V, V = [p \in Tables \X Tables |-> WaysFrom(js, W, p)]
    PROVE  Counts(js, n + 1, V)
<1> SUFFICES ASSUME NEW p \in Tables \X Tables
             PROVE  /\ V[p] > 0 <=> Between(js, p[1], p[2], n + 1) # {}
                    /\ V[p] > 1 <=> \E q, s \in Between(js, p[1], p[2], n + 1) : q # s
  BY DEF Counts
<1> DEFINE here == Between(js, p[1], p[2], n + 1)
           K == StepsFrom(js, p[1])
           ways(i) == Ways(js, W, p, i)
<1>1. V[p] = WaysFrom(js, W, p)
  OBVIOUS
<1>2. /\ V[p] > 0 <=> \E i \in K : ways(i) > 0
      /\ V[p] > 1 <=> \/ \E i \in K : ways(i) > 1
                      \/ \E i, k \in K : i # k /\ ways(i) > 0 /\ ways(k) > 0
  BY <1>1, WaysAddUp
<1>3. \A i \in K : TakenFirst(ways(i), here, i)
  BY WaysCount
<1>4. ASSUME NEW q \in here PROVE q[1] \in K
  <2>1. Walk(js, q) /\ Start(js, q) = p[1]
    BY DEF Between
  <2>2. q \in Seq(DOMAIN js) /\ Len(q) > 0
    BY <2>1 DEF Walk
  <2>3. q[1] \in DOMAIN js
    BY <2>2, ElementOfSeq
  <2> QED
    BY <2>1, <2>3 DEF Start, StepsFrom
<1> HIDE DEF here, K, ways
<1>5. V[p] > 0 <=> here # {}
  BY <1>2, <1>3, <1>4 DEF TakenFirst
<1>6. V[p] > 1 <=> \E q, s \in here : q # s
  <2>1. ASSUME NEW q \in here, NEW s \in here, q # s PROVE V[p] > 1
    BY <1>2, <1>3, <1>4, <2>1 DEF TakenFirst
  <2>2. ASSUME V[p] > 1 PROVE \E q, s \in here : q # s
    BY <1>2, <1>3, <2>2 DEF TakenFirst
  <2> QED
    BY <2>1, <2>2
<1> QED
  BY <1>5, <1>6 DEF here

\* The walks of a draft, counted.
LEMMA WalksCount ==
    ASSUME NEW js \in Seq(Join)
    PROVE  Counts(js, Cardinality(Tables), Walks(js))
<1> DEFINE N == Cardinality(Tables)
<1>1. N \in Nat
  BY GraphAssumption, FS_CardinalityType
<1>2. PICK chain \in [0..N -> [Tables \X Tables -> Nat]] :
              /\ chain[0] = [p \in Tables \X Tables |-> 0]
              /\ \A n \in 1..N : chain[n] = [p \in Tables \X Tables |-> WaysFrom(js, chain[n - 1], p)]
              /\ Walks(js) = chain[N]
  BY WalksAreChain
<1>3. Counts(js, 0, chain[0])
  <2>1. ASSUME NEW p \in Tables \X Tables PROVE Between(js, p[1], p[2], 0) = {}
    <3>1. ASSUME NEW q \in Between(js, p[1], p[2], 0) PROVE FALSE
      <4>1. q \in Seq(DOMAIN js) /\ Len(q) > 0 /\ Len(q) <= 0
        BY DEF Between, Walk
      <4>2. Len(q) \in Nat
        BY <4>1, LenProperties
      <4> QED
        BY <4>1, <4>2
    <3> QED
      BY <3>1
  <2>2. \A p \in Tables \X Tables : chain[0][p] = 0
    BY <1>2
  <2>3. ASSUME NEW p \in Tables \X Tables
        PROVE  /\ chain[0][p] > 0 <=> Between(js, p[1], p[2], 0) # {}
               /\ chain[0][p] > 1 <=> \E q, s \in Between(js, p[1], p[2], 0) : q # s
    <3>1. ~(chain[0][p] > 0) /\ ~(chain[0][p] > 1)
      BY <2>2
    <3> QED
      BY <2>1, <3>1, Zenon
  <2> QED
    BY <2>3 DEF Counts
<1> DEFINE T == {n \in 0..N : ~Counts(js, n, chain[n])}
<1>4. T = {}
  <2>1. SUFFICES ASSUME T # {} PROVE FALSE
    OBVIOUS
  <2>2. T \in SUBSET Nat
    BY <1>1
  <2>3. PICK m \in T : \A n \in T : m <= n
    BY <2>1, <2>2, Least
  <2>4. m # 0
    BY <1>3
  <2>5. m - 1 \in 0..N /\ m - 1 \in Nat /\ m \in 1..N /\ m - 1 \notin T /\ (m - 1) + 1 = m
    BY <1>1, <2>3, <2>4
  <2>6. Counts(js, m - 1, chain[m - 1]) /\ chain[m - 1] \in [Tables \X Tables -> Nat]
    BY <1>2, <2>5
  <2>7. chain[m] = [p \in Tables \X Tables |-> WaysFrom(js, chain[m - 1], p)]
    BY <1>2, <2>5
  <2> HIDE DEF T
  <2>8. Counts(js, (m - 1) + 1, chain[m])
    BY <2>5, <2>6, <2>7, CountsGrow
  <2>9. Counts(js, m, chain[m])
    BY <2>5, <2>8
  <2> QED
    BY <2>3, <2>9 DEF T
<1> QED
  BY <1>1, <1>2, <1>4

\* "Two ways from one table to another": without a loop, the check finds them
\* exactly when there are, and says so.
LEMMA SecondPathCheck ==
    ASSUME NEW js \in Seq(Join), Acyclic(js)
    PROVE  SecondPath(js) = IF OneWay(js) THEN "none" ELSE "second"
<1> DEFINE W == Walks(js)
           N == Cardinality(Tables)
           at(i) == Orient(js[i])[1]
           twice(t) == \E far \in Tables : W[<<t, far>>] > 1
           stops == {i \in DOMAIN js : LeadsToLoop(js, at(i)) \/ twice(at(i))}
<1>1. \A i \in DOMAIN js : at(i) \in Tables /\ Orient(js[i])[2] \in Tables
  BY EdgesType
<1>2. \A i \in DOMAIN js : ~LeadsToLoop(js, at(i))
  BY <1>1, NoLoopToLead
<1>3. ASSUME NEW a \in Tables, NEW c \in Tables
      PROVE  W[<<a, c>>] > 1 <=> \E p, q \in Paths(js) : /\ p # q
                                                        /\ Start(js, p) = a /\ Finish(js, p) = c
                                                        /\ Start(js, q) = a /\ Finish(js, q) = c
  <2>1. W[<<a, c>>] > 1 <=> \E p, q \in Between(js, a, c, N) : p # q
    <3>1. <<a, c>> \in Tables \X Tables /\ <<a, c>>[1] = a /\ <<a, c>>[2] = c
      OBVIOUS
    <3>2. \A p \in Tables \X Tables : W[p] > 1 <=> \E q, s \in Between(js, p[1], p[2], N) : q # s
      BY WalksCount DEF Counts
    <3> HIDE DEF W, N
    <3> QED
      BY <3>1, <3>2, Zenon
  <2>2. \A p : p \in Between(js, a, c, N) <=> p \in Paths(js) /\ Start(js, p) = a /\ Finish(js, p) = c
    BY PathsAreWalks, WalksFit DEF Between, Walk
  <2> QED
    BY <2>1, <2>2
<1>4. ASSUME NEW p \in Paths(js)
      PROVE  /\ Start(js, p) \in Tables /\ Finish(js, p) \in Tables
             /\ p[1] \in DOMAIN js /\ Start(js, p) = at(p[1])
  <2>1. p \in Seq(DOMAIN js) /\ Len(p) > 0
    BY PathsAreWalks DEF Walk
  <2>2. p[1] \in DOMAIN js /\ p[Len(p)] \in DOMAIN js
    BY <2>1, ElementOfSeq
  <2> QED
    BY <1>1, <2>2 DEF Start, Finish
<1> HIDE DEF W, at
<1>5. stops = {} <=> OneWay(js)
  <2>1. ASSUME NEW i \in DOMAIN js, twice(at(i)) PROVE ~OneWay(js)
    BY <1>1, <1>3, <2>1 DEF OneWay
  <2>2. ASSUME ~OneWay(js) PROVE \E i \in DOMAIN js : twice(at(i))
    <3>1. PICK p \in Paths(js), q \in Paths(js) :
             Start(js, p) = Start(js, q) /\ Finish(js, p) = Finish(js, q) /\ p # q
      BY <2>2 DEF OneWay
    <3> QED
      BY <1>3, <1>4, <3>1
  <2> QED
    BY <1>2, <2>1, <2>2
<1>6. SecondPath(js) = IF stops = {} THEN "none"
                       ELSE IF LeadsToLoop(js, at(Min(stops))) THEN "overflow" ELSE "second"
  BY DEF SecondPath, W, at
<1>7. ASSUME stops # {} PROVE ~LeadsToLoop(js, at(Min(stops)))
  <2>1. stops \in SUBSET Nat
    <3>1. DOMAIN js = 1..Len(js) /\ Len(js) \in Nat
      OBVIOUS
    <3> QED
      BY <3>1
  <2>2. \E m \in stops : \A n \in stops : m <= n
    BY <1>7, <2>1, Least
  <2>3. Min(stops) \in stops
    BY <2>2 DEF Min
  <2>4. Min(stops) \in DOMAIN js
    BY <2>3
  <2> QED
    BY <1>2, <2>4
<1> QED
  BY <1>5, <1>6, <1>7

\* Whatever the draft, the check runs out of its stack on a loop only.
LEMMA OverflowIsALoop ==
    ASSUME NEW js \in Seq(Join), SecondPath(js) = "overflow"
    PROVE  ~Acyclic(js)
BY SecondPathCheck

LEMMA ChecksHold ==
    ASSUME joins \in Seq(Join)
    PROVE  ChecksAreExact
<1>1. ASSUME NEW a \in Tables, NEW b \in Tables, NEW k \in Keys, Acyclic(joins)
      PROVE  LET more == Append(joins, ManyToOne(a, b, k)) IN
             /\ MakesLoop(joins, ManyToOne(a, b, k)) <=> ~Acyclic(more)
             /\ WouldCreateCycle(a, b, joins) <=> ~Acyclic(more)
  <2> DEFINE j == ManyToOne(a, b, k)
  <2>1. j \in Join /\ Orient(j) = <<a, b>>
    BY DEF Join, ManyToOne, Sides, Orient
  <2>2. MakesLoop(joins, j) <=> WouldCreateCycle(a, b, joins)
    BY <2>1 DEF MakesLoop, WouldCreateCycle
  <2> HIDE DEF j
  <2>3. MakesLoop(joins, j) <=> ~Acyclic(Append(joins, j))
    BY <1>1, <2>1, LoopCheck
  <2> QED
    BY <2>2, <2>3 DEF j
<1>2. Acyclic(joins) => SecondPath(joins) = IF OneWay(joins) THEN "none" ELSE "second"
  BY SecondPathCheck
<1>3. SecondPath(joins) = "overflow" => ~Acyclic(joins)
  BY OverflowIsALoop
<1> QED
  BY <1>1, <1>2, <1>3 DEF ChecksAreExact
-----------------------------------------------------------------------------
(* The folds of a sequence: element by element, from the first. *)

\* A function on the subsets of 1..N that takes the highest element last.
FoldsUp(g, S, G, base, N) ==
    /\ g[{}] = base
    /\ \A s \in SUBSET (1..N) : s # {} /\ g[s \ {Max(s)}] \in S => g[s] = G[<<Max(s), g[s \ {Max(s)}]>>]

Steps(h, S, G, base, N) ==
    /\ h \in [0..N -> S]
    /\ h[0] = base
    /\ \A n \in 1..N : h[n] = G[<<n, h[n - 1]>>]

LEMMA MaxOfSet ==
    ASSUME NEW N \in Nat, NEW s \in SUBSET (1..N), s # {}
    PROVE  Max(s) \in s
<1> DEFINE T == {n \in Nat : \A x \in s : x <= n}
<1>1. T \in SUBSET Nat /\ N \in T
  OBVIOUS
<1> HIDE DEF T
<1>2. PICK n \in T : \A m \in T : n <= m
  BY <1>1, Least
<1>3. n \in Nat /\ \A x \in s : x <= n
  BY <1>2 DEF T
<1>4. n \in s
  <2>1. SUFFICES ASSUME n \notin s PROVE FALSE
    OBVIOUS
  <2>2. PICK x \in s : TRUE
    OBVIOUS
  <2>3. x \in Nat /\ x >= 1 /\ x < n
    BY <1>3, <2>1, <2>2
  <2>4. n - 1 \in Nat /\ \A y \in s : y <= n - 1
    BY <1>3, <2>1, <2>3
  <2>5. n - 1 \in T
    BY <2>4 DEF T
  <2> QED
    BY <1>2, <1>3, <2>5
<1>5. \E x \in s : \A y \in s : x >= y
  BY <1>3, <1>4
<1> QED
  BY <1>5 DEF Max

LEMMA MaxOfRange ==
    ASSUME NEW n \in Nat, n > 0
    PROVE  Max(1..n) = n /\ (1..n) \ {n} = 1..n - 1
<1>1. n \in 1..n /\ \A y \in 1..n : n >= y
  OBVIOUS
<1>2. \A x \in 1..n : (\A y \in 1..n : x >= y) => x = n
  OBVIOUS
<1>3. Max(1..n) = n
  BY <1>1, <1>2 DEF Max
<1> QED
  BY <1>3

\* The fold of the whole range is where the steps lead.
InSteps(g, S, G, base, N) == \E h : Steps(h, S, G, base, N) /\ g[1..N] = h[N]

LEMMA FoldToSteps ==
    ASSUME NEW N \in Nat, NEW S, NEW G \in [(1..N) \X S -> S], NEW base \in S,
           NEW g, FoldsUp(g, S, G, base, N)
    PROVE  InSteps(g, S, G, base, N)
<1> DEFINE h == [n \in 0..N |-> g[1..n]]
           T == {n \in 0..N : h[n] \notin S}
<1>1. h[0] = base
  <2>1. 1..0 = {}
    OBVIOUS
  <2> QED
    BY <2>1 DEF FoldsUp
<1>2. ASSUME NEW n \in 1..N, h[n - 1] \in S PROVE h[n] = G[<<n, h[n - 1]>>]
  <2>1. Max(1..n) = n /\ (1..n) \ {n} = 1..n - 1
    BY MaxOfRange
  <2>2. 1..n \in SUBSET (1..N) /\ 1..n # {} /\ n \in 0..N /\ n - 1 \in 0..N
    OBVIOUS
  <2>3. g[1..n - 1] \in S
    BY <1>2, <2>2
  <2>4. g[1..n] = G[<<n, g[1..n - 1]>>]
    BY <2>1, <2>2, <2>3 DEF FoldsUp
  <2> QED
    BY <2>2, <2>4
<1> HIDE DEF h
<1>3. T = {}
  <2>1. SUFFICES ASSUME T # {} PROVE FALSE
    OBVIOUS
  <2>2. T \in SUBSET Nat
    OBVIOUS
  <2>3. PICK n \in T : \A m \in T : n <= m
    BY <2>1, <2>2, Least
  <2>4. n # 0
    BY <1>1
  <2>5. n \in 1..N /\ n - 1 \in 0..N /\ n - 1 \notin T
    BY <2>3, <2>4
  <2>6. h[n - 1] \in S
    BY <2>5
  <2>7. h[n] = G[<<n, h[n - 1]>>]
    BY <1>2, <2>5, <2>6
  <2> QED
    BY <2>3, <2>5, <2>6, <2>7
<1>4. h \in [0..N -> S]
  <2>1. \A n \in 0..N : h[n] \in S
    BY <1>3
  <2> QED
    BY <2>1 DEF h
<1>5. \A n \in 1..N : h[n - 1] \in S
  BY <1>4
<1>6. Steps(h, S, G, base, N)
  BY <1>1, <1>2, <1>4, <1>5 DEF Steps
<1>7. g[1..N] = h[N]
  BY DEF h
<1> QED
  BY <1>6, <1>7 DEF InSteps
-----------------------------------------------------------------------------
(* An answer of the server, one candidate at a time. *)

Answers == [joins : Seq(Join), added : Seq(Join), died : BOOLEAN]

\* What becomes of an answer when a candidate comes.
Tried(acc, j, facts) ==
    IF acc.died \/ JoinedPair(acc.joins, j.from, j.to) \/ j.to \in facts \/ MakesLoop(acc.joins, j)
      THEN acc ELSE Try(acc, j)

LEMMA TriedType ==
    ASSUME NEW acc \in Answers, NEW j \in Join, NEW facts
    PROVE  Tried(acc, j, facts) \in Answers
<1>1. Append(acc.joins, j) \in Seq(Join) /\ Append(acc.added, j) \in Seq(Join)
  BY DEF Answers
<1> DEFINE path == SecondPath(Append(acc.joins, j))
<1>2. path \in {"overflow", "second", "none"}
  BY DEF SecondPath
<1> HIDE DEF path
<1>3. Try(acc, j) = CASE path = "overflow" -> [acc EXCEPT !.died = TRUE]
                      [] path = "second"   -> acc
                      [] path = "none"     -> [acc EXCEPT !.joins = Append(@, j), !.added = Append(@, j)]
  BY DEF Try, path
<1>4. Try(acc, j) \in Answers
  BY <1>1, <1>2, <1>3 DEF Answers
<1> QED
  BY <1>4 DEF Tried

\* The answers there are on the way, from nothing found to all there is.
Progress(h, js, c, facts) ==
    /\ h \in [0..Len(c) -> Answers]
    /\ h[0] = Nothing(js)
    /\ \A n \in 1..Len(c) : h[n] = Tried(h[n - 1], c[n], facts)

LEMMA DetectedInSteps ==
    ASSUME NEW js \in Seq(Join), NEW c \in Seq(Join), NEW facts
    PROVE  \E h : Progress(h, js, c, facts) /\ Detected(js, c, facts) = h[Len(c)]
<1> DEFINE N == Len(c)
           S == Answers
           G == [p \in (1..N) \X S |-> Tried(p[2], c[p[1]], facts)]
           pick == [s \in SUBSET (1..N) |-> Max(s)]
           Runs(g) == g = [s \in SUBSET (1..N) |->
                             IF s = {} THEN Nothing(js) ELSE Tried(g[s \ {Max(s)}], c[Max(s)], facts)]
           iter == CHOOSE g : Runs(g)
<1>1. N \in Nat /\ DOMAIN c = 1..N /\ \A n \in 1..N : c[n] \in Join
  OBVIOUS
<1>2. Nothing(js) \in S
  BY DEF Nothing, Answers
<1>3. G \in [(1..N) \X S -> S]
  <2>1. ASSUME NEW p \in (1..N) \X S PROVE Tried(p[2], c[p[1]], facts) \in S
    BY <1>1, TriedType
  <2> QED
    BY <2>1
<1>4. \A n \in 1..N : \A acc \in S : G[<<n, acc>>] = Tried(acc, c[n], facts)
  OBVIOUS
<1>5. \A s \in SUBSET (1..N) : s # {} => pick[s] = Max(s) /\ Max(s) \in s
  BY <1>1, MaxOfSet
<1>6. IsFiniteSet(1..N)
  BY <1>1, UpToCount
<1>7. Detected(js, c, facts) = iter[1..N]
  <2>1. Detected(js, c, facts) = iter[DOMAIN c]
    BY <1>1 DEF Detected, FoldLeft, MapThenFoldSet, Tried
  <2> QED
    BY <1>1, <2>1
<1> HIDE DEF N, S, G, pick
<1>8. PICK g : IsFold(g, S, G, Nothing(js), pick, 1..N)
  <2>1. \A s \in SUBSET (1..N) : s # {} => pick[s] \in s
    BY <1>5
  <2> QED
    BY <1>2, <1>3, <1>6, <2>1, FoldExists
<1>9. Runs(g)
  <2>1. ASSUME NEW s \in SUBSET (1..N), s # {} PROVE g[s] = Tried(g[s \ {Max(s)}], c[Max(s)], facts)
    <3>1. pick[s] = Max(s) /\ Max(s) \in 1..N /\ s \ {Max(s)} \in SUBSET (1..N)
      BY <1>5, <2>1
    <3>2. g[s \ {Max(s)}] \in S /\ g[s] = G[<<Max(s), g[s \ {Max(s)}]>>]
      BY <1>8, <2>1, <3>1 DEF IsFold
    <3> QED
      BY <1>4, <3>1, <3>2
  <2> QED
    BY <1>8, <2>1 DEF IsFold
<1>10. Runs(iter)
  BY <1>9
<1> HIDE DEF iter
<1>11. FoldsUp(iter, S, G, Nothing(js), N)
  <2>1. iter[{}] = Nothing(js)
    BY <1>10
  <2>2. ASSUME NEW s \in SUBSET (1..N), s # {}, iter[s \ {Max(s)}] \in S
        PROVE  iter[s] = G[<<Max(s), iter[s \ {Max(s)}]>>]
    <3>1. Max(s) \in 1..N
      BY <1>5, <2>2
    <3>2. iter[s] = Tried(iter[s \ {Max(s)}], c[Max(s)], facts)
      BY <1>10, <2>2
    <3> QED
      BY <1>4, <2>2, <3>1, <3>2
  <2> QED
    BY <2>1, <2>2 DEF FoldsUp
<1>12. PICK h : Steps(h, S, G, Nothing(js), N) /\ iter[1..N] = h[N]
  <2>1. N \in Nat
    BY <1>1
  <2> HIDE DEF Runs
  <2>2. InSteps(iter, S, G, Nothing(js), N)
    BY <1>2, <1>3, <1>11, <2>1, FoldToSteps
  <2> QED
    BY <2>2 DEF InSteps
<1>13. ASSUME NEW n \in 1..N PROVE h[n] = Tried(h[n - 1], c[n], facts)
  <2>1. n - 1 \in 0..N
    BY <1>1
  <2>2. h[n - 1] \in S /\ h[n] = G[<<n, h[n - 1]>>]
    BY <1>12, <2>1 DEF Steps
  <2> QED
    BY <1>4, <2>2
<1>14. h \in [0..N -> S] /\ h[0] = Nothing(js)
  BY <1>12 DEF Steps
<1>15. Progress(h, js, c, facts)
  BY <1>13, <1>14 DEF Progress, N, S
<1> QED
  BY <1>7, <1>12, <1>15 DEF N
-----------------------------------------------------------------------------
(* Drafts. *)

Sided(j) == j.fc = "unset" <=> j.tc = "unset"

LEMMA DraftJoins ==
    ASSUME NEW js \in Drafts
    PROVE  /\ js \in Seq(Join) /\ Len(js) \in Nat /\ DOMAIN js = 1..Len(js)
           /\ \A i \in DOMAIN js : js[i] \in Join /\ Sided(js[i])
  BY ElementOfSeq DEF Drafts, Sided

LEMMA DraftOf ==
    ASSUME NEW js \in Seq(Join), \A i \in DOMAIN js : Sided(js[i])
    PROVE  js \in Drafts
  BY DEF Drafts, Sided

LEMMA EmptyDraft == <<>> \in Drafts
<1>1. <<>> \in Seq(Join) /\ DOMAIN <<>> = {}
  OBVIOUS
<1> QED
  BY <1>1 DEF Drafts

LEMMA AppendJoined ==
    ASSUME NEW js \in Seq(Join), NEW ks \in Seq(Join), NEW j \in Join
    PROVE  Append(js \o ks, j) = js \o Append(ks, j)
<1>1. <<j>> \in Seq(Join) /\ js \o ks \in Seq(Join)
  OBVIOUS
<1>2. Append(js \o ks, j) = (js \o ks) \o <<j>>
  BY <1>1, AppendIsConcat
<1>3. Append(ks, j) = ks \o <<j>>
  BY AppendIsConcat
<1>4. (js \o ks) \o <<j>> = js \o (ks \o <<j>>)
  BY <1>1, ConcatAssociative
<1> QED
  BY <1>2, <1>3, <1>4

LEMMA DraftAppend ==
    ASSUME NEW js \in Drafts, NEW j \in Join, Sided(j)
    PROVE  Append(js, j) \in Drafts
<1> DEFINE more == Append(js, j)
<1>1. /\ js \in Seq(Join) /\ Len(js) \in Nat /\ DOMAIN js = 1..Len(js)
      /\ \A i \in DOMAIN js : Sided(js[i])
  BY DraftJoins
<1>2. more \in Seq(Join) /\ DOMAIN more = 1..Len(js) + 1 /\ more[Len(js) + 1] = j
      /\ \A i \in 1..Len(js) : more[i] = js[i]
  BY <1>1
<1> HIDE DEF more
<1>3. ASSUME NEW i \in DOMAIN more PROVE Sided(more[i])
  <2>1. i \in 1..Len(js) \/ i = Len(js) + 1
    BY <1>1, <1>2
  <2> QED
    BY <1>1, <1>2, <2>1
<1> QED
  BY <1>2, <1>3, DraftOf DEF more

LEMMA DraftJoined ==
    ASSUME NEW js \in Drafts, NEW ks \in Drafts
    PROVE  js \o ks \in Drafts
<1> DEFINE more == js \o ks
<1>1. /\ js \in Seq(Join) /\ Len(js) \in Nat /\ DOMAIN js = 1..Len(js)
      /\ \A i \in DOMAIN js : Sided(js[i])
  BY DraftJoins
<1>2. /\ ks \in Seq(Join) /\ Len(ks) \in Nat /\ DOMAIN ks = 1..Len(ks)
      /\ \A i \in DOMAIN ks : Sided(ks[i])
  BY DraftJoins
<1>3. more \in Seq(Join) /\ DOMAIN more = 1..Len(js) + Len(ks)
      /\ \A i \in 1..Len(js) + Len(ks) : more[i] = IF i <= Len(js) THEN js[i] ELSE ks[i - Len(js)]
  BY <1>1, <1>2
<1> HIDE DEF more
<1>4. ASSUME NEW i \in DOMAIN more PROVE Sided(more[i])
  <2>1. CASE i <= Len(js)
    BY <1>1, <1>3, <2>1
  <2>2. CASE ~(i <= Len(js))
    <3>1. i - Len(js) \in DOMAIN ks /\ more[i] = ks[i - Len(js)]
      BY <1>1, <1>2, <1>3, <2>2
    <3> QED
      BY <1>2, <3>1
  <2> QED
    BY <2>1, <2>2
<1> QED
  BY <1>3, <1>4, DraftOf DEF more

LEMMA DraftChanged ==
    ASSUME NEW js \in Drafts, NEW i \in DOMAIN js, NEW j \in Join, Sided(j)
    PROVE  [js EXCEPT ![i] = j] \in Drafts
<1> DEFINE new == [js EXCEPT ![i] = j]
<1>1. /\ js \in Seq(Join) /\ DOMAIN js = 1..Len(js)
      /\ \A k \in DOMAIN js : Sided(js[k])
  BY DraftJoins
<1>2. new \in Seq(Join)
  BY <1>1, ExceptSeq
<1>3. DOMAIN new = DOMAIN js /\ \A k \in DOMAIN js : new[k] = IF k = i THEN j ELSE js[k]
  BY <1>1
<1> HIDE DEF new
<1>4. ASSUME NEW k \in DOMAIN new PROVE Sided(new[k])
  BY <1>1, <1>3
<1> QED
  BY <1>2, <1>4, DraftOf DEF new

\* A draft without its join m.
LEMMA WithoutOne ==
    ASSUME NEW js \in Seq(Join), NEW m \in DOMAIN js
    PROVE  LET rest == RemoveAt(js, m) IN
           /\ rest \in Seq(Join) /\ Len(rest) = Len(js) - 1
           /\ \A i \in 1..Len(js) - 1 : rest[i] = IF i < m THEN js[i] ELSE js[i + 1]
<1> DEFINE before == SubSeq(js, 1, m - 1)
           after == SubSeq(js, m + 1, Len(js))
           rest == before \o after
<1>1. Len(js) \in Nat /\ m \in 1..Len(js)
  OBVIOUS
<1>2. before \in Seq(Join) /\ Len(before) = m - 1 /\ \A i \in 1..m - 1 : before[i] = js[i]
  BY <1>1
<1>3. after \in Seq(Join) /\ Len(after) = Len(js) - m /\ \A i \in 1..Len(js) - m : after[i] = js[m + i]
  BY <1>1
<1> HIDE DEF before, after
<1>4. rest \in Seq(Join) /\ Len(rest) = Len(js) - 1
  BY <1>1, <1>2, <1>3
<1>5. ASSUME NEW i \in 1..Len(js) - 1 PROVE rest[i] = IF i < m THEN js[i] ELSE js[i + 1]
  <2>1. CASE i < m
    BY <1>1, <1>2, <1>3, <2>1
  <2>2. CASE ~(i < m)
    <3>1. i - Len(before) \in 1..Len(js) - m /\ rest[i] = after[i - Len(before)]
      BY <1>1, <1>2, <1>3, <2>2
    <3>2. m + (i - Len(before)) = i + 1
      BY <1>1, <1>2
    <3> QED
      BY <1>3, <2>2, <3>1, <3>2
  <2> QED
    BY <2>1, <2>2
<1>6. RemoveAt(js, m) = rest
  BY DEF RemoveAt, before, after
<1> HIDE DEF rest
<1> QED
  BY <1>4, <1>5, <1>6

LEMMA DraftWithoutOne ==
    ASSUME NEW js \in Drafts, NEW m \in DOMAIN js
    PROVE  RemoveAt(js, m) \in Drafts
<1> DEFINE rest == RemoveAt(js, m)
<1>1. /\ js \in Seq(Join) /\ Len(js) \in Nat /\ DOMAIN js = 1..Len(js)
      /\ \A i \in DOMAIN js : Sided(js[i])
  BY DraftJoins
<1>2. /\ rest \in Seq(Join) /\ Len(rest) = Len(js) - 1
      /\ \A i \in 1..Len(js) - 1 : rest[i] = IF i < m THEN js[i] ELSE js[i + 1]
  BY <1>1, WithoutOne
<1> HIDE DEF rest
<1>3. DOMAIN rest = 1..Len(js) - 1
  BY <1>2
<1>4. ASSUME NEW i \in DOMAIN rest PROVE Sided(rest[i])
  <2>1. i \in DOMAIN js /\ i + 1 \in DOMAIN js
    BY <1>1, <1>3
  <2> QED
    BY <1>1, <1>2, <1>3, <2>1
<1> QED
  BY <1>2, <1>4, DraftOf DEF rest
-----------------------------------------------------------------------------
(* The two folds of the editor: the joins it keeps, and those it adds. *)

Keep(acc, j, some) == IF j \in some THEN Append(acc, j) ELSE acc

Keeps(h, js, some, D) ==
    /\ h \in [0..Len(js) -> Seq(D)]
    /\ h[0] = <<>>
    /\ \A n \in 1..Len(js) : h[n] = Keep(h[n - 1], js[n], some)

LEMMA AmongInSteps ==
    ASSUME NEW D, NEW js \in Seq(D), NEW some
    PROVE  \E h : Keeps(h, js, some, D) /\ Among(js, some) = h[Len(js)]
<1> DEFINE N == Len(js)
           S == Seq(D)
           G == [p \in (1..N) \X S |-> Keep(p[2], js[p[1]], some)]
           pick == [s \in SUBSET (1..N) |-> Max(s)]
           Runs(g) == g = [s \in SUBSET (1..N) |->
                             IF s = {} THEN <<>> ELSE Keep(g[s \ {Max(s)}], js[Max(s)], some)]
           iter == CHOOSE g : Runs(g)
<1>1. N \in Nat /\ DOMAIN js = 1..N /\ \A n \in 1..N : js[n] \in D
  OBVIOUS
<1>2. <<>> \in S
  OBVIOUS
<1>3. G \in [(1..N) \X S -> S]
  BY <1>1 DEF Keep
<1>4. \A n \in 1..N : \A acc \in S : G[<<n, acc>>] = Keep(acc, js[n], some)
  OBVIOUS
<1>5. \A s \in SUBSET (1..N) : s # {} => pick[s] = Max(s) /\ Max(s) \in s
  BY <1>1, MaxOfSet
<1>6. IsFiniteSet(1..N)
  BY <1>1, UpToCount
<1>7. Among(js, some) = iter[1..N]
  <2>1. Among(js, some) = iter[DOMAIN js]
    BY <1>1 DEF Among, FoldLeft, MapThenFoldSet, Keep
  <2> QED
    BY <1>1, <2>1
<1> HIDE DEF N, S, G, pick
<1>8. PICK g : IsFold(g, S, G, <<>>, pick, 1..N)
  <2>1. \A s \in SUBSET (1..N) : s # {} => pick[s] \in s
    BY <1>5
  <2> QED
    BY <1>2, <1>3, <1>6, <2>1, FoldExists
<1>9. Runs(g)
  <2>1. ASSUME NEW s \in SUBSET (1..N), s # {}
        PROVE  g[s] = Keep(g[s \ {Max(s)}], js[Max(s)], some)
    <3>1. pick[s] = Max(s) /\ Max(s) \in 1..N /\ s \ {Max(s)} \in SUBSET (1..N)
      BY <1>5, <2>1
    <3>2. g[s \ {Max(s)}] \in S /\ g[s] = G[<<Max(s), g[s \ {Max(s)}]>>]
      BY <1>8, <2>1, <3>1 DEF IsFold
    <3> QED
      BY <1>4, <3>1, <3>2
  <2> QED
    BY <1>8, <2>1 DEF IsFold
<1>10. Runs(iter)
  BY <1>9
<1> HIDE DEF iter
<1>11. FoldsUp(iter, S, G, <<>>, N)
  <2>1. iter[{}] = <<>>
    BY <1>10
  <2>2. ASSUME NEW s \in SUBSET (1..N), s # {}, iter[s \ {Max(s)}] \in S
        PROVE  iter[s] = G[<<Max(s), iter[s \ {Max(s)}]>>]
    <3>1. Max(s) \in 1..N
      BY <1>5, <2>2
    <3>2. iter[s] = Keep(iter[s \ {Max(s)}], js[Max(s)], some)
      BY <1>10, <2>2
    <3> QED
      BY <1>4, <2>2, <3>1, <3>2
  <2> QED
    BY <2>1, <2>2 DEF FoldsUp
<1>12. PICK h : Steps(h, S, G, <<>>, N) /\ iter[1..N] = h[N]
  <2>1. N \in Nat
    BY <1>1
  <2> HIDE DEF Runs
  <2>2. InSteps(iter, S, G, <<>>, N)
    BY <1>2, <1>3, <1>11, <2>1, FoldToSteps
  <2> QED
    BY <2>2 DEF InSteps
<1>13. ASSUME NEW n \in 1..N PROVE h[n] = Keep(h[n - 1], js[n], some)
  <2>1. n - 1 \in 0..N
    BY <1>1
  <2>2. h[n - 1] \in S /\ h[n] = G[<<n, h[n - 1]>>]
    BY <1>12, <2>1 DEF Steps
  <2> QED
    BY <1>4, <2>2
<1>14. h \in [0..N -> S] /\ h[0] = <<>>
  BY <1>12 DEF Steps
<1>15. Keeps(h, js, some, D)
  BY <1>13, <1>14 DEF Keeps, N, S
<1> QED
  BY <1>7, <1>12, <1>15 DEF N

Add(acc, j) == IF \E i \in DOMAIN acc : SameLink(acc[i], j) THEN acc ELSE Append(acc, j)

Adds(h, js, c) ==
    /\ h \in [0..Len(c) -> Seq(Join)]
    /\ h[0] = js
    /\ \A n \in 1..Len(c) : h[n] = Add(h[n - 1], c[n])

Added(js, c) ==
    FoldLeft(LAMBDA acc, j : IF \E i \in DOMAIN acc : SameLink(acc[i], j) THEN acc ELSE Append(acc, j),
             js, c)

LEMMA AddedInSteps ==
    ASSUME NEW js \in Seq(Join), NEW c \in Seq(Join)
    PROVE  \E h : Adds(h, js, c) /\ Added(js, c) = h[Len(c)]
<1> DEFINE N == Len(c)
           S == Seq(Join)
           G == [p \in (1..N) \X S |-> Add(p[2], c[p[1]])]
           pick == [s \in SUBSET (1..N) |-> Max(s)]
           Runs(g) == g = [s \in SUBSET (1..N) |->
                             IF s = {} THEN js ELSE Add(g[s \ {Max(s)}], c[Max(s)])]
           iter == CHOOSE g : Runs(g)
<1>1. N \in Nat /\ DOMAIN c = 1..N /\ \A n \in 1..N : c[n] \in Join
  OBVIOUS
<1>2. js \in S
  OBVIOUS
<1>3. G \in [(1..N) \X S -> S]
  BY <1>1 DEF Add
<1>4. \A n \in 1..N : \A acc \in S : G[<<n, acc>>] = Add(acc, c[n])
  OBVIOUS
<1>5. \A s \in SUBSET (1..N) : s # {} => pick[s] = Max(s) /\ Max(s) \in s
  BY <1>1, MaxOfSet
<1>6. IsFiniteSet(1..N)
  BY <1>1, UpToCount
<1>7. Added(js, c) = iter[1..N]
  <2>1. Added(js, c) = iter[DOMAIN c]
    BY <1>1 DEF Added, FoldLeft, MapThenFoldSet, Add
  <2> QED
    BY <1>1, <2>1
<1> HIDE DEF N, S, G, pick
<1>8. PICK g : IsFold(g, S, G, js, pick, 1..N)
  <2>1. \A s \in SUBSET (1..N) : s # {} => pick[s] \in s
    BY <1>5
  <2> QED
    BY <1>2, <1>3, <1>6, <2>1, FoldExists
<1>9. Runs(g)
  <2>1. ASSUME NEW s \in SUBSET (1..N), s # {}
        PROVE  g[s] = Add(g[s \ {Max(s)}], c[Max(s)])
    <3>1. pick[s] = Max(s) /\ Max(s) \in 1..N /\ s \ {Max(s)} \in SUBSET (1..N)
      BY <1>5, <2>1
    <3>2. g[s \ {Max(s)}] \in S /\ g[s] = G[<<Max(s), g[s \ {Max(s)}]>>]
      BY <1>8, <2>1, <3>1 DEF IsFold
    <3> QED
      BY <1>4, <3>1, <3>2
  <2> QED
    BY <1>8, <2>1 DEF IsFold
<1>10. Runs(iter)
  BY <1>9
<1> HIDE DEF iter
<1>11. FoldsUp(iter, S, G, js, N)
  <2>1. iter[{}] = js
    BY <1>10
  <2>2. ASSUME NEW s \in SUBSET (1..N), s # {}, iter[s \ {Max(s)}] \in S
        PROVE  iter[s] = G[<<Max(s), iter[s \ {Max(s)}]>>]
    <3>1. Max(s) \in 1..N
      BY <1>5, <2>2
    <3>2. iter[s] = Add(iter[s \ {Max(s)}], c[Max(s)])
      BY <1>10, <2>2
    <3> QED
      BY <1>4, <2>2, <3>1, <3>2
  <2> QED
    BY <2>1, <2>2 DEF FoldsUp
<1>12. PICK h : Steps(h, S, G, js, N) /\ iter[1..N] = h[N]
  <2>1. N \in Nat
    BY <1>1
  <2> HIDE DEF Runs
  <2>2. InSteps(iter, S, G, js, N)
    BY <1>2, <1>3, <1>11, <2>1, FoldToSteps
  <2> QED
    BY <2>2 DEF InSteps
<1>13. ASSUME NEW n \in 1..N PROVE h[n] = Add(h[n - 1], c[n])
  <2>1. n - 1 \in 0..N
    BY <1>1
  <2>2. h[n - 1] \in S /\ h[n] = G[<<n, h[n - 1]>>]
    BY <1>12, <2>1 DEF Steps
  <2> QED
    BY <1>4, <2>2
<1>14. h \in [0..N -> S] /\ h[0] = js
  BY <1>12 DEF Steps
<1>15. Adds(h, js, c)
  BY <1>13, <1>14 DEF Adds, N, S
<1> QED
  BY <1>7, <1>12, <1>15 DEF N
-----------------------------------------------------------------------------
(* What the folds return. *)

\* An answer adds to the draft what it says it adds.
Grown(acc, js) == acc \in Answers /\ acc.added \in Drafts /\ acc.joins = js \o acc.added

LEMMA TriedGrows ==
    ASSUME NEW js \in Drafts, NEW acc, Grown(acc, js), NEW j \in Join, Sided(j), NEW facts
    PROVE  Grown(Tried(acc, j, facts), js)
<1> DEFINE path == SecondPath(Append(acc.joins, j))
           more == [acc EXCEPT !.joins = Append(@, j), !.added = Append(@, j)]
<1>1. path \in {"overflow", "second", "none"}
  BY DEF SecondPath
<1> HIDE DEF path
<1>2. Try(acc, j) = CASE path = "overflow" -> [acc EXCEPT !.died = TRUE]
                      [] path = "second"   -> acc
                      [] path = "none"     -> more
  BY DEF Try, path
<1>3. Tried(acc, j, facts) \in {acc, [acc EXCEPT !.died = TRUE], more}
  BY <1>1, <1>2 DEF Tried
<1>4. Tried(acc, j, facts) \in Answers
  BY TriedType DEF Grown
<1>5. CASE Tried(acc, j, facts) \in {acc, [acc EXCEPT !.died = TRUE]}
  BY <1>4, <1>5 DEF Grown, Answers
<1>6. CASE Tried(acc, j, facts) = more
  <2>1. acc.added \in Drafts /\ acc.added \in Seq(Join) /\ js \in Seq(Join) /\ acc.joins = js \o acc.added
    BY DraftJoins DEF Grown
  <2>2. more.added = Append(acc.added, j) /\ more.joins = Append(js \o acc.added, j)
    BY <2>1 DEF Grown, Answers
  <2>3. Append(js \o acc.added, j) = js \o Append(acc.added, j)
    BY <2>1, AppendJoined
  <2>4. Append(acc.added, j) \in Drafts
    BY <2>1, DraftAppend
  <2> HIDE DEF more
  <2> QED
    BY <1>4, <1>6, <2>2, <2>3, <2>4 DEF Grown
<1> QED
  BY <1>3, <1>5, <1>6

LEMMA DetectedGrows ==
    ASSUME NEW js \in Drafts, NEW c \in Drafts, NEW facts
    PROVE  Grown(Detected(js, c, facts), js)
<1>1. js \in Seq(Join) /\ c \in Seq(Join) /\ Len(c) \in Nat /\ DOMAIN c = 1..Len(c)
      /\ \A n \in DOMAIN c : c[n] \in Join /\ Sided(c[n])
  BY DraftJoins
<1>2. PICK h : Progress(h, js, c, facts) /\ Detected(js, c, facts) = h[Len(c)]
  BY <1>1, DetectedInSteps
<1>3. Grown(h[0], js)
  <2>1. <<>> \in Drafts
    BY EmptyDraft
  <2>2. js \o <<>> = js
    BY <1>1
  <2>3. h[0] \in Answers /\ h[0] = Nothing(js)
    BY <1>1, <1>2 DEF Progress
  <2>4. h[0].added = <<>> /\ h[0].joins = js
    BY <2>3 DEF Nothing
  <2> QED
    BY <2>1, <2>2, <2>3, <2>4 DEF Grown
<1> DEFINE T == {n \in 0..Len(c) : ~Grown(h[n], js)}
<1>4. T = {}
  <2>1. SUFFICES ASSUME T # {} PROVE FALSE
    OBVIOUS
  <2>2. T \in SUBSET Nat
    BY <1>1
  <2>3. PICK n \in T : \A m \in T : n <= m
    BY <2>1, <2>2, Least
  <2>4. n # 0
    BY <1>3
  <2>5. n \in 1..Len(c) /\ n - 1 \in 0..Len(c) /\ n - 1 \notin T
    BY <1>1, <2>3, <2>4
  <2>6. Grown(h[n - 1], js)
    BY <2>5
  <2>7. h[n] = Tried(h[n - 1], c[n], facts) /\ c[n] \in Join /\ Sided(c[n])
    BY <1>1, <1>2, <2>5 DEF Progress
  <2>8. Grown(Tried(h[n - 1], c[n], facts), js)
    BY <2>6, <2>7, TriedGrows
  <2> QED
    BY <2>3, <2>7, <2>8
<1>5. Len(c) \in 0..Len(c)
  BY <1>1
<1> QED
  BY <1>2, <1>4, <1>5

LEMMA AmongIsDraft ==
    ASSUME NEW js \in Drafts, NEW some
    PROVE  Among(js, some) \in Drafts
<1>1. js \in Seq(Join) /\ Len(js) \in Nat /\ DOMAIN js = 1..Len(js)
      /\ \A n \in DOMAIN js : js[n] \in Join /\ Sided(js[n])
  BY DraftJoins
<1>2. PICK h : Keeps(h, js, some, Join) /\ Among(js, some) = h[Len(js)]
  BY <1>1, AmongInSteps
<1>3. h[0] \in Drafts
  <2>1. h[0] = <<>>
    BY <1>2 DEF Keeps
  <2>2. <<>> \in Drafts
    BY EmptyDraft
  <2> QED
    BY <2>1, <2>2
<1> DEFINE T == {n \in 0..Len(js) : h[n] \notin Drafts}
<1>4. T = {}
  <2>1. SUFFICES ASSUME T # {} PROVE FALSE
    OBVIOUS
  <2>2. T \in SUBSET Nat
    BY <1>1
  <2>3. PICK n \in T : \A m \in T : n <= m
    BY <2>1, <2>2, Least
  <2>4. n # 0
    BY <1>3
  <2>5. n \in 1..Len(js) /\ n - 1 \in 0..Len(js) /\ n - 1 \notin T
    BY <1>1, <2>3, <2>4
  <2>6. h[n - 1] \in Drafts
    BY <2>5
  <2>7. h[n] \in {h[n - 1], Append(h[n - 1], js[n])} /\ js[n] \in Join /\ Sided(js[n])
    BY <1>1, <1>2, <2>5 DEF Keeps, Keep
  <2>8. Append(h[n - 1], js[n]) \in Drafts
    BY <2>6, <2>7, DraftAppend
  <2> QED
    BY <2>3, <2>6, <2>7, <2>8
<1>5. Len(js) \in 0..Len(js)
  BY <1>1
<1> QED
  BY <1>2, <1>4, <1>5

LEMMA AddedIsDraft ==
    ASSUME NEW js \in Drafts, NEW c \in Drafts
    PROVE  Added(js, c) \in Drafts
<1>1. js \in Seq(Join) /\ c \in Seq(Join) /\ Len(c) \in Nat /\ DOMAIN c = 1..Len(c)
      /\ \A n \in DOMAIN c : c[n] \in Join /\ Sided(c[n])
  BY DraftJoins
<1>2. PICK h : Adds(h, js, c) /\ Added(js, c) = h[Len(c)]
  BY <1>1, AddedInSteps
<1>3. h[0] \in Drafts
  BY <1>2 DEF Adds
<1> DEFINE T == {n \in 0..Len(c) : h[n] \notin Drafts}
<1>4. T = {}
  <2>1. SUFFICES ASSUME T # {} PROVE FALSE
    OBVIOUS
  <2>2. T \in SUBSET Nat
    BY <1>1
  <2>3. PICK n \in T : \A m \in T : n <= m
    BY <2>1, <2>2, Least
  <2>4. n # 0
    BY <1>3
  <2>5. n \in 1..Len(c) /\ n - 1 \in 0..Len(c) /\ n - 1 \notin T
    BY <1>1, <2>3, <2>4
  <2>6. h[n - 1] \in Drafts
    BY <2>5
  <2>7. h[n] \in {h[n - 1], Append(h[n - 1], c[n])} /\ c[n] \in Join /\ Sided(c[n])
    BY <1>1, <1>2, <2>5 DEF Adds, Add
  <2>8. Append(h[n - 1], c[n]) \in Drafts
    BY <2>6, <2>7, DraftAppend
  <2> QED
    BY <2>3, <2>6, <2>7, <2>8
<1>5. Len(c) \in 0..Len(c)
  BY <1>1
<1> QED
  BY <1>2, <1>4, <1>5

\* The draft a card leaves behind its removals.
Rest(js, removed) == Among(js, {j \in ToSet(js) : ~\E r \in removed : SameLink(j, r)})

LEMMA AppliedIs ==
    ASSUME NEW js, NEW removed, NEW added
    PROVE  Applied(js, removed, added) = Added(Rest(js, removed), added)
  BY DEF Applied, Added, Rest

LEMMA AppliedIsDraft ==
    ASSUME NEW js \in Drafts, NEW removed, NEW added \in Drafts
    PROVE  Applied(js, removed, added) \in Drafts
  BY AppliedIs, AddedIsDraft, AmongIsDraft DEF Rest
\* The index a removal takes.
LinkAt(js, r) == Min({i \in DOMAIN js : SameLink(js[i], r)})

LEMMA LinkIsThere ==
    ASSUME NEW js \in Seq(Join), NEW r \in ToSet(js)
    PROVE  LinkAt(js, r) \in DOMAIN js /\ SameLink(js[LinkAt(js, r)], r)
<1> DEFINE D == {i \in DOMAIN js : SameLink(js[i], r)}
<1>1. D \in SUBSET Nat
  OBVIOUS
<1>2. D # {}
  <2>1. PICK i \in DOMAIN js : js[i] = r
    BY DEF ToSet
  <2>2. SameLink(js[i], r)
    BY <2>1 DEF SameLink
  <2> QED
    BY <2>2
<1>3. \E m \in D : \A n \in D : m <= n
  <2> HIDE DEF D
  <2> QED
    BY <1>1, <1>2, Least
<1>4. Min(D) \in D
  <2> HIDE DEF D
  <2> QED
    BY <1>3 DEF Min
<1> QED
  BY <1>4 DEF LinkAt

\* A card removes one join at most.
LEMMA WithoutIs ==
    ASSUME NEW js, NEW removed
    PROVE  /\ removed = {} => Without(js, removed) = js
           /\ \A r : removed = {r} => Without(js, removed) = RemoveAt(js, LinkAt(js, r))
<1> DEFINE Runs(g) == g = [s \in SUBSET removed |-> IF s = {} THEN js
                             ELSE RemoveAt(g[s \ {First(s)}], LinkAt(g[s \ {First(s)}], First(s)))]
           iter == CHOOSE g : Runs(g)
<1>1. Without(js, removed) = iter[removed]
  BY DEF Without, FoldSet, MapThenFoldSet, First, LinkAt
<1>2. ASSUME removed = {} PROVE Without(js, removed) = js
  <2> DEFINE g == [s \in SUBSET removed |-> js]
  <2>1. Runs(g)
    BY <1>2
  <2>2. Runs(iter)
    BY <2>1
  <2> QED
    BY <1>1, <1>2, <2>2
<1>3. ASSUME NEW r, removed = {r} PROVE Without(js, removed) = RemoveAt(js, LinkAt(js, r))
  <2> DEFINE g == [s \in SUBSET removed |-> IF s = {} THEN js ELSE RemoveAt(js, LinkAt(js, First(s)))]
  <2>1. \A s \in SUBSET removed : s # {} => s = {r} /\ First(s) = r /\ s \ {First(s)} = {}
    BY <1>3 DEF First
  <2>2. g[{}] = js
    OBVIOUS
  <2>3. \A s \in SUBSET removed : s # {} => g[s \ {First(s)}] = js
    BY <2>1, <2>2
  <2>4. Runs(g)
    BY <2>3
  <2>5. Runs(iter)
    BY <2>4
  <2>6. iter[{}] = js
    BY <2>5
  <2>7. iter[removed] = RemoveAt(iter[{}], LinkAt(iter[{}], r))
    <3>1. removed \in SUBSET removed /\ removed # {}
      BY <1>3
    <3>2. iter[removed] = RemoveAt(iter[removed \ {First(removed)}], LinkAt(iter[removed \ {First(removed)}], First(removed)))
      BY <2>5, <3>1
    <3> QED
      BY <2>1, <3>1, <3>2
  <2> QED
    BY <1>1, <2>6, <2>7
<1> QED
  BY <1>2, <1>3

LEMMA NoneOrOne ==
    ASSUME NEW S, IsFiniteSet(S), Cardinality(S) <= 1
    PROVE  S = {} \/ \E r \in S : S = {r}
<1>1. SUFFICES ASSUME NEW r \in S PROVE S = {r}
  OBVIOUS
<1>2. Cardinality(S) \in Nat /\ Cardinality(S \ {r}) = Cardinality(S) - 1 /\ IsFiniteSet(S \ {r})
  BY FS_CardinalityType, FS_RemoveElement
<1>3. Cardinality(S \ {r}) \in Nat
  BY <1>2, FS_CardinalityType
<1>4. Cardinality(S \ {r}) = 0
  BY <1>2, <1>3
<1>5. S \ {r} = {}
  BY <1>2, <1>4, FS_EmptySet
<1> QED
  BY <1>5

LEMMA FewOfDraft ==
    ASSUME NEW js \in Seq(Join), NEW removed \in SUBSET ToSet(js), Cardinality(removed) <= 1
    PROVE  removed = {} \/ \E r \in ToSet(js) : removed = {r}
<1>1. IsFiniteSet(ToSet(js))
  <2>1. DOMAIN js = 1..Len(js) /\ Len(js) \in Nat
    OBVIOUS
  <2>2. IsFiniteSet(DOMAIN js)
    BY <2>1, UpToCount
  <2>3. js = [i \in DOMAIN js |-> js[i]]
    OBVIOUS
  <2>4. js \in Surjection(DOMAIN js, ToSet(js))
    BY <2>3 DEF Surjection, ToSet
  <2> QED
    BY <2>2, <2>4, FS_Surjection
<1>2. IsFiniteSet(removed)
  BY <1>1, FS_Subset
<1> QED
  BY <1>2, NoneOrOne

LEMMA WithoutIsDraft ==
    ASSUME NEW js \in Drafts, NEW removed \in SUBSET ToSet(js), Cardinality(removed) <= 1
    PROVE  Without(js, removed) \in Drafts
<1>1. js \in Seq(Join)
  BY DraftJoins
<1>2. CASE removed = {}
  BY <1>2, WithoutIs
<1>3. ASSUME NEW r \in ToSet(js), removed = {r} PROVE Without(js, removed) \in Drafts
  BY <1>1, <1>3, LinkIsThere, WithoutIs, DraftWithoutOne
<1> QED
  BY <1>1, <1>2, <1>3, FewOfDraft
-----------------------------------------------------------------------------
(* The editor's state. *)

AskState == [pc : {"sent"}, draft : Drafts, candidates : Candidates, facts : FactMarks]
Hung == [pc |-> "hung"]
CardState == [pc : {"shown"}, draft : Drafts, removed : SUBSET Join, added : Drafts]

\* A card says what the server made of a wish, on the draft it was sent.
Answered(c) ==
    /\ c.removed \in SUBSET ToSet(c.draft) /\ Cardinality(c.removed) <= 1
    /\ \E w \in Wishes : c.added = Proposed(c.draft, c.removed, w).added

EditInv ==
    /\ joins \in Drafts
    /\ sampling \subseteq [from : Tables, to : Tables, key : Keys]
    /\ ask \in [Asks -> {NoAsk, Hung} \cup AskState]
    /\ card = NoCard \/ (card \in CardState /\ Answered(card))
    /\ acts \in 0..MaxActs

LEMMA EditInvInit == Init => EditInv
<1>1. Init => ask \in [Asks -> {NoAsk, Hung} \cup AskState]
  BY DEF Init
<1> QED
  BY <1>1, EditingAssumption DEF Init, EditInv, EditingAssumption

\* What an ask under way holds.
LEMMA AskHolds ==
    ASSUME EditInv, NEW a \in Asks, ask[a].pc = "sent"
    PROVE  ask[a] \in AskState /\ ask[a].draft \in Drafts /\ ask[a].candidates \in Drafts
<1>1. ask[a] \in {NoAsk, Hung} \cup AskState
  BY DEF EditInv
<1>2. ask[a] # NoAsk /\ ask[a] # Hung
  BY DEF NoAsk, Hung
<1>3. ask[a] \in AskState
  BY <1>1, <1>2
<1> QED
  BY <1>3, EditingAssumption DEF AskState, EditingAssumption

LEMMA CardHolds ==
    ASSUME EditInv, card.pc = "shown"
    PROVE  card \in CardState /\ Answered(card) /\ card.draft \in Drafts /\ card.added \in Drafts
<1>1. card # NoCard
  BY DEF NoCard
<1> QED
  BY <1>1 DEF EditInv, CardState

LEMMA DrawTypes ==
    ASSUME EditInv, NEW a \in Tables, NEW b \in Tables, NEW k \in Keys, Draw(a, b, k)
    PROVE  EditInv'
<1>1. ManyToOne(a, b, k) \in Join /\ Sided(ManyToOne(a, b, k))
  BY DEF ManyToOne, Join, Sides, Sided
<1>2. joins' \in Drafts
  BY <1>1, DraftAppend DEF Draw, EditInv
<1>3. acts' \in 0..MaxActs
  BY EditingAssumption DEF Draw, Act, EditInv, EditingAssumption
<1> QED
  BY <1>2, <1>3 DEF Draw, EditInv

LEMMA SampleTypes ==
    ASSUME EditInv, NEW s \in sampling, NEW fc \in {"1", "*"}, NEW tc \in {"1", "*"},
           SampleArrives(s, fc, tc)
    PROVE  EditInv'
<1> DEFINE drawn == {i \in DOMAIN joins : joins[i].from = s.from /\ joins[i].to = s.to
                                           /\ joins[i].key = s.key}
           j == [joins[Min(drawn)] EXCEPT !.fc = fc, !.tc = tc]
<1>1. joins \in Seq(Join) /\ DOMAIN joins = 1..Len(joins) /\ \A i \in DOMAIN joins : joins[i] \in Join
  BY DraftJoins DEF EditInv
<1>2. joins' = IF drawn = {} THEN joins ELSE [joins EXCEPT ![Min(drawn)].fc = fc, ![Min(drawn)].tc = tc]
  BY DEF SampleArrives
<1>3. joins' \in Drafts
  <2>1. CASE drawn = {}
    BY <1>2, <2>1 DEF EditInv
  <2>2. CASE drawn # {}
    <3>1. Min(drawn) \in DOMAIN joins
      <4>1. drawn \in SUBSET Nat /\ drawn \in SUBSET DOMAIN joins
        BY <1>1
      <4> HIDE DEF drawn
      <4>2. \E m \in drawn : \A n \in drawn : m <= n
        BY <2>2, <4>1, Least
      <4>3. Min(drawn) \in drawn
        BY <4>2 DEF Min
      <4> QED
        BY <4>1, <4>3
    <3>2. j \in Join /\ Sided(j)
      <4>1. joins[Min(drawn)] \in Join
        BY <1>1, <3>1
      <4> HIDE DEF drawn
      <4> QED
        BY <4>1 DEF Join, Sides, Sided
    <3>3. joins' = [joins EXCEPT ![Min(drawn)] = j]
      BY <1>1, <1>2, <2>2, <3>1
    <3> HIDE DEF drawn, j
    <3> QED
      BY <3>1, <3>2, <3>3, DraftChanged DEF EditInv
  <2> QED
    BY <2>1, <2>2
<1> QED
  BY <1>3 DEF SampleArrives, EditInv

LEMMA ToggleTypes ==
    ASSUME EditInv, NEW i \in DOMAIN joins, NEW side \in {"from", "to"}, Toggle(i, side)
    PROVE  EditInv'
<1> DEFINE j == IF joins[i].fc = "unset" THEN [joins[i] EXCEPT !.fc = "*", !.tc = "1"] ELSE joins[i]
           k == IF side = "from" THEN [j EXCEPT !.fc = Flip(@)] ELSE [j EXCEPT !.tc = Flip(@)]
<1>1. joins[i] \in Join /\ Sided(joins[i])
  BY DraftJoins DEF EditInv
<1>2. j \in Join /\ j.fc # "unset" /\ j.tc # "unset"
  BY <1>1 DEF Join, Sides, Sided
<1>3. k \in Join /\ Sided(k)
  <2> HIDE DEF j
  <2> QED
    BY <1>2 DEF Join, Sides, Sided, Flip
<1>4. joins' = [joins EXCEPT ![i] = k]
  BY DEF Toggle
<1> HIDE DEF k
<1>5. joins' \in Drafts
  BY <1>3, <1>4, DraftChanged DEF EditInv
<1>6. acts' \in 0..MaxActs
  BY EditingAssumption DEF Toggle, Act, EditInv, EditingAssumption
<1> QED
  BY <1>5, <1>6 DEF Toggle, EditInv

LEMMA RemoveTypes ==
    ASSUME EditInv,
           \/ \E i \in DOMAIN joins : RemoveJoin(i)
           \/ \E t \in Tables : RemoveTable(t)
    PROVE  EditInv'
<1>1. joins \in Drafts
  BY DEF EditInv
<1>2. joins' \in Drafts
  <2>1. CASE \E i \in DOMAIN joins : RemoveJoin(i)
    BY <1>1, <2>1, DraftWithoutOne DEF RemoveJoin
  <2>2. CASE \E t \in Tables : RemoveTable(t)
    BY <1>1, <2>2, AmongIsDraft DEF RemoveTable
  <2> QED
    BY <2>1, <2>2
<1>3. UNCHANGED <<sampling, ask, card>> /\ Act
  BY DEF RemoveJoin, RemoveTable
<1>4. acts' \in 0..MaxActs
  BY <1>3, EditingAssumption DEF Act, EditInv, EditingAssumption
<1> QED
  BY <1>2, <1>3, <1>4 DEF EditInv

LEMMA AskTypes ==
    ASSUME EditInv, NEW a \in Asks, NEW c \in Candidates, NEW f \in FactMarks, Ask(a, c, f)
    PROVE  EditInv'
<1>1. [pc |-> "sent", draft |-> joins, candidates |-> c, facts |-> f] \in AskState
  BY DEF AskState, EditInv
<1>2. ask' \in [Asks -> {NoAsk, Hung} \cup AskState]
  BY <1>1 DEF Ask, EditInv
<1>3. acts' \in 0..MaxActs
  BY EditingAssumption DEF Ask, Act, EditInv, EditingAssumption
<1> QED
  BY <1>2, <1>3 DEF Ask, EditInv

LEMMA DetectionTypes ==
    ASSUME EditInv, NEW a \in Asks, DetectionArrives(a) \/ DetectionDies(a)
    PROVE  EditInv'
<1>1. ask' \in [Asks -> {NoAsk, Hung} \cup AskState]
  BY DEF DetectionArrives, DetectionDies, EditInv, Hung
<1>2. joins' \in Drafts
  <2>1. CASE DetectionArrives(a)
    <3>1. Grown(Answer(a), ask[a].draft)
      BY <2>1, AskHolds, DetectedGrows DEF Answer, DetectionArrives
    <3> QED
      BY <2>1, <3>1, DraftJoined DEF Grown, DetectionArrives, EditInv
  <2>2. CASE DetectionDies(a)
    BY <2>2 DEF DetectionDies, EditInv
  <2> QED
    BY <2>1, <2>2
<1> QED
  BY <1>1, <1>2 DEF DetectionArrives, DetectionDies, EditInv

LEMMA ProposeTypes ==
    ASSUME EditInv, NEW removed \in SUBSET ToSet(joins), Cardinality(removed) <= 1,
           NEW w \in Wishes, Propose(removed, w)
    PROVE  EditInv'
<1> DEFINE answer == Proposed(joins, removed, w)
           new == [pc |-> "shown", draft |-> joins, removed |-> removed, added |-> answer.added]
<1>1. joins \in Drafts /\ w \in Drafts
  BY EditingAssumption DEF EditInv, EditingAssumption
<1>2. Without(joins, removed) \in Drafts
  BY <1>1, WithoutIsDraft
<1>3. Grown(answer, Without(joins, removed))
  BY <1>1, <1>2, DetectedGrows DEF Proposed
<1>4. removed \in SUBSET Join
  <2>1. ToSet(joins) \subseteq Join
    BY <1>1, DraftJoins DEF ToSet
  <2> QED
    BY <2>1
<1>5. card' = new
  BY DEF Propose
<1> HIDE DEF answer
<1>6. new \in CardState
  BY <1>1, <1>3, <1>4 DEF Grown, CardState
<1>7. Answered(new)
  BY DEF Answered, answer
<1>8. acts' \in 0..MaxActs
  BY EditingAssumption DEF Propose, Act, EditInv, EditingAssumption
<1> HIDE DEF new
<1>9. card' \in CardState /\ Answered(card')
  BY <1>5, <1>6, <1>7
<1>10. UNCHANGED <<joins, sampling, ask>>
  BY DEF Propose
<1> QED
  BY <1>8, <1>9, <1>10 DEF EditInv, Answered

LEMMA ApplyTypes ==
    ASSUME EditInv, ApplyWhole \/ ApplyPart
    PROVE  EditInv'
<1>1. card.pc = "shown"
  BY DEF ApplyWhole, ApplyPart
<1>2. card.added \in Drafts
  BY <1>1, CardHolds
<1>3. PICK removed, added : Apply(removed, added) /\ added \in Drafts
  <2>1. CASE ApplyWhole
    BY <1>2, <2>1 DEF ApplyWhole
  <2>2. CASE ApplyPart
    <3>1. PICK removed, kept : Apply(removed, Among(card.added, kept))
      BY <2>2 DEF ApplyPart
    <3>2. Among(card.added, kept) \in Drafts
      BY <1>2, AmongIsDraft
    <3> QED
      BY <3>1, <3>2
  <2> QED
    BY <2>1, <2>2
<1>4. joins' \in Drafts
  BY <1>3, AppliedIsDraft DEF Apply, EditInv
<1> QED
  BY <1>3, <1>4 DEF Apply, EditInv

LEMMA EditInvStep == EditInv /\ [Next]_vars => EditInv'
<1> SUFFICES ASSUME EditInv, [Next]_vars PROVE EditInv'
  OBVIOUS
<1>1. CASE \E a, b \in Tables, k \in Keys : Draw(a, b, k)
  BY <1>1, DrawTypes
<1>2. CASE \E s \in sampling, fc, tc \in {"1", "*"} : SampleArrives(s, fc, tc)
  BY <1>2, SampleTypes
<1>3. CASE \E i \in DOMAIN joins : Toggle(i, "from") \/ Toggle(i, "to")
  BY <1>3, ToggleTypes
<1>4. CASE (\E i \in DOMAIN joins : RemoveJoin(i)) \/ (\E t \in Tables : RemoveTable(t))
  BY <1>4, RemoveTypes
<1>5. CASE \E a \in Asks, c \in Candidates, f \in FactMarks : Ask(a, c, f)
  BY <1>5, AskTypes
<1>6. CASE \E a \in Asks : DetectionArrives(a) \/ DetectionDies(a)
  BY <1>6, DetectionTypes
<1>7. CASE \E removed \in SUBSET ToSet(joins), w \in Wishes :
             Cardinality(removed) <= 1 /\ Propose(removed, w)
  BY <1>7, ProposeTypes
<1>8. CASE ApplyWhole \/ ApplyPart
  BY <1>8, ApplyTypes
<1>9. CASE Dismiss
  BY <1>9 DEF Dismiss, EditInv
<1>10. CASE UNCHANGED vars
  BY <1>10 DEF vars, EditInv, Answered
<1> QED
  BY <1>1, <1>2, <1>3, <1>4, <1>5, <1>6, <1>7, <1>8, <1>9, <1>10 DEF Next

THEOREM EditInvariance == Spec => []EditInv
  BY EditInvInit, EditInvStep, PTL DEF Spec

\* The editor's state keeps its shape: a draft has the two sides of each join
\* set, or neither.
THEOREM EditingTypeCorrect == Spec => []TypeOK
<1>1. EditInv => TypeOK
  <2> SUFFICES ASSUME EditInv PROVE TypeOK
    OBVIOUS
  <2>1. \A a \in Asks : ask[a].pc \in {"idle", "sent", "hung"}
    BY DEF EditInv, NoAsk, Hung, AskState
  <2>2. card.pc \in {"none", "shown"}
    BY DEF EditInv, NoCard, CardState
  <2> QED
    BY <2>1, <2>2 DEF EditInv, TypeOK
<1> QED
  BY <1>1, EditInvariance, PTL

\* "A loop is a way back to where one started following the joins many to
\* one", "two ways from one table to another": over any tables, in every state
\* the editor can reach, the checks answer what paths enumerated one by one say.
THEOREM ChecksAlwaysExact == Spec => []ChecksAreExact
<1>1. EditInv => ChecksAreExact
  BY DraftJoins, ChecksHold DEF EditInv
<1> QED
  BY <1>1, EditInvariance, PTL
-----------------------------------------------------------------------------
(* Soundness. *)

LEMMA AppendIsOf ==
    ASSUME NEW js \in Seq(Join), NEW j \in Join
    PROVE  /\ Append(js, j) \in Seq(Join) /\ Len(js) \in Nat
           /\ DOMAIN Append(js, j) = 1..Len(js) + 1 /\ DOMAIN js = 1..Len(js)
           /\ Append(js, j)[Len(js) + 1] = j
           /\ \A i \in 1..Len(js) : Append(js, j)[i] = js[i]
  OBVIOUS

LEMMA TriedKeepsSound ==
    ASSUME NEW acc \in Answers, Sound(acc.joins), NEW j \in Join, NEW facts
    PROVE  Sound(Tried(acc, j, facts).joins)
<1> DEFINE more == Append(acc.joins, j)
           path == SecondPath(more)
           js == acc.joins
<1>1. js \in Seq(Join)
  BY DEF Answers
<1>2. path \in {"overflow", "second", "none"}
  BY DEF SecondPath
<1>3. Try(acc, j) = CASE path = "overflow" -> [acc EXCEPT !.died = TRUE]
                      [] path = "second"   -> acc
                      [] path = "none"     -> [acc EXCEPT !.joins = Append(@, j), !.added = Append(@, j)]
  BY DEF Try
<1>4. CASE Tried(acc, j, facts).joins = js
  BY <1>4
<1>5. CASE Tried(acc, j, facts).joins # js
  <2>1. Tried(acc, j, facts) = Try(acc, j) /\ ~JoinedPair(js, j.from, j.to) /\ ~MakesLoop(js, j)
    BY <1>5 DEF Tried
  <2>2. path = "none" /\ Tried(acc, j, facts).joins = more
    <3> HIDE DEF path
    <3> QED
      BY <1>2, <1>3, <1>5, <2>1 DEF Answers
  <2>3. more \in Seq(Join)
    BY <1>1
  <2>4. Acyclic(more)
    BY <1>1, <2>1, LoopCheck DEF Sound
  <2>5. OneWay(more)
    BY <2>2, <2>3, <2>4, SecondPathCheck
  <2>6. OneJoinPerPair(more)
    <3>1. /\ Len(js) \in Nat /\ DOMAIN more = 1..Len(js) + 1 /\ DOMAIN js = 1..Len(js)
          /\ more[Len(js) + 1] = j /\ \A i \in 1..Len(js) : more[i] = js[i]
      BY <1>1, AppendIsOf
    <3> HIDE DEF more, js
    <3>2. \A i \in 1..Len(js) : Ends(js[i]) # Ends(j)
      BY <2>1, <3>1 DEF JoinedPair, Ends
    <3>3. \A i, k \in 1..Len(js) : Ends(js[i]) = Ends(js[k]) => i = k
      BY <3>1 DEF Sound, OneJoinPerPair, js
    <3> QED
      BY <3>1, <3>2, <3>3 DEF OneJoinPerPair
  <2> QED
    BY <2>2, <2>4, <2>5, <2>6 DEF Sound
<1> QED
  BY <1>4, <1>5

\* An answer on a sound draft is sound.
LEMMA DetectedIsSound ==
    ASSUME NEW js \in Drafts, Sound(js), NEW c \in Drafts, NEW facts
    PROVE  Sound(Detected(js, c, facts).joins)
<1>1. js \in Seq(Join) /\ c \in Seq(Join) /\ Len(c) \in Nat /\ DOMAIN c = 1..Len(c)
      /\ \A n \in DOMAIN c : c[n] \in Join
  BY DraftJoins
<1>2. PICK h : Progress(h, js, c, facts) /\ Detected(js, c, facts) = h[Len(c)]
  BY <1>1, DetectedInSteps
<1>3. Sound(h[0].joins)
  BY <1>2 DEF Progress, Nothing
<1> DEFINE T == {n \in 0..Len(c) : ~Sound(h[n].joins)}
<1>4. T = {}
  <2>1. SUFFICES ASSUME T # {} PROVE FALSE
    OBVIOUS
  <2>2. T \in SUBSET Nat
    BY <1>1
  <2>3. PICK n \in T : \A m \in T : n <= m
    BY <2>1, <2>2, Least
  <2>4. n # 0
    BY <1>3
  <2>5. n \in 1..Len(c) /\ n - 1 \in 0..Len(c) /\ n - 1 \notin T
    BY <1>1, <2>3, <2>4
  <2>6. Sound(h[n - 1].joins) /\ h[n - 1] \in Answers
    BY <1>2, <2>5 DEF Progress
  <2>7. h[n] = Tried(h[n - 1], c[n], facts) /\ c[n] \in Join
    BY <1>1, <1>2, <2>5 DEF Progress
  <2>8. Sound(Tried(h[n - 1], c[n], facts).joins)
    BY <2>6, <2>7, TriedKeepsSound
  <2> QED
    BY <2>3, <2>7, <2>8
<1>5. Len(c) \in 0..Len(c)
  BY <1>1
<1> QED
  BY <1>2, <1>4, <1>5

\* So is a sound draft without one of its joins: its paths are paths of the draft.
LEMMA SubDraftIsSound ==
    ASSUME NEW js \in Seq(Join), Sound(js), NEW m \in DOMAIN js
    PROVE  Sound(RemoveAt(js, m))
<1> DEFINE rest == RemoveAt(js, m)
           at == [i \in DOMAIN rest |-> IF i < m THEN i ELSE i + 1]
<1>1. Len(js) \in Nat /\ DOMAIN js = 1..Len(js) /\ m \in 1..Len(js)
  OBVIOUS
<1>2. rest \in Seq(Join) /\ Len(rest) = Len(js) - 1 /\ DOMAIN rest = 1..Len(js) - 1
      /\ \A i \in 1..Len(js) - 1 : rest[i] = IF i < m THEN js[i] ELSE js[i + 1]
  <2>1. rest \in Seq(Join) /\ Len(rest) = Len(js) - 1
        /\ \A i \in 1..Len(js) - 1 : rest[i] = IF i < m THEN js[i] ELSE js[i + 1]
    BY WithoutOne
  <2> HIDE DEF rest
  <2> QED
    BY <2>1
<1> HIDE DEF rest
<1>3. \A i \in DOMAIN rest : at[i] \in DOMAIN js /\ rest[i] = js[at[i]]
  BY <1>1, <1>2
<1>4. \A i, k \in DOMAIN rest : at[i] = at[k] => i = k
  BY <1>1, <1>2
<1>5. DOMAIN at = DOMAIN rest
  OBVIOUS
<1> HIDE DEF at
<1>6. Acyclic(rest)
  <2>1. Edges(rest) \subseteq Edges(js)
    BY <1>3 DEF Edges
  <2>2. PICK r : Ranks(js, r)
    BY AcyclicIsRanked DEF Sound
  <2>3. Ranks(rest, r)
    BY <2>1, <2>2 DEF Ranks
  <2> QED
    BY <1>2, <2>3, AcyclicIsRanked
<1>7. OneJoinPerPair(rest)
  <2>1. \A i, k \in DOMAIN js : Ends(js[i]) = Ends(js[k]) => i = k
    BY DEF Sound, OneJoinPerPair
  <2> QED
    BY <1>3, <1>4, <2>1 DEF OneJoinPerPair
<1> DEFINE up(p) == [k \in 1..Len(p) |-> at[p[k]]]
<1>8. ASSUME NEW p \in Paths(rest)
      PROVE  /\ p \in Seq(DOMAIN rest) /\ Len(p) \in Nat
             /\ up(p) \in Paths(js) /\ Len(up(p)) = Len(p)
             /\ Start(js, up(p)) = Start(rest, p) /\ Finish(js, up(p)) = Finish(rest, p)
  <2>1. PICK n \in 1..Len(rest) : p \in [1..n -> DOMAIN rest]
    BY DEF Paths
  <2>2. n \in Nat /\ n > 0 /\ n \in 1..Len(js) /\ n <= Len(js)
    BY <1>1, <1>2, <2>1
  <2>3. p \in Seq(DOMAIN rest) /\ Len(p) = n
    BY <2>1, <2>2
  <2>4. \A k \in 1..n : p[k] \in DOMAIN rest /\ at[p[k]] \in DOMAIN js /\ rest[p[k]] = js[at[p[k]]]
    BY <1>3, <2>1
  <2>5. up(p) \in [1..n -> DOMAIN js] /\ Len(up(p)) = n /\ \A k \in 1..n : up(p)[k] = at[p[k]]
    BY <2>2, <2>3, <2>4
  <2> DEFINE q == up(p)
  <2> HIDE DEF up
  <2>6. \A k \in 1..Len(p) - 1 : Orient(rest[p[k]])[2] = Orient(rest[p[k + 1]])[1]
    BY DEF Paths
  <2>7. \A k \in 1..n - 1 : Orient(js[up(p)[k]])[2] = Orient(js[up(p)[k + 1]])[1]
    <3>1. SUFFICES ASSUME NEW k \in 1..n - 1
                   PROVE  Orient(js[up(p)[k]])[2] = Orient(js[up(p)[k + 1]])[1]
      OBVIOUS
    <3>2. k \in 1..n /\ k + 1 \in 1..n
      BY <2>2
    <3>3. js[up(p)[k]] = rest[p[k]] /\ js[up(p)[k + 1]] = rest[p[k + 1]]
      BY <2>4, <2>5, <3>2
    <3> QED
      BY <2>3, <2>6, <3>3
  <2>8. up(p) \in Paths(js)
    BY <2>2, <2>5, <2>7 DEF Paths
  <2>9. 1 \in 1..n /\ n \in 1..n
    BY <2>2
  <2>10. Start(js, up(p)) = Start(rest, p) /\ Finish(js, up(p)) = Finish(rest, p)
    BY <2>3, <2>4, <2>5, <2>9 DEF Start, Finish
  <2> QED
    BY <2>2, <2>3, <2>5, <2>8, <2>10
<1>9. ASSUME NEW p \in Paths(rest), NEW q \in Paths(rest), up(p) = up(q) PROVE p = q
  <2>1. Len(p) = Len(q) /\ Len(p) \in Nat /\ p \in Seq(DOMAIN rest) /\ q \in Seq(DOMAIN rest)
    <3> HIDE DEF up
    <3> QED
      BY <1>8, <1>9
  <2>2. ASSUME NEW k \in 1..Len(p) PROVE p[k] = q[k]
    <3>1. at[p[k]] = at[q[k]]
      <4>1. up(p)[k] = at[p[k]] /\ up(q)[k] = at[q[k]]
        BY <2>1
      <4> HIDE DEF up
      <4> QED
        BY <1>9, <4>1
    <3>2. p[k] \in DOMAIN rest /\ q[k] \in DOMAIN rest
      BY <2>1, ElementOfSeq
    <3> QED
      BY <1>4, <3>1, <3>2
  <2> QED
    BY <2>1, <2>2, SeqEqual
<1>10. OneWay(rest)
  <2> HIDE DEF up
  <2>1. \A p, q \in Paths(js) : Start(js, p) = Start(js, q) /\ Finish(js, p) = Finish(js, q) => p = q
    BY DEF Sound, OneWay
  <2> QED
    BY <1>8, <1>9, <2>1 DEF OneWay
<1> QED
  BY <1>6, <1>7, <1>10 DEF Sound, rest
\* Keeping every join but one, if any.
LEMMA AmongIs ==
    ASSUME NEW js \in Seq(Join), NEW some, NEW m \in 1..Len(js) + 1,
           \A i \in DOMAIN js : js[i] \in some <=> i # m
    PROVE  /\ Among(js, some) \in Seq(Join)
           /\ Len(Among(js, some)) = IF m <= Len(js) THEN Len(js) - 1 ELSE Len(js)
           /\ \A i \in 1..Len(Among(js, some)) : Among(js, some)[i] = IF i < m THEN js[i] ELSE js[i + 1]
<1>1. Len(js) \in Nat /\ DOMAIN js = 1..Len(js) /\ m \in Nat /\ m > 0 /\ \A n \in 1..Len(js) : js[n] \in Join
  OBVIOUS
<1>2. PICK h : Keeps(h, js, some, Join) /\ Among(js, some) = h[Len(js)]
  BY AmongInSteps
<1>3. h \in [0..Len(js) -> Seq(Join)] /\ h[0] = <<>> /\ \A n \in 1..Len(js) : h[n] = Keep(h[n - 1], js[n], some)
  BY <1>2 DEF Keeps
<1> DEFINE size(n) == IF m <= n THEN n - 1 ELSE n
           Good(n) == /\ Len(h[n]) = size(n)
                      /\ \A i \in 1..size(n) : h[n][i] = IF i < m THEN js[i] ELSE js[i + 1]
           T == {n \in 0..Len(js) : ~Good(n)}
<1>4. Good(0)
  <2>1. Len(h[0]) = 0 /\ size(0) = 0
    BY <1>1, <1>3
  <2> QED
    BY <2>1
<1>5. ASSUME NEW n \in 1..Len(js), Good(n - 1) PROVE Good(n)
  <2> DEFINE acc == h[n - 1]
  <2>1. acc \in Seq(Join) /\ h[n] = Keep(acc, js[n], some) /\ js[n] \in Join
    BY <1>1, <1>3
  <2>2. Len(acc) = size(n - 1) /\ \A i \in 1..size(n - 1) : acc[i] = IF i < m THEN js[i] ELSE js[i + 1]
    BY <1>5
  <2> HIDE DEF acc
  <2>3. CASE n = m
    <3>1. h[n] = acc
      BY <1>1, <2>1, <2>3 DEF Keep
    <3>2. size(n) = size(n - 1)
      BY <1>1, <2>3
    <3> QED
      BY <2>2, <3>1, <3>2
  <2>4. CASE n # m
    <3>1. h[n] = Append(acc, js[n])
      BY <1>1, <2>1, <2>4 DEF Keep
    <3>2. size(n) = size(n - 1) + 1 /\ size(n) \in Nat /\ size(n - 1) \in Nat
      BY <1>1, <2>4
    <3>3. /\ Len(h[n]) = size(n) /\ h[n][size(n)] = js[n]
          /\ \A i \in 1..size(n - 1) : h[n][i] = acc[i]
      <4> HIDE DEF size
      <4> QED
        BY <2>1, <2>2, <3>1, <3>2, AppendIsOf
    <3>4. js[n] = IF size(n) < m THEN js[size(n)] ELSE js[size(n) + 1]
      BY <1>1, <2>4
    <3>5. \A i \in 1..size(n) : i \in 1..size(n - 1) \/ i = size(n)
      <4> HIDE DEF size
      <4> QED
        BY <3>2
    <3> HIDE DEF size
    <3> QED
      BY <2>2, <3>3, <3>4, <3>5
  <2> QED
    BY <2>3, <2>4
<1> HIDE DEF Good
<1>6. T = {}
  <2>1. SUFFICES ASSUME T # {} PROVE FALSE
    OBVIOUS
  <2>2. T \in SUBSET Nat
    BY <1>1
  <2>3. PICK n \in T : \A k \in T : n <= k
    BY <2>1, <2>2, Least
  <2>4. n # 0
    BY <1>4
  <2>5. n \in 1..Len(js) /\ n - 1 \in 0..Len(js) /\ n - 1 \notin T
    BY <1>1, <2>3, <2>4
  <2> QED
    BY <1>5, <2>3, <2>5
<1>7. Good(Len(js)) /\ h[Len(js)] \in Seq(Join)
  <2>1. Len(js) \in 0..Len(js)
    BY <1>1
  <2> QED
    BY <1>3, <1>6, <2>1
<1> QED
  BY <1>2, <1>7 DEF Good

\* On a sound draft, the card and the server take the same joins out.
LEMMA RestIsWithout ==
    ASSUME NEW js \in Seq(Join), OneJoinPerPair(js), NEW removed \in SUBSET ToSet(js), Cardinality(removed) <= 1
    PROVE  Rest(js, removed) = Without(js, removed)
<1> DEFINE some == {j \in ToSet(js) : ~\E r \in removed : SameLink(j, r)}
<1>1. Len(js) \in Nat /\ DOMAIN js = 1..Len(js)
  OBVIOUS
<1>2. \A i \in DOMAIN js : js[i] \in some <=> ~\E r \in removed : SameLink(js[i], r)
  BY DEF ToSet
<1>3. Rest(js, removed) = Among(js, some)
  BY DEF Rest
<1> HIDE DEF some
<1>4. CASE removed = {}
  <2>1. \A i \in DOMAIN js : js[i] \in some <=> i # Len(js) + 1
    BY <1>1, <1>2, <1>4
  <2> DEFINE m == Len(js) + 1
             kept == Among(js, some)
  <2>2. m \in 1..Len(js) + 1 /\ ~(m <= Len(js))
    BY <1>1
  <2>3. /\ kept \in Seq(Join)
        /\ Len(kept) = IF m <= Len(js) THEN Len(js) - 1 ELSE Len(js)
        /\ \A i \in 1..Len(kept) : kept[i] = IF i < m THEN js[i] ELSE js[i + 1]
    BY <2>1, <2>2, AmongIs
  <2>4. Len(kept) = Len(js) /\ \A i \in 1..Len(js) : i < m
    BY <1>1, <2>2, <2>3
  <2> HIDE DEF m, kept
  <2>5. kept = js
    BY <2>3, <2>4, SeqEqual
  <2> QED
    BY <1>3, <1>4, <2>5, WithoutIs DEF kept
<1>5. ASSUME NEW r \in ToSet(js), removed = {r} PROVE Rest(js, removed) = Without(js, removed)
  <2> DEFINE m == LinkAt(js, r)
             kept == Among(js, some)
             rest == RemoveAt(js, m)
  <2>1. m \in DOMAIN js /\ SameLink(js[m], r)
    BY LinkIsThere
  <2> HIDE DEF m
  <2>2. ASSUME NEW i \in DOMAIN js, SameLink(js[i], r) PROVE i = m
    BY <2>1, <2>2 DEF SameLink, OneJoinPerPair
  <2>3. \A i \in DOMAIN js : js[i] \in some <=> i # m
    BY <1>2, <1>5, <2>1, <2>2
  <2>4. m \in 1..Len(js) + 1 /\ m <= Len(js)
    BY <1>1, <2>1
  <2>5. /\ kept \in Seq(Join)
        /\ Len(kept) = IF m <= Len(js) THEN Len(js) - 1 ELSE Len(js)
        /\ \A i \in 1..Len(kept) : kept[i] = IF i < m THEN js[i] ELSE js[i + 1]
    BY <2>3, <2>4, AmongIs
  <2>6. /\ rest \in Seq(Join) /\ Len(rest) = Len(js) - 1
        /\ \A i \in 1..Len(js) - 1 : rest[i] = IF i < m THEN js[i] ELSE js[i + 1]
    BY <2>1, WithoutOne
  <2> HIDE DEF kept, rest
  <2>7. Len(kept) = Len(js) - 1
    BY <2>4, <2>5
  <2>8. kept = rest
    BY <2>5, <2>6, <2>7, SeqEqual
  <2> QED
    BY <1>3, <1>5, <2>8, WithoutIs DEF kept, rest, m
<1> QED
  BY <1>4, <1>5, FewOfDraft

\* Joins of pairs not joined yet are all added.
LEMMA AddedIsAll ==
    ASSUME NEW js \in Seq(Join), NEW c \in Seq(Join), OneJoinPerPair(js \o c)
    PROVE  Added(js, c) = js \o c
<1> DEFINE all == js \o c
           L == Len(js)
<1>1. L \in Nat /\ Len(c) \in Nat /\ DOMAIN js = 1..L /\ \A n \in 1..Len(c) : c[n] \in Join
  OBVIOUS
<1>2. /\ all \in Seq(Join) /\ Len(all) = L + Len(c) /\ DOMAIN all = 1..L + Len(c)
      /\ \A i \in 1..L : all[i] = js[i]
      /\ \A n \in 1..Len(c) : all[L + n] = c[n]
  <2>1. /\ all \in Seq(Join) /\ Len(all) = L + Len(c)
        /\ \A i \in 1..L + Len(c) : all[i] = IF i <= L THEN js[i] ELSE c[i - L]
    BY ConcatProperties
  <2> HIDE DEF all
  <2>2. DOMAIN all = 1..L + Len(c)
    BY <2>1
  <2>3. \A i \in 1..L : i \in 1..L + Len(c) /\ i <= L
    BY <1>1
  <2>4. \A n \in 1..Len(c) : L + n \in 1..L + Len(c) /\ ~(L + n <= L) /\ (L + n) - L = n
    BY <1>1
  <2> HIDE DEF L
  <2> QED
    BY <2>1, <2>2, <2>3, <2>4
<1>3. \A i, k \in DOMAIN all : Ends(all[i]) = Ends(all[k]) => i = k
  BY DEF OneJoinPerPair
<1>4. PICK h : Adds(h, js, c) /\ Added(js, c) = h[Len(c)]
  BY AddedInSteps
<1>5. h \in [0..Len(c) -> Seq(Join)] /\ h[0] = js /\ \A n \in 1..Len(c) : h[n] = Add(h[n - 1], c[n])
  BY <1>4 DEF Adds
<1> HIDE DEF all
<1> DEFINE Good(n) == Len(h[n]) = L + n /\ \A i \in 1..L + n : h[n][i] = all[i]
           T == {n \in 0..Len(c) : ~Good(n)}
<1>6. Good(0)
  BY <1>1, <1>2, <1>5
<1> HIDE DEF L
<1>7. ASSUME NEW n \in 1..Len(c), Good(n - 1) PROVE Good(n)
  <2> DEFINE acc == h[n - 1]
  <2>1. n \in Nat /\ n - 1 \in Nat /\ L + (n - 1) = (L + n) - 1 /\ L + n \in Nat /\ L + n \in DOMAIN all
        /\ (L + (n - 1)) + 1 = L + n
    BY <1>1, <1>2
  <2>2. acc \in Seq(Join) /\ h[n] = Add(acc, c[n]) /\ c[n] \in Join /\ all[L + n] = c[n]
    <3>1. n - 1 \in 0..Len(c)
      BY <1>1
    <3>2. acc \in Seq(Join) /\ h[n] = Add(acc, c[n])
      BY <1>5, <3>1
    <3>3. c[n] \in Join /\ all[L + n] = c[n]
      BY <1>1, <1>2
    <3> QED
      BY <3>2, <3>3
  <2>3. Len(acc) = L + (n - 1) /\ \A i \in 1..L + (n - 1) : acc[i] = all[i]
    BY <1>7
  <2> HIDE DEF acc
  <2>4. DOMAIN acc = 1..L + (n - 1)
    BY <2>2, <2>3
  <2>5. \A i \in 1..L + (n - 1) : i \in DOMAIN all /\ i # L + n
    BY <1>1, <1>2
  <2>6. ASSUME NEW i \in DOMAIN acc, SameLink(acc[i], c[n]) PROVE FALSE
    <3>1. Ends(all[i]) = Ends(all[L + n])
      BY <2>2, <2>3, <2>4, <2>6 DEF SameLink
    <3> QED
      BY <1>3, <2>1, <2>4, <2>5, <3>1
  <2>7. h[n] = Append(acc, c[n])
    BY <2>2, <2>6 DEF Add
  <2>8. /\ Len(h[n]) = L + n /\ h[n][L + n] = c[n]
        /\ \A i \in 1..L + (n - 1) : h[n][i] = acc[i]
    <3>1. /\ Len(h[n]) = Len(acc) + 1 /\ h[n][Len(acc) + 1] = c[n]
          /\ \A i \in 1..Len(acc) : h[n][i] = acc[i]
      BY <2>2, <2>7, AppendProperties
    <3> QED
      BY <2>1, <2>3, <3>1
  <2>9. \A i \in 1..L + n : i \in 1..L + (n - 1) \/ i = L + n
    BY <1>1
  <2> QED
    BY <2>2, <2>3, <2>8, <2>9
<1> HIDE DEF Good
<1>8. T = {}
  <2>1. SUFFICES ASSUME T # {} PROVE FALSE
    OBVIOUS
  <2>2. T \in SUBSET Nat
    BY <1>1
  <2>3. PICK n \in T : \A k \in T : n <= k
    BY <2>1, <2>2, Least
  <2>4. n # 0
    BY <1>6
  <2>5. n \in 1..Len(c) /\ n - 1 \in 0..Len(c) /\ n - 1 \notin T
    BY <1>1, <2>3, <2>4
  <2> QED
    BY <1>7, <2>3, <2>5
<1>9. Good(Len(c)) /\ h[Len(c)] \in Seq(Join)
  <2>1. Len(c) \in 0..Len(c)
    BY <1>1
  <2> QED
    BY <1>5, <1>8, <2>1
<1>10. h[Len(c)] = all
  BY <1>2, <1>9, SeqEqual DEF Good
<1> QED
  BY <1>4, <1>10 DEF all

-----------------------------------------------------------------------------
(* The answers, applied to the draft they were made for. *)

LEMMA DetectionKeepsSound ==
    ASSUME EditInv, NEW a \in Asks, DetectionArrives(a), ask[a].draft = joins, Sound(joins)
    PROVE  Sound(joins')
<1>1. joins \in Drafts /\ ask[a].candidates \in Drafts
  BY AskHolds DEF EditInv, DetectionArrives
<1>2. Grown(Answer(a), joins)
  BY <1>1, DetectedGrows DEF Answer
<1>3. joins' = Answer(a).joins
  BY <1>2 DEF Grown, DetectionArrives
<1> QED
  BY <1>1, <1>3, DetectedIsSound DEF Answer

LEMMA CardKeepsSound ==
    ASSUME EditInv, ApplyWhole, card.draft = joins, Sound(joins)
    PROVE  Sound(joins')
<1> DEFINE W == Without(joins, card.removed)
<1>1. card.pc = "shown"
  BY DEF ApplyWhole
<1>2. Answered(card) /\ card.added \in Drafts /\ joins \in Drafts
  BY <1>1, CardHolds DEF EditInv
<1>3. card.removed \in SUBSET ToSet(joins) /\ Cardinality(card.removed) <= 1 /\ joins \in Seq(Join)
  BY <1>2, DraftJoins DEF Answered
<1>4. PICK w \in Wishes : card.added = Detected(W, w, {}).added
  BY <1>2 DEF Answered, Proposed
<1>5. w \in Drafts
  BY EditingAssumption DEF EditingAssumption
<1>6. W \in Drafts /\ Sound(W)
  <2>1. W \in Drafts
    BY <1>2, <1>3, WithoutIsDraft
  <2>2. CASE card.removed = {}
    BY <2>1, <2>2, WithoutIs
  <2>3. ASSUME NEW r \in ToSet(joins), card.removed = {r} PROVE Sound(W)
    BY <1>3, <2>3, WithoutIs, LinkIsThere, SubDraftIsSound
  <2> QED
    BY <1>3, <2>1, <2>2, <2>3, FewOfDraft
<1>7. W = Rest(joins, card.removed)
  BY <1>3, RestIsWithout DEF Sound
<1>8. joins' = Added(W, card.added)
  <2>1. joins' = Applied(joins, card.removed, card.added)
    BY DEF ApplyWhole, Apply
  <2> QED
    BY <1>7, <2>1, AppliedIs
<1> HIDE DEF W
<1>9. Grown(Detected(W, w, {}), W) /\ Sound(Detected(W, w, {}).joins)
  BY <1>5, <1>6, DetectedGrows, DetectedIsSound
<1>10. Sound(W \o card.added)
  BY <1>4, <1>9 DEF Grown
<1>11. Added(W, card.added) = W \o card.added
  <2>1. W \in Seq(Join) /\ card.added \in Seq(Join)
    BY <1>2, <1>6, DraftJoins
  <2> QED
    BY <1>10, <2>1, AddedIsAll DEF Sound
<1> QED
  BY <1>8, <1>10, <1>11

\* "A set of joins kept to be queried without surprise": over any tables, an
\* answer of the server applied to the draft it was made for leaves a sound
\* draft sound, whatever was drawn, switched or removed before.
THEOREM AnswersAlwaysKeepTheRules == Spec => AnswersKeepTheRules
<1>1. EditInv /\ [Next]_vars =>
        [\A a \in Asks :
           (DetectionArrives(a) /\ ask[a].draft = joins) \/ (ApplyWhole /\ card.draft = joins)
             => (Sound(joins) => Sound(joins'))]_vars
  BY DetectionKeepsSound, CardKeepsSound
<1> QED
  BY <1>1, EditInvariance, PTL DEF Spec, AnswersKeepTheRules
-----------------------------------------------------------------------------
(* Sequences, as the sets of what they hold. *)

Distinct(s) == \A i, k \in DOMAIN s : s[i] = s[k] => i = k

LEMMA AppendSet ==
    ASSUME NEW D, NEW s \in Seq(D), NEW e \in D
    PROVE  /\ Append(s, e) \in Seq(D) /\ Append(s, e) # <<>>
           /\ ToSet(Append(s, e)) = ToSet(s) \cup {e}
           /\ Distinct(s) /\ e \notin ToSet(s) => Distinct(Append(s, e))
<1> DEFINE more == Append(s, e)
<1>1. Len(s) \in Nat /\ DOMAIN s = 1..Len(s)
  OBVIOUS
<1>2. /\ more \in Seq(D) /\ Len(more) = Len(s) + 1 /\ DOMAIN more = 1..Len(s) + 1
      /\ more[Len(s) + 1] = e /\ \A i \in 1..Len(s) : more[i] = s[i]
  BY <1>1
<1>3. more # <<>>
  BY <1>1, <1>2, EmptySeq
<1> HIDE DEF more
<1>4. \A i \in 1..Len(s) + 1 : i \in 1..Len(s) \/ i = Len(s) + 1
  BY <1>1
<1>5. \A i \in 1..Len(s) : i \in 1..Len(s) + 1 /\ i # Len(s) + 1
  BY <1>1
<1>6. Len(s) + 1 \in 1..Len(s) + 1
  BY <1>1
<1>7. ToSet(more) = ToSet(s) \cup {e}
  BY <1>1, <1>2, <1>4, <1>5, <1>6 DEF ToSet
<1>8. ASSUME Distinct(s), e \notin ToSet(s) PROVE Distinct(more)
  <2>1. \A i \in 1..Len(s) : s[i] # e
    BY <1>1, <1>8 DEF ToSet
  <2>2. \A i, k \in 1..Len(s) : s[i] = s[k] => i = k
    BY <1>1, <1>8 DEF Distinct
  <2>3. ASSUME NEW i \in 1..Len(s) + 1, NEW k \in 1..Len(s) + 1, more[i] = more[k] PROVE i = k
    BY <1>2, <1>4, <2>1, <2>2, <2>3
  <2> QED
    BY <1>2, <2>3 DEF Distinct
<1> QED
  BY <1>2, <1>3, <1>7, <1>8 DEF more

Both(D, s, u) ==
    /\ s \o u \in Seq(D) /\ Len(s \o u) = Len(s) + Len(u)
    /\ ToSet(s \o u) = ToSet(s) \cup ToSet(u)
    /\ Distinct(s) /\ Distinct(u) /\ ToSet(s) \cap ToSet(u) = {} => Distinct(s \o u)
    /\ \A i \in DOMAIN s : i \in DOMAIN (s \o u) /\ (s \o u)[i] = s[i]

LEMMA ConcatSet ==
    ASSUME NEW D, NEW s \in Seq(D), NEW u \in Seq(D)
    PROVE  Both(D, s, u)
<1> DEFINE all == s \o u
<1>1. Len(s) \in Nat /\ DOMAIN s = 1..Len(s) /\ Len(u) \in Nat /\ DOMAIN u = 1..Len(u)
  OBVIOUS
<1>2. /\ all \in Seq(D) /\ Len(all) = Len(s) + Len(u) /\ DOMAIN all = 1..Len(s) + Len(u)
      /\ \A i \in 1..Len(s) + Len(u) : all[i] = IF i <= Len(s) THEN s[i] ELSE u[i - Len(s)]
  BY <1>1, ConcatProperties
<1> HIDE DEF all
<1>3. \A i \in DOMAIN s : i \in DOMAIN all /\ all[i] = s[i]
  BY <1>1, <1>2
<1>4. \A i \in DOMAIN u : i + Len(s) \in DOMAIN all /\ all[i + Len(s)] = u[i]
  <2>1. ASSUME NEW i \in DOMAIN u PROVE i + Len(s) \in DOMAIN all /\ ~(i + Len(s) <= Len(s)) /\ (i + Len(s)) - Len(s) = i
    BY <1>1, <1>2
  <2> QED
    BY <1>2, <2>1
<1>5. \A i \in DOMAIN all : i \in DOMAIN s \/ (i - Len(s) \in DOMAIN u /\ all[i] = u[i - Len(s)])
  BY <1>1, <1>2
<1>6. ToSet(all) = ToSet(s) \cup ToSet(u)
  <2>1. ToSet(s) \subseteq ToSet(all) /\ ToSet(u) \subseteq ToSet(all)
    BY <1>3, <1>4 DEF ToSet
  <2>2. ToSet(all) \subseteq ToSet(s) \cup ToSet(u)
    BY <1>3, <1>5 DEF ToSet
  <2> QED
    BY <2>1, <2>2
<1>7. ASSUME Distinct(s), Distinct(u), ToSet(s) \cap ToSet(u) = {} PROVE Distinct(all)
  <2>1. \A i \in DOMAIN s, k \in DOMAIN u : s[i] # u[k]
    BY <1>7 DEF ToSet
  <2>2. ASSUME NEW i \in DOMAIN all, NEW k \in DOMAIN all, all[i] = all[k] PROVE i = k
    <3>1. CASE i \in DOMAIN s /\ k \in DOMAIN s
      BY <1>3, <1>7, <2>2, <3>1 DEF Distinct
    <3>2. CASE i \notin DOMAIN s /\ k \notin DOMAIN s
      <4>1. i - Len(s) = k - Len(s)
        BY <1>5, <1>7, <2>2, <3>2 DEF Distinct
      <4> QED
        BY <1>1, <1>2, <4>1
    <3>3. CASE ~(i \in DOMAIN s <=> k \in DOMAIN s)
      BY <1>3, <1>5, <2>1, <2>2, <3>3
    <3> QED
      BY <3>1, <3>2, <3>3
  <2> QED
    BY <2>2 DEF Distinct
<1> QED
  BY <1>2, <1>3, <1>6, <1>7 DEF all, Both

\* What a sequence holds, cut in two.
LEMMA CutSet ==
    ASSUME NEW D, NEW s \in Seq(D), NEW m \in 1..Len(s) + 1
    PROVE  LET before == SubSeq(s, 1, m - 1)
               after == SubSeq(s, m, Len(s))
           IN  /\ before \in Seq(D) /\ after \in Seq(D)
               /\ Len(before) = m - 1 /\ Len(after) = Len(s) - m + 1
               /\ ToSet(before) \cup ToSet(after) = ToSet(s)
               /\ Distinct(s) => Distinct(before) /\ Distinct(after) /\ ToSet(before) \cap ToSet(after) = {}
<1> DEFINE before == SubSeq(s, 1, m - 1)
           after == SubSeq(s, m, Len(s))
<1>1. Len(s) \in Nat /\ DOMAIN s = 1..Len(s) /\ m \in Nat /\ m >= 1 /\ m <= Len(s) + 1
  OBVIOUS
<1>2. /\ before \in Seq(D) /\ Len(before) = m - 1 /\ DOMAIN before = 1..m - 1
      /\ \A i \in 1..m - 1 : before[i] = s[i]
  BY <1>1
<1>3. /\ after \in Seq(D) /\ Len(after) = Len(s) - m + 1 /\ DOMAIN after = 1..Len(s) - m + 1
      /\ \A i \in 1..Len(s) - m + 1 : after[i] = s[m + i - 1]
  BY <1>1
<1> HIDE DEF before, after
<1>4. \A i \in DOMAIN before : i \in DOMAIN s /\ i < m
  BY <1>1, <1>2
<1>5. \A i \in DOMAIN after : m + i - 1 \in DOMAIN s /\ ~(m + i - 1 < m)
  BY <1>1, <1>3
<1>6. \A i \in DOMAIN s : i \in DOMAIN before \/ (i - m + 1 \in DOMAIN after /\ m + (i - m + 1) - 1 = i)
  BY <1>1, <1>2, <1>3
<1>7. ToSet(before) \cup ToSet(after) = ToSet(s)
  <2>1. ToSet(before) \subseteq ToSet(s) /\ ToSet(after) \subseteq ToSet(s)
    BY <1>2, <1>3, <1>4, <1>5 DEF ToSet
  <2>2. ToSet(s) \subseteq ToSet(before) \cup ToSet(after)
    <3>1. ASSUME NEW i \in DOMAIN s PROVE s[i] \in ToSet(before) \cup ToSet(after)
      <4>1. CASE i \in DOMAIN before
        BY <1>2, <4>1 DEF ToSet
      <4>2. CASE i \notin DOMAIN before
        <5>1. i - m + 1 \in DOMAIN after /\ after[i - m + 1] = s[i]
          BY <1>3, <1>6, <4>2
        <5> QED
          BY <5>1 DEF ToSet
      <4> QED
        BY <4>1, <4>2
    <3> QED
      BY <3>1 DEF ToSet
  <2> QED
    BY <2>1, <2>2
<1>8. ASSUME Distinct(s)
      PROVE  Distinct(before) /\ Distinct(after) /\ ToSet(before) \cap ToSet(after) = {}
  <2>1. Distinct(before)
    BY <1>2, <1>4, <1>8 DEF Distinct
  <2>2. Distinct(after)
    <3>1. ASSUME NEW i \in DOMAIN after, NEW k \in DOMAIN after, after[i] = after[k] PROVE i = k
      <4>1. m + i - 1 = m + k - 1
        BY <1>3, <1>5, <1>8, <3>1 DEF Distinct
      <4> QED
        BY <1>1, <1>3, <4>1
    <3> QED
      BY <3>1 DEF Distinct
  <2>3. ASSUME NEW i \in DOMAIN before, NEW k \in DOMAIN after PROVE before[i] # after[k]
    <3>1. i # m + k - 1
      BY <1>4, <1>5
    <3> QED
      BY <1>2, <1>3, <1>4, <1>5, <1>8, <3>1 DEF Distinct
  <2> QED
    BY <2>1, <2>2, <2>3 DEF ToSet
<1> QED
  BY <1>2, <1>3, <1>7, <1>8 DEF before, after

LEMMA OneSet ==
    ASSUME NEW D, NEW e \in D
    PROVE  <<e>> \in Seq(D) /\ Len(<<e>>) = 1 /\ ToSet(<<e>>) = {e} /\ Distinct(<<e>>)
<1>1. <<e>> \in Seq(D) /\ Len(<<e>>) = 1 /\ DOMAIN <<e>> = {1} /\ <<e>>[1] = e
  OBVIOUS
<1> QED
  BY <1>1 DEF ToSet, Distinct

LEMMA InsertSet ==
    ASSUME NEW D, NEW s \in Seq(D), NEW m \in 1..Len(s) + 1, NEW e \in D
    PROVE  /\ InsertAt(s, m, e) \in Seq(D) /\ Len(InsertAt(s, m, e)) = Len(s) + 1
           /\ ToSet(InsertAt(s, m, e)) = ToSet(s) \cup {e}
           /\ Distinct(s) /\ e \notin ToSet(s) => Distinct(InsertAt(s, m, e))
<1> DEFINE before == SubSeq(s, 1, m - 1)
           after == SubSeq(s, m, Len(s))
           here == before \o <<e>>
<1>1. InsertAt(s, m, e) = here \o after
  BY DEF InsertAt
<1>2. /\ before \in Seq(D) /\ after \in Seq(D)
      /\ Len(before) = m - 1 /\ Len(after) = Len(s) - m + 1
      /\ ToSet(before) \cup ToSet(after) = ToSet(s)
      /\ Distinct(s) => Distinct(before) /\ Distinct(after) /\ ToSet(before) \cap ToSet(after) = {}
  BY CutSet
<1> HIDE DEF before, after
<1>3. /\ here \in Seq(D) /\ Len(here) = Len(before) + 1
      /\ ToSet(here) = ToSet(before) \cup {e}
      /\ Distinct(before) /\ e \notin ToSet(before) => Distinct(here)
  <2>1. <<e>> \in Seq(D) /\ Len(<<e>>) = 1 /\ ToSet(<<e>>) = {e} /\ Distinct(<<e>>)
    BY OneSet
  <2>2. /\ here \in Seq(D) /\ Len(here) = Len(before) + Len(<<e>>)
        /\ ToSet(here) = ToSet(before) \cup ToSet(<<e>>)
        /\ Distinct(before) /\ Distinct(<<e>>) /\ ToSet(before) \cap ToSet(<<e>>) = {} => Distinct(here)
    <3>1. Both(D, before, <<e>>)
      BY <1>2, <2>1, ConcatSet
    <3> QED
      BY <3>1 DEF Both
  <2>3. Len(here) = Len(before) + 1
    BY <2>1, <2>2
  <2>4. e \notin ToSet(before) => ToSet(before) \cap ToSet(<<e>>) = {}
    BY <2>1
  <2> HIDE DEF here
  <2> QED
    BY <2>1, <2>2, <2>3, <2>4
<1> HIDE DEF here
<1>4. /\ here \o after \in Seq(D) /\ Len(here \o after) = Len(here) + Len(after)
      /\ ToSet(here \o after) = ToSet(here) \cup ToSet(after)
      /\ Distinct(here) /\ Distinct(after) /\ ToSet(here) \cap ToSet(after) = {} => Distinct(here \o after)
  <2>1. Both(D, here, after)
    BY <1>2, <1>3, ConcatSet
  <2> QED
    BY <2>1 DEF Both
<1>5. Len(here \o after) = Len(s) + 1
  BY <1>2, <1>3, <1>4
<1>6. ToSet(here \o after) = ToSet(s) \cup {e}
  BY <1>2, <1>3, <1>4
<1>7. ASSUME Distinct(s), e \notin ToSet(s) PROVE Distinct(here \o after)
  <2>1. e \notin ToSet(before) /\ e \notin ToSet(after) /\ ToSet(before) \cap ToSet(after) = {}
    BY <1>2, <1>7
  <2>2. ToSet(here) \cap ToSet(after) = {}
    BY <1>3, <2>1
  <2> QED
    BY <1>2, <1>3, <1>4, <1>7, <2>1, <2>2
<1> QED
  BY <1>1, <1>4, <1>5, <1>6, <1>7

LEMMA TailSet ==
    ASSUME NEW D, NEW s \in Seq(D), s # <<>>
    PROVE  /\ Head(s) \in D /\ Head(s) = s[1] /\ Tail(s) \in Seq(D) /\ Len(Tail(s)) = Len(s) - 1
           /\ Len(s) \in Nat /\ Len(s) >= 1
           /\ ToSet(s) = {Head(s)} \cup ToSet(Tail(s))
           /\ Distinct(s) => Distinct(Tail(s)) /\ Head(s) \notin ToSet(Tail(s))
<1>1. Len(s) \in Nat /\ Len(s) >= 1 /\ DOMAIN s = 1..Len(s)
  BY EmptySeq
<1>2. Head(s) \in D /\ Head(s) = s[1]
  BY <1>1
<1>3. /\ Tail(s) \in Seq(D) /\ Len(Tail(s)) = Len(s) - 1 /\ DOMAIN Tail(s) = 1..Len(s) - 1
      /\ \A i \in 1..Len(s) - 1 : Tail(s)[i] = s[i + 1]
  BY <1>1
<1>4. \A i \in DOMAIN Tail(s) : i + 1 \in DOMAIN s /\ i + 1 # 1
  BY <1>1, <1>3
<1>5. \A i \in DOMAIN s : i = 1 \/ (i - 1 \in DOMAIN Tail(s) /\ i - 1 + 1 = i)
  BY <1>1, <1>3
<1>6. 1 \in DOMAIN s
  BY <1>1
<1>7. ToSet(s) = {Head(s)} \cup ToSet(Tail(s))
  <2>1. Head(s) \in ToSet(s) /\ ToSet(Tail(s)) \subseteq ToSet(s)
    BY <1>2, <1>3, <1>4, <1>6 DEF ToSet
  <2>2. ASSUME NEW i \in DOMAIN s PROVE s[i] \in {Head(s)} \cup ToSet(Tail(s))
    <3>1. CASE i = 1
      BY <1>2, <3>1
    <3>2. CASE i # 1
      <4>1. i - 1 \in DOMAIN Tail(s) /\ Tail(s)[i - 1] = s[i]
        BY <1>3, <1>5, <3>2
      <4> QED
        BY <4>1 DEF ToSet
    <3> QED
      BY <3>1, <3>2
  <2> QED
    BY <2>1, <2>2 DEF ToSet
<1>8. ASSUME Distinct(s) PROVE Distinct(Tail(s)) /\ Head(s) \notin ToSet(Tail(s))
  <2>1. ASSUME NEW i \in DOMAIN Tail(s), NEW k \in DOMAIN Tail(s), Tail(s)[i] = Tail(s)[k] PROVE i = k
    <3>1. i + 1 = k + 1
      BY <1>3, <1>4, <1>8, <2>1 DEF Distinct
    <3> QED
      BY <1>1, <1>3, <3>1
  <2>2. ASSUME NEW i \in DOMAIN Tail(s) PROVE Tail(s)[i] # Head(s)
    <3>1. i + 1 \in DOMAIN s /\ i + 1 # 1 /\ Tail(s)[i] = s[i + 1]
      BY <1>3, <1>4
    <3> QED
      BY <1>2, <1>6, <1>8, <3>1 DEF Distinct
  <2> QED
    BY <2>1, <2>2 DEF Distinct, ToSet
<1> QED
  BY <1>1, <1>2, <1>3, <1>7, <1>8

LEMMA RemoveSet ==
    ASSUME NEW D, NEW s \in Seq(D), NEW m \in DOMAIN s
    PROVE  /\ RemoveAt(s, m) \in Seq(D) /\ Len(RemoveAt(s, m)) = Len(s) - 1
           /\ ToSet(s) = {s[m]} \cup ToSet(RemoveAt(s, m))
<1> DEFINE before == SubSeq(s, 1, m - 1)
           after == SubSeq(s, m, Len(s))
           behind == SubSeq(s, m + 1, Len(s))
<1>1. Len(s) \in Nat /\ DOMAIN s = 1..Len(s) /\ m \in 1..Len(s) + 1 /\ m + 1 \in 1..Len(s) + 1 /\ m \in 1..Len(s)
  OBVIOUS
<1>2. /\ before \in Seq(D) /\ after \in Seq(D)
      /\ Len(before) = m - 1 /\ Len(after) = Len(s) - m + 1
      /\ ToSet(before) \cup ToSet(after) = ToSet(s)
  BY <1>1, CutSet
<1>3. behind \in Seq(D) /\ Len(behind) = Len(s) - m
  BY <1>1
<1>4. after = <<s[m]>> \o behind
  <2>1. m \in 1..Len(s) /\ Len(s) \in m..Len(s)
    BY <1>1
  <2> QED
    BY <2>1, SubSeqRecursiveFirst
<1> HIDE DEF before, after, behind
<1>5. ToSet(after) = {s[m]} \cup ToSet(behind)
  <2>1. <<s[m]>> \in Seq(D) /\ ToSet(<<s[m]>>) = {s[m]}
    BY <1>1, OneSet
  <2> QED
    <3>1. Both(D, <<s[m]>>, behind)
      BY <1>3, <2>1, ConcatSet
    <3> QED
      BY <1>4, <2>1, <3>1 DEF Both
<1>6. /\ before \o behind \in Seq(D) /\ Len(before \o behind) = Len(before) + Len(behind)
      /\ ToSet(before \o behind) = ToSet(before) \cup ToSet(behind)
  <2>1. Both(D, before, behind)
    BY <1>2, <1>3, ConcatSet
  <2> QED
    BY <2>1 DEF Both
<1>7. RemoveAt(s, m) = before \o behind
  BY DEF RemoveAt, before, behind
<1>8. Len(before \o behind) = Len(s) - 1
  BY <1>1, <1>2, <1>3, <1>6
<1> QED
  BY <1>2, <1>5, <1>6, <1>7, <1>8

LEMMA AmongSet ==
    ASSUME NEW D, NEW s \in Seq(D), NEW some
    PROVE  /\ Among(s, some) \in Seq(D)
           /\ ToSet(Among(s, some)) = ToSet(s) \cap some
           /\ Distinct(s) => Distinct(Among(s, some))
<1>1. Len(s) \in Nat /\ DOMAIN s = 1..Len(s) /\ \A n \in 1..Len(s) : s[n] \in D
  OBVIOUS
<1>2. PICK h : Keeps(h, s, some, D) /\ Among(s, some) = h[Len(s)]
  BY AmongInSteps
<1>3. h \in [0..Len(s) -> Seq(D)] /\ h[0] = <<>> /\ \A n \in 1..Len(s) : h[n] = Keep(h[n - 1], s[n], some)
  BY <1>2 DEF Keeps
<1> DEFINE Good(n) == /\ ToSet(h[n]) = {s[i] : i \in 1..n} \cap some
                      /\ Distinct(s) => Distinct(h[n])
           T == {n \in 0..Len(s) : ~Good(n)}
<1>4. Good(0)
  <2>1. DOMAIN h[0] = {} /\ 1..0 = {}
    BY <1>3
  <2> QED
    BY <2>1 DEF ToSet, Distinct
<1>5. ASSUME NEW n \in 1..Len(s), Good(n - 1) PROVE Good(n)
  <2>1. n - 1 \in 0..Len(s) /\ h[n - 1] \in Seq(D) /\ s[n] \in D /\ h[n] = Keep(h[n - 1], s[n], some)
    BY <1>1, <1>3
  <2>2. {s[i] : i \in 1..n} = {s[i] : i \in 1..n - 1} \cup {s[n]}
    <3>1. \A i \in 1..n : i \in 1..n - 1 \/ i = n
      BY <1>1
    <3>2. \A i \in 1..n - 1 : i \in 1..n
      BY <1>1
    <3>3. n \in 1..n
      BY <1>1
    <3> QED
      BY <3>1, <3>2, <3>3
  <2>3. CASE s[n] \notin some
    <3>1. h[n] = h[n - 1]
      BY <2>1, <2>3 DEF Keep
    <3> QED
      BY <1>5, <2>2, <2>3, <3>1
  <2>4. CASE s[n] \in some
    <3>1. h[n] = Append(h[n - 1], s[n])
      BY <2>1, <2>4 DEF Keep
    <3>2. /\ ToSet(h[n]) = ToSet(h[n - 1]) \cup {s[n]}
          /\ Distinct(h[n - 1]) /\ s[n] \notin ToSet(h[n - 1]) => Distinct(h[n])
      BY <2>1, <3>1, AppendSet
    <3>3. Distinct(s) => s[n] \notin {s[i] : i \in 1..n - 1}
      <4>1. \A i \in 1..n - 1 : i \in DOMAIN s /\ n \in DOMAIN s /\ i # n
        BY <1>1
      <4> QED
        BY <4>1 DEF Distinct
    <3> QED
      BY <1>5, <2>2, <2>4, <3>2, <3>3
  <2> QED
    BY <2>3, <2>4
<1> HIDE DEF Good
<1>6. T = {}
  <2>1. SUFFICES ASSUME T # {} PROVE FALSE
    OBVIOUS
  <2>2. T \in SUBSET Nat
    BY <1>1
  <2>3. PICK n \in T : \A k \in T : n <= k
    BY <2>1, <2>2, Least
  <2>4. n # 0
    BY <1>4
  <2>5. n \in 1..Len(s) /\ n - 1 \in 0..Len(s) /\ n - 1 \notin T
    BY <1>1, <2>3, <2>4
  <2> QED
    BY <1>5, <2>3, <2>5
<1>7. Len(s) \in 0..Len(s)
  BY <1>1
<1>8. Good(Len(s)) /\ h[Len(s)] \in Seq(D)
  BY <1>3, <1>6, <1>7
<1>9. ToSet(s) = {s[i] : i \in 1..Len(s)}
  BY <1>1 DEF ToSet
<1> QED
  BY <1>2, <1>8, <1>9 DEF Good
-----------------------------------------------------------------------------
(* The folds of the FROM clause, step by step. *)

LEMMA PartOfRange ==
    ASSUME NEW n \in Nat, NEW s \in SUBSET (1..n)
    PROVE  Cardinality(s) \in 0..n
<1>1. IsFiniteSet(1..n) /\ Cardinality(1..n) = n
  BY FS_Interval
<1>2. IsFiniteSet(s) /\ Cardinality(s) <= Cardinality(1..n)
  BY <1>1, FS_Subset
<1>3. Cardinality(s) \in Nat
  BY <1>2, FS_CardinalityType
<1> QED
  BY <1>1, <1>2, <1>3

Placed(acc, t, js) ==
    InsertAt(acc, Cardinality({i \in DOMAIN acc : FactScore(js, acc[i]) >= FactScore(js, t)}) + 1, t)

LEMMA PlacedSet ==
    ASSUME NEW js, NEW acc \in Seq(Tables), NEW t \in Tables
    PROVE  /\ Placed(acc, t, js) \in Seq(Tables) /\ Len(Placed(acc, t, js)) = Len(acc) + 1
           /\ ToSet(Placed(acc, t, js)) = ToSet(acc) \cup {t}
           /\ Distinct(acc) /\ t \notin ToSet(acc) => Distinct(Placed(acc, t, js))
<1> DEFINE before == {i \in DOMAIN acc : FactScore(js, acc[i]) >= FactScore(js, t)}
           m == Cardinality(before) + 1
<1>1. Len(acc) \in Nat /\ before \in SUBSET (1..Len(acc))
  OBVIOUS
<1>2. Placed(acc, t, js) = InsertAt(acc, m, t)
  BY DEF Placed
<1> HIDE DEF before
<1>3. m \in 1..Len(acc) + 1
  <2>1. Cardinality(before) \in 0..Len(acc)
    BY <1>1, PartOfRange
  <2> QED
    BY <1>1, <2>1
<1> HIDE DEF m
<1> QED
  BY <1>2, <1>3, InsertSet

Places(h, js, used) ==
    /\ h \in [0..Len(used) -> Seq(Tables)]
    /\ h[0] = <<>>
    /\ \A n \in 1..Len(used) : h[n] = Placed(h[n - 1], used[n], js)

LEMMA ByScoreInSteps ==
    ASSUME NEW js, NEW used \in Seq(Tables)
    PROVE  \E h : Places(h, js, used) /\ ByScore(js, used) = h[Len(used)]
<1> DEFINE N == Len(used)
           S == Seq(Tables)
           G == [p \in (1..N) \X S |-> Placed(p[2], used[p[1]], js)]
           pick == [s \in SUBSET (1..N) |-> Max(s)]
           Runs(g) == g = [s \in SUBSET (1..N) |->
                             IF s = {} THEN <<>> ELSE Placed(g[s \ {Max(s)}], used[Max(s)], js)]
           iter == CHOOSE g : Runs(g)
<1>1. N \in Nat /\ DOMAIN used = 1..N /\ \A n \in 1..N : used[n] \in Tables
  OBVIOUS
<1>2. <<>> \in S
  OBVIOUS
<1>3. G \in [(1..N) \X S -> S]
  <2>1. ASSUME NEW p \in (1..N) \X S PROVE Placed(p[2], used[p[1]], js) \in S
    BY <1>1, PlacedSet
  <2> QED
    BY <2>1
<1>4. \A n \in 1..N : \A acc \in S : G[<<n, acc>>] = Placed(acc, used[n], js)
  OBVIOUS
<1>5. \A s \in SUBSET (1..N) : s # {} => pick[s] = Max(s) /\ Max(s) \in s
  BY <1>1, MaxOfSet
<1>6. IsFiniteSet(1..N)
  BY <1>1, UpToCount
<1>7. ByScore(js, used) = iter[1..N]
  <2>1. ByScore(js, used) = iter[DOMAIN used]
    BY <1>1 DEF ByScore, Placed, FoldLeft, MapThenFoldSet
  <2> QED
    BY <1>1, <2>1
<1> HIDE DEF N, S, G, pick
<1>8. PICK g : IsFold(g, S, G, <<>>, pick, 1..N)
  <2>1. \A s \in SUBSET (1..N) : s # {} => pick[s] \in s
    BY <1>5
  <2> QED
    BY <1>2, <1>3, <1>6, <2>1, FoldExists
<1>9. Runs(g)
  <2>1. ASSUME NEW s \in SUBSET (1..N), s # {}
        PROVE  g[s] = Placed(g[s \ {Max(s)}], used[Max(s)], js)
    <3>1. pick[s] = Max(s) /\ Max(s) \in 1..N /\ s \ {Max(s)} \in SUBSET (1..N)
      BY <1>5, <2>1
    <3>2. g[s \ {Max(s)}] \in S /\ g[s] = G[<<Max(s), g[s \ {Max(s)}]>>]
      BY <1>8, <2>1, <3>1 DEF IsFold
    <3> QED
      BY <1>4, <3>1, <3>2
  <2> QED
    BY <1>8, <2>1 DEF IsFold
<1>10. Runs(iter)
  BY <1>9
<1> HIDE DEF iter
<1>11. FoldsUp(iter, S, G, <<>>, N)
  <2>1. iter[{}] = <<>>
    BY <1>10
  <2>2. ASSUME NEW s \in SUBSET (1..N), s # {}, iter[s \ {Max(s)}] \in S
        PROVE  iter[s] = G[<<Max(s), iter[s \ {Max(s)}]>>]
    <3>1. Max(s) \in 1..N
      BY <1>5, <2>2
    <3>2. iter[s] = Placed(iter[s \ {Max(s)}], used[Max(s)], js)
      BY <1>10, <2>2
    <3> QED
      BY <1>4, <2>2, <3>1, <3>2
  <2> QED
    BY <2>1, <2>2 DEF FoldsUp
<1>12. PICK h : Steps(h, S, G, <<>>, N) /\ iter[1..N] = h[N]
  <2>1. N \in Nat
    BY <1>1
  <2> HIDE DEF Runs
  <2>2. InSteps(iter, S, G, <<>>, N)
    BY <1>2, <1>3, <1>11, <2>1, FoldToSteps
  <2> QED
    BY <2>2 DEF InSteps
<1>13. ASSUME NEW n \in 1..N PROVE h[n] = Placed(h[n - 1], used[n], js)
  <2>1. n - 1 \in 0..N
    BY <1>1
  <2>2. h[n - 1] \in S /\ h[n] = G[<<n, h[n - 1]>>]
    BY <1>12, <2>1 DEF Steps
  <2> QED
    BY <1>4, <2>2
<1>14. h \in [0..N -> S] /\ h[0] = <<>>
  BY <1>12 DEF Steps
<1>15. Places(h, js, used)
  BY <1>13, <1>14 DEF Places, N, S
<1> QED
  BY <1>7, <1>12, <1>15 DEF N

Met(acc, j, t) ==
    IF t \in Ends(j) /\ ~Contains(acc, Other(j, t)) THEN Append(acc, Other(j, t)) ELSE acc

LEMMA MetSet ==
    ASSUME NEW acc \in Seq(Tables), NEW j \in Join, NEW t \in Tables
    PROVE  /\ Met(acc, j, t) \in Seq(Tables)
           /\ ToSet(Met(acc, j, t)) = ToSet(acc) \cup (IF t \in Ends(j) THEN {Other(j, t)} ELSE {})
           /\ Distinct(acc) => Distinct(Met(acc, j, t))
<1>1. Other(j, t) \in Tables
  BY DEF Other, Join
<1>2. Contains(acc, Other(j, t)) <=> Other(j, t) \in ToSet(acc)
  <2>1. DOMAIN acc = 1..Len(acc)
    OBVIOUS
  <2> QED
    BY <2>1 DEF Contains, ToSet
<1>3. CASE t \in Ends(j) /\ Other(j, t) \notin ToSet(acc)
  <2>1. Met(acc, j, t) = Append(acc, Other(j, t))
    BY <1>2, <1>3 DEF Met
  <2> QED
    BY <1>1, <1>3, <2>1, AppendSet
<1>4. CASE ~(t \in Ends(j) /\ Other(j, t) \notin ToSet(acc))
  <2>1. Met(acc, j, t) = acc
    BY <1>2, <1>4 DEF Met
  <2>2. t \in Ends(j) => ToSet(acc) \cup {Other(j, t)} = ToSet(acc)
    BY <1>4
  <2> QED
    BY <2>1, <2>2
<1> QED
  BY <1>3, <1>4

Meets(h, js, t) ==
    /\ h \in [0..Len(js) -> Seq(Tables)]
    /\ h[0] = <<>>
    /\ \A n \in 1..Len(js) : h[n] = Met(h[n - 1], js[n], t)

LEMMA NeighboursInSteps ==
    ASSUME NEW js \in Seq(Join), NEW t \in Tables
    PROVE  \E h : Meets(h, js, t) /\ Neighbours(js, t) = h[Len(js)]
<1> DEFINE N == Len(js)
           S == Seq(Tables)
           G == [p \in (1..N) \X S |-> Met(p[2], js[p[1]], t)]
           pick == [s \in SUBSET (1..N) |-> Max(s)]
           Runs(g) == g = [s \in SUBSET (1..N) |->
                             IF s = {} THEN <<>> ELSE Met(g[s \ {Max(s)}], js[Max(s)], t)]
           iter == CHOOSE g : Runs(g)
<1>1. N \in Nat /\ DOMAIN js = 1..N /\ \A n \in 1..N : js[n] \in Join
  OBVIOUS
<1>2. <<>> \in S
  OBVIOUS
<1>3. G \in [(1..N) \X S -> S]
  <2>1. ASSUME NEW p \in (1..N) \X S PROVE Met(p[2], js[p[1]], t) \in S
    BY <1>1, MetSet
  <2> QED
    BY <2>1
<1>4. \A n \in 1..N : \A acc \in S : G[<<n, acc>>] = Met(acc, js[n], t)
  OBVIOUS
<1>5. \A s \in SUBSET (1..N) : s # {} => pick[s] = Max(s) /\ Max(s) \in s
  BY <1>1, MaxOfSet
<1>6. IsFiniteSet(1..N)
  BY <1>1, UpToCount
<1>7. Neighbours(js, t) = iter[1..N]
  <2>1. Neighbours(js, t) = iter[DOMAIN js]
    BY <1>1 DEF Neighbours, Met, FoldLeft, MapThenFoldSet
  <2> QED
    BY <1>1, <2>1
<1> HIDE DEF N, S, G, pick
<1>8. PICK g : IsFold(g, S, G, <<>>, pick, 1..N)
  <2>1. \A s \in SUBSET (1..N) : s # {} => pick[s] \in s
    BY <1>5
  <2> QED
    BY <1>2, <1>3, <1>6, <2>1, FoldExists
<1>9. Runs(g)
  <2>1. ASSUME NEW s \in SUBSET (1..N), s # {}
        PROVE  g[s] = Met(g[s \ {Max(s)}], js[Max(s)], t)
    <3>1. pick[s] = Max(s) /\ Max(s) \in 1..N /\ s \ {Max(s)} \in SUBSET (1..N)
      BY <1>5, <2>1
    <3>2. g[s \ {Max(s)}] \in S /\ g[s] = G[<<Max(s), g[s \ {Max(s)}]>>]
      BY <1>8, <2>1, <3>1 DEF IsFold
    <3> QED
      BY <1>4, <3>1, <3>2
  <2> QED
    BY <1>8, <2>1 DEF IsFold
<1>10. Runs(iter)
  BY <1>9
<1> HIDE DEF iter
<1>11. FoldsUp(iter, S, G, <<>>, N)
  <2>1. iter[{}] = <<>>
    BY <1>10
  <2>2. ASSUME NEW s \in SUBSET (1..N), s # {}, iter[s \ {Max(s)}] \in S
        PROVE  iter[s] = G[<<Max(s), iter[s \ {Max(s)}]>>]
    <3>1. Max(s) \in 1..N
      BY <1>5, <2>2
    <3>2. iter[s] = Met(iter[s \ {Max(s)}], js[Max(s)], t)
      BY <1>10, <2>2
    <3> QED
      BY <1>4, <2>2, <3>1, <3>2
  <2> QED
    BY <2>1, <2>2 DEF FoldsUp
<1>12. PICK h : Steps(h, S, G, <<>>, N) /\ iter[1..N] = h[N]
  <2>1. N \in Nat
    BY <1>1
  <2> HIDE DEF Runs
  <2>2. InSteps(iter, S, G, <<>>, N)
    BY <1>2, <1>3, <1>11, <2>1, FoldToSteps
  <2> QED
    BY <2>2 DEF InSteps
<1>13. ASSUME NEW n \in 1..N PROVE h[n] = Met(h[n - 1], js[n], t)
  <2>1. n - 1 \in 0..N
    BY <1>1
  <2>2. h[n - 1] \in S /\ h[n] = G[<<n, h[n - 1]>>]
    BY <1>12, <2>1 DEF Steps
  <2> QED
    BY <1>4, <2>2
<1>14. h \in [0..N -> S] /\ h[0] = <<>>
  BY <1>12 DEF Steps
<1>15. Meets(h, js, t)
  BY <1>13, <1>14 DEF Meets, N, S
<1> QED
  BY <1>7, <1>12, <1>15 DEF N
\* What holds of the first and passes on holds of all.
LEMMA UpTheRange ==
    ASSUME NEW N \in Nat, NEW P, 0 \in P, \A n \in 1..N : n - 1 \in P => n \in P
    PROVE  \A n \in 0..N : n \in P
<1> DEFINE T == {n \in 0..N : n \notin P}
<1>1. SUFFICES ASSUME T # {} PROVE FALSE
  OBVIOUS
<1>2. T \in SUBSET Nat
  OBVIOUS
<1>3. PICK n \in T : \A k \in T : n <= k
  BY <1>1, <1>2, Least
<1>4. n # 0
  BY <1>3
<1>5. n \in 1..N /\ n - 1 \in 0..N /\ n - 1 \notin T
  BY <1>3, <1>4
<1> QED
  BY <1>3, <1>5

LEMMA OneMore ==
    ASSUME NEW s, NEW n \in Nat, n >= 1
    PROVE  {s[i] : i \in 1..n} = {s[i] : i \in 1..n - 1} \cup {s[n]}
<1>1. \A i \in 1..n : i \in 1..n - 1 \/ i = n
  OBVIOUS
<1>2. \A i \in 1..n - 1 : i \in 1..n
  OBVIOUS
<1>3. n \in 1..n
  OBVIOUS
<1> QED
  BY <1>1, <1>2, <1>3

\* The sort keeps what there is to sort.
LEMMA ByScoreIs ==
    ASSUME NEW js, NEW used \in Seq(Tables), Distinct(used)
    PROVE  /\ ByScore(js, used) \in Seq(Tables) /\ Len(ByScore(js, used)) = Len(used)
           /\ ToSet(ByScore(js, used)) = ToSet(used)
           /\ Distinct(ByScore(js, used))
<1>1. Len(used) \in Nat /\ DOMAIN used = 1..Len(used) /\ \A n \in 1..Len(used) : used[n] \in Tables
  OBVIOUS
<1>2. PICK h : Places(h, js, used) /\ ByScore(js, used) = h[Len(used)]
  BY ByScoreInSteps
<1>3. h \in [0..Len(used) -> Seq(Tables)] /\ h[0] = <<>>
      /\ \A n \in 1..Len(used) : h[n] = Placed(h[n - 1], used[n], js)
  BY <1>2 DEF Places
<1> DEFINE Good(n) == /\ Len(h[n]) = n
                      /\ ToSet(h[n]) = {used[i] : i \in 1..n}
                      /\ Distinct(h[n])
           P == {n \in 0..Len(used) : Good(n)}
<1>4. 0 \in P
  <2>1. DOMAIN h[0] = {} /\ 1..0 = {} /\ Len(h[0]) = 0
    BY <1>3
  <2>2. 0 \in 0..Len(used)
    BY <1>1
  <2> QED
    BY <2>1, <2>2 DEF ToSet, Distinct
<1>5. ASSUME NEW n \in 1..Len(used), n - 1 \in P PROVE n \in P
  <2>1. n - 1 \in 0..Len(used) /\ n \in 0..Len(used) /\ n \in Nat /\ n >= 1
    BY <1>1
  <2>2. h[n - 1] \in Seq(Tables) /\ used[n] \in Tables /\ h[n] = Placed(h[n - 1], used[n], js)
    BY <1>1, <1>3, <2>1
  <2>3. Len(h[n - 1]) = n - 1 /\ ToSet(h[n - 1]) = {used[i] : i \in 1..n - 1} /\ Distinct(h[n - 1])
    BY <1>5
  <2>4. used[n] \notin {used[i] : i \in 1..n - 1}
    <3>1. \A i \in 1..n - 1 : i \in DOMAIN used /\ n \in DOMAIN used /\ i # n
      BY <1>1
    <3> QED
      BY <3>1 DEF Distinct
  <2>5. Len(h[n]) = Len(h[n - 1]) + 1 /\ ToSet(h[n]) = ToSet(h[n - 1]) \cup {used[n]} /\ Distinct(h[n])
    <3> DEFINE acc == h[n - 1]
    <3>1. acc \in Seq(Tables) /\ used[n] \notin ToSet(acc) /\ Distinct(acc)
      BY <2>2, <2>3, <2>4
    <3> HIDE DEF acc
    <3>2. /\ Len(Placed(acc, used[n], js)) = Len(acc) + 1
          /\ ToSet(Placed(acc, used[n], js)) = ToSet(acc) \cup {used[n]}
          /\ Distinct(Placed(acc, used[n], js))
      BY <2>2, <3>1, PlacedSet
    <3> QED
      BY <2>2, <3>2 DEF acc
  <2>6. {used[i] : i \in 1..n} = {used[i] : i \in 1..n - 1} \cup {used[n]}
    BY <2>1, OneMore
  <2>7. Len(h[n]) = n
    BY <2>1, <2>3, <2>5
  <2> QED
    BY <2>1, <2>3, <2>5, <2>6, <2>7
<1> HIDE DEF P
<1>6. \A n \in 0..Len(used) : n \in P
  BY <1>1, <1>4, <1>5, UpTheRange
<1>7. Len(used) \in 0..Len(used)
  BY <1>1
<1>8. Good(Len(used)) /\ h[Len(used)] \in Seq(Tables)
  BY <1>3, <1>6, <1>7 DEF P
<1>9. ToSet(used) = {used[i] : i \in 1..Len(used)}
  BY <1>1 DEF ToSet
<1> QED
  BY <1>2, <1>8, <1>9

Linked(js, t, u) == \E i \in DOMAIN js : t \in Ends(js[i]) /\ u = Other(js[i], t)

LEMMA NeighboursIs ==
    ASSUME NEW js \in Seq(Join), NEW t \in Tables
    PROVE  /\ Neighbours(js, t) \in Seq(Tables) /\ Distinct(Neighbours(js, t))
           /\ ToSet(Neighbours(js, t)) = {u \in Tables : Linked(js, t, u)}
<1>1. Len(js) \in Nat /\ DOMAIN js = 1..Len(js) /\ \A n \in 1..Len(js) : js[n] \in Join
  OBVIOUS
<1>2. PICK h : Meets(h, js, t) /\ Neighbours(js, t) = h[Len(js)]
  BY NeighboursInSteps
<1>3. h \in [0..Len(js) -> Seq(Tables)] /\ h[0] = <<>>
      /\ \A n \in 1..Len(js) : h[n] = Met(h[n - 1], js[n], t)
  BY <1>2 DEF Meets
<1> DEFINE far(n) == {u \in Tables : \E i \in 1..n : t \in Ends(js[i]) /\ u = Other(js[i], t)}
           Good(n) == ToSet(h[n]) = far(n) /\ Distinct(h[n])
           P == {n \in 0..Len(js) : Good(n)}
<1>4. 0 \in P
  <2>1. DOMAIN h[0] = {} /\ 1..0 = {}
    BY <1>3
  <2>2. 0 \in 0..Len(js)
    BY <1>1
  <2> QED
    BY <2>1, <2>2 DEF ToSet, Distinct
<1>5. ASSUME NEW n \in 1..Len(js), n - 1 \in P PROVE n \in P
  <2>1. n - 1 \in 0..Len(js) /\ n \in 0..Len(js) /\ n \in Nat /\ n >= 1
    BY <1>1
  <2>2. h[n - 1] \in Seq(Tables) /\ js[n] \in Join /\ h[n] = Met(h[n - 1], js[n], t)
    BY <1>1, <1>3, <2>1
  <2>3. ToSet(h[n - 1]) = far(n - 1) /\ Distinct(h[n - 1])
    BY <1>5
  <2>4. /\ ToSet(h[n]) = ToSet(h[n - 1]) \cup (IF t \in Ends(js[n]) THEN {Other(js[n], t)} ELSE {})
        /\ Distinct(h[n])
    BY <2>2, <2>3, MetSet
  <2>5. far(n) = far(n - 1) \cup (IF t \in Ends(js[n]) THEN {Other(js[n], t)} ELSE {})
    <3>1. \A i \in 1..n : i \in 1..n - 1 \/ i = n
      BY <2>1
    <3>2. \A i \in 1..n - 1 : i \in 1..n
      BY <2>1
    <3>3. n \in 1..n
      BY <2>1
    <3>4. Other(js[n], t) \in Tables
      BY <2>2 DEF Other, Join
    <3> QED
      BY <3>1, <3>2, <3>3, <3>4
  <2> QED
    BY <2>1, <2>3, <2>4, <2>5
<1> HIDE DEF P
<1>6. \A n \in 0..Len(js) : n \in P
  BY <1>1, <1>4, <1>5, UpTheRange
<1>7. Len(js) \in 0..Len(js)
  BY <1>1
<1>8. Good(Len(js)) /\ h[Len(js)] \in Seq(Tables)
  BY <1>3, <1>6, <1>7 DEF P
<1> QED
  BY <1>1, <1>2, <1>8 DEF Linked

LEMMA LinkedBack ==
    ASSUME NEW js \in Seq(Join), NEW t \in Tables, NEW u \in Tables, Linked(js, t, u)
    PROVE  Linked(js, u, t)
<1>1. PICK i \in DOMAIN js : t \in Ends(js[i]) /\ u = Other(js[i], t)
  BY DEF Linked
<1>2. u \in Ends(js[i]) /\ t = Other(js[i], u)
  BY <1>1 DEF Ends, Other
<1> QED
  BY <1>2 DEF Linked

\* The connected tables are the least set that holds the root and its links.
LEMMA ConnectedIs ==
    ASSUME NEW js \in Seq(Join), NEW t \in Tables
    PROVE  /\ Connected(js, t) \in SUBSET Tables /\ t \in Connected(js, t)
           /\ \A u \in Connected(js, t), v \in Tables : Linked(js, u, v) => v \in Connected(js, t)
           /\ \A C \in SUBSET Tables :
                t \in C /\ (\A u \in C, v \in Tables : Linked(js, u, v) => v \in C) => Connected(js, t) \subseteq C
<1> DEFINE edges == UNION {{<<js[i].from, js[i].to>>, <<js[i].to, js[i].from>>} : i \in DOMAIN js}
<1>1. \A i \in DOMAIN js : js[i].from \in Tables /\ js[i].to \in Tables
  <2>1. \A i \in DOMAIN js : js[i] \in Join
    OBVIOUS
  <2> QED
    BY <2>1 DEF Join
<1>2. edges \in SUBSET (Tables \X Tables)
  BY <1>1
<1>3. \A u, v \in Tables : <<u, v>> \in edges <=> Linked(js, u, v)
  <2>1. ASSUME NEW u \in Tables, NEW v \in Tables, NEW i \in DOMAIN js
        PROVE  <<u, v>> \in {<<js[i].from, js[i].to>>, <<js[i].to, js[i].from>>}
                 <=> u \in Ends(js[i]) /\ v = Other(js[i], u)
    BY DEF Ends, Other
  <2> QED
    BY <2>1 DEF Linked
<1>4. Connected(js, t) = Reach(edges, {t})
  BY DEF Connected
<1> HIDE DEF edges
<1>5. /\ Reach(edges, {t}) \in SUBSET Tables /\ {t} \subseteq Reach(edges, {t})
      /\ Closed(edges, Reach(edges, {t}))
      /\ \A C \in SUBSET Tables : {t} \subseteq C /\ Closed(edges, C) => Reach(edges, {t}) \subseteq C
  BY <1>2, ReachIs
<1>6. \A u \in Reach(edges, {t}), v \in Tables : Linked(js, u, v) => v \in Reach(edges, {t})
  BY <1>3, <1>5 DEF Closed
<1>7. ASSUME NEW C \in SUBSET Tables, t \in C, \A u \in C, v \in Tables : Linked(js, u, v) => v \in C
      PROVE  Reach(edges, {t}) \subseteq C
  <2>1. Closed(edges, C)
    <3>1. ASSUME NEW e \in edges, e[1] \in C PROVE e[2] \in C
      <4>1. e[1] \in Tables /\ e[2] \in Tables /\ e = <<e[1], e[2]>>
        BY <1>2
      <4>2. Linked(js, e[1], e[2])
        BY <1>3, <4>1
      <4> QED
        BY <1>7, <3>1, <4>1, <4>2
    <3> QED
      BY <3>1 DEF Closed
  <2> QED
    BY <1>5, <1>7, <2>1
<1> QED
  BY <1>4, <1>5, <1>6, <1>7
-----------------------------------------------------------------------------
(* The search from the root: a tree over the connected tables. *)

LEMMA Iterated ==
    ASSUME NEW S, NEW f \in [S -> S], NEW x \in S, NEW N \in Nat, NEW c,
           c[0] = x, \A n \in 1..N : c[n - 1] \in S => c[n] = f[c[n - 1]]
    PROVE  \A n \in 0..N : c[n] \in S
<1> DEFINE P == {n \in 0..N : c[n] \in S}
<1>1. 0 \in P
  OBVIOUS
<1>2. ASSUME NEW n \in 1..N, n - 1 \in P PROVE n \in P
  <2>1. c[n - 1] \in S /\ n \in 0..N
    BY <1>2
  <2> QED
    BY <2>1
<1> HIDE DEF P
<1>3. \A n \in 0..N : n \in P
  BY <1>1, <1>2, UpTheRange
<1> QED
  BY <1>3 DEF P

Visits == [queue : Seq(Tables), parent : UNION {[U -> Tables \cup {NoTable}] : U \in SUBSET Tables}]

New(js, was) == Among(Neighbours(js, Head(was.queue)), Tables \ DOMAIN was.parent)

HungFrom(js, was) == [t \in DOMAIN was.parent \cup ToSet(New(js, was)) |->
                        IF t \in ToSet(New(js, was)) THEN Head(was.queue) ELSE was.parent[t]]

Visit(js, was) ==
    IF was.queue = <<>> THEN was
    ELSE [queue |-> Tail(was.queue) \o New(js, was), parent |-> HungFrom(js, was)]

FirstVisit(root) == [queue |-> <<root>>, parent |-> [t \in {root} |-> NoTable]]

LEMMA VisitDomain ==
    ASSUME NEW was \in Visits
    PROVE  /\ was.queue \in Seq(Tables) /\ DOMAIN was.parent \in SUBSET Tables
           /\ was.parent \in [DOMAIN was.parent -> Tables \cup {NoTable}]
<1>1. was.queue \in Seq(Tables) /\ was.parent \in UNION {[U -> Tables \cup {NoTable}] : U \in SUBSET Tables}
  BY DEF Visits
<1>2. PICK U \in SUBSET Tables : was.parent \in [U -> Tables \cup {NoTable}]
  BY <1>1
<1> QED
  BY <1>1, <1>2

LEMMA NewIs ==
    ASSUME NEW js \in Seq(Join), NEW was \in Visits, was.queue # <<>>
    PROVE  /\ Head(was.queue) \in Tables
           /\ New(js, was) \in Seq(Tables) /\ Distinct(New(js, was))
           /\ ToSet(New(js, was)) = {u \in Tables : Linked(js, Head(was.queue), u)} \ DOMAIN was.parent
<1> DEFINE cur == Head(was.queue)
           some == Tables \ DOMAIN was.parent
           near == Neighbours(js, cur)
<1>1. cur \in Tables
  BY VisitDomain, TailSet
<1>2. near \in Seq(Tables) /\ Distinct(near) /\ ToSet(near) = {u \in Tables : Linked(js, cur, u)}
  BY <1>1, NeighboursIs
<1>3. New(js, was) = Among(near, some)
  BY DEF New
<1> HIDE DEF near, some
<1>4. Among(near, some) \in Seq(Tables) /\ ToSet(Among(near, some)) = ToSet(near) \cap some
      /\ (Distinct(near) => Distinct(Among(near, some)))
  BY <1>2, AmongSet
<1> QED
  BY <1>1, <1>2, <1>3, <1>4 DEF some

LEMMA VisitType ==
    ASSUME NEW js \in Seq(Join), NEW was \in Visits
    PROVE  Visit(js, was) \in Visits
<1>1. CASE was.queue = <<>>
  BY <1>1 DEF Visit
<1>2. CASE was.queue # <<>>
  <2> DEFINE new == New(js, was)
  <2>1. Head(was.queue) \in Tables /\ new \in Seq(Tables)
        /\ ToSet(new) \subseteq Tables
    BY <1>2, NewIs
  <2>2. Tail(was.queue) \in Seq(Tables)
    BY <1>2, VisitDomain, TailSet
  <2>3. Tail(was.queue) \o new \in Seq(Tables)
    BY <2>1, <2>2
  <2>4. DOMAIN was.parent \in SUBSET Tables /\ was.parent \in [DOMAIN was.parent -> Tables \cup {NoTable}]
    BY VisitDomain
  <2> HIDE DEF new
  <2>5. HungFrom(js, was) \in [DOMAIN was.parent \cup ToSet(new) -> Tables \cup {NoTable}]
    BY <2>1, <2>4 DEF HungFrom, new
  <2>6. DOMAIN was.parent \cup ToSet(new) \in SUBSET Tables
    BY <2>1, <2>4
  <2>7. Visit(js, was) = [queue |-> Tail(was.queue) \o new, parent |-> HungFrom(js, was)]
    BY <1>2 DEF Visit, new
  <2>8. HungFrom(js, was) \in UNION {[U -> Tables \cup {NoTable}] : U \in SUBSET Tables}
    BY <2>5, <2>6
  <2> QED
    BY <2>3, <2>7, <2>8 DEF Visits
<1> QED
  BY <1>1, <1>2

Search(g, js, root) ==
    /\ g \in [0..Cardinality(Tables) -> Visits]
    /\ g[0] = FirstVisit(root)
    /\ \A n \in 1..Cardinality(Tables) : g[n] = Visit(js, g[n - 1])

LEMMA ParentsInSteps ==
    ASSUME NEW js \in Seq(Join), NEW root \in Tables
    PROVE  \E g : Search(g, js, root) /\ Parents(js, root) = g[Cardinality(Tables)].parent
<1> DEFINE N == Cardinality(Tables)
           step == [was \in Visits |-> Visit(js, was)]
           Runs(c) == c = [n \in 0..N |->
                             IF n = 0 THEN FirstVisit(root) ELSE Visit(js, c[n - 1])]
           visit == CHOOSE c : Runs(c)
<1>1. N \in Nat
  BY GraphAssumption, FS_CardinalityType
<1>2. step \in [Visits -> Visits]
  BY VisitType
<1>3. FirstVisit(root) \in Visits
  <2>1. <<root>> \in Seq(Tables)
    OBVIOUS
  <2>2. [t \in {root} |-> NoTable] \in [{root} -> Tables \cup {NoTable}] /\ {root} \in SUBSET Tables
    OBVIOUS
  <2> QED
    BY <2>1, <2>2 DEF FirstVisit, Visits
<1>4. Parents(js, root) = visit[N].parent
  BY DEF Parents, Visit, New, HungFrom, FirstVisit
<1>5. PICK g : g \in Iterates(Visits, step, FirstVisit(root), N)
  BY <1>1, <1>2, <1>3, IteratesExist
<1>6. g \in [0..N -> Visits] /\ g[0] = FirstVisit(root) /\ \A n \in 1..N : g[n] = step[g[n - 1]]
  BY <1>5 DEF Iterates
<1>7. \A n \in 1..N : g[n - 1] \in Visits /\ g[n] = Visit(js, g[n - 1])
  <2>1. ASSUME NEW n \in 1..N PROVE n - 1 \in 0..N
    BY <1>1
  <2> QED
    BY <1>6, <2>1
<1>8. Runs(g)
  <2>1. ASSUME NEW n \in 0..N, n # 0 PROVE n \in 1..N
    BY <1>1, <2>1
  <2> QED
    BY <1>6, <1>7, <2>1
<1>9. Runs(visit)
  BY <1>8
<1> HIDE DEF visit
<1>10. DOMAIN visit = 0..N /\ visit[0] = FirstVisit(root)
       /\ \A n \in 1..N : visit[n] = Visit(js, visit[n - 1])
  <2>1. \A n \in 0..N : visit[n] = IF n = 0 THEN FirstVisit(root) ELSE Visit(js, visit[n - 1])
    BY <1>9
  <2>2. \A n \in 1..N : n \in 0..N /\ n # 0
    BY <1>1
  <2>3. 0 \in 0..N
    BY <1>1
  <2> HIDE DEF Runs
  <2>4. visit[0] = FirstVisit(root)
    BY <2>1, <2>3
  <2>5. \A n \in 1..N : visit[n] = Visit(js, visit[n - 1])
    BY <2>1, <2>2
  <2>6. DOMAIN visit = 0..N
    BY <1>9 DEF Runs
  <2> QED
    BY <2>4, <2>5, <2>6
<1>11. \A n \in 1..N : visit[n - 1] \in Visits => visit[n] = step[visit[n - 1]]
  BY <1>10
<1>12. \A n \in 0..N : visit[n] \in Visits
  <2> HIDE DEF step, Runs, N
  <2> QED
    BY <1>1, <1>2, <1>3, <1>10, <1>11, Iterated
<1>13. visit \in [0..N -> Visits]
  <2>1. visit = [n \in 0..N |-> visit[n]]
    BY <1>9
  <2> HIDE DEF Runs
  <2> QED
    BY <1>12, <2>1
<1>14. Search(visit, js, root)
  BY <1>10, <1>13 DEF Search
<1> QED
  BY <1>4, <1>14

\* What is known of the search after n visits: who was visited, and how far
\* each table hangs from the root.
Searched(js, root, n, at, seen, rank) ==
    LET met == DOMAIN at.parent IN
    /\ seen \in SUBSET Tables /\ rank \in [Tables -> 0..n]
    /\ met = seen \cup ToSet(at.queue) /\ seen \cap ToSet(at.queue) = {} /\ Distinct(at.queue)
    /\ at.queue = <<>> \/ Cardinality(seen) = n
    /\ \A u \in seen, v \in Tables : Linked(js, u, v) => v \in met
    /\ root \in met /\ met \subseteq Connected(js, root)
    /\ at.parent[root] = NoTable
    /\ \A t \in met : t # root =>
         at.parent[t] \in met /\ Linked(js, at.parent[t], t) /\ rank[at.parent[t]] < rank[t]

LEMMA SearchedFirst ==
    ASSUME NEW js \in Seq(Join), NEW root \in Tables
    PROVE  Searched(js, root, 0, FirstVisit(root), {}, [t \in Tables |-> 0])
<1> DEFINE at == FirstVisit(root)
<1>1. at.queue = <<root>> /\ at.parent = [t \in {root} |-> NoTable]
  BY DEF FirstVisit
<1> HIDE DEF at
<1>2. ToSet(at.queue) = {root} /\ Distinct(at.queue)
  BY <1>1, OneSet
<1>3. Cardinality({}) = 0
  BY FS_EmptySet
<1>4. DOMAIN at.parent = {root} /\ at.parent[root] = NoTable
  BY <1>1
<1>5. {root} \subseteq Connected(js, root)
  BY ConnectedIs
<1> QED
  BY <1>2, <1>3, <1>4, <1>5 DEF Searched, at

LEMMA SearchedNext ==
    ASSUME NEW js \in Seq(Join), NEW root \in Tables, NEW n \in Nat, NEW at \in Visits,
           NEW seen, NEW rank, Searched(js, root, n, at, seen, rank), at.queue # <<>>
    PROVE  Searched(js, root, n + 1, Visit(js, at), seen \cup {Head(at.queue)},
                    [t \in Tables |-> IF t \in ToSet(New(js, at)) THEN n + 1 ELSE rank[t]])
<1> DEFINE cur == Head(at.queue)
           new == New(js, at)
           to == Visit(js, at)
           met == DOMAIN at.parent
           rank1 == [t \in Tables |-> IF t \in ToSet(new) THEN n + 1 ELSE rank[t]]
<1>1. /\ seen \in SUBSET Tables /\ rank \in [Tables -> 0..n]
      /\ met = seen \cup ToSet(at.queue) /\ seen \cap ToSet(at.queue) = {} /\ Distinct(at.queue)
      /\ Cardinality(seen) = n
      /\ \A u \in seen, v \in Tables : Linked(js, u, v) => v \in met
      /\ root \in met /\ met \subseteq Connected(js, root)
      /\ at.parent[root] = NoTable
      /\ \A t \in met : t # root =>
           at.parent[t] \in met /\ Linked(js, at.parent[t], t) /\ rank[at.parent[t]] < rank[t]
  BY DEF Searched
<1>2. at.queue \in Seq(Tables) /\ met \in SUBSET Tables
  BY VisitDomain
<1>3. /\ cur \in Tables /\ Tail(at.queue) \in Seq(Tables)
      /\ ToSet(at.queue) = {cur} \cup ToSet(Tail(at.queue))
      /\ Distinct(Tail(at.queue)) /\ cur \notin ToSet(Tail(at.queue))
  BY <1>1, <1>2, TailSet
<1>4. /\ new \in Seq(Tables) /\ Distinct(new)
      /\ ToSet(new) = {u \in Tables : Linked(js, cur, u)} \ met
  BY NewIs
<1>5. /\ to.queue = Tail(at.queue) \o new
      /\ to.parent = [t \in met \cup ToSet(new) |-> IF t \in ToSet(new) THEN cur ELSE at.parent[t]]
  BY DEF Visit, HungFrom
<1> HIDE DEF cur, new, to, met
<1>6. DOMAIN to.parent = met \cup ToSet(new)
  BY <1>5
<1>7. \A t \in met : to.parent[t] = at.parent[t]
  BY <1>4, <1>5
<1>8. \A t \in ToSet(new) : to.parent[t] = cur
  BY <1>5
<1>9. /\ ToSet(to.queue) = ToSet(Tail(at.queue)) \cup ToSet(new)
      /\ Distinct(to.queue)
  <2>1. Both(Tables, Tail(at.queue), new)
    BY <1>3, <1>4, ConcatSet
  <2>2. ToSet(Tail(at.queue)) \cap ToSet(new) = {}
    BY <1>1, <1>3, <1>4
  <2> QED
    BY <1>3, <1>4, <1>5, <2>1, <2>2 DEF Both
<1>10. cur \in met /\ cur \notin seen
  BY <1>1, <1>3
<1>11. Cardinality(seen \cup {cur}) = n + 1
  <2>1. IsFiniteSet(seen)
    BY <1>1, GraphAssumption, FS_Subset
  <2> QED
    BY <1>1, <1>10, <2>1, FS_AddElement
<1>12. rank1 \in [Tables -> 0..n + 1]
  <2>1. \A t \in Tables : rank[t] \in 0..n + 1
    BY <1>1
  <2>2. n + 1 \in 0..n + 1
    OBVIOUS
  <2> QED
    BY <2>1, <2>2
<1>13. /\ \A t \in met : rank1[t] = rank[t]
       /\ \A t \in ToSet(new) : rank1[t] = n + 1
       /\ \A t \in met : rank[t] \in Nat /\ rank[t] < n + 1
  <2>1. \A t \in Tables : rank[t] \in Nat /\ rank[t] < n + 1
    BY <1>1
  <2>2. \A t \in met : t \in Tables /\ t \notin ToSet(new)
    BY <1>2, <1>4
  <2>3. \A t \in ToSet(new) : t \in Tables
    BY <1>4
  <2> QED
    BY <2>1, <2>2, <2>3
<1> HIDE DEF rank1
<1>14. DOMAIN to.parent = (seen \cup {cur}) \cup ToSet(to.queue)
  BY <1>1, <1>3, <1>6, <1>9
<1>15. (seen \cup {cur}) \cap ToSet(to.queue) = {}
  <2>1. \A t \in seen : t \in met /\ t \notin ToSet(Tail(at.queue))
    BY <1>1, <1>3
  <2>2. cur \notin ToSet(new) /\ cur \notin ToSet(Tail(at.queue))
    BY <1>3, <1>4, <1>10
  <2>3. \A t \in met : t \notin ToSet(new)
    BY <1>4
  <2> QED
    BY <1>9, <2>1, <2>2, <2>3
<1>16. ASSUME NEW u \in seen \cup {cur}, NEW v \in Tables, Linked(js, u, v)
       PROVE  v \in DOMAIN to.parent
  <2>1. CASE u \in seen
    BY <1>1, <1>6, <1>16, <2>1
  <2>2. CASE u = cur
    BY <1>4, <1>6, <1>16, <2>2
  <2> QED
    BY <2>1, <2>2
<1>17. DOMAIN to.parent \subseteq Connected(js, root)
  <2>1. cur \in Connected(js, root)
    BY <1>1, <1>10
  <2>2. \A v \in Tables : Linked(js, cur, v) => v \in Connected(js, root)
    BY <2>1, ConnectedIs
  <2> QED
    BY <1>1, <1>4, <1>6, <2>2
<1>18. ASSUME NEW t \in DOMAIN to.parent, t # root
       PROVE  to.parent[t] \in DOMAIN to.parent /\ Linked(js, to.parent[t], t)
              /\ rank1[to.parent[t]] < rank1[t]
  <2>1. CASE t \in met
    <3>1. to.parent[t] = at.parent[t] /\ at.parent[t] \in met
      BY <1>1, <1>7, <1>18, <2>1
    <3> QED
      BY <1>1, <1>6, <1>13, <1>18, <2>1, <3>1
  <2>2. CASE t \notin met
    <3>1. t \in ToSet(new) /\ to.parent[t] = cur
      BY <1>6, <1>8, <2>2
    <3>2. Linked(js, cur, t)
      BY <1>4, <3>1
    <3>3. rank1[cur] < rank1[t]
      BY <1>10, <1>13, <3>1
    <3> QED
      BY <1>6, <1>10, <3>1, <3>2, <3>3
  <2> QED
    BY <2>1, <2>2
<1>19. root \in DOMAIN to.parent /\ to.parent[root] = NoTable
  BY <1>1, <1>6, <1>7
<1>20. seen \cup {cur} \in SUBSET Tables
  BY <1>1, <1>3
<1>21. Searched(js, root, n + 1, to, seen \cup {cur}, rank1)
  BY <1>9, <1>11, <1>12, <1>14, <1>15, <1>16, <1>17, <1>18, <1>19, <1>20 DEF Searched
<1> QED
  BY <1>21 DEF cur, to, rank1, new

LEMMA SearchedIdle ==
    ASSUME NEW js \in Seq(Join), NEW root \in Tables, NEW n \in Nat, NEW at \in Visits,
           NEW seen, NEW rank, Searched(js, root, n, at, seen, rank), at.queue = <<>>
    PROVE  Searched(js, root, n + 1, Visit(js, at), seen, rank)
<1>1. Visit(js, at) = at
  BY DEF Visit
<1>2. rank \in [Tables -> 0..n + 1]
  <2>1. rank \in [Tables -> 0..n]
    BY DEF Searched
  <2>2. \A i \in 0..n : i \in 0..n + 1
    OBVIOUS
  <2> QED
    BY <2>1, <2>2
<1> QED
  BY <1>1, <1>2 DEF Searched

\* Every connected table but the root hangs from another, nearer to the root.
Tree(js, root, parent, rank) ==
    /\ rank \in [Tables -> 0..Cardinality(Tables)]
    /\ parent \in [Connected(js, root) -> Tables \cup {NoTable}]
    /\ parent[root] = NoTable
    /\ \A t \in Connected(js, root) : t # root =>
         parent[t] \in Connected(js, root) /\ Linked(js, parent[t], t) /\ rank[parent[t]] < rank[t]

LEMMA ParentsIs ==
    ASSUME NEW js \in Seq(Join), NEW root \in Tables
    PROVE  \E rank : Tree(js, root, Parents(js, root), rank)
<1> DEFINE N == Cardinality(Tables)
<1>1. N \in Nat /\ IsFiniteSet(Tables)
  BY GraphAssumption, FS_CardinalityType
<1>2. PICK g : Search(g, js, root) /\ Parents(js, root) = g[N].parent
  BY ParentsInSteps
<1>3. g \in [0..N -> Visits] /\ g[0] = FirstVisit(root) /\ \A n \in 1..N : g[n] = Visit(js, g[n - 1])
  BY <1>2 DEF Search
<1> DEFINE P == {n \in 0..N : \E seen, rank : Searched(js, root, n, g[n], seen, rank)}
<1> HIDE DEF N
<1>4. 0 \in P
  <2>1. 0 \in 0..N
    BY <1>1
  <2>2. Searched(js, root, 0, g[0], {}, [t \in Tables |-> 0])
    BY <1>3, SearchedFirst
  <2> QED
    BY <2>1, <2>2
<1>5. ASSUME NEW n \in 1..N, n - 1 \in P PROVE n \in P
  <2>1. n - 1 \in Nat /\ n - 1 \in 0..N /\ n \in 0..N /\ (n - 1) + 1 = n
    BY <1>1
  <2>2. g[n - 1] \in Visits /\ g[n] = Visit(js, g[n - 1])
    BY <1>3, <2>1
  <2>3. PICK seen, rank : Searched(js, root, n - 1, g[n - 1], seen, rank)
    BY <1>5
  <2>4. \E seen1, rank1 : Searched(js, root, (n - 1) + 1, Visit(js, g[n - 1]), seen1, rank1)
    <3>1. CASE g[n - 1].queue = <<>>
      BY <2>1, <2>2, <2>3, <3>1, SearchedIdle
    <3>2. CASE g[n - 1].queue # <<>>
      BY <2>1, <2>2, <2>3, <3>2, SearchedNext
    <3> QED
      BY <3>1, <3>2
  <2> QED
    BY <2>1, <2>2, <2>4
<1> HIDE DEF P
<1>6. \A n \in 0..N : n \in P
  BY <1>1, <1>4, <1>5, UpTheRange
<1>7. N \in P /\ g[N] \in Visits
  BY <1>1, <1>3, <1>6
<1>8. PICK seen, rank : Searched(js, root, N, g[N], seen, rank)
  BY <1>7 DEF P
<1> DEFINE at == g[N]
           met == DOMAIN at.parent
<1>9. /\ seen \in SUBSET Tables /\ rank \in [Tables -> 0..N]
      /\ met = seen \cup ToSet(at.queue) /\ seen \cap ToSet(at.queue) = {}
      /\ at.queue = <<>> \/ Cardinality(seen) = N
      /\ \A u \in seen, v \in Tables : Linked(js, u, v) => v \in met
      /\ root \in met /\ met \subseteq Connected(js, root)
      /\ at.parent[root] = NoTable
      /\ \A t \in met : t # root =>
           at.parent[t] \in met /\ Linked(js, at.parent[t], t) /\ rank[at.parent[t]] < rank[t]
  BY <1>8 DEF Searched
<1>10. met \in SUBSET Tables /\ at.parent \in [met -> Tables \cup {NoTable}]
  BY <1>7, VisitDomain
<1> HIDE DEF at, met
<1>11. met = seen
  <2>1. CASE at.queue = <<>>
    <3>1. ToSet(at.queue) = {}
      BY <2>1 DEF ToSet
    <3> QED
      BY <1>9, <3>1
  <2>2. CASE Cardinality(seen) = N
    <3>1. seen = Tables
      BY <1>1, <1>9, <2>2, FS_Subset DEF N
    <3> QED
      BY <1>9, <1>10, <3>1
  <2> QED
    BY <1>9, <2>1, <2>2
<1>12. Connected(js, root) \subseteq met
  BY <1>9, <1>10, <1>11, ConnectedIs
<1>13. met = Connected(js, root)
  BY <1>9, <1>12
<1>14. Parents(js, root) = at.parent
  BY <1>2 DEF at
<1>15. Tree(js, root, at.parent, rank)
  BY <1>9, <1>10, <1>13 DEF Tree, N
<1> QED
  BY <1>14, <1>15
-----------------------------------------------------------------------------
(* The way up from a table to the root. *)

Ups(C) == {s \in Seq(C \cup {NoTable}) : s # <<>>}

Up(parent, root, was) ==
    IF Last(was) \in {root, NoTable} THEN was ELSE Append(was, parent[Last(was)])

LEMMA LastIn ==
    ASSUME NEW C, NEW s \in Ups(C)
    PROVE  s \in Seq(C \cup {NoTable}) /\ Last(s) \in C \cup {NoTable} /\ Last(s) \in ToSet(s)
<1>1. s \in Seq(C \cup {NoTable}) /\ s # <<>>
  BY DEF Ups
<1>2. Len(s) \in 1..Len(s) /\ DOMAIN s = 1..Len(s)
  BY <1>1, EmptySeq
<1>3. s[Len(s)] \in C \cup {NoTable}
  BY <1>1, <1>2, ElementOfSeq
<1> QED
  BY <1>1, <1>2, <1>3 DEF Last, ToSet

LEMMA LastOfAppend ==
    ASSUME NEW D, NEW s \in Seq(D), NEW e \in D
    PROVE  Last(Append(s, e)) = e
<1>1. Len(Append(s, e)) = Len(s) + 1 /\ Append(s, e)[Len(s) + 1] = e
  OBVIOUS
<1> QED
  BY <1>1 DEF Last

LEMMA UpType ==
    ASSUME NEW C, NEW root \in C, NEW parent \in [C -> C \cup {NoTable}], NEW was \in Ups(C)
    PROVE  Up(parent, root, was) \in Ups(C)
<1>1. was \in Seq(C \cup {NoTable}) /\ Last(was) \in C \cup {NoTable}
  BY LastIn
<1>2. CASE Last(was) \in {root, NoTable}
  BY <1>2 DEF Up
<1>3. CASE Last(was) \notin {root, NoTable}
  <2>1. parent[Last(was)] \in C \cup {NoTable}
    BY <1>1, <1>3
  <2>2. Up(parent, root, was) = Append(was, parent[Last(was)])
    BY <1>3 DEF Up
  <2>3. Append(was, parent[Last(was)]) \in Seq(C \cup {NoTable}) /\ Append(was, parent[Last(was)]) # <<>>
    BY <1>1, <2>1, AppendSet
  <2> QED
    BY <2>2, <2>3 DEF Ups
<1> QED
  BY <1>2, <1>3

Climb(g, C, parent, root, t) ==
    /\ g \in [0..Cardinality(Tables) -> Ups(C)]
    /\ g[0] = <<parent[t]>>
    /\ \A n \in 1..Cardinality(Tables) : g[n] = Up(parent, root, g[n - 1])

Climbs(C, parent, root, t) ==
    \E g : /\ Climb(g, C, parent, root, t)
           /\ Bridges(parent, root, t) = Among(g[Cardinality(Tables)], Tables \ {root})

LEMMA BridgesInSteps ==
    ASSUME NEW C, NEW root \in C, NEW parent \in [C -> C \cup {NoTable}], NEW t \in C
    PROVE  Climbs(C, parent, root, t)
<1> DEFINE N == Cardinality(Tables)
           step == [was \in Ups(C) |-> Up(parent, root, was)]
           base == <<parent[t]>>
           Runs(c) == c = [n \in 0..N |-> IF n = 0 THEN base ELSE Up(parent, root, c[n - 1])]
           up == CHOOSE c : Runs(c)
<1>1. N \in Nat
  BY GraphAssumption, FS_CardinalityType
<1>2. step \in [Ups(C) -> Ups(C)]
  BY UpType
<1>3. base \in Ups(C)
  <2>1. parent[t] \in C \cup {NoTable}
    OBVIOUS
  <2>2. base \in Seq(C \cup {NoTable}) /\ Len(base) = 1 /\ Len(<<>>) = 0
    BY <2>1
  <2>3. base # <<>>
    BY <2>2
  <2> QED
    BY <2>2, <2>3 DEF Ups
<1>4. Bridges(parent, root, t) = Among(up[N], Tables \ {root})
  BY DEF Bridges, Up
<1> HIDE DEF base
<1>5. PICK g : g \in Iterates(Ups(C), step, base, N)
  BY <1>1, <1>2, <1>3, IteratesExist
<1>6. g \in [0..N -> Ups(C)] /\ g[0] = base /\ \A n \in 1..N : g[n] = step[g[n - 1]]
  BY <1>5 DEF Iterates
<1>7. \A n \in 1..N : g[n - 1] \in Ups(C) /\ g[n] = Up(parent, root, g[n - 1])
  <2>1. ASSUME NEW n \in 1..N PROVE n - 1 \in 0..N
    BY <1>1
  <2> QED
    BY <1>6, <2>1
<1>8. Runs(g)
  <2>1. ASSUME NEW n \in 0..N, n # 0 PROVE n \in 1..N
    BY <1>1, <2>1
  <2> QED
    BY <1>6, <1>7, <2>1
<1>9. Runs(up)
  BY <1>8
<1> HIDE DEF up
<1>10. up[0] = base /\ \A n \in 1..N : up[n] = Up(parent, root, up[n - 1])
  <2>1. \A n \in 0..N : up[n] = IF n = 0 THEN base ELSE Up(parent, root, up[n - 1])
    BY <1>9
  <2>2. \A n \in 1..N : n \in 0..N /\ n # 0
    BY <1>1
  <2>3. 0 \in 0..N
    BY <1>1
  <2> HIDE DEF Runs
  <2>4. up[0] = base
    BY <2>1, <2>3
  <2>5. \A n \in 1..N : up[n] = Up(parent, root, up[n - 1])
    BY <2>1, <2>2
  <2> QED
    BY <2>4, <2>5
<1>11. \A n \in 1..N : up[n - 1] \in Ups(C) => up[n] = step[up[n - 1]]
  BY <1>10
<1>12. \A n \in 0..N : up[n] \in Ups(C)
  <2> HIDE DEF step, Runs, N
  <2> QED
    BY <1>1, <1>2, <1>3, <1>10, <1>11, Iterated
<1>13. up \in [0..N -> Ups(C)]
  <2>1. up = [n \in 0..N |-> up[n]]
    BY <1>9
  <2> HIDE DEF Runs
  <2> QED
    BY <1>12, <2>1
<1>14. Climb(up, C, parent, root, t)
  BY <1>10, <1>13 DEF Climb, base
<1> QED
  BY <1>4, <1>14 DEF Climbs

\* The tables between lead up to the root through one another.
LeadUp(C, parent, root, t, s) ==
    /\ s \in Seq(Tables) /\ ToSet(s) \subseteq C \ {root}
    /\ t # root => parent[t] \in ToSet(s) \cup {root}
    /\ \A b \in ToSet(s) : parent[b] \in ToSet(s) \cup {root}

LEMMA SeqOfLess ==
    ASSUME NEW D, NEW E, NEW s \in Seq(D), ToSet(s) \subseteq E
    PROVE  s \in Seq(E)
<1>1. Len(s) \in Nat /\ DOMAIN s = 1..Len(s) /\ s \in [1..Len(s) -> D]
  BY LenProperties
<1>2. \A i \in 1..Len(s) : s[i] \in E
  BY <1>1 DEF ToSet
<1>3. s \in [1..Len(s) -> E]
  BY <1>1, <1>2
<1> QED
  BY <1>1, <1>3, SeqDef

LEMMA BridgesIs ==
    ASSUME NEW js \in Seq(Join), NEW root \in Tables, NEW parent, NEW rank, Tree(js, root, parent, rank),
           NEW t \in Connected(js, root)
    PROVE  LeadUp(Connected(js, root), parent, root, t, Bridges(parent, root, t))
<1> DEFINE C == Connected(js, root)
           N == Cardinality(Tables)
<1>1. N \in Nat
  BY GraphAssumption, FS_CardinalityType
<1>2. C \in SUBSET Tables /\ root \in C /\ NoTable \notin C
  BY ConnectedIs, GraphAssumption
<1>3. /\ rank \in [Tables -> 0..N] /\ DOMAIN parent = C /\ parent[root] = NoTable
      /\ \A b \in C : b # root => parent[b] \in C /\ rank[parent[b]] < rank[b]
  <2>1. DOMAIN parent = C
    BY DEF Tree
  <2> QED
    BY <2>1 DEF Tree
<1>4. \A b \in C : rank[b] \in Nat /\ rank[b] <= N
  BY <1>1, <1>2, <1>3
<1>5. parent \in [C -> C \cup {NoTable}]
  <2>1. \A b \in C : parent[b] \in C \cup {NoTable}
    BY <1>3
  <2>2. parent \in [C -> Tables \cup {NoTable}]
    BY DEF Tree
  <2> QED
    BY <2>1, <2>2
<1> HIDE DEF C, N
<1>6. t \in C
  BY DEF C
<1>7. PICK g : Climb(g, C, parent, root, t) /\ Bridges(parent, root, t) = Among(g[N], Tables \ {root})
  <2>1. Climbs(C, parent, root, t)
    BY <1>2, <1>5, <1>6, BridgesInSteps
  <2> QED
    BY <2>1 DEF Climbs, N
<1>8. /\ g \in [0..N -> Ups(C)] /\ g[0] = <<parent[t]>>
      /\ \A n \in 1..N : g[n] = Up(parent, root, g[n - 1])
  BY <1>7 DEF Climb, N
<1>9. parent[t] \in C \cup {NoTable}
  BY <1>5, <1>6
<1>10. ToSet(g[0]) = {parent[t]} /\ Last(g[0]) = parent[t]
  <2>1. ToSet(<<parent[t]>>) = {parent[t]}
    BY <1>9, OneSet
  <2>2. Last(<<parent[t]>>) = parent[t]
    BY DEF Last
  <2> QED
    BY <1>8, <2>1, <2>2
<1>11. N \in 0..N /\ 0 \in 0..N
  BY <1>1
<1>12. \A n \in 1..N : n - 1 \in 0..N /\ n \in 0..N /\ n \in Nat
  BY <1>1
<1>13. g[N] \in Seq(C \cup {NoTable})
  BY <1>8, <1>11 DEF Ups
<1>14. /\ Among(g[N], Tables \ {root}) \in Seq(C \cup {NoTable})
       /\ ToSet(Among(g[N], Tables \ {root})) = ToSet(g[N]) \cap (Tables \ {root})
  BY <1>13, AmongSet
<1> DEFINE s == Bridges(parent, root, t)
<1>15. ToSet(s) = ToSet(g[N]) \cap (Tables \ {root}) /\ s \in Seq(Tables)
  <2>1. ToSet(Among(g[N], Tables \ {root})) \subseteq Tables
    BY <1>14
  <2> QED
    <3>1. s = Among(g[N], Tables \ {root})
      BY <1>7
    <3> HIDE DEF s
    <3>2. s \in Seq(C \cup {NoTable}) /\ ToSet(s) \subseteq Tables
      BY <1>14, <2>1, <3>1
    <3>3. s \in Seq(Tables)
      BY <3>2, SeqOfLess
    <3> QED
      BY <1>14, <3>1, <3>3
<1> HIDE DEF s
<1>16. CASE t = root
  <2> DEFINE P == {n \in 0..N : ToSet(g[n]) = {NoTable} /\ Last(g[n]) = NoTable}
  <2>1. 0 \in P
    BY <1>3, <1>10, <1>11, <1>16
  <2>2. ASSUME NEW n \in 1..N, n - 1 \in P PROVE n \in P
    <3>1. g[n] = g[n - 1]
      BY <1>8, <2>2 DEF Up
    <3> QED
      BY <1>12, <2>2, <3>1
  <2> HIDE DEF P
  <2>3. \A n \in 0..N : n \in P
    BY <1>1, <2>1, <2>2, UpTheRange
  <2>4. ToSet(g[N]) = {NoTable}
    BY <1>11, <2>3 DEF P
  <2>5. ToSet(s) = {}
    BY <1>15, <2>4, GraphAssumption
  <2> QED
    BY <1>15, <1>16, <2>5 DEF LeadUp, s
<1>17. CASE t # root
  <2> DEFINE Good(n) ==
               /\ ToSet(g[n]) \subseteq C
               /\ parent[t] \in ToSet(g[n])
               /\ Last(g[n]) \in C
               /\ \A b \in ToSet(g[n]) : b = root \/ b = Last(g[n]) \/ parent[b] \in ToSet(g[n])
               /\ Last(g[n]) = root \/ rank[Last(g[n])] + n < rank[t]
             P == {n \in 0..N : Good(n)}
  <2>1. 0 \in P
    <3>1. parent[t] \in C /\ rank[parent[t]] < rank[t]
      BY <1>3, <1>6, <1>17
    <3>2. rank[parent[t]] + 0 < rank[t]
      BY <1>4, <1>6, <3>1
    <3> QED
      BY <1>10, <1>11, <3>1, <3>2
  <2>2. ASSUME NEW n \in 1..N, n - 1 \in P PROVE n \in P
    <3> DEFINE was == g[n - 1]
               top == Last(was)
    <3>1. Good(n - 1) /\ was \in Ups(C) /\ g[n] = Up(parent, root, was)
      BY <1>8, <1>12, <2>2
    <3>2. /\ ToSet(was) \subseteq C /\ parent[t] \in ToSet(was) /\ top \in C
          /\ \A b \in ToSet(was) : b = root \/ b = top \/ parent[b] \in ToSet(was)
          /\ top = root \/ rank[top] + (n - 1) < rank[t]
      BY <3>1
    <3> HIDE DEF was, top
    <3>3. CASE top = root
      <4>1. g[n] = was
        BY <3>1, <3>3 DEF Up, top
      <4> QED
        BY <1>12, <3>2, <3>3, <4>1 DEF top
    <3>4. CASE top # root
      <4>1. parent[top] \in C /\ rank[parent[top]] < rank[top]
        BY <1>3, <3>2, <3>4
      <4>2. g[n] = Append(was, parent[top])
        BY <1>2, <3>1, <3>2, <3>4 DEF Up, top
      <4>3. was \in Seq(C \cup {NoTable}) /\ parent[top] \in C \cup {NoTable}
        BY <3>1, <4>1, LastIn
      <4>4. ToSet(g[n]) = ToSet(was) \cup {parent[top]}
        BY <4>2, <4>3, AppendSet
      <4>5. Last(g[n]) = parent[top]
        BY <4>2, <4>3, LastOfAppend
      <4>6. rank[parent[top]] + n < rank[t]
        <5>1. rank[top] + (n - 1) < rank[t]
          BY <3>2, <3>4
        <5>2. rank[top] \in Nat /\ rank[parent[top]] \in Nat /\ rank[t] \in Nat /\ n \in Nat
          BY <1>4, <1>6, <1>12, <3>2, <4>1
        <5> QED
          BY <4>1, <5>1, <5>2
      <4>7. \A b \in ToSet(g[n]) : b = root \/ b = Last(g[n]) \/ parent[b] \in ToSet(g[n])
        BY <3>2, <4>4, <4>5
      <4> QED
        BY <1>12, <3>2, <4>1, <4>4, <4>5, <4>6, <4>7
    <3> QED
      BY <3>3, <3>4
  <2> HIDE DEF P
  <2>3. \A n \in 0..N : n \in P
    BY <1>1, <2>1, <2>2, UpTheRange
  <2>4. Good(N)
    BY <1>11, <2>3 DEF P
  <2>5. Last(g[N]) = root
    <3>1. rank[t] <= N /\ rank[t] \in Nat /\ (Last(g[N]) \in C => rank[Last(g[N])] \in Nat)
      BY <1>4, <1>6
    <3> QED
      BY <1>1, <2>4, <3>1
  <2>6. ToSet(g[N]) \subseteq C /\ parent[t] \in ToSet(g[N])
        /\ \A b \in ToSet(g[N]) : b = root \/ parent[b] \in ToSet(g[N])
    BY <2>4, <2>5
  <2>7. ToSet(s) = ToSet(g[N]) \ {root}
    BY <1>2, <1>15, <2>6
  <2>8. LeadUp(C, parent, root, t, s)
    BY <1>15, <2>6, <2>7 DEF LeadUp
  <2> QED
    BY <2>8 DEF C, s
<1> QED
  BY <1>16, <1>17
-----------------------------------------------------------------------------
(* The list of tables: those of the fields, and those between. *)

Way(parent, root, t) == IF t \in DOMAIN parent THEN Bridges(parent, root, t) ELSE <<>>

Longer(acc, t, parent, root) == acc \o Among(Way(parent, root, t), Tables \ ToSet(acc))

Rooted(parent, root) == \E js \in Seq(Join) : \E rank : root \in Tables /\ Tree(js, root, parent, rank)

LEMMA WayType ==
    ASSUME NEW root, NEW parent, Rooted(parent, root), NEW t
    PROVE  Way(parent, root, t) \in Seq(Tables)
<1>1. PICK js \in Seq(Join) : \E rank : root \in Tables /\ Tree(js, root, parent, rank)
  BY DEF Rooted
<1>2. PICK rank : root \in Tables /\ Tree(js, root, parent, rank)
  BY <1>1
<1>3. CASE t \in DOMAIN parent
  <2>1. t \in Connected(js, root)
    BY <1>2, <1>3 DEF Tree
  <2>2. LeadUp(Connected(js, root), parent, root, t, Bridges(parent, root, t))
    BY <1>2, <2>1, BridgesIs
  <2> QED
    BY <1>3, <2>2 DEF LeadUp, Way
<1>4. CASE t \notin DOMAIN parent
  BY <1>4 DEF Way
<1> QED
  BY <1>3, <1>4

\* What is added to the list is on the way up, and leaves all of it listed.
WellGrown(acc, t, parent, root) ==
    /\ Longer(acc, t, parent, root) \in Seq(Tables)
    /\ ToSet(Longer(acc, t, parent, root)) = ToSet(acc) \cup ToSet(Way(parent, root, t))
    /\ \E new \in Seq(Tables) : /\ ToSet(new) \subseteq ToSet(Way(parent, root, t))
                                /\ Longer(acc, t, parent, root) = acc \o new

LEMMA GrownSet ==
    ASSUME NEW root, NEW parent, Rooted(parent, root), NEW t, NEW acc \in Seq(Tables)
    PROVE  WellGrown(acc, t, parent, root)
<1> DEFINE way == Way(parent, root, t)
           some == Tables \ ToSet(acc)
           new == Among(way, some)
<1>1. way \in Seq(Tables)
  BY WayType
<1>2. Longer(acc, t, parent, root) = acc \o new
  BY DEF Longer
<1> HIDE DEF way, some
<1>3. new \in Seq(Tables) /\ ToSet(new) = ToSet(way) \cap some
  BY <1>1, AmongSet
<1> HIDE DEF new
<1>4. acc \o new \in Seq(Tables) /\ ToSet(acc \o new) = ToSet(acc) \cup ToSet(new)
  <2>1. Both(Tables, acc, new)
    BY <1>3, ConcatSet
  <2> QED
    BY <2>1 DEF Both
<1>5. ToSet(way) \subseteq Tables
  BY <1>1 DEF ToSet
<1>6. ToSet(acc \o new) = ToSet(acc) \cup ToSet(way)
  BY <1>3, <1>4, <1>5 DEF some
<1>7. ToSet(new) \subseteq ToSet(way)
  BY <1>3
<1> QED
  BY <1>2, <1>3, <1>4, <1>6, <1>7 DEF WellGrown, way

ListOf(sorted, parent, root) ==
    FoldLeft(LAMBDA acc, t : acc \o Among(IF t \in DOMAIN parent THEN Bridges(parent, root, t) ELSE <<>>,
                                          Tables \ ToSet(acc)),
             sorted, sorted)

Grows(h, sorted, parent, root) ==
    /\ h \in [0..Len(sorted) -> Seq(Tables)]
    /\ h[0] = sorted
    /\ \A n \in 1..Len(sorted) : h[n] = Longer(h[n - 1], sorted[n], parent, root)

LEMMA ListInSteps ==
    ASSUME NEW root, NEW parent, Rooted(parent, root), NEW sorted \in Seq(Tables)
    PROVE  \E h : Grows(h, sorted, parent, root) /\ ListOf(sorted, parent, root) = h[Len(sorted)]
<1> DEFINE N == Len(sorted)
           S == Seq(Tables)
           G == [p \in (1..N) \X S |-> Longer(p[2], sorted[p[1]], parent, root)]
           pick == [s \in SUBSET (1..N) |-> Max(s)]
           Runs(g) == g = [s \in SUBSET (1..N) |->
                             IF s = {} THEN sorted ELSE Longer(g[s \ {Max(s)}], sorted[Max(s)], parent, root)]
           iter == CHOOSE g : Runs(g)
<1>1. N \in Nat /\ DOMAIN sorted = 1..N /\ \A n \in 1..N : sorted[n] \in Tables
  OBVIOUS
<1>2. sorted \in S
  OBVIOUS
<1>3. G \in [(1..N) \X S -> S]
  <2>1. ASSUME NEW p \in (1..N) \X S PROVE Longer(p[2], sorted[p[1]], parent, root) \in S
    BY <1>1, GrownSet DEF WellGrown
  <2> QED
    BY <2>1
<1>4. \A n \in 1..N : \A acc \in S : G[<<n, acc>>] = Longer(acc, sorted[n], parent, root)
  OBVIOUS
<1>5. \A s \in SUBSET (1..N) : s # {} => pick[s] = Max(s) /\ Max(s) \in s
  BY <1>1, MaxOfSet
<1>6. IsFiniteSet(1..N)
  BY <1>1, UpToCount
<1>7. ListOf(sorted, parent, root) = iter[1..N]
  <2>1. ListOf(sorted, parent, root) = iter[DOMAIN sorted]
    BY <1>1 DEF ListOf, Longer, Way, FoldLeft, MapThenFoldSet
  <2> QED
    BY <1>1, <2>1
<1> HIDE DEF N, S, G, pick
<1>8. PICK g : IsFold(g, S, G, sorted, pick, 1..N)
  <2>1. \A s \in SUBSET (1..N) : s # {} => pick[s] \in s
    BY <1>5
  <2> QED
    BY <1>2, <1>3, <1>6, <2>1, FoldExists
<1>9. Runs(g)
  <2>1. ASSUME NEW s \in SUBSET (1..N), s # {}
        PROVE  g[s] = Longer(g[s \ {Max(s)}], sorted[Max(s)], parent, root)
    <3>1. pick[s] = Max(s) /\ Max(s) \in 1..N /\ s \ {Max(s)} \in SUBSET (1..N)
      BY <1>5, <2>1
    <3>2. g[s \ {Max(s)}] \in S /\ g[s] = G[<<Max(s), g[s \ {Max(s)}]>>]
      BY <1>8, <2>1, <3>1 DEF IsFold
    <3> QED
      BY <1>4, <3>1, <3>2
  <2> QED
    BY <1>8, <2>1 DEF IsFold
<1>10. Runs(iter)
  BY <1>9
<1> HIDE DEF iter
<1>11. FoldsUp(iter, S, G, sorted, N)
  <2>1. iter[{}] = sorted
    BY <1>10
  <2>2. ASSUME NEW s \in SUBSET (1..N), s # {}, iter[s \ {Max(s)}] \in S
        PROVE  iter[s] = G[<<Max(s), iter[s \ {Max(s)}]>>]
    <3>1. Max(s) \in 1..N
      BY <1>5, <2>2
    <3>2. iter[s] = Longer(iter[s \ {Max(s)}], sorted[Max(s)], parent, root)
      BY <1>10, <2>2
    <3> QED
      BY <1>4, <2>2, <3>1, <3>2
  <2> QED
    BY <2>1, <2>2 DEF FoldsUp
<1>12. PICK h : Steps(h, S, G, sorted, N) /\ iter[1..N] = h[N]
  <2>1. N \in Nat
    BY <1>1
  <2> HIDE DEF Runs
  <2>2. InSteps(iter, S, G, sorted, N)
    BY <1>2, <1>3, <1>11, <2>1, FoldToSteps
  <2> QED
    BY <2>2 DEF InSteps
<1>13. ASSUME NEW n \in 1..N PROVE h[n] = Longer(h[n - 1], sorted[n], parent, root)
  <2>1. n - 1 \in 0..N
    BY <1>1
  <2>2. h[n - 1] \in S /\ h[n] = G[<<n, h[n - 1]>>]
    BY <1>12, <2>1 DEF Steps
  <2> QED
    BY <1>4, <2>2
<1>14. h \in [0..N -> S] /\ h[0] = sorted
  BY <1>12 DEF Steps
<1>15. Grows(h, sorted, parent, root)
  BY <1>13, <1>14 DEF Grows, N, S
<1> QED
  BY <1>7, <1>12, <1>15 DEF N


LEMMA TableListIs ==
    ASSUME NEW js, NEW used
    PROVE  LET sorted == ByScore(js, used)
               root == Head(sorted)
           IN  TableList(js, used) = ListOf(sorted, Parents(js, root), root)
  BY DEF TableList, ListOf

AtFront(root, s) == 1 \in DOMAIN s /\ \A i \in DOMAIN s : s[i] = root <=> i = 1

LEMMA FrontStays ==
    ASSUME NEW root, NEW s \in Seq(Tables), AtFront(root, s), NEW u \in Seq(Tables), root \notin ToSet(u)
    PROVE  AtFront(root, s \o u)
<1> DEFINE all == s \o u
<1>1. Len(s) \in Nat /\ DOMAIN s = 1..Len(s) /\ Len(u) \in Nat /\ DOMAIN u = 1..Len(u)
  OBVIOUS
<1>2. /\ Len(all) = Len(s) + Len(u) /\ DOMAIN all = 1..Len(s) + Len(u)
      /\ \A i \in 1..Len(s) + Len(u) : all[i] = IF i <= Len(s) THEN s[i] ELSE u[i - Len(s)]
  BY <1>1, ConcatProperties
<1> HIDE DEF all
<1>3. 1 \in DOMAIN s /\ \A i \in DOMAIN s : s[i] = root <=> i = 1
  BY DEF AtFront
<1>4. 1 \in DOMAIN all
  BY <1>1, <1>2, <1>3
<1>5. \A i \in DOMAIN u : u[i] # root
  BY DEF ToSet
<1>6. ASSUME NEW i \in DOMAIN all PROVE all[i] = root <=> i = 1
  <2>1. CASE i <= Len(s)
    <3>1. i \in DOMAIN s /\ all[i] = s[i]
      BY <1>1, <1>2, <2>1
    <3> QED
      BY <1>3, <3>1
  <2>2. CASE ~(i <= Len(s))
    <3>1. i - Len(s) \in DOMAIN u /\ all[i] = u[i - Len(s)] /\ i # 1
      BY <1>1, <1>2, <1>3, <2>2
    <3> QED
      BY <1>5, <3>1
  <2> QED
    BY <2>1, <2>2
<1> QED
  BY <1>4, <1>6 DEF AtFront, all

\* Who is on the list, S being the tables of the fields and C the connected.
Listed(list, S, C, parent, root) ==
    /\ list \in Seq(Tables) /\ AtFront(root, list)
    /\ S \subseteq ToSet(list) /\ ToSet(list) \subseteq S \cup C
    /\ \A t \in ToSet(list) : t \in C /\ t # root => parent[t] \in ToSet(list)

LEMMA ListIs ==
    ASSUME NEW js \in Seq(Join), NEW root \in Tables, NEW parent, NEW rank, Tree(js, root, parent, rank),
           NEW sorted \in Seq(Tables), AtFront(root, sorted)
    PROVE  Listed(ListOf(sorted, parent, root), ToSet(sorted), Connected(js, root), parent, root)
<1> DEFINE C == Connected(js, root)
           N == Len(sorted)
<1>1. N \in Nat /\ DOMAIN sorted = 1..N /\ \A n \in 1..N : sorted[n] \in Tables
  OBVIOUS
<1>2. Rooted(parent, root)
  BY DEF Rooted
<1>3. PICK h : Grows(h, sorted, parent, root) /\ ListOf(sorted, parent, root) = h[Len(sorted)]
  BY <1>2, ListInSteps
<1>4. /\ h \in [0..N -> Seq(Tables)] /\ h[0] = sorted
      /\ \A n \in 1..N : h[n] = Longer(h[n - 1], sorted[n], parent, root)
  BY <1>3 DEF Grows
<1>5. DOMAIN parent = C
  BY DEF Tree
<1>6. \A t \in C : LeadUp(C, parent, root, t, Bridges(parent, root, t))
  BY BridgesIs
<1> HIDE DEF C
<1>7. ASSUME NEW t
      PROVE  LET way == Way(parent, root, t) IN
             /\ ToSet(way) \subseteq C \ {root}
             /\ t \in C /\ t # root => parent[t] \in ToSet(way) \cup {root}
             /\ \A b \in ToSet(way) : parent[b] \in ToSet(way) \cup {root}
  <2>1. CASE t \in C
    BY <1>5, <1>6, <2>1 DEF LeadUp, Way
  <2>2. CASE t \notin C
    <3>1. Way(parent, root, t) = <<>> /\ ToSet(<<>>) = {}
      BY <1>5, <2>2 DEF Way, ToSet
    <3> QED
      BY <2>2, <3>1
  <2> QED
    BY <2>1, <2>2
<1> DEFINE later(n) == {sorted[i] : i \in n + 1..N}
           Good(n) == /\ AtFront(root, h[n])
                      /\ ToSet(sorted) \subseteq ToSet(h[n]) /\ ToSet(h[n]) \subseteq ToSet(sorted) \cup C
                      /\ \A t \in ToSet(h[n]) :
                           t \in C /\ t # root => parent[t] \in ToSet(h[n]) \/ t \in later(n)
           P == {n \in 0..N : Good(n)}
<1> HIDE DEF N
<1>8. 0 \in P
  <2>1. ToSet(sorted) = later(0)
    BY <1>1 DEF ToSet
  <2>2. 0 \in 0..N
    BY <1>1
  <2> QED
    BY <1>4, <2>1, <2>2
<1>9. ASSUME NEW n \in 1..N, n - 1 \in P PROVE n \in P
  <2> DEFINE acc == h[n - 1]
             t == sorted[n]
             way == Way(parent, root, t)
  <2>1. n - 1 \in 0..N /\ n \in 0..N /\ acc \in Seq(Tables) /\ h[n] = Longer(acc, t, parent, root)
    BY <1>1, <1>4
  <2>2. /\ AtFront(root, acc)
        /\ ToSet(sorted) \subseteq ToSet(acc) /\ ToSet(acc) \subseteq ToSet(sorted) \cup C
        /\ \A x \in ToSet(acc) : x \in C /\ x # root => parent[x] \in ToSet(acc) \/ x \in later(n - 1)
    BY <1>9
  <2>3. \A x \in later(n - 1) : x = t \/ x \in later(n)
    <3>1. \A i \in (n - 1) + 1..N : i = n \/ i \in n + 1..N
      BY <1>1
    <3> QED
      BY <3>1
  <2> HIDE DEF acc, t, P, later
  <2>4. WellGrown(acc, t, parent, root)
    BY <1>2, <2>1, GrownSet
  <2>5. ToSet(h[n]) = ToSet(acc) \cup ToSet(way)
    BY <2>1, <2>4 DEF WellGrown
  <2>6. PICK new \in Seq(Tables) : ToSet(new) \subseteq ToSet(way) /\ h[n] = acc \o new
    BY <2>1, <2>4 DEF WellGrown
  <2>7. /\ ToSet(way) \subseteq C \ {root}
        /\ t \in C /\ t # root => parent[t] \in ToSet(way) \cup {root}
        /\ \A b \in ToSet(way) : parent[b] \in ToSet(way) \cup {root}
    BY <1>7
  <2> HIDE DEF way
  <2>8. AtFront(root, h[n])
    <3>1. root \notin ToSet(new)
      BY <2>6, <2>7
    <3> QED
      BY <2>1, <2>2, <2>6, <3>1, FrontStays
  <2>9. root \in ToSet(acc)
    BY <2>2 DEF AtFront, ToSet
  <2>10. ASSUME NEW x \in ToSet(h[n]), x \in C, x # root
        PROVE  parent[x] \in ToSet(h[n]) \/ x \in later(n)
    <3>1. CASE x \in ToSet(way)
      BY <2>5, <2>7, <2>9, <3>1
    <3>2. CASE x \notin ToSet(way)
      <4>1. parent[x] \in ToSet(acc) \/ x = t \/ x \in later(n)
        BY <2>2, <2>3, <2>5, <2>10, <3>2
      <4>2. x = t => parent[x] \in ToSet(way) \cup {root}
        BY <2>7, <2>10
      <4> QED
        BY <2>5, <2>9, <4>1, <4>2
    <3> QED
      BY <3>1, <3>2
  <2>11. ToSet(sorted) \subseteq ToSet(h[n]) /\ ToSet(h[n]) \subseteq ToSet(sorted) \cup C
    BY <2>2, <2>5, <2>7
  <2> QED
    BY <2>1, <2>8, <2>10, <2>11 DEF P
<1> HIDE DEF P
<1>10. \A n \in 0..N : n \in P
  BY <1>1, <1>8, <1>9, UpTheRange
<1>11. N \in 0..N
  BY <1>1
<1>12. Good(N) /\ h[N] \in Seq(Tables)
  BY <1>4, <1>10, <1>11 DEF P
<1>13. later(N) = {}
  <2>1. N + 1..N = {}
    BY <1>1
  <2> QED
    BY <2>1
<1> HIDE DEF later
<1>14. Listed(h[N], ToSet(sorted), C, parent, root)
  BY <1>12, <1>13 DEF Listed
<1> QED
  BY <1>3, <1>14 DEF C, N
-----------------------------------------------------------------------------
(* The tables the FROM clause takes from the list, one at a time. *)

LinksTo(js, t, added) == {i \in DOMAIN js : t \in Ends(js[i]) /\ Other(js[i], t) \in added}
Ready(js, was) == {k \in DOMAIN was.left : LinksTo(js, was.left[k], was.tables) # {}}

Takes == [tables : SUBSET Tables, joins : SUBSET Join, left : Seq(Tables)]

Take(js, was) ==
    IF Ready(js, was) = {} THEN was
    ELSE LET t == was.left[Min(Ready(js, was))] IN
         [tables |-> was.tables \cup {t},
          joins |-> was.joins \cup {js[Min(LinksTo(js, t, was.tables))]},
          left |-> RemoveAt(was.left, Min(Ready(js, was)))]

FirstTake(list) == [tables |-> {Head(list)}, joins |-> {}, left |-> Tail(list)]

LEMMA MinIn ==
    ASSUME NEW n \in Nat, NEW s \in SUBSET (1..n), s # {}
    PROVE  Min(s) \in s
<1>1. s \in SUBSET Nat
  OBVIOUS
<1>2. PICK k \in s : \A m \in s : k <= m
  BY <1>1, Least
<1> QED
  BY <1>2 DEF Min

\* What a step takes: nothing, or a table some join links to those taken.
Stepped(js, was) ==
    LET to == Take(js, was) IN
    IF Ready(js, was) = {} THEN to = was
    ELSE \E t \in Tables, u \in was.tables, j \in ToSet(js) :
           /\ t \in ToSet(was.left) /\ t \in Ends(j) /\ u = Other(j, t) /\ Linked(js, u, t)
           /\ to \in Takes
           /\ to.tables = was.tables \cup {t} /\ to.joins = was.joins \cup {j}
           /\ Len(to.left) = Len(was.left) - 1
           /\ ToSet(was.left) = {t} \cup ToSet(to.left)

LEMMA TakeIs ==
    ASSUME NEW js \in Seq(Join), NEW was \in Takes
    PROVE  Stepped(js, was) /\ Take(js, was) \in Takes
<1> DEFINE ready == Ready(js, was)
           k == Min(ready)
           t == was.left[k]
           links == LinksTo(js, t, was.tables)
           left == was.left
<1>1. /\ left \in Seq(Tables) /\ was.tables \in SUBSET Tables /\ was.joins \in SUBSET Join
      /\ Len(left) \in Nat /\ DOMAIN left = 1..Len(left)
  BY DEF Takes
<1>2. Len(js) \in Nat /\ DOMAIN js = 1..Len(js)
  OBVIOUS
<1>3. CASE ready = {}
  BY <1>3 DEF Take, Stepped
<1>4. CASE ready # {}
  <2>1. k \in ready
    <3>1. ready \in SUBSET (1..Len(left))
      BY <1>1 DEF Ready
    <3> HIDE DEF ready
    <3> QED
      BY <1>1, <1>4, <3>1, MinIn
  <2>2. k \in DOMAIN left /\ links # {}
    BY <2>1 DEF Ready
  <2>3. t \in Tables /\ t \in ToSet(left)
    BY <1>1, <2>2 DEF ToSet
  <2>4. Min(links) \in links
    <3>1. links \in SUBSET (1..Len(js))
      BY <1>2 DEF LinksTo
    <3> HIDE DEF links
    <3> QED
      BY <1>2, <2>2, <3>1, MinIn
  <2>5. PICK i \in DOMAIN js : i = Min(links) /\ t \in Ends(js[i]) /\ Other(js[i], t) \in was.tables
    BY <2>4 DEF LinksTo
  <2>6. js[Min(links)] \in Join /\ js[Min(links)] \in ToSet(js)
    BY <1>2, <2>5 DEF ToSet
  <2>7. Take(js, was) = [tables |-> was.tables \cup {t}, joins |-> was.joins \cup {js[Min(links)]},
                         left |-> RemoveAt(left, k)]
    BY <1>4 DEF Take
  <2>8. PICK u \in was.tables : u = Other(js[i], t) /\ t \in Ends(js[i])
    BY <2>5
  <2>9. Linked(js, u, t)
    <3>1. Linked(js, t, u) /\ u \in Tables
      BY <1>1, <2>5, <2>8 DEF Linked
    <3> QED
      BY <2>3, <3>1, LinkedBack
  <2> HIDE DEF k, t, links, left, ready
  <2>10. /\ RemoveAt(left, k) \in Seq(Tables) /\ Len(RemoveAt(left, k)) = Len(left) - 1
         /\ ToSet(left) = {left[k]} \cup ToSet(RemoveAt(left, k))
    BY <1>1, <2>2, RemoveSet
  <2>11. left[k] = t
    BY DEF t, left
  <2>12. Take(js, was) \in Takes
    BY <1>1, <2>3, <2>6, <2>7, <2>10 DEF Takes
  <2>13. /\ Take(js, was).tables = was.tables \cup {t} /\ Take(js, was).left = RemoveAt(left, k)
         /\ Take(js, was).joins = was.joins \cup {js[i]}
    BY <2>5, <2>7
  <2> QED
    BY <1>4, <2>3, <2>5, <2>6, <2>8, <2>9, <2>10, <2>11, <2>12, <2>13 DEF Stepped, ready, left
<1> QED
  BY <1>3, <1>4

Taking(c, js, list) ==
    /\ c \in [0..Len(list) - 1 -> Takes]
    /\ c[0] = FirstTake(list)
    /\ \A n \in 1..Len(list) - 1 : c[n] = Take(js, c[n - 1])

FromIn(from, js, list) == \E c : Taking(c, js, list) /\ from = c[Len(list) - 1]

LEMMA FirstTakeIs ==
    ASSUME NEW list \in Seq(Tables), list # <<>>
    PROVE  FirstTake(list) \in Takes /\ Len(list) - 1 \in Nat
<1>1. Head(list) \in Tables /\ Tail(list) \in Seq(Tables) /\ Len(list) \in Nat /\ Len(list) >= 1
  BY TailSet
<1> QED
  BY <1>1 DEF FirstTake, Takes

LEMMA FromClauseInSteps ==
    ASSUME NEW js \in Seq(Join), NEW used, TableList(js, used) \in Seq(Tables), TableList(js, used) # <<>>
    PROVE  FromIn(FromClause(js, used), js, TableList(js, used))
<1> DEFINE list == TableList(js, used)
           N == Len(list) - 1
           step == [was \in Takes |-> Take(js, was)]
           Runs(c) == c = [n \in 0..N |-> IF n = 0 THEN FirstTake(list) ELSE Take(js, c[n - 1])]
           take == CHOOSE c : Runs(c)
<1>1. N \in Nat /\ FirstTake(list) \in Takes
  BY FirstTakeIs
<1>2. step \in [Takes -> Takes]
  BY TakeIs
<1>3. FromClause(js, used) = take[N]
  BY DEF FromClause, Take, Ready, LinksTo, FirstTake
<1> HIDE DEF list, N
<1>4. PICK g : g \in Iterates(Takes, step, FirstTake(list), N)
  BY <1>1, <1>2, IteratesExist
<1>5. g \in [0..N -> Takes] /\ g[0] = FirstTake(list) /\ \A n \in 1..N : g[n] = step[g[n - 1]]
  BY <1>4 DEF Iterates
<1>6. \A n \in 1..N : g[n - 1] \in Takes /\ g[n] = Take(js, g[n - 1])
  <2>1. ASSUME NEW n \in 1..N PROVE n - 1 \in 0..N
    BY <1>1
  <2> QED
    BY <1>5, <2>1
<1>7. Runs(g)
  <2>1. ASSUME NEW n \in 0..N, n # 0 PROVE n \in 1..N
    BY <1>1, <2>1
  <2> QED
    BY <1>5, <1>6, <2>1
<1>8. Runs(take)
  BY <1>7
<1> HIDE DEF take
<1>9. take[0] = FirstTake(list) /\ \A n \in 1..N : take[n] = Take(js, take[n - 1])
  <2>1. \A n \in 0..N : take[n] = IF n = 0 THEN FirstTake(list) ELSE Take(js, take[n - 1])
    BY <1>8
  <2>2. \A n \in 1..N : n \in 0..N /\ n # 0
    BY <1>1
  <2>3. 0 \in 0..N
    BY <1>1
  <2> HIDE DEF Runs
  <2>4. take[0] = FirstTake(list)
    BY <2>1, <2>3
  <2>5. \A n \in 1..N : take[n] = Take(js, take[n - 1])
    BY <2>1, <2>2
  <2> QED
    BY <2>4, <2>5
<1>10. \A n \in 1..N : take[n - 1] \in Takes => take[n] = step[take[n - 1]]
  BY <1>9
<1>11. \A n \in 0..N : take[n] \in Takes
  <2> HIDE DEF step, Runs
  <2> QED
    BY <1>1, <1>2, <1>9, <1>10, Iterated
<1>12. take \in [0..N -> Takes]
  <2>1. take = [n \in 0..N |-> take[n]]
    BY <1>8
  <2> HIDE DEF Runs
  <2> QED
    BY <1>11, <2>1
<1>13. Taking(take, js, list)
  BY <1>9, <1>12 DEF Taking, N
<1> QED
  BY <1>3, <1>13 DEF FromIn, list, N

\* After n steps: the tables are shared out, and those taken are connected.
Shared(js, root, list, n, at) ==
    /\ at.tables \cup ToSet(at.left) = ToSet(list)
    /\ root \in at.tables /\ at.tables \subseteq Connected(js, root)
    /\ root \notin ToSet(at.left)
    /\ Len(at.left) = Len(list) - 1 - n \/ Ready(js, at) = {}

LEMMA SharedFirst ==
    ASSUME NEW js \in Seq(Join), NEW root \in Tables, NEW list \in Seq(Tables), AtFront(root, list)
    PROVE  Shared(js, root, list, 0, FirstTake(list))
<1> DEFINE at == FirstTake(list)
<1>1. Len(list) \in Nat /\ DOMAIN list = 1..Len(list)
  OBVIOUS
<1>2. 1 \in DOMAIN list /\ \A i \in DOMAIN list : list[i] = root <=> i = 1
  BY DEF AtFront
<1>3. list # <<>>
  BY <1>1, <1>2
<1>4. /\ Head(list) = list[1] /\ Tail(list) \in Seq(Tables) /\ Len(Tail(list)) = Len(list) - 1
      /\ ToSet(list) = {Head(list)} \cup ToSet(Tail(list))
  BY <1>3, TailSet
<1>5. Head(list) = root
  BY <1>2, <1>4
<1>6. root \notin ToSet(Tail(list))
  <2>1. ASSUME NEW i \in DOMAIN Tail(list) PROVE Tail(list)[i] # root
    <3>1. i \in 1..Len(list) - 1 /\ Tail(list)[i] = list[i + 1]
      BY <1>1, <1>3, <1>4
    <3>2. i + 1 \in DOMAIN list /\ i + 1 # 1
      BY <1>1, <3>1
    <3> QED
      BY <1>2, <3>1, <3>2
  <2> QED
    BY <2>1 DEF ToSet
<1>7. at.tables = {root} /\ at.left = Tail(list)
  BY <1>5 DEF FirstTake
<1>8. root \in Connected(js, root)
  BY ConnectedIs
<1> HIDE DEF at
<1>9. Len(at.left) = Len(list) - 1 - 0
  BY <1>1, <1>4, <1>7
<1> QED
  BY <1>4, <1>5, <1>6, <1>7, <1>8, <1>9 DEF Shared, at

LEMMA SharedNext ==
    ASSUME NEW js \in Seq(Join), NEW root \in Tables, NEW list \in Seq(Tables), NEW n \in Nat,
           NEW at \in Takes, Shared(js, root, list, n, at)
    PROVE  Shared(js, root, list, n + 1, Take(js, at))
<1> DEFINE to == Take(js, at)
<1>1. Stepped(js, at) /\ to \in Takes
  BY TakeIs
<1>2. CASE Ready(js, at) = {}
  BY <1>1, <1>2 DEF Shared, Stepped
<1>3. CASE Ready(js, at) # {}
  <2>1. PICK t \in Tables, u \in at.tables, j \in ToSet(js) :
          /\ t \in ToSet(at.left) /\ Linked(js, u, t)
          /\ to.tables = at.tables \cup {t}
          /\ Len(to.left) = Len(at.left) - 1
          /\ ToSet(at.left) = {t} \cup ToSet(to.left)
    BY <1>1, <1>3 DEF Stepped
  <2> HIDE DEF to
  <2>2. t \in Connected(js, root)
    BY <2>1, ConnectedIs DEF Shared
  <2>3. to.tables \cup ToSet(to.left) = ToSet(list) /\ root \in to.tables
        /\ to.tables \subseteq Connected(js, root) /\ root \notin ToSet(to.left)
    BY <2>1, <2>2 DEF Shared
  <2>4. Len(at.left) = Len(list) - 1 - n
    BY <1>3 DEF Shared
  <2>5. Len(to.left) = Len(list) - 1 - (n + 1)
    BY <2>1, <2>4
  <2> QED
    BY <2>3, <2>5 DEF Shared, to
<1> QED
  BY <1>2, <1>3

\* The loop does not stop on a connected table: the nearest to the root of
\* those left would be ready, its parent being taken.
LEMMA NoneLeft ==
    ASSUME NEW js \in Seq(Join), NEW root \in Tables, NEW parent, NEW rank, Tree(js, root, parent, rank),
           NEW S, NEW list, Listed(list, S, Connected(js, root), parent, root),
           NEW n, NEW at \in Takes, Shared(js, root, list, n, at), Ready(js, at) = {}
    PROVE  ToSet(at.left) \cap Connected(js, root) = {}
<1> DEFINE C == Connected(js, root)
           stuck == ToSet(at.left) \cap C
           N == Cardinality(Tables)
<1>1. SUFFICES ASSUME stuck # {} PROVE FALSE
  OBVIOUS
<1>2. N \in Nat
  BY GraphAssumption, FS_CardinalityType
<1>3. /\ rank \in [Tables -> 0..N]
      /\ \A t \in C : t # root => parent[t] \in C /\ Linked(js, parent[t], t) /\ rank[parent[t]] < rank[t]
  BY DEF Tree
<1>4. C \in SUBSET Tables
  BY ConnectedIs
<1>5. \A t \in ToSet(list) : t \in C /\ t # root => parent[t] \in ToSet(list)
  BY DEF Listed
<1>6. at.tables \cup ToSet(at.left) = ToSet(list) /\ root \notin ToSet(at.left)
  BY DEF Shared
<1> HIDE DEF C, N
<1>7. PICK t \in stuck : \A u \in stuck : rank[t] <= rank[u]
  <2> DEFINE ranks == {rank[u] : u \in stuck}
  <2>1. ranks \in SUBSET Nat /\ ranks # {}
    BY <1>1, <1>2, <1>3, <1>4
  <2>2. PICK r \in ranks : \A m \in ranks : r <= m
    BY <2>1, Least
  <2> QED
    BY <2>2
<1>8. t \in ToSet(at.left) /\ t \in C /\ t \in Tables /\ t # root /\ t \in ToSet(list)
  BY <1>4, <1>6, <1>7
<1>9. parent[t] \in C /\ parent[t] \in Tables /\ Linked(js, parent[t], t) /\ rank[parent[t]] < rank[t]
      /\ parent[t] \in ToSet(list)
  BY <1>3, <1>4, <1>5, <1>8
<1>10. parent[t] \notin ToSet(at.left)
  <2>1. SUFFICES ASSUME parent[t] \in stuck PROVE FALSE
    BY <1>9
  <2>2. rank[t] <= rank[parent[t]]
    BY <1>7, <2>1
  <2>3. rank[t] \in Nat /\ rank[parent[t]] \in Nat
    BY <1>2, <1>3, <1>8, <1>9
  <2> QED
    BY <1>9, <2>2, <2>3
<1>11. parent[t] \in at.tables
  BY <1>6, <1>9, <1>10
<1>12. PICK i \in DOMAIN js : t \in Ends(js[i]) /\ parent[t] = Other(js[i], t)
  <2>1. Linked(js, t, parent[t])
    BY <1>8, <1>9, LinkedBack
  <2> QED
    BY <2>1 DEF Linked
<1>13. PICK k \in DOMAIN at.left : at.left[k] = t
  BY <1>8 DEF ToSet
<1>14. k \in Ready(js, at)
  <2>1. i \in LinksTo(js, t, at.tables)
    BY <1>11, <1>12 DEF LinksTo
  <2> QED
    BY <1>13, <2>1 DEF Ready
<1> QED
  BY <1>14

LEMMA FromIs ==
    ASSUME NEW js \in Seq(Join), NEW root \in Tables, NEW parent, NEW rank, Tree(js, root, parent, rank),
           NEW S, NEW list, Listed(list, S, Connected(js, root), parent, root),
           NEW from, FromIn(from, js, list)
    PROVE  S \cap Connected(js, root) \subseteq from.tables /\ ToSet(from.left) = S \ Connected(js, root)
<1> DEFINE C == Connected(js, root)
           N == Len(list) - 1
<1>1. list \in Seq(Tables) /\ AtFront(root, list) /\ S \subseteq ToSet(list) /\ ToSet(list) \subseteq S \cup C
  BY DEF Listed
<1>2. N \in Nat
  <2>1. 1 \in DOMAIN list
    BY <1>1 DEF AtFront
  <2> QED
    BY <1>1, <2>1
<1>3. PICK c : Taking(c, js, list) /\ from = c[N]
  BY DEF FromIn
<1>4. c \in [0..N -> Takes] /\ c[0] = FirstTake(list) /\ \A n \in 1..N : c[n] = Take(js, c[n - 1])
  BY <1>3 DEF Taking
<1> DEFINE P == {n \in 0..N : Shared(js, root, list, n, c[n])}
<1> HIDE DEF C, N
<1>5. 0 \in P
  <2>1. 0 \in 0..N
    BY <1>2
  <2> QED
    BY <1>1, <1>4, <2>1, SharedFirst
<1>6. ASSUME NEW n \in 1..N, n - 1 \in P PROVE n \in P
  <2>1. n - 1 \in Nat /\ n - 1 \in 0..N /\ n \in 0..N /\ (n - 1) + 1 = n
    BY <1>2
  <2>2. c[n - 1] \in Takes /\ c[n] = Take(js, c[n - 1]) /\ Shared(js, root, list, n - 1, c[n - 1])
    BY <1>4, <1>6, <2>1
  <2>3. Shared(js, root, list, (n - 1) + 1, c[n])
    BY <1>1, <2>1, <2>2, SharedNext
  <2> QED
    BY <2>1, <2>3
<1> HIDE DEF P
<1>7. \A n \in 0..N : n \in P
  BY <1>2, <1>5, <1>6, UpTheRange
<1>8. N \in 0..N
  BY <1>2
<1>9. Shared(js, root, list, N, from) /\ from \in Takes
  BY <1>3, <1>4, <1>7, <1>8 DEF P
<1>10. Ready(js, from) = {}
  <2>1. CASE Len(from.left) = Len(list) - 1 - N
    <3>1. from.left \in Seq(Tables)
      BY <1>9 DEF Takes
    <3>2. Len(list) \in Nat
      BY <1>1
    <3>3. DOMAIN from.left = {}
      BY <2>1, <3>1, <3>2 DEF N
    <3> QED
      BY <3>3 DEF Ready
  <2> QED
    BY <1>9, <2>1 DEF Shared
<1>11. ToSet(from.left) \cap C = {}
  BY <1>9, <1>10, NoneLeft DEF C
<1>12. from.tables \cup ToSet(from.left) = ToSet(list) /\ from.tables \subseteq C
  BY <1>9 DEF Shared, C
<1>13. S \cap C \subseteq from.tables /\ ToSet(from.left) = S \ C
  BY <1>1, <1>11, <1>12
<1> QED
  BY <1>13 DEF C

LEMMA OrdersAre ==
    ASSUME NEW S \in SUBSET Tables, S # {}, NEW used \in Orders(S)
    PROVE  used \in Seq(Tables) /\ Distinct(used) /\ ToSet(used) = S /\ Len(used) \in Nat /\ Len(used) # 0
<1> DEFINE n == Cardinality(S)
           D == 1..n
<1>1. IsFiniteSet(S) /\ n \in Nat /\ n # 0
  BY GraphAssumption, FS_Subset, FS_CardinalityType, FS_EmptySet
<1> HIDE DEF n
<1>2. used \in [D -> S] /\ ToSet(used) = S
  BY DEF Orders, n
<1>3. IsFiniteSet(D) /\ Cardinality(D) = n
  BY <1>1, UpToCount
<1>4. used \in Surjection(D, S)
  <2>1. \A e \in S : \E i \in D : used[i] = e
    BY <1>2 DEF ToSet
  <2> QED
    BY <1>2, <2>1 DEF Surjection
<1>5. used \in Injection(D, S)
  BY <1>1, <1>3, <1>4, FS_SurjSameCardinalityImpliesInj DEF n
<1>6. Distinct(used)
  <2>1. \A i, k \in D : used[i] = used[k] => i = k
    BY <1>5 DEF Injection, IsInjective
  <2>2. DOMAIN used = D
    BY <1>2
  <2> QED
    BY <2>1, <2>2 DEF Distinct
<1>7. used \in Seq(Tables) /\ Len(used) = n
  <2>1. used \in [1..n -> Tables]
    BY <1>2
  <2> QED
    BY <1>1, <2>1, SeqDef
<1> QED
  BY <1>1, <1>2, <1>6, <1>7

LEMMA HeadAtFront ==
    ASSUME NEW s \in Seq(Tables), Distinct(s), Len(s) # 0
    PROVE  Head(s) \in Tables /\ AtFront(Head(s), s)
<1>1. Len(s) \in Nat /\ DOMAIN s = 1..Len(s) /\ s # <<>>
  OBVIOUS
<1>2. Head(s) \in Tables /\ Head(s) = s[1]
  BY <1>1, TailSet
<1>3. 1 \in DOMAIN s
  BY <1>1
<1> QED
  BY <1>2, <1>3 DEF AtFront, Distinct

LEMMA FromWhole ==
    ASSUME NEW js \in Seq(Join), NEW S \in SUBSET Tables, S # {}, NEW used \in Orders(S)
    PROVE  LET from == FromClause(js, used)
               root == Head(ByScore(js, used))
           IN  /\ S \cap Connected(js, root) \subseteq from.tables
               /\ ToSet(from.left) = S \ Connected(js, root)
<1> DEFINE sorted == ByScore(js, used)
           root == Head(sorted)
           parent == Parents(js, root)
           list == TableList(js, used)
           from == FromClause(js, used)
<1>1. used \in Seq(Tables) /\ Distinct(used) /\ ToSet(used) = S /\ Len(used) \in Nat /\ Len(used) # 0
  BY OrdersAre
<1>2. sorted \in Seq(Tables) /\ Len(sorted) = Len(used) /\ ToSet(sorted) = S /\ Distinct(sorted)
  BY <1>1, ByScoreIs
<1>3. list = ListOf(sorted, parent, root)
  BY TableListIs
<1> HIDE DEF sorted
<1>4. root \in Tables /\ AtFront(root, sorted)
  BY <1>1, <1>2, HeadAtFront
<1> HIDE DEF root
<1>5. PICK rank : Tree(js, root, parent, rank)
  BY <1>4, ParentsIs
<1> HIDE DEF parent
<1>6. Listed(list, S, Connected(js, root), parent, root)
  BY <1>2, <1>3, <1>4, <1>5, ListIs
<1>7. list \in Seq(Tables) /\ list # <<>>
  <2>1. list \in Seq(Tables) /\ 1 \in DOMAIN list
    BY <1>6 DEF Listed, AtFront
  <2> HIDE DEF list
  <2> QED
    BY <2>1
<1>8. FromIn(from, js, list)
  BY <1>7, FromClauseInSteps
<1> HIDE DEF list, from
<1>9. S \cap Connected(js, root) \subseteq from.tables /\ ToSet(from.left) = S \ Connected(js, root)
  BY <1>4, <1>5, <1>6, <1>8, FromIs
<1> QED
  BY <1>9 DEF from, root, sorted

\* "Pull in the intermediate tables" (fromClause.js): whatever the draft the
\* editor has come to and the fields asked of it, met in any order, the FROM
\* clause takes every table of these a chain of joins links to its root, and
\* leaves out the others alone.
THEOREM FromAlwaysWhole == Spec => []FromIsWhole
<1>1. EditInv => FromIsWhole
  <2>1. SUFFICES ASSUME EditInv PROVE FromIsWhole
    OBVIOUS
  <2>2. joins \in Seq(Join)
    BY <2>1, DraftJoins DEF EditInv
  <2> QED
    BY <2>2, FromWhole DEF FromIsWhole
<1> QED
  BY <1>1, EditInvariance, PTL
-----------------------------------------------------------------------------
(* A fact and the dimensions two joins away at most. *)

Ones(js, f) == {x \in Tables : <<f, x>> \in Edges(js)}
Twos(js, f) == {z \in Tables : \E y \in Ones(js, f) : <<y, z>> \in Edges(js)}
Layers(js, f) == {f} \cup Ones(js, f) \cup Twos(js, f)

\* A walk of one, two or three joins.
Ahead(js, p, a, c) == Walk(js, p) /\ Start(js, p) = a /\ Finish(js, p) = c

LEMMA OneStep ==
    ASSUME NEW js, NEW i \in DOMAIN js
    PROVE  Ahead(js, <<i>>, Orient(js[i])[1], Orient(js[i])[2]) /\ Len(<<i>>) = 1
<1> DEFINE p == <<i>>
<1>1. p \in Seq(DOMAIN js) /\ Len(p) = 1 /\ p[1] = i
  OBVIOUS
<1> HIDE DEF p
<1>2. \A k \in 1..Len(p) - 1 : Orient(js[p[k]])[2] = Orient(js[p[k + 1]])[1]
  BY <1>1
<1>3. Ahead(js, p, Orient(js[i])[1], Orient(js[i])[2])
  BY <1>1, <1>2 DEF Ahead, Walk, Start, Finish
<1> QED
  BY <1>1, <1>3 DEF p

Further(js, i, q, c) ==
    LET p == <<i>> \o q IN Ahead(js, p, Orient(js[i])[1], c) /\ Len(p) = Len(q) + 1

LEMMA OneStepMore ==
    ASSUME NEW js, NEW i \in DOMAIN js, NEW q, NEW c, Ahead(js, q, Orient(js[i])[2], c)
    PROVE  Further(js, i, q, c)
<1> DEFINE p == <<i>> \o q
<1>1. Walk(js, q) /\ Start(js, q) = Orient(js[i])[2] /\ Finish(js, q) = c
  BY DEF Ahead
<1>2. /\ Walk(js, p) /\ Len(p) = Len(q) + 1 /\ p[1] = i
      /\ Finish(js, p) = Finish(js, q)
  BY <1>1, WalkGrows
<1> HIDE DEF p
<1>3. Start(js, p) = Orient(js[i])[1]
  BY <1>2 DEF Start
<1>4. Ahead(js, p, Orient(js[i])[1], c) /\ Len(p) = Len(q) + 1
  BY <1>1, <1>2, <1>3 DEF Ahead
<1> QED
  BY <1>4 DEF Further, p

LEMMA EdgeIs ==
    ASSUME NEW js, NEW a, NEW b
    PROVE  <<a, b>> \in Edges(js) <=> \E i \in DOMAIN js : Orient(js[i]) = <<a, b>>
  BY DEF Edges

\* Two walks between the same tables take as many joins.
LEMMA AsLong ==
    ASSUME NEW js \in Seq(Join), Sound(js), NEW a, NEW c, NEW p, Ahead(js, p, a, c), NEW q, Ahead(js, q, a, c)
    PROVE  p = q
<1>1. Acyclic(js) /\ OneWay(js)
  BY DEF Sound
<1>2. p \in Paths(js) /\ q \in Paths(js)
  BY <1>1, PathsAreWalks DEF Ahead
<1> QED
  BY <1>1, <1>2 DEF OneWay, Ahead

\* From a fact, a join leads from one layer to the next.
Layered(js, f) ==
    /\ Ones(js, f) \cap Twos(js, f) = {} /\ f \notin Ones(js, f) \cup Twos(js, f)
    /\ \A a, b \in Layers(js, f) : <<a, b>> \in Edges(js) =>
         (a = f /\ b \in Ones(js, f)) \/ (a \in Ones(js, f) /\ b \in Twos(js, f))
    /\ \A z \in Twos(js, f) : \A y, x \in Ones(js, f) :
         <<y, z>> \in Edges(js) /\ <<x, z>> \in Edges(js) => y = x

LEMMA LayersAre ==
    ASSUME NEW js \in Seq(Join), Sound(js), NEW f \in Tables, \A a \in Tables : <<a, f>> \notin Edges(js)
    PROVE  Layered(js, f)
<1> DEFINE D1 == Ones(js, f)
           D2 == Twos(js, f)
           Far(c, n) == \E p : Ahead(js, p, f, c) /\ Len(p) = n
<1>1. ASSUME NEW c, Far(c, 1), Far(c, 2) \/ Far(c, 3) PROVE FALSE
  <2>1. PICK p : Ahead(js, p, f, c) /\ Len(p) = 1
    BY <1>1
  <2>2. PICK q : Ahead(js, q, f, c) /\ (Len(q) = 2 \/ Len(q) = 3)
    BY <1>1
  <2>3. p = q
    BY <2>1, <2>2, AsLong
  <2> QED
    BY <2>1, <2>2, <2>3
<1>2. ASSUME NEW c, Far(c, 2), Far(c, 3) PROVE FALSE
  <2>1. PICK p : Ahead(js, p, f, c) /\ Len(p) = 2
    BY <1>2
  <2>2. PICK q : Ahead(js, q, f, c) /\ Len(q) = 3
    BY <1>2
  <2>3. p = q
    BY <2>1, <2>2, AsLong
  <2>4. Len(p) = 2 /\ Len(p) = 3
    BY <2>1, <2>2, <2>3
  <2>5. 2 # 3
    OBVIOUS
  <2> QED
    BY <2>4, <2>5, Zenon
<1>3. ASSUME NEW x \in D1 PROVE Far(x, 1)
  <2>1. PICK i \in DOMAIN js : Orient(js[i]) = <<f, x>>
    BY EdgeIs DEF Ones
  <2>2. Orient(js[i])[1] = f /\ Orient(js[i])[2] = x
    BY <2>1
  <2> QED
    BY <2>2, OneStep
\* Two joins one after the other, and a third.
<1>4. ASSUME NEW y \in D1, NEW z \in Tables, <<y, z>> \in Edges(js)
      PROVE  \E p : Ahead(js, p, f, z) /\ Len(p) = 2 /\ \E i, k \in DOMAIN js : p = <<i>> \o <<k>> /\ Orient(js[k]) = <<y, z>>
  <2>1. PICK i \in DOMAIN js : Orient(js[i]) = <<f, y>>
    BY EdgeIs DEF Ones
  <2>2. PICK k \in DOMAIN js : Orient(js[k]) = <<y, z>>
    BY <1>4, EdgeIs
  <2> DEFINE q == <<k>>
             p == <<i>> \o q
  <2>3. Ahead(js, q, y, z) /\ Len(q) = 1
    <3>1. Orient(js[k])[1] = y /\ Orient(js[k])[2] = z
      BY <2>2
    <3> QED
      BY <3>1, OneStep
  <2> HIDE DEF q
  <2>4. Orient(js[i])[1] = f /\ Orient(js[i])[2] = y
    BY <2>1
  <2>5. Further(js, i, q, z)
    BY <2>3, <2>4, OneStepMore
  <2>6. Ahead(js, p, f, z) /\ Len(p) = 2
    BY <2>3, <2>4, <2>5 DEF Further
  <2>7. p = <<i>> \o <<k>>
    BY DEF q
  <2> HIDE DEF p
  <2> QED
    BY <2>2, <2>6, <2>7
<1>5. ASSUME NEW z \in D2 PROVE Far(z, 2)
  BY <1>4 DEF Twos
<1>6. ASSUME NEW z \in D2, NEW b, <<z, b>> \in Edges(js) PROVE Far(b, 3)
  <2>1. PICK y \in D1 : <<y, z>> \in Edges(js)
    BY DEF Twos
  <2>2. PICK i \in DOMAIN js : Orient(js[i]) = <<f, y>>
    BY EdgeIs DEF Ones
  <2>3. PICK k \in DOMAIN js : Orient(js[k]) = <<y, z>>
    BY <2>1, EdgeIs
  <2>4. PICK l \in DOMAIN js : Orient(js[l]) = <<z, b>>
    BY <1>6, EdgeIs
  <2>5. Orient(js[l])[1] = z /\ Orient(js[l])[2] = b /\ Orient(js[k])[1] = y /\ Orient(js[k])[2] = z
        /\ Orient(js[i])[1] = f /\ Orient(js[i])[2] = y
    BY <2>2, <2>3, <2>4
  <2>6. PICK q : Ahead(js, q, z, b) /\ Len(q) = 1
    BY <2>5, OneStep
  <2>7. PICK s : Ahead(js, s, y, b) /\ Len(s) = 2
    <3>1. Further(js, k, q, b)
      BY <2>5, <2>6, OneStepMore
    <3>2. Ahead(js, <<k>> \o q, y, b) /\ Len(<<k>> \o q) = 1 + 1
      BY <2>5, <2>6, <3>1 DEF Further
    <3>3. Len(<<k>> \o q) = 2
      BY <3>2
    <3> QED
      BY <3>2, <3>3, Zenon
  <2>8. Further(js, i, s, b)
    BY <2>5, <2>7, OneStepMore
  <2>9. Ahead(js, <<i>> \o s, f, b) /\ Len(<<i>> \o s) = 2 + 1
    BY <2>5, <2>7, <2>8 DEF Further
  <2>10. Len(<<i>> \o s) = 3
    BY <2>9
  <2> QED
    BY <2>9, <2>10, Zenon
<1> HIDE DEF Far
<1>7. D1 \in SUBSET Tables /\ D2 \in SUBSET Tables
  BY DEF Ones, Twos
<1>8. D1 \cap D2 = {}
  BY <1>1, <1>3, <1>5
<1>9. f \notin D1 /\ f \notin D2
  BY DEF Ones, Twos
<1>10. ASSUME NEW a \in Layers(js, f), NEW b \in Layers(js, f), <<a, b>> \in Edges(js)
       PROVE  (a = f /\ b \in D1) \/ (a \in D1 /\ b \in D2)
  <2>1. a \in Tables /\ b \in Tables /\ b # f
    BY <1>7, <1>10 DEF Layers
  <2>2. CASE a = f
    BY <1>10, <2>1, <2>2 DEF Ones
  <2>3. CASE a \in D1
    BY <1>10, <2>1, <2>3 DEF Twos
  <2>4. CASE a \in D2
    <3>1. Far(b, 3)
      BY <1>6, <1>10, <2>4
    <3>2. b \in D1 \/ b \in D2
      BY <2>1 DEF Layers
    <3> QED
      BY <1>1, <1>2, <1>3, <1>5, <3>1, <3>2
  <2> QED
    BY <2>2, <2>3, <2>4 DEF Layers
<1>11. ASSUME NEW z \in D2, NEW y \in D1, NEW x \in D1, <<y, z>> \in Edges(js), <<x, z>> \in Edges(js)
       PROVE  y = x
  <2>1. PICK p : Ahead(js, p, f, z) /\ \E i, k \in DOMAIN js : p = <<i>> \o <<k>> /\ Orient(js[k]) = <<y, z>>
    BY <1>4, <1>7, <1>11
  <2>2. PICK q : Ahead(js, q, f, z) /\ \E i, k \in DOMAIN js : q = <<i>> \o <<k>> /\ Orient(js[k]) = <<x, z>>
    BY <1>4, <1>7, <1>11
  <2>3. p = q
    BY <2>1, <2>2, AsLong
  <2>4. PICK i, k \in DOMAIN js : p = <<i>> \o <<k>> /\ Orient(js[k]) = <<y, z>>
    BY <2>1
  <2>5. PICK g, l \in DOMAIN js : q = <<g>> \o <<l>> /\ Orient(js[l]) = <<x, z>>
    BY <2>2
  <2>6. p[2] = k /\ q[2] = l
    BY <2>4, <2>5
  <2>7. k = l
    BY <2>3, <2>6
  <2>8. <<y, z>> = <<x, z>>
    BY <2>4, <2>5, <2>7
  <2> QED
    BY <2>8
<1> QED
  BY <1>8, <1>9, <1>10, <1>11 DEF Layered

LEMMA LinkOrients ==
    ASSUME NEW j \in Join, NEW t \in Tables, t \in Ends(j), NEW u, u = Other(j, t)
    PROVE  /\ Ends(j) = {t, u} /\ u \in Tables
           /\ Orient(j) = <<u, t>> \/ Orient(j) = <<t, u>>
           /\ Orient(j) = <<u, t>> /\ t # u /\ {j.fc, j.tc} = {"1", "*"} => CardOf(t, j) = "1"
<1>1. j.from \in Tables /\ j.to \in Tables
  BY DEF Join
<1>2. t = j.from \/ t = j.to
  BY DEF Ends
<1>3. Ends(j) = {t, u} /\ u \in Tables
  BY <1>1, <1>2 DEF Ends, Other
<1>4. Orient(j) = <<u, t>> \/ Orient(j) = <<t, u>>
  BY <1>2 DEF Other, Orient
<1>5. ASSUME Orient(j) = <<u, t>>, t # u, {j.fc, j.tc} = {"1", "*"} PROVE CardOf(t, j) = "1"
  <2>1. (j.fc = "1" /\ j.tc = "*") \/ (j.fc = "*" /\ j.tc = "1")
    BY <1>5
  <2>2. CASE j.fc = "1" /\ j.tc = "*"
    <3>1. Orient(j) = <<j.to, j.from>>
      BY <2>2 DEF Orient
    <3>2. t = j.from /\ t # j.to
      BY <1>5, <3>1
    <3> QED
      BY <2>2, <3>2 DEF CardOf
  <2>3. CASE j.fc = "*" /\ j.tc = "1"
    <3>1. Orient(j) = <<j.from, j.to>>
      BY <2>3 DEF Orient
    <3>2. t = j.to
      BY <1>5, <3>1
    <3> QED
      BY <2>3, <3>2 DEF CardOf
  <2> QED
    BY <2>1, <2>2, <2>3
<1> QED
  BY <1>3, <1>4, <1>5

LEMMA LinkIsEdge ==
    ASSUME NEW js \in Seq(Join), NEW u \in Tables, NEW t \in Tables
    PROVE  Linked(js, u, t) <=> <<u, t>> \in Edges(js) \/ <<t, u>> \in Edges(js)
<1>1. \A i \in DOMAIN js : js[i] \in Join
  BY EdgesType
<1>2. ASSUME Linked(js, u, t) PROVE <<u, t>> \in Edges(js) \/ <<t, u>> \in Edges(js)
  <2>1. PICK i \in DOMAIN js : u \in Ends(js[i]) /\ t = Other(js[i], u)
    BY <1>2 DEF Linked
  <2>2. Orient(js[i]) = <<t, u>> \/ Orient(js[i]) = <<u, t>>
    BY <1>1, <2>1, LinkOrients
  <2> QED
    BY <2>2, EdgeIs
<1>3. ASSUME NEW a, NEW b, <<a, b>> \in Edges(js)
      PROVE  \E i \in DOMAIN js : a \in Ends(js[i]) /\ b = Other(js[i], a)
  <2>1. PICK i \in DOMAIN js : Orient(js[i]) = <<a, b>>
    BY <1>3, EdgeIs
  <2>2. (a = js[i].from /\ b = js[i].to) \/ (a = js[i].to /\ b = js[i].from)
    BY <2>1 DEF Orient
  <2> QED
    BY <2>2 DEF Ends, Other
<1>4. ASSUME <<u, t>> \in Edges(js) PROVE Linked(js, u, t)
  BY <1>3, <1>4 DEF Linked
<1>5. ASSUME <<t, u>> \in Edges(js) PROVE Linked(js, u, t)
  <2>1. Linked(js, t, u)
    BY <1>3, <1>5 DEF Linked
  <2> QED
    BY <2>1, LinkedBack
<1> QED
  BY <1>2, <1>4, <1>5

\* What a join leads to is on its one side, and no fact.
LEMMA LedToIsNoFact ==
    ASSUME NEW js \in Seq(Join), AllManyToOne(js), NEW a, NEW b, <<a, b>> \in Edges(js)
    PROVE  b \notin RealFacts(js)
<1>1. PICK i \in DOMAIN js : Orient(js[i]) = <<a, b>>
  BY EdgeIs
<1>2. {js[i].fc, js[i].tc} = {"1", "*"}
  BY DEF AllManyToOne
<1>3. (js[i].fc = "1" /\ js[i].tc = "*") \/ (js[i].fc = "*" /\ js[i].tc = "1")
  BY <1>2
<1>4. CASE js[i].fc = "1" /\ js[i].tc = "*"
  <2>1. b = js[i].from
    BY <1>1, <1>4 DEF Orient
  <2> QED
    BY <1>4, <2>1 DEF RealFacts, OneSides
<1>5. CASE js[i].fc = "*" /\ js[i].tc = "1"
  <2>1. b = js[i].to
    BY <1>1, <1>5 DEF Orient
  <2> QED
    BY <1>5, <2>1 DEF RealFacts, OneSides
<1> QED
  BY <1>3, <1>4, <1>5

\* The highest score alone comes first.
LEMMA LeaderFirst ==
    ASSUME NEW js \in Seq(Join), NEW used \in Seq(Tables), Distinct(used), NEW f \in ToSet(used),
           \A t \in ToSet(used) : t # f => FactScore(js, t) < FactScore(js, f)
    PROVE  Head(ByScore(js, used)) = f
<1>1. Len(used) \in Nat /\ DOMAIN used = 1..Len(used) /\ \A n \in 1..Len(used) : used[n] \in Tables
  OBVIOUS
<1>2. PICK h : Places(h, js, used) /\ ByScore(js, used) = h[Len(used)]
  BY ByScoreInSteps
<1>3. h \in [0..Len(used) -> Seq(Tables)] /\ h[0] = <<>>
      /\ \A n \in 1..Len(used) : h[n] = Placed(h[n - 1], used[n], js)
  BY <1>2 DEF Places
<1>4. \A t : FactScore(js, t) \in Nat
  <2>1. ASSUME NEW t PROVE FactScore(js, t) \in Nat
    <3> DEFINE many == {i \in DOMAIN js : \/ js[i].fc = "*" /\ js[i].from = t
                                          \/ js[i].tc = "*" /\ js[i].to = t}
    <3>1. IsFiniteSet(DOMAIN js)
      <4>1. DOMAIN js = 1..Len(js) /\ Len(js) \in Nat
        OBVIOUS
      <4> QED
        BY <4>1, UpToCount
    <3>2. IsFiniteSet(many)
      BY <3>1, FS_Subset
    <3>3. Cardinality(many) \in Nat
      BY <3>2, FS_CardinalityType
    <3> QED
      BY <3>3 DEF FactScore
  <2> QED
    BY <2>1
<1> DEFINE Good(n) == /\ ToSet(h[n]) = {used[i] : i \in 1..n}
                      /\ f \in ToSet(h[n]) => 1 \in DOMAIN h[n] /\ h[n][1] = f
           P == {n \in 0..Len(used) : Good(n)}
<1>5. 0 \in P
  <2>1. DOMAIN h[0] = {} /\ 1..0 = {}
    BY <1>3
  <2>2. 0 \in 0..Len(used)
    BY <1>1
  <2> QED
    BY <2>1, <2>2 DEF ToSet
<1>6. ASSUME NEW n \in 1..Len(used), n - 1 \in P PROVE n \in P
  <2> DEFINE acc == h[n - 1]
             t == used[n]
             before == {i \in DOMAIN acc : FactScore(js, acc[i]) >= FactScore(js, t)}
             m == Cardinality(before) + 1
  <2>1. n - 1 \in 0..Len(used) /\ n \in 0..Len(used) /\ n \in Nat /\ n >= 1
    BY <1>1
  <2>2. acc \in Seq(Tables) /\ t \in Tables /\ h[n] = Placed(acc, t, js) /\ t \in ToSet(used)
    BY <1>1, <1>3, <2>1 DEF ToSet
  <2>3. ToSet(acc) = {used[i] : i \in 1..n - 1} /\ (f \in ToSet(acc) => 1 \in DOMAIN acc /\ acc[1] = f)
    BY <1>6
  <2>4. t \notin ToSet(acc) /\ ToSet(acc) \subseteq ToSet(used)
    <3>1. \A i \in 1..n - 1 : i \in DOMAIN used /\ n \in DOMAIN used /\ i # n
      BY <1>1
    <3> QED
      BY <2>3, <3>1 DEF Distinct, ToSet
  <2>5. h[n] = InsertAt(acc, m, t)
    BY <2>2 DEF Placed
  <2>6. ToSet(h[n]) = {used[i] : i \in 1..n}
    <3>1. ToSet(h[n]) = ToSet(acc) \cup {t}
      <4> HIDE DEF acc, t
      <4> QED
        BY <2>2, PlacedSet
    <3>2. {used[i] : i \in 1..n} = {used[i] : i \in 1..n - 1} \cup {used[n]}
      BY <2>1, OneMore
    <3> QED
      BY <2>3, <3>1, <3>2
  <2>7. Len(acc) \in Nat /\ DOMAIN acc = 1..Len(acc) /\ IsFiniteSet(DOMAIN acc)
        /\ Cardinality(DOMAIN acc) = Len(acc)
    <3>1. Len(acc) \in Nat /\ DOMAIN acc = 1..Len(acc)
      BY <2>2
    <3> QED
      BY <3>1, UpToCount
  <2>8. before \subseteq DOMAIN acc
    OBVIOUS
  <2>9. \A i \in DOMAIN acc : acc[i] \in ToSet(acc)
    BY DEF ToSet
  <2>10. \A i \in before : FactScore(js, acc[i]) >= FactScore(js, t)
    OBVIOUS
  <2>11. f \in ToSet(acc) => 1 \in before
    <3> HIDE DEF acc, t
    <3>1. SUFFICES ASSUME f \in ToSet(acc) PROVE 1 \in before
      OBVIOUS
    <3>2. 1 \in DOMAIN acc /\ acc[1] = f
      BY <2>3, <3>1
    <3>3. FactScore(js, t) < FactScore(js, f)
      BY <2>2, <2>4, <3>1
    <3>4. FactScore(js, acc[1]) >= FactScore(js, t)
      BY <1>4, <3>2, <3>3
    <3> QED
      BY <3>2, <3>4
  <2> HIDE DEF acc, t, before
  <2>12. IsFiniteSet(before) /\ Cardinality(before) \in Nat /\ Cardinality(before) <= Len(acc)
    BY <2>7, <2>8, FS_Subset, FS_CardinalityType
  <2>13. /\ m \in 1..Len(acc) + 1
         /\ h[n] = (SubSeq(acc, 1, m - 1) \o <<t>>) \o SubSeq(acc, m, Len(acc))
    BY <2>5, <2>7, <2>12 DEF InsertAt
  <2>14. CASE f \in ToSet(acc)
    <3>1. 1 \in before /\ 1 \in DOMAIN acc /\ acc[1] = f
      BY <2>3, <2>11, <2>14
    <3>2. Cardinality(before) # 0
      BY <2>12, <3>1, FS_EmptySet
    <3>3. m - 1 \in Nat /\ m - 1 >= 1 /\ m - 1 <= Len(acc)
      BY <2>12, <3>2
    <3> HIDE DEF m
    <3> DEFINE front == SubSeq(acc, 1, m - 1)
               back == SubSeq(acc, m, Len(acc))
    <3>4. Len(front) = m - 1 /\ front[1] = f /\ front \in Seq(Tables)
      BY <2>2, <2>7, <3>1, <3>3
    <3>5. back \in Seq(Tables)
      BY <2>2, <2>7, <2>13, CutSet
    <3>6. <<t>> \in Seq(Tables)
      BY <2>2
    <3>7. h[n] = (front \o <<t>>) \o back
      BY <2>13
    <3> HIDE DEF front, back
    <3>8. 1 \in DOMAIN front
      BY <3>3, <3>4
    <3>9. front \o <<t>> \in Seq(Tables) /\ 1 \in DOMAIN (front \o <<t>>) /\ (front \o <<t>>)[1] = f
      <4>1. Both(Tables, front, <<t>>)
        BY <3>4, <3>6, ConcatSet
      <4> QED
        BY <3>4, <3>8, <4>1 DEF Both
    <3> DEFINE most == front \o <<t>>
    <3> HIDE DEF most
    <3>10. 1 \in DOMAIN h[n] /\ h[n][1] = f
      <4>1. Both(Tables, most, back)
        BY <3>5, <3>9, ConcatSet DEF most
      <4> QED
        BY <3>7, <3>9, <4>1 DEF Both, most
    <3> QED
      BY <2>1, <2>6, <3>10
  <2>15. CASE f \notin ToSet(acc) /\ t = f
    <3>1. before = {}
      <4>1. ASSUME NEW i \in before PROVE FALSE
        <5>1. acc[i] \in ToSet(acc) /\ acc[i] # f /\ FactScore(js, acc[i]) >= FactScore(js, f)
          BY <2>8, <2>9, <2>10, <2>15
        <5>2. FactScore(js, acc[i]) < FactScore(js, f)
          BY <2>4, <5>1
        <5> QED
          BY <1>4, <5>1, <5>2
      <4> QED
        BY <4>1
    <3>2. m = 1
      BY <3>1, FS_EmptySet
    <3> DEFINE back == SubSeq(acc, m, Len(acc))
    <3>3. back \in Seq(Tables) /\ <<t>> \in Seq(Tables)
      BY <2>2, <2>7, <2>13, CutSet
    <3>4. SubSeq(acc, 1, m - 1) = <<>> /\ <<>> \o <<t>> = <<t>>
      BY <2>2, <3>2, <3>3
    <3>5. h[n] = <<t>> \o back
      BY <2>13, <3>3, <3>4
    <3> HIDE DEF back, m
    <3>6. 1 \in DOMAIN (<<t>> \o back) /\ (<<t>> \o back)[1] = t
      BY <3>3
    <3> QED
      BY <2>1, <2>6, <2>15, <3>5, <3>6
  <2>16. CASE f \notin ToSet(acc) /\ t # f
    <3>1. f \notin ToSet(h[n])
      <4>1. ToSet(h[n]) = ToSet(acc) \cup {t}
        BY <2>2, PlacedSet
      <4> QED
        BY <2>16, <4>1
    <3> QED
      BY <2>1, <2>6, <3>1
  <2> QED
    BY <2>14, <2>15, <2>16
<1> HIDE DEF P
<1>7. \A n \in 0..Len(used) : n \in P
  BY <1>1, <1>5, <1>6, UpTheRange
<1>8. Len(used) \in 0..Len(used)
  BY <1>1
<1>9. Good(Len(used)) /\ h[Len(used)] \in Seq(Tables)
  BY <1>3, <1>7, <1>8 DEF P
<1>10. ToSet(used) = {used[i] : i \in 1..Len(used)}
  BY <1>1 DEF ToSet
<1> DEFINE sorted == h[Len(used)]
<1>11. 1 \in DOMAIN sorted /\ sorted[1] = f /\ sorted \in Seq(Tables)
  BY <1>9, <1>10
<1> HIDE DEF sorted
<1>12. sorted # <<>>
  BY <1>11
<1>13. Head(sorted) = f
  BY <1>11, <1>12, TailSet
<1> QED
  BY <1>2, <1>13 DEF sorted

\* What the search has come to, once it has left the fact: the dimensions one
\* join away are in front of the queue, until what they lead to is met.
FrontIsNear(js, f, at) ==
    LET met == DOMAIN at.parent IN
    /\ f \in met
    /\ \A x \in Ones(js, f) : x \in met /\ at.parent[x] = f
    /\ \A z \in Twos(js, f) : z \in met => at.parent[z] \in Ones(js, f)
    /\ \E m \in 0..Len(at.queue) :
         /\ \A i \in 1..m : at.queue[i] \in Ones(js, f)
         /\ \A x \in Ones(js, f) : \/ \A z \in Tables : Linked(js, x, z) => z \in met
                                   \/ \E i \in 1..m : at.queue[i] = x

LEMMA FrontFirst ==
    ASSUME NEW js \in Seq(Join), NEW f \in Tables, \A a \in Tables : <<a, f>> \notin Edges(js), Layered(js, f)
    PROVE  FrontIsNear(js, f, Visit(js, FirstVisit(f)))
<1> DEFINE was == FirstVisit(f)
           new == New(js, was)
           at == Visit(js, was)
<1>1. was.queue = <<f>> /\ was.parent = [t \in {f} |-> NoTable]
  BY DEF FirstVisit
<1>2. was \in Visits
  <2>1. <<f>> \in Seq(Tables)
    OBVIOUS
  <2>2. [t \in {f} |-> NoTable] \in [{f} -> Tables \cup {NoTable}] /\ {f} \in SUBSET Tables
    OBVIOUS
  <2> QED
    BY <2>1, <2>2 DEF FirstVisit, Visits
<1>3. was.queue # <<>> /\ Head(was.queue) = f /\ Tail(was.queue) = <<>> /\ DOMAIN was.parent = {f}
  BY <1>1
<1> HIDE DEF was
<1>4. new \in Seq(Tables) /\ ToSet(new) = {u \in Tables : Linked(js, f, u)} \ {f}
  BY <1>2, <1>3, NewIs
<1>5. ToSet(new) = Ones(js, f)
  <2>1. \A u \in Tables : Linked(js, f, u) <=> <<f, u>> \in Edges(js)
    BY LinkIsEdge
  <2>2. f \notin Ones(js, f)
    BY DEF Ones
  <2> QED
    BY <1>4, <2>1, <2>2 DEF Ones
<1>6. /\ at.queue = <<>> \o new
      /\ at.parent = [t \in {f} \cup ToSet(new) |-> IF t \in ToSet(new) THEN f ELSE was.parent[t]]
  BY <1>3 DEF Visit, HungFrom
<1> HIDE DEF new
<1>7. at.queue = new
  BY <1>4, <1>6
<1> HIDE DEF at
<1>8. DOMAIN at.parent = {f} \cup Ones(js, f) /\ \A x \in Ones(js, f) : at.parent[x] = f
  BY <1>5, <1>6
<1>9. \A z \in Twos(js, f) : z \notin DOMAIN at.parent
  BY <1>8 DEF Layered
<1>10. Len(new) \in Nat /\ DOMAIN new = 1..Len(new)
  BY <1>4
<1>11. Len(new) \in 0..Len(at.queue)
  BY <1>7, <1>10
<1>12. \A i \in 1..Len(new) : at.queue[i] \in Ones(js, f)
  BY <1>5, <1>7, <1>10 DEF ToSet
<1>13. \A x \in Ones(js, f) : \E i \in 1..Len(new) : at.queue[i] = x
  BY <1>5, <1>7, <1>10 DEF ToSet
<1>14. FrontIsNear(js, f, at)
  BY <1>8, <1>9, <1>11, <1>12, <1>13 DEF FrontIsNear
<1> QED
  BY <1>14 DEF at, was

LEMMA FrontNext ==
    ASSUME NEW js \in Seq(Join), NEW f \in Tables, NEW was \in Visits, FrontIsNear(js, f, was)
    PROVE  FrontIsNear(js, f, Visit(js, was))
<1>1. CASE was.queue = <<>>
  BY <1>1 DEF Visit
<1>2. CASE was.queue # <<>>
  <2> DEFINE D1 == Ones(js, f)
             D2 == Twos(js, f)
             cur == Head(was.queue)
             new == New(js, was)
             at == Visit(js, was)
             met == DOMAIN was.parent
             rest == Tail(was.queue)
  <2>1. /\ f \in met
        /\ \A x \in D1 : x \in met /\ was.parent[x] = f
        /\ \A z \in D2 : z \in met => was.parent[z] \in D1
    BY DEF FrontIsNear
  <2>2. PICK m \in 0..Len(was.queue) :
          /\ \A i \in 1..m : was.queue[i] \in D1
          /\ \A x \in D1 : \/ \A z \in Tables : Linked(js, x, z) => z \in met
                           \/ \E i \in 1..m : was.queue[i] = x
    BY DEF FrontIsNear
  <2>3. was.queue \in Seq(Tables)
    BY VisitDomain
  <2>4. /\ cur \in Tables /\ cur = was.queue[1] /\ rest \in Seq(Tables) /\ Len(rest) = Len(was.queue) - 1
        /\ Len(was.queue) \in Nat /\ Len(was.queue) >= 1
    BY <1>2, <2>3, TailSet
  <2>5. \A i \in 1..Len(rest) : rest[i] = was.queue[i + 1]
    BY <1>2, <2>3, <2>4
  <2>6. new \in Seq(Tables) /\ ToSet(new) = {u \in Tables : Linked(js, cur, u)} \ met
    BY <1>2, NewIs
  <2>7. /\ at.queue = rest \o new
        /\ at.parent = [t \in met \cup ToSet(new) |-> IF t \in ToSet(new) THEN cur ELSE was.parent[t]]
    BY <1>2 DEF Visit, HungFrom
  <2> HIDE DEF cur, new, at, met, rest
  <2>8. DOMAIN at.parent = met \cup ToSet(new)
    BY <2>7
  <2>9. \A t \in met : at.parent[t] = was.parent[t]
    BY <2>6, <2>7
  <2>10. \A t \in ToSet(new) : at.parent[t] = cur
    BY <2>7
  <2>11. D1 \in SUBSET Tables /\ D2 \in SUBSET Tables
    BY DEF Ones, Twos
  <2> HIDE DEF D1
  <2>12. /\ Len(at.queue) = Len(rest) + Len(new) /\ Len(new) \in Nat /\ Len(rest) \in Nat
         /\ \A i \in 1..Len(rest) : at.queue[i] = rest[i]
    <3>1. Both(Tables, rest, new)
      BY <2>4, <2>6, ConcatSet
    <3>2. DOMAIN rest = 1..Len(rest) /\ Len(rest) \in Nat /\ Len(new) \in Nat
      BY <2>4, <2>6
    <3> QED
      BY <2>7, <3>1, <3>2 DEF Both
  <2>13. f \in DOMAIN at.parent /\ \A x \in D1 : x \in DOMAIN at.parent /\ at.parent[x] = f
    BY <2>1, <2>8, <2>9
  <2>14. ASSUME NEW x \in D1, x = cur \/ \A z \in Tables : Linked(js, x, z) => z \in met
         PROVE  \A z \in Tables : Linked(js, x, z) => z \in DOMAIN at.parent
    BY <2>6, <2>8, <2>14
  <2>15. CASE m = 0
    <3>1. \A x \in D1, z \in Tables : Linked(js, x, z) => z \in met
      <4>1. 1..m = {}
        BY <2>15
      <4> QED
        BY <2>2, <4>1
    <3>2. \A z \in D2 : z \in met
      <4>1. ASSUME NEW z \in D2 PROVE z \in met
        <5>1. PICK y \in D1 : <<y, z>> \in Edges(js)
          BY DEF Twos, D1
        <5>2. Linked(js, y, z)
          BY <2>11, <5>1, LinkIsEdge
        <5> QED
          BY <2>11, <3>1, <5>2
      <4> QED
        BY <4>1
    <3>3. \A z \in D2 : z \in DOMAIN at.parent => at.parent[z] \in D1
      BY <2>1, <2>9, <3>2
    <3>4. \A x \in D1 : \A z \in Tables : Linked(js, x, z) => z \in DOMAIN at.parent
      BY <2>8, <3>1
    <3>5. 0 \in 0..Len(at.queue) /\ \A i \in 1..0 : at.queue[i] \in D1
      BY <2>12
    <3> QED
      BY <2>13, <3>3, <3>4, <3>5 DEF FrontIsNear, D1, at
  <2>16. CASE m # 0
    <3>1. m - 1 \in 0..Len(at.queue) /\ m - 1 <= Len(rest) /\ m \in Nat /\ 1 \in 1..m
      BY <2>2, <2>4, <2>12, <2>16
    <3>2. cur \in D1
      BY <2>2, <2>4, <3>1
    <3>3. \A z \in D2 : z \in DOMAIN at.parent => at.parent[z] \in D1
      BY <2>1, <2>8, <2>9, <2>10, <3>2
    <3>4. \A i \in 1..m - 1 : i \in 1..Len(rest) /\ i + 1 \in 1..m
      BY <2>12, <3>1
    <3>5. \A i \in 1..m - 1 : at.queue[i] = was.queue[i + 1]
      BY <2>5, <2>12, <3>4
    <3>6. \A i \in 1..m - 1 : at.queue[i] \in D1
      BY <2>2, <3>4, <3>5
    <3>7. ASSUME NEW x \in D1
          PROVE  \/ \A z \in Tables : Linked(js, x, z) => z \in DOMAIN at.parent
                 \/ \E i \in 1..m - 1 : at.queue[i] = x
      <4>1. CASE \A z \in Tables : Linked(js, x, z) => z \in met
        BY <2>14, <4>1
      <4>2. CASE \E i \in 1..m : was.queue[i] = x
        <5>1. PICK i \in 1..m : was.queue[i] = x
          BY <4>2
        <5>2. CASE i = 1
          <6>1. x = cur
            BY <2>4, <5>1, <5>2
          <6> QED
            BY <2>14, <6>1
        <5>3. CASE i # 1
          <6>1. i - 1 \in 1..m - 1 /\ (i - 1) + 1 = i
            BY <3>1, <5>3
          <6>2. at.queue[i - 1] = x
            BY <3>5, <5>1, <6>1
          <6> QED
            BY <6>1, <6>2
        <5> QED
          BY <5>2, <5>3
      <4> QED
        BY <2>2, <4>1, <4>2
    <3> QED
      BY <2>13, <3>1, <3>3, <3>6, <3>7 DEF FrontIsNear, D1, at
  <2> QED
    BY <2>15, <2>16
<1> QED
  BY <1>1, <1>2

\* So each hangs from the join that leads to it.
LEMMA NearParents ==
    ASSUME NEW js \in Seq(Join), NEW f \in Tables, \A a \in Tables : <<a, f>> \notin Edges(js), Layered(js, f)
    PROVE  /\ \A x \in Ones(js, f) : Parents(js, f)[x] = f
           /\ \A z \in Twos(js, f) : z \in DOMAIN Parents(js, f) => Parents(js, f)[z] \in Ones(js, f)
<1> DEFINE N == Cardinality(Tables)
<1>1. N \in Nat /\ N >= 1
  <2>1. IsFiniteSet(Tables) /\ N \in Nat
    BY GraphAssumption, FS_CardinalityType
  <2>2. N # 0
    BY <2>1, FS_EmptySet
  <2> QED
    BY <2>1, <2>2
<1>2. PICK g : Search(g, js, f) /\ Parents(js, f) = g[N].parent
  BY ParentsInSteps
<1>3. g \in [0..N -> Visits] /\ g[0] = FirstVisit(f) /\ \A n \in 1..N : g[n] = Visit(js, g[n - 1])
  BY <1>2 DEF Search
<1> DEFINE P == {n \in 0..N : n = 0 \/ FrontIsNear(js, f, g[n])}
<1> HIDE DEF N
<1>4. 0 \in P
  BY <1>1
<1>5. ASSUME NEW n \in 1..N, n - 1 \in P PROVE n \in P
  <2>1. n - 1 \in 0..N /\ n \in 0..N
    BY <1>1
  <2>2. g[n - 1] \in Visits /\ g[n] = Visit(js, g[n - 1])
    BY <1>3, <2>1
  <2>3. CASE n - 1 = 0
    BY <1>3, <2>1, <2>2, <2>3, FrontFirst
  <2>4. CASE n - 1 # 0
    <3>1. FrontIsNear(js, f, g[n - 1])
      BY <1>5, <2>4
    <3> QED
      BY <2>1, <2>2, <3>1, FrontNext
  <2> QED
    BY <2>3, <2>4
<1> HIDE DEF P
<1>6. \A n \in 0..N : n \in P
  BY <1>1, <1>4, <1>5, UpTheRange
<1>7. FrontIsNear(js, f, g[N])
  <2>1. N \in 0..N /\ N # 0
    BY <1>1
  <2> QED
    BY <1>6, <2>1 DEF P
<1> QED
  BY <1>2, <1>7 DEF FrontIsNear

\* A way up stays among tables that hang from one another.
LEMMA BridgesWithin ==
    ASSUME NEW C, NEW root \in C, NEW parent \in [C -> C \cup {NoTable}], NEW t \in C,
           NEW W, t \in W, W \subseteq C, \A b \in W : parent[b] \in W \cup {NoTable}
    PROVE  ToSet(Bridges(parent, root, t)) \subseteq W
<1> DEFINE N == Cardinality(Tables)
<1>1. N \in Nat
  BY GraphAssumption, FS_CardinalityType
<1>2. PICK g : Climb(g, C, parent, root, t) /\ Bridges(parent, root, t) = Among(g[N], Tables \ {root})
  <2>1. Climbs(C, parent, root, t)
    BY BridgesInSteps
  <2> QED
    BY <2>1 DEF Climbs
<1>3. /\ g \in [0..N -> Ups(C)] /\ g[0] = <<parent[t]>>
      /\ \A n \in 1..N : g[n] = Up(parent, root, g[n - 1])
  BY <1>2 DEF Climb
<1> DEFINE P == {n \in 0..N : ToSet(g[n]) \subseteq W \cup {NoTable}}
<1> HIDE DEF N
<1>4. 0 \in P
  <2>1. ToSet(<<parent[t]>>) = {parent[t]}
    BY OneSet
  <2>2. 0 \in 0..N
    BY <1>1
  <2> QED
    BY <1>3, <2>1, <2>2
<1>5. ASSUME NEW n \in 1..N, n - 1 \in P PROVE n \in P
  <2> DEFINE was == g[n - 1]
             top == Last(was)
  <2>1. n - 1 \in 0..N /\ n \in 0..N /\ was \in Ups(C) /\ g[n] = Up(parent, root, was)
    BY <1>1, <1>3
  <2>2. ToSet(was) \subseteq W \cup {NoTable}
    BY <1>5
  <2> HIDE DEF was, top
  <2>3. was \in Seq(C \cup {NoTable}) /\ top \in ToSet(was)
    BY <2>1, LastIn DEF top
  <2>4. CASE top \in {root, NoTable}
    <3>1. g[n] = was
      BY <2>1, <2>4 DEF Up, top
    <3> QED
      BY <2>1, <2>2, <3>1
  <2>5. CASE top \notin {root, NoTable}
    <3>1. g[n] = Append(was, parent[top])
      BY <2>1, <2>5 DEF Up, top
    <3>2. top \in W /\ parent[top] \in W \cup {NoTable} /\ parent[top] \in C \cup {NoTable}
      BY <2>2, <2>3, <2>5
    <3>3. ToSet(g[n]) = ToSet(was) \cup {parent[top]}
      BY <2>3, <3>1, <3>2, AppendSet
    <3> QED
      BY <2>1, <2>2, <3>2, <3>3
  <2> QED
    BY <2>4, <2>5
<1> HIDE DEF P
<1>6. \A n \in 0..N : n \in P
  BY <1>1, <1>4, <1>5, UpTheRange
<1>7. N \in 0..N
  BY <1>1
<1>8. ToSet(g[N]) \subseteq W \cup {NoTable} /\ g[N] \in Seq(C \cup {NoTable})
  BY <1>3, <1>6, <1>7 DEF P, Ups
<1>9. ToSet(Among(g[N], Tables \ {root})) = ToSet(g[N]) \cap (Tables \ {root})
  BY <1>8, AmongSet
<1> QED
  BY <1>2, <1>8, <1>9, GraphAssumption

LEMMA ListWithin ==
    ASSUME NEW js \in Seq(Join), NEW root \in Tables, NEW parent, NEW rank, Tree(js, root, parent, rank),
           NEW sorted \in Seq(Tables), NEW W, ToSet(sorted) \subseteq W, W \subseteq Connected(js, root),
           \A b \in W : parent[b] \in W \cup {NoTable}
    PROVE  ToSet(ListOf(sorted, parent, root)) \subseteq W
<1> DEFINE C == Connected(js, root)
           N == Len(sorted)
<1>1. N \in Nat /\ DOMAIN sorted = 1..N /\ \A n \in 1..N : sorted[n] \in ToSet(sorted)
  <2>1. N \in Nat /\ DOMAIN sorted = 1..N
    OBVIOUS
  <2> QED
    BY <2>1 DEF ToSet
<1>2. Rooted(parent, root)
  BY DEF Rooted
<1>3. PICK h : Grows(h, sorted, parent, root) /\ ListOf(sorted, parent, root) = h[N]
  BY <1>2, ListInSteps
<1>4. /\ h \in [0..N -> Seq(Tables)] /\ h[0] = sorted
      /\ \A n \in 1..N : h[n] = Longer(h[n - 1], sorted[n], parent, root)
  BY <1>3 DEF Grows
<1>5. parent \in [C -> C \cup {NoTable}] /\ root \in C
  <2>1. parent \in [C -> Tables \cup {NoTable}] /\ parent[root] = NoTable
        /\ \A b \in C : b # root => parent[b] \in C
    BY DEF Tree
  <2>2. \A b \in C : parent[b] \in C \cup {NoTable}
    BY <2>1
  <2>3. root \in C
    BY ConnectedIs
  <2> HIDE DEF C
  <2> QED
    BY <2>1, <2>2, <2>3
<1> HIDE DEF C, N
<1>6. ASSUME NEW t \in W PROVE ToSet(Way(parent, root, t)) \subseteq W
  <2>1. t \in C /\ t \in DOMAIN parent
    BY <1>5 DEF C
  <2>2. ToSet(Bridges(parent, root, t)) \subseteq W
    BY <1>5, <2>1, BridgesWithin DEF C
  <2> QED
    BY <2>1, <2>2 DEF Way
<1> DEFINE P == {n \in 0..N : ToSet(h[n]) \subseteq W}
<1>7. 0 \in P
  <2>1. 0 \in 0..N
    BY <1>1
  <2> QED
    BY <1>4, <2>1
<1>8. ASSUME NEW n \in 1..N, n - 1 \in P PROVE n \in P
  <2> DEFINE acc == h[n - 1]
             t == sorted[n]
  <2>1. n - 1 \in 0..N /\ n \in 0..N /\ acc \in Seq(Tables) /\ h[n] = Longer(acc, t, parent, root) /\ t \in W
    BY <1>1, <1>4
  <2>2. ToSet(acc) \subseteq W
    BY <1>8
  <2> HIDE DEF acc, t
  <2>3. WellGrown(acc, t, parent, root)
    BY <1>2, <2>1, GrownSet
  <2>4. ToSet(h[n]) = ToSet(acc) \cup ToSet(Way(parent, root, t))
    BY <2>1, <2>3 DEF WellGrown
  <2> QED
    BY <1>6, <2>1, <2>2, <2>4
<1> HIDE DEF P
<1>9. \A n \in 0..N : n \in P
  BY <1>1, <1>7, <1>8, UpTheRange
<1>10. N \in 0..N
  BY <1>1
<1> QED
  BY <1>3, <1>9, <1>10 DEF P

\* What stays one row for each of the fact's: the least set that has the fact
\* and is closed under the joins taken towards their one side.
OneSideOf(taken, C) ==
    \A j \in taken, t \in Tables : t \in Ends(j) /\ CardOf(t, j) = "1" /\ Other(j, t) \in C => t \in C

LEMMA RowsOnceIs ==
    ASSUME NEW js, NEW taken \in SUBSET Join, NEW f \in Tables
    PROVE  /\ RowsOnce(js, taken, f) \in SUBSET Tables /\ f \in RowsOnce(js, taken, f)
           /\ OneSideOf(taken, RowsOnce(js, taken, f))
           /\ \A C \in SUBSET Tables : f \in C /\ OneSideOf(taken, C) => RowsOnce(js, taken, f) \subseteq C
<1> DEFINE pairs == {e \in taken \X Tables : e[2] \in Ends(e[1]) /\ CardOf(e[2], e[1]) = "1"}
           edges == {<<Other(e[1], e[2]), e[2]>> : e \in pairs}
           R == Reach(edges, {f})
<1>1. RowsOnce(js, taken, f) = R
  BY DEF RowsOnce
<1>2. edges \in SUBSET (Tables \X Tables)
  <2>1. ASSUME NEW e \in pairs PROVE <<Other(e[1], e[2]), e[2]>> \in Tables \X Tables
    <3>1. e[1] \in Join /\ e[2] \in Tables
      OBVIOUS
    <3>2. e[1].from \in Tables /\ e[1].to \in Tables
      BY <3>1 DEF Join
    <3> QED
      BY <3>1, <3>2 DEF Other
  <2> QED
    BY <2>1
<1>3. \A C : Closed(edges, C) <=> OneSideOf(taken, C)
  <2>1. ASSUME NEW C, Closed(edges, C) PROVE OneSideOf(taken, C)
    <3>1. ASSUME NEW j \in taken, NEW t \in Tables, t \in Ends(j), CardOf(t, j) = "1", Other(j, t) \in C
          PROVE  t \in C
      <4>1. <<j, t>> \in pairs
        BY <3>1
      <4>2. <<Other(j, t), t>> \in edges
        BY <4>1
      <4> HIDE DEF edges
      <4> QED
        BY <2>1, <3>1, <4>2 DEF Closed
    <3> QED
      BY <3>1 DEF OneSideOf
  <2>2. ASSUME NEW C, OneSideOf(taken, C) PROVE Closed(edges, C)
    <3>1. ASSUME NEW e \in edges, e[1] \in C PROVE e[2] \in C
      <4>1. PICK p \in pairs : e = <<Other(p[1], p[2]), p[2]>>
        OBVIOUS
      <4>2. p[1] \in taken /\ p[2] \in Tables /\ p[2] \in Ends(p[1]) /\ CardOf(p[2], p[1]) = "1"
        OBVIOUS
      <4>3. e[1] = Other(p[1], p[2]) /\ e[2] = p[2]
        BY <4>1
      <4> QED
        BY <2>2, <3>1, <4>2, <4>3 DEF OneSideOf
    <3> QED
      BY <3>1 DEF Closed
  <2> QED
    BY <2>1, <2>2
<1>4. {f} \in SUBSET Tables
  OBVIOUS
<1> HIDE DEF edges
<1>5. /\ R \in SUBSET Tables /\ {f} \subseteq R /\ Closed(edges, R)
      /\ \A C \in SUBSET Tables : {f} \subseteq C /\ Closed(edges, C) => R \subseteq C
  BY <1>2, <1>4, ReachIs
<1> HIDE DEF R
<1> QED
  BY <1>1, <1>3, <1>5

LEMMA RowsOnceGrows ==
    ASSUME NEW js, NEW taken \in SUBSET Join, NEW more \in SUBSET Join, taken \subseteq more, NEW f \in Tables
    PROVE  RowsOnce(js, taken, f) \subseteq RowsOnce(js, more, f)
<1>1. RowsOnce(js, more, f) \in SUBSET Tables /\ f \in RowsOnce(js, more, f)
      /\ OneSideOf(more, RowsOnce(js, more, f))
  BY RowsOnceIs
<1>2. OneSideOf(taken, RowsOnce(js, more, f))
  BY <1>1 DEF OneSideOf
<1> QED
  BY <1>1, <1>2, RowsOnceIs

\* The tables taken are the fact's, one layer after the other.
Spread(js, f, at) ==
    /\ f \in at.tables /\ at.tables \cup ToSet(at.left) \subseteq Layers(js, f)
    /\ at.tables \subseteq RowsOnce(js, at.joins, f)
    /\ \A j \in at.joins : Ends(j) \subseteq at.tables
    /\ \A z \in Twos(js, f) : z \in at.tables =>
         \E y \in Ones(js, f) : y \in at.tables /\ <<y, z>> \in Edges(js)

LEMMA SpreadNext ==
    ASSUME NEW js \in Seq(Join), AllManyToOne(js), NEW f \in Tables, Layered(js, f),
           NEW at \in Takes, Spread(js, f, at)
    PROVE  Spread(js, f, Take(js, at))
<1> DEFINE to == Take(js, at)
           D1 == Ones(js, f)
           D2 == Twos(js, f)
<1>1. Stepped(js, at)
  BY TakeIs
<1>2. CASE Ready(js, at) = {}
  BY <1>1, <1>2 DEF Stepped
<1>3. CASE Ready(js, at) # {}
  <2>1. PICK t \in Tables, u \in at.tables, j \in ToSet(js) :
          /\ t \in ToSet(at.left) /\ t \in Ends(j) /\ u = Other(j, t)
          /\ to.tables = at.tables \cup {t} /\ to.joins = at.joins \cup {j}
          /\ ToSet(at.left) = {t} \cup ToSet(to.left)
    BY <1>1, <1>3 DEF Stepped
  <2>2. PICK i \in DOMAIN js : js[i] = j
    BY <2>1 DEF ToSet
  <2>3. j \in Join /\ {j.fc, j.tc} = {"1", "*"}
    BY <2>2, EdgesType DEF AllManyToOne
  <2>4. Ends(j) = {t, u} /\ (Orient(j) = <<u, t>> \/ Orient(j) = <<t, u>>)
        /\ (Orient(j) = <<u, t>> /\ t # u => CardOf(t, j) = "1")
    BY <2>1, <2>3, LinkOrients
  <2> HIDE DEF to, D1, D2
  <2>5. /\ f \in at.tables /\ at.tables \subseteq Layers(js, f) /\ ToSet(at.left) \subseteq Layers(js, f)
        /\ at.tables \subseteq RowsOnce(js, at.joins, f)
        /\ \A k \in at.joins : Ends(k) \subseteq at.tables
        /\ \A z \in D2 : z \in at.tables => \E y \in D1 : y \in at.tables /\ <<y, z>> \in Edges(js)
    BY DEF Spread, D1, D2
  <2>6. t \in Layers(js, f) /\ u \in Layers(js, f)
    BY <2>1, <2>5
  <2>7. /\ D1 \cap D2 = {} /\ f \notin D1 \cup D2
        /\ \A a, b \in Layers(js, f) : <<a, b>> \in Edges(js) => (a = f /\ b \in D1) \/ (a \in D1 /\ b \in D2)
        /\ \A z \in D2 : \A y, x \in D1 : <<y, z>> \in Edges(js) /\ <<x, z>> \in Edges(js) => y = x
    BY DEF Layered, D1, D2
  <2>8. to.tables \cup ToSet(to.left) \subseteq Layers(js, f) /\ f \in to.tables
        /\ \A k \in to.joins : Ends(k) \subseteq to.tables
    BY <2>1, <2>4, <2>5, <2>6
  <2>9. at.joins \in SUBSET Join /\ to.joins \in SUBSET Join /\ at.joins \subseteq to.joins /\ j \in to.joins
    BY <2>1, <2>3 DEF Takes
  <2>10. at.tables \subseteq RowsOnce(js, to.joins, f)
    BY <2>5, <2>9, RowsOnceGrows
  <2>11. CASE Orient(j) = <<u, t>>
    <3>1. <<u, t>> \in Edges(js)
      BY <2>2, <2>11, EdgeIs
    <3>2. (u = f /\ t \in D1) \/ (u \in D1 /\ t \in D2)
      BY <2>6, <2>7, <3>1
    <3>3. CardOf(t, j) = "1"
      BY <2>4, <2>7, <2>11, <3>2
    <3>4. OneSideOf(to.joins, RowsOnce(js, to.joins, f))
      BY <2>9, RowsOnceIs
    <3>5. t \in RowsOnce(js, to.joins, f)
      BY <2>1, <2>9, <2>10, <3>3, <3>4 DEF OneSideOf
    <3>6. to.tables \subseteq RowsOnce(js, to.joins, f)
      BY <2>1, <2>10, <3>5
    <3>7. \A z \in D2 : z \in to.tables => \E y \in D1 : y \in to.tables /\ <<y, z>> \in Edges(js)
      BY <2>1, <2>5, <2>7, <3>1, <3>2
    <3> QED
      BY <2>8, <3>6, <3>7 DEF Spread, D1, D2, to
  <2>12. CASE Orient(j) = <<t, u>>
    <3>1. <<t, u>> \in Edges(js)
      BY <2>2, <2>12, EdgeIs
    <3>2. (t = f /\ u \in D1) \/ (t \in D1 /\ u \in D2)
      BY <2>6, <2>7, <3>1
    <3>3. t \in at.tables
      <4>1. CASE t = f
        BY <2>5, <4>1
      <4>2. CASE t \in D1 /\ u \in D2
        <5>1. PICK y \in D1 : y \in at.tables /\ <<y, u>> \in Edges(js)
          BY <2>1, <2>5, <4>2
        <5>2. y = t
          BY <2>7, <3>1, <4>2, <5>1
        <5> QED
          BY <5>1, <5>2
      <4> QED
        BY <3>2, <4>1, <4>2
    <3>4. to.tables = at.tables
      BY <2>1, <3>3
    <3> QED
      BY <2>5, <2>8, <2>10, <3>4 DEF Spread, D1, D2, to
  <2> QED
    BY <2>4, <2>11, <2>12
<1> QED
  BY <1>2, <1>3

LEMMA SpreadAtLast ==
    ASSUME NEW js \in Seq(Join), AllManyToOne(js), NEW f \in Tables, Layered(js, f),
           NEW list \in Seq(Tables), AtFront(f, list), ToSet(list) \subseteq Layers(js, f),
           NEW from, FromIn(from, js, list)
    PROVE  from \in Takes /\ Spread(js, f, from)
<1> DEFINE N == Len(list) - 1
<1>1. N \in Nat /\ list # <<>>
  <2>1. 1 \in DOMAIN list
    BY DEF AtFront
  <2> QED
    BY <2>1
<1>2. Head(list) = f /\ ToSet(list) = {Head(list)} \cup ToSet(Tail(list))
  <2>1. Head(list) = list[1] /\ ToSet(list) = {Head(list)} \cup ToSet(Tail(list))
    BY <1>1, TailSet
  <2> QED
    BY <2>1 DEF AtFront
<1>3. PICK c : Taking(c, js, list) /\ from = c[N]
  BY DEF FromIn
<1>4. c \in [0..N -> Takes] /\ c[0] = FirstTake(list) /\ \A n \in 1..N : c[n] = Take(js, c[n - 1])
  BY <1>3 DEF Taking
<1> DEFINE P == {n \in 0..N : Spread(js, f, c[n])}
<1> HIDE DEF N
<1>5. 0 \in P
  <2>1. 0 \in 0..N
    BY <1>1
  <2>2. c[0].tables = {f} /\ c[0].joins = {} /\ c[0].left = Tail(list)
    BY <1>2, <1>4 DEF FirstTake
  <2>3. f \in RowsOnce(js, {}, f)
    BY RowsOnceIs
  <2>4. f \notin Twos(js, f)
    BY DEF Layered
  <2>5. Spread(js, f, c[0])
    BY <1>2, <2>2, <2>3, <2>4 DEF Spread, Layers
  <2> QED
    BY <2>1, <2>5
<1>6. ASSUME NEW n \in 1..N, n - 1 \in P PROVE n \in P
  <2>1. n - 1 \in 0..N /\ n \in 0..N
    BY <1>1
  <2>2. c[n - 1] \in Takes /\ c[n] = Take(js, c[n - 1]) /\ Spread(js, f, c[n - 1])
    BY <1>4, <1>6, <2>1
  <2> QED
    BY <2>1, <2>2, SpreadNext
<1> HIDE DEF P
<1>7. \A n \in 0..N : n \in P
  BY <1>1, <1>5, <1>6, UpTheRange
<1>8. N \in 0..N
  BY <1>1
<1> QED
  BY <1>3, <1>4, <1>7, <1>8 DEF P

LEMMA NearQuery ==
    ASSUME NEW js \in Seq(Join), Sound(js), AllManyToOne(js), NEW f \in RealFacts(js),
           NEW dims \in SUBSET Near(js, f), Leads(js, f, dims), NEW used \in Orders({f} \cup dims)
    PROVE  LET from == FromClause(js, used) IN
           /\ from.tables \cap RealFacts(js) = {f}
           /\ from.tables = RowsOnce(js, from.joins, f)
<1> DEFINE S == {f} \cup dims
           D1 == Ones(js, f)
           D2 == Twos(js, f)
           C == Connected(js, f)
           sorted == ByScore(js, used)
           parent == Parents(js, f)
           list == TableList(js, used)
           from == FromClause(js, used)
<1>1. f \in Tables /\ \A i \in DOMAIN js : js[i].from \in Tables /\ js[i].to \in Tables
  <2>1. \A i \in DOMAIN js : js[i] \in Join
    BY EdgesType
  <2>2. \A i \in DOMAIN js : js[i].from \in Tables /\ js[i].to \in Tables
    BY <2>1 DEF Join
  <2> QED
    BY <2>2 DEF RealFacts, ManySides
<1>2. \A a : <<a, f>> \notin Edges(js)
  BY LedToIsNoFact
<1>3. Layered(js, f)
  BY <1>1, <1>2, LayersAre
<1>4. dims \subseteq D1 \cup D2
  <2>1. ASSUME NEW d \in Near(js, f) PROVE d \in D1 \cup D2
    <3>1. CASE \E e \in Edges(js) : e[1] = f /\ d = e[2]
      <4>1. <<f, d>> \in Edges(js) /\ d \in Tables
        BY <3>1, EdgesType
      <4> QED
        BY <4>1 DEF Ones
    <3>2. CASE \E e \in Edges(js) : d = e[2] /\ \E g \in Edges(js) : g[1] = f /\ e[1] = g[2]
      <4>1. PICK e \in Edges(js), g \in Edges(js) : d = e[2] /\ g[1] = f /\ e[1] = g[2]
        BY <3>2
      <4>2. e \in Tables \X Tables /\ g \in Tables \X Tables
        BY EdgesType
      <4>3. e = <<e[1], e[2]>> /\ g = <<g[1], g[2]>>
        BY <4>2
      <4>4. <<f, g[2]>> \in Edges(js) /\ <<g[2], d>> \in Edges(js) /\ g[2] \in Tables /\ d \in Tables
        BY <4>1, <4>2, <4>3
      <4> QED
        BY <4>4 DEF Ones, Twos
    <3> QED
      BY <3>1, <3>2 DEF Near
  <2> QED
    BY <2>1
<1>5. D1 \in SUBSET Tables /\ D2 \in SUBSET Tables
  BY DEF Ones, Twos
<1>6. S \in SUBSET Tables /\ S # {} /\ S \subseteq Layers(js, f)
  BY <1>1, <1>4, <1>5 DEF Layers
<1> HIDE DEF D1, D2, S
<1>7. used \in Orders(S)
  BY DEF S
<1>8. used \in Seq(Tables) /\ Distinct(used) /\ ToSet(used) = S /\ Len(used) \in Nat /\ Len(used) # 0
  BY <1>6, <1>7, OrdersAre
<1>9. sorted \in Seq(Tables) /\ Len(sorted) = Len(used) /\ ToSet(sorted) = S /\ Distinct(sorted)
  BY <1>8, ByScoreIs
<1>10. Head(sorted) = f
  <2>1. f \in ToSet(used)
    BY <1>8 DEF S
  <2>2. \A t \in ToSet(used) : t # f => FactScore(js, t) < FactScore(js, f)
    BY <1>8 DEF S, Leads
  <2> QED
    BY <1>8, <2>1, <2>2, LeaderFirst
<1>11. list = ListOf(sorted, parent, f)
  BY <1>10, TableListIs
<1> HIDE DEF sorted
<1>12. AtFront(f, sorted)
  BY <1>8, <1>9, <1>10, HeadAtFront
<1>13. PICK rank : Tree(js, f, parent, rank)
  BY <1>1, ParentsIs
<1>14. DOMAIN parent = C /\ parent[f] = NoTable
  BY <1>13 DEF Tree
<1>15. Layers(js, f) \subseteq C
  <2>1. f \in C /\ \A u \in C, v \in Tables : Linked(js, u, v) => v \in C
    BY <1>1, ConnectedIs
  <2>2. \A u, v \in Tables : <<u, v>> \in Edges(js) => Linked(js, u, v)
    BY LinkIsEdge
  <2> HIDE DEF C
  <2>3. \A x \in D1 : x \in C
    BY <1>1, <2>1, <2>2 DEF Ones, D1
  <2>4. \A z \in D2 : z \in C
    <3>1. ASSUME NEW z \in D2 PROVE z \in C
      <4>1. PICK y \in D1 : <<y, z>> \in Edges(js)
        BY DEF D1, D2, Twos
      <4> QED
        BY <1>5, <2>1, <2>2, <2>3, <4>1
    <3> QED
      BY <3>1
  <2> QED
    BY <2>1, <2>3, <2>4 DEF Layers, D1, D2
<1>16. /\ \A x \in D1 : parent[x] = f
       /\ \A z \in D2 : z \in DOMAIN parent => parent[z] \in D1
  BY <1>1, <1>2, <1>3, NearParents DEF D1, D2
<1>17. \A b \in Layers(js, f) : parent[b] \in Layers(js, f) \cup {NoTable}
  BY <1>14, <1>15, <1>16 DEF Layers, D1, D2
<1> HIDE DEF parent
<1>18. ToSet(list) \subseteq Layers(js, f)
  BY <1>1, <1>6, <1>9, <1>11, <1>13, <1>15, <1>17, ListWithin DEF C
<1>19. Listed(list, S, C, parent, f)
  BY <1>1, <1>9, <1>11, <1>12, <1>13, ListIs DEF C
<1>20. list \in Seq(Tables) /\ AtFront(f, list)
  BY <1>19 DEF Listed
<1>21. FromIn(from, js, list)
  <2>1. 1 \in DOMAIN list
    BY <1>20 DEF AtFront
  <2>2. list # <<>>
    <3> HIDE DEF list
    <3> QED
      BY <2>1
  <2> QED
    BY <1>20, <2>2, FromClauseInSteps
<1> HIDE DEF list, from, C
<1>22. from \in Takes /\ Spread(js, f, from)
  BY <1>1, <1>3, <1>18, <1>20, <1>21, SpreadAtLast
<1>23. from.tables \in SUBSET Tables /\ from.joins \in SUBSET Join
  BY <1>22 DEF Takes
<1>24. from.tables = RowsOnce(js, from.joins, f)
  <2>1. OneSideOf(from.joins, from.tables)
    BY <1>22 DEF OneSideOf, Spread
  <2>2. f \in from.tables /\ from.tables \subseteq RowsOnce(js, from.joins, f)
    BY <1>22 DEF Spread
  <2>3. RowsOnce(js, from.joins, f) \subseteq from.tables
    BY <1>1, <1>23, <2>1, <2>2, RowsOnceIs
  <2> QED
    BY <2>2, <2>3
<1>25. from.tables \cap RealFacts(js) = {f}
  <2>1. \A x \in D1 \cup D2 : x \notin RealFacts(js)
    BY LedToIsNoFact DEF D1, D2, Ones, Twos
  <2>2. f \in from.tables /\ from.tables \subseteq {f} \cup D1 \cup D2
    BY <1>22 DEF Spread, Layers, D1, D2
  <2> QED
    BY <2>1, <2>2
<1> QED
  BY <1>24, <1>25 DEF from

\* "Each build query joins exactly one fact and conformed dimensions: no
\* fan-out" (fromClause.js): whatever the sound draft of many-to-one joins the
\* editor has come to, a query of a fact that has more joins than each of its
\* dimensions, two joins away at most, counts each of the fact's rows once, in
\* whatever order its fields are met.
THEOREM NearDimensionsNeverFanOut == Spec => []NearDimensionsDoNotFanOut
<1>1. EditInv => NearDimensionsDoNotFanOut
  <2>1. SUFFICES ASSUME EditInv PROVE NearDimensionsDoNotFanOut
    OBVIOUS
  <2>2. joins \in Seq(Join)
    BY <2>1, DraftJoins DEF EditInv
  <2>3. ASSUME Sound(joins), AllManyToOne(joins), NEW f \in RealFacts(joins), NEW dims \in SUBSET Near(joins, f),
               Leads(joins, f, dims)
        PROVE  NoFanOut(joins, f, dims)
    BY <2>2, <2>3, NearQuery DEF NoFanOut
  <2> QED
    BY <2>3 DEF NearDimensionsDoNotFanOut
<1> QED
  BY <1>1, EditInvariance, PTL
=============================================================================
