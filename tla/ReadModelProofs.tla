-------------------------- MODULE ReadModelProofs --------------------------
(***************************************************************************)
(* For every set of envelopes: a row of the property catalog spans exactly *)
(* the times of the messages whose entries reached it, in whatever order   *)
(* and however often they were upserted; what it suggests finds rows; and  *)
(* for all queries, limits and orders of writes, a listing skips no row    *)
(* there was when it began, is as long as the counts around it allow,      *)
(* shows rows of its own source only, and every acknowledged event that it *)
(* asks for.                                                               *)
(***************************************************************************)
EXTENDS ReadModel, FiniteSetTheorems, TLAPS

(* Row spans the times of S: it is Unseen while there are none.            *)
Spans(row, S) ==
  IF S = {} THEN row = Catalog!Unseen
  ELSE {row.first, row.last} \subseteq S /\ \A t \in S : row.first <= t /\ t <= row.last

Seen(d) == {Envelope[m].event_time : m \in Observers(d)}

CatalogInv ==
  /\ DOMAIN definitions = Catalog!Definitions
  /\ catalog \subseteq Message
  /\ \A d \in DOMAIN definitions : Spans(definitions[d], Seen(d))

LEMMA InvImpliesExact == CatalogInv => CatalogExact
  BY DEF CatalogInv, CatalogExact, Spans, Seen

(* One more time.                                                          *)
LEMMA MergeSpans ==
  ASSUME NEW S \in SUBSET (Nat \ {0}), NEW t \in Nat \ {0}, NEW row, Spans(row, S)
  PROVE  Spans(Catalog!Merge(row, [first |-> t, last |-> t]), S \cup {t})
<1> DEFINE merged == Catalog!Merge(row, [first |-> t, last |-> t])
<1>1. CASE S = {}
  BY <1>1 DEF Spans, Catalog!Merge
<1>2. CASE S # {}
  <2>1. row.first \in S /\ row.last \in S /\ \A u \in S : row.first <= u /\ u <= row.last
    BY <1>2 DEF Spans
  <2>2. row # Catalog!Unseen
    BY <2>1 DEF Catalog!Unseen
  <2>3. /\ merged.first = IF t < row.first THEN t ELSE row.first
        /\ merged.last = IF t > row.last THEN t ELSE row.last
    BY <2>2 DEF Catalog!Merge
  <2> HIDE DEF merged
  <2>4. merged.first \in S \cup {t} /\ merged.last \in S \cup {t}
    BY <2>1, <2>3
  <2>5. ASSUME NEW u \in S \cup {t} PROVE merged.first <= u /\ u <= merged.last
    <3>1. row.first \in Nat /\ row.last \in Nat /\ u \in Nat
      BY <2>1
    <3>2. CASE u \in S
      BY <2>1, <2>3, <3>1, <3>2
    <3>3. CASE u = t
      BY <2>3, <3>1, <3>3
    <3>4. QED
      BY <3>2, <3>3
  <2>6. Spans(merged, S \cup {t})
    BY <2>4, <2>5 DEF Spans
  <2>7. QED
    BY <2>6 DEF merged
<1>3. QED
  BY <1>1, <1>2

(* The records of one envelope have one time: its event time.              *)
LEMMA FlattenTime ==
  ASSUME NEW m \in Message, NEW r \in Catalog!Flatten(m)
  PROVE  Catalog!ObservedAt(r) = Envelope[m].event_time
  BY ReadAssumption DEF Catalog!Flatten, Catalog!ObservedAt

Built(m) == {Catalog!Definition(r) : r \in Catalog!Flatten(m)}

LEMMA EntryOfOne ==
  ASSUME NEW m \in Message, NEW d \in Built(m)
  PROVE  Catalog!Entry(Catalog!Flatten(m), d)
           = [first |-> Envelope[m].event_time, last |-> Envelope[m].event_time]
<1>1. Catalog!Times(Catalog!Flatten(m), d) = {Envelope[m].event_time}
  BY FlattenTime DEF Catalog!Times, Built
<1>2. Envelope[m].event_time \in Nat
  BY ReadAssumption
<1> DEFINE t == Envelope[m].event_time
<1> HIDE DEF t
<1>3. /\ (CHOOSE u \in {t} : \A v \in {t} : u <= v) = t
      /\ (CHOOSE u \in {t} : \A v \in {t} : u >= v) = t
  BY <1>2 DEF t
<1>4. QED
  BY <1>1, <1>3 DEF Catalog!Entry, t

LEMMA ObserversIn == ASSUME NEW d, catalog \subseteq Message PROVE Seen(d) \subseteq Nat \ {0}
  BY ReadAssumption DEF Seen, Observers

LEMMA UpsertInv ==
  ASSUME CatalogInv, NEW m \in Message, UpsertEntries(m)
  PROVE  CatalogInv'
<1>1. catalog' = catalog \cup {m} /\ catalog' \subseteq Message
  BY DEF CatalogInv, UpsertEntries, Writes!UpsertEntries
<1>2. definitions' = [d \in DOMAIN definitions |->
                        IF d \in Built(m)
                        THEN Catalog!Merge(definitions[d], Catalog!Entry(Catalog!Flatten(m), d))
                        ELSE definitions[d]]
  BY DEF UpsertEntries, Catalog!Upsert, Built
<1>3. ASSUME NEW d \in DOMAIN definitions
      PROVE  Spans(definitions'[d], Seen(d)')
  <2>1. CASE d \in Built(m)
    <3>1. Observers(d)' = Observers(d) \cup {m}
      BY <1>1, <2>1 DEF Observers, Built
    <3>2. Seen(d)' = Seen(d) \cup {Envelope[m].event_time}
      BY <3>1 DEF Seen
    <3>3. definitions'[d] = Catalog!Merge(definitions[d],
             [first |-> Envelope[m].event_time, last |-> Envelope[m].event_time])
      BY <1>2, <2>1, EntryOfOne
    <3>4. Seen(d) \in SUBSET (Nat \ {0}) /\ Envelope[m].event_time \in Nat \ {0}
      BY ObserversIn, ReadAssumption DEF CatalogInv
    <3>5. Spans(definitions[d], Seen(d))
      BY DEF CatalogInv
    <3>6. QED
      BY <3>2, <3>3, <3>4, <3>5, MergeSpans
  <2>2. CASE d \notin Built(m)
    <3>1. Observers(d)' = Observers(d)
      BY <1>1, <2>2 DEF Observers, Built
    <3>2. Seen(d)' = Seen(d) /\ definitions'[d] = definitions[d]
      BY <1>2, <2>2, <3>1 DEF Seen
    <3>3. QED
      BY <3>2 DEF CatalogInv
  <2>3. QED
    BY <2>1, <2>2
<1>4. DOMAIN definitions' = DOMAIN definitions
  BY <1>2
<1>5. QED
  BY <1>1, <1>3, <1>4 DEF CatalogInv

LEMMA ElsewhereInv ==
  ASSUME CatalogInv, UNCHANGED <<catalog, definitions>>
  PROVE  CatalogInv'
<1>1. \A d : Seen(d)' = Seen(d)
  BY DEF Seen, Observers
<1>2. QED
  BY <1>1 DEF CatalogInv

LEMMA NextCatalogInv == CatalogInv /\ [Next]_vars => CatalogInv'
<1> SUFFICES ASSUME CatalogInv, [Next]_vars PROVE CatalogInv'
  OBVIOUS
<1>1. ASSUME NEW m \in Message, UpsertEntries(m) PROVE CatalogInv'
  BY <1>1, UpsertInv
<1>2. ASSUME NEW m \in Message, StoreEvent(m) \/ StoreProperties(m) \/ AcknowledgeBare(m)
      PROVE  UNCHANGED <<catalog, definitions>>
  BY <1>2 DEF StoreEvent, StoreProperties, AcknowledgeBare, Writes!StoreEvent,
     Writes!StoreProperties, Writes!AcknowledgeBare
<1>3. ASSUME NEW source \in DOMAIN Table, CreateTable(source)
      PROVE  UNCHANGED <<catalog, definitions>>
  BY <1>3 DEF CreateTable, writeVars
<1>4. CASE Read
  BY <1>4, ElsewhereInv
  DEF Read, CountEvents, ListEvents, ReadFails, ListRealtime, writeVars
<1>5. CASE UNCHANGED vars
  BY <1>5, ElsewhereInv DEF vars, writeVars
<1>6. QED
  BY <1>1, <1>2, <1>3, <1>4, <1>5, ElsewhereInv DEF Next, Ingest

(* LEAST and GREATEST make upserts commute and repeat harmlessly: a row's  *)
(* first and last times are the least and the greatest of its observers',  *)
(* for any envelopes, deliveries and repetitions.                          *)
THEOREM CatalogSpansItsObservers == Spec => []CatalogExact
<1>1. Init => CatalogInv
  BY DEF Init, Writes!Init, CatalogInv, Spans, Seen, Observers
<1>2. QED
  BY <1>1, NextCatalogInv, InvImpliesExact, PTL DEF Spec

-----------------------------------------------------------------------------
(* Positions in a sorted listing.                                          *)

(* A downward-closed set of positions is an interval from 1.               *)
LEMMA DownClosed ==
  ASSUME NEW N \in Nat, NEW D \in SUBSET (1 .. N),
         \A j \in D : \A i \in 1 .. j : i \in D
  PROVE  Cardinality(D) \in Nat /\ D = 1 .. Cardinality(D)
<1>1. IsFiniteSet(D) /\ Cardinality(D) \in Nat
  <2>1. IsFiniteSet(1 .. N)
    BY FS_Interval
  <2>2. QED
    BY <2>1, FS_Subset, FS_CardinalityType
<1>2. ASSUME NEW j \in D PROVE j \in 1 .. Cardinality(D)
  <2>1. 1 .. j \in SUBSET D /\ j \in Nat \ {0}
    OBVIOUS
  <2>2. Cardinality(1 .. j) <= Cardinality(D)
    BY <1>1, <2>1, FS_Subset
  <2>3. Cardinality(1 .. j) = j
    BY <2>1, FS_Interval
  <2>4. QED
    BY <1>1, <2>1, <2>2, <2>3
<1>3. IsFiniteSet(1 .. Cardinality(D)) /\ Cardinality(1 .. Cardinality(D)) = Cardinality(D)
  BY <1>1, FS_Interval
<1>4. D \in SUBSET (1 .. Cardinality(D))
  BY <1>2
<1>5. QED
  BY <1>1, <1>3, <1>4, FS_Subset

(* A sequence of all elements of a set holds those of a part at as many    *)
(* positions as the part has elements.                                     *)
LEMMA PositionsOf ==
  ASSUME NEW S, IsFiniteSet(S), NEW s \in SetToSeqs(S), NEW T \in SUBSET S
  PROVE  /\ s \in [1 .. Cardinality(S) -> S] /\ Cardinality(S) \in Nat
         /\ Cardinality({i \in 1 .. Cardinality(S) : s[i] \in T}) = Cardinality(T)
<1> DEFINE D == 1 .. Cardinality(S)
           P == {i \in D : s[i] \in T}
           f == [i \in P |-> s[i]]
<1>1. /\ Cardinality(S) \in Nat /\ IsFiniteSet(D) /\ Cardinality(D) = Cardinality(S)
  BY FS_CardinalityType, FS_Interval
<1>2. s \in [D -> S] /\ \A i, j \in D : i # j => s[i] # s[j]
  BY DEF SetToSeqs
<1> HIDE DEF D
<1>3. s \in Surjection(D, S)
  <2>1. s \in Injection(D, S)
    BY <1>2 DEF Injection, IsInjective
  <2>2. QED
    BY <1>1, <2>1, FS_Injection
<1>4. f \in Bijection(P, T)
  <2>1. f \in [P -> T] /\ DOMAIN f = P
    BY <1>2
  <2>2. \A i, j \in P : f[i] = f[j] => i = j
    BY <1>2
  <2>3. ASSUME NEW t \in T PROVE \E i \in P : f[i] = t
    <3>1. PICK i \in D : s[i] = t
      BY <1>3 DEF Surjection
    <3>2. QED
      BY <3>1
  <2> HIDE DEF f, P
  <2>4. QED
    BY <2>1, <2>2, <2>3 DEF Bijection, Injection, Surjection, IsInjective
<1>5. IsFiniteSet(P)
  BY <1>1, FS_Subset
<1>6. ExistsBijection(P, T)
  BY <1>4 DEF ExistsBijection
<1> HIDE DEF P
<1>7. Cardinality(P) = Cardinality(T)
  BY <1>5, <1>6, FS_Bijection
<1>8. QED
  BY <1>1, <1>2, <1>7 DEF P, D

(* The order of a valid query, column by column.                           *)
Before(direction, a, b) == IF direction = "asc" THEN a < b ELSE a > b

Lexical(order, x, y) ==
  \E i \in DOMAIN order :
    /\ Before(order[i][2], x[order[i][1]], y[order[i][1]])
    /\ \A j \in 1 .. i - 1 : x[order[j][1]] = y[order[j][1]]

TwoColumns(o, f, d, g) ==
  DOMAIN o = {1, 2} /\ o[1] = <<f, d>> /\ o[2] = <<g, "desc">>
ThreeColumns(o, f, d, g, h) ==
  DOMAIN o = {1, 2, 3} /\ o[1] = <<f, d>> /\ o[2] = <<g, "desc">> /\ o[3] = <<h, "desc">>

LEMMA LexicalTwo ==
  ASSUME NEW o, NEW f, NEW d, NEW g, NEW x, NEW y, TwoColumns(o, f, d, g)
  PROVE  Lexical(o, x, y) <=> Before(d, x[f], y[f]) \/ (x[f] = y[f] /\ x[g] > y[g])
<1>1. /\ DOMAIN o = {1, 2} /\ o[1][1] = f /\ o[1][2] = d /\ o[2][1] = g /\ o[2][2] = "desc"
      /\ 1 .. 1 - 1 = {} /\ 1 .. 2 - 1 = {1}
  BY DEF TwoColumns
<1>2. Lexical(o, x, y) <=>
        \/ Before(o[1][2], x[o[1][1]], y[o[1][1]])
        \/ Before(o[2][2], x[o[2][1]], y[o[2][1]]) /\ x[o[1][1]] = y[o[1][1]]
  BY <1>1 DEF Lexical
<1>3. QED
  BY <1>1, <1>2 DEF Before

LEMMA LexicalThree ==
  ASSUME NEW o, NEW f, NEW d, NEW g, NEW h, NEW x, NEW y, ThreeColumns(o, f, d, g, h)
  PROVE  Lexical(o, x, y) <=>
           \/ Before(d, x[f], y[f])
           \/ x[f] = y[f] /\ x[g] > y[g]
           \/ x[f] = y[f] /\ x[g] = y[g] /\ x[h] > y[h]
<1>1. /\ DOMAIN o = {1, 2, 3} /\ o[1][1] = f /\ o[1][2] = d /\ o[2][1] = g /\ o[2][2] = "desc"
      /\ o[3][1] = h /\ o[3][2] = "desc"
      /\ 1 .. 1 - 1 = {} /\ 1 .. 2 - 1 = {1} /\ 1 .. 3 - 1 = {1, 2}
  BY DEF ThreeColumns
<1>2. Lexical(o, x, y) <=>
        \/ Before(o[1][2], x[o[1][1]], y[o[1][1]])
        \/ Before(o[2][2], x[o[2][1]], y[o[2][1]]) /\ x[o[1][1]] = y[o[1][1]]
        \/ /\ Before(o[3][2], x[o[3][1]], y[o[3][1]])
           /\ x[o[1][1]] = y[o[1][1]] /\ x[o[2][1]] = y[o[2][1]]
  BY <1>1 DEF Lexical
<1>3. QED
  BY <1>1, <1>2 DEF Before

LEMMA OrderOf ==
  ASSUME NEW q, ValidQuery(q)
  PROVE  \/ TwoColumns(OrderBy(q), "event_time", Direction(q), "received_at")
         \/ TwoColumns(OrderBy(q), "received_at", Direction(q), "event_time")
         \/ ThreeColumns(OrderBy(q), "event_name", Direction(q), "event_time", "received_at")
<1>1. Sort(q) \in {"event_time", "received_at", "event_name"}
  BY DEF ValidQuery, SortFields
<1>2. CASE Sort(q) = "event_time"
  <2>1. OrderBy(q) = <<<<"event_time", Direction(q)>>>> \o (<<>> \o <<<<"received_at", "desc">>>>)
    BY <1>2, Zenon DEF OrderBy, TieBreakers
  <2>2. QED
    BY <2>1 DEF TwoColumns
<1>3. CASE Sort(q) = "received_at"
  <2>1. OrderBy(q) = <<<<"received_at", Direction(q)>>>> \o (<<<<"event_time", "desc">>>> \o <<>>)
    BY <1>3, Zenon DEF OrderBy, TieBreakers
  <2>2. QED
    BY <2>1 DEF TwoColumns
<1>4. CASE Sort(q) = "event_name"
  <2>1. OrderBy(q) = <<<<"event_name", Direction(q)>>>>
                       \o (<<<<"event_time", "desc">>>> \o <<<<"received_at", "desc">>>>)
    BY <1>4, Zenon DEF OrderBy, TieBreakers
  <2>2. QED
    BY <2>1 DEF ThreeColumns
<1>5. QED
  BY <1>1, <1>2, <1>3, <1>4

LEMMA PrecedesLexical ==
  ASSUME NEW q, NEW m, NEW n
  PROVE  Precedes(q, m, n) <=> Lexical(OrderBy(q), Envelope[m], Envelope[n])
  BY Zenon DEF Precedes, Lexical, Before

Columns(m) ==
  /\ Envelope[m].event_time \in Nat /\ Envelope[m].received_at \in Nat
  /\ Envelope[m].event_name \in Nat

(* The order is a strict weak one, and total on messages whose times       *)
(* differ.                                                                 *)
LEMMA OrderFacts ==
  ASSUME NEW q, ValidQuery(q), NEW x \in Message, NEW y \in Message, NEW z \in Message
  PROVE  /\ Precedes(q, y, z) /\ ~ Precedes(q, y, x) => Precedes(q, x, z)
         /\ ~ Precedes(q, x, x)
         /\ \/ Envelope[x].event_time # Envelope[y].event_time
            \/ Envelope[x].received_at # Envelope[y].received_at
            => Precedes(q, x, y) \/ Precedes(q, y, x)
<1>1. Columns(x) /\ Columns(y) /\ Columns(z)
  BY ReadAssumption DEF Columns
<1>2. CASE TwoColumns(OrderBy(q), "event_time", Direction(q), "received_at")
  <2>1. ASSUME NEW m, NEW n
        PROVE  Precedes(q, m, n) <=>
                 \/ Before(Direction(q), Envelope[m].event_time, Envelope[n].event_time)
                 \/ /\ Envelope[m].event_time = Envelope[n].event_time
                    /\ Envelope[m].received_at > Envelope[n].received_at
    BY <1>2, PrecedesLexical, LexicalTwo
  <2>2. QED
    BY <1>1, <2>1 DEF Before, Columns
<1>3. CASE TwoColumns(OrderBy(q), "received_at", Direction(q), "event_time")
  <2>1. ASSUME NEW m, NEW n
        PROVE  Precedes(q, m, n) <=>
                 \/ Before(Direction(q), Envelope[m].received_at, Envelope[n].received_at)
                 \/ /\ Envelope[m].received_at = Envelope[n].received_at
                    /\ Envelope[m].event_time > Envelope[n].event_time
    BY <1>3, PrecedesLexical, LexicalTwo
  <2>2. QED
    BY <1>1, <2>1 DEF Before, Columns
<1>4. CASE ThreeColumns(OrderBy(q), "event_name", Direction(q), "event_time", "received_at")
  <2>1. ASSUME NEW m, NEW n
        PROVE  Precedes(q, m, n) <=>
                 \/ Before(Direction(q), Envelope[m].event_name, Envelope[n].event_name)
                 \/ /\ Envelope[m].event_name = Envelope[n].event_name
                    /\ Envelope[m].event_time > Envelope[n].event_time
                 \/ /\ Envelope[m].event_name = Envelope[n].event_name
                    /\ Envelope[m].event_time = Envelope[n].event_time
                    /\ Envelope[m].received_at > Envelope[n].received_at
    BY <1>4, PrecedesLexical, LexicalThree
  <2>2. QED
    BY <1>1, <2>1 DEF Before, Columns
<1>5. QED
  BY <1>2, <1>3, <1>4, OrderOf

Candidates(q) == {m \in Message : MatchesColumns(q, m)}
Ahead(q, n, S) == {r \in S : Precedes(q, r[1], n)}
Of(n, S) == {r \in S : r[1] = n}
SortedBy(q, s) == \A i, j \in DOMAIN s : i < j => ~ Precedes(q, s[j][1], s[i][1])

(* In a sorted listing, the rows of a message follow each other, after     *)
(* those that precede it, when no times tie.                               *)
LEMMA Block ==
  ASSUME NEW q, ValidQuery(q), TimesDiffer(q), NEW S, IsFiniteSet(S),
         S \subseteq Candidates(q) \X Nat,
         NEW s \in SetToSeqs(S), SortedBy(q, s), NEW n \in Candidates(q)
  PROVE  /\ s \in [1 .. Cardinality(S) -> S] /\ Cardinality(S) \in Nat
         /\ Cardinality(Ahead(q, n, S)) \in Nat /\ Cardinality(Of(n, S)) \in Nat
         /\ Cardinality(Ahead(q, n, S)) + Cardinality(Of(n, S)) <= Cardinality(S)
         /\ \A i \in 1 .. Cardinality(S) :
              s[i][1] = n <=>
                /\ Cardinality(Ahead(q, n, S)) < i
                /\ i <= Cardinality(Ahead(q, n, S)) + Cardinality(Of(n, S))
<1> DEFINE N == Cardinality(S)
           A == Ahead(q, n, S)
           F == Of(n, S)
           DA == {i \in 1 .. N : s[i] \in A}
           DF == {i \in 1 .. N : s[i] \in A \cup F}
<1>1. /\ A \subseteq S /\ F \subseteq S
      /\ IsFiniteSet(A) /\ IsFiniteSet(F) /\ Cardinality(A) \in Nat /\ Cardinality(F) \in Nat
  BY FS_Subset, FS_CardinalityType DEF Ahead, Of
<1>2. /\ s \in [1 .. N -> S] /\ N \in Nat
      /\ Cardinality(DA) = Cardinality(A) /\ Cardinality(DF) = Cardinality(A \cup F)
  <2>1. A \in SUBSET S /\ (A \cup F) \in SUBSET S
    BY <1>1
  <2>2. Cardinality(DA) = Cardinality(A)
    BY <2>1, PositionsOf
  <2>3. Cardinality(DF) = Cardinality(A \cup F)
    BY <2>1, PositionsOf
  <2>4. QED
    BY <2>1, <2>2, <2>3, PositionsOf
<1>3. \A i \in 1 .. N : s[i] \in S /\ s[i][1] \in Candidates(q) /\ s[i][1] \in Message
  BY <1>2 DEF Candidates
<1>4. n \in Message /\ ~ Precedes(q, n, n)
  BY OrderFacts DEF Candidates
<1>5. \A i \in 1 .. N : /\ s[i] \in A <=> Precedes(q, s[i][1], n)
                        /\ s[i] \in F <=> s[i][1] = n
  BY <1>3 DEF Ahead, Of
<1>6. ASSUME NEW j \in 1 .. N, NEW i \in 1 .. j
      PROVE  /\ i \in 1 .. N
             /\ Precedes(q, s[j][1], n) => Precedes(q, s[i][1], n)
             /\ s[j][1] = n => s[i][1] = n \/ Precedes(q, s[i][1], n)
  <2>1. i \in 1 .. N
    BY <1>2
  <2>2. CASE i = j
    BY <2>1, <2>2
  <2>3. CASE i # j
    <3>1. ~ Precedes(q, s[j][1], s[i][1])
      BY <1>2, <2>1, <2>3 DEF SortedBy
    <3>2. Precedes(q, s[j][1], n) => Precedes(q, s[i][1], n)
      BY <1>3, <1>4, <2>1, <3>1, OrderFacts
    <3>3. ASSUME s[j][1] = n, s[i][1] # n PROVE Precedes(q, s[i][1], n)
      <4>1. PICK x : x = s[i][1]
        OBVIOUS
      <4>2. x \in Candidates(q) /\ x \in Message /\ x # n /\ ~ Precedes(q, n, x)
        BY <1>3, <2>1, <3>1, <3>3, <4>1
      <4>3. \/ Envelope[x].event_time # Envelope[n].event_time
            \/ Envelope[x].received_at # Envelope[n].received_at
        BY <4>2 DEF TimesDiffer, Candidates
      <4>4. QED
        BY <1>4, <4>1, <4>2, <4>3, OrderFacts
    <3>4. QED
      BY <2>1, <3>2, <3>3
  <2>4. QED
    BY <2>2, <2>3
<1> HIDE DEF N, A, F
<1>7. DA = 1 .. Cardinality(A)
  <2>1. DA \in SUBSET (1 .. N) /\ N \in Nat
    BY <1>2
  <2>2. \A j \in DA : \A i \in 1 .. j : i \in DA
    BY <1>5, <1>6
  <2> HIDE DEF DA
  <2>3. QED
    BY <1>2, <2>1, <2>2, DownClosed
<1>8. DF = 1 .. Cardinality(A \cup F)
  <2>1. DF \in SUBSET (1 .. N) /\ N \in Nat
    BY <1>2
  <2>2. \A j \in DF : \A i \in 1 .. j : i \in DF
    BY <1>5, <1>6
  <2> HIDE DEF DF
  <2>3. QED
    BY <1>2, <2>1, <2>2, DownClosed
<1>9. Cardinality(A \cup F) = Cardinality(A) + Cardinality(F)
  <2>1. A \cap F = {}
    BY <1>4 DEF A, F, Ahead, Of
  <2>2. Cardinality(A \cup F) = Cardinality(A) + Cardinality(F) - Cardinality(A \cap F)
    BY <1>1, FS_Union
  <2>3. Cardinality(A \cap F) = 0
    BY <2>1, FS_EmptySet
  <2>4. QED
    BY <1>1, <2>2, <2>3
<1>10. Cardinality(A \cup F) <= N
  BY <1>1, FS_Subset DEF N
<1>11. ASSUME NEW i \in 1 .. N
       PROVE  s[i][1] = n <=> Cardinality(A) < i /\ i <= Cardinality(A) + Cardinality(F)
  <2>1. s[i][1] = n <=> i \in DF /\ i \notin DA
    BY <1>4, <1>5
  <2> HIDE DEF DA, DF
  <2>2. i \in Nat /\ Cardinality(A) \in Nat /\ Cardinality(F) \in Nat
    BY <1>1, <1>2
  <2>3. QED
    BY <1>7, <1>8, <1>9, <2>1, <2>2
<1>12. QED
  BY <1>1, <1>2, <1>9, <1>11, <1>10 DEF N, A, F

LEMMA LimitPositive ==
  ASSUME NEW q \in EventListQuery
  PROVE  PageLimit(q) \in Nat \ {0}
<1>1. q.limit \in Int
  BY DEF EventListQuery
<1>2. QED
  BY <1>1, PolicyAssumption DEF PageLimit, NormalizeLimit

LEMMA MinOfTwo ==
  ASSUME NEW a \in Int, NEW b \in Int
  PROVE  Min({a, b}) = IF a <= b THEN a ELSE b
<1> DEFINE m == IF a <= b THEN a ELSE b
<1>1. m \in {a, b} /\ \A y \in {a, b} : m <= y
  OBVIOUS
<1>2. \A x \in {a, b} : (\A y \in {a, b} : x <= y) => x = m
  OBVIOUS
<1> HIDE DEF m
<1>3. (CHOOSE x \in {a, b} : \A y \in {a, b} : x <= y) = m
  BY <1>1, <1>2
<1>4. QED
  BY <1>3 DEF Min, m

(* A page is a stretch of the sorted rows.                                 *)
LEMMA PageOf ==
  ASSUME NEW q \in EventListQuery, q.offset \in Nat, NEW S, IsFiniteSet(S),
         NEW page \in Pages(q, S)
  PROVE  \E s \in SetToSeqs(S) : \E last \in Int :
           /\ SortedBy(q, s)
           /\ last = IF q.offset + PageLimit(q) <= Cardinality(S)
                     THEN q.offset + PageLimit(q) ELSE Cardinality(S)
           /\ page = [i \in 1 .. last - q.offset |-> s[q.offset + i][1]]
<1> DEFINE last == Min({q.offset + PageLimit(q), Cardinality(S)})
<1>1. Cardinality(S) \in Nat /\ PageLimit(q) \in Nat \ {0}
  BY LimitPositive, FS_CardinalityType
<1>2. last = (IF q.offset + PageLimit(q) <= Cardinality(S)
              THEN q.offset + PageLimit(q) ELSE Cardinality(S)) /\ last \in Int
  BY <1>1, MinOfTwo
<1>3. PICK s \in SetToSeqs(S) : SortedBy(q, s)
                               /\ page = [i \in 1 .. last - q.offset |-> s[q.offset + i][1]]
  BY Zenon DEF Pages, SortedBy
<1>4. QED
  BY <1>2, <1>3

-----------------------------------------------------------------------------
(* What is written: tables come before rows, rows before property rows,    *)
(* and both before the catalog and the acknowledgement.                    *)
Visible(m) == Writes!Stored(m) /\ (m \notin Bare => Writes!Indexed(m))

WriteInv ==
  /\ rows \in [Message -> Nat] /\ propertyRows \in [Message -> Nat]
  /\ acked \subseteq Message /\ catalog \subseteq Message
  /\ \A m \in Message :
       /\ rows[m] >= 1 => EventTable(Source(m)) \in created
       /\ propertyRows[m] >= 1 => PropertyTable(Source(m)) \in created
  /\ \A m \in acked \cup catalog : Visible(m)
  /\ \A m \in catalog : Catalog!Flattens(m) /\ m \notin Bare

(* Nothing that readers see is taken back.                                 *)
Grows ==
  /\ created \subseteq created'
  /\ \A m \in Message : rows[m] <= rows'[m] /\ propertyRows[m] <= propertyRows'[m]

LEMMA WritesGrow ==
  ASSUME WriteInv,
         \/ \E m \in Message : Ingest(m)
         \/ \E source \in DOMAIN Table : CreateTable(source)
  PROVE  Grows
<1>1. ASSUME NEW m \in Message, StoreEvent(m) \/ StoreProperties(m) PROVE Grows
  BY <1>1 DEF StoreEvent, StoreProperties, Writes!StoreEvent, Writes!StoreProperties,
     WriteInv, Grows
<1>2. ASSUME NEW m \in Message, UpsertEntries(m) \/ AcknowledgeBare(m) PROVE Grows
  BY <1>2 DEF UpsertEntries, AcknowledgeBare, Writes!UpsertEntries, Writes!AcknowledgeBare,
     WriteInv, Grows
<1>3. ASSUME NEW source \in DOMAIN Table, CreateTable(source) PROVE Grows
  BY <1>3 DEF CreateTable, writeVars, WriteInv, Grows
<1>4. QED
  BY <1>1, <1>2, <1>3 DEF Ingest

LEMMA VisibleStays ==
  ASSUME WriteInv, WriteInv => rows' \in [Message -> Nat] /\ propertyRows' \in [Message -> Nat],
         Grows, NEW m \in Message, Visible(m)
  PROVE  Visible(m)'
<1>1. \A n \in Message : /\ rows[n] >= 1 => rows'[n] >= 1
                         /\ propertyRows[n] >= 1 => propertyRows'[n] >= 1
  BY DEF Grows, WriteInv
<1>2. QED
  BY <1>1 DEF Visible, Writes!Stored, Writes!Indexed

LEMMA WriteStep == WriteInv /\ [Next]_vars => WriteInv'
<1> SUFFICES ASSUME WriteInv, [Next]_vars PROVE WriteInv'
  OBVIOUS
<1> DEFINE Typed == /\ rows' \in [Message -> Nat] /\ propertyRows' \in [Message -> Nat]
                    /\ acked' \subseteq Message /\ catalog' \subseteq Message
                    /\ \A m \in Message :
                         /\ rows'[m] >= 1 => EventTable(Source(m)) \in created'
                         /\ propertyRows'[m] >= 1 => PropertyTable(Source(m)) \in created'
           Seen2 == /\ \A m \in acked' \cup catalog' : m \in acked \cup catalog \/ Visible(m)
                    /\ \A m \in catalog' : Catalog!Flattens(m) /\ m \notin Bare
<1>1. ASSUME NEW m \in Message, StoreEvent(m) PROVE Typed /\ Seen2
  BY <1>1 DEF StoreEvent, Writes!StoreEvent, WriteInv
<1>2. ASSUME NEW m \in Message, StoreProperties(m) PROVE Typed /\ Seen2
  BY <1>2 DEF StoreProperties, Writes!StoreProperties, WriteInv
<1>3. ASSUME NEW m \in Message, UpsertEntries(m) PROVE Typed /\ Seen2
  BY <1>3 DEF UpsertEntries, Writes!UpsertEntries, WriteInv, Visible
<1>4. ASSUME NEW m \in Message, AcknowledgeBare(m) PROVE Typed /\ Seen2
  BY <1>4 DEF AcknowledgeBare, Writes!AcknowledgeBare, WriteInv, Visible
<1>5. ASSUME NEW source \in DOMAIN Table, CreateTable(source) PROVE Typed /\ Seen2
  BY <1>5 DEF CreateTable, writeVars, WriteInv
<1>6. ASSUME Read \/ UNCHANGED vars PROVE Typed /\ Seen2 /\ Grows
  <2>1. UNCHANGED <<rows, propertyRows, catalog, acked, created>>
    BY <1>6 DEF Read, CountEvents, ListEvents, ReadFails, ListRealtime, writeVars, vars
  <2>2. QED
    BY <2>1 DEF WriteInv, Grows
<1>7. Typed /\ Seen2 /\ Grows
  BY <1>1, <1>2, <1>3, <1>4, <1>5, <1>6, WritesGrow DEF Next, Ingest
<1>8. ASSUME NEW m \in acked' \cup catalog' PROVE Visible(m)'
  BY <1>7, VisibleStays DEF WriteInv
<1>9. QED
  BY <1>7, <1>8 DEF WriteInv

LEMMA InitWrite == Init => WriteInv
  BY DEF Init, Writes!Init, WriteInv

LEMMA WritesInductive == Spec => []WriteInv
  BY InitWrite, WriteStep, PTL DEF Spec

-----------------------------------------------------------------------------
(* What is selected.                                                       *)

SelectedFrom(q, R, P) ==
  UNION { {m} \X (1 .. R[m]) :
            m \in {n \in Message : Shares(n, q.source) /\ Matches(q, n, P)} }

LEMMA SelectedRow ==
  ASSUME NEW q, NEW R, NEW P, NEW r
  PROVE  r \in SelectedFrom(q, R, P) <=>
           \E m \in Message : /\ Shares(m, q.source) /\ Matches(q, m, P)
                              /\ r \in {m} \X (1 .. R[m])
  BY DEF SelectedFrom

LEMMA SelectedFinite ==
  ASSUME NEW q, NEW R \in [Message -> Nat], NEW P
  PROVE  /\ IsFiniteSet(SelectedFrom(q, R, P))
         /\ SelectedFrom(q, R, P) \subseteq Candidates(q) \X Nat
<1> DEFINE M == {n \in Message : Shares(n, q.source) /\ Matches(q, n, P)}
           T == {{m} \X (1 .. R[m]) : m \in M}
           f == [m \in M |-> {m} \X (1 .. R[m])]
<1>1. IsFiniteSet(M)
  BY ReadAssumption, FS_Subset
<1>2. f \in Surjection(M, T)
  BY DEF Surjection
<1>3. ASSUME NEW t \in T PROVE IsFiniteSet(t)
  <2>1. PICK m \in M : t = {m} \X (1 .. R[m])
    OBVIOUS
  <2>2. R[m] \in Nat
    OBVIOUS
  <2>3. IsFiniteSet({m}) /\ IsFiniteSet(1 .. R[m])
    <3>1. IsFiniteSet({m})
      BY FS_Singleton
    <3>2. PICK b \in Nat : b = R[m]
      BY <2>2
    <3>3. IsFiniteSet(1 .. b)
      BY FS_Interval
    <3>4. QED
      BY <3>1, <3>2, <3>3
  <2>4. QED
    BY <2>1, <2>3, FS_Product
<1> HIDE DEF M, T, f
<1>4. IsFiniteSet(T)
  BY <1>1, <1>2, FS_Surjection
<1>5. IsFiniteSet(UNION T)
  BY <1>3, <1>4, FS_UNION
<1>6. SelectedFrom(q, R, P) = UNION T
  BY DEF SelectedFrom, T, M
<1>7. ASSUME NEW r \in SelectedFrom(q, R, P) PROVE r \in Candidates(q) \X Nat
  <2>1. PICK m \in Message : Matches(q, m, P) /\ r \in {m} \X (1 .. R[m])
    BY <1>7, SelectedRow
  <2>2. m \in Candidates(q)
    BY <2>1 DEF Matches, Candidates
  <2>3. QED
    BY <2>1, <2>2
<1>8. QED
  BY <1>5, <1>6, <1>7

LEMMA SelectedMore ==
  ASSUME NEW q, NEW R \in [Message -> Nat], NEW R1 \in [Message -> Nat],
         \A m \in Message : R[m] <= R1[m], NEW P, NEW P1, P \subseteq P1
  PROVE  SelectedFrom(q, R, P) \subseteq SelectedFrom(q, R1, P1)
<1> SUFFICES ASSUME NEW r \in SelectedFrom(q, R, P) PROVE r \in SelectedFrom(q, R1, P1)
  OBVIOUS
<1>1. PICK m \in Message : Shares(m, q.source) /\ Matches(q, m, P) /\ r \in {m} \X (1 .. R[m])
  BY SelectedRow
<1>2. Matches(q, m, P1)
  BY <1>1 DEF Matches, MatchesProperties, HasProperty
<1>3. r \in {m} \X (1 .. R1[m])
  <2>1. R[m] \in Nat /\ R1[m] \in Nat /\ R[m] <= R1[m]
    OBVIOUS
  <2>2. 1 .. R[m] \subseteq 1 .. R1[m]
    BY <2>1
  <2>3. QED
    BY <1>1, <2>2
<1>4. QED
  BY <1>1, <1>2, <1>3, SelectedRow

LEMMA SelectedIs ==
  ASSUME WriteInv, NEW q
  PROVE  /\ IsFiniteSet(Selected(q)) /\ Selected(q) \subseteq Candidates(q) \X Nat
         /\ ~ Missing(q) => Selected(q) = SelectedFrom(q, rows, PropertyContent(q.source))
<1>1. CASE Missing(q)
  <2>1. Selected(q) = {}
    BY <1>1 DEF Selected
  <2>2. QED
    BY <1>1, <2>1, FS_EmptySet
<1>2. CASE ~ Missing(q)
  <2>1. Selected(q) = SelectedFrom(q, rows, PropertyContent(q.source))
    BY <1>2 DEF Selected, SelectedFrom
  <2>2. QED
    BY <2>1, SelectedFinite DEF WriteInv
<1>3. QED
  BY <1>1, <1>2

LEMMA SelectedGrows ==
  ASSUME WriteInv, WriteInv', Grows, NEW q
  PROVE  Selected(q) \subseteq Selected(q)'
<1>1. CASE Missing(q)
  BY <1>1 DEF Selected
<1>2. CASE ~ Missing(q)
  <2>1. ~ Missing(q)'
    BY <1>2 DEF Missing, Grows
  <2>2. Selected(q) = SelectedFrom(q, rows, PropertyContent(q.source))
    BY <1>2 DEF Selected, SelectedFrom
  <2>3. Selected(q)' = SelectedFrom(q, rows', PropertyContent(q.source)')
    BY <2>1 DEF Selected, SelectedFrom
  <2>4. \A n \in Message : propertyRows[n] >= 1 => propertyRows'[n] >= 1
    BY DEF Grows, WriteInv
  <2>5. PropertyContent(q.source) \subseteq PropertyContent(q.source)'
    BY <2>4 DEF PropertyContent
  <2>6. QED
    BY <2>2, <2>3, <2>5, SelectedMore DEF WriteInv, Grows
<1>3. QED
  BY <1>1, <1>2

(* Queries that differ in limit, offset and order select the same rows.    *)
SameScope(q, r) ==
  /\ q.source = r.source /\ q.from = r.from /\ q.to = r.to
  /\ q.event_name = r.event_name /\ q.distinct_id = r.distinct_id
  /\ q.filters = r.filters /\ q.properties = r.properties

LEMMA ScopeSelects ==
  ASSUME NEW q, NEW r, SameScope(q, r)
  PROVE  /\ Selected(q) = Selected(r) /\ Candidates(q) = Candidates(r)
         /\ TimesDiffer(q) <=> TimesDiffer(r)
<1>1. \A m : MatchesColumns(q, m) <=> MatchesColumns(r, m)
  BY DEF SameScope, MatchesColumns
<1>2. \A m, P : Matches(q, m, P) <=> Matches(r, m, P)
  BY <1>1 DEF SameScope, Matches, MatchesProperties
<1>3. Missing(q) <=> Missing(r)
  BY DEF SameScope, Missing
<1>4. Selected(q) = Selected(r)
  BY <1>2, <1>3 DEF Selected, SameScope
<1>5. QED
  BY <1>1, <1>4 DEF Candidates, TimesDiffer

-----------------------------------------------------------------------------
(* How often a message is listed.                                          *)

Occurs(n, s) == Cardinality({i \in DOMAIN s : s[i] = n})

LEMMA OccursIsNat ==
  ASSUME NEW n, NEW s, NEW w \in Nat, DOMAIN s = 1 .. w
  PROVE  IsFiniteSet({i \in DOMAIN s : s[i] = n}) /\ Occurs(n, s) \in Nat
<1>1. IsFiniteSet(1 .. w)
  BY FS_Interval
<1>2. {i \in DOMAIN s : s[i] = n} \subseteq 1 .. w
  OBVIOUS
<1>3. QED
  BY <1>1, <1>2, FS_Subset, FS_CardinalityType DEF Occurs

LEMMA OccursAppend ==
  ASSUME NEW n, NEW s \in Seq(Message), NEW page \in Seq(Message)
  PROVE  Occurs(n, s \o page) = Occurs(n, s) + Occurs(n, page)
<1> DEFINE D1 == {i \in DOMAIN s : s[i] = n}
           D2 == {i \in DOMAIN page : page[i] = n}
           D3 == {i \in (Len(s) + 1) .. (Len(s) + Len(page)) : page[i - Len(s)] = n}
           D  == {i \in DOMAIN (s \o page) : (s \o page)[i] = n}
           f  == [i \in D2 |-> i + Len(s)]
<1>1. /\ Len(s) \in Nat /\ DOMAIN s = 1 .. Len(s)
      /\ Len(page) \in Nat /\ DOMAIN page = 1 .. Len(page)
  OBVIOUS
<1>2. /\ IsFiniteSet(D1) /\ Cardinality(D1) = Occurs(n, s) /\ Occurs(n, s) \in Nat
      /\ IsFiniteSet(D2) /\ Cardinality(D2) = Occurs(n, page) /\ Occurs(n, page) \in Nat
  BY <1>1, OccursIsNat DEF Occurs
<1>3. D = D1 \cup D3 /\ D1 \cap D3 = {}
  <2>1. /\ DOMAIN (s \o page) = 1 .. (Len(s) + Len(page))
        /\ \A i \in 1 .. (Len(s) + Len(page)) :
             (s \o page)[i] = IF i <= Len(s) THEN s[i] ELSE page[i - Len(s)]
    BY <1>1
  <2>2. QED
    BY <1>1, <2>1
<1>4. f \in Bijection(D2, D3)
  <2>1. f \in [D2 -> D3]
    BY <1>1
  <2>2. \A i, j \in D2 : f[i] = f[j] => i = j
    BY <1>1
  <2>3. \A j \in D3 : j - Len(s) \in D2 /\ f[j - Len(s)] = j
    BY <1>1
  <2> HIDE DEF f, D2, D3
  <2>4. \A j \in D3 : \E i \in D2 : f[i] = j
    BY <2>3
  <2>5. QED
    BY <2>1, <2>2, <2>4 DEF Bijection, Injection, Surjection, IsInjective
<1>5. ExistsBijection(D2, D3)
  BY <1>4 DEF ExistsBijection
<1>6. Cardinality(D) = Occurs(n, s \o page)
  BY DEF Occurs
<1> HIDE DEF D, D1, D2, D3
<1>7. IsFiniteSet(D3) /\ Cardinality(D3) = Cardinality(D2)
  BY <1>2, <1>5, FS_Bijection
<1>8. Cardinality(D1 \cap D3) = 0
  BY <1>3, FS_EmptySet
<1>9. Cardinality(D1 \cup D3) = Cardinality(D1) + Cardinality(D3) - Cardinality(D1 \cap D3)
  BY <1>2, <1>7, FS_Union
<1>10. QED
  BY <1>2, <1>3, <1>6, <1>7, <1>8, <1>9

(* A page that shows the positions from off to off + w of rows where those *)
(* of n are a + 1 to a + c keeps pace.                                     *)
LEMMA PageShare ==
  ASSUME NEW n, NEW off \in Nat, NEW w \in Nat, NEW a \in Nat, NEW c \in Nat,
         NEW page, DOMAIN page = 1 .. w,
         \A i \in 1 .. w : page[i] = n <=> a < off + i /\ off + i <= a + c,
         NEW t \in Nat, NEW cb \in Nat, cb <= c, t >= cb \/ t >= off - a
  PROVE  t + Occurs(n, page) >= cb \/ t + Occurs(n, page) >= off + w - a
<1> DEFINE lo == IF a > off THEN a - off + 1 ELSE 1
           hi == IF a + c - off < w THEN a + c - off ELSE w
           D == {i \in DOMAIN page : page[i] = n}
<1>1. lo \in Int /\ hi \in Int
  OBVIOUS
<1>2. D = lo .. hi
  <2>1. D = {i \in 1 .. w : a < off + i /\ off + i <= a + c}
    OBVIOUS
  <2>2. {i \in 1 .. w : a < off + i /\ off + i <= a + c} = lo .. hi
    OBVIOUS
  <2>3. QED
    BY <2>1, <2>2
<1>3. Occurs(n, page) = Cardinality(D)
  BY DEF Occurs
<1> HIDE DEF D
<1>4. Cardinality(lo .. hi) = IF lo > hi THEN 0 ELSE hi - lo + 1
  <2> HIDE DEF lo, hi
  <2>1. QED
    BY <1>1, FS_Interval
<1>5. Occurs(n, page) = IF lo > hi THEN 0 ELSE hi - lo + 1
  BY <1>2, <1>3, <1>4
<1> HIDE DEF lo, hi
<1>6. PICK o \in Nat : o = Occurs(n, page)
  BY OccursIsNat
<1>7. t + o >= cb \/ t + o >= off + w - a
  BY <1>1, <1>5, <1>6 DEF lo, hi
<1>8. QED
  BY <1>6, <1>7

-----------------------------------------------------------------------------
(* A listing on its way, while S is what its query selects.                *)

Readers ==
  [phase : {"listing", "listed", "realtime"}, query : EventListQuery,
   listed : Seq(Message), count : Nat, before : SUBSET (Message \X Nat),
   acked : SUBSET Message]

(* The rows that there were of n are listed already, or all the positions  *)
(* that come before the page to ask for and after the rows ahead of n were.*)
Covered(rd, S) ==
  \A n \in Candidates(rd.query) :
    \/ Occurs(n, rd.listed) >= Cardinality(Of(n, rd.before))
    \/ Occurs(n, rd.listed) >= rd.query.offset - Cardinality(Ahead(rd.query, n, S))

OnTrack(rd, S) ==
  /\ rd.query.offset <= Cardinality(S)
  /\ Len(rd.listed) = IF rd.query.offset > 0 THEN rd.query.offset ELSE 0
  /\ rd.before \subseteq S
  /\ rd.count <= Cardinality(S)
  /\ TimesDiffer(rd.query) => Covered(rd, S)

Done(rd, S) ==
  /\ rd.count <= Len(rd.listed) /\ Len(rd.listed) <= Cardinality(S)
  /\ TimesDiffer(rd.query) =>
       \A n \in Message : Occurs(n, rd.listed) >= Cardinality(Of(n, rd.before))

LEMMA ListedTyped ==
  ASSUME NEW rd \in Readers, NEW n
  PROVE  /\ rd.listed \in Seq(Message) /\ rd.query \in EventListQuery
         /\ Occurs(n, rd.listed) \in Nat /\ Len(rd.listed) \in Nat
         /\ rd.query.offset \in Int /\ rd.count \in Nat
<1>1. /\ rd.listed \in Seq(Message) /\ rd.query \in EventListQuery
      /\ Len(rd.listed) \in Nat /\ DOMAIN rd.listed = 1 .. Len(rd.listed)
      /\ rd.count \in Nat
  BY DEF Readers
<1>2. rd.query.offset \in Int
  BY <1>1 DEF EventListQuery
<1>3. QED
  BY <1>1, <1>2, OccursIsNat

(* Rows that arrive only move the others to later positions.               *)
LEMMA TrackGrows ==
  ASSUME NEW rd \in Readers, NEW S, NEW S1, S \subseteq S1, IsFiniteSet(S1), OnTrack(rd, S)
  PROVE  OnTrack(rd, S1)
<1>1. /\ IsFiniteSet(S) /\ Cardinality(S) \in Nat /\ Cardinality(S1) \in Nat
      /\ Cardinality(S) <= Cardinality(S1)
  BY FS_Subset, FS_CardinalityType
<1>2. ASSUME Covered(rd, S) PROVE Covered(rd, S1)
  <2> SUFFICES ASSUME NEW n \in Candidates(rd.query)
               PROVE  \/ Occurs(n, rd.listed) >= Cardinality(Of(n, rd.before))
                      \/ Occurs(n, rd.listed)
                           >= rd.query.offset - Cardinality(Ahead(rd.query, n, S1))
    BY DEF Covered
  <2>1. Ahead(rd.query, n, S) \subseteq Ahead(rd.query, n, S1)
        /\ Ahead(rd.query, n, S1) \subseteq S1
    BY DEF Ahead
  <2>2. IsFiniteSet(Ahead(rd.query, n, S1))
    BY <2>1, FS_Subset
  <2>3. /\ IsFiniteSet(Ahead(rd.query, n, S))
        /\ Cardinality(Ahead(rd.query, n, S)) <= Cardinality(Ahead(rd.query, n, S1))
    BY <2>1, <2>2, FS_Subset
  <2>4. /\ Cardinality(Ahead(rd.query, n, S)) \in Nat
        /\ Cardinality(Ahead(rd.query, n, S1)) \in Nat
    BY <2>2, <2>3, FS_CardinalityType
  <2>5. Occurs(n, rd.listed) \in Nat /\ rd.query.offset \in Int
    BY ListedTyped
  <2>6. \/ Occurs(n, rd.listed) >= Cardinality(Of(n, rd.before))
        \/ Occurs(n, rd.listed) >= rd.query.offset - Cardinality(Ahead(rd.query, n, S))
    BY <1>2 DEF Covered
  <2>7. QED
    BY <2>3, <2>4, <2>5, <2>6
<1>3. rd.query.offset \in Int /\ rd.count \in Nat
  BY ListedTyped
<1>4. QED
  BY <1>1, <1>2, <1>3 DEF OnTrack

(* The reader after a page.                                                *)
Turned(rd, page) ==
  [rd EXCEPT !.listed = @ \o page, !.query.offset = @ + PageLimit(rd.query)]

LEMMA NextQuery ==
  ASSUME NEW q \in EventListQuery, NEW k \in Int
  PROVE  LET r == [q EXCEPT !.offset = @ + k]
         IN  /\ r \in EventListQuery /\ r.offset = q.offset + k
             /\ r.sort = q.sort /\ r.direction = q.direction /\ SameScope(q, r)
<1> DEFINE r == [q EXCEPT !.offset = @ + k]
<1>1. q.offset + k \in Int
  <2>1. q.offset \in Int
    BY DEF EventListQuery
  <2>2. QED
    BY <2>1
<1>2. r \in EventListQuery
  <2>1. \A j \in Int : [q EXCEPT !.offset = j] \in EventListQuery
    BY DEF EventListQuery
  <2>2. QED
    BY <1>1, <2>1
<1>3. /\ r.offset = q.offset + k /\ r.sort = q.sort /\ r.direction = q.direction
  BY DEF EventListQuery
<1>4. SameScope(q, r)
  BY DEF SameScope, EventListQuery
<1>5. QED
  BY <1>2, <1>3, <1>4

LEMMA TurnedOver ==
  ASSUME NEW rd \in Readers, NEW page \in Seq(Message)
  PROVE  LET next == Turned(rd, page)
         IN  /\ next \in Readers /\ next.listed = rd.listed \o page
             /\ next.count = rd.count /\ next.before = rd.before
             /\ next.acked = rd.acked /\ next.phase = rd.phase
             /\ next.query \in EventListQuery
             /\ next.query.offset = rd.query.offset + PageLimit(rd.query)
             /\ SameScope(rd.query, next.query)
             /\ next.query.sort = rd.query.sort /\ next.query.direction = rd.query.direction
<1> DEFINE next == Turned(rd, page)
<1>1. rd.query \in EventListQuery /\ PageLimit(rd.query) \in Int
  BY LimitPositive DEF Readers
<1>2. next.query = [rd.query EXCEPT !.offset = @ + PageLimit(rd.query)]
  BY DEF Turned, Readers
<1>3. /\ next.query \in EventListQuery
      /\ next.query.offset = rd.query.offset + PageLimit(rd.query)
      /\ next.query.sort = rd.query.sort /\ next.query.direction = rd.query.direction
  BY <1>1, <1>2, NextQuery
<1>4. SameScope(rd.query, next.query)
  BY <1>1, <1>2, NextQuery
<1>5. /\ next.listed = rd.listed \o page /\ next.listed \in Seq(Message)
      /\ next.count = rd.count /\ next.before = rd.before
      /\ next.acked = rd.acked /\ next.phase = rd.phase
  BY DEF Turned, Readers
<1>6. next \in Readers
  <2>1. next = [rd EXCEPT !.listed = next.listed, !.query = next.query]
    BY DEF Turned, Readers
  <2>2. ASSUME NEW l \in Seq(Message), NEW q \in EventListQuery
        PROVE  [rd EXCEPT !.listed = l, !.query = q] \in Readers
    BY DEF Readers
  <2> HIDE DEF next
  <2>3. QED
    BY <1>3, <1>5, <2>1, <2>2
<1>7. QED
  BY <1>3, <1>4, <1>5, <1>6

LEMMA SameOrder ==
  ASSUME NEW q, NEW r, SameScope(q, r), q.sort = r.sort, q.direction = r.direction, NEW n, NEW S
  PROVE  Ahead(q, n, S) = Ahead(r, n, S)
<1>1. OrderBy(q) = OrderBy(r)
  BY Zenon DEF OrderBy, Sort, Direction
<1>2. \A x, y : Precedes(q, x, y) <=> Precedes(r, x, y)
  BY <1>1, PrecedesLexical
<1>3. QED
  BY <1>2 DEF Ahead

(* The page shows a stretch of the sorted rows.                            *)
LEMMA PageIs ==
  ASSUME NEW rd \in Readers, rd.query.offset \in Nat,
         NEW S, IsFiniteSet(S), S \subseteq Candidates(rd.query) \X Nat,
         rd.query.offset <= Cardinality(S), NEW page \in Pages(rd.query, S)
  PROVE  \E s \in SetToSeqs(S) : \E w \in Nat :
           /\ SortedBy(rd.query, s)
           /\ page \in Seq(Message) /\ Len(page) = w /\ DOMAIN page = 1 .. w
           /\ \A i \in 1 .. w : /\ rd.query.offset + i \in 1 .. Cardinality(S)
                                /\ page[i] = s[rd.query.offset + i][1]
                                /\ \E r \in S : page[i] = r[1]
           /\ rd.query.offset + w <= Cardinality(S)
           /\ w < PageLimit(rd.query) => rd.query.offset + w = Cardinality(S)
           /\ w <= PageLimit(rd.query)
<1> DEFINE q == rd.query
           N == Cardinality(S)
<1>1. q \in EventListQuery /\ N \in Nat /\ PageLimit(q) \in Nat \ {0}
  BY LimitPositive, FS_CardinalityType DEF Readers
<1>2. PICK s \in SetToSeqs(S), last \in Int :
        /\ SortedBy(q, s)
        /\ last = IF q.offset + PageLimit(q) <= N THEN q.offset + PageLimit(q) ELSE N
        /\ page = [i \in 1 .. last - q.offset |-> s[q.offset + i][1]]
  BY <1>1, PageOf
<1>3. s \in [1 .. N -> S]
  BY PositionsOf
<1> DEFINE w == last - q.offset
<1>4. /\ w \in Nat /\ q.offset + w <= N
      /\ w < PageLimit(q) => q.offset + w = N
      /\ w <= PageLimit(q)
  BY <1>1, <1>2
<1>5. DOMAIN page = 1 .. w /\ \A i \in 1 .. w : page[i] = s[q.offset + i][1]
  BY <1>2
<1>6. ASSUME NEW i \in 1 .. w
      PROVE  /\ q.offset + i \in 1 .. N /\ page[i] \in Message /\ \E r \in S : page[i] = r[1]
  <2>1. q.offset + i \in 1 .. N
    BY <1>1, <1>4
  <2>2. s[q.offset + i] \in S
    BY <1>3, <2>1
  <2>3. s[q.offset + i][1] \in Message
    BY <2>2 DEF Candidates
  <2>4. QED
    BY <1>5, <2>1, <2>2, <2>3
<1>7. page \in Seq(Message) /\ Len(page) = w
  <2>1. page = [i \in 1 .. w |-> page[i]]
    BY <1>2
  <2>2. \A i \in 1 .. w : page[i] \in Message
    BY <1>6
  <2> HIDE DEF w
  <2>3. page \in [1 .. w -> Message]
    BY <2>1, <2>2
  <2>4. QED
    BY <1>4, <2>3
<1>8. QED
  BY <1>2, <1>4, <1>5, <1>6, <1>7

LEMMA LenAppend ==
  ASSUME NEW s \in Seq(Message), NEW t \in Seq(Message)
  PROVE  Len(s \o t) = Len(s) + Len(t)
  OBVIOUS

LEMMA PageStep ==
  ASSUME NEW rd \in Readers, ValidQuery(rd.query),
         NEW S, IsFiniteSet(S), S \subseteq Candidates(rd.query) \X Nat,
         OnTrack(rd, S), NEW page \in Pages(rd.query, S)
  PROVE  /\ page \in Seq(Message)
         /\ \A i \in DOMAIN page : \E r \in S : page[i] = r[1]
         /\ Len(page) < PageLimit(rd.query) => Done(Turned(rd, page), S)
         /\ ~ (Len(page) < PageLimit(rd.query)) => OnTrack(Turned(rd, page), S)
<1> DEFINE q == rd.query
           N == Cardinality(S)
           off == rd.query.offset
<1>1. /\ q \in EventListQuery /\ off \in Nat /\ N \in Nat
      /\ PageLimit(q) \in Nat \ {0} /\ off <= N
      /\ rd.listed \in Seq(Message) /\ Len(rd.listed) = off /\ rd.count \in Nat
  BY LimitPositive, ListedTyped, FS_CardinalityType DEF ValidQuery, ValidScope, OnTrack
<1>2. PICK s \in SetToSeqs(S), w \in Nat :
        /\ SortedBy(q, s)
        /\ page \in Seq(Message) /\ Len(page) = w /\ DOMAIN page = 1 .. w
        /\ \A i \in 1 .. w : /\ off + i \in 1 .. N
                             /\ page[i] = s[off + i][1] /\ \E r \in S : page[i] = r[1]
        /\ off + w <= N
        /\ w < PageLimit(q) => off + w = N
        /\ w <= PageLimit(q)
  BY <1>1, PageIs
<1> DEFINE next == Turned(rd, page)
<1>3. /\ next.listed = rd.listed \o page /\ next.count = rd.count /\ next.before = rd.before
      /\ next.query.offset = off + PageLimit(q) /\ SameScope(q, next.query)
      /\ next.query.sort = q.sort /\ next.query.direction = q.direction
  BY <1>2, TurnedOver
<1> HIDE DEF next
<1>4. Len(next.listed) = off + w
  <2>1. page \in Seq(Message) /\ Len(page) = w
    BY <1>2
  <2>2. Len(rd.listed \o page) = Len(rd.listed) + Len(page)
    BY <1>1, <2>1, LenAppend
  <2>3. QED
    BY <1>1, <1>3, <2>1, <2>2
<1>5. Candidates(next.query) = Candidates(q) /\ (TimesDiffer(next.query) <=> TimesDiffer(q))
  BY <1>3, ScopeSelects
<1>6. ASSUME TimesDiffer(q), NEW n \in Candidates(q)
      PROVE  \E a, c, cb, t \in Nat :
               /\ a = Cardinality(Ahead(q, n, S)) /\ cb = Cardinality(Of(n, rd.before))
               /\ t = Occurs(n, next.listed)
               /\ cb <= c /\ a + c <= N
               /\ t >= cb \/ t >= off + w - a
  <2>1. PICK a, c \in Nat : a = Cardinality(Ahead(q, n, S)) /\ c = Cardinality(Of(n, S))
                            /\ a + c <= N
    BY <1>2, <1>6, Block
  <2>2. \A i \in 1 .. N : s[i][1] = n <=> a < i /\ i <= a + c
    BY <1>2, <1>6, <2>1, Block
  <2>3. \A i \in 1 .. w : page[i] = n <=> a < off + i /\ off + i <= a + c
    BY <1>2, <2>2
  <2>4. PICK cb \in Nat : cb = Cardinality(Of(n, rd.before)) /\ cb <= c
    <3>1. Of(n, rd.before) \subseteq Of(n, S) /\ Of(n, S) \subseteq S
      BY DEF Of, OnTrack
    <3>2. QED
      BY <2>1, <3>1, FS_Subset, FS_CardinalityType
  <2>5. PICK t \in Nat : t = Occurs(n, rd.listed)
    BY ListedTyped
  <2>6. t >= cb \/ t >= off - a
    BY <1>6, <2>1, <2>4, <2>5 DEF OnTrack, Covered
  <2>7. t + Occurs(n, page) >= cb \/ t + Occurs(n, page) >= off + w - a
    BY <1>1, <1>2, <2>3, <2>4, <2>6, PageShare
  <2>8. PICK p \in Nat : p = Occurs(n, page)
    BY <1>2, OccursIsNat
  <2>9. Occurs(n, next.listed) = t + p
    BY <1>1, <1>2, <1>3, <2>5, <2>8, OccursAppend
  <2>10. t + p >= cb \/ t + p >= off + w - a
    BY <2>7, <2>8
  <2>11. QED
    BY <2>1, <2>4, <2>9, <2>10
<1>7. ASSUME w < PageLimit(q) PROVE Done(next, S)
  <2>1. off + w = N
    BY <1>2, <1>7
  <2>2. ASSUME TimesDiffer(q), NEW n \in Message
        PROVE  Occurs(n, next.listed) >= Cardinality(Of(n, rd.before))
    <3>1. CASE n \in Candidates(q)
      <4>1. PICK a, c, cb, t \in Nat :
              /\ cb = Cardinality(Of(n, rd.before)) /\ t = Occurs(n, next.listed)
              /\ cb <= c /\ a + c <= N
              /\ t >= cb \/ t >= off + w - a
        BY <1>6, <2>2, <3>1
      <4>2. t >= cb
        BY <1>1, <2>1, <4>1
      <4>3. QED
        BY <4>1, <4>2
    <3>2. CASE n \notin Candidates(q)
      <4>1. Of(n, rd.before) = {}
        BY <3>2 DEF Of, OnTrack
      <4>2. Cardinality(Of(n, rd.before)) = 0
        BY <4>1, FS_EmptySet
      <4>3. Occurs(n, next.listed) \in Nat
        BY <1>2, TurnedOver, ListedTyped DEF next
      <4>4. QED
        BY <4>2, <4>3
    <3>3. QED
      BY <3>1, <3>2
  <2>3. rd.count <= Len(next.listed) /\ Len(next.listed) <= N
    BY <1>1, <1>4, <2>1 DEF OnTrack
  <2>4. QED
    BY <1>3, <1>5, <2>2, <2>3 DEF Done
<1>8. ASSUME ~ (w < PageLimit(q)) PROVE OnTrack(next, S)
  <2>1. w = PageLimit(q)
    BY <1>1, <1>2, <1>8
  <2>2. /\ next.query.offset <= N
        /\ Len(next.listed) = IF next.query.offset > 0 THEN next.query.offset ELSE 0
        /\ next.before \subseteq S /\ next.count <= N
    BY <1>1, <1>2, <1>3, <1>4, <2>1 DEF OnTrack
  <2>3. ASSUME TimesDiffer(q) PROVE Covered(next, S)
    <3> SUFFICES ASSUME NEW n \in Candidates(q)
                 PROVE  \/ Occurs(n, next.listed) >= Cardinality(Of(n, next.before))
                        \/ Occurs(n, next.listed)
                             >= next.query.offset - Cardinality(Ahead(next.query, n, S))
      BY <1>5 DEF Covered
    <3>1. Ahead(next.query, n, S) = Ahead(q, n, S)
      BY <1>3, SameOrder
    <3>2. PICK a, c, cb, t \in Nat :
            /\ a = Cardinality(Ahead(q, n, S)) /\ cb = Cardinality(Of(n, rd.before))
            /\ t = Occurs(n, next.listed)
            /\ t >= cb \/ t >= off + w - a
      BY <1>6, <2>3
    <3>3. next.before = rd.before /\ next.query.offset = off + w
      BY <1>3, <2>1
    <3>4. CASE t >= cb
      BY <3>2, <3>3, <3>4
    <3>5. CASE t >= off + w - a
      <4>1. Cardinality(Ahead(next.query, n, S)) = a /\ Occurs(n, next.listed) = t
        BY <3>1, <3>2
      <4>2. PICK k \in Int : k = next.query.offset /\ k = off + w
        BY <1>1, <3>3
      <4>3. t >= k - a
        BY <1>1, <3>5, <4>2
      <4>4. QED
        BY <4>1, <4>2, <4>3
    <3>6. QED
      BY <3>2, <3>4, <3>5
  <2>4. QED
    BY <1>5, <2>2, <2>3 DEF OnTrack
<1>9. QED
  BY <1>2, <1>7, <1>8 DEF next

-----------------------------------------------------------------------------
(* What a row that is selected says, and which rows are.                   *)

LEMMA FlattenIs ==
  ASSUME NEW n \in Message, NEW p \in Catalog!Flatten(n)
  PROVE  p.id = Envelope[n].id /\ p.source = Source(n)
  BY DEF Catalog!Flatten, Source

LEMMA KeyIs ==
  ASSUME NEW m \in Message, NEW n \in Message
  PROVE  KeyOf[n] = KeyOf[m] <=> Source(n) = Source(m) /\ Envelope[n].id = Envelope[m].id
  BY DEF KeyOf, Source

LEMMA RowIsOwn ==
  ASSUME WriteInv, NEW q, NEW r \in Selected(q)
  PROVE  /\ r[1] \in Message /\ Source(r[1]) = q.source
         /\ \A f \in ToSet(q.properties) : OwnProperty(r[1], f)
<1>1. ~ Missing(q) /\ r \in SelectedFrom(q, rows, PropertyContent(q.source))
  BY SelectedIs DEF Selected
<1>2. PICK m \in Message : Matches(q, m, PropertyContent(q.source)) /\ r[1] = m
  BY <1>1, SelectedRow
<1>3. Source(m) = q.source
  BY <1>2 DEF Matches, MatchesColumns, Source
<1>4. ASSUME NEW f \in ToSet(q.properties) PROVE OwnProperty(m, f)
  <2>1. HasProperty(m, f, PropertyContent(q.source))
    BY <1>2 DEF Matches, MatchesProperties
  <2>2. PICK p \in PropertyContent(q.source) : HasProperty(m, f, {p})
    BY <2>1 DEF HasProperty
  <2>3. PICK n \in Message : propertyRows[n] >= 1 /\ p \in Catalog!Flatten(n)
    BY DEF PropertyContent
  <2>4. KeyOf[n] = KeyOf[m] /\ Envelope[n].id = Envelope[m].id /\ Source(n) = Source(m)
    BY <2>2, <2>3, FlattenIs, KeyIs DEF HasProperty, SameEvent
  <2>5. HasProperty(n, f, Catalog!Flatten(n))
    BY <2>2, <2>3, <2>4 DEF HasProperty, SameEvent
  <2>6. QED
    BY <2>3, <2>4, <2>5 DEF OwnProperty
<1>5. QED
  BY <1>2, <1>3, <1>4

(* What is stored, indexed and asked for with the key's own content is     *)
(* selected.                                                               *)
LEMMA VisibleSelected ==
  ASSUME WriteInv, NEW q, NEW m \in Message, NEW n \in Message, NEW k \in Message,
         KeyOf[n] = KeyOf[m], rows[n] >= 1, MatchesColumns(q, n),
         \A f \in ToSet(q.properties) : HasProperty(k, f, Catalog!Flatten(k)),
         q.properties # <<>> => KeyOf[k] = KeyOf[m] /\ propertyRows[k] >= 1,
         ToSet(q.properties) # {} => q.properties # <<>>
  PROVE  <<n, 1>> \in Selected(q)
<1>1. Source(n) = q.source /\ EventTable(q.source) \in created /\ Shares(n, q.source)
  BY DEF MatchesColumns, Source, WriteInv, EventTable, Shares
<1>2. ASSUME q.properties # <<>>
      PROVE  /\ PropertyTable(q.source) \in created
             /\ Catalog!Flatten(k) \subseteq PropertyContent(q.source)
             /\ Source(k) = Source(n) /\ Envelope[k].id = Envelope[n].id
  <2>1. Source(k) = Source(n) /\ Envelope[k].id = Envelope[n].id
    BY <1>2, KeyIs
  <2>2. PropertyTable(q.source) \in created
    BY <1>1, <1>2, <2>1 DEF WriteInv
  <2>3. Shares(k, q.source)
    BY <1>1, <2>1 DEF Shares
  <2>4. QED
    BY <1>2, <2>1, <2>2, <2>3 DEF PropertyContent
<1>3. ~ Missing(q)
  BY <1>1, <1>2 DEF Missing
<1>4. ASSUME NEW f \in ToSet(q.properties) PROVE HasProperty(n, f, PropertyContent(q.source))
  <2>1. PICK p \in Catalog!Flatten(k) : HasProperty(k, f, {p})
    BY DEF HasProperty
  <2>2. p \in PropertyContent(q.source) /\ HasProperty(n, f, {p})
    BY <1>2, <1>4, <2>1 DEF HasProperty, SameEvent
  <2>3. QED
    BY <2>2 DEF HasProperty
<1>5. Matches(q, n, PropertyContent(q.source))
  BY <1>4 DEF Matches, MatchesProperties
<1>6. <<n, 1>> \in {n} \X (1 .. rows[n])
  BY DEF WriteInv
<1>7. <<n, 1>> \in SelectedFrom(q, rows, PropertyContent(q.source))
  BY <1>1, <1>5, <1>6, SelectedRow
<1>8. QED
  BY <1>3, <1>7, SelectedIs

LEMMA PropertiesAre ==
  ASSUME NEW q \in EventListQuery
  PROVE  q.properties # <<>> <=> ToSet(q.properties) # {}
<1>1. q.properties \in Seq(EventPropertyFilter)
  BY DEF EventListQuery
<1>2. PICK s \in Seq(EventPropertyFilter) : s = q.properties
  BY <1>1
<1>3. ASSUME s # <<>> PROVE s[1] \in ToSet(s)
  BY <1>3 DEF ToSet
<1>4. ASSUME s = <<>> PROVE ToSet(s) = {}
  BY <1>4 DEF ToSet
<1>5. QED
  BY <1>2, <1>3, <1>4

(* An acknowledged event that the query asks for is selected.              *)
LEMMA AckedSelected ==
  ASSUME WriteInv, NEW q \in EventListQuery, NEW m \in acked, SelectsAll(q, m)
  PROVE  \E n \in Message : KeyOf[n] = KeyOf[m] /\ <<n, 1>> \in Selected(q)
<1>1. m \in Message /\ Visible(m)
  BY DEF WriteInv
<1>2. PICK n \in Message : KeyOf[n] = KeyOf[m] /\ rows[n] >= 1
  BY <1>1 DEF Visible, Writes!Stored
<1>3. MatchesColumns(q, n)
  BY <1>2 DEF SelectsAll, Matches
<1>4. CASE ToSet(q.properties) = {}
  BY <1>1, <1>2, <1>3, <1>4, PropertiesAre, VisibleSelected
<1>5. ASSUME NEW g \in ToSet(q.properties)
      PROVE  \E k \in Message : KeyOf[k] = KeyOf[m] /\ propertyRows[k] >= 1
  <2>1. Matches(q, m, Catalog!Flatten(m))
    BY <1>1 DEF SelectsAll
  <2>2. m \notin Bare
    BY <2>1 DEF Matches, MatchesProperties, HasProperty, Catalog!Flatten, Bare
  <2>3. QED
    BY <1>1, <2>2 DEF Visible, Writes!Indexed
<1>6. ASSUME NEW k \in Message, KeyOf[k] = KeyOf[m], propertyRows[k] >= 1
      PROVE  <<n, 1>> \in Selected(q)
  <2>1. \A f \in ToSet(q.properties) : HasProperty(k, f, Catalog!Flatten(k))
    BY <1>6 DEF SelectsAll, Matches, MatchesProperties
  <2>2. QED
    BY <1>1, <1>2, <1>3, <1>6, <2>1, PropertiesAre, VisibleSelected
<1>7. QED
  BY <1>2, <1>4, <1>5, <1>6

-----------------------------------------------------------------------------
(* The reader's invariant.                                                 *)

Own(rd) ==
  \A m \in ToSet(rd.listed) :
    /\ m \in Message /\ Source(m) = rd.query.source
    /\ \A f \in ToSet(rd.query.properties) : OwnProperty(m, f)

(* What was acknowledged when the listing began had a row then.            *)
Owed(rd) ==
  \A m \in rd.acked : \E n \in Message :
    KeyOf[n] = KeyOf[m] /\ Cardinality(Of(n, rd.before)) \in Nat \ {0}

ReaderInv ==
  /\ reader.phase \in {"listing", "listed", "realtime"} =>
       reader \in Readers /\ Own(reader) /\ Owed(reader)
  /\ reader.phase = "listing" => OnTrack(reader, Selected(reader.query))
  /\ reader.phase = "listed" => Done(reader, Selected(reader.query))

LEMMA CountIs ==
  ASSUME NEW q \in EventListQuery
  PROVE  Count(q) = Cardinality(Selected(q))
<1>1. SameScope(CountScope(q), q)
  BY DEF CountScope, SameScope, EventListQuery
<1>2. QED
  BY <1>1, ScopeSelects DEF Count

LEMMA NothingListed == ToSet(<<>>) = {} /\ \A n : Occurs(n, <<>>) = 0
<1>1. DOMAIN <<>> = {}
  OBVIOUS
<1>2. \A n : {i \in DOMAIN <<>> : <<>>[i] = n} = {}
  BY <1>1
<1>3. QED
  BY <1>1, <1>2, FS_EmptySet DEF ToSet, Occurs

LEMMA BeginOwn == ASSUME NEW rd, rd.listed = <<>> PROVE Own(rd)
  BY NothingListed DEF Own

LEMMA BeganIs ==
  ASSUME WriteInv, NEW q \in EventListQuery, NEW phase \in {"listing", "realtime"}
  PROVE  LET rd == Began(q, phase)
         IN  /\ rd \in Readers /\ Own(rd) /\ Owed(rd)
             /\ rd.phase = phase /\ rd.query = q /\ rd.listed = <<>>
             /\ rd.before = Selected(q)
             /\ q.offset <= 0 => OnTrack(rd, Selected(q))
<1> DEFINE rd == Began(q, phase)
<1>1. /\ rd.phase = phase /\ rd.query = q /\ rd.listed = <<>>
      /\ rd.before = Selected(q) /\ rd.count = Cardinality(Selected(q))
      /\ rd.acked = {m \in acked : SelectsAll(q, m)}
  BY CountIs DEF Began
<1>2. IsFiniteSet(Selected(q)) /\ Selected(q) \subseteq Candidates(q) \X Nat
  BY SelectedIs
<1>3. Cardinality(Selected(q)) \in Nat
  BY <1>2, FS_CardinalityType
<1>4. rd \in Readers
  <2>1. Selected(q) \in SUBSET (Message \X Nat)
    BY <1>2 DEF Candidates
  <2>2. {m \in acked : SelectsAll(q, m)} \in SUBSET Message
    BY DEF WriteInv
  <2>3. Count(q) \in Nat
    BY <1>3, CountIs
  <2>4. QED
    BY <2>1, <2>2, <2>3 DEF Began, Readers
<1> HIDE DEF rd
<1>5. Own(rd)
  BY <1>1, BeginOwn
<1>6. Owed(rd)
  <2> SUFFICES ASSUME NEW m \in acked, SelectsAll(q, m)
               PROVE  \E n \in Message :
                        KeyOf[n] = KeyOf[m] /\ Cardinality(Of(n, Selected(q))) \in Nat \ {0}
    BY <1>1 DEF Owed
  <2>1. PICK n \in Message : KeyOf[n] = KeyOf[m] /\ <<n, 1>> \in Selected(q)
    BY AckedSelected
  <2>2. {<<n, 1>>} \subseteq Of(n, Selected(q)) /\ Of(n, Selected(q)) \subseteq Selected(q)
    BY <2>1 DEF Of
  <2>3. IsFiniteSet(Of(n, Selected(q))) /\ Cardinality(Of(n, Selected(q))) \in Nat
    BY <1>2, <2>2, FS_Subset, FS_CardinalityType
  <2>4. Cardinality({<<n, 1>>}) <= Cardinality(Of(n, Selected(q)))
    BY <2>2, <2>3, FS_Subset
  <2>5. Cardinality({<<n, 1>>}) = 1
    BY FS_Singleton
  <2>6. QED
    BY <2>1, <2>3, <2>4, <2>5
<1>7. ASSUME q.offset <= 0 PROVE OnTrack(rd, Selected(q))
  <2>1. q.offset \in Int /\ Len(rd.listed) = 0
    BY <1>1 DEF EventListQuery
  <2>2. Covered(rd, Selected(q))
    <3> SUFFICES ASSUME NEW n \in Candidates(q)
                 PROVE  Occurs(n, rd.listed) >= q.offset - Cardinality(Ahead(q, n, Selected(q)))
      BY <1>1 DEF Covered
    <3>1. Occurs(n, rd.listed) = 0
      BY <1>1, NothingListed
    <3>2. Ahead(q, n, Selected(q)) \subseteq Selected(q)
      BY DEF Ahead
    <3>3. Cardinality(Ahead(q, n, Selected(q))) \in Nat
      BY <1>2, <3>2, FS_Subset, FS_CardinalityType
    <3>4. QED
      BY <1>7, <2>1, <3>1, <3>3
  <2>3. QED
    BY <1>1, <1>3, <1>7, <2>1, <2>2 DEF OnTrack
<1>8. QED
  BY <1>1, <1>4, <1>5, <1>6, <1>7 DEF rd

(* A change of phase alone.                                                *)
LEMMA PhaseAside ==
  ASSUME NEW rd \in Readers, NEW phase \in {"listing", "listed", "realtime"}
  PROVE  LET x == [rd EXCEPT !.phase = phase]
         IN  /\ x \in Readers /\ x.phase = phase /\ x.query = rd.query
             /\ x.listed = rd.listed /\ x.before = rd.before
             /\ x.count = rd.count /\ x.acked = rd.acked
<1> DEFINE x == [rd EXCEPT !.phase = phase]
<1>1. x \in Readers
  BY DEF Readers
<1>2. /\ x.phase = phase /\ x.query = rd.query /\ x.listed = rd.listed
      /\ x.before = rd.before /\ x.count = rd.count /\ x.acked = rd.acked
  BY DEF Readers
<1>3. QED
  BY <1>1, <1>2

LEMMA PhaseFree ==
  ASSUME NEW rd, NEW x, x.query = rd.query, x.listed = rd.listed, x.before = rd.before,
         x.count = rd.count, x.acked = rd.acked, NEW S
  PROVE  /\ OnTrack(rd, S) => OnTrack(x, S)
         /\ Done(rd, S) => Done(x, S)
         /\ Owed(rd) => Owed(x) /\ (Own(rd) => Own(x))
  BY DEF OnTrack, Covered, Done, Owed, Own

Rows == <<rows, propertyRows, created>>

LEMMA SelectedStays ==
  ASSUME UNCHANGED Rows, NEW q
  PROVE  Selected(q)' = Selected(q)
  BY DEF Rows, Selected, Missing, PropertyContent

LEMMA SelectedNext ==
  ASSUME rows' \in [Message -> Nat], NEW q
  PROVE  IsFiniteSet(Selected(q)')
<1>1. CASE Missing(q)'
  <2>1. Selected(q)' = {}
    BY <1>1 DEF Selected
  <2>2. QED
    BY <2>1, FS_EmptySet
<1>2. ASSUME ~ Missing(q)' PROVE IsFiniteSet(Selected(q)')
  <2>1. Selected(q)' = SelectedFrom(q, rows', PropertyContent(q.source)')
    BY <1>2 DEF Selected, SelectedFrom
  <2>2. QED
    BY <2>1, SelectedFinite
<1>3. QED
  BY <1>1, <1>2

(* Rows that arrive leave what was listed its source's and its own.        *)
LEMMA OwnStays ==
  ASSUME WriteInv, WriteInv', Grows, UNCHANGED reader, Own(reader)
  PROVE  Own(reader)'
<1>1. \A n \in Message : propertyRows[n] >= 1 => propertyRows'[n] >= 1
  BY DEF Grows, WriteInv
<1>2. ASSUME NEW m, NEW f, OwnProperty(m, f) PROVE OwnProperty(m, f)'
  BY <1>1, <1>2 DEF OwnProperty
<1>3. QED
  BY <1>2 DEF Own

LEMMA WriteKeepsReader ==
  ASSUME WriteInv, WriteInv', Grows, ReaderInv, UNCHANGED reader, Reading
  PROVE  ReaderInv'
<1>1. ASSUME reader.phase = "listing" PROVE OnTrack(reader, Selected(reader.query))'
  <2>1. Selected(reader.query) \subseteq Selected(reader.query)'
    BY SelectedGrows
  <2>2. IsFiniteSet(Selected(reader.query)')
    BY SelectedNext DEF WriteInv
  <2>3. OnTrack(reader, Selected(reader.query)')
    BY <1>1, <2>1, <2>2, TrackGrows DEF ReaderInv
  <2>4. QED
    BY <2>3
<1>2. ASSUME reader.phase \in {"listing", "listed", "realtime"}
      PROVE  reader \in Readers /\ Own(reader)' /\ Owed(reader)
  BY <1>2, OwnStays DEF ReaderInv
<1>3. reader.phase # "listed"
  BY DEF Reading
<1>4. Owed(reader)' <=> Owed(reader)
  BY DEF Owed
<1>5. QED
  BY <1>1, <1>2, <1>3, <1>4 DEF ReaderInv

LEMMA CountStep ==
  ASSUME WriteInv, ReaderInv, NEW q \in Queries, CountEvents(q)
  PROVE  ReaderInv'
<1>1. UNCHANGED Rows
  BY DEF CountEvents, writeVars, Rows
<1>2. CASE reader' = [phase |-> "rejected"]
  BY <1>2 DEF ReaderInv
<1>3. CASE reader' = Began(q, "listing")
  <2>1. q \in EventListQuery /\ q.offset <= 0
    BY ReadAssumption
  <2>2. /\ reader' \in Readers /\ Own(reader') /\ Owed(reader')
        /\ reader'.phase = "listing" /\ reader'.query = q
        /\ reader'.listed = <<>>
        /\ OnTrack(reader', Selected(q))
    BY <1>3, <2>1, BeganIs
  <2>3. Own(reader)'
    BY <2>2, NothingListed DEF Own
  <2>4. Owed(reader)'
    BY <2>2 DEF Owed
  <2>5. OnTrack(reader, Selected(reader.query))'
    BY <1>1, <2>2, SelectedStays
  <2>6. QED
    BY <2>2, <2>3, <2>4, <2>5 DEF ReaderInv
<1>4. QED
  BY <1>2, <1>3 DEF CountEvents

LEMMA OwnAppend ==
  ASSUME WriteInv, NEW rd \in Readers, NEW page \in Seq(Message), Own(rd), NEW x,
         x.listed = rd.listed \o page, SameScope(rd.query, x.query),
         \A i \in DOMAIN page : \E r \in Selected(rd.query) : page[i] = r[1]
  PROVE  Own(x)
<1>1. rd.listed \in Seq(Message) /\ x.query.source = rd.query.source
      /\ x.query.properties = rd.query.properties
  BY DEF Readers, SameScope
<1>2. ASSUME NEW m \in ToSet(x.listed) PROVE m \in ToSet(rd.listed) \/ m \in ToSet(page)
  <2>1. PICK s \in Seq(Message) : s = rd.listed
    BY <1>1
  <2>2. PICK i \in DOMAIN (s \o page) : m = (s \o page)[i]
    BY <2>1 DEF ToSet
  <2>3. CASE i <= Len(s)
    <3>1. i \in DOMAIN s /\ (s \o page)[i] = s[i]
      BY <2>2, <2>3
    <3>2. QED
      BY <2>1, <2>2, <3>1 DEF ToSet
  <2>4. CASE ~ (i <= Len(s))
    <3>1. i - Len(s) \in DOMAIN page /\ (s \o page)[i] = page[i - Len(s)]
      BY <2>2, <2>4
    <3>2. QED
      BY <2>2, <3>1 DEF ToSet
  <2>5. QED
    BY <2>3, <2>4
<1>3. ASSUME NEW m \in ToSet(page)
      PROVE  /\ m \in Message /\ Source(m) = rd.query.source
             /\ \A f \in ToSet(rd.query.properties) : OwnProperty(m, f)
  <2>1. PICK i \in DOMAIN page : m = page[i]
    BY DEF ToSet
  <2>2. PICK r \in Selected(rd.query) : m = r[1]
    BY <2>1
  <2>3. QED
    BY <2>2, RowIsOwn
<1>4. QED
  BY <1>1, <1>2, <1>3 DEF Own

LEMMA ListStep ==
  ASSUME WriteInv, ReaderInv, ListEvents
  PROVE  ReaderInv'
<1> DEFINE q == reader.query
           S == Selected(reader.query)
<1>1. UNCHANGED Rows /\ reader.phase = "listing"
  BY DEF ListEvents, writeVars, Rows
<1>2. /\ reader \in Readers /\ Own(reader) /\ Owed(reader) /\ OnTrack(reader, S)
      /\ q \in EventListQuery
  BY <1>1 DEF ReaderInv, Readers
<1>3. IsFiniteSet(S) /\ S \subseteq Candidates(q) \X Nat
  BY SelectedIs
<1>4. CASE reader' = [phase |-> "rejected"]
  BY <1>4 DEF ReaderInv
<1>5. ASSUME ValidQuery(q), NEW page \in Pages(q, S), NextPage(page)
      PROVE  ReaderInv'
  <2>1. /\ page \in Seq(Message)
        /\ \A i \in DOMAIN page : \E r \in S : page[i] = r[1]
        /\ Len(page) < PageLimit(q) => Done(Turned(reader, page), S)
        /\ ~ (Len(page) < PageLimit(q)) => OnTrack(Turned(reader, page), S)
    BY <1>2, <1>3, <1>5, PageStep
  <2> DEFINE turned == Turned(reader, page)
             phase == IF Len(page) < PageLimit(q) THEN "listed" ELSE "listing"
  <2>2. reader' = [turned EXCEPT !.phase = phase]
    BY <1>2, <1>5 DEF NextPage, Evidence, EffectiveLimit, Turned, Readers
  <2>3. /\ turned \in Readers /\ turned.listed = reader.listed \o page
        /\ turned.before = reader.before /\ turned.acked = reader.acked
        /\ SameScope(q, turned.query)
    BY <1>2, <2>1, TurnedOver
  <2> HIDE DEF turned
  <2>4. phase \in {"listing", "listed"}
    OBVIOUS
  <2>5. /\ reader' \in Readers /\ reader'.phase = phase /\ reader'.query = turned.query
        /\ reader'.listed = turned.listed /\ reader'.before = turned.before
        /\ reader'.count = turned.count /\ reader'.acked = turned.acked
    <3> HIDE DEF phase
    <3>1. PICK p \in {"listing", "listed", "realtime"} : p = phase
      BY <2>4
    <3>2. PICK x : x = [turned EXCEPT !.phase = p]
      OBVIOUS
    <3>3. /\ x \in Readers /\ x.phase = p /\ x.query = turned.query
          /\ x.listed = turned.listed /\ x.before = turned.before
          /\ x.count = turned.count /\ x.acked = turned.acked
      BY <2>3, <3>2, PhaseAside
    <3>4. reader' = x
      BY <2>2, <3>1, <3>2
    <3>5. QED
      BY <3>1, <3>3, <3>4
  <2>6. Own(reader')
    <3>1. reader'.listed = reader.listed \o page /\ SameScope(reader.query, reader'.query)
      BY <2>3, <2>5
    <3>2. QED
      BY <1>2, <2>1, <3>1, OwnAppend
  <2>7. Own(reader)'
    BY <1>1, <2>6 DEF Own, OwnProperty, Rows
  <2>8. Owed(reader)'
    BY <1>2, <2>3, <2>5 DEF Owed
  <2>9. Selected(reader.query)' = S
    <3>1. Selected(reader'.query) = S
      BY <2>3, <2>5, ScopeSelects
    <3>2. Selected(reader.query)' = Selected(reader'.query)
      BY <1>1, SelectedStays
    <3>3. QED
      BY <3>1, <3>2
  <2>10. /\ phase = "listed" => Done(reader', S)
         /\ phase = "listing" => OnTrack(reader', S)
    <3>1. /\ phase = "listed" => Done(turned, S)
          /\ phase = "listing" => OnTrack(turned, S)
      BY <2>1 DEF turned
    <3>2. QED
      BY <2>5, <3>1, PhaseFree
  <2>11. /\ phase = "listed" => Done(reader, Selected(reader.query))'
         /\ phase = "listing" => OnTrack(reader, Selected(reader.query))'
    BY <2>9, <2>10
  <2> HIDE DEF phase
  <2>12. QED
    BY <2>5, <2>7, <2>8, <2>11 DEF ReaderInv
<1>6. QED
  BY <1>4, <1>5 DEF ListEvents

LEMMA RealtimeTyped ==
  ASSUME NEW r \in Realtime
  PROVE  LET q == RealtimeScope(r.source, r.since, r.limit)
         IN  q \in EventListQuery /\ q.offset = 0
<1>1. r.source \in Nat /\ r.since \in Nat /\ r.limit \in Int
  BY ReadAssumption
<1>2. NormalizeLimit(r.limit, DefaultRealtimeLimit) \in Int
  BY <1>1, PolicyAssumption DEF NormalizeLimit
<1>3. <<>> \in Seq(EventFilter) /\ <<>> \in Seq(EventPropertyFilter)
  OBVIOUS
<1>4. "" \in {""} \cup STRING /\ {} \in SUBSET [scope : STRING, name : STRING]
  OBVIOUS
<1>5. ASSUME NEW source \in Nat, NEW since \in Nat, NEW limit \in Int
      PROVE  [source |-> source, from |-> since, to |-> 0, event_name |-> 0, distinct_id |-> 0,
              limit |-> limit, offset |-> 0, sort |-> "", direction |-> "", filters |-> <<>>,
              properties |-> <<>>, allowed |-> {}] \in EventListQuery
  BY <1>3, <1>4 DEF EventListQuery
<1>6. QED
  BY <1>1, <1>2, <1>5 DEF RealtimeScope, None

LEMMA RealtimeStep ==
  ASSUME WriteInv, ReaderInv, NEW r \in Realtime, ListRealtime(r.source, r.since, r.limit)
  PROVE  ReaderInv'
<1> DEFINE q == RealtimeScope(r.source, r.since, r.limit)
           rd == Began(q, "realtime")
<1>1. UNCHANGED Rows /\ ValidQuery(q)
  BY DEF ListRealtime, writeVars, Rows
<1>2. PICK page \in Pages(q, Selected(q)) : reader' = [rd EXCEPT !.listed = page]
  BY DEF ListRealtime
<1>3. q \in EventListQuery /\ q.offset = 0
  BY RealtimeTyped
<1> HIDE DEF q
<1>4. /\ rd \in Readers /\ Own(rd) /\ Owed(rd) /\ rd.phase = "realtime" /\ rd.query = q
      /\ rd.listed = <<>> /\ rd.before = Selected(q)
  BY <1>3, BeganIs
<1>5. IsFiniteSet(Selected(q)) /\ Selected(q) \subseteq Candidates(q) \X Nat
      /\ Cardinality(Selected(q)) \in Nat
  BY SelectedIs, FS_CardinalityType
<1> HIDE DEF rd
<1>6. page \in Seq(Message) /\ \A i \in DOMAIN page : \E row \in Selected(q) : page[i] = row[1]
  BY <1>2, <1>3, <1>4, <1>5, PageIs
<1>7. /\ reader' \in Readers /\ reader'.phase = "realtime" /\ reader'.listed = page
      /\ reader'.query = q /\ reader'.before = rd.before /\ reader'.acked = rd.acked
  BY <1>2, <1>4, <1>6 DEF Readers
<1>8. rd.listed \o page = page
  BY <1>4, <1>6
<1>9. Own(reader')
  <2>1. SameScope(q, q)
    BY DEF SameScope
  <2>2. QED
    BY <1>4, <1>6, <1>7, <1>8, <2>1, OwnAppend
<1>10. Own(reader)' /\ Owed(reader)'
  BY <1>1, <1>4, <1>7, <1>9 DEF Own, OwnProperty, Owed, Rows
<1>11. QED
  BY <1>7, <1>10 DEF ReaderInv

LEMMA ReaderStep == WriteInv /\ ReaderInv /\ [Next]_vars => ReaderInv'
<1> SUFFICES ASSUME WriteInv, ReaderInv, [Next]_vars PROVE ReaderInv'
  OBVIOUS
<1>1. ASSUME Reading, NEW m \in Message, Ingest(m) PROVE ReaderInv'
  <2>1. UNCHANGED reader
    BY <1>1 DEF Ingest, StoreEvent, StoreProperties, UpsertEntries, AcknowledgeBare
  <2>2. Grows
    BY <1>1, WritesGrow
  <2>3. QED
    BY <1>1, <2>1, <2>2, WriteStep, WriteKeepsReader
<1>2. ASSUME Reading, NEW source \in DOMAIN Table, CreateTable(source) PROVE ReaderInv'
  <2>1. UNCHANGED reader
    BY <1>2 DEF CreateTable
  <2>2. Grows
    BY <1>2, WritesGrow
  <2>3. QED
    BY <1>2, <2>1, <2>2, WriteStep, WriteKeepsReader
<1>3. ASSUME Read PROVE ReaderInv'
  <2>1. CASE ReadFails
    BY <2>1 DEF ReadFails, ReadError, ReaderInv
  <2>2. QED
    BY <1>3, <2>1, CountStep, ListStep, RealtimeStep DEF Read
<1>4. ASSUME UNCHANGED vars PROVE ReaderInv'
  <2>1. UNCHANGED <<Rows, reader>>
    BY <1>4 DEF vars, writeVars, Rows
  <2>2. Selected(reader.query)' = Selected(reader.query)
    BY <2>1, SelectedStays
  <2>3. /\ Own(reader)' <=> Own(reader)
        /\ Owed(reader)' <=> Owed(reader)
    BY <2>1 DEF Own, OwnProperty, Owed, Rows
  <2>4. QED
    BY <2>1, <2>2, <2>3 DEF ReaderInv
<1>5. QED
  BY <1>1, <1>2, <1>3, <1>4 DEF Next

LEMMA ReadersInductive == Spec => [](WriteInv /\ ReaderInv)
<1>1. Init => ReaderInv
  BY DEF Init, Idle, ReaderInv
<1>2. QED
  BY <1>1, InitWrite, WriteStep, ReaderStep, PTL DEF Spec

-----------------------------------------------------------------------------
(* For every set of envelopes, queries, limits and orders of writes: a     *)
(* page that is not full ends a listing which shows every row there was    *)
(* when it began, when no two candidates share both of their times.        *)
THEOREM ListingSkipsNothing == Spec => []NoRowSkipped
<1>1. ReaderInv => NoRowSkipped
  BY DEF ReaderInv, NoRowSkipped, Listed, Done, NothingSkipped, Times, CopiesBefore, Occurs, Of
<1>2. QED
  BY <1>1, ReadersInductive, PTL

(* With or without ties, the listing is as long as the last page counted.  *)
THEOREM CountsAgree == Spec => []CountsBracketListing
<1>1. ReaderInv => CountsBracketListing
  <2> SUFFICES ASSUME ReaderInv, Listed PROVE /\ reader.count <= Len(reader.listed)
                                             /\ Len(reader.listed) <= Count(reader.query)
    BY DEF CountsBracketListing
  <2>1. reader \in Readers /\ Done(reader, Selected(reader.query))
    BY DEF ReaderInv, Listed
  <2>2. reader.query \in EventListQuery
    BY <2>1 DEF Readers
  <2>3. QED
    BY <2>1, <2>2, CountIs DEF Done
<1>2. QED
  BY <1>1, ReadersInductive, PTL

(* However the hashed table names collide and event ids coincide, every    *)
(* row listed is of the query's source and satisfies each property filter  *)
(* with a property of its own event.                                       *)
THEOREM RowsAreTheirSources == Spec => []SourcesApart
<1>1. ReaderInv => SourcesApart
  BY DEF ReaderInv, SourcesApart, Own
<1>2. QED
  BY <1>1, ReadersInductive, PTL

(* An event acknowledged before a listing that asks for it began is in it: *)
(* its rows came before the acknowledgement, the tables before the rows,   *)
(* and no row of the beginning is skipped.                                 *)
THEOREM AcknowledgedIsRead == Spec => []AcknowledgedIsListed
<1>1. ReaderInv => AcknowledgedIsListed
  <2> SUFFICES ASSUME ReaderInv, Listed, TimesDiffer(reader.query), NEW m \in reader.acked
               PROVE  \E n \in ToSet(reader.listed) : KeyOf[n] = KeyOf[m]
    BY DEF AcknowledgedIsListed
  <2>1. reader \in Readers /\ Owed(reader) /\ Done(reader, Selected(reader.query))
    BY DEF ReaderInv, Listed
  <2>2. PICK n \in Message : KeyOf[n] = KeyOf[m] /\ Cardinality(Of(n, reader.before)) \in Nat \ {0}
    BY <2>1 DEF Owed
  <2>3. Occurs(n, reader.listed) >= Cardinality(Of(n, reader.before))
    BY <2>1 DEF Done
  <2>4. ASSUME n \notin ToSet(reader.listed) PROVE FALSE
    <3>1. {i \in DOMAIN reader.listed : reader.listed[i] = n} = {}
      BY <2>4 DEF ToSet
    <3>2. Occurs(n, reader.listed) = 0
      BY <3>1, FS_EmptySet DEF Occurs
    <3>3. QED
      BY <2>2, <2>3, <3>2
  <2>5. QED
    BY <2>2, <2>4
<1>2. QED
  BY <1>1, ReadersInductive, PTL

SuggestedFilter(d, value) ==
  [scope |-> d.scope, name |-> d.name, type |-> d.type, op |-> "eq", value |-> value]

SuggestedQuery(d, value, from, source) ==
  [Suggested(d, value, from) EXCEPT !.source = source]

Finds(q, m) == ValidQuery(q) /\ \E r \in Selected(q) : r[1] = m

IsSuggested(q, f, from, source) ==
  /\ q.source = source /\ q.from = from /\ q.to = from + MaxPropertyFilterWindow
  /\ q.event_name = None /\ q.distinct_id = None /\ q.offset = 0
  /\ q.sort = "" /\ q.direction = "" /\ q.filters = <<>>
  /\ q.properties = <<f>> /\ q.allowed = {Selector(f)}

LEMMA SuggestedIs ==
  ASSUME NEW d, NEW value, NEW from, NEW source
  PROVE  IsSuggested(SuggestedQuery(d, value, from, source), SuggestedFilter(d, value),
                     from, source)
  BY DEF IsSuggested, SuggestedQuery, Suggested, SuggestedFilter, Selector

(* The content of an observer of d.                                        *)
LEMMA ObserverHas ==
  ASSUME WriteInv, NEW d, NEW m \in Observers(d)
  PROVE  /\ m \in Message /\ m \in catalog /\ d.source = Source(m) /\ d.type \in ValueTypes
         /\ \E p \in Envelope[m].properties :
              HasProperty(m, SuggestedFilter(d, p.value), Catalog!Flatten(m))
<1>1. m \in catalog /\ m \in Message /\ Catalog!Flattens(m)
  BY DEF Observers, WriteInv
<1>2. PICK r \in Catalog!Flatten(m) : Catalog!Definition(r) = d
  BY DEF Observers
<1>3. PICK p \in Envelope[m].properties :
        /\ r.id = Envelope[m].id /\ r.source = Envelope[m].source
        /\ r.scope = p.scope /\ r.name = p.name /\ r.type = p.type /\ r.value = p.value
  BY <1>2 DEF Catalog!Flatten
<1>4. d.source = Source(m) /\ d.scope = r.scope /\ d.name = r.name /\ d.type = r.type
  BY <1>2, <1>3 DEF Catalog!Definition, Source
<1>5. d.type \in ValueTypes
  BY <1>1, <1>3, <1>4 DEF Catalog!Flattens, Catalog!ScalarTypes, ValueTypes
<1> DEFINE f == SuggestedFilter(d, p.value)
<1>6. f.scope = d.scope /\ f.name = d.name /\ f.type = d.type /\ f.op = "eq" /\ f.value = p.value
  BY DEF SuggestedFilter
<1> HIDE DEF f
<1>7. HasProperty(m, f, Catalog!Flatten(m))
  BY <1>2, <1>3, <1>4, <1>6 DEF HasProperty, SameEvent, Source, Compare
<1>8. QED
  BY <1>1, <1>4, <1>5, <1>7 DEF f

LEMMA OneElement ==
  ASSUME NEW x
  PROVE  ToSet(<<x>>) = {x} /\ Len(<<x>>) = 1 /\ <<x>> # <<>> /\ Len(<<>>) = 0
<1>1. DOMAIN <<x>> = {1} /\ <<x>>[1] = x /\ Len(<<x>>) = 1 /\ Len(<<>>) = 0
  OBVIOUS
<1>2. QED
  BY <1>1 DEF ToSet

LEMMA SuggestedIsValid ==
  ASSUME NEW d, NEW value, NEW from \in Nat \ {0}, NEW source, source # None,
         d.type \in ValueTypes
  PROVE  ValidQuery(SuggestedQuery(d, value, from, source))
<1> DEFINE q == SuggestedQuery(d, value, from, source)
           f == SuggestedFilter(d, value)
<1>0. MaxPropertyFilterWindow \in Nat \ {0} /\ MaxFilters \in Nat \ {0}
  BY PolicyAssumption
<1>1. /\ q.source = source /\ q.from = from /\ q.to = from + MaxPropertyFilterWindow
      /\ q.offset = 0 /\ q.sort = "" /\ q.direction = "" /\ q.filters = <<>>
      /\ q.properties = <<f>> /\ q.allowed = {Selector(f)}
  <2>1. IsSuggested(q, f, from, source)
    BY SuggestedIs
  <2> HIDE DEF q, f
  <2>2. QED
    BY <2>1 DEF IsSuggested
<1>2. f.op = "eq" /\ f.type = d.type
  BY DEF SuggestedFilter
<1> HIDE DEF q, f
<1>3. ToSet(q.properties) = {f} /\ ToSet(q.filters) = {}
  BY <1>1, OneElement, NothingListed
<1>4. ValidPropertyFilter(q, f)
  BY <1>1, <1>2 DEF ValidPropertyFilter, Operators
<1>5. q.from < q.to /\ WindowAllowed(q)
  <2>1. q.from = from /\ q.to = from + MaxPropertyFilterWindow
    BY <1>1
  <2>2. PICK max \in Nat \ {0} : max = MaxPropertyFilterWindow
    BY <1>0
  <2>3. from < from + max /\ from + max # 0 /\ (from + max) - from <= max
    OBVIOUS
  <2>4. QED
    BY <2>1, <2>2, <2>3 DEF WindowAllowed, None
<1>7. Len(q.filters) + Len(q.properties) <= MaxFilters
  <2>1. Len(q.filters) = 0 /\ Len(q.properties) = 1
    BY <1>1, OneElement
  <2>2. QED
    BY <1>0, <2>1
<1>8. ValidScope(q)
  <2>1. q.offset >= 0 /\ q.source # None
    <3>1. q.offset = 0 /\ q.source = source
      BY <1>1, Zenon
    <3>2. QED
      BY <3>1
  <2>2. /\ \A g \in ToSet(q.filters) : ValidFilter(g)
        /\ \A g \in ToSet(q.properties) : ValidPropertyFilter(q, g)
    BY <1>3, <1>4
  <2>3. QED
    BY <1>5, <1>7, <2>1, <2>2 DEF ValidScope
<1>9. Sort(q) \in SortFields /\ Direction(q) \in {"asc", "desc"}
  BY <1>1 DEF Sort, SortFields, Direction
<1>10. ValidQuery(q)
  BY <1>8, <1>9 DEF ValidQuery
<1>11. QED
  BY <1>10 DEF q

CatalogAnswers ==
  \A source \in DOMAIN Table : \A d \in Catalog!ListEntries(definitions, source) :
    \A from \in {definitions[d].first, definitions[d].last} :
      \A m \in Observers(d) :
        PublishedOnce(m) /\ Envelope[m].event_time = from =>
          \E p \in Envelope[m].properties : Finds(SuggestedQuery(d, p.value, from, source), m)

LEMMA AnswersAreRows == CatalogAnswers => SuggestionsFindRows
<1> DEFINE Spelled ==
      \A source \in DOMAIN Table : \A d \in Catalog!ListEntries(definitions, source) :
        \A from \in {definitions[d].first, definitions[d].last} :
          \A m \in Observers(d) :
            PublishedOnce(m) /\ Envelope[m].event_time = from =>
              \E p \in Envelope[m].properties :
                Finds([Suggested(d, p.value, from) EXCEPT !.source = source], m)
<1>1. CatalogAnswers => Spelled
  BY Zenon DEF CatalogAnswers, SuggestedQuery
<1>2. Spelled => SuggestionsFindRows
  BY Zenon DEF SuggestionsFindRows, Finds
<1>3. QED
  BY <1>1, <1>2

(* Whatever the catalog lists can be asked for and finds the event whose   *)
(* time its entry gives: the entry was written after the property rows,    *)
(* and these after the event row.                                          *)
THEOREM SuggestionsAreFound == Spec => []SuggestionsFindRows
<1>1. WriteInv => SuggestionsFindRows
  <2> SUFFICES ASSUME WriteInv, NEW source \in DOMAIN Table,
                      NEW d \in Catalog!ListEntries(definitions, source),
                      NEW from \in {definitions[d].first, definitions[d].last},
                      NEW m \in Observers(d), PublishedOnce(m), Envelope[m].event_time = from
               PROVE  \E p \in Envelope[m].properties :
                        Finds(SuggestedQuery(d, p.value, from, source), m)
    BY AnswersAreRows DEF CatalogAnswers
  <2>1. /\ m \in Message /\ m \in catalog /\ d.source = Source(m) /\ d.type \in ValueTypes
        /\ source = Source(m)
    BY ObserverHas DEF Catalog!ListEntries
  <2>2. PICK p \in Envelope[m].properties :
          HasProperty(m, SuggestedFilter(d, p.value), Catalog!Flatten(m))
    BY ObserverHas
  <2> DEFINE q == SuggestedQuery(d, p.value, from, source)
             f == SuggestedFilter(d, p.value)
  <2>3. from \in Nat \ {0} /\ source # None
    BY <2>1, ReadAssumption
  <2>4. ValidQuery(q)
    BY <2>1, <2>3, SuggestedIsValid
  <2>5. /\ q.source = source /\ q.from = from /\ q.to = from + MaxPropertyFilterWindow
        /\ q.event_name = None /\ q.distinct_id = None /\ q.filters = <<>>
        /\ q.properties = <<f>>
    <3>1. IsSuggested(q, f, from, source)
      BY SuggestedIs
    <3> HIDE DEF q, f
    <3>2. QED
      BY <3>1 DEF IsSuggested
  <2> HIDE DEF q, f
  <2>6. ToSet(q.properties) = {f} /\ ToSet(q.filters) = {} /\ q.properties # <<>>
    BY <2>5, OneElement, NothingListed
  <2>7. MatchesColumns(q, m)
    <3>1. from < from + MaxPropertyFilterWindow /\ from >= from
      <4>1. MaxPropertyFilterWindow \in Nat \ {0}
        BY PolicyAssumption
      <4>2. PICK max \in Nat \ {0} : max = MaxPropertyFilterWindow
        BY <4>1
      <4>3. QED
        BY <2>3, <4>2
    <3>2. QED
      BY <2>1, <2>5, <2>6, <3>1 DEF MatchesColumns, Source
  <2>8. rows[m] >= 1 /\ propertyRows[m] >= 1
    BY <2>1 DEF WriteInv, Visible, Writes!Stored, Writes!Indexed, PublishedOnce
  <2>9. <<m, 1>> \in Selected(q)
    BY <2>1, <2>2, <2>6, <2>7, <2>8, VisibleSelected DEF f
  <2>10. Finds(q, m)
    BY <2>4, <2>9 DEF Finds
  <2>11. QED
    BY <2>10 DEF q
<1>2. QED
  BY <1>1, WritesInductive, PTL
=============================================================================
