----------------------- MODULE OrderedCommitterProofs -----------------------
(***************************************************************************)
(* Facts about the ordered committer's operators, for every set of offsets *)
(* and generations, that the proofs of the pipeline rest on.               *)
(***************************************************************************)
EXTENDS OrderedCommitter, FiniteSetTheorems, WellFoundedInduction, TLAPS

(* Every nonempty set of naturals has a least element: the intervals from  *)
(* zero to its elements are well-founded under strict inclusion.           *)
LEMMA LeastNatural ==
  ASSUME NEW S, S \subseteq Nat, NEW n \in S
  PROVE  \E m \in S : \A k \in S : m <= k
<1> DEFINE D == 0 .. n
           below == {0 .. m : m \in {k \in S : k <= n}}
           R == StrictSubsetOrdering(D)
<1>1. IsFiniteSet(D)
  BY FS_Interval
<1>2. IsWellFoundedOn(R, SUBSET D)
  BY <1>1, FS_StrictSubsetOrderingWellFounded, FS_FiniteSubsetsOfFinite, Zenon
<1>3. below \subseteq SUBSET D /\ below # {}
  OBVIOUS
<1> HIDE DEF below, D, R
<1>4. PICK x \in below : \A y \in below : ~ (<<y, x>> \in R)
  BY <1>2, <1>3, WFMin, Zenon
<1>5. PICK m \in S : m <= n /\ x = 0 .. m
  BY DEF below
<1>6. ASSUME NEW k \in S, k < m PROVE FALSE
  <2>1. 0 .. k \in below
    BY <1>5, <1>6 DEF below
  <2>2. <<0 .. k, x>> \in (SUBSET D) \X (SUBSET D)
    BY <2>1, <1>3
  <2>3. 0 .. k \subseteq x /\ 0 .. k # x
    BY <1>5, <1>6
  <2>4. <<0 .. k, x>> \in R
    BY <2>2, <2>3 DEF R, StrictSubsetOrdering
  <2>5. QED
    BY <2>1, <2>4, <1>4
<1>7. QED
  BY <1>5, <1>6

(* A nonempty bounded set of naturals has a greatest element.              *)
LEMMA GreatestNatural ==
  ASSUME NEW S, S \subseteq Nat, NEW n \in S, NEW b \in Nat, \A k \in S : k <= b
  PROVE  \E m \in S : \A k \in S : k <= m
<1> DEFINE bounds == {m \in Nat : \A k \in S : k <= m}
<1>1. b \in bounds /\ bounds \subseteq Nat
  OBVIOUS
<1>2. PICK m \in bounds : \A k \in bounds : m <= k
  BY <1>1, LeastNatural
<1>3. ASSUME m \notin S PROVE FALSE
  <2>1. n < m
    BY <1>2, <1>3
  <2>2. m - 1 \in bounds
    BY <1>2, <1>3, <2>1
  <2>3. QED
    BY <1>2, <2>2
<1>4. QED
  BY <1>2, <1>3

(* The states of a typed committer are a function on some of its offsets,  *)
(* and any such function may be its states.                                *)
LEMMA StatesType ==
  ASSUME NEW S, NEW G, NEW f
  PROVE  f \in UNION {[D -> CommitState(G)] : D \in SUBSET S}
           <=> \E D \in SUBSET S : f \in [D -> CommitState(G)]
  OBVIOUS

LEMMA CommitterStates ==
  ASSUME NEW S, NEW G, NEW c \in Committer(S, G)
  PROVE  /\ DOMAIN c.states \subseteq S
         /\ c.states \in [DOMAIN c.states -> CommitState(G)]
<1>1. c.states \in UNION {[D -> CommitState(G)] : D \in SUBSET S}
  BY DEF Committer
<1>2. QED
  BY <1>1, StatesType

(* The initial committer is typed.                                         *)
LEMMA EmptyCommitterType ==
  ASSUME NEW S, NEW G, 0 \in G
  PROVE  /\ EmptyCommitter \in Committer(S, G)
         /\ ~ EmptyCommitter.initialized
         /\ DOMAIN EmptyCommitter.states = {}
<1>1. NoStates \in [{} -> CommitState(G)] /\ DOMAIN NoStates = {}
  BY DEF NoStates, CommitState
<1>2. NoStates \in UNION {[D -> CommitState(G)] : D \in SUBSET S}
  BY <1>1, StatesType
<1>3. QED
  BY <1>1, <1>2 DEF EmptyCommitter, Committer

(* The flush loop stops: FlushEnd is at or after nextOffset, the offset    *)
(* there is not done, and every offset before it, from nextOffset on, is.  *)
LEMMA FlushEndStops ==
  ASSUME NEW S, S \subseteq Nat, NEW G, NEW c \in Committer(S, G),
         NEW b \in Nat, \A o \in DOMAIN c.states : o < b
  PROVE  /\ FlushEnd(c) \in Nat
         /\ FlushEnd(c) >= c.nextOffset
         /\ ~ IsDone(c, FlushEnd(c))
         /\ \A k \in c.nextOffset .. (FlushEnd(c) - 1) : IsDone(c, k)
<1> DEFINE n == c.nextOffset
           ends == {n} \cup {o + 1 : o \in DOMAIN c.states}
           blocked == {m \in Nat : m >= n /\ ~ IsDone(c, m)}
           Stop(m) == /\ m >= n
                      /\ ~ IsDone(c, m)
                      /\ \A k \in n .. (m - 1) : IsDone(c, k)
<1>1. n \in Nat /\ DOMAIN c.states \subseteq Nat
  BY CommitterStates DEF Committer
<1>2. \E m \in ends : Stop(m)
  <2>1. n + b \in blocked /\ blocked \subseteq Nat
    BY <1>1 DEF IsDone
  <2>2. PICK m \in blocked : \A k \in blocked : m <= k
    BY <2>1, LeastNatural
  <2>3. \A k \in n .. (m - 1) : IsDone(c, k)
    BY <1>1, <2>2
  <2>4. m \in ends
    <3>1. CASE m = n
      BY <3>1
    <3>2. CASE m # n
      <4>1. m - 1 \in n .. (m - 1) /\ m = (m - 1) + 1
        BY <1>1, <2>2, <3>2
      <4>2. m - 1 \in DOMAIN c.states
        BY <2>3, <4>1 DEF IsDone
      <4>3. QED
        BY <4>1, <4>2
    <3>3. QED
      BY <3>1, <3>2
  <2>5. QED
    BY <2>2, <2>3, <2>4
<1>3. ends \subseteq Nat
  BY <1>1
<1> HIDE DEF ends
<1>4. FlushEnd(c) = CHOOSE m \in ends : Stop(m)
  BY DEF FlushEnd, ends
<1>5. QED
  BY <1>2, <1>3, <1>4

-----------------------------------------------------------------------------
(* What Register(c, o, g) returns, r, when c is empty or of generation g:  *)
(* a committer of that generation that holds o besides what c holds.       *)
Registered(S, G, c, o, g, r) ==
  /\ r \in Committer(S, G)
  /\ r.initialized /\ r.generationID = g
  /\ r.nextOffset = IF c.initialized THEN c.nextOffset ELSE o
  /\ DOMAIN r.states = DOMAIN c.states \cup {o}
  /\ \A k \in DOMAIN c.states : r.states[k] = c.states[k]
  /\ o \notin DOMAIN c.states => r.states[o] = [done |-> FALSE, generationID |-> g]

(* Register keeps the committer typed and adds the offset, at the given    *)
(* generation, to the states of that generation.                           *)
LEMMA RegisterAdds ==
  ASSUME NEW S, S \subseteq Nat, NEW G, 0 \in G, NEW c \in Committer(S, G),
         NEW o \in S, NEW g \in G,
         c.initialized => c.generationID = g,
         ~ c.initialized => DOMAIN c.states = {}
  PROVE  Registered(S, G, c, o, g, Register(c, o, g))
<1> DEFINE s == Seed(c, o, g)
           t == RecordGap(s, o)
           f == [x \in DOMAIN t.states \cup {o} |->
                   IF x = o THEN [done |-> FALSE, generationID |-> g] ELSE t.states[x]]
<1>1. ResetIfStale(c, g) = c
  BY DEF ResetIfStale
<1>2. Register(c, o, g) = IF o \in DOMAIN s.states THEN s ELSE AddState(t, o, g)
  BY <1>1 DEF Register
<1>3. /\ s \in Committer(S, G)
      /\ s.states = c.states /\ s.initialized /\ s.generationID = g
      /\ s.nextOffset = IF c.initialized THEN c.nextOffset ELSE o
  BY DEF Seed, Committer
<1> HIDE DEF s
<1>4. /\ t \in Committer(S, G)
      /\ t.states = s.states /\ t.initialized = s.initialized
      /\ t.generationID = s.generationID /\ t.nextOffset = s.nextOffset
  <2>1. CASE DOMAIN s.states # {} /\ o > s.lastRegisteredOffset
    <3> DEFINE gap == o - s.lastRegisteredOffset
               largest == IF gap > s.largestRegisterGap THEN gap ELSE s.largestRegisterGap
    <3>1. s.lastRegisteredOffset \in Nat /\ s.largestRegisterGap \in Nat /\ o \in Nat
      BY <1>3 DEF Committer
    <3>2. largest \in Nat
      BY <2>1, <3>1
    <3>3. t = [s EXCEPT !.largestRegisterGap = largest, !.lastRegisteredOffset = o]
      BY <2>1 DEF RecordGap
    <3> HIDE DEF largest, t
    <3>4. QED
      BY <1>3, <3>1, <3>2, <3>3 DEF Committer
  <2>2. CASE ~ (DOMAIN s.states # {} /\ o > s.lastRegisteredOffset)
    BY <1>3, <2>2 DEF RecordGap
  <2>3. QED
    BY <2>1, <2>2
<1> HIDE DEF t
<1>5. /\ DOMAIN t.states \subseteq S
      /\ t.states \in [DOMAIN t.states -> CommitState(G)]
  BY <1>4, CommitterStates
<1>6. f \in [DOMAIN t.states \cup {o} -> CommitState(G)]
  BY <1>5 DEF CommitState
<1>7. AddState(t, o, g) = [t EXCEPT !.states = f]
  BY DEF AddState
<1> HIDE DEF f
<1>8. f \in UNION {[D -> CommitState(G)] : D \in SUBSET S}
  <2>1. DOMAIN t.states \cup {o} \in SUBSET S
    BY <1>5
  <2>2. QED
    BY <1>6, <2>1, StatesType
<1>9. AddState(t, o, g) \in Committer(S, G) /\ AddState(t, o, g).states = f
  BY <1>4, <1>7, <1>8 DEF Committer
<1>10. /\ AddState(t, o, g).initialized = t.initialized
       /\ AddState(t, o, g).generationID = t.generationID
       /\ AddState(t, o, g).nextOffset = t.nextOffset
  BY <1>4, <1>7 DEF Committer
<1>11. CASE o \in DOMAIN c.states
  <2>1. Register(c, o, g) = s
    BY <1>2, <1>3, <1>11
  <2>2. QED
    BY <2>1, <1>3, <1>11 DEF Registered
<1>12. CASE o \notin DOMAIN c.states
  <2>1. Register(c, o, g) = AddState(t, o, g)
    BY <1>2, <1>3, <1>12
  <2>2. /\ DOMAIN f = DOMAIN c.states \cup {o}
        /\ \A k \in DOMAIN c.states : f[k] = c.states[k]
        /\ f[o] = [done |-> FALSE, generationID |-> g]
    BY <1>3, <1>4, <1>12 DEF f
  <2>3. QED
    BY <2>1, <2>2, <1>3, <1>4, <1>9, <1>10 DEF Registered
<1>13. QED
  BY <1>11, <1>12

-----------------------------------------------------------------------------
(* Complete keeps the committer typed, never adds an offset, drops or      *)
(* finishes only offsets that were done or are completed now, and moves    *)
(* nextOffset only over such offsets.                                      *)
LEMMA FinishFacts ==
  ASSUME NEW S, NEW G, NEW c \in Committer(S, G), NEW o \in DOMAIN c.states
  PROVE  LET f == Finish(c, o)
         IN  /\ f \in Committer(S, G)
             /\ f.initialized = c.initialized /\ f.generationID = c.generationID
             /\ f.nextOffset = c.nextOffset
             /\ DOMAIN f.states = DOMAIN c.states
             /\ \A k \in DOMAIN c.states :
                  /\ f.states[k].generationID = c.states[k].generationID
                  /\ f.states[k].done => k = o \/ c.states[k].done
<1> DEFINE n  == IF c.states[o].done THEN c.doneCount ELSE c.doneCount + 1
           st == [c.states EXCEPT ![o].done = TRUE]
<1>1. /\ DOMAIN c.states \in SUBSET S
      /\ c.states \in [DOMAIN c.states -> CommitState(G)]
  BY CommitterStates
<1>2. st \in [DOMAIN c.states -> CommitState(G)]
  BY <1>1 DEF CommitState
<1>3. /\ DOMAIN st = DOMAIN c.states
      /\ \A k \in DOMAIN c.states :
           /\ st[k].generationID = c.states[k].generationID
           /\ st[k].done => k = o \/ c.states[k].done
  BY <1>1 DEF CommitState
<1>4. n \in Int
  BY DEF Committer
<1>5. Finish(c, o) = [c EXCEPT !.states = st, !.doneCount = n]
  BY DEF Finish, Committer
<1> HIDE DEF st, n
<1>6. st \in UNION {[D -> CommitState(G)] : D \in SUBSET S}
  BY <1>1, <1>2, StatesType
<1>7. QED
  BY <1>3, <1>4, <1>5, <1>6 DEF Committer

LEMMA FlushFacts ==
  ASSUME NEW S, NEW G, NEW c \in Committer(S, G), FlushEnd(c) \in Nat
  PROVE  /\ Flush(c) \in Committer(S, G)
         /\ Flush(c).initialized = c.initialized
         /\ Flush(c).generationID = c.generationID
         /\ Flush(c).nextOffset = FlushEnd(c)
         /\ Flush(c).states = Remaining(c)
<1> DEFINE D  == DOMAIN c.states \ FlushRange(c)
           st == Remaining(c)
           n  == c.doneCount - Cardinality(FlushRange(c))
<1>2. n \in Int
  <2>1. c.nextOffset \in Int /\ FlushEnd(c) - 1 \in Int /\ c.doneCount \in Int
    BY DEF Committer
  <2>2. IsFiniteSet(FlushRange(c))
    BY <2>1, FS_Interval DEF FlushRange
  <2>3. Cardinality(FlushRange(c)) \in Nat
    BY <2>2, FS_CardinalityType
  <2>4. QED
    BY <2>1, <2>3
<1>3. /\ DOMAIN c.states \in SUBSET S
      /\ c.states \in [DOMAIN c.states -> CommitState(G)]
  BY CommitterStates
<1>4. st \in [D -> CommitState(G)] /\ D \in SUBSET S
  BY <1>3 DEF Remaining
<1>5. Flush(c) = [c EXCEPT !.states = st, !.doneCount = n, !.nextOffset = FlushEnd(c)]
  BY DEF Flush
<1>6. st = Remaining(c)
  OBVIOUS
<1> HIDE DEF st, n, D
<1>7. st \in UNION {[E -> CommitState(G)] : E \in SUBSET S}
  BY <1>4, StatesType
<1>8. QED
  BY <1>2, <1>5, <1>6, <1>7 DEF Committer

(* Offsets that are done in c, or that a completion of o makes done.       *)
Finished(c, o, k) == k = o \/ IsDone(c, k)

(* What Complete(c, o, g) returns, r: an empty committer, or one of the    *)
(* same generation whose offsets were c's and whose nextOffset has moved   *)
(* over finished offsets only.                                             *)
Advanced(S, G, c, o, r) ==
  /\ r \in Committer(S, G)
  /\ r.initialized => c.initialized /\ r.generationID = c.generationID
  /\ ~ r.initialized => DOMAIN r.states = {}
  /\ DOMAIN r.states \subseteq DOMAIN c.states
  /\ \A k \in DOMAIN r.states :
       /\ r.states[k].generationID = c.states[k].generationID
       /\ r.states[k].done => Finished(c, o, k)
  /\ \A k \in DOMAIN c.states \ DOMAIN r.states : Finished(c, o, k)
  /\ r.initialized =>
       \A k \in Nat : k < r.nextOffset => k < c.nextOffset \/ Finished(c, o, k)

(* Complete keeps the committer typed, never adds an offset, drops or      *)
(* finishes only finished offsets, and moves nextOffset over them alone.   *)
LEMMA CompleteAdvances ==
  ASSUME NEW S, S \subseteq Nat, NEW G, 0 \in G, NEW c \in Committer(S, G),
         NEW o, NEW g, NEW b \in Nat, \A k \in DOMAIN c.states : k < b,
         ~ c.initialized => DOMAIN c.states = {}
  PROVE  Advanced(S, G, c, o, Complete(c, o, g))
<1>1. CASE ~ Accepts(c, o, g)
  <2>1. Complete(c, o, g) = c
    BY <1>1 DEF Complete
  <2>2. c.nextOffset \in Nat
    BY DEF Committer
  <2>3. QED
    BY <2>1, <2>2 DEF Advanced, Finished, IsDone
<1>2. CASE Accepts(c, o, g)
  <2>1. o \in DOMAIN c.states /\ c.initialized
    BY <1>2 DEF Accepts
  <2>2. PICK f \in Committer(S, G) :
          /\ f = Finish(c, o)
          /\ f.initialized = c.initialized /\ f.generationID = c.generationID
          /\ f.nextOffset = c.nextOffset
          /\ DOMAIN f.states = DOMAIN c.states
          /\ \A k \in DOMAIN c.states :
               /\ f.states[k].generationID = c.states[k].generationID
               /\ f.states[k].done => k = o \/ c.states[k].done
    BY <2>1, FinishFacts
  <2>3. /\ FlushEnd(f) \in Nat
        /\ \A k \in f.nextOffset .. (FlushEnd(f) - 1) : IsDone(f, k)
    <3>1. \A k \in DOMAIN f.states : k < b
      BY <2>2
    <3>2. QED
      BY <3>1, FlushEndStops
  <2>4. PICK h \in Committer(S, G) :
          /\ h = Flush(f)
          /\ h.initialized = f.initialized /\ h.generationID = f.generationID
          /\ h.nextOffset = FlushEnd(f)
          /\ h.states = Remaining(f)
    BY <2>3, FlushFacts
  <2>5. /\ DOMAIN h.states = DOMAIN f.states \ FlushRange(f)
        /\ \A k \in DOMAIN h.states : h.states[k] = f.states[k]
    BY <2>4 DEF Remaining
  <2>6. Complete(c, o, g) = IF DOMAIN h.states = {} THEN EmptyCommitter ELSE h
    BY <1>2, <2>2, <2>4 DEF Complete, ResetIfDrained
  <2>7. \A k : IsDone(f, k) => Finished(c, o, k)
    BY <2>2 DEF IsDone, Finished
  <2>8. \A k \in FlushRange(f) : Finished(c, o, k)
    BY <2>3, <2>7 DEF FlushRange
  <2>9. \A k \in Nat : k < FlushEnd(f) => k < c.nextOffset \/ Finished(c, o, k)
    <3>1. f.nextOffset \in Nat
      BY <2>2 DEF Committer
    <3>2. QED
      BY <2>2, <2>3, <2>8, <3>1 DEF FlushRange
  <2>10. \A k \in DOMAIN h.states :
          /\ h.states[k].generationID = c.states[k].generationID
          /\ h.states[k].done => Finished(c, o, k)
    BY <2>2, <2>5 DEF IsDone, Finished
  <2>11. CASE DOMAIN h.states = {}
    <3>1. Complete(c, o, g) = EmptyCommitter
      BY <2>6, <2>11
    <3>2. \A k \in DOMAIN c.states : Finished(c, o, k)
      BY <2>2, <2>5, <2>8, <2>11
    <3>3. QED
      BY <3>1, <3>2, EmptyCommitterType DEF Advanced
  <2>12. CASE DOMAIN h.states # {}
    <3>1. Complete(c, o, g) = h
      BY <2>6, <2>12
    <3>2. \A k \in DOMAIN c.states \ DOMAIN h.states : Finished(c, o, k)
      BY <2>2, <2>5, <2>8
    <3>3. QED
      BY <3>1, <3>2, <2>1, <2>2, <2>4, <2>5, <2>9, <2>10 DEF Advanced
  <2>13. QED
    BY <2>11, <2>12
<1>3. QED
  BY <1>1, <1>2

(* What a mark of Complete(c, o, g) stands for: o is registered in the     *)
(* live generation g, and every offset up to the marked one, from          *)
(* nextOffset on, is finished.                                             *)
MarkCovers(c, o, g, m) ==
  /\ o \in DOMAIN c.states /\ c.generationID = g
  /\ m.offset \in DOMAIN c.states
  /\ \A k \in Nat : k <= m.offset => k < c.nextOffset \/ Finished(c, o, k)

(* Complete marks only registered offsets below which, from nextOffset on, *)
(* every offset is done or completed now.                                  *)
LEMMA MarksFinished ==
  ASSUME NEW S, S \subseteq Nat, NEW G, NEW c \in Committer(S, G),
         NEW o, NEW g, NEW b \in Nat, \A k \in DOMAIN c.states : k < b,
         NEW m \in Marks(c, o, g)
  PROVE  MarkCovers(c, o, g, m)
<1>1. Accepts(c, o, g)
  BY DEF Marks
<1>2. o \in DOMAIN c.states /\ c.generationID = g
  BY <1>1 DEF Accepts
<1>3. PICK f \in Committer(S, G) :
        /\ f = Finish(c, o)
        /\ f.nextOffset = c.nextOffset
        /\ DOMAIN f.states = DOMAIN c.states
        /\ \A k \in DOMAIN c.states : f.states[k].done => k = o \/ c.states[k].done
  BY <1>2, FinishFacts
<1>4. /\ FlushEnd(f) \in Nat
      /\ \A k \in f.nextOffset .. (FlushEnd(f) - 1) : IsDone(f, k)
  <2>1. \A k \in DOMAIN f.states : k < b
    BY <1>3
  <2>2. QED
    BY <2>1, FlushEndStops
<1>5. m.offset \in FlushRange(f)
  BY <1>1, <1>3 DEF Marks
<1>6. f.nextOffset \in Nat /\ m.offset \in Nat /\ m.offset < FlushEnd(f)
  BY <1>3, <1>4, <1>5 DEF FlushRange, Committer
<1>7. m.offset \in DOMAIN c.states
  BY <1>3, <1>4, <1>5 DEF FlushRange, IsDone
<1>8. ASSUME NEW k \in Nat, k <= m.offset, ~ (k < c.nextOffset)
      PROVE  Finished(c, o, k)
  <2>1. IsDone(f, k)
    BY <1>3, <1>4, <1>6, <1>8
  <2>2. QED
    BY <1>3, <2>1 DEF IsDone, Finished
<1>9. QED
  BY <1>2, <1>7, <1>8 DEF MarkCovers

-----------------------------------------------------------------------------
(* The bookkeeping of a committer: doneCount counts the done offsets, they *)
(* wait behind an undone nextOffset, and an initialized committer is one   *)
(* with something pending.                                                 *)
DoneIn(c) == {o \in DOMAIN c.states : c.states[o].done}

Kept(c) ==
  /\ c.doneCount = Cardinality(DoneIn(c))
  /\ \A o \in DoneIn(c) : o > c.nextOffset
  /\ \A o \in DOMAIN c.states : o >= c.nextOffset
  /\ c.initialized <=> DOMAIN c.states # {}

LEMMA EmptyKept == Kept(EmptyCommitter)
<1>1. /\ DOMAIN EmptyCommitter.states = {} /\ EmptyCommitter.doneCount = 0
      /\ ~ EmptyCommitter.initialized
  BY DEF EmptyCommitter, NoStates
<1>2. DoneIn(EmptyCommitter) = {}
  BY <1>1 DEF DoneIn
<1>3. Cardinality(DoneIn(EmptyCommitter)) = 0
  BY <1>2, FS_EmptySet
<1>4. QED
  BY <1>1, <1>2, <1>3 DEF Kept

(* Registering an offset beyond all that are pending adds one undone.      *)
LEMMA RegisterCounts ==
  ASSUME NEW S, NEW G, NEW c \in Committer(S, G), NEW o, NEW g,
         c.initialized => c.generationID = g
  PROVE  Register(c, o, g).doneCount = c.doneCount
<1> DEFINE s == Seed(c, o, g)
           t == RecordGap(s, o)
<1>1. ResetIfStale(c, g) = c
  BY DEF ResetIfStale
<1>2. s.doneCount = c.doneCount /\ "states" \in DOMAIN s /\ "doneCount" \in DOMAIN s
  BY DEF Seed, Committer
<1>3. Register(c, o, g) = IF o \in DOMAIN s.states THEN s ELSE AddState(t, o, g)
  BY <1>1 DEF Register
<1> HIDE DEF s
<1>4. t.doneCount = s.doneCount /\ "doneCount" \in DOMAIN t
  BY <1>2 DEF RecordGap
<1> HIDE DEF t
<1>5. AddState(t, o, g).doneCount = t.doneCount
  BY <1>4 DEF AddState
<1>6. QED
  BY <1>2, <1>3, <1>4, <1>5

(* An offset beyond all that c holds, of the generation c has, if any.     *)
Fresh(S, G, c, o, g) ==
  /\ S \subseteq Nat /\ 0 \in G
  /\ c \in Committer(S, G) /\ Kept(c)
  /\ o \in S /\ g \in G
  /\ \A k \in DOMAIN c.states : k < o
  /\ c.initialized => c.generationID = g

LEMMA RegisterKept ==
  ASSUME NEW S, NEW G, NEW c, NEW o, NEW g, Fresh(S, G, c, o, g)
  PROVE  /\ Kept(Register(c, o, g))
         /\ DOMAIN Register(c, o, g).states = DOMAIN c.states \cup {o}
         /\ DoneIn(Register(c, o, g)) = DoneIn(c)
<1>0. /\ S \subseteq Nat /\ 0 \in G
      /\ c \in Committer(S, G) /\ Kept(c)
      /\ o \in S /\ g \in G
      /\ \A k \in DOMAIN c.states : k < o
  BY DEF Fresh
<1>01. /\ c.initialized => c.generationID = g
       /\ ~ c.initialized => DOMAIN c.states = {}
  BY DEF Fresh, Kept
<1>1. PICK r : /\ r = Register(c, o, g) /\ Registered(S, G, c, o, g, r)
               /\ r.doneCount = c.doneCount
  <2>1. Registered(S, G, c, o, g, Register(c, o, g))
    BY <1>0, <1>01, RegisterAdds
  <2>2. QED
    BY <1>0, <1>01, <2>1, RegisterCounts
<1>2. /\ r.initialized /\ DOMAIN r.states = DOMAIN c.states \cup {o}
      /\ r.nextOffset = IF c.initialized THEN c.nextOffset ELSE o
      /\ \A k \in DOMAIN c.states : r.states[k] = c.states[k]
      /\ o \notin DOMAIN c.states => r.states[o] = [done |-> FALSE, generationID |-> g]
  BY <1>1 DEF Registered
<1>3. DOMAIN c.states \subseteq Nat /\ o \in Nat /\ c.nextOffset \in Nat
  BY <1>0, CommitterStates DEF Committer
<1>4. o \notin DOMAIN c.states
  BY <1>0, <1>3
<1>5. DoneIn(r) = DoneIn(c)
  BY <1>2, <1>4 DEF DoneIn
<1>6. \A k \in DOMAIN r.states : k >= r.nextOffset
  <2>1. CASE c.initialized
    <3>1. PICK k \in DOMAIN c.states : k >= c.nextOffset
      BY <1>0, <2>1 DEF Kept
    <3>2. o >= c.nextOffset
      BY <1>0, <1>3, <3>1
    <3>3. QED
      BY <1>0, <1>2, <2>1, <3>2 DEF Kept
  <2>2. CASE ~ c.initialized
    BY <1>0, <1>2, <1>3, <2>2 DEF Kept
  <2>3. QED
    BY <2>1, <2>2
<1>7. \A k \in DoneIn(r) : k > r.nextOffset
  BY <1>0, <1>2, <1>5 DEF Kept, DoneIn
<1>8. Kept(r)
  BY <1>0, <1>1, <1>2, <1>5, <1>6, <1>7 DEF Kept
<1>9. QED
  BY <1>1, <1>2, <1>5, <1>8

(* What completing the accepted offset o of c gives, r: o is done or gone, *)
(* and the other offsets are done as before or gone.                       *)
Completed(c, o, r) ==
  \A k \in DOMAIN r.states :
    k \in DOMAIN c.states /\ (r.states[k].done <=> k = o \/ c.states[k].done)

LEMMA FinishDone ==
  ASSUME NEW S, NEW G, NEW c \in Committer(S, G), NEW o \in DOMAIN c.states
  PROVE  /\ \A k \in DOMAIN c.states : Finish(c, o).states[k].done <=> k = o \/ c.states[k].done
         /\ Finish(c, o).doneCount = IF c.states[o].done THEN c.doneCount ELSE c.doneCount + 1
<1> DEFINE st == [c.states EXCEPT ![o].done = TRUE]
           n  == IF c.states[o].done THEN c.doneCount ELSE c.doneCount + 1
<1>1. c.states \in [DOMAIN c.states -> CommitState(G)]
  BY CommitterStates
<1>2. \A k \in DOMAIN c.states : st[k].done <=> k = o \/ c.states[k].done
  <2> SUFFICES ASSUME NEW k \in DOMAIN c.states PROVE st[k].done <=> k = o \/ c.states[k].done
    OBVIOUS
  <2>1. CASE k = o
    <3>1. st[k] = [c.states[o] EXCEPT !.done = TRUE] /\ c.states[o] \in CommitState(G)
      BY <1>1, <2>1
    <3>2. st[k].done = TRUE
      BY <3>1 DEF CommitState
    <3>3. QED
      BY <2>1, <3>2
  <2>2. CASE k # o
    <3>1. st[k] = c.states[k]
      BY <1>1, <2>2
    <3>2. QED
      BY <2>2, <3>1
  <2>3. QED
    BY <2>1, <2>2
<1>3. Finish(c, o) = [c EXCEPT !.states = st, !.doneCount = n]
  BY DEF Finish, Committer
<1> HIDE DEF st, n
<1>4. Finish(c, o).states = st /\ Finish(c, o).doneCount = n
  BY <1>3 DEF Committer
<1>5. QED
  BY <1>2, <1>4 DEF n

LEMMA CompleteKept ==
  ASSUME NEW S, S \subseteq Nat, NEW G, 0 \in G, NEW c \in Committer(S, G), Kept(c),
         NEW o, NEW g, NEW b \in Nat, \A k \in DOMAIN c.states : k < b,
         Accepts(c, o, g)
  PROVE  Kept(Complete(c, o, g)) /\ Completed(c, o, Complete(c, o, g))
<1>0. o \in DOMAIN c.states
  BY DEF Accepts
<1>1. c.initialized
  BY <1>0 DEF Kept
<1>2. PICK f \in Committer(S, G) :
        /\ f = Finish(c, o)
        /\ f.initialized = c.initialized /\ f.nextOffset = c.nextOffset
        /\ DOMAIN f.states = DOMAIN c.states
        /\ \A k \in DOMAIN c.states : f.states[k].done <=> k = o \/ c.states[k].done
        /\ f.doneCount = IF c.states[o].done THEN c.doneCount ELSE c.doneCount + 1
  <2>1. PICK f \in Committer(S, G) :
          /\ f = Finish(c, o)
          /\ f.initialized = c.initialized /\ f.nextOffset = c.nextOffset
          /\ DOMAIN f.states = DOMAIN c.states
    BY <1>0, FinishFacts
  <2>2. /\ \A k \in DOMAIN c.states : f.states[k].done <=> k = o \/ c.states[k].done
        /\ f.doneCount = IF c.states[o].done THEN c.doneCount ELSE c.doneCount + 1
    BY <1>0, <2>1, FinishDone
  <2>3. QED
    BY <2>1, <2>2
<1>3. DOMAIN c.states \subseteq Nat /\ IsFiniteSet(DOMAIN c.states)
  <2>1. DOMAIN c.states \subseteq Nat
    BY CommitterStates
  <2>2. \A k \in DOMAIN c.states : k <= b
    BY <2>1
  <2>3. IsFiniteSet(DOMAIN c.states)
    BY <2>1, <2>2, FS_BoundedSetOfNaturals
  <2>4. QED
    BY <2>1, <2>3
<1>4. IsFiniteSet(DoneIn(f)) /\ f.doneCount = Cardinality(DoneIn(f))
  <2>1. DoneIn(f) = DoneIn(c) \cup {o} /\ (o \in DoneIn(c) <=> c.states[o].done)
    BY <1>0, <1>2 DEF DoneIn
  <2>2. IsFiniteSet(DoneIn(c))
    BY <1>3, FS_Subset DEF DoneIn
  <2>3. /\ IsFiniteSet(DoneIn(c) \cup {o})
        /\ Cardinality(DoneIn(c) \cup {o}) =
             IF o \in DoneIn(c) THEN Cardinality(DoneIn(c)) ELSE Cardinality(DoneIn(c)) + 1
    BY <2>2, FS_AddElement
  <2>4. c.doneCount = Cardinality(DoneIn(c))
    BY DEF Kept
  <2>5. QED
    BY <1>2, <2>1, <2>3, <2>4
<1>5. /\ FlushEnd(f) \in Nat /\ FlushEnd(f) >= f.nextOffset /\ ~ IsDone(f, FlushEnd(f))
      /\ \A k \in f.nextOffset .. (FlushEnd(f) - 1) : IsDone(f, k)
  <2>1. \A k \in DOMAIN f.states : k < b
    BY <1>2
  <2>2. QED
    BY <2>1, FlushEndStops
<1>6. PICK h \in Committer(S, G) :
        /\ h = Flush(f)
        /\ h.initialized = f.initialized /\ h.nextOffset = FlushEnd(f)
        /\ h.states = Remaining(f)
        /\ h.doneCount = f.doneCount - Cardinality(FlushRange(f))
  <2>1. Flush(f).doneCount = f.doneCount - Cardinality(FlushRange(f))
    BY <1>2 DEF Flush, Committer
  <2>2. QED
    BY <1>5, <2>1, FlushFacts
<1>7. /\ DOMAIN h.states = DOMAIN f.states \ FlushRange(f)
      /\ \A k \in DOMAIN h.states : h.states[k] = f.states[k]
  BY <1>6 DEF Remaining
<1>8. FlushRange(f) \subseteq DoneIn(f)
  BY <1>5 DEF FlushRange, IsDone, DoneIn
<1>9. DoneIn(h) = DoneIn(f) \ FlushRange(f)
  BY <1>7 DEF DoneIn
<1>10. h.doneCount = Cardinality(DoneIn(h))
  <2>1. DoneIn(f) \cap FlushRange(f) = FlushRange(f)
    BY <1>8
  <2>2. Cardinality(DoneIn(f) \ FlushRange(f))
          = Cardinality(DoneIn(f)) - Cardinality(DoneIn(f) \cap FlushRange(f))
    BY <1>4, FS_Difference
  <2>3. QED
    BY <1>4, <1>6, <1>9, <2>1, <2>2
<1>11. f.nextOffset \in Nat /\ \A k \in DOMAIN f.states : k \in Nat /\ k >= f.nextOffset
  BY <1>2, <1>3 DEF Kept, Committer
<1>12. \A k \in DOMAIN h.states : k >= h.nextOffset
  BY <1>5, <1>6, <1>7, <1>11 DEF FlushRange
<1>13. \A k \in DoneIn(h) : k > h.nextOffset
  <2>1. \A k \in DoneIn(h) : k \in DOMAIN h.states /\ k # FlushEnd(f)
    BY <1>5, <1>7 DEF DoneIn, IsDone
  <2>2. QED
    BY <1>5, <1>6, <1>7, <1>11, <1>12, <2>1
<1>14. Completed(c, o, h)
  BY <1>2, <1>7 DEF Completed
<1>15. Complete(c, o, g) = IF DOMAIN h.states = {} THEN EmptyCommitter ELSE h
  BY <1>2, <1>6 DEF Complete, ResetIfDrained
<1>16. CASE DOMAIN h.states = {}
  <2>1. Completed(c, o, EmptyCommitter)
    BY DEF Completed, EmptyCommitter, NoStates
  <2>2. QED
    BY <1>15, <1>16, <2>1, EmptyKept
<1>17. CASE DOMAIN h.states # {}
  <2>1. Kept(h)
    BY <1>1, <1>2, <1>6, <1>10, <1>12, <1>13, <1>17 DEF Kept
  <2>2. QED
    BY <1>14, <1>15, <1>17, <2>1
<1>18. QED
  BY <1>16, <1>17

(* The high-water mark is no part of the bookkeeping.                      *)
LEMMA HighWaterMarkKept ==
  ASSUME NEW S, NEW G, NEW c \in Committer(S, G), NEW h \in Nat
  PROVE  /\ RecordHighWaterMark(c, h).states = c.states
         /\ Kept(c) => Kept(RecordHighWaterMark(c, h))
<1> DEFINE r == RecordHighWaterMark(c, h)
<1>1. /\ r.states = c.states /\ r.doneCount = c.doneCount /\ r.nextOffset = c.nextOffset
      /\ r.initialized = c.initialized
  BY DEF RecordHighWaterMark, Committer
<1> HIDE DEF r
<1>2. Kept(c) => Kept(r)
  BY <1>1 DEF Kept, DoneIn
<1>3. QED
  BY <1>1, <1>2 DEF r
=============================================================================
