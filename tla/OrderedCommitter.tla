-------------------------- MODULE OrderedCommitter --------------------------
(***************************************************************************)
(* The ordered committer of one topic-partition: eventbus/kafka/           *)
(* ordered_commit.go.  Every method of partitionOrderedCommitter holds the *)
(* committer's mutex from its first line to its last, so each is one pure  *)
(* operator from the committer's value to its next value.  A mark function *)
(* is abstracted to the generation of the Sarama session it captured.      *)
(***************************************************************************)
EXTENDS Integers, FiniteSets

(* commitState: the mark function is identified by generationID.           *)
CommitState(G) == [done : BOOLEAN, generationID : G]

NoStates == [o \in {} |-> [done |-> FALSE, generationID |-> 0]]

(* partitionOrderedCommitter, over sets of offsets and generations.        *)
Committer(S, G) ==
  [initialized          : BOOLEAN,
   generationID         : G,
   nextOffset           : Nat,
   highWaterMarkOffset  : Nat,
   states               : UNION {[D -> CommitState(G)] : D \in SUBSET S},
   doneCount            : Int,
   lastRegisteredOffset : Nat,
   largestRegisterGap   : Nat]

(* newPartitionOrderedCommitter, and the value resetLocked restores.       *)
EmptyCommitter ==
  [initialized          |-> FALSE,
   generationID         |-> 0,
   nextOffset           |-> 0,
   highWaterMarkOffset  |-> 0,
   states               |-> NoStates,
   doneCount            |-> 0,
   lastRegisteredOffset |-> 0,
   largestRegisterGap   |-> 0]

-----------------------------------------------------------------------------
(* Register, in the order of its statements: reset on a generation change, *)
(* seed, ignore a known offset, record the gap, add the offset.            *)

ResetIfStale(c, g) ==
  IF c.initialized /\ c.generationID # g THEN EmptyCommitter ELSE c

Seed(c, o, g) ==
  IF c.initialized
  THEN c
  ELSE [c EXCEPT !.initialized = TRUE, !.generationID = g,
                 !.nextOffset = o, !.lastRegisteredOffset = o]

RecordGap(c, o) ==
  IF DOMAIN c.states # {} /\ o > c.lastRegisteredOffset
  THEN [c EXCEPT !.largestRegisterGap =
                   IF o - c.lastRegisteredOffset > @ THEN o - c.lastRegisteredOffset ELSE @,
                 !.lastRegisteredOffset = o]
  ELSE c

AddState(c, o, g) ==
  [c EXCEPT !.states = [x \in DOMAIN c.states \cup {o} |->
                          IF x = o THEN [done |-> FALSE, generationID |-> g] ELSE c.states[x]]]

Register(c, o, g) ==
  LET s == Seed(ResetIfStale(c, g), o, g)
  IN  IF o \in DOMAIN s.states THEN s ELSE AddState(RecordGap(s, o), o, g)

-----------------------------------------------------------------------------
(* Complete: accept the completion only for a registered offset of the     *)
(* live generation, then flush the contiguous done range from nextOffset.  *)

Accepts(c, o, g) ==
  /\ o \in DOMAIN c.states
  /\ c.states[o].generationID = g
  /\ c.generationID = g

Finish(c, o) ==
  [c EXCEPT !.states[o].done = TRUE,
            !.doneCount = IF c.states[o].done THEN @ ELSE @ + 1]

(* Mutant of IsDone: the loop forgets to look at the done flag.            *)
IsRegistered(c, o) == o \in DOMAIN c.states

IsDone(c, o) == o \in DOMAIN c.states /\ c.states[o].done

(* Where the loop of Complete stops: the first offset from nextOffset on   *)
(* that is not registered or not done.                                     *)
FlushEnd(c) ==
  CHOOSE m \in {c.nextOffset} \cup {o + 1 : o \in DOMAIN c.states} :
    /\ m >= c.nextOffset
    /\ ~ IsDone(c, m)
    /\ \A k \in c.nextOffset .. (m - 1) : IsDone(c, k)

FlushRange(c) == c.nextOffset .. (FlushEnd(c) - 1)

(* The states the loop leaves.                                            *)
Remaining(c) == [x \in DOMAIN c.states \ FlushRange(c) |-> c.states[x]]

(* Mutant of Flush: the loop leaves doneCount alone.                       *)
FlushUncounted(c) ==
  [c EXCEPT !.states     = Remaining(c),
            !.nextOffset = FlushEnd(c)]

Flush(c) ==
  [c EXCEPT !.states     = Remaining(c),
            !.doneCount  = @ - Cardinality(FlushRange(c)),
            !.nextOffset = FlushEnd(c)]

ResetIfDrained(c) == IF DOMAIN c.states = {} THEN EmptyCommitter ELSE c

Complete(c, o, g) ==
  IF Accepts(c, o, g) THEN ResetIfDrained(Flush(Finish(c, o))) ELSE c

(* The offsets whose mark function Complete(c, o, g) calls, and the        *)
(* session generation each call reaches.                                   *)
Marks(c, o, g) ==
  IF Accepts(c, o, g)
  THEN {[offset |-> k, generation |-> c.states[k].generationID] : k \in FlushRange(Finish(c, o))}
  ELSE {}

-----------------------------------------------------------------------------
(* Mutants of AbortGeneration: the guard forgotten, or inverted.           *)
AbortNothing(c, g) == c
AbortOthers(c, g) ==
  IF c.initialized /\ c.generationID # g THEN EmptyCommitter ELSE c

AbortGeneration(c, g) ==
  IF c.initialized /\ c.generationID = g THEN EmptyCommitter ELSE c

RecordHighWaterMark(c, h) ==
  IF h > c.highWaterMarkOffset THEN [c EXCEPT !.highWaterMarkOffset = h] ELSE c

(* snapshot and publicOrderedCommitStats: what Stats and the protector see. *)
OrderedCommitStats(c) ==
  [Initialized         |-> c.initialized,
   NextOffset          |-> c.nextOffset,
   HighWaterMarkOffset |-> c.highWaterMarkOffset,
   Lag                 |-> IF c.highWaterMarkOffset > c.nextOffset
                           THEN c.highWaterMarkOffset - c.nextOffset ELSE 0,
   PendingCount        |-> Cardinality(DOMAIN c.states),
   DoneCount           |-> c.doneCount,
   OldestPendingOffset |-> IF DOMAIN c.states = {} THEN 0 ELSE c.nextOffset,
   LargestPendingGap   |-> c.largestRegisterGap]
=============================================================================
