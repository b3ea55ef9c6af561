----------------------------- MODULE DirectBus -----------------------------
(***************************************************************************)
(* eventbus/direct/direct.go: the in-process bus.  Publish snapshots the   *)
(* registered handlers and calls them one after another outside the lock,  *)
(* while other publishers run and subscribers come and go.  Collect says   *)
(* who publishes what.                                                     *)
(***************************************************************************)
EXTENDS Integers, Sequences, SequencesExt

CONSTANTS Subscriber, Publisher,
          MaxHandlers   \* bound: Subscribe calls in all

ASSUME DirectAssumption == MaxHandlers \in Nat

VARIABLES
  handlers,   \* Bus.handlers, each named by its subscriber
  live,       \* subscribers inside Subscribe
  sequence,   \* Bus.sequence
  pc,         \* where each publisher is in Publish
  snapshot,   \* the handlers its Publish delivers to
  called,     \* those it has called
  delivery,   \* its delivery ID
  owed        \* history: subscribers live when its Publish began

busVars     == <<handlers, live, sequence>>
publishVars == <<pc, snapshot, called, delivery, owed>>
directVars  == <<busVars, publishVars>>

DirectInit ==
  /\ handlers = <<>> /\ live = {} /\ sequence = 0
  /\ pc       = [p \in Publisher |-> "idle"]
  /\ snapshot = [p \in Publisher |-> <<>>]
  /\ called   = [p \in Publisher |-> <<>>]
  /\ delivery = [p \in Publisher |-> 0]
  /\ owed     = [p \in Publisher |-> {}]

Register(s) == handlers' = Append(handlers, s)

Subscribe(s) ==
  /\ s \notin live /\ Len(handlers) < MaxHandlers
  /\ Register(s)
  /\ live' = live \cup {s}
  /\ UNCHANGED <<sequence, publishVars>>

(* The context is cancelled: Subscribe returns, and that is all.           *)
Cancel(s) ==
  /\ s \in live
  /\ live' = live \ {s}
  /\ UNCHANGED <<handlers, sequence, publishVars>>

-----------------------------------------------------------------------------
Goto(p, label) == pc' = [pc EXCEPT ![p] = label]

Publish(p) ==
  /\ pc[p] \in {"idle", "published", "failed"}
  /\ Goto(p, "number")
  /\ snapshot' = [snapshot EXCEPT ![p] = handlers]
  /\ called'   = [called EXCEPT ![p] = <<>>]
  /\ owed'     = [owed EXCEPT ![p] = live]
  /\ UNCHANGED <<busVars, delivery>>

(* An atomic increment; the ID is the incremented value.                   *)
TakeNumber == sequence' = sequence + 1

NumberDelivery(p) ==
  /\ pc[p] = "number"
  /\ TakeNumber
  /\ delivery' = [delivery EXCEPT ![p] = sequence + 1]
  /\ Goto(p, "call")
  /\ UNCHANGED <<handlers, live, snapshot, called, owed>>

(* Mutant of AllCalled: the loop ends one handler early.                   *)
AllButOneCalled(p) == Len(called[p]) + 1 >= Len(snapshot[p])

AllCalled(p) == Len(called[p]) = Len(snapshot[p])

CallHandler(p) ==
  /\ pc[p] = "call" /\ ~ AllCalled(p)
  /\ called' = [called EXCEPT ![p] = Append(@, snapshot[p][Len(@) + 1])]
  /\ Goto(p, "handler")
  /\ UNCHANGED <<busVars, snapshot, delivery, owed>>

(* The handler returns; an error ends Publish.                             *)
HandlerReturns(p) ==
  /\ pc[p] = "handler"
  /\ \E result \in {"call", "failed"} : Goto(p, result)
  /\ UNCHANGED <<busVars, snapshot, called, delivery, owed>>

PublishReturns(p) ==
  /\ pc[p] = "call" /\ AllCalled(p)
  /\ Goto(p, "published")
  /\ UNCHANGED <<busVars, snapshot, called, delivery, owed>>

Subscribers == \E s \in Subscriber : Subscribe(s) \/ Cancel(s)

=============================================================================
