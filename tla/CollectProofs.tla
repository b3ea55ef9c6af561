--------------------------- MODULE CollectProofs ---------------------------
(***************************************************************************)
(* For any subscribers, bodies, clients, stage lists and numbers of        *)
(* requests in progress: an accepted event was handled by every subscriber *)
(* that was there when its publishing began; a retry of a timed event gets *)
(* its identities again, a derived visit is inside one session, and the    *)
(* client's own properties stay.  The last three follow the envelope from  *)
(* stage to stage, by induction bounded by the length of the list.         *)
(***************************************************************************)
EXTENDS Collect, FiniteSetTheorems, TLAPS

Registered(hs) == {hs[i] : i \in 1 .. Len(hs)}

(* The bus has a handler for each live subscriber.                         *)
BusInv ==
  /\ handlers \in Seq(Subscriber) /\ live \subseteq Registered(handlers)
  /\ DOMAIN handled = Subscriber
  /\ /\ DOMAIN pc = Publisher /\ DOMAIN snapshot = Publisher
     /\ DOMAIN called = Publisher /\ DOMAIN owed = Publisher
     /\ DOMAIN response = Publisher /\ DOMAIN envelope = Publisher

(* What is called so far of a snapshot, first come first.                  *)
Prefix(calls, hs) ==
  /\ calls \in Seq(Subscriber) /\ hs \in Seq(Subscriber)
  /\ Len(calls) <= Len(hs)
  /\ \A i \in 1 .. Len(calls) : calls[i] = hs[i]

(* A handler that was called has handled the event, but for the last one   *)
(* while it runs or when it failed.                                        *)
Handling(label, calls, hs, id, done) ==
  /\ Prefix(calls, hs)
  /\ label = "number" => calls = <<>>
  /\ label = "handler" => calls # <<>>
  /\ label = "published" => Len(calls) = Len(hs)
  /\ \A i \in 1 .. Len(calls) :
       i < Len(calls) \/ label \in {"call", "published"} => id \in done[calls[i]]

Owing(p) ==
  /\ owed[p] \subseteq Registered(snapshot[p])
  /\ Handling(pc[p], called[p], snapshot[p], envelope[p].of.id, handled)

PublishInv ==
  \A p \in Publisher :
    /\ pc[p] \in {"number", "call", "handler"} => response[p] = "publishing"
    /\ response[p] = "publishing" => Owing(p)
    /\ response[p] = "accepted" => pc[p] = "published" /\ Owing(p)

DeliveryInv == BusInv /\ PublishInv

LEMMA InvImpliesHandled == DeliveryInv => AcceptedHandled
<1> SUFFICES ASSUME DeliveryInv, NEW p \in Publisher, response[p] = "accepted", NEW s \in owed[p]
             PROVE  envelope[p].of.id \in handled[s]
  BY DEF AcceptedHandled
<1>1. pc[p] = "published" /\ Owing(p)
  BY DEF DeliveryInv, PublishInv
<1>2. /\ Len(called[p]) = Len(snapshot[p])
      /\ \A i \in 1 .. Len(called[p]) : /\ called[p][i] = snapshot[p][i]
                                        /\ envelope[p].of.id \in handled[called[p][i]]
  BY <1>1 DEF Owing, Handling, Prefix
<1>3. PICK i \in 1 .. Len(snapshot[p]) : s = snapshot[p][i]
  BY <1>1 DEF Owing, Registered
<1>4. QED
  BY <1>2, <1>3

-----------------------------------------------------------------------------
(* Steps of a Publish, on its own state.                                   *)

LEMMA EmptyPrefix ==
  ASSUME NEW hs \in Seq(Subscriber), NEW id, NEW done
  PROVE  Handling("number", <<>>, hs, id, done)
<1>1. <<>> \in Seq(Subscriber) /\ Len(<<>>) = 0 /\ 1 .. 0 = {} /\ Len(hs) >= 0
  OBVIOUS
<1>2. Prefix(<<>>, hs)
  BY <1>1 DEF Prefix
<1>3. QED
  BY <1>1, <1>2 DEF Handling

(* More events handled leave it as it is.                                  *)
LEMMA HandlingGrows ==
  ASSUME NEW label, NEW calls, NEW hs, NEW id, NEW done, NEW more,
         Handling(label, calls, hs, id, done), \A s \in Subscriber : done[s] \subseteq more[s]
  PROVE  Handling(label, calls, hs, id, more)
<1>1. calls \in Seq(Subscriber)
  BY DEF Handling, Prefix
<1>2. \A i \in 1 .. Len(calls) : calls[i] \in Subscriber
  BY <1>1
<1>3. QED
  BY <1>2 DEF Handling

LEMMA Appended ==
  ASSUME NEW calls \in Seq(Subscriber), NEW s \in Subscriber
  PROVE  /\ Append(calls, s) \in Seq(Subscriber) /\ Append(calls, s) # <<>>
         /\ Len(Append(calls, s)) = Len(calls) + 1
         /\ \A i \in 1 .. Len(calls) : Append(calls, s)[i] = calls[i]
         /\ Append(calls, s)[Len(calls) + 1] = s
<1>1. Len(Append(calls, s)) = Len(calls) + 1 /\ Append(calls, s) \in Seq(Subscriber)
  OBVIOUS
<1>2. Append(calls, s) # <<>>
  <2>1. Len(calls) \in Nat /\ Len(<<>>) = 0
    OBVIOUS
  <2>2. Len(Append(calls, s)) # Len(<<>>)
    BY <1>1, <2>1
  <2>3. QED
    BY <2>2, Zenon
<1>3. \A i \in 1 .. Len(calls) : Append(calls, s)[i] = calls[i]
  OBVIOUS
<1>4. Append(calls, s)[Len(calls) + 1] = s
  OBVIOUS
<1>5. QED
  BY <1>1, <1>2, <1>3, <1>4

LEMMA CallNext ==
  ASSUME NEW calls, NEW hs, NEW id, NEW done,
         Handling("call", calls, hs, id, done), Len(calls) # Len(hs)
  PROVE  Handling("handler", Append(calls, hs[Len(calls) + 1]), hs, id, done)
<1> DEFINE next == Append(calls, hs[Len(calls) + 1])
<1>1. /\ calls \in Seq(Subscriber) /\ hs \in Seq(Subscriber) /\ Len(calls) < Len(hs)
      /\ \A i \in 1 .. Len(calls) : calls[i] = hs[i] /\ id \in done[calls[i]]
  BY DEF Handling, Prefix
<1>2. hs[Len(calls) + 1] \in Subscriber
  BY <1>1
<1>3. /\ next \in Seq(Subscriber) /\ Len(next) = Len(calls) + 1 /\ next # <<>>
      /\ \A i \in 1 .. Len(calls) : next[i] = calls[i]
      /\ next[Len(calls) + 1] = hs[Len(calls) + 1]
  BY <1>1, <1>2, Appended
<1> HIDE DEF next
<1>4. \A i \in 1 .. Len(next) : next[i] = hs[i]
  BY <1>1, <1>3
<1>5. Prefix(next, hs)
  BY <1>1, <1>3, <1>4 DEF Prefix
<1>6. \A i \in 1 .. Len(next) : i < Len(next) => id \in done[next[i]]
  BY <1>1, <1>3
<1>7. QED
  BY <1>3, <1>5, <1>6 DEF Handling, next

LEMMA HandlerSucceeds ==
  ASSUME NEW calls, NEW hs, NEW id, NEW done, NEW more,
         Handling("handler", calls, hs, id, done), \A s \in Subscriber : done[s] \subseteq more[s],
         id \in more[Last(calls)]
  PROVE  Handling("call", calls, hs, id, more)
<1>1. Handling("handler", calls, hs, id, more)
  BY HandlingGrows
<1>2. calls \in Seq(Subscriber) /\ calls[Len(calls)] = Last(calls)
  BY DEF Handling, Prefix, Last
<1>3. \A i \in 1 .. Len(calls) : id \in more[calls[i]]
  BY <1>1, <1>2 DEF Handling
<1>4. QED
  BY <1>1, <1>3 DEF Handling

-----------------------------------------------------------------------------
LEMMA SubscribersStep ==
  ASSUME DeliveryInv, Subscribers, UNCHANGED collectVars
  PROVE  DeliveryInv'
<1>1. UNCHANGED <<publishVars, collectVars>>
  BY DEF Subscribers, Subscribe, Cancel
<1>2. BusInv'
  <2>1. ASSUME NEW s \in Subscriber, Subscribe(s) PROVE BusInv'
    <3>1. handlers' = Append(handlers, s) /\ live' = live \cup {s}
      BY <2>1 DEF Subscribe, Register
    <3>2. Registered(handlers) \cup {s} \subseteq Registered(handlers')
      BY <3>1, Appended DEF Registered, DeliveryInv, BusInv
    <3>3. QED
      BY <1>1, <3>1, <3>2, Appended
      DEF DeliveryInv, BusInv, publishVars, collectVars, Registered
  <2>2. ASSUME NEW s \in Subscriber, Cancel(s) PROVE BusInv'
    BY <1>1, <2>2 DEF Cancel, DeliveryInv, BusInv, publishVars, collectVars, Registered
  <2>3. QED
    BY <2>1, <2>2 DEF Subscribers
<1>3. PublishInv'
  BY <1>1 DEF DeliveryInv, PublishInv, Owing, Handling, Prefix, Registered, AllCalled,
     publishVars, collectVars
<1>4. QED
  BY <1>2, <1>3 DEF DeliveryInv

(* What the steps of one publisher leave to the others.                    *)
Others(p) ==
  \A q \in Publisher \ {p} :
    /\ pc'[q] = pc[q] /\ response'[q] = response[q] /\ envelope'[q] = envelope[q]
    /\ snapshot'[q] = snapshot[q] /\ called'[q] = called[q] /\ owed'[q] = owed[q]

Progress(p) ==
  /\ pc[p] \in {"number", "call", "handler"} => response[p] = "publishing"
  /\ response[p] = "publishing" => Owing(p)
  /\ response[p] = "accepted" => pc[p] = "published" /\ Owing(p)

LEMMA OneSteps ==
  ASSUME DeliveryInv, NEW p \in Publisher, Others(p), BusInv', Progress(p)',
         \A s \in Subscriber : handled[s] \subseteq handled'[s]
  PROVE  DeliveryInv'
<1>1. ASSUME NEW q \in Publisher, q # p PROVE Progress(q)'
  <2>1. Progress(q)
    BY DEF DeliveryInv, PublishInv, Progress
  <2>2. Owing(q) => Owing(q)'
    BY <1>1, HandlingGrows DEF Others, Owing
  <2>3. QED
    BY <1>1, <2>1, <2>2 DEF Others, Progress
<1>2. QED
  BY <1>1 DEF DeliveryInv, PublishInv, Progress

LEMMA ReceiveStep ==
  ASSUME DeliveryInv, NEW p \in Publisher, NEW body \in Body, NEW client \in Client,
         Receive(p, body, client)
  PROVE  DeliveryInv'
<1>1. UNCHANGED <<directVars, handled>>
  BY DEF Receive
<1>2. /\ response[p] \notin {"staged", "publishing"}
      /\ response'[p] \in {"bad request", "filtered", "staged"}
      /\ \A q \in Publisher \ {p} : response'[q] = response[q] /\ envelope'[q] = envelope[q]
      /\ DOMAIN response' = Publisher /\ DOMAIN envelope' = Publisher
  BY DEF Receive, Answer, DeliveryInv, BusInv
<1>3. BusInv'
  BY <1>1, <1>2 DEF DeliveryInv, BusInv, Registered, directVars, busVars, publishVars
<1>4. Progress(p)'
  BY <1>1, <1>2 DEF DeliveryInv, PublishInv, Progress, directVars, publishVars
<1>5. Others(p)
  BY <1>1, <1>2 DEF Others, directVars, publishVars
<1>6. QED
  BY <1>1, <1>3, <1>4, <1>5, OneSteps

LEMMA PublishStep ==
  ASSUME DeliveryInv, NEW p \in Publisher, PublishEnvelope(p)
  PROVE  DeliveryInv'
<1>1. /\ UNCHANGED <<busVars, envelope, handled>>
      /\ response' = [response EXCEPT ![p] = "publishing"]
      /\ pc' = [pc EXCEPT ![p] = "number"]
      /\ snapshot' = [snapshot EXCEPT ![p] = handlers]
      /\ called' = [called EXCEPT ![p] = <<>>]
      /\ owed' = [owed EXCEPT ![p] = live]
  BY DEF PublishEnvelope, Publish, Answer, Goto
<1>2. BusInv'
  BY <1>1 DEF DeliveryInv, BusInv, Registered, busVars
<1>3. Others(p)
  BY <1>1 DEF Others, DeliveryInv, BusInv
<1>4. /\ response'[p] = "publishing" /\ pc'[p] = "number" /\ snapshot'[p] = handlers
      /\ called'[p] = <<>> /\ owed'[p] = live
  BY <1>1 DEF DeliveryInv, BusInv
<1>5. Owing(p)'
  <2>1. handlers \in Seq(Subscriber) /\ live \subseteq Registered(handlers)
    BY DEF DeliveryInv, BusInv
  <2>2. QED
    BY <1>4, <2>1, EmptyPrefix DEF Owing, Registered
<1>6. Progress(p)'
  BY <1>4, <1>5 DEF Progress
<1>7. QED
  BY <1>1, <1>2, <1>3, <1>6, OneSteps

LEMMA DeliverStep ==
  ASSUME DeliveryInv, NEW p \in Publisher, Deliver(p)
  PROVE  DeliveryInv'
<1>1. /\ pc[p] \in {"number", "call"} /\ response[p] = "publishing" /\ Owing(p)
  BY DEF Deliver, NumberDelivery, CallHandler, DeliveryInv, PublishInv
<1>2. UNCHANGED <<collectVars, handlers, live, snapshot, owed>>
  BY DEF Deliver, NumberDelivery, CallHandler, busVars
<1>3. CASE NumberDelivery(p)
  <2>1. UNCHANGED called /\ pc' = [pc EXCEPT ![p] = "call"] /\ pc[p] = "number"
    BY <1>3 DEF NumberDelivery, Goto
  <2>2. BusInv'
    BY <1>2, <2>1 DEF DeliveryInv, BusInv, Registered, collectVars
  <2>3. Others(p)
    BY <1>2, <2>1 DEF Others, DeliveryInv, BusInv, collectVars
  <2>4. pc'[p] = "call" /\ called[p] = <<>>
    BY <1>1, <2>1 DEF DeliveryInv, BusInv, Owing, Handling
  <2>5. Owing(p)'
    <3>1. Len(called[p]) = 0 /\ 1 .. 0 = {}
      BY <2>4
    <3>2. QED
      BY <1>1, <1>2, <2>1, <2>4, <3>1 DEF Owing, Handling, Prefix, Registered, collectVars
  <2>6. Progress(p)'
    BY <1>1, <1>2, <2>4, <2>5 DEF Progress, collectVars
  <2>7. QED
    BY <1>2, <2>2, <2>3, <2>6, OneSteps DEF collectVars
<1>4. CASE CallHandler(p)
  <2>1. /\ pc[p] = "call" /\ Len(called[p]) # Len(snapshot[p])
        /\ called' = [called EXCEPT ![p] = Append(@, snapshot[p][Len(@) + 1])]
        /\ pc' = [pc EXCEPT ![p] = "handler"]
    BY <1>4 DEF CallHandler, AllCalled, Goto
  <2>2. BusInv'
    BY <1>2, <2>1 DEF DeliveryInv, BusInv, Registered, collectVars
  <2>3. Others(p)
    BY <1>2, <2>1 DEF Others, DeliveryInv, BusInv, collectVars
  <2>4. /\ pc'[p] = "handler"
        /\ called'[p] = Append(called[p], snapshot[p][Len(called[p]) + 1])
    BY <2>1 DEF DeliveryInv, BusInv
  <2>5. Owing(p)'
    BY <1>1, <1>2, <2>1, <2>4, CallNext DEF Owing, Registered, collectVars
  <2>6. Progress(p)'
    BY <1>1, <1>2, <2>4, <2>5 DEF Progress, collectVars
  <2>7. QED
    BY <1>2, <2>2, <2>3, <2>6, OneSteps DEF collectVars
<1>5. QED
  BY <1>3, <1>4 DEF Deliver

LEMMA HandleStep ==
  ASSUME DeliveryInv, NEW p \in Publisher, HandleEnvelope(p)
  PROVE  DeliveryInv'
<1>1. /\ pc[p] = "handler" /\ response[p] = "publishing" /\ Owing(p)
      /\ UNCHANGED <<busVars, snapshot, called, owed, response, envelope>>
  BY DEF HandleEnvelope, HandlerReturns, DeliveryInv, PublishInv
<1>2. /\ pc'[p] \in {"call", "failed"} /\ DOMAIN pc' = Publisher
      /\ \A q \in Publisher \ {p} : pc'[q] = pc[q]
  BY DEF HandleEnvelope, HandlerReturns, Goto, DeliveryInv, BusInv
<1>3. Last(called[p]) \in Subscriber
  <2>1. called[p] \in Seq(Subscriber) /\ called[p] # <<>>
    BY <1>1 DEF Owing, Handling, Prefix
  <2>2. QED
    BY <2>1 DEF Last
<1>4. /\ DOMAIN handled' = Subscriber
      /\ \A s \in Subscriber : handled[s] \subseteq handled'[s]
      /\ pc'[p] # "failed" => envelope[p].of.id \in handled'[Last(called[p])]
  BY <1>3 DEF HandleEnvelope, DeliveryInv, BusInv
<1>5. BusInv'
  BY <1>1, <1>2, <1>4 DEF DeliveryInv, BusInv, Registered, busVars
<1>6. Others(p)
  BY <1>1, <1>2 DEF Others
<1>7. Owing(p)'
  <2>1. Handling("handler", called[p], snapshot[p], envelope[p].of.id, handled)
    BY <1>1 DEF Owing
  <2>2. CASE pc'[p] = "call"
    <3>1. Handling("call", called[p], snapshot[p], envelope[p].of.id, handled')
      BY <1>4, <2>1, <2>2, HandlerSucceeds
    <3>2. QED
      BY <1>1, <2>2, <3>1 DEF Owing, Registered
  <2>3. CASE pc'[p] = "failed"
    <3>1. Handling("handler", called[p], snapshot[p], envelope[p].of.id, handled')
      BY <1>4, <2>1, HandlingGrows
    <3>2. Handling("failed", called[p], snapshot[p], envelope[p].of.id, handled')
      BY <3>1 DEF Handling
    <3>3. QED
      BY <1>1, <2>3, <3>2 DEF Owing, Registered
  <2>4. QED
    BY <1>2, <2>2, <2>3
<1>8. Progress(p)'
  BY <1>1, <1>7 DEF Progress
<1>9. QED
  BY <1>4, <1>5, <1>6, <1>8, OneSteps

LEMMA ReturnStep ==
  ASSUME DeliveryInv, NEW p \in Publisher, PublishReturns(p), UNCHANGED collectVars
  PROVE  DeliveryInv'
<1>1. /\ pc[p] = "call" /\ Len(called[p]) = Len(snapshot[p]) /\ response[p] = "publishing"
      /\ Owing(p) /\ pc' = [pc EXCEPT ![p] = "published"]
      /\ UNCHANGED <<busVars, snapshot, called, owed, collectVars>>
  BY DEF PublishReturns, AllCalled, Goto, DeliveryInv, PublishInv
<1>2. BusInv' /\ Others(p) /\ pc'[p] = "published"
  BY <1>1 DEF DeliveryInv, BusInv, Others, Registered, busVars, collectVars
<1>3. Owing(p)'
  BY <1>1, <1>2 DEF Owing, Handling, Prefix, Registered, collectVars
<1>4. Progress(p)'
  BY <1>1, <1>2, <1>3 DEF Progress, collectVars
<1>5. QED
  BY <1>1, <1>2, <1>4, OneSteps DEF collectVars

LEMMA RespondStep ==
  ASSUME DeliveryInv, NEW p \in Publisher, Respond(p)
  PROVE  DeliveryInv'
<1>1. /\ response[p] = "publishing" /\ pc[p] \in {"published", "failed"} /\ Owing(p)
      /\ UNCHANGED <<directVars, envelope, handled>>
      /\ response' = [response EXCEPT ![p] = IF pc[p] = "published" THEN "accepted"
                                             ELSE "server error"]
  BY DEF Respond, Answer, DeliveryInv, PublishInv
<1>2. BusInv' /\ Others(p)
  BY <1>1 DEF DeliveryInv, BusInv, Others, Registered, directVars, busVars, publishVars
<1>3. /\ response'[p] # "publishing" /\ pc'[p] = pc[p]
      /\ response'[p] = "accepted" => pc[p] = "published"
  BY <1>1 DEF DeliveryInv, BusInv, directVars, publishVars
<1>4. Owing(p)'
  BY <1>1 DEF Owing, Registered, directVars, publishVars
<1>5. Progress(p)'
  BY <1>1, <1>3, <1>4 DEF Progress
<1>6. QED
  BY <1>1, <1>2, <1>5, OneSteps

LEMMA NextDeliveryInv == DeliveryInv /\ [Next]_vars => DeliveryInv'
<1> SUFFICES ASSUME DeliveryInv, [Next]_vars PROVE DeliveryInv'
  OBVIOUS
<1>1. ASSUME Tick \/ UNCHANGED vars PROVE DeliveryInv'
  BY <1>1 DEF Tick, vars, collectVars, directVars, busVars, publishVars, DeliveryInv, BusInv,
     PublishInv, Owing, Registered
<1>2. ASSUME NEW p \in Publisher, Serve(p) PROVE DeliveryInv'
  BY <1>2, PublishStep, DeliverStep, HandleStep, RespondStep, ReturnStep DEF Serve
<1>3. QED
  BY <1>1, <1>2, SubscribersStep, ReceiveStep DEF Next

(* An answer of 202 stands for the work of every subscriber that was there *)
(* when Publish took its snapshot, whoever came, left or published since.  *)
THEOREM AcceptedMeansHandled == Spec => []AcceptedHandled
<1>1. Init => DeliveryInv
  BY DEF Init, DirectInit, DeliveryInv, BusInv, PublishInv, Registered
<1>2. QED
  BY <1>1, NextDeliveryInv, InvImpliesHandled, PTL DEF Spec
-----------------------------------------------------------------------------
(* Folds.  FoldLeft picks its elements off the end of a sequence with one  *)
(* recursive function on sets of positions.  The function exists for the   *)
(* positions up to any N, because one more position extends it; the folded *)
(* prefixes of the sequence are then a chain, each link one application.   *)

(* A downward-closed set of positions is an interval from 1.               *)
LEMMA DownClosed ==
  ASSUME NEW N \in Nat, NEW D \in SUBSET (1 .. N),
         \A j \in D : \A i \in 1 .. j : i \in D
  PROVE  Cardinality(D) \in 0 .. N /\ D = 1 .. Cardinality(D)
<1>1. /\ IsFiniteSet(1 .. N) /\ Cardinality(1 .. N) = N
      /\ IsFiniteSet(D) /\ Cardinality(D) \in Nat
  <2>1. IsFiniteSet(1 .. N) /\ Cardinality(1 .. N) = N
    BY FS_Interval
  <2>2. QED
    BY <2>1, FS_Subset, FS_CardinalityType
<1>2. ASSUME NEW j \in D PROVE j \in 1 .. Cardinality(D)
  <2>1. 1 .. j \in SUBSET D /\ j \in Nat \ {0}
    OBVIOUS
  <2>2. Cardinality(1 .. j) <= Cardinality(D)
    BY <1>1, <2>1, FS_Subset
  <2>3. Cardinality(1 .. j) = j
    BY <2>1, FS_Interval
  <2>4. QED
    BY <1>1, <2>1, <2>2, <2>3
<1>3. IsFiniteSet(1 .. Cardinality(D)) /\ Cardinality(1 .. Cardinality(D)) = Cardinality(D)
  BY <1>1, FS_Interval
<1>4. D \in SUBSET (1 .. Cardinality(D))
  BY <1>2
<1>5. D = 1 .. Cardinality(D)
  BY <1>1, <1>3, <1>4, FS_Subset
<1>6. Cardinality(D) <= N
  BY <1>1, FS_Subset
<1>7. QED
  BY <1>1, <1>5, <1>6

(* Induction up to N.                                                      *)
LEMMA UpTo ==
  ASSUME NEW N \in Nat, NEW D, 0 \in D, \A i \in D : i \in 0 .. (N - 1) => i + 1 \in D
  PROVE  0 .. N \subseteq D
<1> DEFINE E == {i \in 1 .. N : \A j \in 0 .. i : j \in D}
           k == Cardinality(E)
<1>1. k \in 0 .. N /\ E = 1 .. k
  <2>1. E \in SUBSET (1 .. N)
    OBVIOUS
  <2>2. \A j \in E : \A i \in 1 .. j : i \in E
    OBVIOUS
  <2> HIDE DEF E
  <2>3. QED
    BY <2>1, <2>2, DownClosed
<1> HIDE DEF k
<1>2. \A j \in 0 .. k : j \in D
  <2>1. CASE k = 0
    BY <2>1
  <2>2. CASE k # 0
    <3>1. k \in E
      <4> HIDE DEF E
      <4>1. QED
        BY <1>1, <2>2
    <3>2. QED
      BY <3>1
  <2>3. QED
    BY <2>1, <2>2
<1>3. ASSUME k < N PROVE FALSE
  <2>1. k + 1 \in D
    BY <1>1, <1>2, <1>3
  <2>2. \A j \in 0 .. (k + 1) : j \in D
    <3>1. \A j \in 0 .. (k + 1) : j \in 0 .. k \/ j = k + 1
      BY <1>1
    <3>2. QED
      BY <1>2, <2>1, <3>1
  <2>3. k + 1 \in E
    BY <1>1, <1>3, <2>2
  <2>4. QED
    BY <1>1, <2>3
<1>4. k = N
  BY <1>1, <1>3
<1>5. QED
  BY <1>2, <1>4

LEMMA LastOfPrefix ==
  /\ \A k \in Nat : Max(1 .. (k + 1)) = k + 1 /\ (1 .. (k + 1)) \ {k + 1} = 1 .. k
  /\ \A k \in Nat : \A s \in SUBSET (1 .. (k + 1)) : k + 1 \in s =>
       Max(s) = k + 1 /\ s \ {k + 1} \in SUBSET (1 .. k)
<1>1. ASSUME NEW k \in Nat, NEW s \in SUBSET (1 .. (k + 1)), k + 1 \in s
      PROVE  Max(s) = k + 1 /\ s \ {k + 1} \in SUBSET (1 .. k)
  <2>1. \A x \in s : (\A y \in s : x >= y) <=> x = k + 1
    BY <1>1
  <2>2. Max(s) = k + 1
    BY <1>1, <2>1 DEF Max
  <2>3. QED
    BY <1>1, <2>2
<1>2. ASSUME NEW k \in Nat
      PROVE  Max(1 .. (k + 1)) = k + 1 /\ (1 .. (k + 1)) \ {k + 1} = 1 .. k
  <2>1. 1 .. (k + 1) \in SUBSET (1 .. (k + 1)) /\ k + 1 \in 1 .. (k + 1)
    OBVIOUS
  <2>2. Max(1 .. (k + 1)) = k + 1
    BY <1>1, <2>1
  <2>3. (1 .. (k + 1)) \ {k + 1} = 1 .. k
    OBVIOUS
  <2>4. QED
    BY <2>2, <2>3
<1>3. QED
  BY <1>1, <1>2

-----------------------------------------------------------------------------
(* The chain of envelopes that the stages make.                            *)
StagesFold(fold, N, stageList, e, client) ==
  fold = [s \in SUBSET (1 .. N) |->
            IF s = {} THEN e
            ELSE Apply(stageList[Max(s)], fold[s \ {Max(s)}], client)]

LEMMA StagesFoldExists ==
  ASSUME NEW N \in Nat, NEW stageList, NEW e, NEW client
  PROVE  \E fold : StagesFold(fold, N, stageList, e, client)
<1> DEFINE D == {k \in 0 .. N : \E fold : StagesFold(fold, k, stageList, e, client)}
<1>1. 0 \in D
  <2> DEFINE fold == [s \in SUBSET (1 .. 0) |-> e]
  <2>1. \A s \in SUBSET (1 .. 0) : s = {}
    OBVIOUS
  <2>2. StagesFold(fold, 0, stageList, e, client)
    BY <2>1 DEF StagesFold
  <2>3. QED
    BY <2>2
<1>2. ASSUME NEW k \in D, k \in 0 .. (N - 1) PROVE k + 1 \in D
  <2>1. PICK g : StagesFold(g, k, stageList, e, client)
    OBVIOUS
  <2> DEFINE fold == [s \in SUBSET (1 .. (k + 1)) |->
                        IF k + 1 \in s
                        THEN Apply(stageList[k + 1], g[s \ {k + 1}], client)
                        ELSE g[s]]
  <2>2. k \in Nat
    OBVIOUS
  <2>3. ASSUME NEW s \in SUBSET (1 .. (k + 1))
        PROVE  fold[s] = IF s = {} THEN e
                         ELSE Apply(stageList[Max(s)], fold[s \ {Max(s)}], client)
    <3>1. CASE k + 1 \in s
      <4>1. Max(s) = k + 1 /\ s \ {k + 1} \in SUBSET (1 .. k) /\ s # {}
        BY <2>2, <3>1, LastOfPrefix
      <4>2. s \ {k + 1} \in SUBSET (1 .. (k + 1)) /\ k + 1 \notin s \ {k + 1}
        OBVIOUS
      <4>3. fold[s \ {k + 1}] = g[s \ {k + 1}]
        BY <4>2
      <4>4. fold[s] = Apply(stageList[k + 1], g[s \ {k + 1}], client)
        BY <3>1
      <4>5. QED
        BY <4>1, <4>3, <4>4
    <3>2. CASE k + 1 \notin s
      <4>1. s \in SUBSET (1 .. k)
        BY <2>2, <3>2
      <4>2. s \ {Max(s)} \in SUBSET (1 .. (k + 1)) /\ k + 1 \notin s \ {Max(s)}
        BY <3>2
      <4>3. fold[s] = g[s] /\ fold[s \ {Max(s)}] = g[s \ {Max(s)}]
        BY <3>2, <4>2
      <4>4. g[s] = IF s = {} THEN e
                   ELSE Apply(stageList[Max(s)], g[s \ {Max(s)}], client)
        BY <2>1, <4>1 DEF StagesFold
      <4>5. QED
        BY <4>3, <4>4
    <3>3. QED
      BY <3>1, <3>2
  <2>4. StagesFold(fold, k + 1, stageList, e, client)
    BY <2>3 DEF StagesFold
  <2>5. k + 1 \in 0 .. N
    BY <1>2
  <2>6. QED
    BY <2>4, <2>5
<1>3. N \in D
  <2> HIDE DEF D
  <2>1. N \in 0 .. N
    OBVIOUS
  <2>2. QED
    BY <1>1, <1>2, <2>1, UpTo
<1>4. QED
  BY <1>3

(* The envelope before the first stage and after each of them.             *)
Linked(chain, N, stageList, e, client) ==
  /\ chain[0] = e /\ chain[N] = Staged(stageList, e, client)
  /\ \A i \in 0 .. (N - 1) : chain[i + 1] = Apply(stageList[i + 1], chain[i], client)

LEMMA StagedChain ==
  ASSUME NEW stageList, NEW N \in Nat, DOMAIN stageList = 1 .. N, NEW e, NEW client
  PROVE  \E chain : Linked(chain, N, stageList, e, client)
<1> DEFINE iter == CHOOSE fold : StagesFold(fold, N, stageList, e, client)
           chain == [i \in 0 .. N |-> iter[1 .. i]]
<1>1. StagesFold(iter, N, stageList, e, client)
  BY StagesFoldExists
<1>2. Staged(stageList, e, client) = iter[1 .. N]
  BY DEF StagesFold, Staged, FoldLeft, MapThenFoldSet
<1> HIDE DEF iter
<1>3. chain[0] = e
  <2>1. 1 .. 0 = {} /\ 1 .. 0 \in SUBSET (1 .. N)
    OBVIOUS
  <2>2. iter[1 .. 0] = e
    BY <1>1, <2>1 DEF StagesFold
  <2>3. QED
    BY <2>2
<1>4. ASSUME NEW i \in 0 .. (N - 1)
      PROVE  chain[i + 1] = Apply(stageList[i + 1], chain[i], client)
  <2>0. i \in Nat /\ i \in 0 .. N /\ i + 1 \in 0 .. N
    OBVIOUS
  <2>1. /\ i \in Nat /\ i \in 0 .. N /\ i + 1 \in 0 .. N
        /\ 1 .. (i + 1) \in SUBSET (1 .. N) /\ 1 \in 1 .. (i + 1)
    BY <2>0
  <2>2. Max(1 .. (i + 1)) = i + 1 /\ (1 .. (i + 1)) \ {i + 1} = 1 .. i
    BY <2>1, LastOfPrefix
  <2>3. iter[1 .. (i + 1)] = Apply(stageList[i + 1], iter[1 .. i], client)
    BY <1>1, <2>1, <2>2 DEF StagesFold
  <2>4. chain[i + 1] = iter[1 .. (i + 1)] /\ chain[i] = iter[1 .. i]
    BY <2>1
  <2>5. QED
    BY <2>3, <2>4
<1>5. chain[N] = iter[1 .. N]
  OBVIOUS
<1>6. QED
  BY <1>2, <1>3, <1>4, <1>5 DEF Linked

(* The same for the property bags that enrichment makes.                   *)
Enriched(bag, items) == FoldLeft(PutGenerated, bag, items)

BagsFold(fold, N, items, bag) ==
  fold = [s \in SUBSET (1 .. N) |->
            IF s = {} THEN bag
            ELSE PutGenerated(fold[s \ {Max(s)}], items[Max(s)])]

LEMMA BagsFoldExists ==
  ASSUME NEW N \in Nat, NEW items, NEW bag
  PROVE  \E fold : BagsFold(fold, N, items, bag)
<1> DEFINE D == {k \in 0 .. N : \E fold : BagsFold(fold, k, items, bag)}
<1>1. 0 \in D
  <2> DEFINE fold == [s \in SUBSET (1 .. 0) |-> bag]
  <2>1. \A s \in SUBSET (1 .. 0) : s = {}
    OBVIOUS
  <2>2. BagsFold(fold, 0, items, bag)
    BY <2>1 DEF BagsFold
  <2>3. QED
    BY <2>2
<1>2. ASSUME NEW k \in D, k \in 0 .. (N - 1) PROVE k + 1 \in D
  <2>1. PICK g : BagsFold(g, k, items, bag)
    OBVIOUS
  <2> DEFINE fold == [s \in SUBSET (1 .. (k + 1)) |->
                        IF k + 1 \in s
                        THEN PutGenerated(g[s \ {k + 1}], items[k + 1])
                        ELSE g[s]]
  <2>2. k \in Nat
    OBVIOUS
  <2>3. ASSUME NEW s \in SUBSET (1 .. (k + 1))
        PROVE  fold[s] = IF s = {} THEN bag
                         ELSE PutGenerated(fold[s \ {Max(s)}], items[Max(s)])
    <3>1. CASE k + 1 \in s
      <4>1. Max(s) = k + 1 /\ s \ {k + 1} \in SUBSET (1 .. k) /\ s # {}
        BY <2>2, <3>1, LastOfPrefix
      <4>2. s \ {k + 1} \in SUBSET (1 .. (k + 1)) /\ k + 1 \notin s \ {k + 1}
        OBVIOUS
      <4>3. fold[s \ {k + 1}] = g[s \ {k + 1}]
        BY <4>2
      <4>4. fold[s] = PutGenerated(g[s \ {k + 1}], items[k + 1])
        BY <3>1
      <4>5. QED
        BY <4>1, <4>3, <4>4
    <3>2. CASE k + 1 \notin s
      <4>1. s \in SUBSET (1 .. k)
        BY <2>2, <3>2
      <4>2. s \ {Max(s)} \in SUBSET (1 .. (k + 1)) /\ k + 1 \notin s \ {Max(s)}
        BY <3>2
      <4>3. fold[s] = g[s] /\ fold[s \ {Max(s)}] = g[s \ {Max(s)}]
        BY <3>2, <4>2
      <4>4. g[s] = IF s = {} THEN bag
                   ELSE PutGenerated(g[s \ {Max(s)}], items[Max(s)])
        BY <2>1, <4>1 DEF BagsFold
      <4>5. QED
        BY <4>3, <4>4
    <3>3. QED
      BY <3>1, <3>2
  <2>4. BagsFold(fold, k + 1, items, bag)
    BY <2>3 DEF BagsFold
  <2>5. k + 1 \in 0 .. N
    BY <1>2
  <2>6. QED
    BY <2>4, <2>5
<1>3. N \in D
  <2> HIDE DEF D
  <2>1. N \in 0 .. N
    OBVIOUS
  <2>2. QED
    BY <1>1, <1>2, <2>1, UpTo
<1>4. QED
  BY <1>3

LEMMA EnrichedChain ==
  ASSUME NEW items, NEW N \in Nat, DOMAIN items = 1 .. N, NEW bag
  PROVE  \E chain : /\ chain[0] = bag /\ chain[N] = Enriched(bag, items)
                    /\ \A i \in 0 .. (N - 1) :
                         chain[i + 1] = PutGenerated(chain[i], items[i + 1])
<1> DEFINE iter == CHOOSE fold : BagsFold(fold, N, items, bag)
           chain == [i \in 0 .. N |-> iter[1 .. i]]
<1>1. BagsFold(iter, N, items, bag)
  BY BagsFoldExists
<1>2. Enriched(bag, items) = iter[1 .. N]
  BY DEF BagsFold, Enriched, FoldLeft, MapThenFoldSet
<1> HIDE DEF iter
<1>3. chain[0] = bag
  <2>1. 1 .. 0 = {} /\ 1 .. 0 \in SUBSET (1 .. N)
    OBVIOUS
  <2>2. iter[1 .. 0] = bag
    BY <1>1, <2>1 DEF BagsFold
  <2>3. QED
    BY <2>2
<1>4. ASSUME NEW i \in 0 .. (N - 1)
      PROVE  chain[i + 1] = PutGenerated(chain[i], items[i + 1])
  <2>0. i \in Nat /\ i \in 0 .. N /\ i + 1 \in 0 .. N
    OBVIOUS
  <2>1. /\ i \in Nat /\ i \in 0 .. N /\ i + 1 \in 0 .. N
        /\ 1 .. (i + 1) \in SUBSET (1 .. N) /\ 1 \in 1 .. (i + 1)
    BY <2>0
  <2>2. Max(1 .. (i + 1)) = i + 1 /\ (1 .. (i + 1)) \ {i + 1} = 1 .. i
    BY <2>1, LastOfPrefix
  <2>3. iter[1 .. (i + 1)] = PutGenerated(iter[1 .. i], items[i + 1])
    BY <1>1, <2>1, <2>2 DEF BagsFold
  <2>4. chain[i + 1] = iter[1 .. (i + 1)] /\ chain[i] = iter[1 .. i]
    BY <2>1
  <2>5. QED
    BY <2>3, <2>4
<1>5. chain[N] = iter[1 .. N]
  OBVIOUS
<1>6. QED
  BY <1>2, <1>3, <1>4, <1>5

-----------------------------------------------------------------------------
(* Enrichment.  A bag within the limit that has the client's own values.   *)
Keeps(bag, own) ==
  /\ IsFiniteSet(DOMAIN bag) /\ Cardinality(DOMAIN bag) <= MaxPropertyCount
  /\ \A k \in DOMAIN own : k \in DOMAIN bag /\ bag[k] = own[k]

LEMMA PutKeeps ==
  ASSUME NEW bag, NEW own, NEW p, Keeps(bag, own)
  PROVE  Keeps(PutGenerated(bag, p), own)
<1> DEFINE keys == DOMAIN bag
           more == [k \in keys \cup {p.key} |-> IF k = p.key THEN p.value ELSE bag[k]]
<1>1. IsFiniteSet(keys) /\ Cardinality(keys) \in Nat /\ MaxPropertyCount \in Nat
  BY FS_CardinalityType, CollectAssumption DEF Keeps
<1>2. CASE p.key \notin keys /\ Cardinality(keys) < MaxPropertyCount
  <2>1. IsFiniteSet(keys \cup {p.key}) /\ Cardinality(keys \cup {p.key}) = Cardinality(keys) + 1
    BY <1>1, <1>2, FS_AddElement
  <2>2. DOMAIN more = keys \cup {p.key} /\ \A k \in keys : more[k] = bag[k]
    BY <1>2
  <2>3. Cardinality(DOMAIN more) <= MaxPropertyCount /\ IsFiniteSet(DOMAIN more)
    <3> HIDE DEF keys, more
    <3>1. QED
      BY <1>1, <1>2, <2>1, <2>2
  <2>4. Keeps(more, own)
    <3> HIDE DEF more
    <3>1. QED
      BY <2>2, <2>3 DEF Keeps
  <2>5. PutGenerated(bag, p) \in {bag, more}
    BY DEF PutGenerated
  <2>6. QED
    BY <2>4, <2>5
<1>3. CASE ~ (p.key \notin keys /\ Cardinality(keys) < MaxPropertyCount)
  <2>1. p.key \in DOMAIN bag \/ Cardinality(DOMAIN bag) >= MaxPropertyCount
    BY <1>1, <1>3
  <2>2. PutGenerated(bag, p) = bag
    BY <2>1 DEF PutGenerated
  <2>3. QED
    BY <2>2
<1>4. QED
  BY <1>2, <1>3

LEMMA ThreeInSequence == \A x, y, z : <<x, y, z>> \in Seq({x, y, z})
  OBVIOUS

LEMMA Joined ==
  \A S, T : \A s \in Seq(S), t \in Seq(T) :
    DOMAIN (s \o t) = 1 .. (Len(s) + Len(t)) /\ s \o t \in Seq(S \cup T)
  OBVIOUS

LEMMA GeneratedLength ==
  ASSUME NEW client
  PROVE  \E N \in Nat : DOMAIN Generated(client) = 1 .. N
<1> DEFINE own == <<Property("client.user_agent", IF client.agent = {} THEN "" ELSE "agent"),
                    Property("client.referrer", client.referrer),
                    Property("client.ip_hash", IF client.ip = NoIP THEN "" ELSE "hash")>>
           agent == FromAgent(client.agent)
           ip == FromIP(client.ip)
<1>1. Generated(client) = own \o agent \o ip
  BY DEF Generated
<1>2. /\ \E S : own \in Seq(S)
      /\ \E S : agent \in Seq(S)
      /\ \E S : ip \in Seq(S)
  BY ThreeInSequence DEF FromAgent, FromIP
<1> HIDE DEF own, agent, ip
<1>3. PICK S, T, U : own \in Seq(S) /\ agent \in Seq(T) /\ ip \in Seq(U)
  BY <1>2
<1>4. own \o agent \in Seq(S \cup T)
  BY <1>3, Joined
<1>5. DOMAIN (own \o agent \o ip) = 1 .. (Len(own \o agent) + Len(ip))
  BY <1>3, <1>4, Joined
<1>6. Len(own \o agent) + Len(ip) \in Nat
  BY <1>3, <1>4
<1>7. QED
  BY <1>1, <1>5, <1>6

LEMMA EnrichKeeps ==
  ASSUME NEW bag, NEW own, NEW client, Keeps(bag, own)
  PROVE  Keeps(Enriched(bag, Generated(client)), own)
<1> DEFINE items == Generated(client)
<1>1. PICK N \in Nat : DOMAIN items = 1 .. N
  BY GeneratedLength
<1>2. PICK chain : /\ chain[0] = bag /\ chain[N] = Enriched(bag, items)
                   /\ \A i \in 0 .. (N - 1) :
                        chain[i + 1] = PutGenerated(chain[i], items[i + 1])
  <2> HIDE DEF items
  <2>1. QED
    BY <1>1, EnrichedChain
<1> DEFINE D == {i \in 0 .. N : Keeps(chain[i], own)}
<1> HIDE DEF items
<1>3. 0 \in D
  BY <1>2
<1>4. \A i \in D : i \in 0 .. (N - 1) => i + 1 \in D
  BY <1>2, PutKeeps
<1>5. N \in D
  <2> HIDE DEF D
  <2>1. N \in 0 .. N
    OBVIOUS
  <2>2. QED
    BY <1>3, <1>4, <2>1, UpTo
<1>6. Keeps(Enriched(bag, items), own)
  BY <1>2, <1>5
<1>7. QED
  BY <1>6 DEF items

-----------------------------------------------------------------------------
(* One stage.  An envelope is made from a body that arrived at time t; the *)
(* stages change its session, its visit and its properties.                *)
Stages == {"session", "visit", "enrich", "filter"}

Made(body, t, s, v, p) ==
  [id |-> body.id, visitor |-> body.visitor, session |-> s, visit |-> v,
   time |-> EventTime(body, t), receivedAt |-> t, props |-> p]

SessionKey(body, t, client) ==
  <<body.visitor, Bucket(EventTime(body, t), SessionWindow)>>
    \o IF IncludeClientFingerprint THEN <<client.agent, client.ip>> ELSE <<>>
VisitKey(body, t, s) == <<body.visitor, s, Bucket(EventTime(body, t), VisitWindow)>>

SessionAfter(stage, s, body, t, client) ==
  IF stage = "session" /\ s = NoIdentity THEN Digest(SessionKey(body, t, client)) ELSE s
VisitAfter(stage, s, v, body, t) ==
  IF stage = "visit" /\ v = NoIdentity THEN Digest(VisitKey(body, t, s)) ELSE v
PropsAfter(stage, p, client) ==
  IF stage = "enrich" THEN Enriched(p, Generated(client)) ELSE p

LEMMA ApplyMade ==
  ASSUME NEW stage \in Stages, NEW body, NEW t, NEW s, NEW v, NEW p, NEW client
  PROVE  Apply(stage, Made(body, t, s, v, p), client)
           = Made(body, t, SessionAfter(stage, s, body, t, client),
                  VisitAfter(stage, s, v, body, t), PropsAfter(stage, p, client))
<1> DEFINE e == Made(body, t, s, v, p)
<1>1. /\ e.session = s /\ e.visit = v /\ e.props = p
      /\ e.visitor = body.visitor /\ e.time = EventTime(body, t)
  BY DEF Made
<1>2. \A x : /\ [e EXCEPT !.session = x] = Made(body, t, x, v, p)
             /\ [e EXCEPT !.visit = x] = Made(body, t, s, x, p)
             /\ [e EXCEPT !.props = x] = Made(body, t, s, v, x)
  BY DEF Made
<1> HIDE DEF e
<1>3. /\ SessionMaterial(e, client) = SessionKey(body, t, client)
      /\ VisitMaterial(e) = VisitKey(body, t, s)
  BY <1>1 DEF SessionMaterial, SessionKey, VisitMaterial, VisitKey
<1>4. CASE stage = "session"
  <2>1. Apply(stage, e, client) = ResolveSession(e, client)
    BY <1>4 DEF Apply
  <2>2. ResolveSession(e, client) = Made(body, t, SessionAfter(stage, s, body, t, client), v, p)
    <3>1. CASE s = NoIdentity
      BY <1>1, <1>2, <1>3, <1>4, <3>1 DEF ResolveSession, SessionAfter
    <3>2. CASE s # NoIdentity
      BY <1>1, <1>4, <3>2 DEF ResolveSession, SessionAfter, e
    <3>3. QED
      BY <3>1, <3>2
  <2>3. VisitAfter(stage, s, v, body, t) = v /\ PropsAfter(stage, p, client) = p
    BY <1>4 DEF VisitAfter, PropsAfter
  <2>4. QED
    BY <2>1, <2>2, <2>3 DEF e
<1>5. CASE stage = "visit"
  <2>1. Apply(stage, e, client) = ResolveVisit(e)
    BY <1>5 DEF Apply
  <2>2. ResolveVisit(e) = Made(body, t, s, VisitAfter(stage, s, v, body, t), p)
    <3>1. CASE v = NoIdentity
      BY <1>1, <1>2, <1>3, <1>5, <3>1 DEF ResolveVisit, VisitAfter
    <3>2. CASE v # NoIdentity
      BY <1>1, <1>5, <3>2 DEF ResolveVisit, VisitAfter, e
    <3>3. QED
      BY <3>1, <3>2
  <2>3. SessionAfter(stage, s, body, t, client) = s /\ PropsAfter(stage, p, client) = p
    BY <1>5 DEF SessionAfter, PropsAfter
  <2>4. QED
    BY <2>1, <2>2, <2>3 DEF e
<1>6. CASE stage = "enrich"
  <2>1. Apply(stage, e, client) = Enrich(e, client)
    BY <1>6 DEF Apply
  <2>2. Enrich(e, client) = Made(body, t, s, v, Enriched(p, Generated(client)))
    BY <1>1, <1>2 DEF Enrich, Enriched
  <2>3. /\ SessionAfter(stage, s, body, t, client) = s /\ VisitAfter(stage, s, v, body, t) = v
        /\ PropsAfter(stage, p, client) = Enriched(p, Generated(client))
    BY <1>6 DEF SessionAfter, VisitAfter, PropsAfter
  <2>4. QED
    BY <2>1, <2>2, <2>3 DEF e
<1>7. CASE stage = "filter"
  BY <1>7 DEF Apply, SessionAfter, VisitAfter, PropsAfter, e
<1>8. QED
  BY <1>4, <1>5, <1>6, <1>7 DEF Stages

-----------------------------------------------------------------------------
(* All stages.                                                             *)
LEMMA NormalizeMade ==
  ASSUME NEW body, NEW t
  PROVE  Normalize(body, t) = Made(body, t, Given(body.session), Given(body.visit), body.props)
  BY DEF Normalize, Made

IsChain(chain, list, body, t, client) ==
  /\ chain[0] = Made(body, t, Given(body.session), Given(body.visit), body.props)
  /\ chain[Len(list)] = Staged(list, Normalize(body, t), client)
  /\ \A i \in 0 .. (Len(list) - 1) : chain[i + 1] = Apply(list[i + 1], chain[i], client)

LEMMA StagesChain ==
  ASSUME NEW list \in Seq(Stages), NEW body, NEW t, NEW client
  PROVE  \E chain : IsChain(chain, list, body, t, client)
<1> DEFINE e == Normalize(body, t)
           N == Len(list)
<1>1. N \in Nat /\ DOMAIN list = 1 .. N
  OBVIOUS
<1>2. e = Made(body, t, Given(body.session), Given(body.visit), body.props)
  BY NormalizeMade
<1> HIDE DEF e, N
<1>3. PICK chain : Linked(chain, N, list, e, client)
  BY <1>1, StagedChain
<1>4. IsChain(chain, list, body, t, client)
  BY <1>2, <1>3 DEF IsChain, Linked, e, N
<1>5. QED
  BY <1>4

LEMMA StageInList ==
  ASSUME NEW list \in Seq(Stages), NEW i \in 0 .. (Len(list) - 1)
  PROVE  /\ list[i + 1] \in Stages /\ i \in Nat
         /\ i \in 0 .. Len(list) /\ i + 1 \in 0 .. Len(list) /\ i + 1 \in 1 .. Len(list)
<1>1. i \in Nat /\ i + 1 \in 1 .. Len(list) /\ Len(list) \in Nat
  OBVIOUS
<1>2. QED
  BY <1>1

(* The envelope keeps its body's name, and the client's own properties.    *)
LEMMA StagedKeeps ==
  ASSUME NEW list \in Seq(Stages), NEW body, NEW t, NEW client, Keeps(body.props, body.props)
  PROVE  \E s, v, p : /\ Staged(list, Normalize(body, t), client) = Made(body, t, s, v, p)
                      /\ Keeps(p, body.props)
<1> DEFINE N == Len(list)
<1>1. PICK chain : IsChain(chain, list, body, t, client)
  BY StagesChain
<1> DEFINE D == {i \in 0 .. N : \E s, v, p : /\ chain[i] = Made(body, t, s, v, p)
                                             /\ Keeps(p, body.props)}
<1>2. N \in Nat
  OBVIOUS
<1>3. 0 \in D
  BY <1>1, <1>2 DEF IsChain
<1>4. ASSUME NEW i \in D, i \in 0 .. (N - 1) PROVE i + 1 \in D
  <2>1. PICK s, v, p : chain[i] = Made(body, t, s, v, p) /\ Keeps(p, body.props)
    OBVIOUS
  <2>2. list[i + 1] \in Stages /\ i + 1 \in 0 .. N
    BY <1>4, StageInList
  <2>3. chain[i + 1] = Made(body, t, SessionAfter(list[i + 1], s, body, t, client),
                            VisitAfter(list[i + 1], s, v, body, t),
                            PropsAfter(list[i + 1], p, client))
    BY <1>1, <1>4, <2>1, <2>2, ApplyMade DEF IsChain
  <2>4. Keeps(PropsAfter(list[i + 1], p, client), body.props)
    BY <2>1, EnrichKeeps DEF PropsAfter
  <2>5. QED
    BY <2>2, <2>3, <2>4
<1>5. N \in D
  <2> HIDE DEF D, N
  <2>1. N \in 0 .. N
    BY <1>2
  <2>2. QED
    BY <1>2, <1>3, <1>4, <2>1, UpTo
<1>6. QED
  BY <1>1, <1>5 DEF IsChain

(* Two arrivals of a body that keep pace stage by stage.                   *)
LEMMA StagedAlike ==
  ASSUME NEW list \in Seq(Stages), NEW body, NEW t, NEW u, NEW client, NEW other,
         EventTime(body, t) = EventTime(body, u),
         SessionKey(body, t, client) = SessionKey(body, u, other)
  PROVE  \E s, v, p, q :
           /\ Staged(list, Normalize(body, t), client) = Made(body, t, s, v, p)
           /\ Staged(list, Normalize(body, u), other) = Made(body, u, s, v, q)
<1> DEFINE N == Len(list)
<1>1. PICK chain : IsChain(chain, list, body, t, client)
  BY StagesChain
<1>2. PICK retry : IsChain(retry, list, body, u, other)
  BY StagesChain
<1> DEFINE D == {i \in 0 .. N : \E s, v, p, q : /\ chain[i] = Made(body, t, s, v, p)
                                                /\ retry[i] = Made(body, u, s, v, q)}
<1>3. N \in Nat
  OBVIOUS
<1>4. 0 \in D
  BY <1>1, <1>2, <1>3 DEF IsChain
<1>5. ASSUME NEW i \in D, i \in 0 .. (N - 1) PROVE i + 1 \in D
  <2>1. PICK s, v, p, q : chain[i] = Made(body, t, s, v, p) /\ retry[i] = Made(body, u, s, v, q)
    OBVIOUS
  <2>2. list[i + 1] \in Stages /\ i + 1 \in 0 .. N
    BY <1>5, StageInList
  <2>3. /\ chain[i + 1] = Made(body, t, SessionAfter(list[i + 1], s, body, t, client),
                               VisitAfter(list[i + 1], s, v, body, t),
                               PropsAfter(list[i + 1], p, client))
        /\ retry[i + 1] = Made(body, u, SessionAfter(list[i + 1], s, body, u, other),
                               VisitAfter(list[i + 1], s, v, body, u),
                               PropsAfter(list[i + 1], q, other))
    BY <1>1, <1>2, <1>5, <2>1, <2>2, ApplyMade DEF IsChain
  <2>4. /\ SessionAfter(list[i + 1], s, body, t, client)
             = SessionAfter(list[i + 1], s, body, u, other)
        /\ VisitAfter(list[i + 1], s, v, body, t) = VisitAfter(list[i + 1], s, v, body, u)
    BY DEF SessionAfter, VisitAfter, VisitKey
  <2>5. QED
    BY <2>2, <2>3, <2>4
<1>6. N \in D
  <2> HIDE DEF D, N
  <2>1. N \in 0 .. N
    BY <1>3
  <2>2. QED
    BY <1>3, <1>4, <1>5, <2>1, UpTo
<1>7. QED
  BY <1>1, <1>2, <1>6 DEF IsChain

(* Whatever it brings, the envelope is made from its body.                 *)
LEMMA StagedMade ==
  ASSUME NEW list \in Seq(Stages), NEW body, NEW t, NEW client
  PROVE  \E s, v, p : Staged(list, Normalize(body, t), client) = Made(body, t, s, v, p)
  BY StagedAlike

(* Where the first session stage is before every visit stage.              *)
Resolved(list, i, s, v, body, t) ==
  /\ \/ v = Given(body.visit)
     \/ s # NoIdentity /\ v = Digest(VisitKey(body, t, s))
  /\ (\E j \in 1 .. i : list[j] = "visit") => v # NoIdentity
  /\ s = NoIdentity => \A j \in 1 .. i : list[j] # "session"

LEMMA DigestsAreDerived ==
  /\ \A material : material # <<>> => Digest(material) # NoIdentity
  /\ \A body, t, s : VisitKey(body, t, s) # <<>>
  /\ \A body, t, client : SessionKey(body, t, client) # <<>>
<1>1. \A material : material # <<>> => Digest(material) # NoIdentity
  BY DEF Digest, NoIdentity, Given
<1>2. \A body, t, s : VisitKey(body, t, s) # <<>>
  BY DEF VisitKey
<1>3. ASSUME NEW body, NEW t, NEW client PROVE SessionKey(body, t, client) # <<>>
  <2>1. \A a, b, c, d : <<a, b>> \o <<c, d>> # <<>> /\ <<a, b>> \o <<>> # <<>>
    OBVIOUS
  <2>2. QED
    BY <2>1 DEF SessionKey
<1>4. QED
  BY <1>1, <1>2, <1>3

LEMMA StagedResolved ==
  ASSUME NEW list \in Seq(Stages), NEW body, NEW t, NEW client,
         \E i \in 1 .. Len(list) : list[i] = "session" /\ \A j \in 1 .. i : list[j] # "visit"
  PROVE  \E s, v, p : /\ Staged(list, Normalize(body, t), client) = Made(body, t, s, v, p)
                      /\ Resolved(list, Len(list), s, v, body, t)
<1> DEFINE N == Len(list)
<1>1. PICK chain : IsChain(chain, list, body, t, client)
  BY StagesChain
<1>2. PICK first \in 1 .. N : list[first] = "session" /\ \A j \in 1 .. first : list[j] # "visit"
  OBVIOUS
<1> DEFINE D == {i \in 0 .. N : \E s, v, p : /\ chain[i] = Made(body, t, s, v, p)
                                             /\ Resolved(list, i, s, v, body, t)}
<1>3. N \in Nat
  OBVIOUS
<1>4. 0 \in D
  <2>1. Resolved(list, 0, Given(body.session), Given(body.visit), body, t)
    <3>1. \A j : j \notin 1 .. 0
      OBVIOUS
    <3>2. QED
      BY <3>1 DEF Resolved
  <2>2. QED
    BY <1>1, <1>3, <2>1 DEF IsChain
<1>5. ASSUME NEW i \in D, i \in 0 .. (N - 1) PROVE i + 1 \in D
  <2>1. PICK s, v, p : chain[i] = Made(body, t, s, v, p) /\ Resolved(list, i, s, v, body, t)
    OBVIOUS
  <2>2. /\ list[i + 1] \in Stages /\ i + 1 \in 0 .. N /\ i \in Nat
        /\ \A j \in 1 .. (i + 1) : j \in 1 .. i \/ j = i + 1
        /\ \A j \in 1 .. i : j \in 1 .. (i + 1)
        /\ i + 1 \in 1 .. (i + 1)
    BY <1>5, StageInList
  <2> DEFINE stage == list[i + 1]
             s1 == SessionAfter(stage, s, body, t, client)
             v1 == VisitAfter(stage, s, v, body, t)
  <2>3. chain[i + 1] = Made(body, t, s1, v1, PropsAfter(stage, p, client))
    BY <1>1, <1>5, <2>1, <2>2, ApplyMade DEF IsChain
  <2>4. stage = "visit" => s # NoIdentity
    <3>1. SUFFICES ASSUME stage = "visit", s = NoIdentity PROVE FALSE
      OBVIOUS
    <3>2. \A j \in 1 .. i : list[j] # "session"
      BY <2>1, <3>1 DEF Resolved
    <3>3. first \in Nat /\ ~ (first <= i) /\ first # i + 1
      BY <1>2, <2>2, <3>1, <3>2
    <3>4. i + 1 \in 1 .. first
      BY <2>2, <3>3
    <3>5. QED
      BY <1>2, <3>1, <3>4
  <2>5. Resolved(list, i + 1, s1, v1, body, t)
    <3>1. CASE stage = "session"
      <4>1. v1 = v /\ s1 # NoIdentity /\ (s # NoIdentity => s1 = s)
        BY <3>1, DigestsAreDerived DEF SessionAfter, VisitAfter
      <4>2. \A j \in 1 .. (i + 1) : list[j] = "visit" => j \in 1 .. i
        BY <2>2, <3>1
      <4> HIDE DEF s1, v1
      <4>3. QED
        BY <2>1, <4>1, <4>2 DEF Resolved
    <3>2. CASE stage = "visit"
      <4>1. s1 = s /\ v1 # NoIdentity /\ (v1 = v \/ v1 = Digest(VisitKey(body, t, s)))
        BY <3>2, DigestsAreDerived DEF SessionAfter, VisitAfter
      <4>2. s1 # NoIdentity
        BY <2>4, <3>2, <4>1
      <4> HIDE DEF s1, v1
      <4>3. QED
        BY <2>1, <4>1, <4>2 DEF Resolved
    <3>3. CASE stage \notin {"session", "visit"}
      <4>1. s1 = s /\ v1 = v
        BY <3>3 DEF SessionAfter, VisitAfter
      <4>2. \A j \in 1 .. (i + 1) : list[j] \in {"session", "visit"} => j \in 1 .. i
        BY <2>2, <3>3
      <4> HIDE DEF s1, v1
      <4>3. QED
        BY <2>1, <4>1, <4>2 DEF Resolved
    <3>4. QED
      BY <3>1, <3>2, <3>3
  <2> HIDE DEF s1, v1
  <2>6. QED
    BY <2>2, <2>3, <2>5
<1>6. N \in D
  <2> HIDE DEF D, N
  <2>1. N \in 0 .. N
    BY <1>3
  <2>2. QED
    BY <1>3, <1>4, <1>5, <2>1, UpTo
<1>7. QED
  BY <1>1, <1>6 DEF IsChain

-----------------------------------------------------------------------------
(* What is published was made by the stages from a valid body.             *)
Origin(x) ==
  \E body, client, t :
    /\ body \in Body /\ client \in Client /\ Valid(body, t)
    /\ x = [of |-> Staged(stages, Normalize(body, t), client), from |-> client]

OriginInv ==
  /\ stages \in StageOrders
  /\ DOMAIN response = Publisher /\ DOMAIN envelope = Publisher
  /\ \A x \in published : Origin(x)
  /\ \A p \in Publisher : response[p] = "staged" => Origin(envelope[p])

LEMMA InitOriginInv == Init => OriginInv
  BY DEF Init, OriginInv

LEMMA ReceiveOrigin ==
  ASSUME OriginInv, NEW p \in Publisher, NEW body \in Body, NEW client \in Client,
         Receive(p, body, client)
  PROVE  OriginInv'
<1>1. UNCHANGED <<stages, published>>
  BY DEF Receive
<1>2. \A x : Origin(x)' <=> Origin(x)
  BY <1>1 DEF Origin
<1>3. CASE Valid(body, now) /\ ~ Rejects(stages, client)
  <2>1. /\ response' = [response EXCEPT ![p] = "staged"]
        /\ envelope' = [envelope EXCEPT ![p] =
                          [of |-> Staged(stages, Normalize(body, now), client),
                           from |-> client]]
    BY <1>3 DEF Receive, Answer
  <2>2. Origin([of |-> Staged(stages, Normalize(body, now), client), from |-> client])
    BY <1>3 DEF Origin
  <2>3. \A q \in Publisher : response'[q] = "staged" => Origin(envelope'[q])
    BY <2>1, <2>2 DEF OriginInv
  <2>4. QED
    BY <1>1, <1>2, <2>1, <2>3 DEF OriginInv
<1>4. CASE ~ (Valid(body, now) /\ ~ Rejects(stages, client))
  <2>1. /\ \E status \in {"bad request", "filtered"} : response' = [response EXCEPT ![p] = status]
        /\ UNCHANGED envelope
    BY <1>4 DEF Receive, Answer
  <2>2. \A q \in Publisher : response'[q] = "staged" => response[q] = "staged"
    BY <2>1 DEF OriginInv
  <2>3. QED
    BY <1>1, <1>2, <2>1, <2>2 DEF OriginInv
<1>5. QED
  BY <1>3, <1>4

LEMMA PublishOrigin ==
  ASSUME OriginInv, NEW p \in Publisher, PublishEnvelope(p)
  PROVE  OriginInv'
<1>1. /\ response[p] = "staged" /\ UNCHANGED <<stages, envelope>>
      /\ response' = [response EXCEPT ![p] = "publishing"]
      /\ published' = published \cup {envelope[p]}
  BY DEF PublishEnvelope, Answer
<1>2. \A x : Origin(x)' <=> Origin(x)
  BY <1>1 DEF Origin
<1>3. \A q \in Publisher : response'[q] = "staged" => response[q] = "staged"
  BY <1>1 DEF OriginInv
<1>4. QED
  BY <1>1, <1>2, <1>3 DEF OriginInv

(* The other steps stage nothing and publish nothing.                      *)
LEMMA QuietOrigin ==
  ASSUME OriginInv, UNCHANGED <<stages, envelope, published>>, DOMAIN response' = Publisher,
         \A p \in Publisher : response'[p] = "staged" => response[p] = "staged"
  PROVE  OriginInv'
<1>1. \A x : Origin(x)' <=> Origin(x)
  BY DEF Origin
<1>2. QED
  BY <1>1 DEF OriginInv

LEMMA NextOriginInv == OriginInv /\ [Next]_vars => OriginInv'
<1> SUFFICES ASSUME OriginInv, [Next]_vars PROVE OriginInv'
  OBVIOUS
<1>1. CASE UNCHANGED <<stages, envelope, published, response>>
  BY <1>1, QuietOrigin DEF OriginInv
<1>2. ASSUME NEW p \in Publisher, Respond(p) PROVE OriginInv'
  BY <1>2, QuietOrigin DEF Respond, Answer, OriginInv
<1>3. CASE Tick \/ (Subscribers /\ UNCHANGED collectVars) \/ UNCHANGED vars
  BY <1>1, <1>3 DEF Tick, collectVars, vars
<1>4. ASSUME NEW p \in Publisher, Serve(p) PROVE OriginInv'
  BY <1>1, <1>2, <1>4, PublishOrigin DEF Serve, Deliver, HandleEnvelope, collectVars
<1>5. QED
  BY <1>3, <1>4, ReceiveOrigin DEF Next

-----------------------------------------------------------------------------
LEMMA BodyOfMade ==
  ASSUME NEW body \in Body, NEW t, NEW s, NEW v, NEW p
  PROVE  /\ BodyOf(Made(body, t, s, v, p)) = body
         /\ Made(body, t, s, v, p).id = body.id
         /\ Made(body, t, s, v, p).session = s /\ Made(body, t, s, v, p).visit = v
         /\ Made(body, t, s, v, p).props = p
<1>1. /\ Made(body, t, s, v, p).id = body.id
      /\ Made(body, t, s, v, p).session = s /\ Made(body, t, s, v, p).visit = v
      /\ Made(body, t, s, v, p).props = p
  BY DEF Made
<1>2. QED
  BY <1>1, BodyAssumption DEF BodyOf

LEMMA StageListType == OriginInv => stages \in Seq(Stages)
  BY BodyAssumption DEF OriginInv, Stages

LEMMA InvImpliesIdentity == OriginInv => TimedEventsKeepIdentity
<1> SUFFICES ASSUME OriginInv, NEW x \in published, NEW y \in published,
                    x.of.id = y.of.id, BodyOf(x.of).time # NoTime,
                    IncludeClientFingerprint => SameClient(x, y)
             PROVE  x.of.session = y.of.session /\ x.of.visit = y.of.visit
  BY DEF TimedEventsKeepIdentity
<1>1. PICK b, c, t :
        /\ b \in Body
        /\ x = [of |-> Staged(stages, Normalize(b, t), c), from |-> c]
  BY DEF OriginInv, Origin
<1>2. PICK d, o, u :
        /\ d \in Body
        /\ y = [of |-> Staged(stages, Normalize(d, u), o), from |-> o]
  BY DEF OriginInv, Origin
<1>3. stages \in Seq(Stages)
  BY StageListType
<1>4. b = d /\ b.time # NoTime
  <2>1. PICK s, v, p : x.of = Made(b, t, s, v, p)
    BY <1>1, <1>3, StagedMade
  <2>2. PICK s2, v2, p2 : y.of = Made(d, u, s2, v2, p2)
    BY <1>2, <1>3, StagedMade
  <2>3. BodyOf(x.of) = b /\ x.of.id = b.id
    BY <1>1, <2>1, BodyOfMade
  <2>4. y.of.id = d.id
    BY <1>2, <2>2, BodyOfMade
  <2>5. QED
    BY <1>1, <1>2, <2>3, <2>4, BodyAssumption
<1>5. EventTime(b, t) = EventTime(b, u)
  BY <1>4 DEF EventTime
<1>6. SessionKey(b, t, c) = SessionKey(b, u, o)
  BY <1>1, <1>2, <1>5 DEF SessionKey, SameClient
<1>7. PICK s, v, p, q : /\ x.of = Made(b, t, s, v, p)
                        /\ y.of = Made(b, u, s, v, q)
  BY <1>1, <1>2, <1>3, <1>4, <1>5, <1>6, StagedAlike
<1>8. QED
  BY <1>1, <1>7, BodyOfMade

LEMMA IdentitiesApart ==
  /\ \A id : Given(id).given = id
  /\ \A a, b : Digest(a) = Digest(b) => a = b
<1>1. \A id : Given(id).given = id
  BY DEF Given
<1>2. \A a : Digest(a).digestOf = a
  BY DEF Digest
<1>3. QED
  BY <1>1, <1>2

LEMMA InvImpliesInside == OriginInv => VisitInsideSession
<1> SUFFICES ASSUME OriginInv, Before("session", "visit"),
                    NEW x \in published, NEW y \in published,
                    Derived(x.of.visit), x.of.visit = y.of.visit
             PROVE  x.of.session = y.of.session
  BY DEF VisitInsideSession
<1>1. stages \in Seq(Stages) /\ DOMAIN stages = 1 .. Len(stages)
  BY StageListType
<1>2. /\ \E i \in 1 .. Len(stages) :
           stages[i] = "session" /\ \A j \in 1 .. i : stages[j] # "visit"
      /\ \E j \in 1 .. Len(stages) : stages[j] = "visit"
  BY <1>1 DEF Before, Range
<1>3. ASSUME NEW z \in published, Derived(z.of.visit)
      PROVE  \E body, t : z.of.visit = Digest(VisitKey(body, t, z.of.session))
  <2>1. PICK b, c, t :
          /\ b \in Body
          /\ z = [of |-> Staged(stages, Normalize(b, t), c), from |-> c]
    BY DEF OriginInv, Origin
  <2>2. PICK s, v, p : z.of = Made(b, t, s, v, p) /\ Resolved(stages, Len(stages), s, v, b, t)
    BY <1>1, <1>2, <2>1, StagedResolved
  <2>3. z.of.session = s /\ z.of.visit = v
    BY <2>1, <2>2, BodyOfMade
  <2>4. v # NoIdentity
    BY <1>2, <2>2 DEF Resolved
  <2>5. v # Given(b.visit)
    <3>1. SUFFICES ASSUME v = Given(b.visit) PROVE FALSE
      OBVIOUS
    <3>2. b.visit = ""
      BY <1>3, <2>3, <3>1, IdentitiesApart DEF Derived
    <3>3. QED
      BY <2>4, <3>1, <3>2 DEF NoIdentity
  <2>6. QED
    BY <2>2, <2>3, <2>5 DEF Resolved
<1>4. PICK b, t : x.of.visit = Digest(VisitKey(b, t, x.of.session))
  BY <1>3
<1>5. PICK d, u : y.of.visit = Digest(VisitKey(d, u, y.of.session))
  BY <1>3
<1>6. VisitKey(b, t, x.of.session) = VisitKey(d, u, y.of.session)
  BY <1>4, <1>5, IdentitiesApart
<1>7. QED
  BY <1>6 DEF VisitKey

LEMMA InvImpliesKept == OriginInv => ClientPropertiesKept
<1> SUFFICES ASSUME OriginInv, NEW x \in published
             PROVE  LET props == BodyOf(x.of).props
                    IN  /\ Cardinality(DOMAIN x.of.props) <= MaxPropertyCount
                        /\ \A k \in DOMAIN props : x.of.props[k] = props[k]
  BY DEF ClientPropertiesKept
<1>1. PICK b, c, t :
        b \in Body /\ Valid(b, t) /\ x = [of |-> Staged(stages, Normalize(b, t), c), from |-> c]
  BY DEF OriginInv, Origin
<1>2. Keeps(b.props, b.props)
  BY <1>1, BodyAssumption DEF Keeps, Valid, WellFormed
<1>3. PICK s, v, p : x.of = Made(b, t, s, v, p) /\ Keeps(p, b.props)
  BY <1>1, <1>2, StageListType, StagedKeeps
<1>4. BodyOf(x.of) = b /\ x.of.props = p
  BY <1>1, <1>3, BodyOfMade
<1>5. QED
  BY <1>3, <1>4 DEF Keeps

-----------------------------------------------------------------------------
(* A retry of an event that carries its time gets the session and visit of *)
(* the first arrival, through any list of stages.                          *)
THEOREM RetriesKeepIdentity == Spec => []TimedEventsKeepIdentity
  BY InitOriginInv, NextOriginInv, InvImpliesIdentity, PTL DEF Spec

(* With sessions resolved before visits, a derived visit is in one session *)
(* whatever the two windows are.                                           *)
THEOREM VisitsStayInside == Spec => []VisitInsideSession
  BY InitOriginInv, NextOriginInv, InvImpliesInside, PTL DEF Spec

(* Enrichment, however often it runs, keeps the client's own properties    *)
(* and the limit on their number.                                          *)
THEOREM OwnPropertiesAreKept == Spec => []ClientPropertiesKept
  BY InitOriginInv, NextOriginInv, InvImpliesKept, PTL DEF Spec
=============================================================================
