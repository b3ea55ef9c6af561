----------------------------- MODULE MCCollect -----------------------------
(***************************************************************************)
(* Collect for four bodies of two visitors and three clients.              *)
(***************************************************************************)
EXTENDS Collect, TLC

NoProps == [k \in {} |-> ""]

(* An event with a full bag that names a generated property itself; one    *)
(* that leaves its time to the server; one too far ahead at first, with a  *)
(* session of its own; a malformed one.                                    *)
TimedBody ==
  [id |-> "e1", visitor |-> "v1", session |-> "", visit |-> "", time |-> 1,
   props |-> "client.browser" :> "own" @@ "plan" :> "pro", wellFormed |-> TRUE]
UntimedBody ==
  [id |-> "e2", visitor |-> "v2", session |-> "", visit |-> "", time |-> NoTime,
   props |-> NoProps, wellFormed |-> TRUE]
AheadBody ==
  [id |-> "e3", visitor |-> "v1", session |-> "sdk", visit |-> "", time |-> 3,
   props |-> "client.browser" :> "own", wellFormed |-> TRUE]
BadBody == [UntimedBody EXCEPT !.id = "e4", !.wellFormed = FALSE]

(* A phone at home, a crawler, and an Edge browser inside the office.      *)
Agent(tokens, ip) == [agent |-> tokens, ip |-> ip, referrer |-> ""]
Phone    == Agent({"mozilla/", "iphone", "mac os x", "mobi", "safari/"}, "home")
Crawler  == Agent({"mozilla/", "bot"}, "home")
Intranet == Agent({"mozilla/", "windows nt", "edg/", "chrome/", "safari/"}, "office")

Bodies  == {TimedBody, UntimedBody, AheadBody, BadBody}
Clients == {Phone, Crawler, Intranet}

Place(country) == [country |-> country, region |-> "", city |-> ""]
Locations == NoIP :> Place("") @@ "home" :> Place("NZ") @@ "office" :> Place("NZ")

(* The filter first, or after the stages whose work it throws away.        *)
FilteringOrders == {<<"filter", "session", "visit", "enrich">>,
                    <<"enrich", "visit", "filter", "session">>}

Symmetry == Permutations(Publisher) \cup Permutations(Subscriber)
=============================================================================
