------------------------- MODULE SharedTransport_proofs -------------------------
(* Proofs about the jam and the shared transport (SharedTransport): in every  *)
(* session, of any number of tabs and whatever is lost on the way, a tab has  *)
(* no connection it does not hold, what is live is not torn down by a signal, *)
(* and a listener's engine is not started for it. The argument is about the   *)
(* offers under way: they rise along a queue (a tab numbers its connections   *)
(* as it makes them), every one is later than the offer its hearer answered,  *)
(* and none is later than the connection the sender holds for the hearer. An  *)
(* offer to a tab whose connection lives would have to be both.               *)
(*                                                                           *)
(* And with clocks estimated exactly and users who act on what they see, every *)
(* engine that heard the newest anchor does what it says. The argument is about*)
(* the anchors that come to a tab: they are of the one other page, in the order*)
(* of their times, and the last of them, if the tab is going to take it, says  *)
(* what the newest says (Agreed); what is said at the same time as the newest  *)
(* loses the tie on both sides (Own).                                          *)
EXTENDS SharedTransport, SequenceTheorems, TLAPS

-----------------------------------------------------------------------------
(* Messages and queues of them                                              *)

\* Where a performance is, as of a time.
Position == [kind : {"anchor", "rejoin"}, playing : BOOLEAN, at : Int, from : Tab]
Message ==
  [kind : {"join", "bye", "where"}] \cup [kind : {"offer", "answer"}, sdp : Nat]
    \cup Position

\* The offers of a queue, and that each is of a later connection than those before.
IsOffer(m) == m.kind = "offer"
Offers(q) == {q[i].sdp : i \in {j \in DOMAIN q : IsOffer(q[j])}}
Rising(q) ==
  \A i, j \in DOMAIN q : i < j /\ IsOffer(q[i]) /\ IsOffer(q[j]) => q[i].sdp < q[j].sdp

\* r is q without offers that were in it, perhaps with other messages.
Quieter(r, q) ==
  r \in Seq(Message) /\ Offers(r) \subseteq Offers(q) /\ (Rising(q) => Rising(r))

Words == {w \in Seq(Message) : \A i \in DOMAIN w : ~IsOffer(w[i])}

\* Being quieter than a queue, composed, kept and reached by losing it.
LEMMA QuieterIsTransitive ==
  ASSUME NEW q, NEW r, NEW s, Quieter(r, q), Quieter(s, r) PROVE Quieter(s, q)
  BY DEF Quieter

\* A queue left alone.
LEMMA SameIsQuieter == ASSUME NEW q \in Seq(Message) PROVE Quieter(q, q)
  BY DEF Quieter

\* A queue lost.
LEMMA EmptyIsQuieter == ASSUME NEW q PROVE Quieter(<<>>, q)
  BY DEF Quieter, Offers, Rising

\* Hearing a message.
LEMMA TailIsQuieter ==
  ASSUME NEW q \in Seq(Message), q # <<>>
  PROVE  /\ Head(q) \in Message /\ Quieter(Tail(q), q)
         /\ IsOffer(Head(q)) =>
              /\ Head(q).sdp \in Offers(q)
              /\ Rising(q) => \A o \in Offers(Tail(q)) : Head(q).sdp < o
<1>1. /\ Tail(q) \in Seq(Message) /\ Len(q) \in Nat /\ Len(Tail(q)) = Len(q) - 1
      /\ DOMAIN q = 1 .. Len(q) /\ DOMAIN Tail(q) = 1 .. Len(q) - 1
      /\ 1 \in DOMAIN q /\ Head(q) = q[1] /\ Head(q) \in Message
  BY HeadTailProperties
<1>2. \A i \in DOMAIN Tail(q) : Tail(q)[i] = q[i + 1] /\ i + 1 \in DOMAIN q /\ 1 < i + 1
  BY <1>1, HeadTailProperties
<1>3. Offers(Tail(q)) \subseteq Offers(q)
  BY <1>2 DEF Offers
<1>4. Rising(q) => Rising(Tail(q))
  <2>1. \A i, j \in DOMAIN Tail(q) : i < j => i + 1 < j + 1
    BY <1>1
  <2> QED BY <1>2, <2>1 DEF Rising
<1>5. IsOffer(Head(q)) => Head(q).sdp \in Offers(q)
  BY <1>1 DEF Offers
<1>6. IsOffer(Head(q)) /\ Rising(q) => \A o \in Offers(Tail(q)) : Head(q).sdp < o
  BY <1>1, <1>2 DEF Offers, Rising
<1> QED BY <1>1, <1>3, <1>4, <1>5, <1>6 DEF Quieter

\* Saying something that is no offer.
LEMMA WordsAreQuiet ==
  ASSUME NEW q \in Seq(Message), NEW w \in Words PROVE Quieter(q \o w, q)
<1>1. /\ q \o w \in Seq(Message) /\ Len(q) \in Nat /\ Len(w) \in Nat
      /\ DOMAIN q = 1 .. Len(q) /\ DOMAIN w = 1 .. Len(w)
      /\ DOMAIN (q \o w) = 1 .. Len(q) + Len(w)
  BY ConcatProperties DEF Words
<1>2. \A i \in DOMAIN (q \o w) : IsOffer((q \o w)[i]) => i \in DOMAIN q /\ (q \o w)[i] = q[i]
  <2> SUFFICES ASSUME NEW i \in DOMAIN (q \o w), IsOffer((q \o w)[i])
        PROVE i \in DOMAIN q /\ (q \o w)[i] = q[i]
    OBVIOUS
  <2>1. CASE i <= Len(q)
    BY <1>1, <2>1, ConcatProperties
  <2>2. CASE i > Len(q)
    <3>1. i - Len(q) \in DOMAIN w /\ (q \o w)[i] = w[i - Len(q)]
      BY <1>1, <2>2, ConcatProperties
    <3> QED BY <3>1 DEF Words
  <2> QED BY <1>1, <2>1, <2>2
<1>3. Offers(q \o w) \subseteq Offers(q)
  BY <1>2 DEF Offers
<1>4. Rising(q) => Rising(q \o w)
  BY <1>2 DEF Rising
<1> QED BY <1>1, <1>3, <1>4 DEF Quieter

\* Making an offer.
LEMMA OfferIsLast ==
  ASSUME NEW q \in Seq(Message), NEW n \in Nat, \A o \in Offers(q) : o < n, Rising(q)
  PROVE  /\ q \o <<Offer(n)>> \in Seq(Message)
         /\ Offers(q \o <<Offer(n)>>) \subseteq Offers(q) \cup {n}
         /\ Rising(q \o <<Offer(n)>>)
<1> DEFINE r == q \o <<Offer(n)>>
<1>1. Offer(n) \in Message /\ Offer(n).sdp = n
  BY DEF Offer, Message
<1>2. /\ <<Offer(n)>> \in Seq(Message) /\ Len(<<Offer(n)>>) = 1 /\ <<Offer(n)>>[1] = Offer(n)
      /\ Len(q) \in Nat /\ DOMAIN q = 1 .. Len(q)
  BY <1>1
<1>3. /\ r \in Seq(Message) /\ DOMAIN r = 1 .. Len(q) + 1
      /\ r[Len(q) + 1] = Offer(n) /\ \A i \in 1 .. Len(q) : r[i] = q[i]
  BY <1>2, ConcatProperties
<1> HIDE DEF r
<1>4. \A i \in DOMAIN r : i \in DOMAIN q \/ i = Len(q) + 1
  BY <1>2, <1>3
<1>5. Offers(r) \subseteq Offers(q) \cup {n}
  BY <1>1, <1>2, <1>3, <1>4 DEF Offers
<1>6. Rising(r)
  <2> SUFFICES ASSUME NEW i \in DOMAIN r, NEW j \in DOMAIN r, i < j, IsOffer(r[i]), IsOffer(r[j])
        PROVE r[i].sdp < r[j].sdp
    BY DEF Rising
  <2>1. i \in DOMAIN q /\ r[i] = q[i]
    BY <1>2, <1>3, <1>4
  <2>2. CASE j \in DOMAIN q
    BY <1>2, <1>3, <2>1, <2>2 DEF Rising
  <2>3. CASE j = Len(q) + 1
    BY <1>1, <1>3, <2>1, <2>3 DEF Offers
  <2> QED BY <1>4, <2>2, <2>3
<1> QED BY <1>3, <1>5, <1>6 DEF r

\* One message that is no offer.
LEMMA WordIsWords == ASSUME NEW m \in Message, ~IsOffer(m) PROVE <<m>> \in Words
  BY DEF Words

\* What is said before the JOIN, and the JOIN (Reload).
LEMMA WordsTogether == ASSUME NEW v \in Words, NEW w \in Words PROVE v \o w \in Words
<1>1. v \o w \in Seq(Message) /\ Len(v) \in Nat /\ Len(w) \in Nat
      /\ DOMAIN v = 1 .. Len(v) /\ DOMAIN w = 1 .. Len(w)
      /\ DOMAIN (v \o w) = 1 .. Len(v) + Len(w)
  BY ConcatProperties DEF Words
<1>2. \A i \in DOMAIN (v \o w) : ~IsOffer((v \o w)[i])
  <2> SUFFICES ASSUME NEW i \in DOMAIN (v \o w) PROVE ~IsOffer((v \o w)[i])
    OBVIOUS
  <2>1. CASE i <= Len(v)
    BY <1>1, <2>1, ConcatProperties DEF Words
  <2>2. CASE i > Len(v)
    <3>1. i - Len(v) \in DOMAIN w /\ (v \o w)[i] = w[i - Len(v)]
      BY <1>1, <2>2, ConcatProperties DEF Words
    <3> QED BY <3>1 DEF Words
  <2> QED BY <1>1, <2>1, <2>2
<1> QED BY <1>1, <1>2 DEF Words

\* What tabs say besides offers.
LEMMA OrdinaryWords ==
  /\ <<>> \in Words /\ <<Join>> \in Words /\ <<Bye>> \in Words /\ <<Where>> \in Words
  /\ <<Bye, Join>> \in Words
  /\ \A n \in Nat : <<Answer(n)>> \in Words
  /\ \A a \in Position : <<a>> \in Words
<1>1. Join \in Message /\ Bye \in Message /\ Where \in Message
      /\ ~IsOffer(Join) /\ ~IsOffer(Bye) /\ ~IsOffer(Where)
  BY DEF Join, Bye, Where, Message, IsOffer
<1>2. \A n \in Nat : Answer(n) \in Message /\ ~IsOffer(Answer(n))
  BY DEF Answer, Message, IsOffer
<1>3. \A a \in Position : a \in Message /\ ~IsOffer(a)
  BY DEF Position, Message, IsOffer
<1>4. <<>> \in Words
  BY DEF Words
<1>5. <<Bye, Join>> \in Words
  <2>1. <<Bye, Join>> \in Seq(Message)
    BY <1>1
  <2>2. \A i \in DOMAIN <<Bye, Join>> : ~IsOffer(<<Bye, Join>>[i])
    BY <1>1
  <2> QED BY <2>1, <2>2 DEF Words
<1> QED BY <1>1, <1>2, <1>3, <1>4, <1>5, WordIsWords

-----------------------------------------------------------------------------
(* The relay                                                                *)

Relay == [Tab -> [Tab -> Seq(Message)]]
AllQuieter(r, q) == r \in Relay /\ \A v, w \in Tab : Quieter(r[v][w], q[v][w])

\* A queue is emptied and then spoken into (Reconnect, Reload).
LEMMA AllQuieterIsTransitive ==
  ASSUME NEW q, NEW r, NEW s, AllQuieter(r, q), AllQuieter(s, r) PROVE AllQuieter(s, q)
  BY QuieterIsTransitive DEF AllQuieter

\* The relay left alone.
LEMMA SameRelayIsQuieter == ASSUME NEW q \in Relay PROVE AllQuieter(q, q)
  BY SameIsQuieter DEF AllQuieter, Relay

\* sendSignal with anything but an offer.
LEMMA SayingIsQuiet ==
  ASSUME NEW q \in Relay, NEW t \in Tab, NEW us, NEW w \in Words
  PROVE  AllQuieter(SentTo(q, t, us, w), q)
<1> DEFINE r == SentTo(q, t, us, w)
<1>1. \A u, v \in Tab : q[u][v] \in Seq(Message)
  BY DEF Relay
<1>2. \A v \in Tab : Quieter(q[t][v] \o w, q[t][v]) /\ q[t][v] \o w \in Seq(Message)
  BY <1>1, WordsAreQuiet DEF Quieter
<1>3. r = [q EXCEPT ![t] = [u \in Tab |-> IF u \in us \ {t} THEN q[t][u] \o w ELSE q[t][u]]]
  BY DEF SentTo, Relay
<1>4. r \in Relay
  BY <1>1, <1>2, <1>3 DEF Relay
<1>5. \A v, u \in Tab : r[v][u] = q[v][u] \/ (v = t /\ r[v][u] = q[t][u] \o w)
  BY <1>3 DEF Relay
<1> HIDE DEF r
<1>6. \A v, u \in Tab : Quieter(r[v][u], q[v][u])
  BY <1>1, <1>2, <1>5, SameIsQuieter
<1> QED BY <1>4, <1>6 DEF AllQuieter, r

\* A message is taken from the relay.
LEMMA HearingIsQuieter ==
  ASSUME NEW q \in Relay, NEW t \in Tab, NEW u \in Tab, q[u][t] # <<>>
  PROVE  AllQuieter([q EXCEPT ![u][t] = Tail(@)], q)
<1> DEFINE r == [q EXCEPT ![u][t] = Tail(@)]
<1>1. \A v, w \in Tab : q[v][w] \in Seq(Message)
  BY DEF Relay
<1>2. Quieter(Tail(q[u][t]), q[u][t]) /\ Tail(q[u][t]) \in Seq(Message)
  BY <1>1, TailIsQuieter DEF Quieter
<1>3. r = [q EXCEPT ![u] = [q[u] EXCEPT ![t] = Tail(q[u][t])]]
  BY DEF Relay
<1>4. [q[u] EXCEPT ![t] = Tail(q[u][t])] \in [Tab -> Seq(Message)]
  BY <1>2 DEF Relay
<1>5. r \in Relay
  BY <1>3, <1>4 DEF Relay
<1>6. \A v, w \in Tab : r[v][w] = q[v][w] \/ (v = u /\ w = t /\ r[v][w] = Tail(q[u][t]))
  BY <1>3 DEF Relay
<1> HIDE DEF r
<1>7. \A v, w \in Tab : Quieter(r[v][w], q[v][w])
  BY SMTT(20), <1>1, <1>2, <1>6, SameIsQuieter
<1> QED BY <1>5, <1>7 DEF AllQuieter, r

\* All that is under way to a tab is lost.
LEMMA MissingIsQuieter ==
  ASSUME NEW q \in Relay, NEW t \in Tab
  PROVE  AllQuieter([v \in Tab |-> [q[v] EXCEPT ![t] = <<>>]], q)
<1> DEFINE r == [v \in Tab |-> [q[v] EXCEPT ![t] = <<>>]]
<1>1. \A v, w \in Tab : q[v][w] \in Seq(Message)
  BY DEF Relay
<1>2. \A v \in Tab : r[v] \in [Tab -> Seq(Message)]
  BY EmptyIsQuieter DEF Relay, Quieter
<1>3. r \in Relay
  BY <1>2 DEF Relay
<1>4. \A v, w \in Tab : r[v][w] = q[v][w] \/ r[v][w] = <<>>
  BY DEF Relay
<1> HIDE DEF r
<1>5. \A v, w \in Tab : Quieter(r[v][w], q[v][w])
  BY <1>1, <1>4, SameIsQuieter, EmptyIsQuieter
<1> QED BY <1>3, <1>5 DEF AllQuieter, r

-----------------------------------------------------------------------------
(* The inductive invariant                                                  *)

Connection ==
  [n : Nat, st : {"none", "making", "offered", "answering", "stable"}, other : Nat,
   conn : {"new", "connected", "disconnected", "failed"}]

JamTypeOK ==
  /\ open \subseteq Tab
  /\ url \in [Tab -> [jam : Roles, sync : BOOLEAN]]
  /\ role \in [Tab -> Roles] /\ starting \in [Tab -> Nat]
  /\ peers \in [Tab -> [Tab -> Connection]]
  /\ opened \in [Tab -> SUBSET Nat] /\ made \in [Tab -> Nat]
  /\ relay \in Relay

TransportTypeOK ==
  /\ armed \in [Tab -> BOOLEAN] /\ link \in [Tab -> BOOLEAN] /\ playing \in [Tab -> BOOLEAN]
  /\ last \in [Tab -> Position \cup {NoAnchor}] /\ pending \in [Tab -> Position \cup {NoAnchor}]
  /\ clock \in [Tab -> [Tab -> SUBSET Error]] /\ mishaps \in Nat
  /\ now \in Nat /\ newest \in Position \cup {NoAnchor} /\ audience \subseteq Tab

\* A page that is not open does nothing; who is out of the jam holds nothing.
Out ==
  /\ \A t \in Tab \ open : role[t] = "idle" /\ starting[t] = 0
  /\ \A t \in Tab : role[t] = "idle" => peers[t] = NoPeers

\* A listener makes no offers, and its connections were offered to it.
Listeners ==
  \A t, u \in Tab : Listening(t) /\ Has(t, u) => peers[t][u].st \in {"answering", "stable"}

\* A connection has a number of its own.
Numbered ==
  \A t, u \in Tab : Has(t, u) =>
    /\ peers[t][u].n <= made[t]
    /\ \A v \in Tab : peers[t][v].n = peers[t][u].n => v = u

\* The connection of u whose offer t answered, as a listener.
Answered(t, u) == IF Listening(t) /\ Has(t, u) THEN {peers[t][u].other} ELSE {}

\* A tab hears the offers of another in the order of their connections, and
\* none of a later connection than the one c that the other holds for it.
HeardInTurn(queue, answered, count, c) ==
  /\ Rising(queue)
  /\ \A n \in answered : \A o \in Offers(queue) : n < o
  /\ \A n \in Offers(queue) \cup answered :
       /\ n \in 1 .. count
       /\ c.n # None => n <= c.n
       /\ c.n # None /\ c.st = "making" => n < c.n
InTurn ==
  \A t, u \in Tab : HeardInTurn(relay[u][t], Answered(t, u), made[u], peers[u][t])

\* A tab's open connections are those it holds.
Held ==
  \A t \in Tab :
    /\ \A u \in Tab : Has(t, u) => peers[t][u].n \in opened[t]
    /\ \A n \in opened[t] : \E u \in Tab : Has(t, u) /\ peers[t][u].n = n

JamInv == JamTypeOK /\ Out /\ Listeners /\ Numbered /\ InTurn /\ Held

IInv == JamInv /\ TransportTypeOK

USE JamAssumption, TransportAssumption

\* Less is to be heard, and the other holds the same connection, a newer one or
\* none.
LEMMA LaterInTurn ==
  ASSUME NEW q, NEW r, NEW answered, NEW since, NEW count \in Nat, NEW more \in Nat, NEW c, NEW d,
         HeardInTurn(q, answered, count, c), Quieter(r, q),
         since \subseteq answered \cup Offers(q), \A n \in since : \A o \in Offers(r) : n < o,
         count <= more, d.n \in Nat,
         \/ d.n = c.n /\ (d.st = "making" => c.st = "making")
         \/ d.n = None
         \/ d.n > count
  PROVE  HeardInTurn(r, since, more, d)
<1> USE DEF HeardInTurn, Quieter
<1>1. \A n \in Offers(r) \cup since : n \in 1 .. count /\ n \in 1 .. more
  OBVIOUS
<1>2. Rising(r) /\ \A n \in since : \A o \in Offers(r) : n < o
  OBVIOUS
<1>3. CASE d.n = c.n /\ (d.st = "making" => c.st = "making")
  BY <1>1, <1>2, <1>3
<1>4. CASE d.n = None
  BY <1>1, <1>2, <1>4
<1>5. CASE d.n > count
  BY <1>1, <1>2, <1>5
<1> QED BY <1>3, <1>4, <1>5

\* What a connection may become without a new one being made: the description is
\* there, the browser connects, finds out or gives up.
Advances(t, u) ==
  LET c == peers[t][u] d == peers'[t][u] IN
  /\ d \in Connection /\ d.n = c.n
  /\ d.st # c.st => d.st \in {"offered", "stable"}
  /\ Listening(t) => d.other = c.other /\ (d.st # c.st => d.st = "stable")

\* Without new connections all but the order of offers is kept.
LEMMA AdvancingHolds ==
  ASSUME JamInv, relay' \in Relay, peers' \in [Tab -> [Tab -> Connection]],
         UNCHANGED <<open, url, role, starting, opened, made>>,
         peers' = peers \/ \A t, u \in Tab : Advances(t, u) /\ (~Has(t, u) => peers'[t][u] = peers[t][u])
  PROVE  /\ (JamTypeOK /\ Out /\ Listeners /\ Numbered /\ Held)'
         /\ \A t, u \in Tab : Answered(t, u)' = Answered(t, u)
<1> USE DEF JamInv
<1>1. \A t, u \in Tab :
        /\ peers'[t][u] \in Connection /\ peers'[t][u].n = peers[t][u].n
        /\ peers'[t][u].st # peers[t][u].st => peers'[t][u].st \in {"offered", "stable"}
        /\ Listening(t) => /\ peers'[t][u].other = peers[t][u].other
                           /\ peers'[t][u].st # peers[t][u].st => peers'[t][u].st = "stable"
        /\ ~Has(t, u) => peers'[t][u] = peers[t][u]
  BY DEF Advances, JamTypeOK
<1>2. JamTypeOK'
  BY DEF JamTypeOK
<1>3. \A t, u \in Tab : Has(t, u)' <=> Has(t, u)
  BY <1>1 DEF Has
<1>4. Out'
  <2>1. \A t \in Tab : (\A u \in Tab : ~Has(t, u)) => peers'[t] = peers[t]
    BY <1>1 DEF JamTypeOK
  <2>2. \A t, u \in Tab : peers[t] = NoPeers => ~Has(t, u)
    BY DEF Has, NoPeers, NoPc, Pc
  <2>3. \A t \in Tab : peers[t] = NoPeers => peers'[t] = NoPeers
    BY <2>1, <2>2
  <2> QED BY <2>3 DEF Out, NoPeers, NoPc, Pc, None
<1>5. Listeners'
  BY <1>1, <1>3 DEF Listeners, Listening
<1>6. Numbered'
  BY <1>1, <1>3 DEF Numbered
<1>7. Held'
  <2>1. \A t, u \in Tab : peers'[t][u].n = peers[t][u].n
    BY <1>1
  <2> SUFFICES ASSUME NEW t \in Tab
        PROVE /\ \A u \in Tab : Has(t, u)' => peers'[t][u].n \in opened[t]
              /\ \A n \in opened[t] : \E u \in Tab : Has(t, u)' /\ peers'[t][u].n = n
    BY DEF Held
  <2>2. \A u \in Tab : Has(t, u)' => peers'[t][u].n \in opened[t]
    BY <1>3, <2>1 DEF Held
  <2>3. ASSUME NEW n \in opened[t]
        PROVE \E u \in Tab : Has(t, u)' /\ peers'[t][u].n = n
    <3>1. PICK u \in Tab : Has(t, u) /\ peers[t][u].n = n
      BY DEF Held
    <3> QED BY <1>3, <2>1, <3>1
  <2> QED BY <2>2, <2>3
<1>8. \A t, u \in Tab : Answered(t, u)' = Answered(t, u)
  BY <1>1, <1>3 DEF Answered, Listening
<1> QED BY <1>2, <1>4, <1>5, <1>6, <1>7, <1>8

\* And the order of offers too, when none is made.
LEMMA AdvancingPreserves ==
  ASSUME JamInv, AllQuieter(relay', relay), peers' \in [Tab -> [Tab -> Connection]],
         UNCHANGED <<open, url, role, starting, opened, made>>,
         peers' = peers \/ \A t, u \in Tab : Advances(t, u) /\ (~Has(t, u) => peers'[t][u] = peers[t][u])
  PROVE  JamInv'
<1> USE DEF JamInv
<1>1. \A t, u \in Tab :
        /\ peers'[t][u] \in Connection /\ peers'[t][u].n = peers[t][u].n
        /\ peers'[t][u].st # peers[t][u].st => peers'[t][u].st \in {"offered", "stable"}
        /\ Listening(t) => /\ peers'[t][u].other = peers[t][u].other
                           /\ peers'[t][u].st # peers[t][u].st => peers'[t][u].st = "stable"
        /\ ~Has(t, u) => peers'[t][u] = peers[t][u]
  BY DEF Advances, JamTypeOK
<1>2. relay' \in Relay
  BY DEF AllQuieter
<1>3. (JamTypeOK /\ Out /\ Listeners /\ Numbered /\ Held)'
      /\ \A t, u \in Tab : Answered(t, u)' = Answered(t, u)
  BY <1>2, AdvancingHolds
<1>4. InTurn'
  <2> SUFFICES ASSUME NEW t \in Tab, NEW u \in Tab
        PROVE HeardInTurn(relay[u][t], Answered(t, u), made[u], peers[u][t])'
    BY DEF InTurn
  <2>1. HeardInTurn(relay[u][t], Answered(t, u), made[u], peers[u][t])
    BY DEF InTurn
  <2>2. Quieter(relay'[u][t], relay[u][t])
    BY DEF AllQuieter
  <2>3. HeardInTurn(relay'[u][t], Answered(t, u), made[u], peers'[u][t])
    <3>1. /\ peers'[u][t].n = peers[u][t].n /\ peers[u][t].n \in Nat /\ made[u] \in Nat
          /\ peers'[u][t].st = "making" => peers[u][t].st = "making"
      BY <1>1 DEF JamTypeOK, Connection
    <3>2. \A n \in Answered(t, u) : \A o \in Offers(relay'[u][t]) : n < o
      BY <2>1, <2>2 DEF HeardInTurn, Quieter
    <3> QED BY <3>1, <3>2, <2>1, <2>2, LaterInTurn
  <2> QED BY <2>3, <1>3 DEF HeardInTurn, Rising, Offers, IsOffer
<1> QED BY <1>3, <1>4

\* Tabs that leave the jam let go of all they hold; others may join it.
LEMMA LeavingPreserves ==
  ASSUME JamInv, AllQuieter(relay', relay), made' = made,
         open' \subseteq Tab, url' \in [Tab -> [jam : Roles, sync : BOOLEAN]],
         role' \in [Tab -> Roles], starting' \in [Tab -> Nat],
         peers' \in [Tab -> [Tab -> Connection]], opened' \in [Tab -> SUBSET Nat],
         \A t \in Tab \ open' : role'[t] = "idle" /\ starting'[t] = 0,
         \A t \in Tab : \/ peers'[t] = NoPeers /\ opened'[t] = {}
                        \/ peers'[t] = peers[t] /\ opened'[t] = opened[t] /\ role'[t] = role[t]
  PROVE  JamInv'
<1> USE DEF JamInv
<1>1. JamTypeOK'
  BY DEF JamTypeOK, AllQuieter
<1>2. \A t, u \in Tab :
        \/ peers'[t][u] = NoPc /\ ~Has(t, u)' /\ opened'[t] = {} /\ peers'[t] = NoPeers
        \/ /\ peers'[t][u] = peers[t][u] /\ (Has(t, u)' <=> Has(t, u))
           /\ peers'[t] = peers[t] /\ opened'[t] = opened[t] /\ role'[t] = role[t]
  BY DEF NoPeers, NoPc, Pc, Has
<1>3. Out'
  BY <1>2 DEF Out, NoPeers, NoPc, Pc, None
<1>4. Listeners'
  BY <1>2 DEF Listeners, Listening
<1>5. Numbered'
  <2> SUFFICES ASSUME NEW t \in Tab, NEW u \in Tab, Has(t, u)'
        PROVE /\ peers'[t][u].n <= made[t]
              /\ \A v \in Tab : peers'[t][v].n = peers'[t][u].n => v = u
    BY DEF Numbered
  <2>1. peers'[t] = peers[t] /\ Has(t, u)
    BY <1>2
  <2> QED BY <2>1 DEF Numbered
<1>6. Held'
  <2> SUFFICES ASSUME NEW t \in Tab
        PROVE /\ \A u \in Tab : Has(t, u)' => peers'[t][u].n \in opened'[t]
              /\ \A n \in opened'[t] : \E u \in Tab : Has(t, u)' /\ peers'[t][u].n = n
    BY DEF Held
  <2>1. CASE peers'[t] = NoPeers /\ opened'[t] = {}
    BY <2>1 DEF Has, NoPeers, NoPc, Pc
  <2>2. CASE peers'[t] = peers[t] /\ opened'[t] = opened[t]
    BY <2>2 DEF Held, Has
  <2> QED BY <2>1, <2>2
<1>7. InTurn'
  <2> SUFFICES ASSUME NEW t \in Tab, NEW u \in Tab
        PROVE HeardInTurn(relay[u][t], Answered(t, u), made[u], peers[u][t])'
    BY DEF InTurn
  <2>1. HeardInTurn(relay[u][t], Answered(t, u), made[u], peers[u][t])
    BY DEF InTurn
  <2>2. Quieter(relay'[u][t], relay[u][t])
    BY DEF AllQuieter
  <2>3. Answered(t, u)' \subseteq Answered(t, u)
    BY <1>2 DEF Answered, Listening
  <2>4. \A n \in Answered(t, u)' : \A o \in Offers(relay'[u][t]) : n < o
    BY <2>1, <2>2, <2>3 DEF HeardInTurn, Quieter
  <2>5. peers'[u][t] = peers[u][t] \/ peers'[u][t].n = None
    BY <1>2 DEF NoPc, Pc
  <2>6. made[u] \in Nat /\ peers'[u][t].n \in Nat
    BY DEF JamTypeOK, Connection
  <2>7. HeardInTurn(relay'[u][t], Answered(t, u)', made[u], peers'[u][t])
    <3>1. Answered(t, u)' \subseteq Answered(t, u) \cup Offers(relay[u][t]) /\ made[u] <= made[u]
      BY <2>3, <2>6
    <3>2. \/ peers'[u][t].n = peers[u][t].n
             /\ (peers'[u][t].st = "making" => peers[u][t].st = "making")
          \/ peers'[u][t].n = None
      BY <2>5
    <3> QED BY <3>1, <3>2, <2>1, <2>2, <2>4, <2>6, LaterInTurn
  <2> QED BY <2>7 DEF HeardInTurn, Rising, Offers, IsOffer
<1> QED BY <1>1, <1>3, <1>4, <1>5, <1>6, <1>7

\* A bye, or a new connection, which takes the place of the one that is held.
LEMMA ReplacingPreserves ==
  ASSUME JamInv, AllQuieter(relay', relay), UNCHANGED <<open, url, role, starting>>,
         NEW t \in Tab, NEW u \in Tab, NEW d \in Connection,
         peers' = [peers EXCEPT ![t][u] = d],
         \/ /\ d = NoPc /\ made' = made /\ opened' = [opened EXCEPT ![t] = NotReplaced(t, u)]
         \/ /\ d.n = made[t] + 1 /\ made' = [made EXCEPT ![t] = @ + 1]
            /\ opened' = [opened EXCEPT ![t] = NotReplaced(t, u) \cup {d.n}]
            /\ role[t] # "idle"
            /\ Listening(t) => /\ d.st = "answering" /\ d.other \in Offers(relay[u][t])
                               /\ \A o \in Offers(relay'[u][t]) : d.other < o
  PROVE  JamInv'
<1> USE DEF JamInv
<1>1. /\ made \in [Tab -> Nat] /\ made' \in [Tab -> Nat]
      /\ \A v \in Tab : made[v] <= made'[v]
      /\ d.n \in Nat /\ (d.n = None \/ d.n = made[t] + 1)
  <2>1. made \in [Tab -> Nat] /\ d.n \in Nat
    BY DEF JamTypeOK, Connection
  <2>2. made' = made \/ made' = [made EXCEPT ![t] = made[t] + 1]
    OBVIOUS
  <2>3. made' \in [Tab -> Nat] /\ \A v \in Tab : made[v] <= made'[v]
    BY <2>1, <2>2
  <2> QED BY <2>1, <2>3 DEF NoPc, Pc
<1>2. JamTypeOK'
  <2>1. [peers[t] EXCEPT ![u] = d] \in [Tab -> Connection]
    BY DEF JamTypeOK
  <2>2. peers' \in [Tab -> [Tab -> Connection]]
    BY <2>1 DEF JamTypeOK
  <2>3. NotReplaced(t, u) \in SUBSET Nat
    BY DEF JamTypeOK, NotReplaced
  <2>4. opened' \in [Tab -> SUBSET Nat]
    <3>1. opened' = [opened EXCEPT ![t] = NotReplaced(t, u)]
          \/ opened' = [opened EXCEPT ![t] = NotReplaced(t, u) \cup {d.n}]
      OBVIOUS
    <3>2. NotReplaced(t, u) \cup {d.n} \in SUBSET Nat
      BY <1>1, <2>3
    <3> QED BY <2>3, <3>1, <3>2 DEF JamTypeOK
  <2> QED BY <1>1, <2>2, <2>4 DEF JamTypeOK, AllQuieter
<1>3. \A v, w \in Tab : peers'[v][w] = IF v = t /\ w = u THEN d ELSE peers[v][w]
  BY DEF JamTypeOK
<1>4. \A v \in Tab : v # t => peers'[v] = peers[v] /\ opened'[v] = opened[v]
  BY DEF JamTypeOK
<1>5. \A v, w \in Tab : (v # t \/ w # u) => (Has(v, w)' <=> Has(v, w))
  BY <1>3 DEF Has
<1>6. \A v \in Tab : Has(t, v) => peers[t][v].n <= made[t] /\ peers[t][v].n \in Nat
  BY DEF Numbered, JamTypeOK, Connection
<1>7. Out'
  <2>1. role[t] = "idle" => peers'[t] = NoPeers
    <3>1. role[t] = "idle" => d = NoPc /\ peers[t] = NoPeers
      BY DEF Out
    <3>2. role[t] = "idle" => [peers[t] EXCEPT ![u] = d] = peers[t]
      BY <3>1 DEF NoPeers
    <3> QED BY <3>1, <3>2 DEF JamTypeOK
  <2> QED BY <1>4, <2>1 DEF Out, NoPeers, NoPc, Pc, None
<1>8. Listeners'
  <2> SUFFICES ASSUME NEW v \in Tab, NEW w \in Tab, Listening(v), Has(v, w)'
        PROVE peers'[v][w].st \in {"answering", "stable"}
    BY DEF Listeners, Listening
  <2>1. CASE v = t /\ w = u
    BY <1>3, <2>1 DEF Has, NoPc, Pc
  <2>2. CASE v # t \/ w # u
    BY <1>3, <1>5, <2>2 DEF Listeners
  <2> QED BY <2>1, <2>2
<1>9. Numbered'
  <2> SUFFICES ASSUME NEW v \in Tab, NEW w \in Tab, Has(v, w)'
        PROVE /\ peers'[v][w].n <= made'[v]
              /\ \A x \in Tab : peers'[v][x].n = peers'[v][w].n => x = w
    BY DEF Numbered
  <2>1. CASE v # t
    BY <1>1, <1>3, <1>5, <2>1 DEF Numbered
  <2>2. CASE v = t /\ w = u
    <3>1. d.n = made[t] + 1 /\ made'[t] = made[t] + 1 /\ peers'[v][w] = d
      BY <1>1, <1>3, <2>2 DEF Has, NoPc, Pc
    <3>2. \A x \in Tab : x # u => peers'[t][x].n = peers[t][x].n /\ peers[t][x].n # made[t] + 1
      BY <1>1, <1>3, <1>6 DEF Has, None
    <3> QED BY <1>1, <2>2, <3>1, <3>2
  <2>3. CASE v = t /\ w # u
    <3>1. Has(t, w) /\ peers'[t][w] = peers[t][w] /\ peers[t][w].n <= made[t]
          /\ peers[t][w].n \in Nat /\ peers[t][w].n # None
      BY <1>3, <1>5, <1>6, <2>3 DEF Has
    <3>2. d.n # peers[t][w].n
      BY <1>1, <3>1
    <3>3. \A x \in Tab : x # u => peers'[t][x].n = peers[t][x].n
      BY <1>3
    <3>4. peers'[t][u].n = d.n
      BY <1>3
    <3> QED BY <1>1, <2>3, <3>1, <3>2, <3>3, <3>4 DEF Numbered
  <2> QED BY <2>1, <2>2, <2>3
<1>10. Held'
  <2> SUFFICES ASSUME NEW v \in Tab
        PROVE /\ \A w \in Tab : Has(v, w)' => peers'[v][w].n \in opened'[v]
              /\ \A n \in opened'[v] : \E w \in Tab : Has(v, w)' /\ peers'[v][w].n = n
    BY DEF Held
  <2>1. CASE v # t
    BY <1>3, <1>4, <1>5, <2>1 DEF Held
  <2>2. CASE v = t
    <3>1. opened'[t] = NotReplaced(t, u) \cup (IF d.n = None THEN {} ELSE {d.n})
      BY <1>1 DEF JamTypeOK, NoPc, Pc, None
    <3>2. \A w \in Tab : w # u /\ Has(t, w) => peers[t][w].n \in NotReplaced(t, u)
      BY DEF Held, NotReplaced, Numbered
    <3>3. ASSUME NEW n \in NotReplaced(t, u)
          PROVE \E w \in Tab : w # u /\ Has(t, w) /\ peers[t][w].n = n
      BY DEF Held, NotReplaced
    <3>4. \A w \in Tab : Has(t, w)' => peers'[t][w].n \in opened'[t]
      BY <1>3, <1>5, <3>1, <3>2 DEF Has
    <3>5. ASSUME NEW n \in opened'[t]
          PROVE \E w \in Tab : Has(t, w)' /\ peers'[t][w].n = n
      <4>1. CASE n \in NotReplaced(t, u)
        <5>1. PICK w \in Tab : w # u /\ Has(t, w) /\ peers[t][w].n = n
          BY <3>3, <4>1
        <5> QED BY <1>3, <1>5, <5>1
      <4>2. CASE n = d.n /\ d.n # None
        BY <1>3, <4>2 DEF Has
      <4> QED BY <3>1, <4>1, <4>2
    <3> QED BY <2>2, <3>4, <3>5
  <2> QED BY <2>1, <2>2
<1>11. InTurn'
  <2> SUFFICES ASSUME NEW v \in Tab, NEW w \in Tab
        PROVE HeardInTurn(relay[w][v], Answered(v, w), made[w], peers[w][v])'
    BY DEF InTurn
  <2>1. HeardInTurn(relay[w][v], Answered(v, w), made[w], peers[w][v])
    BY DEF InTurn
  <2>2. Quieter(relay'[w][v], relay[w][v])
    BY DEF AllQuieter
  <2>3. Answered(v, w)' \subseteq Answered(v, w) \cup Offers(relay[w][v])
        /\ \A n \in Answered(v, w)' : \A o \in Offers(relay'[w][v]) : n < o
    <3>1. CASE v = t /\ w = u
      BY <1>3, <3>1 DEF Answered, Listening, Has, NoPc, Pc
    <3>2. CASE v # t \/ w # u
      <4>1. Answered(v, w)' = Answered(v, w)
        <5>1. peers'[v][w] = peers[v][w] /\ role' = role /\ (Has(v, w)' <=> Has(v, w))
          BY <1>3, <1>5, <3>2
        <5> QED BY ZenonT(60), <5>1 DEF Answered, Listening
      <4> QED BY <4>1, <2>1, <2>2 DEF HeardInTurn, Quieter
    <3> QED BY <3>1, <3>2
  <2>4. peers'[w][v] = peers[w][v] \/ peers'[w][v].n = None \/ peers'[w][v].n > made[w]
    BY <1>1, <1>3
  <2>5. made[w] \in Nat /\ made'[w] \in Nat /\ made[w] <= made'[w] /\ peers'[w][v].n \in Nat
    BY <1>1, <1>2 DEF JamTypeOK, Connection
  <2>6. \/ peers'[w][v].n = peers[w][v].n
           /\ (peers'[w][v].st = "making" => peers[w][v].st = "making")
        \/ peers'[w][v].n = None \/ peers'[w][v].n > made[w]
    BY <2>4
  <2>7. HeardInTurn(relay'[w][v], Answered(v, w)', made'[w], peers'[w][v])
    BY <2>1, <2>2, <2>3, <2>5, <2>6, LaterInTurn
  <2> QED BY <2>7 DEF HeardInTurn, Rising, Offers, IsOffer
<1> QED BY <1>2, <1>7, <1>8, <1>9, <1>10, <1>11

-----------------------------------------------------------------------------
(* The steps of the jam                                                     *)

\* A field of a connection is set.
LEMMA SetConnection ==
  ASSUME JamTypeOK, NEW t \in Tab, NEW u \in Tab, NEW d \in Connection,
         peers' = [peers EXCEPT ![t][u] = d]
  PROVE  /\ peers' \in [Tab -> [Tab -> Connection]]
         /\ \A v, w \in Tab : peers'[v][w] = IF v = t /\ w = u THEN d ELSE peers[v][w]
<1>1. [peers[t] EXCEPT ![u] = d] \in [Tab -> Connection]
  BY DEF JamTypeOK
<1> QED BY <1>1 DEF JamTypeOK

\* A step that only speaks, hears or loses.
LEMMA TalkingPreserves ==
  ASSUME JamInv, AllQuieter(relay', relay),
         UNCHANGED <<open, url, role, starting, peers, opened, made>>
  PROVE  JamInv'
  BY AdvancingPreserves DEF JamInv, JamTypeOK

\* One end connects, finds the other gone, is interrupted, or comes back.
LEMMA ConnectPreserves ==
  ASSUME JamInv, NEW t \in Tab, NEW u \in Tab,
         Connect(t, u) \/ PeerLost(t, u) \/ NetworkFails(t, u) \/ Resume(t, u)
  PROVE  JamInv'
<1> USE DEF JamInv
<1>1. PICK conn \in {"connected", "disconnected", "failed"} : peers' = [peers EXCEPT ![t][u].conn = conn]
  BY DEF Connect, PeerLost, NetworkFails, Resume
<1>2. peers[t][u] \in Connection /\ Has(t, u)
  BY DEF Connect, PeerLost, NetworkFails, Resume, Paired, Connected, JamTypeOK
<1> DEFINE d == [peers[t][u] EXCEPT !.conn = conn]
<1>3. /\ d \in Connection /\ d.n = peers[t][u].n /\ d.st = peers[t][u].st
      /\ d.other = peers[t][u].other
  BY <1>2 DEF Connection
<1>4. peers' = [peers EXCEPT ![t][u] = d]
  BY <1>1
<1> HIDE DEF d
<1>5. peers' \in [Tab -> [Tab -> Connection]]
      /\ \A v, w \in Tab : peers'[v][w] = IF v = t /\ w = u THEN d ELSE peers[v][w]
  BY <1>3, <1>4, SetConnection
<1>6. \A v, w \in Tab : Advances(v, w) /\ (~Has(v, w) => peers'[v][w] = peers[v][w])
  BY <1>2, <1>3, <1>5 DEF Advances, JamTypeOK
<1>7. AllQuieter(relay', relay)
  BY SameRelayIsQuieter DEF Connect, PeerLost, NetworkFails, Resume, JamTypeOK
<1> QED BY <1>5, <1>6, <1>7, AdvancingPreserves DEF Connect, PeerLost, NetworkFails, Resume

\* The description is there: an answer, or the latest of the tab's offers.
LEMMA DescribedPreserves ==
  ASSUME JamInv, NEW t \in Tab, NEW u \in Tab, Described(t, u)
  PROVE  JamInv'
<1> USE DEF JamInv, Described
<1> DEFINE c == peers[t][u]
           d == [c EXCEPT !.st = IF c.st = "making" THEN "offered" ELSE "stable"]
<1>1. c \in Connection /\ c.n # None /\ c.n \in Nat
  BY DEF JamTypeOK, Has, Connection
<1>2. /\ d \in Connection /\ d.n = c.n /\ d.other = c.other
      /\ d.st = IF c.st = "making" THEN "offered" ELSE "stable"
  BY <1>1 DEF Connection
<1>3. peers' = [peers EXCEPT ![t][u] = d]
  OBVIOUS
<1> HIDE DEF d
<1>4. peers' \in [Tab -> [Tab -> Connection]]
      /\ \A v, w \in Tab : peers'[v][w] = IF v = t /\ w = u THEN d ELSE peers[v][w]
  <2>1. JamTypeOK
    OBVIOUS
  <2> QED BY ONLY <1>2, <1>3, <2>1, t \in Tab, u \in Tab, SetConnection
<1>5. \A v, w \in Tab : Advances(v, w) /\ (~Has(v, w) => peers'[v][w] = peers[v][w])
  BY <1>1, <1>2, <1>4 DEF Advances, JamTypeOK, Listeners
<1>6. CASE c.st # "making"
  <2>1. relay' = SentTo(relay, t, open \cap {u}, <<Answer(c.n)>>)
    BY <1>6
  <2>2. AllQuieter(relay', relay)
    BY <1>1, <2>1, OrdinaryWords, SayingIsQuiet DEF JamTypeOK
  <2> QED BY <1>4, <1>5, <2>2, AdvancingPreserves
<1>7. CASE c.st = "making"
  <2>1. relay' = SentTo(relay, t, open \cap {u}, <<Offer(c.n)>>)
    BY <1>7
  <2>2. HeardInTurn(relay[t][u], Answered(u, t), made[t], c)
    BY DEF InTurn
  <2>3. relay[t][u] \in Seq(Message) /\ c.n \in 1 .. made[t] /\ made[t] \in Nat
    BY <1>1 DEF JamTypeOK, Relay, Numbered, None
  <2> DEFINE r == relay[t][u] \o <<Offer(c.n)>>
  <2>4. r \in Seq(Message) /\ Offers(r) \subseteq Offers(relay[t][u]) \cup {c.n} /\ Rising(r)
    BY <1>1, <1>7, <2>2, <2>3, OfferIsLast DEF HeardInTurn
  <2> DEFINE said == [w \in Tab |-> IF w \in (open \cap {u}) \ {t} THEN relay[t][w] \o <<Offer(c.n)>>
                                  ELSE relay[t][w]]
  <2>5. relay \in Relay /\ relay' = [relay EXCEPT ![t] = said]
    BY <2>1 DEF SentTo, JamTypeOK, Relay
  <2>6. said \in [Tab -> Seq(Message)] /\ \A w \in Tab : said[w] = relay[t][w] \/ (w = u /\ said[w] = r)
    BY ZenonT(40), <2>4, <2>5 DEF Relay
  <2> HIDE DEF r, said
  <2>7. \A v, w \in Tab : relay'[v][w] = relay[v][w] \/ (v = t /\ w = u /\ relay'[v][w] = r)
    BY <2>5, <2>6 DEF Relay
  <2>8. relay' \in Relay
    BY <2>5, <2>6 DEF Relay
  <2>9. (JamTypeOK /\ Out /\ Listeners /\ Numbered /\ Held)'
        /\ \A v, w \in Tab : Answered(v, w)' = Answered(v, w)
    BY <1>4, <1>5, <2>8, AdvancingHolds
  <2>10. HeardInTurn(r, Answered(u, t), made[t], d)
    BY <1>1, <1>2, <1>7, <2>2, <2>3, <2>4 DEF HeardInTurn
  <2>11. InTurn'
    <3> SUFFICES ASSUME NEW v \in Tab, NEW w \in Tab
          PROVE HeardInTurn(relay[w][v], Answered(v, w), made[w], peers[w][v])'
      BY DEF InTurn
    <3>1. HeardInTurn(relay[w][v], Answered(v, w), made[w], peers[w][v])
      BY DEF InTurn
    <3>2. HeardInTurn(relay'[w][v], Answered(v, w), made[w], peers'[w][v])
      <4>1. CASE w = t /\ v = u
        <5>1. CASE relay'[t][u] = r
          BY <1>4, <2>10, <4>1, <5>1
        <5>2. CASE relay'[t][u] = relay[t][u]
          BY <1>2, <1>4, <1>7, <2>2, <4>1, <5>2 DEF HeardInTurn
        <5> QED BY <2>7, <5>1, <5>2
      <4>2. CASE w # t \/ v # u
        BY ZenonT(40), <1>4, <2>7, <3>1, <4>2
      <4> QED BY <4>1, <4>2
    <3> QED BY <2>9, <3>2 DEF HeardInTurn, Rising, Offers, IsOffer
  <2> QED BY <2>9, <2>11
<1> QED BY <1>6, <1>7

\* A signal is heard: an answer is given, a connection made, finished or closed.
LEMMA HearSignalPreserves ==
  ASSUME JamInv, NEW t \in Tab, NEW u \in Tab, HearSignal(t, u)
  PROVE  JamInv'
<1> DEFINE m == Head(relay[u][t])
           q == [relay EXCEPT ![u][t] = Tail(@)]
<1>1. relay \in Relay /\ relay[u][t] \in Seq(Message) /\ relay[u][t] # <<>> /\ JamTypeOK
  BY DEF JamInv, JamTypeOK, Relay, HearSignal
<1>2. AllQuieter(q, relay) /\ q \in Relay
  BY <1>1, HearingIsQuieter DEF AllQuieter
<1>3. q[u][t] = Tail(relay[u][t])
  BY <1>1 DEF Relay
<1>4. /\ \/ m.kind = "join" /\ HearJoin(t, u, q)
         \/ m.kind = "offer" /\ HearOffer(t, u, m.sdp, q)
         \/ m.kind = "answer" /\ HearAnswer(t, u, m.sdp, q)
         \/ m.kind = "bye" /\ HearBye(t, u, q)
      /\ UNCHANGED <<open, url, starting>>
  BY DEF HearSignal
<1>5. m \in Message
  BY <1>1, TailIsQuieter
<1>6. m.kind = "offer" => /\ m.sdp \in Offers(relay[u][t])
                          /\ \A o \in Offers(q[u][t]) : m.sdp < o
  <2>1. Rising(relay[u][t])
    BY DEF JamInv, InTurn, HeardInTurn
  <2> QED BY <1>1, <1>3, <2>1, TailIsQuieter DEF IsOffer
<1>7. m.kind \in {"offer", "answer"} => m.sdp \in Nat
  BY <1>5 DEF Message, Position
<1> HIDE DEF m, q
<1>8. ASSUME relay' = q, UNCHANGED <<role, peers, opened, made>> PROVE JamInv'
  BY <1>2, <1>4, <1>8, TalkingPreserves
<1>9. ASSUME NEW st \in {"making", "answering"}, NEW other \in Nat, NewPeer(t, u, st, other),
             relay' = q, role' = role, role[t] # "idle",
             Listening(t) => st = "answering" /\ other = m.sdp /\ m.kind = "offer"
      PROVE JamInv'
  <2> DEFINE d == Pc(made[t] + 1, st, other)
  <2>1. made[t] \in Nat /\ made' = [made EXCEPT ![t] = @ + 1] /\ made'[t] = made[t] + 1
    BY <1>1, <1>9 DEF NewPeer, JamTypeOK
  <2>2. d \in Connection /\ d.n = made[t] + 1 /\ d.st = st /\ d.other = other
    BY <2>1 DEF Pc, Connection
  <2>3. peers' = [peers EXCEPT ![t][u] = d]
        /\ opened' = [opened EXCEPT ![t] = NotReplaced(t, u) \cup {d.n}]
    BY <1>9, <2>1, <2>2 DEF NewPeer
  <2> HIDE DEF d
  <2>4. Listening(t) => /\ d.st = "answering" /\ d.other \in Offers(relay[u][t])
                        /\ \A o \in Offers(relay'[u][t]) : d.other < o
    BY <1>6, <1>9, <2>2
  <2>5. AllQuieter(relay', relay) /\ UNCHANGED <<open, url, role, starting>>
    BY <1>2, <1>4, <1>9
  <2> QED BY <1>9, <2>1, <2>2, <2>3, <2>4, <2>5, ReplacingPreserves
<1>10. CASE m.kind = "join" /\ HearJoin(t, u, q)
  <2>1. CASE relay' = Said(q, t, <<Join>>) /\ NothingElse
    <3>1. AllQuieter(relay', q)
      BY <1>2, <2>1, OrdinaryWords, SayingIsQuiet DEF Said
    <3>2. AllQuieter(relay', relay)
      BY <1>2, <3>1, AllQuieterIsTransitive
    <3> QED BY <1>4, <2>1, <3>2, TalkingPreserves DEF NothingElse
  <2>2. CASE role[t] = "broadcasting" /\ NewPeer(t, u, "making", None) /\ relay' = q /\ role' = role
    BY <1>9, <2>2 DEF Listening, None
  <2>3. CASE relay' = q /\ NothingElse
    BY <1>8, <2>3 DEF NothingElse
  <2> QED BY <1>10, <2>1, <2>2, <2>3 DEF HearJoin
<1>11. CASE m.kind = "offer" /\ HearOffer(t, u, m.sdp, q)
  <2>1. CASE role[t] = "listening"
    <3>1. NewPeer(t, u, "answering", m.sdp) /\ role' = role /\ relay' = q
      BY <1>11, <2>1 DEF HearOffer
    <3> QED BY <1>7, <1>9, <1>11, <2>1, <3>1
  <2>2. CASE role[t] # "listening"
    BY <1>8, <1>11, <2>2 DEF HearOffer, NothingElse
  <2> QED BY <2>1, <2>2
<1>12. CASE m.kind = "answer" /\ HearAnswer(t, u, m.sdp, q)
  <2>1. CASE Has(t, u) /\ peers[t][u].st = "offered"
    <3> DEFINE c == peers[t][u]
               d == [c EXCEPT !.st = "stable", !.other = m.sdp]
    <3>1. c \in Connection /\ c.n # None /\ ~Listening(t)
      BY <1>1, <2>1 DEF JamTypeOK, JamInv, Listeners, Has
    <3>2. d \in Connection /\ d.n = c.n /\ d.st = "stable"
      BY <1>7, <1>12, <3>1 DEF Connection
    <3>3. /\ peers' = [peers EXCEPT ![t][u].st = "stable", ![t][u].other = m.sdp]
          /\ UNCHANGED <<role, opened, made>> /\ relay' = q
      BY <1>12, <2>1 DEF HearAnswer
    <3>4. peers' = [peers EXCEPT ![t][u] = d]
      BY <1>1, <3>3 DEF JamTypeOK, Connection
    <3> HIDE DEF d
    <3>5. peers' \in [Tab -> [Tab -> Connection]]
          /\ \A v, w \in Tab : peers'[v][w] = IF v = t /\ w = u THEN d ELSE peers[v][w]
      BY ONLY <1>1, <3>2, <3>4, t \in Tab, u \in Tab, SetConnection
    <3>6. \A v, w \in Tab : Advances(v, w) /\ (~Has(v, w) => peers'[v][w] = peers[v][w])
      BY <1>1, <2>1, <3>1, <3>2, <3>5 DEF Advances, JamTypeOK
    <3> QED BY <1>2, <1>4, <3>3, <3>5, <3>6, AdvancingPreserves
  <2>2. CASE ~(Has(t, u) /\ peers[t][u].st = "offered")
    BY <1>8, <1>12, <2>2 DEF HearAnswer, NothingElse
  <2> QED BY <2>1, <2>2
<1>13. CASE m.kind = "bye" /\ HearBye(t, u, q)
  <2>1. NoPc \in Connection
    BY DEF NoPc, Pc, Connection, None
  <2>2. /\ peers' = [peers EXCEPT ![t][u] = NoPc] /\ made' = made
        /\ opened' = [opened EXCEPT ![t] = NotReplaced(t, u)] /\ relay' = q /\ role' = role
    BY <1>13 DEF HearBye
  <2> QED BY <1>2, <1>4, <2>1, <2>2, ReplacingPreserves
<1> QED BY <1>4, <1>10, <1>11, <1>12, <1>13

\* Signals are missed, a listener asks again.
LEMMA MissedPreserves ==
  ASSUME JamInv, NEW t \in Tab, NEW u \in Tab, Skip(t, u) \/ Reconnect(t) \/ Retry(t)
  PROVE  JamInv'
<1>1. relay \in Relay
  BY DEF JamInv, JamTypeOK
<1>2. CASE Skip(t, u)
  BY <1>1, <1>2, HearingIsQuieter, TalkingPreserves DEF Skip
<1>3. CASE Reconnect(t)
  <2> DEFINE q == [v \in Tab |-> [relay[v] EXCEPT ![t] = <<>>]]
             w == IF Asking(t) THEN <<Join>> ELSE <<>>
  <2>1. AllQuieter(q, relay) /\ q \in Relay
    BY <1>1, MissingIsQuieter DEF AllQuieter
  <2>2. w \in Words
    BY OrdinaryWords
  <2>3. relay' = SentTo(q, t, open, w)
    BY <1>3 DEF Reconnect, Said
  <2> HIDE DEF q, w
  <2>4. AllQuieter(relay', relay)
    BY <2>1, <2>2, <2>3, SayingIsQuiet, AllQuieterIsTransitive
  <2> QED BY <1>3, <2>4, TalkingPreserves DEF Reconnect
<1>4. CASE Retry(t)
  BY <1>1, <1>4, OrdinaryWords, SayingIsQuiet, TalkingPreserves DEF Retry, Said
<1> QED BY <1>2, <1>3, <1>4

\* Who holds nothing holds connections of the right type.
LEMMA NoPeersHolds == NoPeers \in [Tab -> Connection] /\ \A u \in Tab : NoPeers[u].n = None
  BY DEF NoPeers, NoPc, Pc, Connection, None

\* The button: who stops lets go of everything.
LEMMA PressJamPreserves ==
  ASSUME JamInv, NEW t \in Tab, PressJam(t)
  PROVE  JamInv'
<1> USE DEF JamInv, PressJam
<1>1. t \in open /\ UNCHANGED <<open, url, made>>
  OBVIOUS
<1>2. starting' \in [Tab -> Nat] /\ \A v \in Tab \ open : starting'[v] = starting[v]
  BY <1>1 DEF JamTypeOK
<1>3. CASE role[t] = "idle"
  <2>1. UNCHANGED <<role, relay, peers, opened>>
    BY <1>3
  <2>2. AllQuieter(relay', relay)
    BY <2>1, SameRelayIsQuieter DEF JamTypeOK
  <2> QED BY <1>1, <1>2, <2>1, <2>2, LeavingPreserves DEF JamTypeOK, Out
<1>4. CASE role[t] # "idle"
  <2>1. StopJam(t)
    BY <1>4
  <2>2. AllQuieter(relay', relay)
    BY <2>1, OrdinaryWords, SayingIsQuiet DEF StopJam, Said, JamTypeOK
  <2>3. role' = [role EXCEPT ![t] = "idle"] /\ peers' = [peers EXCEPT ![t] = NoPeers]
    BY <2>1 DEF StopJam
  <2>4. opened' = [opened EXCEPT ![t] = {}]
    <3>1. opened[t] \ {peers[t][u].n : u \in {v \in Tab : Has(t, v)}} = {}
      BY DEF Held
    <3> QED BY <2>1, <3>1 DEF StopJam
  <2>5. role' \in [Tab -> Roles] /\ peers' \in [Tab -> [Tab -> Connection]]
        /\ opened' \in [Tab -> SUBSET Nat]
    BY <2>3, <2>4, NoPeersHolds DEF JamTypeOK, Roles
  <2>6. \A v \in Tab : \/ peers'[v] = NoPeers /\ opened'[v] = {}
                       \/ peers'[v] = peers[v] /\ opened'[v] = opened[v] /\ role'[v] = role[v]
    <3>1. JamTypeOK
      OBVIOUS
    <3>2. peers'[t] = NoPeers /\ opened'[t] = {}
      BY ONLY <2>3, <2>4, <3>1, t \in Tab DEF JamTypeOK
    <3>3. \A v \in Tab : v # t => peers'[v] = peers[v] /\ opened'[v] = opened[v] /\ role'[v] = role[v]
      BY ONLY <2>3, <2>4, <3>1, t \in Tab DEF JamTypeOK
    <3>4. ASSUME NEW v \in Tab
          PROVE \/ peers'[v] = NoPeers /\ opened'[v] = {}
                \/ peers'[v] = peers[v] /\ opened'[v] = opened[v] /\ role'[v] = role[v]
      <4>1. CASE v = t
        BY ONLY <3>2, <4>1
      <4>2. CASE v # t
        BY ONLY <3>3, <4>2, v \in Tab
      <4> QED BY ONLY <4>1, <4>2
    <3> QED BY ONLY <3>4
  <2>7. \A v \in Tab \ open' : role'[v] = "idle" /\ starting'[v] = 0
    BY <1>1, <1>2, <2>3 DEF Out, JamTypeOK
  <2> QED BY <1>1, <1>2, <2>2, <2>5, <2>6, <2>7, LeavingPreserves DEF JamTypeOK
<1> QED BY <1>3, <1>4

\* Who begins to broadcast holds nothing.
LEMMA StreamReadyPreserves ==
  ASSUME JamInv, NEW t \in Tab, StreamReady(t)
  PROVE  JamInv'
<1> USE DEF JamInv, StreamReady
<1>1. UNCHANGED <<open, url, peers, opened, made>> /\ t \in open
  BY DEF Out, JamTypeOK
<1>2. starting' \in [Tab -> Nat] /\ \A v \in Tab \ open : starting'[v] = starting[v]
  <2>1. starting[t] - 1 \in Nat
    BY DEF JamTypeOK
  <2> QED BY <1>1, <2>1 DEF JamTypeOK
<1>3. AllQuieter(relay', relay)
  BY OrdinaryWords, SayingIsQuiet, SameRelayIsQuieter DEF Said, JamTypeOK
<1>4. role' = role \/ (role[t] = "idle" /\ role' = [role EXCEPT ![t] = "broadcasting"])
  OBVIOUS
<1>5. role[t] = "idle" => peers[t] = NoPeers /\ opened[t] = {}
  BY NoPeersHolds DEF Out, Held, Has
<1>6. role' \in [Tab -> Roles]
  BY <1>4 DEF JamTypeOK, Roles
<1>7. \A v \in Tab \ open : role'[v] = role[v]
  BY <1>1, <1>4 DEF JamTypeOK
<1>8. \A v \in Tab : \/ peers'[v] = NoPeers /\ opened'[v] = {}
                     \/ peers'[v] = peers[v] /\ opened'[v] = opened[v] /\ role'[v] = role[v]
  <2>1. role \in [Tab -> Roles]
    BY DEF JamTypeOK
  <2>2. \A v \in Tab : v # t => role'[v] = role[v]
    BY ONLY <1>4, <2>1, t \in Tab
  <2>3. peers' = peers /\ opened' = opened
    BY <1>1
  <2>4. role' = role \/ role[t] = "idle"
    BY <1>4
  <2>5. ASSUME NEW v \in Tab
        PROVE \/ peers'[v] = NoPeers /\ opened'[v] = {}
              \/ peers'[v] = peers[v] /\ opened'[v] = opened[v] /\ role'[v] = role[v]
    <3>1. CASE v = t
      BY ONLY <1>5, <2>3, <2>4, <3>1
    <3>2. CASE v # t
      BY ONLY <2>2, <2>3, <3>2, v \in Tab
    <3> QED BY ONLY <3>1, <3>2
  <2> QED BY ONLY <2>5
<1> QED BY <1>1, <1>2, <1>3, <1>6, <1>7, <1>8, LeavingPreserves DEF JamTypeOK, Out

\* A page loaded again holds nothing, nor does the one it was.
LEMMA ReloadPreserves ==
  ASSUME JamInv, NEW t \in Tab, NEW u \in Tab, NEW words \in Words, Reload(t, u, words)
  PROVE  JamInv'
<1> USE DEF JamInv, Reload
<1>1. t # u /\ u \notin open /\ open' = (open \ {t}) \cup {u} /\ made' = made
  OBVIOUS
<1>2. url' \in [Tab -> [jam : Roles, sync : BOOLEAN]]
  BY DEF JamTypeOK
<1>3. (FirstRole(u))' \in {"listening", "idle"} /\ (FirstStarting(u))' \in {0, 1}
  BY DEF FirstRole, FirstStarting
<1>4. role' \in [Tab -> Roles] /\ starting' \in [Tab -> Nat]
  <2>1. role' = [role EXCEPT ![t] = "idle", ![u] = (FirstRole(u))']
        /\ starting' = [starting EXCEPT ![t] = 0, ![u] = (FirstStarting(u))']
    OBVIOUS
  <2>2. role \in [Tab -> Roles] /\ starting \in [Tab -> Nat]
    BY DEF JamTypeOK
  <2>3. "idle" \in Roles /\ (FirstRole(u))' \in Roles /\ (FirstStarting(u))' \in Nat
    BY <1>3 DEF Roles
  <2> QED BY ONLY <2>1, <2>2, <2>3
<1>5. peers' = [peers EXCEPT ![t] = NoPeers] /\ opened' = [opened EXCEPT ![t] = {}]
  OBVIOUS
<1>6. peers' \in [Tab -> [Tab -> Connection]] /\ opened' \in [Tab -> SUBSET Nat]
  BY <1>5, NoPeersHolds DEF JamTypeOK
<1>7. \A v \in Tab \ open' : role'[v] = "idle" /\ starting'[v] = 0
  BY <1>1 DEF JamTypeOK, Out
<1>8. peers[u] = NoPeers /\ opened[u] = {}
  BY NoPeersHolds DEF Out, Held, Has
<1>9. \A v \in Tab : \/ peers'[v] = NoPeers /\ opened'[v] = {}
                     \/ peers'[v] = peers[v] /\ opened'[v] = opened[v] /\ role'[v] = role[v]
  <2>1. JamTypeOK
    OBVIOUS
  <2>2. role' = [role EXCEPT ![t] = "idle", ![u] = (FirstRole(u))']
    OBVIOUS
  <2>3. \A v \in Tab : v # t => peers'[v] = peers[v] /\ opened'[v] = opened[v]
    BY ONLY <1>5, <2>1, t \in Tab DEF JamTypeOK
  <2>4. \A v \in Tab : v # t /\ v # u => role'[v] = role[v]
    BY ONLY <2>1, <2>2, t \in Tab, u \in Tab DEF JamTypeOK
  <2>5. peers'[t] = NoPeers /\ opened'[t] = {}
    BY ONLY <1>5, <2>1, t \in Tab DEF JamTypeOK
  <2>6. ASSUME NEW v \in Tab
        PROVE \/ peers'[v] = NoPeers /\ opened'[v] = {}
              \/ peers'[v] = peers[v] /\ opened'[v] = opened[v] /\ role'[v] = role[v]
    <3>1. CASE v = t
      BY ONLY <2>5, <3>1
    <3>2. CASE v = u
      BY ONLY <1>1, <1>8, <2>3, <3>2, u \in Tab
    <3>3. CASE v # t /\ v # u
      BY ONLY <2>3, <2>4, <3>3, v \in Tab
    <3> QED BY ONLY <3>1, <3>2, <3>3
  <2> QED BY ONLY <2>6
<1>10. AllQuieter(relay', relay)
  <2> DEFINE q == [v \in Tab |-> [relay[v] EXCEPT ![t] = <<>>]]
             w == IF role'[u] = "listening" THEN words \o <<Join>> ELSE words
  <2>1. AllQuieter(q, relay) /\ q \in Relay
    BY MissingIsQuieter DEF AllQuieter, JamTypeOK
  <2>2. w \in Words
    BY OrdinaryWords, WordsTogether
  <2>3. relay' = SentTo(q, u, open', w)
    OBVIOUS
  <2> HIDE DEF q, w
  <2> QED BY <2>1, <2>2, <2>3, SayingIsQuiet, AllQuieterIsTransitive
<1>11. open' \subseteq Tab
  BY <1>1 DEF JamTypeOK
<1> QED BY <1>1, <1>2, <1>4, <1>6, <1>7, <1>9, <1>10, <1>11, LeavingPreserves

\* Every step of the jam.
LEMMA JamStepPreserves ==
  ASSUME JamInv, NEW t \in Tab, JamStep(t)
  PROVE  JamInv'
<1>1. CASE StreamReady(t)
  BY <1>1, StreamReadyPreserves
<1>2. CASE Retry(t)
  BY <1>2, MissedPreserves
<1>3. CASE PressJam(t)
  BY <1>3, PressJamPreserves
<1>4. ASSUME NEW u \in Tab,
             \/ HearSignal(t, u) \/ Described(t, u)
             \/ Connect(t, u) \/ PeerLost(t, u) \/ NetworkFails(t, u) \/ Resume(t, u)
      PROVE JamInv'
  BY <1>4, HearSignalPreserves, DescribedPreserves, ConnectPreserves
<1> QED BY <1>1, <1>2, <1>3, <1>4 DEF JamStep, JamWorks

-----------------------------------------------------------------------------
(* The steps of the transport                                               *)

\* What is published, and what is heard, is a position.
LEMMA AnchorIsPosition ==
  /\ \A kind \in {"anchor", "rejoin"}, t \in Tab, p \in BOOLEAN, at \in Int :
       Anchor(kind, t, p, at) \in Position
  /\ \A m \in Message : m.kind \in {"anchor", "rejoin"} => m \in Position
  BY DEF Anchor, Position, Message

\* A time.
LEMMA MomentIsTime == now \in Nat => \A crossing : Moment(crossing) \subseteq Nat
  BY DEF Moment

\* Play and stop are told to the others.
LEMMA PublishKeeps ==
  ASSUME IInv, NEW t \in Tab, NEW p \in BOOLEAN, Publish(t, p)
  PROVE  /\ AllQuieter(relay', relay) /\ now' \in Nat
         /\ last' \in [Tab -> Position \cup {NoAnchor}] /\ newest' \in Position \cup {NoAnchor}
         /\ audience' \subseteq Tab
<1>1. /\ relay \in Relay /\ now \in Nat /\ newest \in Position \cup {NoAnchor}
      /\ last \in [Tab -> Position \cup {NoAnchor}] /\ audience \subseteq Tab /\ open \subseteq Tab
  BY DEF IInv, JamInv, JamTypeOK, TransportTypeOK
<1>2. CASE ~armed[t]
  <2>1. UNCHANGED <<relay, last, now, newest, audience>>
    BY <1>2 DEF Publish
  <2> QED BY ONLY <1>1, <2>1, SameRelayIsQuieter
<1>3. CASE armed[t]
  <2>1. PICK at \in Moment(last[t].at < now) :
          LET mine == Anchor("anchor", t, p, at) IN
          /\ now' = at /\ relay' = Said(relay, t, <<mine>>)
          /\ last' = [last EXCEPT ![t] = mine] /\ newest' \in {mine, newest}
          /\ audience' \in {audience, {u \in open : armed[u] /\ link[u] /\ ~Listening(u)} \cup {t}}
    BY <1>3, Zenon DEF Publish
  <2> DEFINE mine == Anchor("anchor", t, p, at)
  <2>2. at \in Nat /\ mine \in Position
    BY <1>1, AnchorIsPosition, MomentIsTime
  <2> HIDE DEF mine
  <2>3. AllQuieter(relay', relay)
    BY <1>1, <2>1, <2>2, OrdinaryWords, SayingIsQuiet DEF Said, mine
  <2>4. last' \in [Tab -> Position \cup {NoAnchor}] /\ newest' \in Position \cup {NoAnchor}
    BY <1>1, <2>1, <2>2 DEF mine
  <2>5. audience' \subseteq Tab
    BY <1>1, <2>1
  <2> QED BY <2>1, <2>2, <2>3, <2>4, <2>5
<1> QED BY <1>2, <1>3

\* An anchor is taken, or the one that was taken is newer.
LEMMA ApplyKeeps ==
  ASSUME TransportTypeOK, NEW t \in Tab, NEW a \in Position, Apply(t, a)
  PROVE  /\ last' \in [Tab -> Position \cup {NoAnchor}] /\ playing' \in [Tab -> BOOLEAN]
         /\ \A v \in Tab : v # t \/ Listening(t) => playing'[v] = playing[v]
<1>1. PICK e \in clock[t][a.from] :
        LET at == a.at + e
            taken == ~Older(a.from, at, last[t]) IN
        /\ last' = IF taken THEN [last EXCEPT ![t] = [a EXCEPT !.at = at, !.kind = "anchor"]] ELSE last
        /\ playing' = IF taken /\ ~Suspended(t) /\ link[t]
                      THEN [playing EXCEPT ![t] = a.playing] ELSE playing
  BY DEF Apply
<1>2. /\ last \in [Tab -> Position \cup {NoAnchor}] /\ playing \in [Tab -> BOOLEAN]
      /\ a.playing \in BOOLEAN /\ a.from \in Tab /\ a.at \in Int /\ e \in Int
  BY DEF TransportTypeOK, Position
<1> DEFINE b == [a EXCEPT !.at = a.at + e, !.kind = "anchor"]
<1>3. b \in Position
  <2>1. \A at \in Int : [a EXCEPT !.at = at, !.kind = "anchor"] \in Position
    BY ONLY a \in Position DEF Position
  <2>2. a.at + e \in Int
    BY <1>2
  <2> QED BY <2>1, <2>2
<1> HIDE DEF b
<1>4. last' = last \/ last' = [last EXCEPT ![t] = b]
  BY <1>1 DEF b
<1>5. playing' = playing \/ (~Listening(t) /\ playing' = [playing EXCEPT ![t] = a.playing])
  BY <1>1, Zenon DEF Suspended
<1>6. last' \in [Tab -> Position \cup {NoAnchor}]
  BY ONLY <1>2, <1>3, <1>4
<1>7. playing' \in [Tab -> BOOLEAN]
  BY ONLY <1>2, <1>5
<1>8. \A v \in Tab : v # t \/ Listening(t) => playing'[v] = playing[v]
  BY ONLY <1>2, <1>5, t \in Tab
<1> QED BY <1>6, <1>7, <1>8

\* An anchor is heard: taken, kept until a clock is estimated, or passed over.
LEMMA TakeAnchorKeeps ==
  ASSUME TransportTypeOK, NEW t \in Tab, NEW a \in Position, TakeAnchor(t, a)
  PROVE  /\ last' \in [Tab -> Position \cup {NoAnchor}] /\ playing' \in [Tab -> BOOLEAN]
         /\ pending' \in [Tab -> Position \cup {NoAnchor}]
         /\ \A v \in Tab : v # t \/ Listening(t) => playing'[v] = playing[v]
<1>1. /\ last \in [Tab -> Position \cup {NoAnchor}] /\ playing \in [Tab -> BOOLEAN]
      /\ pending \in [Tab -> Position \cup {NoAnchor}]
  BY DEF TransportTypeOK
<1>2. CASE UNCHANGED <<last, playing>>
  <2>1. pending' = pending \/ pending' = [pending EXCEPT ![t] = a]
        \/ pending' = [pending EXCEPT ![t] = NoAnchor]
    BY DEF TakeAnchor
  <2> QED BY ONLY <1>1, <1>2, <2>1, a \in Position
<1>3. CASE pending' = [pending EXCEPT ![t] = NoAnchor] /\ Apply(t, a)
  <2>1. pending' \in [Tab -> Position \cup {NoAnchor}]
    BY ONLY <1>1, <1>3
  <2> QED BY <1>3, <2>1, ApplyKeeps
<1> QED BY <1>2, <1>3 DEF TakeAnchor

\* The question where the performance is, answered by who plays.
LEMMA AnswerWhereKeeps ==
  ASSUME IInv, NEW t \in Tab, NEW u \in Tab, NEW q \in Relay, AnswerWhere(t, u, q)
  PROVE  /\ AllQuieter(relay', q) /\ now' \in Nat
         /\ newest' \in Position \cup {NoAnchor} /\ audience' \subseteq Tab
<1>1. /\ now \in Nat /\ newest \in Position \cup {NoAnchor}
      /\ audience \subseteq Tab /\ open \subseteq Tab
  BY DEF IInv, JamInv, JamTypeOK, TransportTypeOK
<1>2. CASE relay' = q /\ UNCHANGED <<now, newest, audience>>
  BY ONLY <1>1, <1>2, q \in Relay, SameRelayIsQuieter
<1>3. ASSUME NEW at \in Moment(TRUE), now' = at,
             relay' = SentTo(q, t, open \cap {u}, <<Anchor("rejoin", t, TRUE, at)>>),
             newest' \in {newest, Anchor("rejoin", t, TRUE, at)},
             audience' \subseteq audience \cup {t} \cup open
      PROVE AllQuieter(relay', q) /\ now' \in Nat
            /\ newest' \in Position \cup {NoAnchor} /\ audience' \subseteq Tab
  <2>0. at \in Nat /\ at \in Int
    BY <1>1 DEF Moment
  <2>1. Anchor("rejoin", t, TRUE, at) \in Position
    BY ONLY <2>0, AnchorIsPosition, t \in Tab, Zenon
  <2>2. AllQuieter(relay', q)
    BY <1>3, <2>1, OrdinaryWords, SayingIsQuiet
  <2> QED BY ONLY <1>1, <1>3, <2>0, <2>1, <2>2, t \in Tab
<1>4. \/ relay' = q /\ UNCHANGED <<now, newest, audience>>
      \/ \E at \in Moment(TRUE) :
           /\ now' = at /\ relay' = SentTo(q, t, open \cap {u}, <<Anchor("rejoin", t, TRUE, at)>>)
           /\ newest' \in {newest, Anchor("rejoin", t, TRUE, at)}
           /\ audience' \subseteq audience \cup {t} \cup open
  BY DEF AnswerWhere
<1> QED BY <1>2, <1>3, <1>4

jamButRelay == <<open, url, role, starting, peers, opened, made>>

\* A message of the transport is heard; a listener goes on as it was.
LEMMA HearTransportPreserves ==
  ASSUME IInv, NEW t \in Tab, NEW u \in Tab, HearTransport(t, u)
  PROVE  IInv' /\ \A v \in Tab : v # t \/ Listening(t) => playing'[v] = playing[v]
<1> DEFINE m == Head(relay[u][t])
           q == [relay EXCEPT ![u][t] = Tail(@)]
<1>1. relay \in Relay /\ relay[u][t] \in Seq(Message) /\ relay[u][t] # <<>>
  BY DEF IInv, JamInv, JamTypeOK, Relay, HearTransport
<1>2. AllQuieter(q, relay) /\ q \in Relay /\ m \in Message
  BY <1>1, HearingIsQuieter, TailIsQuieter DEF AllQuieter
<1>3. /\ UNCHANGED jamButRelay /\ UNCHANGED <<mishaps, armed, link, clock>>
      /\ \/ AnswerWhere(t, u, q) /\ UNCHANGED <<pending, last, playing>>
         \/ /\ m.kind \in {"anchor", "rejoin"} /\ relay' = q
            /\ TakeAnchor(t, m) /\ UNCHANGED <<now, newest, audience>>
  BY DEF HearTransport, jamButRelay
<1> HIDE DEF m, q
<1>4. JamInv /\ TransportTypeOK
  BY DEF IInv
<1>5. /\ AllQuieter(relay', relay) /\ now' \in Nat
      /\ newest' \in Position \cup {NoAnchor} /\ audience' \subseteq Tab
      /\ last' \in [Tab -> Position \cup {NoAnchor}] /\ playing' \in [Tab -> BOOLEAN]
      /\ pending' \in [Tab -> Position \cup {NoAnchor}]
      /\ \A v \in Tab : v # t \/ Listening(t) => playing'[v] = playing[v]
  <2>1. CASE AnswerWhere(t, u, q) /\ UNCHANGED <<pending, last, playing>>
    BY <1>2, <1>4, <2>1, AnswerWhereKeeps, AllQuieterIsTransitive DEF TransportTypeOK
  <2>2. CASE /\ m.kind \in {"anchor", "rejoin"} /\ relay' = q
             /\ TakeAnchor(t, m) /\ UNCHANGED <<now, newest, audience>>
    <3>1. m \in Position
      BY <1>2, <2>2, AnchorIsPosition
    <3> QED BY <1>2, <1>4, <2>2, <3>1, TakeAnchorKeeps DEF TransportTypeOK
  <2> QED BY <1>3, <2>1, <2>2
<1>6. JamInv'
  BY <1>3, <1>4, <1>5, TalkingPreserves DEF jamButRelay
<1>7. TransportTypeOK'
  BY <1>3, <1>4, <1>5 DEF TransportTypeOK
<1> QED BY <1>5, <1>6, <1>7 DEF IInv

\* What a user does to the transport.
LEMMA UserPreserves ==
  ASSUME IInv, NEW t \in Tab, ToggleSync(t) \/ Play(t) \/ Stop(t)
  PROVE  IInv'
<1>1. JamInv /\ TransportTypeOK /\ relay \in Relay
  BY DEF IInv, JamInv, JamTypeOK
<1>2. CASE ToggleSync(t)
  <2>1. AllQuieter(relay', relay) /\ UNCHANGED jamButRelay
    BY <1>1, <1>2, OrdinaryWords, SayingIsQuiet, SameRelayIsQuieter DEF ToggleSync, Said, jamButRelay
  <2>2. /\ armed' \in [Tab -> BOOLEAN] /\ pending' \in [Tab -> Position \cup {NoAnchor}]
        /\ audience' \subseteq Tab /\ UNCHANGED <<link, playing, last, clock, now, newest, mishaps>>
    BY <1>1, <1>2 DEF ToggleSync, TransportTypeOK
  <2> QED BY <1>1, <2>1, <2>2, TalkingPreserves DEF IInv, TransportTypeOK, jamButRelay
<1>3. CASE Play(t) \/ Stop(t)
  <2>1. PICK p \in BOOLEAN : Publish(t, p)
    BY <1>3 DEF Play, Stop
  <2>2. UNCHANGED jamButRelay /\ UNCHANGED <<mishaps, armed, link, pending, clock>>
    BY <1>3 DEF Play, Stop, jamButRelay
  <2>3. playing' \in [Tab -> BOOLEAN]
    BY <1>1, <1>3 DEF Play, Stop, TransportTypeOK
  <2>4. /\ AllQuieter(relay', relay) /\ now' \in Nat
        /\ last' \in [Tab -> Position \cup {NoAnchor}] /\ newest' \in Position \cup {NoAnchor}
        /\ audience' \subseteq Tab
    BY <2>1, PublishKeeps
  <2>5. JamInv'
    BY <1>1, <2>2, <2>4, TalkingPreserves DEF jamButRelay
  <2>6. TransportTypeOK'
    BY <1>1, <2>2, <2>3, <2>4 DEF TransportTypeOK
  <2> QED BY <2>5, <2>6 DEF IInv
<1> QED BY <1>2, <1>3

\* An anchor that waited is applied, a clock is estimated, an engine connects.
LEMMA QuietPreserves ==
  ASSUME IInv, NEW t \in Tab, NEW u \in Tab, RetryApply(t) \/ Measure(t, u) \/ EngineLinks(t)
  PROVE  IInv' /\ UNCHANGED jam /\ \A v \in Tab : v # t \/ Listening(t) => playing'[v] = playing[v]
<1>1. JamInv /\ TransportTypeOK /\ relay \in Relay
  BY DEF IInv, JamInv, JamTypeOK
<1>2. UNCHANGED jam /\ UNCHANGED <<mishaps, armed, now, newest, audience>>
  BY DEF RetryApply, Measure, EngineLinks
<1>3. JamInv'
  BY <1>1, <1>2, SameRelayIsQuieter, TalkingPreserves DEF jam
<1>4. CASE RetryApply(t)
  <2>1. pending[t] \in Position /\ UNCHANGED <<link, clock>> /\ Apply(t, pending[t])
        /\ pending' = [pending EXCEPT ![t] = NoAnchor]
    BY <1>1, <1>4 DEF RetryApply, TransportTypeOK
  <2>2. pending' \in [Tab -> Position \cup {NoAnchor}]
    BY <1>1, <2>1 DEF TransportTypeOK
  <2> QED BY <1>1, <1>2, <1>3, <2>1, <2>2, ApplyKeeps DEF IInv, TransportTypeOK
<1>5. CASE Measure(t, u)
  <2>1. clock' \in [Tab -> [Tab -> SUBSET Error]]
    BY <1>1, <1>5 DEF Measure, TransportTypeOK
  <2> QED BY <1>1, <1>2, <1>3, <1>5, <2>1 DEF IInv, TransportTypeOK, Measure
<1>6. CASE EngineLinks(t)
  BY <1>1, <1>2, <1>3, <1>6 DEF IInv, TransportTypeOK, EngineLinks
<1> QED BY <1>4, <1>5, <1>6

\* A page is loaded again.
LEMMA ReloadPagePreserves ==
  ASSUME IInv, NEW t \in Tab, NEW u \in Tab, ReloadPage(t, u)
  PROVE  IInv'
<1>1. JamInv /\ TransportTypeOK /\ url[t].sync \in BOOLEAN
  BY DEF IInv, JamInv, JamTypeOK
<1>2. JamInv'
  BY <1>1, OrdinaryWords, ReloadPreserves DEF ReloadPage
<1>3. mishaps' = mishaps /\ UNCHANGED <<now, newest>>
  BY DEF ReloadPage, Reload
<1>4. /\ armed' \in [Tab -> BOOLEAN] /\ link' \in [Tab -> BOOLEAN]
  BY <1>1 DEF ReloadPage, TransportTypeOK
<1>5. playing' \in [Tab -> BOOLEAN]
  BY <1>1 DEF ReloadPage, TransportTypeOK
<1>6. last' \in [Tab -> Position \cup {NoAnchor}] /\ pending' \in [Tab -> Position \cup {NoAnchor}]
  BY <1>1 DEF ReloadPage, TransportTypeOK
<1>7. clock' \in [Tab -> [Tab -> SUBSET Error]] /\ audience' \subseteq Tab
  BY <1>1 DEF ReloadPage, TransportTypeOK
<1> QED BY <1>1, <1>2, <1>3, <1>4, <1>5, <1>6, <1>7 DEF IInv, TransportTypeOK

\* The jam leaves the transport alone.
LEMMA JamLeavesTransport ==
  ASSUME IInv, NEW t \in Tab, JamStep(t) \/ Missed(t), UNCHANGED <<armed, link, playing, last, pending, clock, now, newest>>,
         audience' \subseteq audience
  PROVE  TransportTypeOK'
<1>1. TransportTypeOK
  BY DEF IInv
<1>2. mishaps' = mishaps \/ mishaps' = mishaps + 1
  BY DEF JamStep, JamWorks, Missed, StreamReady, Retry, HearSignal, Described, Connect, PeerLost,
         NetworkFails, Resume, PressJam, Reconnect, Skip, Calm, Mishap
<1> QED BY <1>1, <1>2 DEF TransportTypeOK

\* Every step of the session.
LEMMA NextPreserves == IInv /\ [Next]_vars => IInv'
<1> SUFFICES ASSUME IInv, [Next]_vars PROVE IInv'
  OBVIOUS
<1>1. JamInv /\ TransportTypeOK
  BY DEF IInv
<1>2. CASE UNCHANGED vars
  <2>1. JamInv'
    BY <1>1, <1>2, SameRelayIsQuieter, TalkingPreserves DEF JamInv, JamTypeOK, vars, jam
  <2>2. TransportTypeOK'
    BY <1>1, <1>2 DEF TransportTypeOK, vars, transport
  <2> QED BY <2>1, <2>2 DEF IInv
<1>3. ASSUME NEW t \in Tab, JamStep(t), UNCHANGED transport
      PROVE IInv'
  BY <1>1, <1>3, JamStepPreserves, JamLeavesTransport DEF IInv, transport
<1>4. ASSUME NEW t \in Tab, Missed(t), audience' = audience \ {t},
             UNCHANGED <<armed, link, playing, last, pending, clock, now, newest>>
      PROVE IInv'
  <2>1. JamInv'
    BY <1>1, <1>4, MissedPreserves DEF Missed
  <2>2. TransportTypeOK'
    BY <1>4, JamLeavesTransport
  <2> QED BY <2>1, <2>2 DEF IInv
<1>5. ASSUME NEW t \in Tab, ToggleSync(t) \/ Play(t) \/ Stop(t)
      PROVE IInv'
  BY <1>5, UserPreserves
<1>6. ASSUME NEW t \in Tab, RetryApply(t) \/ EngineLinks(t)
      PROVE IInv'
  BY <1>6, QuietPreserves
<1>7. ASSUME NEW t \in Tab, NEW u \in Tab, HearTransport(t, u) \/ Measure(t, u) \/ ReloadPage(t, u)
      PROVE IInv'
  BY <1>7, HearTransportPreserves, QuietPreserves, ReloadPagePreserves
<1> QED BY <1>2, <1>3, <1>4, <1>5, <1>6, <1>7 DEF Next

\* Nothing is held, and nothing but a JOIN said.
LEMMA InitHolds == Init => IInv
<1> SUFFICES ASSUME Init PROVE IInv
  OBVIOUS
<1> USE DEF Init, JamInit
<1>1. open = {1, 2} /\ open \subseteq Tab
  BY DEF Tab
<1>2. url \in [Tab -> [jam : Roles, sync : BOOLEAN]]
  <2>1. PICK pair \in Urls : url = [t \in Tab |-> pair[IF t \in open THEN t ELSE 1]]
    OBVIOUS
  <2>2. pair \in [1 .. 2 -> [jam : Roles, sync : BOOLEAN]]
    BY <2>1
  <2> QED BY <1>1, <2>1, <2>2
<1>3. /\ role = [t \in Tab |-> FirstRole(t)] /\ starting = [t \in Tab |-> FirstStarting(t)]
      /\ \A t \in Tab : FirstRole(t) \in {"idle", "listening"} /\ FirstStarting(t) \in {0, 1}
      /\ \A t \in Tab \ open : FirstRole(t) = "idle" /\ FirstStarting(t) = 0
  BY DEF FirstRole, FirstStarting
<1>4. role \in [Tab -> Roles] /\ starting \in [Tab -> Nat]
      /\ \A t \in Tab \ open : role[t] = "idle" /\ starting[t] = 0
  BY <1>3 DEF Roles
<1>5. peers = [t \in Tab |-> NoPeers] /\ peers \in [Tab -> [Tab -> Connection]]
      /\ opened = [t \in Tab |-> {}] /\ opened \in [Tab -> SUBSET Nat]
      /\ made = [t \in Tab |-> 0] /\ made \in [Tab -> Nat]
  BY NoPeersHolds
<1>6. /\ \A t, u \in Tab : relay[t][u] \in {<<>>, <<Join>>}
      /\ relay \in [Tab -> [Tab -> {<<>>, <<Join>>}]]
  OBVIOUS
<1>7. <<>> \in Words /\ <<Join>> \in Words
  BY OrdinaryWords
<1>8. relay \in Relay /\ \A t, u \in Tab : Offers(relay[t][u]) = {} /\ Rising(relay[t][u])
  <2>1. \A w \in Words : w \in Seq(Message) /\ Offers(w) = {} /\ Rising(w)
    BY DEF Words, Offers, Rising
  <2> QED BY ONLY <1>6, <1>7, <2>1 DEF Relay
<1>9. \A t, u \in Tab : ~Has(t, u)
  BY ONLY <1>5, NoPeersHolds DEF Has
<1>10. JamInv
  <2>1. JamTypeOK
    BY ONLY <1>1, <1>2, <1>4, <1>5, <1>8 DEF JamTypeOK
  <2>2. Out
    BY ONLY <1>4, <1>5 DEF Out
  <2>3. Listeners /\ Numbered /\ Held
    BY ONLY <1>5, <1>9 DEF Listeners, Numbered, Held
  <2>4. InTurn
    BY ONLY <1>8, <1>9 DEF InTurn, HeardInTurn, Answered
  <2> QED BY <2>1, <2>2, <2>3, <2>4 DEF JamInv
<1>11. TransportTypeOK
  <2>1. armed \in [Tab -> BOOLEAN]
    <3>1. \A t \in Tab : url[t].sync \in BOOLEAN
      BY ONLY <1>2
    <3> QED BY <3>1
  <2>2. link \in [Tab -> BOOLEAN] /\ playing \in [Tab -> BOOLEAN] /\ mishaps \in Nat
    OBVIOUS
  <2>3. last \in [Tab -> Position \cup {NoAnchor}] /\ pending \in [Tab -> Position \cup {NoAnchor}]
        /\ now \in Nat /\ newest \in Position \cup {NoAnchor} /\ audience \subseteq Tab
    OBVIOUS
  <2>4. clock \in [Tab -> [Tab -> SUBSET Error]]
    OBVIOUS
  <2> QED BY <2>1, <2>2, <2>3, <2>4 DEF TransportTypeOK
<1> QED BY <1>10, <1>11 DEF IInv

(* Every tab holds what it has open, one connection for each other tab, and   *)
(* hears the offers of another in the order they were made (newPeer, onOffer  *)
(* and stop of jam.ts over the relay, which loses but does not reorder).      *)
THEOREM InvariantHolds == Spec => []IInv
BY InitHolds, NextPreserves, PTL DEF Spec

(* What is held and open (Held), and that who is idle holds nothing (Out), is *)
(* what NoStrayConnection says.                                              *)
LEMMA NothingStray == IInv => NoStrayConnection
<1> SUFFICES ASSUME IInv, NEW t \in Tab
      PROVE opened[t] = {peers[t][u].n : u \in {v \in Tab : Has(t, v) /\ role[t] # "idle"}}
  BY DEF NoStrayConnection
<1>1. role[t] = "idle" => \A u \in Tab : ~Has(t, u)
  BY NoPeersHolds DEF IInv, JamInv, Out, Has
<1>2. /\ \A u \in Tab : Has(t, u) => peers[t][u].n \in opened[t]
      /\ \A n \in opened[t] : \E u \in Tab : Has(t, u) /\ peers[t][u].n = n
  BY DEF IInv, JamInv, Held
<1> QED BY <1>1, <1>2

(* A tab keeps no connection it has lost sight of, and none once it is out of *)
(* the jam: newPeer, stop and bye of jam.ts close what they replace.          *)
THEOREM NothingStrayHolds == Spec => []NoStrayConnection
BY InvariantHolds, NothingStray, PTL

-----------------------------------------------------------------------------
(* What a step may not do                                                   *)

\* Both ends see the same.
LEMMA LiveIsMutual == ASSUME NEW t \in Tab, NEW u \in Tab, Live(t, u) PROVE Live(u, t)
  BY DEF Live, Paired

\* Two that hear each other may be parted by a step that changes what one of
\* them holds for the other.
LEMMA OneChanges ==
  ASSUME NEW x \in Tab, NEW y \in Tab, ~Live(x, y),
         \A v, w \in Tab : peers'[v][w] = peers[v][w] \/ (v = x /\ w = y)
  PROVE  \A t, u \in Tab : LiveUnlessLeft(t, u)
<1> SUFFICES ASSUME NEW t \in Tab, NEW u \in Tab, Live(t, u) PROVE (Live(t, u))'
  BY DEF LiveUnlessLeft
<1>1. peers'[t][u] = peers[t][u] /\ peers'[u][t] = peers[u][t]
  BY LiveIsMutual
<1> QED BY <1>1 DEF Live, Paired, Connected, Has

\* Steps that touch no connection.
LEMMA NoneChanges ==
  ASSUME peers' = peers PROVE \A t, u \in Tab : LiveUnlessLeft(t, u)
  BY DEF LiveUnlessLeft, Live, Paired, Connected, Has

\* The other connections stay as they are.
LEMMA Elsewhere ==
  ASSUME JamTypeOK, NEW x \in Tab, NEW y \in Tab, NEW d, peers' = [peers EXCEPT ![x][y] = d]
  PROVE  \A v, w \in Tab : peers'[v][w] = peers[v][w] \/ (v = x /\ w = y)
  BY DEF JamTypeOK

\* An offer is of a later connection than the one that lives: the broadcaster
\* of a live connection made none since.
LEMMA HearSignalKeeps ==
  ASSUME IInv, NEW x \in Tab, NEW y \in Tab, HearSignal(x, y)
  PROVE  \A t, u \in Tab : LiveUnlessLeft(t, u)
<1> DEFINE m == Head(relay[y][x])
           q == [relay EXCEPT ![y][x] = Tail(@)]
<1>1. JamInv /\ JamTypeOK
  BY DEF IInv, JamInv
<1>2. \/ m.kind = "join" /\ HearJoin(x, y, q)
      \/ m.kind = "offer" /\ HearOffer(x, y, m.sdp, q)
      \/ m.kind = "answer" /\ HearAnswer(x, y, m.sdp, q)
      \/ m.kind = "bye" /\ HearBye(x, y, q)
  BY DEF HearSignal
<1>3. m.kind = "offer" => m.sdp \in Offers(relay[y][x])
  <2>1. relay[y][x] \in Seq(Message) /\ relay[y][x] # <<>>
    BY <1>1 DEF JamTypeOK, Relay, HearSignal
  <2> QED BY <2>1, TailIsQuieter DEF IsOffer
<1> HIDE DEF m, q
<1>4. CASE peers' = peers
  BY <1>4, NoneChanges
<1>5. CASE role[x] = "broadcasting" /\ ~Connected(x, y) /\ NewPeer(x, y, "making", None)
  <2>1. PICK d : peers' = [peers EXCEPT ![x][y] = d]
    BY <1>5 DEF NewPeer
  <2> QED BY <1>1, <1>5, <2>1, Elsewhere, OneChanges DEF Live
<1>6. CASE m.kind = "offer" /\ role[x] = "listening" /\ NewPeer(x, y, "answering", m.sdp)
  <2>1. PICK d : peers' = [peers EXCEPT ![x][y] = d]
    BY <1>6 DEF NewPeer
  <2>2. ~Live(x, y)
    <3> SUFFICES ASSUME Live(x, y) PROVE FALSE
      OBVIOUS
    <3> DEFINE n == peers[x][y].other
    <3>1. Has(x, y) /\ Has(y, x) /\ n = peers[y][x].n
      BY DEF Live, Paired
    <3>2. HeardInTurn(relay[y][x], {n}, made[y], peers[y][x])
      BY <1>1, <1>6, <3>1 DEF JamInv, InTurn, Answered, Listening
    <3>3. n \in Nat /\ n # None
      BY <1>1, <3>1 DEF JamTypeOK, Connection, Has
    <3>4. n < m.sdp /\ m.sdp \in 1 .. made[y] /\ m.sdp <= n
      BY <1>3, <1>6, <3>1, <3>2, <3>3 DEF HeardInTurn
    <3>5. made[y] \in Nat
      BY <1>1 DEF JamTypeOK
    <3> QED BY <3>3, <3>4, <3>5
  <2> QED BY <1>1, <2>1, <2>2, Elsewhere, OneChanges
<1>7. CASE HearAnswer(x, y, m.sdp, q) /\ Has(x, y) /\ peers[x][y].st = "offered"
  <2>1. peers' = [peers EXCEPT ![x][y] = [[peers[x][y] EXCEPT !.st = "stable"] EXCEPT !.other = m.sdp]]
    BY <1>1, <1>7 DEF HearAnswer, JamTypeOK, Connection
  <2>2. ~Live(x, y)
    BY <1>7 DEF Live, Paired
  <2> QED BY <1>1, <2>1, <2>2, Elsewhere, OneChanges
<1>8. CASE HearBye(x, y, q)
  <2>1. peers' = [peers EXCEPT ![x][y] = NoPc]
    BY <1>8 DEF HearBye
  <2>2. CASE Live(x, y)
    <3> SUFFICES ASSUME NEW t \in Tab, NEW u \in Tab, Live(t, u)
          PROVE (Live(t, u))' \/ ~(Has(t, u))' \/ ~(Has(u, t))'
      BY DEF LiveUnlessLeft
    <3>1. ~(Has(x, y))'
      BY <1>1, <2>1 DEF JamTypeOK, Has, NoPc, Pc
    <3>2. \A v, w \in Tab : peers'[v][w] = peers[v][w] \/ (v = x /\ w = y)
      BY <1>1, <2>1, Elsewhere
    <3>3. CASE peers'[t][u] = peers[t][u] /\ peers'[u][t] = peers[u][t]
      BY <3>3 DEF Live, Paired, Connected, Has
    <3> QED BY <3>1, <3>2, <3>3
  <2>3. CASE ~Live(x, y)
    BY <1>1, <2>1, <2>3, Elsewhere, OneChanges
  <2> QED BY <2>2, <2>3
<1> QED BY <1>2, <1>4, <1>5, <1>6, <1>7, <1>8
      DEF HearJoin, HearOffer, HearAnswer, NothingElse, Welcome

\* What lives is described, connected, and not found lost.
LEMMA BrowserKeeps ==
  ASSUME IInv, NEW x \in Tab, NEW y \in Tab,
         Described(x, y) \/ Connect(x, y) \/ PeerLost(x, y) \/ Resume(x, y)
  PROVE  \A t, u \in Tab : LiveUnlessLeft(t, u)
<1>1. JamTypeOK
  BY DEF IInv, JamInv
<1>2. ~Live(x, y)
  BY DEF Described, Connect, PeerLost, Resume, Live, Paired, Connected
<1>3. PICK d : peers' = [peers EXCEPT ![x][y] = d]
  <2>1. CASE Described(x, y)
    BY <2>1 DEF Described
  <2>2. CASE Connect(x, y)
    BY <2>2 DEF Connect
  <2>3. CASE PeerLost(x, y)
    BY <2>3 DEF PeerLost
  <2>4. CASE Resume(x, y)
    BY <2>4 DEF Resume
  <2> QED BY <2>1, <2>2, <2>3, <2>4
<1> QED BY <1>1, <1>2, <1>3, Elsewhere, OneChanges

\* Who presses the button leaves, or holds nothing.
LEMMA PressJamKeeps ==
  ASSUME IInv, NEW x \in Tab, PressJam(x)
  PROVE  \A t, u \in Tab : LiveUnlessLeft(t, u)
<1>1. CASE role[x] = "idle"
  BY <1>1, NoneChanges DEF PressJam
<1>2. CASE role[x] # "idle"
  <2>1. role' = [role EXCEPT ![x] = "idle"] /\ peers' = [peers EXCEPT ![x] = NoPeers]
    BY <1>2 DEF PressJam, StopJam
  <2>2. role'[x] # role[x] /\ \A v \in Tab : v # x => peers'[v] = peers[v]
    BY <1>2, <2>1 DEF IInv, JamInv, JamTypeOK
  <2> SUFFICES ASSUME NEW t \in Tab, NEW u \in Tab, Live(t, u), t # x, u # x
        PROVE (Live(t, u))'
    BY <2>2 DEF LiveUnlessLeft
  <2>3. peers'[t] = peers[t] /\ peers'[u] = peers[u]
    BY <2>2
  <2> QED BY <2>3 DEF Live, Paired, Connected, Has
<1> QED BY <1>1, <1>2

\* The first half of SessionHolds, for every step.
LEMMA LivesUnlessLeft ==
  ASSUME IInv, Next PROVE \A t, u \in Tab : LiveUnlessLeft(t, u)
<1>1. ASSUME NEW x \in Tab, StreamReady(x) \/ Retry(x) \/ Missed(x)
      PROVE peers' = peers
  BY <1>1 DEF StreamReady, Retry, Missed, Reconnect, Skip
<1>2. ASSUME NEW x \in Tab, PressJam(x)
      PROVE \A t, u \in Tab : LiveUnlessLeft(t, u)
  BY <1>2, PressJamKeeps
<1>3. ASSUME NEW x \in Tab, NEW y \in Tab, HearSignal(x, y)
      PROVE \A t, u \in Tab : LiveUnlessLeft(t, u)
  BY <1>3, HearSignalKeeps
<1>4. ASSUME NEW x \in Tab, NEW y \in Tab,
             Described(x, y) \/ Connect(x, y) \/ PeerLost(x, y) \/ Resume(x, y)
      PROVE \A t, u \in Tab : LiveUnlessLeft(t, u)
  BY <1>4, BrowserKeeps
<1>5. ASSUME NEW x \in Tab, NEW y \in Tab, NetworkFails(x, y)
      PROVE mishaps' # mishaps
  BY <1>5 DEF NetworkFails, Mishap, IInv, TransportTypeOK
<1>6. ASSUME NEW x \in Tab, ToggleSync(x) \/ Play(x) \/ Stop(x)
      PROVE peers' = peers
  BY <1>6 DEF ToggleSync, Play, Stop
<1>7. ASSUME NEW x \in Tab, RetryApply(x) \/ EngineLinks(x)
      PROVE peers' = peers
  BY <1>7, QuietPreserves DEF jam
<1>8. ASSUME NEW x \in Tab, NEW y \in Tab, HearTransport(x, y) \/ Measure(x, y)
      PROVE peers' = peers
  BY <1>8, QuietPreserves DEF jam, HearTransport
<1>9. ASSUME NEW x \in Tab, NEW y \in Tab, ReloadPage(x, y)
      PROVE open' # open
  BY <1>9 DEF ReloadPage, Reload
<1>10. ASSUME mishaps' # mishaps \/ open' # open PROVE \A t, u \in Tab : LiveUnlessLeft(t, u)
  BY <1>10 DEF LiveUnlessLeft
<1> QED BY <1>1, <1>2, <1>3, <1>4, <1>5, <1>6, <1>7, <1>8, <1>9, <1>10, NoneChanges
      DEF Next, JamStep, JamWorks

\* Who listens is not driven.
LEMMA ListenersAreNotDriven ==
  ASSUME IInv, Next PROVE \A t \in Tab : NotDriven(t)
<1>1. playing \in [Tab -> BOOLEAN]
  BY DEF IInv, TransportTypeOK
<1> SUFFICES ASSUME NEW t \in Tab, t \in open, Listening(t), ~playing[t] PROVE ~playing'[t]
  BY DEF NotDriven
<1>2. ASSUME playing' = playing PROVE ~playing'[t]
  BY <1>2
<1>3. ASSUME NEW x \in Tab, Play(x) PROVE ~playing'[t]
  BY <1>1, <1>3 DEF Play
<1>4. ASSUME NEW x \in Tab, Stop(x) PROVE ~playing'[t]
  BY <1>1, <1>4 DEF Stop
<1>5. ASSUME NEW x \in Tab, RetryApply(x) \/ EngineLinks(x) PROVE ~playing'[t]
  BY <1>5, QuietPreserves
<1>6. ASSUME NEW x \in Tab, NEW y \in Tab, HearTransport(x, y) \/ Measure(x, y) PROVE ~playing'[t]
  BY <1>6, HearTransportPreserves, QuietPreserves
<1>7. ASSUME NEW x \in Tab, NEW y \in Tab, ReloadPage(x, y) PROVE ~playing'[t]
  <2>1. t # y /\ playing' = [playing EXCEPT ![x] = FALSE, ![y] = playing[x]]
    BY <1>7 DEF ReloadPage, Reload
  <2> QED BY <1>1, <2>1
<1>8. ASSUME NEW x \in Tab, ToggleSync(x) PROVE playing' = playing
  BY <1>8 DEF ToggleSync
<1> QED BY <1>2, <1>3, <1>4, <1>5, <1>6, <1>7, <1>8 DEF Next, transport

(* "A retried JOIN from an ALREADY-CONNECTED peer must not tear its live      *)
(* connection down" (jam.ts:212), nor does an offer, an answer or a timer; and *)
(* anchors are "never applied" by who listens (transport_sync.ts:22-24).       *)
THEOREM SessionIsKept == Spec => SessionHolds
<1>1. IInv /\ [Next]_vars =>
        [(\A t, u \in Tab : LiveUnlessLeft(t, u)) /\ (\A t \in Tab : NotDriven(t))]_vars
  BY LivesUnlessLeft, ListenersAreNotDriven
<1> QED BY <1>1, InvariantHolds, PTL DEF Spec, SessionHolds

-----------------------------------------------------------------------------
(* Anchors under way                                                        *)

\* The anchors of a queue, that they are in the order of their times, and that
\* somebody asks in it where the performance is.
IsAnchor(m) == m.kind \in {"anchor", "rejoin"}
Anchors(q) == {q[i] : i \in {j \in DOMAIN q : IsAnchor(q[j])}}
Climbing(q) ==
  \A i, j \in DOMAIN q : i < j /\ IsAnchor(q[i]) /\ IsAnchor(q[j]) => q[i].at < q[j].at
Asks(q) == \E i \in DOMAIN q : q[i].kind = "where"

\* Messages that are neither.
Chatter == {w \in Seq(Message) : Anchors(w) = {} /\ ~Asks(w)}

\* What hearing does to the anchors of a queue.
LEMMA HearingAnchors ==
  ASSUME NEW q \in Seq(Message), q # <<>>
  PROVE  /\ Climbing(q) => Climbing(Tail(q))
         /\ Anchors(Tail(q)) \subseteq Anchors(q) /\ (Asks(Tail(q)) => Asks(q))
         /\ Anchors(q) = Anchors(Tail(q)) \cup (IF IsAnchor(Head(q)) THEN {Head(q)} ELSE {})
         /\ Asks(q) <=> Asks(Tail(q)) \/ Head(q).kind = "where"
         /\ IsAnchor(Head(q)) /\ Climbing(q) => \A a \in Anchors(Tail(q)) : Head(q).at < a.at
<1>1. /\ Tail(q) \in Seq(Message) /\ Len(q) \in Nat /\ Len(Tail(q)) = Len(q) - 1
      /\ DOMAIN q = 1 .. Len(q) /\ DOMAIN Tail(q) = 1 .. Len(q) - 1
      /\ 1 \in DOMAIN q /\ Head(q) = q[1] /\ Head(q) \in Message
  BY HeadTailProperties
<1>2. \A i \in DOMAIN Tail(q) : Tail(q)[i] = q[i + 1] /\ i + 1 \in DOMAIN q /\ 1 < i + 1
  BY <1>1, HeadTailProperties
<1>3. \A i \in DOMAIN q : i = 1 \/ (i - 1 \in DOMAIN Tail(q) /\ Tail(q)[i - 1] = q[i])
  BY <1>1, <1>2
<1>4. Climbing(q) => Climbing(Tail(q))
  <2>1. \A i, j \in DOMAIN Tail(q) : i < j => i + 1 < j + 1
    BY <1>1
  <2> QED BY <1>2, <2>1 DEF Climbing
<1>5. Anchors(q) = Anchors(Tail(q)) \cup (IF IsAnchor(Head(q)) THEN {Head(q)} ELSE {})
  <2>1. Anchors(Tail(q)) \subseteq Anchors(q)
    BY <1>2 DEF Anchors
  <2>2. \A a \in Anchors(q) : a \in Anchors(Tail(q)) \/ (IsAnchor(Head(q)) /\ a = Head(q))
    BY ZenonT(60), <1>1, <1>3 DEF Anchors
  <2>3. IsAnchor(Head(q)) => Head(q) \in Anchors(q)
    BY <1>1 DEF Anchors
  <2> QED BY <2>1, <2>2, <2>3
<1>6. Asks(q) <=> Asks(Tail(q)) \/ Head(q).kind = "where"
  <2>1. Asks(Tail(q)) => Asks(q)
    BY <1>2 DEF Asks
  <2>2. Head(q).kind = "where" => Asks(q)
    BY <1>1 DEF Asks
  <2>3. ASSUME NEW i \in DOMAIN q, q[i].kind = "where"
        PROVE Asks(Tail(q)) \/ Head(q).kind = "where"
    BY <1>1, <1>3, <2>3 DEF Asks
  <2> QED BY <2>1, <2>2, <2>3 DEF Asks
<1>7. IsAnchor(Head(q)) /\ Climbing(q) => \A a \in Anchors(Tail(q)) : Head(q).at < a.at
  BY <1>1, <1>2 DEF Anchors, Climbing
<1> QED BY <1>4, <1>5, <1>6, <1>7

\* And saying.
LEMMA SayingAnchors ==
  ASSUME NEW q \in Seq(Message), NEW w \in Seq(Message)
  PROVE  /\ Anchors(q \o w) = Anchors(q) \cup Anchors(w)
         /\ Asks(q \o w) <=> Asks(q) \/ Asks(w)
         /\ Climbing(q) /\ Climbing(w) /\ (\A a \in Anchors(q), b \in Anchors(w) : a.at < b.at)
              => Climbing(q \o w)
<1> DEFINE r == q \o w
<1>1. /\ r \in Seq(Message) /\ Len(q) \in Nat /\ Len(w) \in Nat
      /\ DOMAIN q = 1 .. Len(q) /\ DOMAIN w = 1 .. Len(w) /\ DOMAIN r = 1 .. Len(q) + Len(w)
      /\ \A i \in 1 .. Len(q) : r[i] = q[i]
      /\ \A i \in Len(q) + 1 .. Len(q) + Len(w) : r[i] = w[i - Len(q)]
  BY ConcatProperties
<1> HIDE DEF r
<1>2. \A i \in DOMAIN r : \/ i \in DOMAIN q /\ r[i] = q[i]
                          \/ i - Len(q) \in DOMAIN w /\ r[i] = w[i - Len(q)] /\ i > Len(q)
  BY <1>1
<1>3. /\ \A i \in DOMAIN q : i \in DOMAIN r /\ r[i] = q[i] /\ i <= Len(q)
      /\ \A i \in DOMAIN w : i + Len(q) \in DOMAIN r /\ r[i + Len(q)] = w[i]
  BY <1>1
<1>4. Anchors(r) = Anchors(q) \cup Anchors(w)
  <2>1. Anchors(r) \subseteq Anchors(q) \cup Anchors(w)
    BY <1>2 DEF Anchors
  <2>2. Anchors(q) \subseteq Anchors(r) /\ Anchors(w) \subseteq Anchors(r)
    BY <1>3 DEF Anchors
  <2> QED BY <2>1, <2>2
<1>5. Asks(r) <=> Asks(q) \/ Asks(w)
  BY <1>2, <1>3 DEF Asks
<1>6. ASSUME Climbing(q), Climbing(w), \A a \in Anchors(q), b \in Anchors(w) : a.at < b.at
      PROVE Climbing(r)
  <2> SUFFICES ASSUME NEW i \in DOMAIN r, NEW j \in DOMAIN r, i < j, IsAnchor(r[i]), IsAnchor(r[j])
        PROVE r[i].at < r[j].at
    BY DEF Climbing
  <2>1. CASE i \in DOMAIN q /\ r[i] = q[i] /\ j \in DOMAIN q /\ r[j] = q[j]
    BY <1>6, <2>1 DEF Climbing
  <2>2. CASE i \in DOMAIN q /\ r[i] = q[i] /\ j - Len(q) \in DOMAIN w /\ r[j] = w[j - Len(q)]
    BY <1>6, <2>2 DEF Anchors
  <2>3. CASE /\ i - Len(q) \in DOMAIN w /\ r[i] = w[i - Len(q)]
             /\ j - Len(q) \in DOMAIN w /\ r[j] = w[j - Len(q)]
    <3>1. i - Len(q) < j - Len(q)
      BY <1>1
    <3> QED BY <1>6, <2>3, <3>1 DEF Climbing
  <2>4. ~(i - Len(q) \in DOMAIN w /\ i > Len(q) /\ j \in DOMAIN q)
    BY <1>1
  <2> QED BY <1>2, <2>1, <2>2, <2>3, <2>4
<1> QED BY <1>4, <1>5, <1>6 DEF r

\* One message.
LEMMA OneMessage ==
  ASSUME NEW m \in Message
  PROVE  /\ <<m>> \in Seq(Message) /\ Climbing(<<m>>)
         /\ Anchors(<<m>>) = (IF IsAnchor(m) THEN {m} ELSE {})
         /\ Asks(<<m>>) <=> m.kind = "where"
<1>1. <<m>> \in Seq(Message) /\ DOMAIN <<m>> = {1} /\ <<m>>[1] = m
  OBVIOUS
<1> QED BY <1>1 DEF Climbing, Anchors, Asks

\* What is said in the jam.
LEMMA JamIsChatter ==
  /\ <<>> \in Chatter /\ <<Join>> \in Chatter /\ <<Bye>> \in Chatter /\ <<Bye, Join>> \in Chatter
  /\ \A n \in Nat : <<Offer(n)>> \in Chatter /\ <<Answer(n)>> \in Chatter
  /\ <<Where>> \in Seq(Message) /\ Anchors(<<Where>>) = {} /\ Climbing(<<Where>>)
  /\ \A w \in Chatter : Climbing(w)
<1>1. Join \in Message /\ Bye \in Message /\ Where \in Message
  BY DEF Join, Bye, Where, Message
<1>2. \A n \in Nat : Offer(n) \in Message /\ Answer(n) \in Message
  BY DEF Offer, Answer, Message
<1>3. <<>> \in Chatter
  BY DEF Chatter, Anchors, Asks
<1>4. /\ ~IsAnchor(Join) /\ ~IsAnchor(Bye) /\ ~IsAnchor(Where)
      /\ Join.kind # "where" /\ Bye.kind # "where"
      /\ \A n \in Nat : /\ ~IsAnchor(Offer(n)) /\ ~IsAnchor(Answer(n))
                        /\ Offer(n).kind # "where" /\ Answer(n).kind # "where"
  BY DEF IsAnchor, Join, Bye, Where, Offer, Answer
<1>5. <<Bye, Join>> = <<Bye>> \o <<Join>>
  OBVIOUS
<1>6. \A w \in Chatter : Climbing(w)
  BY DEF Chatter, Anchors, Climbing
<1>7. <<Join>> \in Chatter /\ <<Bye>> \in Chatter
  BY <1>1, <1>4, OneMessage DEF Chatter
<1>8. <<Bye, Join>> \in Chatter
  <2>1. <<Bye>> \o <<Join>> \in Seq(Message)
    BY <1>7, ConcatProperties DEF Chatter
  <2>2. Anchors(<<Bye>> \o <<Join>>) = {} /\ ~Asks(<<Bye>> \o <<Join>>)
    <3>1. /\ <<Bye>> \in Seq(Message) /\ Anchors(<<Bye>>) = {} /\ ~Asks(<<Bye>>)
          /\ <<Join>> \in Seq(Message) /\ Anchors(<<Join>>) = {} /\ ~Asks(<<Join>>)
      BY <1>7 DEF Chatter
    <3> QED BY <3>1, SayingAnchors
  <2>3. <<Bye>> \o <<Join>> \in Chatter
    BY <2>1, <2>2 DEF Chatter
  <2> QED BY <1>5, <2>3
<1>9. \A n \in Nat : <<Offer(n)>> \in Chatter /\ <<Answer(n)>> \in Chatter
  BY <1>2, <1>4, OneMessage DEF Chatter
<1> QED BY <1>1, <1>3, <1>4, <1>6, <1>7, <1>8, <1>9, OneMessage

\* The anchors under way from u to t, and those that t is yet to apply.
Way(u, t) == Anchors(relay[u][t])
Asked(u, t) == Asks(relay[u][t])
Climbs(u, t) == Climbing(relay[u][t])
Coming(t) == (UNION {Way(u, t) : u \in Tab}) \cup ({pending[t]} \ {NoAnchor})
InFlight == \E u, t \in Tab : \E a \in Way(u, t) : a.kind = "anchor"

-----------------------------------------------------------------------------
(* The inductive invariant of the anchors                                   *)

\* Clocks are estimated exactly, and users act on what they see.
Exact == Error = {0} /\ ~Hasty

\* Two pages are open; a page that is not has no SYNC and nothing comes to it.
TwoPages == \A t, u, v \in open : t = u \/ u = v \/ v = t
Absent ==
  \A t \in Tab \ open :
    /\ ~armed[t] /\ pending[t] = NoAnchor /\ t \notin audience
    /\ \A u \in Tab : Way(u, t) = {} /\ ~Asked(u, t)

\* What comes from a tab comes in the order it was said, to another tab.
InTheirOrder ==
  \A t, u \in Tab :
    /\ Climbs(u, t)
    /\ \A a \in Way(u, t) : a.from = u /\ u # t
    /\ Asked(u, t) => u # t
    /\ pending[t] # NoAnchor =>
         pending[t].from # t /\ \A a \in Way(u, t) : pending[t].at < a.at

\* All that comes to a tab is from one, the other open page when that has SYNC.
OneSpeaker ==
  \A t \in Tab :
    /\ \A a, b \in Coming(t) : a.from = b.from
    /\ t \in open => \A u \in open \ {t} : armed[u] => \A a \in Coming(t) : a.from = u

\* Nothing is newer than the newest anchor.
NewestIsLast ==
  /\ newest.at >= 0 /\ newest.at <= now
  /\ \A t \in Tab : ~Newer(last[t], newest) /\ \A a \in Coming(t) : a.at >= 0 /\ ~Newer(a, newest)

\* Pages are numbered as they are loaded: none has spoken that is not loaded yet.
Met ==
  /\ \E u \in open : newest.from <= u
  /\ \A t \in Tab : \A a \in Coming(t) : \E u \in open : a.from <= u

\* One tab at a time asks where the performance is, of tabs to whom no anchor
\* comes, and nothing is published until it is answered.
Questions ==
  /\ \A t, u, v, w \in Tab : Asked(u, t) /\ Asked(w, v) => u = w
  /\ \A t, u \in Tab : Asked(u, t) => Coming(t) = {}
  /\ (\E t, u \in Tab : Asked(u, t)) => ~InFlight

\* While an anchor is under way, one more may be said at the same time: by a tab
\* that said no other then; the newest is one that was published, by an open tab
\* if both have SYNC; and a tab took last the newest one if it is its own.
Own ==
  /\ InFlight => \A t \in Tab : \A a \in Coming(t) :
       a.from \in open => a.at < now \/ a.at <= last[a.from].at
  /\ InFlight => /\ newest.kind = "anchor"
                 /\ (\A t \in open : armed[t]) => newest.from \in open
  /\ newest.kind = "anchor" /\ newest.from \in open => last[newest.from] = newest

\* A tab of the audience does what the newest anchor says, or will once the last
\* of what comes to it is applied; a listener is of it by its own stop.
Agreed ==
  \A t \in audience :
    /\ armed[t] /\ link[t]
    /\ Listening(t) => newest = last[t] /\ newest.from = t /\ ~newest.playing /\ ~playing[t]
    /\ (\A a \in Coming(t) : Older(a.from, a.at, last[t])) => playing[t] = newest.playing
    /\ \A a \in Coming(t) : (\A b \in Coming(t) : b.at <= a.at) =>
         Older(a.from, a.at, last[t]) \/ a.playing = newest.playing
    /\ InFlight => newest \in Coming(t) \/ last[t].at >= newest.at

AnchorInv ==
  /\ TwoPages /\ Absent /\ InTheirOrder /\ OneSpeaker /\ NewestIsLast /\ Met
  /\ Questions /\ Own /\ Agreed

\* These as of the next state.
LEMMA NextQueues ==
  ASSUME NEW u \in Tab, NEW t \in Tab
  PROVE  /\ Way(u, t)' = Anchors(relay'[u][t])
         /\ Asked(u, t)' <=> Asks(relay'[u][t])
         /\ Climbs(u, t)' <=> Climbing(relay'[u][t])
<1>1. Way(u, t)' = Anchors(relay'[u][t])
  BY DEF Way, Anchors, IsAnchor
<1>2. Asked(u, t)' <=> Asks(relay'[u][t])
  BY DEF Asked, Asks
<1>3. Climbs(u, t)' <=> Climbing(relay'[u][t])
  BY DEF Climbs, Climbing, IsAnchor
<1> QED BY <1>1, <1>2, <1>3

\* What comes to a tab next, by queue.
LEMMA NextComing ==
  ASSUME NEW t \in Tab
  PROVE  Coming(t)' = (UNION {Way(u, t)' : u \in Tab}) \cup ({pending'[t]} \ {NoAnchor})
  BY DEF Coming, NoAnchor

\* Whether an anchor is under way next.
LEMMA NextInFlight == InFlight' <=> \E u, t \in Tab : \E a \in Way(u, t)' : a.kind = "anchor"
  BY DEF InFlight

\* A queue from which anchors are lost at most, and one that keeps them.
Calmer(r, q) ==
  Anchors(r) \subseteq Anchors(q) /\ (Asks(r) => Asks(q)) /\ (Climbing(q) => Climbing(r))

\* A step that says and applies no anchor, and leaves all that comes to the audience.
LEMMA CalmStep ==
  ASSUME AnchorInv,
         UNCHANGED <<open, armed, last, pending, now, newest>>,
         \A t \in Tab : link[t] => link'[t],
         audience \subseteq Tab, audience' \subseteq audience,
         \A u, t \in Tab : Calmer(relay'[u][t], relay[u][t]),
         \A t \in audience' :
           /\ playing'[t] = playing[t] /\ (role'[t] = "listening" => role[t] = "listening")
           /\ \A u \in Tab : Anchors(relay'[u][t]) = Anchors(relay[u][t])
  PROVE  AnchorInv'
<1>1. \A u, t \in Tab : /\ Way(u, t)' \subseteq Way(u, t) /\ (Asked(u, t)' => Asked(u, t))
                        /\ Climbs(u, t) => Climbs(u, t)'
  BY NextQueues DEF Calmer, Way, Asked, Climbs
<1>2. \A t \in Tab : Coming(t)' \subseteq Coming(t)
  BY ONLY <1>1, NextComing, UNCHANGED pending DEF Coming
<1>3. \A t \in audience' : Coming(t)' = Coming(t)
  <2>1. \A t \in audience', u \in Tab : Way(u, t)' = Way(u, t)
    BY NextQueues DEF Way
  <2> QED BY <2>1, NextComing DEF Coming
<1>4. InFlight' => InFlight
  BY <1>1, NextInFlight DEF InFlight
<1>5. TwoPages'
  BY DEF AnchorInv, TwoPages
<1>6. Absent'
  BY <1>1 DEF AnchorInv, Absent
<1>7. InTheirOrder'
  BY <1>1 DEF AnchorInv, InTheirOrder
<1>8. OneSpeaker'
  BY <1>2 DEF AnchorInv, OneSpeaker
<1>9. NewestIsLast'
  BY <1>2 DEF AnchorInv, NewestIsLast, Newer
<1>10. Questions'
  BY <1>1, <1>2, <1>4 DEF AnchorInv, Questions
<1>11. Own'
  BY <1>2, <1>4 DEF AnchorInv, Own
<1>12. Agreed'
  BY <1>3, <1>4 DEF AnchorInv, Agreed, Listening, Older
<1>13. Met'
  BY <1>2 DEF AnchorInv, Met
<1> QED BY <1>5, <1>13, <1>6, <1>7, <1>8, <1>9, <1>10, <1>11, <1>12 DEF AnchorInv

-----------------------------------------------------------------------------
(* Steps that say no anchor                                                 *)

\* A queue that keeps its anchors.
Alike(r, q) == Anchors(r) = Anchors(q) /\ (Asks(r) <=> Asks(q)) /\ (Climbing(q) => Climbing(r))

\* Queues after something is said, and heard.
LEMMA AfterSaying ==
  ASSUME NEW q \in Relay, NEW t \in Tab, NEW us, NEW w,
         NEW v \in Tab, NEW x \in Tab
  PROVE  SentTo(q, t, us, w)[v][x] = IF v = t /\ x \in us \ {t} THEN q[v][x] \o w ELSE q[v][x]
  BY DEF SentTo, Relay

\* The queues after one is heard.
LEMMA AfterHearing ==
  ASSUME NEW q \in Relay, NEW t \in Tab, NEW u \in Tab, NEW v \in Tab, NEW x \in Tab
  PROVE  [q EXCEPT ![u][t] = Tail(@)][v][x] = IF v = u /\ x = t THEN Tail(q[v][x]) ELSE q[v][x]
  BY DEF Relay

\* Saying what is no anchor.
LEMMA ChatterIsAlike ==
  ASSUME NEW q \in Relay, NEW t \in Tab, NEW us, NEW w \in Chatter, NEW v \in Tab, NEW x \in Tab
  PROVE  Alike(SentTo(q, t, us, w)[v][x], q[v][x])
<1>1. q[v][x] \in Seq(Message) /\ w \in Seq(Message)
  BY DEF Relay, Chatter
<1>2. Climbing(w) /\ Anchors(w) = {} /\ ~Asks(w)
  BY JamIsChatter DEF Chatter
<1>3. Alike(q[v][x] \o w, q[v][x])
  <2> DEFINE o == q[v][x]
  <2>1. /\ Anchors(o \o w) = Anchors(o) \cup Anchors(w)
        /\ Asks(o \o w) <=> Asks(o) \/ Asks(w)
        /\ Climbing(o) /\ Climbing(w) /\ (\A a \in Anchors(o), b \in Anchors(w) : a.at < b.at)
             => Climbing(o \o w)
    BY ONLY <1>1, SayingAnchors
  <2> QED BY ONLY <1>2, <2>1 DEF Alike
<1>4. Alike(q[v][x], q[v][x])
  BY DEF Alike
<1> QED BY <1>3, <1>4, AfterSaying

\* A relay that lost nothing but questions.
Emptier(r, q) ==
  \A u, v \in Tab : Calmer(r[u][v], q[u][v]) /\ Anchors(r[u][v]) = Anchors(q[u][v])

\* The relay left alone loses nothing.
LEMMA SameIsEmptier == ASSUME NEW q PROVE Emptier(q, q)
  BY DEF Emptier, Calmer

\* Nor does a queue left alone; losses of nothing compose.
LEMMA SameIsAlike == ASSUME NEW q PROVE Alike(q, q)
  BY DEF Alike

\* Two steps that keep the anchors of a queue.
LEMMA AlikeIsTransitive == ASSUME NEW q, NEW r, NEW s, Alike(r, q), Alike(s, r) PROVE Alike(s, q)
  BY DEF Alike

\* A signal of the jam is heard.
LEMMA SignalIsNoAnchor ==
  ASSUME NEW q \in Relay, NEW t \in Tab, NEW u \in Tab, q[u][t] # <<>>,
         Head(q[u][t]).kind \in Signals, NEW v \in Tab, NEW x \in Tab
  PROVE  Alike([q EXCEPT ![u][t] = Tail(@)][v][x], q[v][x])
<1>1. q[u][t] \in Seq(Message) /\ ~IsAnchor(Head(q[u][t])) /\ Head(q[u][t]).kind # "where"
  BY DEF Relay, Signals, IsAnchor
<1>2. Alike(Tail(q[u][t]), q[u][t])
  BY ZenonT(60), <1>1, HearingAnchors DEF Alike
<1> QED BY <1>2, AfterHearing, SameIsAlike

\* The jam says no anchor, and nobody begins to listen but a page as it loads.
LEMMA JamSaysNoAnchor ==
  ASSUME JamInv, NEW t \in Tab, JamStep(t)
  PROVE  /\ open' = open
         /\ \A v, x \in Tab : Alike(relay'[v][x], relay[v][x])
         /\ \A v \in Tab : role'[v] = "listening" => role[v] = "listening"
<1> DEFINE Quietly(r) == \A v, x \in Tab : Alike(r[v][x], relay[v][x])
           Roles3 == \A v \in Tab : role'[v] = "listening" => role[v] = "listening"
<1>1. relay \in Relay /\ role \in [Tab -> Roles]
      /\ \A u \in Tab : peers[t][u].n \in Nat
  BY DEF JamInv, JamTypeOK, Connection
<1>2. Quietly(relay)
  BY SameIsAlike
<1>3. ASSUME NEW us, NEW w \in Chatter PROVE Quietly(SentTo(relay, t, us, w))
  BY <1>1, ChatterIsAlike
<1>4. CASE PressJam(t)
  <2>1. relay' = relay \/ relay' = SentTo(relay, t, open, <<Bye>>)
    BY <1>4 DEF PressJam, StopJam, Said
  <2>2. Roles3 /\ open' = open
    BY <1>1, <1>4 DEF PressJam, StopJam
  <2> QED BY <1>2, <1>3, <2>1, <2>2, JamIsChatter
<1>5. CASE StreamReady(t) \/ Retry(t)
  <2>1. relay' = relay \/ \E w \in {<<Join>>, <<Bye, Join>>} : relay' = SentTo(relay, t, open, w)
    BY <1>5 DEF StreamReady, Retry, Said
  <2>2. Roles3 /\ open' = open
    BY <1>1, <1>5 DEF StreamReady, Retry
  <2> QED BY <1>2, <1>3, <2>1, <2>2, JamIsChatter
<1>6. ASSUME NEW u \in Tab,
             Connect(t, u) \/ PeerLost(t, u) \/ NetworkFails(t, u) \/ Resume(t, u)
      PROVE Quietly(relay') /\ Roles3 /\ open' = open
  <2>1. UNCHANGED <<relay, role, open>>
    BY <1>6 DEF Connect, PeerLost, NetworkFails, Resume
  <2> QED BY <1>2, <2>1
<1>7. ASSUME NEW u \in Tab, Described(t, u)
      PROVE Quietly(relay') /\ Roles3 /\ open' = open
  <2>1. UNCHANGED <<role, open>>
        /\ \E w \in {<<Offer(peers[t][u].n)>>, <<Answer(peers[t][u].n)>>} :
             relay' = SentTo(relay, t, open \cap {u}, w)
    BY <1>7 DEF Described
  <2> QED BY <1>1, <1>3, <2>1, JamIsChatter
<1>8. ASSUME NEW u \in Tab, HearSignal(t, u)
      PROVE Quietly(relay') /\ Roles3 /\ open' = open
  <2> DEFINE q == [relay EXCEPT ![u][t] = Tail(@)]
  <2>1. UNCHANGED <<role, open>> /\ (relay' = q \/ relay' = SentTo(q, t, open, <<Join>>))
    BY <1>8 DEF HearSignal, HearJoin, HearOffer, HearAnswer, HearBye, NothingElse, Said
  <2>2. relay[u][t] # <<>> /\ Head(relay[u][t]).kind \in Signals
    BY <1>8 DEF HearSignal
  <2>3. q \in Relay
    BY <1>1, <2>2, HearingIsQuieter DEF AllQuieter
  <2>4. Quietly(q)
    BY <1>1, <2>2, SignalIsNoAnchor
  <2> HIDE DEF q
  <2>5. \A v, x \in Tab : Alike(SentTo(q, t, open, <<Join>>)[v][x], q[v][x])
    BY <2>3, ChatterIsAlike, JamIsChatter
  <2>6. Quietly(SentTo(q, t, open, <<Join>>))
    BY <2>4, <2>5, AlikeIsTransitive
  <2> QED BY <2>1, <2>4, <2>6
<1> QED BY <1>4, <1>5, <1>6, <1>7, <1>8 DEF JamStep, JamWorks

\* What the jam does to the anchors.
LEMMA JamKeepsAnchors ==
  ASSUME IInv, AnchorInv, NEW t \in Tab, JamStep(t), UNCHANGED transport
  PROVE  AnchorInv'
<1>1. /\ open' = open /\ \A v, x \in Tab : Alike(relay'[v][x], relay[v][x])
      /\ \A v \in Tab : role'[v] = "listening" => role[v] = "listening"
  BY JamSaysNoAnchor DEF IInv
<1>2. audience \subseteq Tab
  BY DEF IInv, TransportTypeOK
<1>3. UNCHANGED <<armed, link, playing, last, pending, now, newest, audience>>
  BY DEF transport
<1>4. \A v, x \in Tab : Calmer(relay'[v][x], relay[v][x])
                        /\ Anchors(relay'[v][x]) = Anchors(relay[v][x])
  BY <1>1 DEF Alike, Calmer
<1> QED BY <1>1, <1>2, <1>3, <1>4, CalmStep

\* What the relay loses; who missed it is no longer of the audience.
LEMMA MissedKeepsAnchors ==
  ASSUME IInv, AnchorInv, NEW t \in Tab, Missed(t), audience' = audience \ {t},
         UNCHANGED <<armed, link, playing, last, pending, clock, now, newest>>
  PROVE  AnchorInv'
<1>1. relay \in Relay /\ audience \subseteq Tab
  BY DEF IInv, JamInv, JamTypeOK, TransportTypeOK
<1>2. UNCHANGED <<open, role>>
  BY DEF Missed, Reconnect, Skip
<1>3. \A v, x \in Tab : /\ Calmer(relay'[v][x], relay[v][x])
                        /\ x # t => Anchors(relay'[v][x]) = Anchors(relay[v][x])
  <2>1. CASE Reconnect(t)
    <3> DEFINE q == [v \in Tab |-> [relay[v] EXCEPT ![t] = <<>>]]
    <3>1. \E w \in {<<>>, <<Join>>} : relay' = SentTo(q, t, open, w)
      BY <2>1 DEF Reconnect, Said
    <3>2. q \in Relay
      BY <1>1, MissingIsQuieter DEF AllQuieter
    <3>3. \A v, x \in Tab : q[v][x] = relay[v][x] \/ (x = t /\ q[v][x] = <<>>)
      BY <1>1 DEF Relay
    <3> HIDE DEF q
    <3>4. \A v, x \in Tab : Alike(relay'[v][x], q[v][x])
      BY <3>1, <3>2, ChatterIsAlike, JamIsChatter
    <3>5. Anchors(<<>>) = {} /\ ~Asks(<<>>) /\ Climbing(<<>>)
      BY JamIsChatter DEF Chatter
    <3> QED BY <3>3, <3>4, <3>5 DEF Alike, Calmer
  <2>2. ASSUME NEW u \in Tab, Skip(t, u)
        PROVE \A v, x \in Tab : /\ Calmer(relay'[v][x], relay[v][x])
                                /\ x # t => Anchors(relay'[v][x]) = Anchors(relay[v][x])
    <3>1. relay[u][t] # <<>> /\ relay' = [relay EXCEPT ![u][t] = Tail(@)]
      BY <2>2 DEF Skip
    <3>2. Calmer(Tail(relay[u][t]), relay[u][t])
      BY <1>1, <3>1, HearingAnchors DEF Calmer, Relay
    <3>3. \A q : Calmer(q, q)
      BY DEF Calmer
    <3>4. \A v, x \in Tab : relay'[v][x] = IF v = u /\ x = t THEN Tail(relay[v][x]) ELSE relay[v][x]
      BY <1>1, <3>1, AfterHearing
    <3> QED BY <3>2, <3>3, <3>4
  <2> QED BY <2>1, <2>2 DEF Missed
<1> QED BY <1>1, <1>2, <1>3, CalmStep

\* An estimate is made, an engine connects.
LEMMA MeasureKeepsAnchors ==
  ASSUME IInv, AnchorInv, NEW t \in Tab, NEW u \in Tab, Measure(t, u) \/ EngineLinks(t)
  PROVE  AnchorInv'
<1>1. UNCHANGED <<open, role, relay, armed, playing, last, pending, now, newest, audience>>
  BY DEF Measure, EngineLinks, jam
<1>2. \A v \in Tab : link[v] => link'[v]
  BY DEF Measure, EngineLinks, IInv, TransportTypeOK
<1>3. audience \subseteq Tab /\ \A q : Calmer(q, q)
  BY DEF IInv, TransportTypeOK, Calmer
<1> QED BY <1>1, <1>2, <1>3, CalmStep

-----------------------------------------------------------------------------
(* The SYNC button                                                          *)

\* What users wait for, said of the anchors.
LEMMA KindsUnderWay ==
  ASSUME TransportTypeOK, relay \in Relay
  PROVE  /\ UnderWay({"anchor"}) <=> InFlight
         /\ ~UnderWay({"where", "rejoin"}) =>
              \A u, t \in Tab : ~Asked(u, t) /\ \A a \in Way(u, t) : a.kind = "anchor"
         /\ TransportRests => \A u, t \in Tab : Way(u, t) = {} /\ ~Asked(u, t) /\ pending[t] = NoAnchor
<1>1. UnderWay({"anchor"}) <=> InFlight
  BY DEF UnderWay, InFlight, Way, Anchors, IsAnchor
<1>2. ~UnderWay({"where", "rejoin"}) =>
        \A u, t \in Tab : ~Asked(u, t) /\ \A a \in Way(u, t) : a.kind = "anchor"
  BY DEF UnderWay, Asked, Asks, Way, Anchors, IsAnchor
<1>3. TransportRests => \A u, t \in Tab : Way(u, t) = {} /\ ~Asked(u, t) /\ pending[t] = NoAnchor
  BY DEF TransportRests, UnderWay, Waiting, Asked, Asks, Way, Anchors, IsAnchor
<1> QED BY <1>1, <1>2, <1>3

\* SYNC switched off forgets what waits, SYNC switched on asks when nothing is said.
LEMMA ToggleKeepsAnchors ==
  ASSUME Exact, IInv, AnchorInv, NEW t \in Tab, ToggleSync(t)
  PROVE  AnchorInv'
<1>1. /\ relay \in Relay /\ TransportTypeOK /\ pending \in [Tab -> Position \cup {NoAnchor}]
      /\ armed \in [Tab -> BOOLEAN] /\ t \in open /\ open \subseteq Tab /\ audience \subseteq Tab
  BY DEF IInv, JamInv, JamTypeOK, TransportTypeOK, ToggleSync
<1>2. UNCHANGED <<open, role, link, playing, last, now, newest>> /\ audience' = audience \ {t}
      /\ armed' = [armed EXCEPT ![t] = ~@]
  BY DEF ToggleSync
<1>3. \A v \in Tab : v # t => armed'[v] = armed[v]
  BY <1>1, <1>2
<1>4. CASE armed[t]
  <2>1. relay' = relay /\ pending' = [pending EXCEPT ![t] = NoAnchor] /\ ~armed'[t]
    BY <1>1, <1>2, <1>4 DEF ToggleSync
  <2>2. \A u, v \in Tab : Way(u, v)' = Way(u, v) /\ (Asked(u, v)' <=> Asked(u, v))
                          /\ (Climbs(u, v)' <=> Climbs(u, v))
    BY ONLY <2>1, NextQueues DEF Way, Asked, Climbs
  <2>3. \A v \in Tab : pending'[v] = IF v = t THEN NoAnchor ELSE pending[v]
    BY <1>1, <2>1
  <2>4. \A v \in Tab : Coming(v)' \subseteq Coming(v) /\ (v # t => Coming(v)' = Coming(v))
    BY ONLY <2>2, <2>3, NextComing DEF Coming
  <2>5. InFlight' <=> InFlight
    BY ONLY <2>2, NextInFlight DEF InFlight
  <2>6. TwoPages' /\ Absent'
    BY <1>2, <1>3, <2>1, <2>2, <2>3 DEF AnchorInv, TwoPages, Absent
  <2>7. InTheirOrder'
    BY <2>2, <2>3 DEF AnchorInv, InTheirOrder
  <2>8. OneSpeaker'
    BY <1>2, <1>3, <2>1, <2>4 DEF AnchorInv, OneSpeaker
  <2>9. NewestIsLast'
    BY <1>2, <2>4 DEF AnchorInv, NewestIsLast, Newer
  <2>10. Questions'
    BY <2>2, <2>4, <2>5 DEF AnchorInv, Questions
  <2>11. Own'
    BY <1>1, <1>2, <2>1, <2>4, <2>5 DEF AnchorInv, Own
  <2>12. Agreed'
    BY <1>1, <1>2, <1>3, <2>4, <2>5 DEF AnchorInv, Agreed, Listening, Older
  <2>13. Met'
    BY <1>2, <2>4 DEF AnchorInv, Met
  <2> QED BY <2>6, <2>7, <2>8, <2>9, <2>10, <2>11, <2>12, <2>13 DEF AnchorInv
<1>5. CASE ~armed[t]
  <2>1. relay' = SentTo(relay, t, open, <<Where>>) /\ pending' = pending /\ armed'[t] /\ TransportRests
    BY <1>1, <1>2, <1>5 DEF ToggleSync, MayArm, Exact, Said
  <2>2. \A u, v \in Tab : Way(u, v) = {} /\ ~Asked(u, v) /\ pending[v] = NoAnchor
    BY <1>1, <2>1, KindsUnderWay
  <2>3. \A u, v \in Tab : Climbs(u, v)
    BY DEF AnchorInv, InTheirOrder
  <2>4. \A u, v \in Tab : /\ Way(u, v)' = {} /\ Climbs(u, v)'
                          /\ Asked(u, v)' => u = t /\ v # t /\ v \in open
    <3> SUFFICES ASSUME NEW u \in Tab, NEW v \in Tab
          PROVE /\ Anchors(relay'[u][v]) = {} /\ Climbing(relay'[u][v])
                /\ Asks(relay'[u][v]) => u = t /\ v # t /\ v \in open
      BY NextQueues
    <3>1. relay'[u][v] = IF u = t /\ v \in open \ {t} THEN relay[u][v] \o <<Where>> ELSE relay[u][v]
      BY <1>1, <2>1, AfterSaying
    <3>2. /\ Anchors(relay[u][v]) = {} /\ Climbing(relay[u][v]) /\ ~Asks(relay[u][v])
          /\ relay[u][v] \in Seq(Message)
      BY <1>1, <2>2, <2>3 DEF Way, Climbs, Asked, Relay
    <3>3. Anchors(relay[u][v] \o <<Where>>) = {} /\ Climbing(relay[u][v] \o <<Where>>)
      BY ONLY <3>2, JamIsChatter, SayingAnchors
    <3> QED BY ONLY <3>1, <3>2, <3>3
  <2>5. \A v \in Tab : Coming(v) = {} /\ Coming(v)' = {}
    BY <2>1, <2>2, <2>4, NextComing DEF Coming
  <2>6. ~InFlight'
    BY <2>4, NextInFlight
  <2>7. TwoPages' /\ Absent'
    BY <1>1, <1>2, <1>3, <2>1, <2>2, <2>4 DEF AnchorInv, TwoPages, Absent
  <2>8. InTheirOrder'
    BY <2>1, <2>2, <2>4 DEF InTheirOrder
  <2>9. OneSpeaker' /\ NewestIsLast' /\ Met'
    BY <1>2, <2>5 DEF AnchorInv, OneSpeaker, NewestIsLast, Newer, Met
  <2>10. Questions'
    BY <2>4, <2>5, <2>6 DEF Questions
  <2>11. Own'
    BY <1>2, <2>6 DEF AnchorInv, Own
  <2>12. Agreed'
    BY <1>1, <1>2, <1>3, <2>5, <2>6 DEF AnchorInv, Agreed, Listening
  <2> QED BY <2>7, <2>8, <2>9, <2>10, <2>11, <2>12 DEF AnchorInv
<1> QED BY <1>4, <1>5

-----------------------------------------------------------------------------
(* Play and stop                                                            *)

\* What an anchor is made of.
LEMMA AnchorParts ==
  ASSUME NEW a \in Position \cup {NoAnchor}
  PROVE  a.at \in Int /\ a.from \in Int /\ a.playing \in BOOLEAN
         /\ (a \in Position => a.from \in Tab /\ a.kind # "none")
<1>1. CASE a \in Position
  <2>1. a.at \in Int /\ a.from \in Tab /\ a.playing \in BOOLEAN /\ a.kind \in {"anchor", "rejoin"}
    BY ONLY <1>1 DEF Position
  <2> QED BY <2>1 DEF Tab
<1>2. CASE a = NoAnchor
  <2>1. a.at = 0 /\ a.from = 0 /\ a.playing = FALSE /\ a.kind = "none"
    BY ONLY <1>2 DEF NoAnchor, None
  <2>2. a \notin Position
    BY ONLY <2>1 DEF Position
  <2>3. a.at \in Int /\ a.from \in Int
    BY ONLY <2>1
  <2>4. a.playing \in BOOLEAN
    BY ONLY <2>1, Zenon
  <2> QED BY ONLY <2>2, <2>3, <2>4
<1> QED BY <1>1, <1>2

\* What comes to a tab are anchors.
LEMMA ComingParts ==
  ASSUME IInv, NEW t \in Tab
  PROVE  /\ \A a \in Coming(t) : a \in Position
         /\ \A u \in Tab : \A a \in Way(u, t) : a \in Position /\ a \in Coming(t)
         /\ last[t] \in Position \cup {NoAnchor} /\ pending[t] \in Position \cup {NoAnchor}
         /\ newest \in Position \cup {NoAnchor} /\ now \in Nat /\ relay[t] \in [Tab -> Seq(Message)]
<1>1. /\ relay \in Relay /\ pending \in [Tab -> Position \cup {NoAnchor}]
      /\ last \in [Tab -> Position \cup {NoAnchor}]
      /\ newest \in Position \cup {NoAnchor} /\ now \in Nat
  BY DEF IInv, JamInv, JamTypeOK, TransportTypeOK
<1>2. \A u \in Tab : \A a \in Way(u, t) : a \in Position
  <2> SUFFICES ASSUME NEW u \in Tab, NEW i \in DOMAIN relay[u][t], IsAnchor(relay[u][t][i])
        PROVE relay[u][t][i] \in Position
    BY DEF Way, Anchors
  <2>1. relay[u][t][i] \in Message
    BY <1>1 DEF Relay
  <2> QED BY <2>1, AnchorIsPosition DEF IsAnchor
<1>3. pending[t] \in Position \cup {NoAnchor} /\ last[t] \in Position \cup {NoAnchor}
      /\ relay[t] \in [Tab -> Seq(Message)]
  BY <1>1 DEF Relay
<1>4. \A a \in Coming(t) : a \in Position
  BY ONLY <1>2, <1>3 DEF Coming
<1>5. \A u \in Tab : \A a \in Way(u, t) : a \in Coming(t)
  BY ONLY t \in Tab DEF Coming
<1> QED BY <1>1, <1>2, <1>3, <1>4, <1>5

\* The order of anchors.
LEMMA NewerThanNewest ==
  ASSUME NEW a \in Position \cup {NoAnchor}, NEW b \in Position \cup {NoAnchor},
         NEW c \in Position \cup {NoAnchor}, ~Newer(a, b), Newer(c, b)
  PROVE  Newer(c, a) /\ ~Newer(a, c)
  BY AnchorParts DEF Newer

\* A newer anchor is not older, as the code compares.
LEMMA NewerIsNotOlder ==
  ASSUME NEW a \in Position \cup {NoAnchor}, NEW b \in Position \cup {NoAnchor}, Newer(a, b)
  PROVE  ~Older(a.from, a.at, b) /\ (a \in Position => Older(b.from, b.at, a))
  BY AnchorParts DEF Newer, Older

\* What a tab says is an anchor of its own.
LEMMA MineIs ==
  ASSUME NEW kind \in {"anchor", "rejoin"}, NEW t \in Tab, NEW p \in BOOLEAN, NEW at \in Int
  PROVE  LET a == Anchor(kind, t, p, at) IN
         /\ a \in Position /\ a \in Message /\ IsAnchor(a)
         /\ a.kind = kind /\ a.from = t /\ a.playing = p /\ a.at = at
  BY DEF Anchor, Position, Message, IsAnchor

\* An anchor is said to the other page, later than all it has said.
LEMMA SaidToOther ==
  ASSUME IInv, AnchorInv, NEW t \in open, NEW us \in SUBSET Tab, NEW a \in Position,
         NEW q \in Relay, a.from = t, pending' = pending, a \in Message, IsAnchor(a),
         Emptier(q, relay),
         relay' = SentTo(q, t, us, <<a>>),
         \A v \in us \ {t} : v \in open /\ \A b \in Coming(v) : b.at < a.at
  PROVE  /\ \A v \in us \ {t} : Way(t, v)' = Way(t, v) \cup {a}
         /\ \A u, v \in Tab : ~(u = t /\ v \in us \ {t}) => Way(u, v)' = Way(u, v)
         /\ \A u, v \in Tab : Asked(u, v)' => Asked(u, v)
         /\ \A v \in Tab : Coming(v)' = Coming(v) \cup (IF v \in us \ {t} THEN {a} ELSE {})
         /\ InTheirOrder'
<1>1. t \in Tab /\ open \subseteq Tab
  BY DEF IInv, JamInv, JamTypeOK
<1>2. <<a>> \in Seq(Message) /\ Climbing(<<a>>) /\ Anchors(<<a>>) = {a} /\ ~Asks(<<a>>)
  BY OneMessage DEF IsAnchor
<1>3. \A u, v \in Tab : /\ Way(u, v)' = Way(u, v) \cup (IF u = t /\ v \in us \ {t} THEN {a} ELSE {})
                        /\ Asked(u, v)' => Asked(u, v)
                        /\ Climbs(u, v)'
  <2> SUFFICES ASSUME NEW u \in Tab, NEW v \in Tab
        PROVE /\ Anchors(relay'[u][v]) = Way(u, v) \cup (IF u = t /\ v \in us \ {t} THEN {a} ELSE {})
              /\ Asks(relay'[u][v]) => Asked(u, v)
              /\ Climbing(relay'[u][v])
    BY NextQueues
  <2>1. relay'[u][v] = IF u = t /\ v \in us \ {t} THEN q[u][v] \o <<a>> ELSE q[u][v]
    BY <1>1, AfterSaying
  <2>2. /\ Anchors(q[u][v]) = Way(u, v) /\ (Asks(q[u][v]) => Asked(u, v)) /\ Climbing(q[u][v])
        /\ q[u][v] \in Seq(Message)
    BY DEF Emptier, Calmer, Way, Asked, Climbs, Relay, AnchorInv, InTheirOrder
  <2>3. ASSUME u = t, v \in us \ {t}
        PROVE /\ Anchors(q[u][v] \o <<a>>) = Way(u, v) \cup {a}
              /\ Asks(q[u][v] \o <<a>>) => Asked(u, v)
              /\ Climbing(q[u][v] \o <<a>>)
    <3>1. \A b \in Way(u, v) : b.at < a.at
      BY <2>3, ComingParts
    <3> QED BY ONLY ZenonT(60), <1>2, <2>2, <3>1, SayingAnchors
  <2> QED BY ONLY <2>1, <2>2, <2>3
<1>4. \A v \in Tab : Coming(v)' = Coming(v) \cup (IF v \in us \ {t} THEN {a} ELSE {})
  BY ONLY <1>1, <1>3, NextComing, pending' = pending DEF Coming
<1>5. InTheirOrder'
  <2> SUFFICES ASSUME NEW v \in Tab, NEW u \in Tab
        PROVE /\ Climbs(u, v)'
              /\ \A b \in Way(u, v)' : b.from = u /\ u # v
              /\ Asked(u, v)' => u # v
              /\ pending[v] # NoAnchor =>
                   pending[v].from # v /\ \A b \in Way(u, v)' : pending[v].at < b.at
    BY DEF InTheirOrder
  <2>1. /\ \A b \in Way(u, v) : b.from = u /\ u # v
        /\ Asked(u, v) => u # v
        /\ pending[v] # NoAnchor =>
             pending[v].from # v /\ \A b \in Way(u, v) : pending[v].at < b.at
    BY DEF AnchorInv, InTheirOrder
  <2>2. pending[v] # NoAnchor => pending[v] \in Coming(v)
    BY ONLY DEF Coming
  <2> QED BY <1>3, <2>1, <2>2
<1>6. \A v \in us \ {t} : Way(t, v)' = Way(t, v) \cup {a}
  BY ONLY <1>1, <1>3, us \in SUBSET Tab
<1>7. \A u, v \in Tab : ~(u = t /\ v \in us \ {t}) => Way(u, v)' = Way(u, v)
  BY ONLY <1>3
<1> QED BY ONLY <1>3, <1>4, <1>5, <1>6, <1>7

\* A tab without SYNC tells nobody.
LEMMA UntoldKeepsAnchors ==
  ASSUME IInv, AnchorInv, NEW t \in open, NEW p \in BOOLEAN, Publish(t, p), ~armed[t],
         UNCHANGED <<open, role, armed, link, pending>>,
         \A v \in Tab : playing'[v] = IF v = t THEN p ELSE playing[v]
  PROVE  AnchorInv'
<1>1. UNCHANGED <<relay, last, now, newest, audience>>
  BY DEF Publish
<1>2. audience \subseteq Tab /\ \A q : Calmer(q, q)
  BY DEF IInv, TransportTypeOK, Calmer
<1>3. t \notin audience
  BY DEF AnchorInv, Agreed
<1>4. \A v \in audience' : playing'[v] = playing[v]
  BY <1>1, <1>2, <1>3
<1> QED BY <1>1, <1>2, <1>4, CalmStep

\* A tab with SYNC tells the other page.
LEMMA ToldKeepsAnchors ==
  ASSUME Exact, IInv, AnchorInv, NEW t \in open, NEW p \in BOOLEAN, Publish(t, p), armed[t],
         link[t], ~UnderWay({"where", "rejoin"}), p => ~Listening(t),
         UNCHANGED <<open, role, armed, link, pending>>,
         \A v \in Tab : playing'[v] = IF v = t THEN p ELSE playing[v]
  PROVE  AnchorInv'
<1>1. PICK at \in Moment(last[t].at < now) :
        LET mine == Anchor("anchor", t, p, at) IN
        /\ now' = at /\ relay' = Said(relay, t, <<mine>>)
        /\ last' = [last EXCEPT ![t] = mine]
        /\ IF Newer(mine, newest)
           THEN /\ newest' = mine
                /\ audience' = {u \in open : armed[u] /\ link[u] /\ ~Listening(u)} \cup {t}
           ELSE UNCHANGED <<newest, audience>>
  BY Zenon DEF Publish
<1> DEFINE mine == Anchor("anchor", t, p, at)
<1>2. /\ t \in Tab /\ open \subseteq Tab /\ relay \in Relay /\ audience \subseteq Tab
      /\ TransportTypeOK /\ now \in Nat /\ last \in [Tab -> Position \cup {NoAnchor}]
  BY DEF IInv, JamInv, JamTypeOK, TransportTypeOK
<1>3. at \in Nat /\ at \in Int /\ (InFlight => at >= now) /\ (~InFlight => at = now + 1)
  BY <1>2, KindsUnderWay, MomentIsTime DEF Moment, Exact
<1>4. /\ mine \in Position /\ mine \in Message /\ IsAnchor(mine)
      /\ mine.kind = "anchor" /\ mine.from = t /\ mine.playing = p /\ mine.at = at
  BY <1>2, <1>3, MineIs
<1>5. /\ now' = at /\ relay' = SentTo(relay, t, open, <<mine>>)
      /\ last' = [last EXCEPT ![t] = mine]
      /\ Newer(mine, newest) => /\ newest' = mine
             /\ audience' = {u \in open : armed[u] /\ link[u] /\ ~Listening(u)} \cup {t}
      /\ ~Newer(mine, newest) => UNCHANGED <<newest, audience>>
  BY <1>1, Zenon DEF Said
<1> HIDE DEF mine
<1>6. last'[t] = mine /\ \A v \in Tab : v # t => last'[v] = last[v]
  BY <1>2, <1>5
<1>7. \A u, v \in Tab : ~Asked(u, v) /\ \A a \in Way(u, v) : a.kind = "anchor"
  BY <1>2, KindsUnderWay
<1>8. /\ newest.at \in Int /\ newest.at >= 0 /\ newest.at <= now
      /\ \A v \in Tab : ~Newer(last[v], newest)
      /\ \A v \in Tab : \A a \in Coming(v) : a.at >= 0 /\ ~Newer(a, newest)
      /\ at > last[t].at
  <2>1. /\ newest.at \in Int /\ newest.at >= 0 /\ newest.at <= now
        /\ \A v \in Tab : ~Newer(last[v], newest)
        /\ \A v \in Tab : \A a \in Coming(v) : a.at >= 0 /\ ~Newer(a, newest)
    BY <1>2, ComingParts, AnchorParts DEF AnchorInv, NewestIsLast
  <2>2. last[t].at \in Int /\ last[t].at <= newest.at
    BY <1>2, <2>1, AnchorParts DEF Newer
  <2>3. at = now + 1 \/ (at = now /\ last[t].at < now)
    BY DEF Moment, Exact
  <2> QED BY <1>2, <2>1, <2>2, <2>3
<1>9. \A v \in Tab : \A a \in Coming(v) : /\ a \in Position /\ a.at \in Int /\ a.from \in Int
                                          /\ a.at <= newest.at /\ a.at <= now
  <2>1. \A v \in Tab : \A a \in Coming(v) : a \in Position /\ a.at \in Int /\ a.from \in Int
    BY ComingParts, AnchorParts
  <2> QED BY ONLY <1>2, <1>8, <2>1 DEF Newer
<1>10. \A v \in open \ {t} : \A a \in Coming(v) : a.from = t /\ a.at < at
  <2> SUFFICES ASSUME NEW v \in open \ {t}, NEW a \in Coming(v) PROVE a.from = t /\ a.at < at
    OBVIOUS
  <2>1. a.from = t
    BY <1>2 DEF AnchorInv, OneSpeaker
  <2>2. CASE InFlight
    <3>1. a.at < now \/ a.at <= last[t].at
      BY <1>2, <2>1, <2>2 DEF AnchorInv, Own
    <3>2. last[t].at \in Int
      BY <1>2, AnchorParts
    <3> QED BY <1>2, <1>3, <1>8, <1>9, <2>1, <2>2, <3>1, <3>2
  <2>3. CASE ~InFlight
    BY <1>2, <1>3, <1>9, <2>1, <2>3
  <2> QED BY <2>2, <2>3
<1>11. /\ \A u, v \in Tab : /\ Way(u, v)' = Way(u, v) \cup (IF u = t /\ v \in open \ {t} THEN {mine} ELSE {})
                            /\ Asked(u, v)' => Asked(u, v)
       /\ \A v \in Tab : Coming(v)' = Coming(v) \cup (IF v \in open \ {t} THEN {mine} ELSE {})
       /\ InTheirOrder'
  <2>1. \A v \in open \ {t} : v \in open /\ \A b \in Coming(v) : b.at < mine.at
    BY <1>4, <1>10
  <2>2. Emptier(relay, relay)
    BY SameIsEmptier
  <2>3. /\ IInv /\ AnchorInv /\ t \in open /\ mine \in Position /\ relay \in Relay /\ mine.from = t
        /\ pending' = pending /\ mine \in Message /\ IsAnchor(mine) /\ open \in SUBSET Tab
        /\ relay' = SentTo(relay, t, open, <<mine>>)
    BY <1>2, <1>4, <1>5
  <2>4. /\ \A v \in open \ {t} : Way(t, v)' = Way(t, v) \cup {mine}
        /\ \A u, v \in Tab : ~(u = t /\ v \in open \ {t}) => Way(u, v)' = Way(u, v)
    BY ONLY <2>1, <2>2, <2>3, SaidToOther
  <2>5. \A u, v \in Tab : Asked(u, v)' => Asked(u, v)
    BY ONLY <2>1, <2>2, <2>3, SaidToOther
  <2>6. \A v \in Tab : Coming(v)' = Coming(v) \cup (IF v \in open \ {t} THEN {mine} ELSE {})
    BY ONLY <2>1, <2>2, <2>3, SaidToOther
  <2>7. InTheirOrder'
    BY ONLY <2>1, <2>2, <2>3, SaidToOther
  <2> QED BY <2>4, <2>5, <2>6, <2>7
<1>12. newest' \in {mine, newest} /\ ~Newer(mine, newest')
       /\ \A a \in Position \cup {NoAnchor} : ~Newer(a, newest) => ~Newer(a, newest')
  <2>1. ~Newer(mine, mine)
    BY <1>2, <1>3, <1>4 DEF Newer, Tab
  <2>2. newest \in Position \cup {NoAnchor}
    BY <1>2, ComingParts
  <2> QED BY <1>4, <1>5, <2>1, <2>2, NewerThanNewest
<1>13. TwoPages'
  BY DEF AnchorInv, TwoPages
<1>14. Absent'
  <2>1. \A v \in Tab \ open : v \notin audience'
    BY <1>5 DEF AnchorInv, Absent
  <2> QED BY <1>7, <1>11, <2>1 DEF AnchorInv, Absent
<1>15. OneSpeaker'
  <2> SUFFICES ASSUME NEW v \in Tab
        PROVE /\ \A a, b \in Coming(v)' : a.from = b.from
              /\ v \in open => \A u \in open \ {v} : armed[u] => \A a \in Coming(v)' : a.from = u
    BY DEF OneSpeaker
  <2>1. CASE v \in open \ {t}
    <3>1. \A a \in Coming(v)' : a.from = t
      BY <1>4, <1>10, <1>11, <2>1
    <3>2. \A u \in open \ {v} : u = t
      BY <2>1 DEF AnchorInv, TwoPages
    <3> QED BY <3>1, <3>2
  <2>2. CASE v \notin open \ {t}
    BY <1>11, <2>2 DEF AnchorInv, OneSpeaker
  <2> QED BY <2>1, <2>2
<1>16. NewestIsLast'
  <2>1. newest'.at >= 0 /\ newest'.at <= now'
    BY <1>2, <1>3, <1>4, <1>5, <1>8, <1>12
  <2>2. \A v \in Tab : ~Newer(last'[v], newest')
    BY <1>2, <1>6, <1>8, <1>12
  <2>3. \A v \in Tab : \A a \in Coming(v)' : a.at >= 0 /\ ~Newer(a, newest')
    BY <1>3, <1>4, <1>8, <1>9, <1>11, <1>12
  <2> QED BY <2>1, <2>2, <2>3 DEF NewestIsLast, Newer
<1>17. Questions'
  BY <1>7, <1>11 DEF Questions
<1>18. ~Newer(mine, newest) => InFlight /\ at = newest.at /\ at = now /\ newest.from > t /\ newest.kind = "anchor"
  <2>1. ~Newer(mine, newest) => at <= newest.at /\ (at = newest.at => ~(t > newest.from))
    BY <1>3, <1>4, <1>8 DEF Newer
  <2>2. ~Newer(mine, newest) => InFlight /\ at = newest.at /\ at = now /\ ~(t > newest.from)
    BY <1>2, <1>3, <1>8, <2>1
  <2>3. ~Newer(mine, newest) => newest.kind = "anchor"
    BY <2>2 DEF AnchorInv, Own
  <2>4. newest.kind = "anchor" /\ newest.from = t => last[t] = newest
    BY <1>2 DEF AnchorInv, Own
  <2>5. newest.from \in Int /\ t \in Int
    BY <1>2, ComingParts, AnchorParts DEF Tab
  <2>6. ~Newer(mine, newest) => newest.from # t
    BY <1>3, <1>5, <1>8, <2>2, <2>3, <2>4
  <2> QED BY <2>2, <2>3, <2>5, <2>6
<1>19. Own'
  <2>1. ASSUME NEW v \in Tab, NEW a \in Coming(v)', a.from \in open
        PROVE a.at < now' \/ a.at <= last'[a.from].at
    <3>1. CASE a = mine
      BY <1>3, <1>4, <1>6, <3>1
    <3>2. CASE a \in Coming(v)
      <4>1. CASE ~InFlight
        BY <1>2, <1>3, <1>5, <1>9, <3>2, <4>1
      <4>2. CASE a.from = t
        BY <1>2, <1>3, <1>4, <1>5, <1>6, <1>9, <3>2, <4>2
      <4>3. CASE InFlight /\ a.from # t
        <5>1. a.at < now \/ a.at <= last[a.from].at
          BY <2>1, <3>2, <4>3 DEF AnchorInv, Own
        <5>2. last'[a.from] = last[a.from]
          BY <1>2, <1>6, <2>1, <4>3
        <5> QED BY <1>2, <1>3, <1>5, <1>9, <3>2, <4>3, <5>1, <5>2
      <4> QED BY <4>1, <4>2, <4>3
    <3> QED BY <1>11, <3>1, <3>2
  <2>2. newest'.kind = "anchor" /\ ((\A v \in open : armed[v]) => newest'.from \in open)
    <3>1. CASE newest' = mine
      BY <1>4, <3>1
    <3>2. CASE newest' = newest /\ ~Newer(mine, newest)
      BY <1>18, <3>2 DEF AnchorInv, Own
    <3> QED BY <1>5, <3>1, <3>2
  <2>3. newest'.kind = "anchor" /\ newest'.from \in open => last'[newest'.from] = newest'
    <3>1. CASE newest' = mine
      BY <1>4, <1>6, <3>1
    <3>2. CASE newest' = newest /\ ~Newer(mine, newest)
      <4>1. newest.from # t
        BY <1>2, <1>18, <3>2 DEF Tab
      <4> QED BY <1>2, <1>6, <3>2, <4>1 DEF AnchorInv, Own
    <3> QED BY <1>5, <3>1, <3>2
  <2> QED BY <2>1, <2>2, <2>3 DEF Own
<1>20. ASSUME Newer(mine, newest) PROVE Agreed'
  <2> SUFFICES ASSUME NEW v \in audience'
        PROVE /\ armed[v] /\ link[v]
              /\ Listening(v) => newest' = last'[v] /\ newest'.from = v /\ ~newest'.playing /\ ~playing'[v]
              /\ (\A a \in Coming(v)' : Older(a.from, a.at, last'[v])) => playing'[v] = newest'.playing
              /\ \A a \in Coming(v)' : (\A b \in Coming(v)' : b.at <= a.at) =>
                   Older(a.from, a.at, last'[v]) \/ a.playing = newest'.playing
              /\ newest' \in Coming(v)' \/ last'[v].at >= newest'.at
    BY DEF Agreed, Listening, Older
  <2>1. newest' = mine /\ newest'.playing = p
    BY <1>4, <1>5, <1>20
  <2>2. CASE v = t
    <3>1. \A a \in Coming(v)' : Older(a.from, a.at, last'[v])
      BY <1>2, <1>4, <1>6, <1>8, <1>9, <1>11, <1>20, <2>2, NewerThanNewest, NewerIsNotOlder, ComingParts
    <3> QED BY <1>2, <1>3, <1>4, <1>6, <2>1, <2>2, <3>1
  <2>3. CASE v # t
    <3>1. v \in open \ {t} /\ armed[v] /\ link[v] /\ ~Listening(v)
      BY <1>5, <1>20, <2>3
    <3>2. mine \in Coming(v)' /\ \A a \in Coming(v)' : a = mine \/ a.at < mine.at
      BY <1>2, <1>4, <1>10, <1>11, <3>1
    <3>3. ~Older(mine.from, mine.at, last'[v])
      <4>1. /\ last'[v] = last[v] /\ last[v] \in Position \cup {NoAnchor}
            /\ newest \in Position \cup {NoAnchor} /\ ~Newer(last[v], newest)
        BY <1>2, <1>6, <1>8, <2>3, <3>1, ComingParts
      <4>2. Newer(mine, last[v])
        BY ONLY <1>4, <1>20, <4>1, NewerThanNewest
      <4> QED BY ONLY <1>4, <4>1, <4>2, NewerIsNotOlder
    <3>4. \A a \in Coming(v)' : (\A b \in Coming(v)' : b.at <= a.at) => a = mine
      <4>1. \A a \in Coming(v)' : a.at \in Int
        BY <1>2, <1>3, <1>4, <1>9, <1>11, <3>1
      <4> QED BY <1>3, <1>4, <3>2, <4>1
    <3> QED BY <1>4, <2>1, <3>1, <3>2, <3>3, <3>4
  <2> QED BY <2>2, <2>3
<1>21. ASSUME ~Newer(mine, newest) PROVE Agreed'
  <2> SUFFICES ASSUME NEW v \in audience
        PROVE /\ armed[v] /\ link[v]
              /\ Listening(v) => newest = last'[v] /\ newest.from = v /\ ~newest.playing /\ ~playing'[v]
              /\ (\A a \in Coming(v)' : Older(a.from, a.at, last'[v])) => playing'[v] = newest.playing
              /\ \A a \in Coming(v)' : (\A b \in Coming(v)' : b.at <= a.at) =>
                   Older(a.from, a.at, last'[v]) \/ a.playing = newest.playing
              /\ newest \in Coming(v)' \/ last'[v].at >= newest.at
    BY <1>5, <1>21 DEF Agreed, Listening, Older
  <2>1. /\ v \in open /\ v \in Tab /\ armed[v] /\ link[v]
        /\ Listening(v) => newest = last[v] /\ newest.from = v /\ ~newest.playing /\ ~playing[v]
        /\ (\A a \in Coming(v) : Older(a.from, a.at, last[v])) => playing[v] = newest.playing
        /\ \A a \in Coming(v) : (\A b \in Coming(v) : b.at <= a.at) =>
             Older(a.from, a.at, last[v]) \/ a.playing = newest.playing
        /\ newest \in Coming(v) \/ last[v].at >= newest.at
    BY <1>2, <1>18, <1>21 DEF AnchorInv, Agreed, Absent
  <2>2. /\ InFlight /\ at = newest.at /\ at = now /\ newest.from > t /\ newest.kind = "anchor"
        /\ newest.from \in Int /\ t \in Int
    BY <1>2, <1>18, <1>21, ComingParts, AnchorParts DEF Tab
  <2>3. CASE v = t
    <3>1. Coming(v)' = Coming(v) /\ last'[v] = mine
      <4>1. v \in Tab /\ v = t
        BY <2>1, <2>3
      <4>2. Coming(v)' = Coming(v) \cup (IF v \in open \ {t} THEN {mine} ELSE {})
        BY ONLY <1>11, <4>1
      <4>3. v \notin open \ {t}
        BY <4>1
      <4>4. Coming(v)' = Coming(v)
        BY ONLY <4>2, <4>3
      <4> QED BY <1>6, <4>1, <4>4
    <3>0. last[v].at \in Int /\ newest.at \in Int /\ last[v].at < newest.at
      BY <1>2, <1>3, <1>5, <1>8, <2>2, <2>3, AnchorParts
    <3>2. newest \in Coming(v) /\ ~Listening(v)
      <4>1. newest \in Coming(v) \/ last[v].at >= newest.at
        BY <2>1
      <4>2. Listening(v) => newest = last[v]
        BY <2>1
      <4> QED BY ONLY <3>0, <4>1, <4>2
    <3>3. ~Older(newest.from, newest.at, mine)
      BY <1>3, <1>4, <2>2 DEF Older
    <3>4. ASSUME NEW a \in Coming(v), \A b \in Coming(v) : b.at <= a.at
          PROVE a.playing = newest.playing
      <4>1. ~Older(a.from, a.at, last[v])
        <5>1. a.at \in Int /\ a.at = newest.at
          <6>1. a.at \in Int /\ a.at <= newest.at
            BY <1>9, <2>1
          <6>2. newest.at <= a.at
            BY <3>2, <3>4
          <6> QED BY ONLY <3>0, <6>1, <6>2
        <5> QED BY ONLY <3>0, <5>1 DEF Older
      <4> QED BY <2>1, <3>4, <4>1
    <3> QED BY <2>1, <3>1, <3>2, <3>3, <3>4
  <2>4. CASE v # t
    <3>1. Coming(v)' = Coming(v) \cup {mine} /\ last'[v] = last[v] /\ playing'[v] = playing[v]
      BY <1>6, <1>11, <2>1, <2>4
    <3>2. \A u \in open : u = t \/ u = v
      BY <2>1, <2>4 DEF AnchorInv, TwoPages
    <3>3. newest.from = v /\ last[v] = newest
      BY <1>2, <2>1, <2>2, <3>2 DEF AnchorInv, Own
    <3>4. \A a \in Coming(v)' : Older(a.from, a.at, last[v])
      BY ZenonT(60), <1>3, <1>4, <1>9, <1>10, <2>1, <2>2, <2>4, <3>1, <3>3 DEF Older
    <3> QED BY <2>1, <3>1, <3>3, <3>4
  <2> QED BY <2>3, <2>4
<1>22. Met'
  <2>1. t \in Int
    BY <1>2 DEF Tab
  <2>2. \E u \in open : mine.from <= u
    BY <1>4, <2>1
  <2> QED BY <1>5, <1>11, <2>2 DEF AnchorInv, Met
<1> QED BY <1>11, <1>22, <1>13, <1>14, <1>15, <1>16, <1>17, <1>19, <1>20, <1>21 DEF AnchorInv

\* The buttons.
LEMMA PressKeepsAnchors ==
  ASSUME Exact, IInv, AnchorInv, NEW t \in Tab, Play(t) \/ Stop(t)
  PROVE  AnchorInv'
<1>1. playing \in [Tab -> BOOLEAN] /\ open \subseteq Tab
  BY DEF IInv, JamInv, JamTypeOK, TransportTypeOK
<1>2. /\ t \in open /\ link[t] /\ UNCHANGED <<open, role, armed, link, pending>>
      /\ ~UnderWay({"where", "rejoin"})
  BY DEF Play, Stop, MayPress, Exact
<1>3. \E p \in BOOLEAN : /\ Publish(t, p) /\ (p => ~Listening(t))
                         /\ \A v \in Tab : playing'[v] = IF v = t THEN p ELSE playing[v]
  <2>1. CASE Play(t)
    <3>1. /\ Publish(t, TRUE) /\ ~Listening(t)
          /\ \A v \in Tab : playing'[v] = IF v = t THEN TRUE ELSE playing[v]
      BY <1>1, <2>1 DEF Play
    <3> QED BY <3>1
  <2>2. CASE Stop(t)
    <3>1. /\ Publish(t, FALSE)
          /\ \E seen \in {playing[t]} :
               playing' = [playing EXCEPT ![t] = IF seen THEN FALSE ELSE @]
      BY <2>2 DEF Stop, SeenPlaying, Exact
    <3>2. \A v \in Tab : playing'[v] = IF v = t THEN FALSE ELSE playing[v]
      BY <1>1, <3>1
    <3> QED BY <3>1, <3>2
  <2> QED BY <2>1, <2>2
<1>4. PICK p \in BOOLEAN : /\ Publish(t, p) /\ (p => ~Listening(t))
                           /\ \A v \in Tab : playing'[v] = IF v = t THEN p ELSE playing[v]
  BY <1>3
<1>5. CASE armed[t]
  BY ONLY Exact, IInv, AnchorInv, <1>2, <1>4, <1>5, ToldKeepsAnchors
<1>6. CASE ~armed[t]
  BY ONLY IInv, AnchorInv, <1>2, <1>4, <1>6, UntoldKeepsAnchors
<1> QED BY <1>5, <1>6

-----------------------------------------------------------------------------
(* Who asked is answered                                                    *)

\* A question is taken from a queue.
LEMMA QuestionIsTaken ==
  ASSUME NEW q \in Relay, NEW t \in Tab, NEW u \in Tab, q[u][t] # <<>>, ~IsAnchor(Head(q[u][t]))
  PROVE  LET r == [q EXCEPT ![u][t] = Tail(@)] IN r \in Relay /\ Emptier(r, q)
<1> DEFINE r == [q EXCEPT ![u][t] = Tail(@)]
<1>1. r \in Relay
  BY HearingIsQuieter DEF AllQuieter
<1>2. q[u][t] \in Seq(Message)
  BY DEF Relay
<1>3. Calmer(Tail(q[u][t]), q[u][t]) /\ Anchors(Tail(q[u][t])) = Anchors(q[u][t])
  BY ZenonT(60), <1>2, HearingAnchors DEF Calmer
<1>4. \A v, x \in Tab : r[v][x] = IF v = u /\ x = t THEN Tail(q[v][x]) ELSE q[v][x]
  BY AfterHearing
<1>5. \A p : Calmer(p, p)
  BY DEF Calmer
<1> HIDE DEF r
<1>6. Emptier(r, q)
  BY <1>3, <1>4, <1>5 DEF Emptier
<1> QED BY <1>1, <1>6 DEF r

\* Who plays answers who asks; to the asker nothing else was on its way.
LEMMA AnswerKeepsAnchors ==
  ASSUME Exact, IInv, AnchorInv, NEW t \in open, NEW u \in Tab, relay[u][t] # <<>>,
         Head(relay[u][t]).kind = "where",
         AnswerWhere(t, u, [relay EXCEPT ![u][t] = Tail(@)]),
         UNCHANGED <<open, role, armed, link, playing, last, pending>>
  PROVE  AnchorInv'
<1> DEFINE q == [relay EXCEPT ![u][t] = Tail(@)]
           at == now + 1
           mine == Anchor("rejoin", t, TRUE, at)
           us == open \cap {u}
           asking == {t} \cup {v \in {u} \cap open : Driven(v)}
<1>1. /\ t \in Tab /\ open \subseteq Tab /\ relay \in Relay /\ audience \subseteq Tab
      /\ TransportTypeOK /\ now \in Nat /\ newest \in Position \cup {NoAnchor}
  BY DEF IInv, JamInv, JamTypeOK, TransportTypeOK
<1>2. ~IsAnchor(Head(relay[u][t])) /\ relay[u][t] \in Seq(Message)
  BY <1>1 DEF IsAnchor, Relay
<1>3. q \in Relay /\ Emptier(q, relay)
  BY <1>1, <1>2, QuestionIsTaken
<1>4. Asked(u, t)
  BY <1>2, HearingAnchors DEF Asked
<1>5. u # t /\ Coming(t) = {} /\ ~InFlight /\ \A v, x \in Tab : Asked(v, x) => v = u /\ x # u /\ Coming(x) = {}
  BY <1>1, <1>4 DEF AnchorInv, InTheirOrder, Questions
<1>6. Moment(TRUE) = {at}
  BY <1>1, <1>5, KindsUnderWay DEF Moment, Exact
<1>7. \/ relay' = q /\ UNCHANGED <<now, newest, audience>>
      \/ /\ armed[t] /\ ~Listening(t) /\ link[t] /\ playing[t] /\ now' = at
         /\ relay' = SentTo(q, t, us, <<mine>>)
         /\ IF Newer(mine, newest)
            THEN newest' = mine /\ audience' = asking \cup IF newest.playing THEN audience ELSE {}
            ELSE UNCHANGED <<newest, audience>>
  <2>1. SeenPlaying(t) = {playing[t]}
    BY DEF SeenPlaying, Exact
  <2> QED BY <1>6, <2>1, Zenon DEF AnswerWhere, Suspended
<1> HIDE DEF q, us
<1>8. CASE relay' = q /\ UNCHANGED <<now, newest, audience>>
  <2>1. \A v, x \in Tab : Calmer(relay'[v][x], relay[v][x])
                          /\ Anchors(relay'[v][x]) = Anchors(relay[v][x])
    BY <1>3, <1>8 DEF Emptier
  <2> QED BY <1>1, <1>8, <2>1, CalmStep
<1>9. CASE /\ armed[t] /\ ~Listening(t) /\ link[t] /\ playing[t] /\ now' = at
           /\ relay' = SentTo(q, t, us, <<mine>>)
           /\ IF Newer(mine, newest)
              THEN newest' = mine /\ audience' = asking \cup IF newest.playing THEN audience ELSE {}
              ELSE UNCHANGED <<newest, audience>>
  <2>1. at \in Int /\ at > now /\ at \in Nat
    BY <1>1
  <2> HIDE DEF at
  <2>2. /\ mine \in Position /\ mine \in Message /\ IsAnchor(mine)
        /\ mine.kind = "rejoin" /\ mine.from = t /\ mine.playing = TRUE /\ mine.at = at
    <3>1. t \in Tab /\ "rejoin" \in {"anchor", "rejoin"} /\ TRUE \in BOOLEAN
      BY <1>1
    <3> QED BY ONLY <2>1, <3>1 DEF mine, Anchor, Position, Message, IsAnchor
  <2> HIDE DEF mine
  <2>3. newest.at \in Int /\ newest.at >= 0 /\ newest.at <= now
    BY <1>1, AnchorParts DEF AnchorInv, NewestIsLast
  <2>4. Newer(mine, newest)
    BY <1>1, <2>1, <2>2, <2>3 DEF Newer
  <2>5. newest' = mine /\ audience' = asking \cup IF newest.playing THEN audience ELSE {}
    BY <1>9, <2>4
  <2>6. \A v \in Tab : \A a \in Coming(v) : /\ a \in Position /\ a.at \in Int /\ a.at < at
                                            /\ a.at >= 0 /\ ~Newer(a, newest)
    <3>1. \A v \in Tab : \A a \in Coming(v) : a \in Position /\ a.at \in Int
      BY ComingParts, AnchorParts
    <3>2. \A v \in Tab : \A a \in Coming(v) : a.at >= 0 /\ ~Newer(a, newest)
      BY DEF AnchorInv, NewestIsLast
    <3> QED BY ONLY <1>1, <2>1, <2>3, <3>1, <3>2 DEF Newer
  <2>7. us \in SUBSET Tab /\ \A v \in us \ {t} : v \in open /\ v = u /\ \A b \in Coming(v) : b.at < mine.at
    BY <1>1, <2>2, <2>6 DEF us
  <2>8. /\ \A v \in us \ {t} : Way(t, v)' = Way(t, v) \cup {mine}
        /\ \A w, v \in Tab : ~(w = t /\ v \in us \ {t}) => Way(w, v)' = Way(w, v)
        /\ \A w, v \in Tab : Asked(w, v)' => Asked(w, v)
        /\ \A v \in Tab : Coming(v)' = Coming(v) \cup (IF v \in us \ {t} THEN {mine} ELSE {})
        /\ InTheirOrder'
    <3>1. /\ IInv /\ AnchorInv /\ t \in open /\ mine \in Position /\ q \in Relay /\ mine.from = t
          /\ pending' = pending /\ mine \in Message /\ IsAnchor(mine) /\ us \in SUBSET Tab
          /\ relay' = SentTo(q, t, us, <<mine>>) /\ Emptier(q, relay)
      BY <1>3, <1>9, <2>2, <2>7
    <3> QED BY ONLY <2>7, <3>1, SaidToOther
  <2>9. ~InFlight'
    <3>1. \A w, v \in Tab : \A a \in Way(w, v)' : a \in Way(w, v) \/ a = mine
      BY <2>8
    <3> QED BY <1>5, <2>2, <3>1, NextInFlight DEF InFlight
  <2>10. TwoPages'
    BY DEF AnchorInv, TwoPages
  <2>11. Absent'
    <3>1. \A v \in Tab \ open : v \notin audience'
      BY <1>1, <2>5 DEF AnchorInv, Absent
    <3>2. \A v \in Tab \ open : v \notin us
      BY DEF us
    <3> QED BY <2>8, <3>1, <3>2 DEF AnchorInv, Absent
  <2>12. OneSpeaker'
    <3> SUFFICES ASSUME NEW v \in Tab
          PROVE /\ \A a, b \in Coming(v)' : a.from = b.from
                /\ v \in open => \A w \in open \ {v} : armed[w] => \A a \in Coming(v)' : a.from = w
      BY DEF OneSpeaker
    <3>1. CASE v \in us \ {t}
      <4>1. v \in open /\ t \in open \ {v} /\ armed[t]
        BY <1>9, <2>7, <3>1
      <4>2. \A a \in Coming(v)' : a.from = t
        BY <2>2, <2>8, <3>1, <4>1 DEF AnchorInv, OneSpeaker
      <4>3. \A w \in open \ {v} : w = t
        BY <4>1 DEF AnchorInv, TwoPages
      <4> QED BY <4>2, <4>3
    <3>2. CASE v \notin us \ {t}
      BY <2>8, <3>2 DEF AnchorInv, OneSpeaker
    <3> QED BY <3>1, <3>2
  <2>13. NewestIsLast'
    <3>1. \A a \in Position \cup {NoAnchor} : ~Newer(a, newest) => ~Newer(a, mine)
      BY <1>1, <2>2, <2>4, NewerThanNewest
    <3>2. ~Newer(mine, mine)
      BY <1>1, <2>1, <2>2 DEF Newer, Tab
    <3>3. \A v \in Tab : last[v] \in Position \cup {NoAnchor} /\ ~Newer(last[v], newest)
      BY ComingParts DEF AnchorInv, NewestIsLast
    <3>4. mine.at >= 0 /\ mine.at <= now'
      BY <1>9, <2>1, <2>2
    <3>5. \A v \in Tab : \A a \in Coming(v)' : a.at >= 0 /\ ~Newer(a, mine)
      BY <2>6, <2>8, <3>1, <3>2, <3>4
    <3> QED BY <2>5, <3>1, <3>3, <3>4, <3>5 DEF NewestIsLast, Newer
  <2>14. Met'
    <3>1. t \in Int
      BY <1>1 DEF Tab
    <3>2. \E w \in open : mine.from <= w
      BY <2>2, <3>1
    <3> QED BY <2>5, <2>8, <3>2 DEF AnchorInv, Met
  <2>15. Questions'
    <3>1. \A w, v \in Tab : Asked(w, v)' => w = u /\ v # u /\ Coming(v) = {}
      BY <1>5, <2>8
    <3>2. \A w, v \in Tab : Asked(w, v)' => Coming(v)' = {}
      BY <2>7, <2>8, <3>1
    <3> QED BY <2>9, <3>1, <3>2 DEF Questions
  <2>16. Own'
    BY <2>2, <2>5, <2>9 DEF Own
  <2>17. Agreed'
    <3> SUFFICES ASSUME NEW v \in audience'
          PROVE /\ armed[v] /\ link[v] /\ ~Listening(v)
                /\ (\A a \in Coming(v)' : Older(a.from, a.at, last[v])) => playing[v]
                /\ \A a \in Coming(v)' : (\A b \in Coming(v)' : b.at <= a.at) =>
                     Older(a.from, a.at, last[v]) \/ a.playing = TRUE
      BY ZenonT(60), <2>2, <2>5, <2>9 DEF Agreed, Listening, Older
    <3>1. CASE v = t
      BY <1>1, <1>5, <1>9, <2>8, <3>1
    <3>2. CASE v = u /\ u \in open /\ Driven(u)
      <4>1. mine \in Coming(v)' /\ \A a \in Coming(v)' : a = mine \/ a.at < at
        BY <1>1, <1>5, <2>6, <2>8, <3>2 DEF us
      <4>2. ~Older(mine.from, mine.at, last[v])
        <5>1. /\ last[v] \in Position \cup {NoAnchor} /\ ~Newer(last[v], newest)
          BY <3>2, ComingParts DEF AnchorInv, NewestIsLast
        <5>2. Newer(mine, last[v])
          BY ONLY <1>1, <2>2, <2>4, <5>1, NewerThanNewest
        <5> QED BY ONLY <2>2, <5>1, <5>2, NewerIsNotOlder
      <4>3. \A a \in Coming(v)' : (\A b \in Coming(v)' : b.at <= a.at) => a = mine
        <5>1. \A a \in Coming(v)' : a = mine \/ (a.at \in Int /\ a.at < at)
          BY <2>6, <2>8, <3>2
        <5> QED BY ONLY <2>1, <2>2, <4>1, <5>1
      <4> QED BY <2>2, <3>2, <4>1, <4>2, <4>3 DEF Driven
    <3>3. CASE v \in audience /\ newest.playing /\ v # t /\ ~(v = u /\ u \in open /\ Driven(u))
      <4>1. /\ v \in Tab /\ v \in open /\ armed[v] /\ link[v] /\ ~Listening(v)
            /\ (\A a \in Coming(v) : Older(a.from, a.at, last[v])) => playing[v]
            /\ \A a \in Coming(v) : (\A b \in Coming(v) : b.at <= a.at) =>
                 Older(a.from, a.at, last[v]) \/ a.playing = TRUE
        BY <1>1, <3>3 DEF AnchorInv, Agreed, Absent
      <4>2. v # u
        BY <3>3, <4>1 DEF Driven
      <4>3. Coming(v)' = Coming(v)
        BY <2>7, <2>8, <4>1, <4>2
      <4> QED BY <4>1, <4>3
    <3> QED BY <2>5, <3>1, <3>2, <3>3
  <2> QED BY <2>8, <2>10, <2>11, <2>12, <2>13, <2>14, <2>15, <2>16, <2>17 DEF AnchorInv
<1> QED BY <1>7, <1>8, <1>9

-----------------------------------------------------------------------------
(* An anchor is applied                                                     *)

\* What applying m does with exact clocks.
LEMMA ApplyIs ==
  ASSUME Exact, IInv, NEW t \in Tab, NEW m \in Position, Apply(t, m)
  PROVE  /\ \A v \in Tab : v # t => last'[v] = last[v] /\ playing'[v] = playing[v]
         /\ Older(m.from, m.at, last[t]) => last'[t] = last[t] /\ playing'[t] = playing[t]
         /\ ~Older(m.from, m.at, last[t]) =>
              /\ last'[t].at = m.at /\ last'[t].from = m.from /\ last'[t].kind = "anchor"
              /\ link[t] /\ ~Listening(t) => playing'[t] = m.playing
         /\ Listening(t) => playing'[t] = playing[t]
<1>1. /\ clock \in [Tab -> [Tab -> SUBSET Error]] /\ last \in [Tab -> Position \cup {NoAnchor}]
      /\ playing \in [Tab -> BOOLEAN] /\ Error = {0} /\ m.from \in Tab /\ m.at \in Int
  BY AnchorParts DEF IInv, TransportTypeOK, Exact
<1>2. PICK e \in clock[t][m.from] :
        LET at == m.at + e
            taken == ~Older(m.from, at, last[t]) IN
        /\ last' = IF taken THEN [last EXCEPT ![t] = [m EXCEPT !.at = at, !.kind = "anchor"]] ELSE last
        /\ playing' = IF taken /\ ~Suspended(t) /\ link[t]
                      THEN [playing EXCEPT ![t] = m.playing] ELSE playing
  BY Zenon DEF Apply
<1>3. e = 0 /\ m.at + e = m.at
  BY <1>1
<1> DEFINE n == [m EXCEPT !.at = m.at, !.kind = "anchor"]
<1>4. n.at = m.at /\ n.from = m.from /\ n.kind = "anchor"
  BY DEF Position
<1>5. /\ last' = IF ~Older(m.from, m.at, last[t]) THEN [last EXCEPT ![t] = n] ELSE last
      /\ playing' = IF ~Older(m.from, m.at, last[t]) /\ ~Listening(t) /\ link[t]
                    THEN [playing EXCEPT ![t] = m.playing] ELSE playing
  BY <1>2, <1>3 DEF Suspended
<1> HIDE DEF n
<1> QED BY <1>1, <1>4, <1>5

\* All but what is later than the anchor goes from what comes to the tab.
LEMMA ApplyKeepsAnchors ==
  ASSUME Exact, IInv, AnchorInv, NEW t \in open, NEW m \in Coming(t), Apply(t, m),
         UNCHANGED <<open, role, armed, link, now, newest, audience>>,
         \A v \in Tab : pending'[v] = IF v = t THEN NoAnchor ELSE pending[v],
         \A u, v \in Tab : /\ Calmer(relay'[u][v], relay[u][v])
                           /\ v # t => Anchors(relay'[u][v]) = Anchors(relay[u][v]),
         \A b \in Coming(t) : IF b \in Coming(t)' THEN m.at < b.at ELSE b.at <= m.at
  PROVE  AnchorInv'
<1>1. t \in Tab /\ open \subseteq Tab /\ audience \subseteq Tab /\ m \in Position
  BY ComingParts DEF IInv, JamInv, JamTypeOK, TransportTypeOK
<1>2. /\ m.at \in Int /\ m.from \in Int /\ m.from \in Tab /\ last[t] \in Position \cup {NoAnchor}
      /\ last[t].at \in Int /\ last[t].from \in Int /\ newest.at \in Int /\ newest.from \in Int
      /\ newest \in Position \cup {NoAnchor} /\ t \in Int
  BY <1>1, ComingParts, AnchorParts DEF Tab
<1>3. \A a \in Coming(t) : a.at \in Int /\ a.from = m.from
  <2>1. \A a \in Coming(t) : a \in Position
    BY <1>1, ComingParts
  <2>2. \A a \in Coming(t) : a.from = m.from
    BY <1>1 DEF AnchorInv, OneSpeaker
  <2> QED BY <2>1, <2>2, AnchorParts
<1>4. \A u, v \in Tab : /\ Way(u, v)' \subseteq Way(u, v) /\ (Asked(u, v)' => Asked(u, v))
                        /\ Climbs(u, v) => Climbs(u, v)'
                        /\ v # t => Way(u, v)' = Way(u, v)
  BY NextQueues DEF Calmer, Way, Asked, Climbs
<1>5. \A v \in Tab : Coming(v)' \subseteq Coming(v) /\ (v # t => Coming(v)' = Coming(v))
  <2>1. \A v \in Tab : v # t => Coming(v)' = Coming(v)
    BY <1>4, NextComing DEF Coming
  <2>2. Coming(t)' \subseteq Coming(t)
    BY <1>1, <1>4, NextComing DEF Coming
  <2> QED BY <2>1, <2>2
<1>6. InFlight' => InFlight
  BY <1>4, NextInFlight DEF InFlight
<1> DEFINE older == Older(m.from, m.at, last[t])
<1>7. /\ \A v \in Tab : v # t => last'[v] = last[v] /\ playing'[v] = playing[v]
      /\ older => last'[t] = last[t] /\ playing'[t] = playing[t]
      /\ ~older => /\ last'[t].at = m.at /\ last'[t].from = m.from /\ last'[t].kind = "anchor"
                   /\ link[t] /\ ~Listening(t) => playing'[t] = m.playing
      /\ Listening(t) => playing'[t] = playing[t]
  BY <1>1, ApplyIs
<1>8. m.from # t /\ ~Newer(m, newest) /\ m.at >= 0 /\ newest.at <= now /\ newest.at >= 0
  <2>1. m.from # t
    BY <1>1 DEF AnchorInv, InTheirOrder, Coming
  <2>2. ~Newer(m, newest) /\ m.at >= 0 /\ newest.at <= now /\ newest.at >= 0
    BY <1>1 DEF AnchorInv, NewestIsLast
  <2> QED BY <2>1, <2>2
<1>9. newest = last[t] /\ newest.from = t => older
  <2> SUFFICES ASSUME newest = last[t], newest.from = t PROVE older
    OBVIOUS
  <2>1. newest # NoAnchor
    BY <1>1 DEF NoAnchor, None, Tab
  <2>2. newest.kind # "none"
    BY <1>2, <2>1, AnchorParts
  <2>3. m.at <= newest.at /\ (m.at = newest.at => m.from < t)
    BY <1>2, <1>8 DEF Newer
  <2> QED BY <1>2, <2>2, <2>3 DEF Older
<1>10. last'[t].at \in Int /\ last'[t].at >= last[t].at /\ last'[t].at >= m.at
  <2>1. CASE older
    BY <1>2, <1>7, <2>1 DEF Older
  <2>2. CASE ~older
    <3>1. last[t].kind = "none" => last[t] = NoAnchor
      BY <1>2, AnchorParts
    <3>2. last[t] = NoAnchor => last[t].at = 0
      BY DEF NoAnchor
    <3>3. last[t].at <= m.at
      BY <1>2, <1>8, <2>2, <3>1, <3>2 DEF Older
    <3> QED BY <1>2, <1>7, <2>2, <3>3
  <2> QED BY <2>1, <2>2
<1> HIDE DEF older
<1>11. TwoPages'
  BY DEF AnchorInv, TwoPages
<1>12. Absent'
  BY <1>4 DEF AnchorInv, Absent
<1>13. InTheirOrder'
  BY <1>4 DEF AnchorInv, InTheirOrder
<1>14. OneSpeaker'
  BY <1>5 DEF AnchorInv, OneSpeaker
<1>15. NewestIsLast'
  <2>1. \A v \in Tab : ~Newer(last[v], newest) /\ \A a \in Coming(v)' : a.at >= 0 /\ ~Newer(a, newest)
    BY <1>5 DEF AnchorInv, NewestIsLast
  <2>2. ~Newer(last'[t], newest)
    BY <1>1, <1>7, <1>8, <2>1 DEF Newer
  <2>3. \A v \in Tab : ~Newer(last'[v], newest)
    BY <1>7, <2>1, <2>2
  <2> QED BY <1>8, <2>1, <2>3 DEF NewestIsLast, Newer
<1>16. Met'
  BY <1>5 DEF AnchorInv, Met
<1>17. Questions'
  <2>1. \A v \in Tab : Coming(v) = {} => Coming(v)' = {}
    BY <1>5
  <2> QED BY <1>4, <1>6, <2>1 DEF AnchorInv, Questions
<1>18. Own'
  <2>1. ASSUME InFlight', NEW v \in Tab, NEW a \in Coming(v)', a.from \in open
        PROVE a.at < now \/ a.at <= last'[a.from].at
    <3>1. a.at < now \/ a.at <= last[a.from].at
      BY <1>5, <1>6, <2>1 DEF AnchorInv, Own
    <3>2. CASE a.from = t
      <4>1. a.at \in Int
        BY <1>5, <2>1, ComingParts, AnchorParts
      <4> QED BY <1>2, <1>10, <3>1, <3>2, <4>1
    <3>3. CASE a.from # t
      BY <1>1, <1>7, <2>1, <3>1, <3>3
    <3> QED BY <3>2, <3>3
  <2>2. InFlight' => newest.kind = "anchor" /\ ((\A v \in open : armed[v]) => newest.from \in open)
    BY <1>6 DEF AnchorInv, Own
  <2>3. newest.kind = "anchor" /\ newest.from \in open => last'[newest.from] = newest
    <3>1. newest.kind = "anchor" /\ newest.from \in open => last[newest.from] = newest
      BY DEF AnchorInv, Own
    <3> QED BY <1>1, <1>7, <1>9, <3>1
  <2> QED BY <2>1, <2>2, <2>3 DEF Own
<1>19. Agreed'
  <2> SUFFICES ASSUME NEW v \in audience
        PROVE /\ armed[v] /\ link[v]
              /\ Listening(v) => newest = last'[v] /\ newest.from = v /\ ~newest.playing /\ ~playing'[v]
              /\ (\A a \in Coming(v)' : Older(a.from, a.at, last'[v])) => playing'[v] = newest.playing
              /\ \A a \in Coming(v)' : (\A b \in Coming(v)' : b.at <= a.at) =>
                   Older(a.from, a.at, last'[v]) \/ a.playing = newest.playing
              /\ InFlight' => newest \in Coming(v)' \/ last'[v].at >= newest.at
    BY DEF Agreed, Listening, Older
  <2>1. /\ armed[v] /\ link[v]
        /\ Listening(v) => newest = last[v] /\ newest.from = v /\ ~newest.playing /\ ~playing[v]
        /\ (\A a \in Coming(v) : Older(a.from, a.at, last[v])) => playing[v] = newest.playing
        /\ \A a \in Coming(v) : (\A b \in Coming(v) : b.at <= a.at) =>
             Older(a.from, a.at, last[v]) \/ a.playing = newest.playing
        /\ InFlight => newest \in Coming(v) \/ last[v].at >= newest.at
    BY DEF AnchorInv, Agreed
  <2>2. CASE v # t
    <3>1. v \in Tab /\ Coming(v)' = Coming(v) /\ last'[v] = last[v] /\ playing'[v] = playing[v]
      BY <1>1, <1>5, <1>7, <2>2
    <3> QED BY <1>6, <2>1, <3>1
  <2>3. CASE v = t
    <3>1. Listening(t) => older
      BY <1>9, <2>1, <2>3
    <3>2. Listening(t) => newest = last'[t] /\ newest.from = t /\ ~newest.playing /\ ~playing'[t]
      BY <1>7, <2>1, <2>3, <3>1
    <3>3. \A a \in Coming(t) : /\ a \in Coming(t)' => m.at < a.at
                               /\ a \notin Coming(t)' => a.at <= m.at
      OBVIOUS
    <3>4. older => \A a \in Coming(t) : a \notin Coming(t)' => Older(a.from, a.at, last[t])
      BY <1>2, <1>3, <3>3 DEF Older, older
    <3>5. ~older => \A a \in Coming(t)' : /\ ~Older(a.from, a.at, last'[t])
                                          /\ ~Older(a.from, a.at, last[t])
      <4>1. \A a \in Coming(t)' : a.at \in Int /\ a.from = m.from /\ m.at < a.at
        BY <1>1, <1>3, <1>5, <3>3
      <4> QED BY <1>2, <1>7, <4>1 DEF Older, older
    <3>6. \A a \in Coming(t)' : (\A b \in Coming(t)' : b.at <= a.at) =>
            a \in Coming(t) /\ \A b \in Coming(t) : b.at <= a.at
      <4>1. \A a \in Coming(t)' : a \in Coming(t) /\ m.at < a.at /\ a.at \in Int
        BY <1>1, <1>3, <1>5, <3>3
      <4> QED BY <1>2, <1>3, <3>3, <4>1
    <3>7. (\A a \in Coming(t)' : Older(a.from, a.at, last'[t])) => playing'[t] = newest.playing
      <4>1. CASE older
        BY <1>7, <2>1, <2>3, <3>4, <4>1
      <4>2. CASE ~older
        <5> SUFFICES ASSUME \A a \in Coming(t)' : Older(a.from, a.at, last'[t])
              PROVE playing'[t] = newest.playing
          OBVIOUS
        <5>1. Coming(t)' = {}
          BY <3>5, <4>2
        <5>2. \A b \in Coming(t) : b.at <= m.at
          BY <3>3, <5>1
        <5>3. m.playing = newest.playing
          BY <2>1, <2>3, <4>2, <5>2 DEF older
        <5> QED BY <1>7, <2>1, <2>3, <3>1, <4>2, <5>3
      <4> QED BY <4>1, <4>2
    <3>8. \A a \in Coming(t)' : (\A b \in Coming(t)' : b.at <= a.at) =>
            Older(a.from, a.at, last'[t]) \/ a.playing = newest.playing
      <4>1. \A a \in Coming(t)' : (\A b \in Coming(t)' : b.at <= a.at) =>
              Older(a.from, a.at, last[t]) \/ a.playing = newest.playing
        BY <2>1, <2>3, <3>6
      <4> QED BY <1>7, <3>5, <4>1
    <3>9. InFlight' => newest \in Coming(t)' \/ last'[t].at >= newest.at
      <4>1. CASE newest \in Coming(t) /\ newest \notin Coming(t)'
        BY <1>2, <1>10, <3>3, <4>1
      <4>2. CASE last[t].at >= newest.at
        BY <1>2, <1>10, <4>2
      <4> QED BY <1>6, <2>1, <2>3, <4>1, <4>2
    <3> QED BY <2>1, <2>3, <3>2, <3>7, <3>8, <3>9
  <2> QED BY <2>2, <2>3
<1> QED BY <1>11, <1>12, <1>13, <1>14, <1>15, <1>16, <1>17, <1>18, <1>19 DEF AnchorInv

-----------------------------------------------------------------------------
(* Anchors are heard                                                        *)

\* An anchor heard is the earliest of what comes to the tab, but for one that waits.
LEMMA HeardIsFirst ==
  ASSUME IInv, AnchorInv, NEW t \in Tab, NEW u \in Tab, relay[u][t] # <<>>,
         IsAnchor(Head(relay[u][t])), relay' = [relay EXCEPT ![u][t] = Tail(@)]
  PROVE  LET m == Head(relay[u][t]) IN
         /\ m \in Way(u, t) /\ m \in Coming(t) /\ m \in Position /\ m.from = u /\ u # t
         /\ Way(u, t) = Way(u, t)' \cup {m}
         /\ \A a \in Way(u, t)' : m.at < a.at
         /\ \A v \in Tab : v # u => Way(v, t) = {} /\ Way(v, t)' = {}
         /\ pending[t] # NoAnchor => pending[t].at < m.at
         /\ \A v, w \in Tab : /\ Calmer(relay'[v][w], relay[v][w])
                              /\ w # t => Anchors(relay'[v][w]) = Anchors(relay[v][w])
<1> DEFINE m == Head(relay[u][t])
<1>1. relay \in Relay /\ relay[u][t] \in Seq(Message)
  BY DEF IInv, JamInv, JamTypeOK, Relay
<1>2. \A v, w \in Tab : relay'[v][w] = IF v = u /\ w = t THEN Tail(relay[v][w]) ELSE relay[v][w]
  BY <1>1, AfterHearing
<1>3. Climbing(relay[u][t])
  BY DEF AnchorInv, InTheirOrder, Climbs
<1>4. /\ Anchors(relay[u][t]) = Anchors(Tail(relay[u][t])) \cup {m}
      /\ \A a \in Anchors(Tail(relay[u][t])) : m.at < a.at
      /\ Calmer(Tail(relay[u][t]), relay[u][t])
  BY <1>1, <1>3, HearingAnchors DEF Calmer
<1> HIDE DEF m
<1>5. Way(u, t) = Way(u, t)' \cup {m} /\ \A a \in Way(u, t)' : m.at < a.at
  BY <1>2, <1>4, NextQueues DEF Way
<1>6. m \in Way(u, t) /\ m \in Coming(t) /\ m \in Position
  BY <1>5, ComingParts
<1>7. m.from = u /\ u # t /\ (pending[t] # NoAnchor => pending[t].at < m.at)
  BY <1>6 DEF AnchorInv, InTheirOrder
<1>8. \A v \in Tab : v # u => Way(v, t) = {}
  <2> SUFFICES ASSUME NEW v \in Tab, v # u, NEW a \in Way(v, t) PROVE FALSE
    OBVIOUS
  <2>1. a.from = v /\ a \in Coming(t)
    BY ComingParts DEF AnchorInv, InTheirOrder
  <2> QED BY <1>6, <1>7, <2>1 DEF AnchorInv, OneSpeaker
<1>9. \A v \in Tab : v # u => Way(v, t)' = {}
  BY SMTT(40), <1>2, <1>8, NextQueues DEF Way
<1>10. \A r : Calmer(r, r)
  BY DEF Calmer
<1>11. \A v, w \in Tab : /\ Calmer(relay'[v][w], relay[v][w])
                         /\ w # t => Anchors(relay'[v][w]) = Anchors(relay[v][w])
  BY <1>2, <1>4, <1>10
<1> QED BY <1>5, <1>6, <1>7, <1>8, <1>9, <1>11 DEF m

\* One that has to wait replaces the one that waits, which is earlier.
LEMMA WaitingKeepsAnchors ==
  ASSUME IInv, AnchorInv, NEW t \in open, NEW u \in Tab, relay[u][t] # <<>>,
         IsAnchor(Head(relay[u][t])), relay' = [relay EXCEPT ![u][t] = Tail(@)],
         \A v \in Tab : pending'[v] = IF v = t THEN Head(relay[u][t]) ELSE pending[v],
         UNCHANGED <<open, role, armed, link, playing, last, now, newest, audience>>
  PROVE  AnchorInv'
<1> DEFINE m == Head(relay[u][t])
<1>1. t \in Tab /\ open \subseteq Tab /\ audience \subseteq Tab
  BY DEF IInv, JamInv, JamTypeOK, TransportTypeOK
<1>2. /\ m \in Way(u, t) /\ m \in Coming(t) /\ m \in Position /\ m.from = u /\ u # t
      /\ Way(u, t) = Way(u, t)' \cup {m}
      /\ \A a \in Way(u, t)' : m.at < a.at
      /\ \A v \in Tab : v # u => Way(v, t) = {} /\ Way(v, t)' = {}
      /\ pending[t] # NoAnchor => pending[t].at < m.at
      /\ \A v, w \in Tab : /\ Calmer(relay'[v][w], relay[v][w])
                           /\ w # t => Anchors(relay'[v][w]) = Anchors(relay[v][w])
  <2>1. /\ IInv /\ AnchorInv /\ relay[u][t] # <<>> /\ IsAnchor(m)
        /\ relay' = [relay EXCEPT ![u][t] = Tail(@)]
    OBVIOUS
  <2> QED BY ONLY ZenonT(60), <1>1, <2>1, HeardIsFirst
<1>3. \A v \in Tab : pending'[v] = IF v = t THEN m ELSE pending[v]
  OBVIOUS
<1> HIDE DEF m
<1>4. \A v, w \in Tab : /\ Way(v, w)' \subseteq Way(v, w) /\ (Asked(v, w)' => Asked(v, w))
                        /\ Climbs(v, w) => Climbs(v, w)'
                        /\ w # t => Way(v, w)' = Way(v, w)
  BY <1>2, NextQueues DEF Calmer, Way, Asked, Climbs
<1>5. \A v \in Tab : v # t => Coming(v)' = Coming(v)
  BY <1>3, <1>4, NextComing DEF Coming
<1>6. /\ Coming(t)' \subseteq Coming(t) /\ m \in Coming(t)'
      /\ \A a \in Coming(t) : a \in Coming(t)' \/ (pending[t] # NoAnchor /\ a = pending[t])
  <2>1. m # NoAnchor
    BY <1>2 DEF Position, NoAnchor
  <2>2. Coming(t)' = (UNION {Way(v, t)' : v \in Tab}) \cup {m}
    BY <1>1, <1>3, <2>1, NextComing
  <2>3. Coming(t)' \subseteq Coming(t) /\ m \in Coming(t)'
    BY <1>1, <1>2, <1>4, <2>2 DEF Coming
  <2>4. ASSUME NEW v \in Tab, NEW a \in Way(v, t) PROVE a \in Coming(t)'
    <3>1. v = u
      BY <1>2, <2>4
    <3> QED BY <1>2, <2>2, <2>4, <3>1
  <2> QED BY <2>3, <2>4 DEF Coming
<1>7. InFlight' => InFlight
  BY <1>4, NextInFlight DEF InFlight
<1>8. \A a \in Coming(t) : a \in Position /\ a.at \in Int /\ a.from = m.from
  <2>1. \A a \in Coming(t) : a \in Position
    BY <1>1, ComingParts
  <2> QED BY <1>1, <1>2, <2>1, AnchorParts DEF AnchorInv, OneSpeaker
<1>9. /\ last[t].at \in Int /\ last[t].from \in Int /\ newest.at \in Int /\ newest.from \in Int
      /\ m.at \in Int /\ m.from \in Int
  BY <1>1, <1>2, ComingParts, AnchorParts
<1>10. \A a \in Coming(t) : a \in Coming(t)' \/ a.at < m.at
  BY <1>2, <1>6
<1>11. TwoPages'
  BY DEF AnchorInv, TwoPages
<1>12. Absent'
  BY <1>3, <1>4 DEF AnchorInv, Absent
<1>13. InTheirOrder'
  <2>1. \A a \in Coming(t)' : a = m \/ \E v \in Tab : a \in Way(v, t)'
    BY <1>1, <1>3, NextComing
  <2>2. \A v \in Tab : \A a \in Way(v, t)' : m.at < a.at
    BY <1>2
  <2> QED BY <1>2, <1>3, <1>4, <2>2 DEF AnchorInv, InTheirOrder
<1>14. \A v \in Tab : Coming(v)' \subseteq Coming(v)
  BY <1>5, <1>6
<1>15. OneSpeaker' /\ NewestIsLast' /\ Met'
  BY <1>14 DEF AnchorInv, OneSpeaker, NewestIsLast, Newer, Met
<1>16. Questions'
  <2>1. \A v \in Tab : Coming(v) = {} => Coming(v)' = {}
    BY <1>14
  <2> QED BY <1>4, <1>7, <2>1 DEF AnchorInv, Questions
<1>17. Own'
  BY <1>7, <1>14 DEF AnchorInv, Own
<1>18. Agreed'
  <2> SUFFICES ASSUME NEW v \in audience
        PROVE /\ armed[v] /\ link[v]
              /\ Listening(v) => newest = last[v] /\ newest.from = v /\ ~newest.playing /\ ~playing[v]
              /\ (\A a \in Coming(v)' : Older(a.from, a.at, last[v])) => playing[v] = newest.playing
              /\ \A a \in Coming(v)' : (\A b \in Coming(v)' : b.at <= a.at) =>
                   Older(a.from, a.at, last[v]) \/ a.playing = newest.playing
              /\ InFlight' => newest \in Coming(v)' \/ last[v].at >= newest.at
    BY DEF Agreed, Listening, Older
  <2>1. /\ armed[v] /\ link[v]
        /\ Listening(v) => newest = last[v] /\ newest.from = v /\ ~newest.playing /\ ~playing[v]
        /\ (\A a \in Coming(v) : Older(a.from, a.at, last[v])) => playing[v] = newest.playing
        /\ \A a \in Coming(v) : (\A b \in Coming(v) : b.at <= a.at) =>
             Older(a.from, a.at, last[v]) \/ a.playing = newest.playing
        /\ InFlight => newest \in Coming(v) \/ last[v].at >= newest.at
    BY DEF AnchorInv, Agreed
  <2>2. CASE v # t
    <3>1. Coming(v)' = Coming(v)
      BY <1>1, <1>5, <2>2
    <3> QED BY <1>7, <2>1, <3>1
  <2>3. CASE v = t
    <3>1. ASSUME \A a \in Coming(t)' : Older(a.from, a.at, last[t])
          PROVE \A a \in Coming(t) : Older(a.from, a.at, last[t])
      <4>1. Older(m.from, m.at, last[t])
        BY <1>6, <3>1
      <4> QED BY <1>8, <1>9, <1>10, <3>1, <4>1 DEF Older
    <3>2. \A a \in Coming(t)' : (\A b \in Coming(t)' : b.at <= a.at) =>
            a \in Coming(t) /\ \A b \in Coming(t) : b.at <= a.at
      <4>1. \A a \in Coming(t)' : a \in Coming(t) /\ a.at \in Int
        BY <1>6, <1>8
      <4> QED BY <1>6, <1>8, <1>9, <1>10, <4>1
    <3>3. newest \in Coming(t) => newest \in Coming(t)'
      <4>1. ~Newer(m, newest)
        BY <1>1, <1>2 DEF AnchorInv, NewestIsLast
      <4> QED BY <1>9, <1>10, <4>1 DEF Newer
    <3> QED BY <1>7, <2>1, <2>3, <3>1, <3>2, <3>3
  <2> QED BY <2>2, <2>3
<1> QED BY <1>11, <1>12, <1>13, <1>15, <1>16, <1>17, <1>18 DEF AnchorInv

\* What a tab hears of the transport.
LEMMA HearingKeepsAnchors ==
  ASSUME Exact, IInv, AnchorInv, NEW t \in Tab, NEW u \in Tab, HearTransport(t, u)
  PROVE  AnchorInv'
<1> DEFINE m == Head(relay[u][t])
           q == [relay EXCEPT ![u][t] = Tail(@)]
<1>1. /\ t \in open /\ relay[u][t] # <<>> /\ UNCHANGED <<open, role, armed, link>>
      /\ \/ m.kind = "where" /\ AnswerWhere(t, u, q) /\ UNCHANGED <<pending, last, playing>>
         \/ /\ m.kind \in {"anchor", "rejoin"} /\ relay' = q /\ TakeAnchor(t, m)
            /\ UNCHANGED <<now, newest, audience>>
  BY DEF HearTransport
<1>2. CASE m.kind = "where" /\ AnswerWhere(t, u, q) /\ UNCHANGED <<pending, last, playing>>
  BY <1>1, <1>2, AnswerKeepsAnchors
<1>3. CASE /\ m.kind \in {"anchor", "rejoin"} /\ relay' = q /\ TakeAnchor(t, m)
           /\ UNCHANGED <<now, newest, audience>>
  <2>1. IsAnchor(m) /\ relay' = q /\ UNCHANGED <<now, newest, audience>>
    BY <1>3 DEF IsAnchor
  <2>2. /\ m \in Way(u, t) /\ m \in Coming(t) /\ m \in Position /\ m.from = u /\ u # t
        /\ Way(u, t) = Way(u, t)' \cup {m}
        /\ \A a \in Way(u, t)' : m.at < a.at
        /\ \A v \in Tab : v # u => Way(v, t) = {} /\ Way(v, t)' = {}
        /\ pending[t] # NoAnchor => pending[t].at < m.at
        /\ \A v, w \in Tab : /\ Calmer(relay'[v][w], relay[v][w])
                             /\ w # t => Anchors(relay'[v][w]) = Anchors(relay[v][w])
    BY ZenonT(60), <1>1, <2>1, HeardIsFirst
  <2>3. pending \in [Tab -> Position \cup {NoAnchor}] /\ audience \subseteq Tab
    BY DEF IInv, TransportTypeOK
  <2>4. CASE ~armed[t]
    <3>1. UNCHANGED <<pending, last, playing>>
      BY <1>3, <2>4 DEF TakeAnchor
    <3>2. t \notin audience
      BY <2>4 DEF AnchorInv, Agreed
    <3> QED BY <1>1, <2>1, <2>2, <2>3, <3>1, <3>2, CalmStep
  <2>5. CASE armed[t] /\ clock[t][m.from] = {}
    <3>1. pending' = [pending EXCEPT ![t] = m] /\ UNCHANGED <<last, playing>>
      BY <1>3, <2>5 DEF TakeAnchor
    <3>2. \A v \in Tab : pending'[v] = IF v = t THEN m ELSE pending[v]
      BY <2>3, <3>1
    <3> QED BY <1>1, <2>1, <3>1, <3>2, WaitingKeepsAnchors
  <2>6. CASE armed[t] /\ clock[t][m.from] # {}
    <3>1. pending' = [pending EXCEPT ![t] = NoAnchor] /\ Apply(t, m)
      BY <1>3, <2>6 DEF TakeAnchor
    <3>2. \A v \in Tab : pending'[v] = IF v = t THEN NoAnchor ELSE pending[v]
      BY <2>3, <3>1
    <3>3. Coming(t)' = UNION {Way(v, t)' : v \in Tab}
      BY <3>2, NextComing
    <3> HIDE DEF m, q
    <3>4. \A b \in Coming(t) : IF b \in Coming(t)' THEN m.at < b.at ELSE b.at <= m.at
      <4> SUFFICES ASSUME NEW b \in Coming(t) PROVE IF b \in Coming(t)' THEN m.at < b.at ELSE b.at <= m.at
        OBVIOUS
      <4>1. b \in Coming(t)' <=> b \in Way(u, t)'
        BY <2>2, <3>3
      <4>2. b \in Way(u, t)' => m.at < b.at
        BY <2>2
      <4>3. b = m \/ b \in Way(u, t)' \/ (pending[t] # NoAnchor /\ b = pending[t])
        BY <2>2 DEF Coming
      <4>4. m.at \in Int /\ b.at \in Int
        BY <2>2, ComingParts, AnchorParts
      <4> QED BY ONLY <2>2, <4>1, <4>2, <4>3, <4>4
    <3>5. t \in open /\ UNCHANGED <<open, role, armed, link, now, newest, audience>>
      BY <1>1, <2>1
    <3> QED BY ONLY Exact, IInv, AnchorInv, <2>2, <3>1, <3>2, <3>4, <3>5, ApplyKeepsAnchors
  <2> QED BY <2>4, <2>5, <2>6
<1> QED BY <1>1, <1>2, <1>3

\* The retry of one that waited.
LEMMA RetryKeepsAnchors ==
  ASSUME Exact, IInv, AnchorInv, NEW t \in Tab, RetryApply(t)
  PROVE  AnchorInv'
<1>1. /\ pending[t] # NoAnchor /\ Apply(t, pending[t]) /\ pending' = [pending EXCEPT ![t] = NoAnchor]
      /\ UNCHANGED <<open, role, relay, armed, link, now, newest, audience>>
  BY DEF RetryApply, jam
<1>2. t \in open /\ pending[t] \in Coming(t) /\ pending \in [Tab -> Position \cup {NoAnchor}]
  BY <1>1 DEF AnchorInv, Absent, Coming, IInv, TransportTypeOK
<1>3. \A v \in Tab : pending'[v] = IF v = t THEN NoAnchor ELSE pending[v]
  BY <1>1, <1>2
<1>4. \A u, v \in Tab : /\ Calmer(relay'[u][v], relay[u][v])
                        /\ v # t => Anchors(relay'[u][v]) = Anchors(relay[u][v])
  BY <1>1 DEF Calmer
<1>5. \A u \in Tab : Way(u, t)' = Way(u, t)
  BY <1>1, NextQueues DEF Way
<1>6. Coming(t)' = UNION {Way(u, t) : u \in Tab}
  BY <1>3, <1>5, NextComing
<1>7. \A b \in Coming(t) : IF b \in Coming(t)' THEN pending[t].at < b.at ELSE b.at <= pending[t].at
  <2>1. \A b \in Coming(t)' : pending[t].at < b.at
    BY <1>1, <1>6 DEF AnchorInv, InTheirOrder
  <2>2. \A b \in Coming(t) : b \in Coming(t)' \/ b = pending[t]
    BY <1>6 DEF Coming
  <2>3. pending[t].at \in Int
    BY <1>2, AnchorParts
  <2> QED BY <2>1, <2>2, <2>3
<1> QED BY ONLY Exact, IInv, AnchorInv, <1>1, <1>2, <1>3, <1>4, <1>7, ApplyKeepsAnchors

-----------------------------------------------------------------------------
(* A page is loaded again                                                   *)

\* What the new page says, and what was on its way to the old one.
LEMMA ReloadedQueues ==
  ASSUME IInv, AnchorInv, NEW t \in Tab, NEW u \in Tab, ReloadPage(t, u)
  PROVE  /\ \A v, x \in Tab : /\ Way(v, x)' = (IF x = t THEN {} ELSE Way(v, x))
                              /\ Climbs(v, x)'
         /\ \A v, x \in Tab : Asked(v, x)' =>
              x # t /\ (Asked(v, x) \/ (v = u /\ x \in open' \ {u} /\ url[t].sync))
<1> DEFINE q == [v \in Tab |-> [relay[v] EXCEPT ![t] = <<>>]]
           words == IF url[t].sync THEN <<Where>> ELSE <<>>
           said == IF role'[u] = "listening" THEN words \o <<Join>> ELSE words
<1>1. relay \in Relay /\ t # u /\ t \notin open'
  BY DEF IInv, JamInv, JamTypeOK, ReloadPage, Reload
<1>2. relay' = SentTo(q, u, open', said)
  BY DEF ReloadPage, Reload
<1>3. q \in Relay
  BY <1>1, MissingIsQuieter DEF AllQuieter
<1>4. \A v, x \in Tab : q[v][x] = IF x = t THEN <<>> ELSE relay[v][x]
  BY <1>1 DEF Relay
<1>5. words \in Seq(Message) /\ Anchors(words) = {} /\ Climbing(words) /\ (Asks(words) => url[t].sync)
  <2>1. <<>> \in Seq(Message) /\ Anchors(<<>>) = {} /\ Climbing(<<>>) /\ ~Asks(<<>>)
    BY JamIsChatter DEF Chatter
  <2> QED BY <2>1, JamIsChatter
<1> HIDE DEF q, words
<1>6. said \in Seq(Message) /\ Anchors(said) = {} /\ Climbing(said) /\ (Asks(said) => url[t].sync)
  <2>1. <<Join>> \in Seq(Message) /\ Anchors(<<Join>>) = {} /\ Climbing(<<Join>>) /\ ~Asks(<<Join>>)
    BY JamIsChatter DEF Chatter
  <2>2. words \o <<Join>> \in Seq(Message)
    BY <1>5, <2>1, ConcatProperties
  <2>3. /\ Anchors(words \o <<Join>>) = {} /\ Climbing(words \o <<Join>>)
        /\ Asks(words \o <<Join>>) => url[t].sync
    BY ONLY <1>5, <2>1, SayingAnchors
  <2> QED BY <1>5, <2>2, <2>3
<1> HIDE DEF said
<1> SUFFICES ASSUME NEW v \in Tab, NEW x \in Tab
      PROVE /\ Anchors(relay'[v][x]) = (IF x = t THEN {} ELSE Way(v, x)) /\ Climbing(relay'[v][x])
            /\ Asks(relay'[v][x]) =>
                 x # t /\ (Asked(v, x) \/ (v = u /\ x \in open' \ {u} /\ url[t].sync))
  BY NextQueues
<1>7. relay'[v][x] = IF v = u /\ x \in open' \ {u} THEN q[v][x] \o said ELSE q[v][x]
  BY <1>2, <1>3, AfterSaying
<1>8. /\ q[v][x] \in Seq(Message) /\ Climbing(q[v][x])
      /\ Anchors(q[v][x]) = (IF x = t THEN {} ELSE Way(v, x))
      /\ Asks(q[v][x]) => x # t /\ Asked(v, x)
  <2>1. <<>> \in Seq(Message) /\ Anchors(<<>>) = {} /\ Climbing(<<>>) /\ ~Asks(<<>>)
    BY JamIsChatter DEF Chatter
  <2>2. relay[v][x] \in Seq(Message) /\ Climbing(relay[v][x])
    BY <1>1 DEF Relay, AnchorInv, InTheirOrder, Climbs
  <2> QED BY <1>4, <2>1, <2>2 DEF Way, Asked
<1>9. /\ Anchors(q[v][x] \o said) = Anchors(q[v][x]) /\ Climbing(q[v][x] \o said)
      /\ Asks(q[v][x] \o said) => Asks(q[v][x]) \/ url[t].sync
  <2> DEFINE o == q[v][x]
  <2>1. o \in Seq(Message) /\ said \in Seq(Message)
    BY <1>6, <1>8
  <2>2. /\ Anchors(o \o said) = Anchors(o) \cup Anchors(said)
        /\ Asks(o \o said) <=> Asks(o) \/ Asks(said)
        /\ Climbing(o) /\ Climbing(said) /\ (\A a \in Anchors(o), b \in Anchors(said) : a.at < b.at)
             => Climbing(o \o said)
    BY ONLY <2>1, SayingAnchors
  <2> QED BY ONLY <1>6, <1>8, <2>2
<1> QED BY <1>1, <1>7, <1>8, <1>9

\* To a new page nothing comes, of one that was closed nothing is expected.
LEMMA ReloadKeepsAnchors ==
  ASSUME Exact, IInv, AnchorInv, NEW t \in Tab, NEW u \in Tab, ReloadPage(t, u)
  PROVE  AnchorInv'
<1>1. /\ relay \in Relay /\ TransportTypeOK /\ open \subseteq Tab /\ audience \subseteq Tab
      /\ armed \in [Tab -> BOOLEAN] /\ link \in [Tab -> BOOLEAN] /\ playing \in [Tab -> BOOLEAN]
      /\ last \in [Tab -> Position \cup {NoAnchor}] /\ pending \in [Tab -> Position \cup {NoAnchor}]
      /\ newest \in Position \cup {NoAnchor} /\ role \in [Tab -> Roles]
  BY DEF IInv, JamInv, JamTypeOK, TransportTypeOK
<1>2. /\ t \in open /\ u \notin open /\ (\A v \in open : v < u) /\ t # u
      /\ open' = (open \ {t}) \cup {u} /\ UNCHANGED <<now, newest>>
      /\ url[t].sync => MayArm
  BY DEF ReloadPage, Reload
<1>3. url[t].sync => \A v, x \in Tab : Way(v, x) = {} /\ ~Asked(v, x) /\ pending[x] = NoAnchor
  BY <1>1, <1>2, KindsUnderWay DEF MayArm, Exact
<1>4. /\ \A v, x \in Tab : /\ Way(v, x)' = (IF x = t THEN {} ELSE Way(v, x))
                           /\ Climbs(v, x)'
      /\ \A v, x \in Tab : Asked(v, x)' =>
           x # t /\ (Asked(v, x) \/ (v = u /\ x \in open' \ {u} /\ url[t].sync))
  BY ReloadedQueues
<1>5. /\ \A v \in Tab : pending'[v] = IF v = t THEN NoAnchor ELSE pending[v]
      /\ \A v \in Tab : last'[v] = IF v = t THEN NoAnchor ELSE last[v]
      /\ ~armed'[t] /\ (armed'[u] <=> url[t].sync) /\ audience' \subseteq audience \ {t}
      /\ \A v \in Tab \ {t, u} : /\ armed'[v] = armed[v] /\ link'[v] = link[v]
                                 /\ playing'[v] = playing[v] /\ role'[v] = role[v]
  BY <1>1, <1>2 DEF ReloadPage, Reload
<1>6. Coming(t)' = {} /\ \A v \in Tab : v # t => Coming(v)' = Coming(v)
  <2>1. \A v \in Tab : v # t => Coming(v)' = Coming(v)
    BY <1>4, <1>5, NextComing DEF Coming
  <2> QED BY <1>4, <1>5, <2>1, NextComing
<1>7. Coming(u) = {} /\ Coming(u)' = {}
  BY <1>2, <1>6 DEF AnchorInv, Absent, Coming
<1>8. url[t].sync => \A v \in Tab : Coming(v) = {} /\ Coming(v)' = {}
  BY <1>3, <1>6 DEF Coming
<1>9. InFlight' => InFlight /\ ~url[t].sync
  <2>1. InFlight' => InFlight
    BY <1>4, NextInFlight DEF InFlight
  <2> QED BY <1>3, <2>1 DEF InFlight
<1>10. \A v \in Tab : Coming(v)' \subseteq Coming(v)
  BY <1>6
<1>11. /\ newest.from < u
       /\ \A v \in Tab : \A a \in Coming(v) : a.from < u
  <2>1. newest.from \in Int /\ u \in Int /\ (\A v \in open : v \in Int)
    BY <1>1, AnchorParts DEF Tab
  <2>2. \A v \in Tab : \A a \in Coming(v) : a.from \in Int
    BY ComingParts, AnchorParts
  <2> QED BY <1>2, <2>1, <2>2 DEF AnchorInv, Met
<1>12. TwoPages'
  BY <1>2 DEF AnchorInv, TwoPages
<1>13. Absent'
  <2> SUFFICES ASSUME NEW v \in Tab \ open'
        PROVE /\ ~armed'[v] /\ pending'[v] = NoAnchor /\ v \notin audience'
              /\ \A x \in Tab : Way(x, v)' = {} /\ ~Asked(x, v)'
    BY DEF Absent
  <2>1. CASE v = t
    BY <1>4, <1>5, <2>1
  <2>2. CASE v # t
    <3>1. v \in Tab \ open /\ v \notin {t, u}
      BY <1>2, <2>2
    <3> QED BY <1>4, <1>5, <3>1 DEF AnchorInv, Absent
  <2> QED BY <2>1, <2>2
<1>14. InTheirOrder'
  <2> SUFFICES ASSUME NEW x \in Tab, NEW v \in Tab
        PROVE /\ Climbs(v, x)'
              /\ \A a \in Way(v, x)' : a.from = v /\ v # x
              /\ Asked(v, x)' => v # x
              /\ pending'[x] # NoAnchor =>
                   pending'[x].from # x /\ \A a \in Way(v, x)' : pending'[x].at < a.at
    BY DEF InTheirOrder
  <2> QED BY <1>4, <1>5 DEF AnchorInv, InTheirOrder
<1>15. OneSpeaker'
  <2> SUFFICES ASSUME NEW v \in Tab
        PROVE /\ \A a, b \in Coming(v)' : a.from = b.from
              /\ v \in open' => \A w \in open' \ {v} : armed'[w] => \A a \in Coming(v)' : a.from = w
    BY DEF OneSpeaker
  <2>1. \A a, b \in Coming(v)' : a.from = b.from
    BY <1>10 DEF AnchorInv, OneSpeaker
  <2>2. ASSUME v \in open', NEW w \in open' \ {v}, armed'[w]
        PROVE Coming(v)' = {}
    <3>1. CASE v = u \/ w = u
      BY <1>5, <1>7, <1>8, <2>2, <3>1
    <3>2. CASE v # u /\ w # u
      BY <1>2, <2>2, <3>2 DEF AnchorInv, TwoPages
    <3> QED BY <3>1, <3>2
  <2> QED BY <2>1, <2>2
<1>16. NewestIsLast'
  <2>1. newest.at \in Int /\ newest.at >= 0 /\ newest.from \in Int /\ newest.from >= 0
    <3>1. newest.at >= 0
      BY DEF AnchorInv, NewestIsLast
    <3>2. newest.at \in Int
      BY <1>1, AnchorParts
    <3>3. CASE newest = NoAnchor
      BY <3>1, <3>2, <3>3 DEF NoAnchor, None
    <3>4. CASE newest \in Position
      BY <3>1, <3>2, <3>4, AnchorParts DEF Tab
    <3> QED BY <1>1, <3>3, <3>4
  <2>2. ~Newer(NoAnchor, newest)
    BY <2>1 DEF Newer, NoAnchor, None
  <2>3. \A v \in Tab : ~Newer(last'[v], newest)
    BY <1>5, <2>2 DEF AnchorInv, NewestIsLast
  <2> QED BY <1>2, <1>10, <2>3 DEF AnchorInv, NewestIsLast, Newer
<1>17. Met'
  <2>1. newest.from \in Int /\ u \in Int
    BY <1>1, AnchorParts DEF Tab
  <2>2. newest'.from <= u
    BY <1>2, <1>11, <2>1
  <2>3. \A v \in Tab : \A a \in Coming(v)' : a.from <= u
    <3>1. \A v \in Tab : \A a \in Coming(v) : a.from \in Int
      BY ComingParts, AnchorParts
    <3> QED BY <1>10, <1>11, <2>1, <3>1
  <2> QED BY <1>2, <2>2, <2>3 DEF Met
<1>18. Questions'
  <2>1. \A v, x \in Tab : Asked(v, x)' => x # t /\ (Asked(v, x) \/ (v = u /\ url[t].sync))
    BY <1>4
  <2>2. \A v, x, w, y \in Tab : Asked(v, x)' /\ Asked(w, y)' => v = w
    BY <1>3, <2>1 DEF AnchorInv, Questions
  <2>3. \A v, x \in Tab : Asked(v, x)' => Coming(x)' = {}
    BY <1>6, <1>8, <2>1 DEF AnchorInv, Questions
  <2>4. (\E v, x \in Tab : Asked(v, x)') => ~InFlight'
    BY <1>9, <2>1 DEF AnchorInv, Questions
  <2> QED BY <2>2, <2>3, <2>4 DEF Questions
<1>19. Own'
  <2>1. ASSUME InFlight', NEW v \in Tab, NEW a \in Coming(v)', a.from \in open'
        PROVE a.at < now \/ a.at <= last'[a.from].at
    <3>1. a \in Coming(v) /\ a.from < u /\ a.from \in open \ {t} /\ a.from \in Tab
      <4>1. a \in Coming(v) /\ a.from < u
        BY <1>10, <1>11, <2>1
      <4>2. a.from # u
        BY <4>1 DEF Tab
      <4> QED BY <1>1, <1>2, <2>1, <4>1, <4>2
    <3>2. a.at < now \/ a.at <= last[a.from].at
      BY <1>9, <2>1, <3>1 DEF AnchorInv, Own
    <3> QED BY <1>5, <3>1, <3>2
  <2>2. InFlight' => newest.kind = "anchor" /\ ~(\A v \in open' : armed'[v])
    BY <1>2, <1>5, <1>9 DEF AnchorInv, Own
  <2>3. newest.kind = "anchor" /\ newest.from \in open' => last'[newest.from] = newest
    <3>1. newest.from # u
      BY <1>11 DEF Tab
    <3>2. newest.from \in open' => newest.from \in open \ {t} /\ newest.from \in Tab
      BY <1>1, <1>2, <3>1
    <3> QED BY <1>5, <3>2 DEF AnchorInv, Own
  <2> QED BY <1>2, <2>1, <2>2, <2>3 DEF Own
<1>20. Agreed'
  <2> SUFFICES ASSUME NEW v \in audience'
        PROVE /\ armed'[v] /\ link'[v]
              /\ role'[v] = "listening" =>
                   newest = last'[v] /\ newest.from = v /\ ~newest.playing /\ ~playing'[v]
              /\ (\A a \in Coming(v)' : Older(a.from, a.at, last'[v])) => playing'[v] = newest.playing
              /\ \A a \in Coming(v)' : (\A b \in Coming(v)' : b.at <= a.at) =>
                   Older(a.from, a.at, last'[v]) \/ a.playing = newest.playing
              /\ InFlight' => newest \in Coming(v)' \/ last'[v].at >= newest.at
    BY <1>2 DEF Agreed, Listening, Older
  <2>1. v \in audience /\ v \in Tab \ {t, u}
    BY <1>1, <1>2, <1>5 DEF AnchorInv, Absent
  <2>2. /\ armed[v] /\ link[v]
        /\ role[v] = "listening" =>
             newest = last[v] /\ newest.from = v /\ ~newest.playing /\ ~playing[v]
        /\ (\A a \in Coming(v) : Older(a.from, a.at, last[v])) => playing[v] = newest.playing
        /\ \A a \in Coming(v) : (\A b \in Coming(v) : b.at <= a.at) =>
             Older(a.from, a.at, last[v]) \/ a.playing = newest.playing
        /\ InFlight => newest \in Coming(v) \/ last[v].at >= newest.at
    BY <2>1 DEF AnchorInv, Agreed, Listening
  <2>3. /\ armed'[v] = armed[v] /\ link'[v] = link[v] /\ playing'[v] = playing[v]
        /\ role'[v] = role[v] /\ last'[v] = last[v] /\ Coming(v)' = Coming(v)
    BY <1>5, <1>6, <2>1
  <2> QED BY <1>9, <2>2, <2>3
<1> QED BY <1>12, <1>13, <1>14, <1>15, <1>16, <1>17, <1>18, <1>19, <1>20 DEF AnchorInv

-----------------------------------------------------------------------------
(* Every engine that heard the newest anchor does what it says              *)

\* Every step of the session.
LEMMA NextKeepsAnchors == Exact /\ IInv /\ AnchorInv /\ [Next]_vars => AnchorInv'
<1> SUFFICES ASSUME Exact, IInv, AnchorInv, [Next]_vars PROVE AnchorInv'
  OBVIOUS
<1>1. CASE UNCHANGED vars
  <2>1. UNCHANGED <<open, role, relay, armed, link, playing, last, pending, now, newest, audience>>
    BY <1>1 DEF vars, jam, transport
  <2>2. audience \subseteq Tab /\ \A q : Calmer(q, q)
    BY DEF IInv, TransportTypeOK, Calmer
  <2> QED BY <2>1, <2>2, CalmStep
<1>2. ASSUME NEW t \in Tab, JamStep(t), UNCHANGED transport PROVE AnchorInv'
  BY <1>2, JamKeepsAnchors
<1>3. ASSUME NEW t \in Tab, Missed(t), audience' = audience \ {t},
             UNCHANGED <<armed, link, playing, last, pending, clock, now, newest>>
      PROVE AnchorInv'
  BY <1>3, MissedKeepsAnchors
<1>4. ASSUME NEW t \in Tab, ToggleSync(t) \/ Play(t) \/ Stop(t) PROVE AnchorInv'
  BY <1>4, ToggleKeepsAnchors, PressKeepsAnchors
<1>5. ASSUME NEW t \in Tab, RetryApply(t) \/ EngineLinks(t) PROVE AnchorInv'
  BY <1>5, RetryKeepsAnchors, MeasureKeepsAnchors
<1>6. ASSUME NEW t \in Tab, NEW u \in Tab, HearTransport(t, u) \/ Measure(t, u) \/ ReloadPage(t, u)
      PROVE AnchorInv'
  BY <1>6, HearingKeepsAnchors, MeasureKeepsAnchors, ReloadKeepsAnchors
<1> QED BY <1>1, <1>2, <1>3, <1>4, <1>5, <1>6 DEF Next

\* Nothing has been said.
LEMMA InitAnchors == Init => AnchorInv
<1> SUFFICES ASSUME Init PROVE AnchorInv
  OBVIOUS
<1>1. /\ open = {1, 2} /\ now = 0 /\ newest = NoAnchor /\ audience = {}
      /\ last = [t \in Tab |-> NoAnchor] /\ pending = [t \in Tab |-> NoAnchor]
      /\ \A t \in Tab \ open : ~armed[t]
      /\ \A t, u \in Tab : relay[t][u] \in {<<>>, <<Join>>}
  BY DEF Init, JamInit
<1>2. \A t, u \in Tab : Way(t, u) = {} /\ ~Asked(t, u) /\ Climbs(t, u)
  BY <1>1, JamIsChatter DEF Chatter, Way, Asked, Climbs
<1>3. \A t \in Tab : pending[t] = NoAnchor /\ last[t] = NoAnchor
  BY <1>1
<1>4. (\A t \in Tab : Coming(t) = {}) /\ ~InFlight
  BY <1>2, <1>3 DEF Coming, InFlight
<1>5. NoAnchor.at = 0 /\ NoAnchor.from = 0 /\ NoAnchor.kind = "none"
  BY DEF NoAnchor, None
<1>6. TwoPages
  BY <1>1 DEF TwoPages
<1>7. Absent /\ InTheirOrder /\ OneSpeaker /\ Questions
  BY <1>1, <1>2, <1>3, <1>4 DEF Absent, InTheirOrder, OneSpeaker, Questions
<1>8. NewestIsLast /\ Met
  BY <1>1, <1>3, <1>4, <1>5 DEF NewestIsLast, Met, Newer
<1>9. Own /\ Agreed
  BY <1>1, <1>4, <1>5 DEF Own, Agreed
<1> QED BY <1>6, <1>7, <1>8, <1>9 DEF AnchorInv

\* Once nothing comes to a tab, all of that is older than what it took last.
LEMMA AnchorsAgree == IInv /\ AnchorInv => AnchorsConverge
<1> SUFFICES ASSUME IInv, AnchorInv, NEW t \in audience, Quiet(t) PROVE playing[t] = newest.playing
  BY DEF AnchorsConverge
<1>1. t \in Tab
  BY DEF IInv, TransportTypeOK
<1>2. \A u \in Tab : Way(u, t) = {}
  BY <1>1 DEF Quiet, Signals, Way, Anchors, IsAnchor
<1>3. Coming(t) = {}
  BY <1>2 DEF Coming, Quiet
<1> QED BY <1>3 DEF AnchorInv, Agreed

(* "LWW: the newest anchor in local time wins, ties by peer id" (:12): with   *)
(* clocks estimated exactly and users who act on what they see, every engine  *)
(* that heard the newest anchor does what it says once nothing is under way to *)
(* it, in whatever order anchors came, whoever joined, left or lost messages. *)
THEOREM EnginesConverge == Exact => (Spec => []AnchorsConverge)
<1>1. Init => IInv /\ AnchorInv
  BY InitHolds, InitAnchors
<1>2. Exact /\ IInv /\ AnchorInv /\ [Next]_vars => (IInv /\ AnchorInv)'
  BY NextPreserves, NextKeepsAnchors
<1>3. IInv /\ AnchorInv => AnchorsConverge
  BY AnchorsAgree
<1> QED
  <2> SUFFICES ASSUME Exact PROVE Spec => []AnchorsConverge
    OBVIOUS
  <2>1. IInv /\ AnchorInv /\ [Next]_vars => (IInv /\ AnchorInv)'
    BY <1>2
  <2> QED BY <1>1, <1>3, <2>1, PTL DEF Spec
=============================================================================
