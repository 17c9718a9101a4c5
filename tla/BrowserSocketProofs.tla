------------------------ MODULE BrowserSocketProofs ------------------------
(***************************************************************************)
(* What holds between a page, its socket and the server's tables, for any  *)
(* number of topics, sockets, calls and events.                            *)
(*                                                                         *)
(* SocketInv relates four things: how far the page's sockets are (Links),  *)
(* which of them have an endpoint and an entry in the tables (Endpoints),  *)
(* what the endpoints look up and which refusals are on their way          *)
(* (Lookups), and, for the open socket of the page, that what the server   *)
(* has of a topic, looks up or still has to read about it is what the page *)
(* wants in the end (Agreed).  ClientServerAgree is its case in which      *)
(* nothing is on its way any more.                                         *)
(***************************************************************************)
EXTENDS BrowserSocket, FiniteSetTheorems, SequenceTheorems, TLAPS

\* What travels on a socket, to the server and to the page.
Requests == [kind : {"subscribe", "unsubscribe"}, topic : Topics, n : {0}]
Answers == [kind : {"open", "update", "subscribe_rejected", "close"}, topic : Topics \cup {<<>>}, n : Int]

\* What is on its way to the server about a topic: nothing, or a last message of some kind.
Silent(q, t) == \A i \in DOMAIN q : q[i].topic # t
Final(q, t, k) == \E i \in DOMAIN q :
    q[i].topic = t /\ q[i].kind = k /\ \A j \in DOMAIN q : j > i => q[j].topic # t

\* What is on its way to the page: a refusal of a topic, or the end.
RejectedIn(q, t) == \E i \in DOMAIN q : q[i].kind = "subscribe_rejected" /\ q[i].topic = t
OnlyCloses(q) == \A i \in DOMAIN q : q[i].kind = "close"
ClosesFirst(q) == q # <<>> /\ Head(q).kind = "close"

\* The link of s carries messages.
Linked(s) == link[s] = "up"

\* The endpoint of s is at some point of a lookup of t.
Asking(s, t) == endpoint[s].at \in {"lookup", "found", "refused"} /\ endpoint[s].topic = t

\* s does not have t and will not get it any more.
Dead(s, t) ==
    t \notin allowed /\ << s, t >> \notin subscriptions /\ ~(endpoint[s].at = "found" /\ endpoint[s].topic = t)

\* Where an endpoint can be, and the topic it looks up then.
Places ==
    [at : {"none", "accepting", "idle", "gone"}, topic : {<<>>}] \cup [at : {"lookup", "found", "refused"}, topic : Topics]

\* The types; the rest of the model's variables is of no matter here.
SocketTypeOK ==
    /\ topics \subseteq Topics /\ allowed \subseteq Topics
    /\ ws \in 0..MaxSockets /\ made \in 0..MaxSockets
    /\ readyState \in [Sockets -> {"none", "connecting", "open", "closing", "closed"}]
    /\ link \in [Sockets -> {"none", "up", "lost"}]
    /\ up \in [Sockets -> Seq(Requests)] /\ down \in [Sockets -> Seq(Answers)]
    /\ endpoint \in [Sockets -> Places]
    /\ active \subseteq Sockets /\ subscriptions \subseteq Sockets \X Topics
    /\ payload \in [Topics -> Int] /\ built \in [Topics -> Int]

\* A page has one socket that is not ending, the last it made; the others are on their way out.
Links ==
    /\ ws <= made
    /\ ws # 0 => readyState[ws] \in {"connecting", "open", "closing"}
    /\ \A s \in Sockets :
        /\ s > made => /\ readyState[s] = "none" /\ link[s] = "none"
                       /\ up[s] = <<>> /\ down[s] = <<>> /\ endpoint[s].at = "none"
        /\ s <= made /\ s # ws => readyState[s] \in {"closing", "closed"}
        /\ readyState[s] = "closed" => link[s] = "lost" /\ down[s] = <<>>
        /\ readyState[s] = "closing" => ClosesFirst(down[s])

\* A socket in the table has an endpoint, one that is not open has asked for nothing, and one
\* that was not accepted is not open.
Endpoints ==
    /\ \A s \in active : Running(s)
    /\ SubscriptionHasEndpoint
    /\ \A s \in Sockets :
        /\ endpoint[s].at \in {"none", "accepting"} =>
             readyState[s] # "open" /\ OnlyCloses(down[s]) /\ (Linked(s) => down[s] = <<>>)
        /\ readyState[s] \in {"none", "connecting"} =>
             up[s] = <<>> /\ \A t \in Topics : ~Asking(s, t) /\ << s, t >> \notin subscriptions

\* A topic is looked up only for a socket that does not have it, and a refusal is final.
Lookups == \A s \in Sockets, t \in Topics :
    /\ Asking(s, t) => << s, t >> \notin subscriptions
    /\ endpoint[s].at = "refused" /\ endpoint[s].topic = t => t \notin allowed
    /\ RejectedIn(down[s], t) => Dead(s, t)

\* What the server has, looks up or still has to read about a topic is what the page wants, or
\* a refusal is on its way, or the topic will be refused.
AgreedAt(s, t) ==
    /\ Final(up[s], t, "subscribe") => t \in topics \/ Dead(s, t)
    /\ Final(up[s], t, "unsubscribe") => t \notin topics
    /\ Silent(up[s], t) =>
         /\ << s, t >> \in subscriptions \/ (endpoint[s].at = "found" /\ endpoint[s].topic = t) => t \in topics
         /\ endpoint[s].at = "lookup" /\ endpoint[s].topic = t => t \in topics \/ Dead(s, t)
         /\ << s, t >> \notin subscriptions /\ ~Asking(s, t) => t \notin topics \/ RejectedIn(down[s], t)
\* The open socket of the page.
Live(s) == s = ws /\ readyState[s] = "open" /\ Linked(s)
Agreed == \A s \in active, t \in Topics : Live(s) => AgreedAt(s, t)

\* The inductive invariant.
SocketInv == SocketTypeOK /\ Links /\ Endpoints /\ Lookups /\ Agreed

-----------------------------------------------------------------------------
\* A message more from the page.
LEMMA UpAppend ==
    ASSUME NEW q \in Seq(Requests), NEW m \in Requests, NEW t \in Topics
    PROVE  /\ Append(q, m) \in Seq(Requests)
           /\ \A k : Final(Append(q, m), t, k) <=> IF m.topic = t THEN m.kind = k ELSE Final(q, t, k)
           /\ Silent(Append(q, m), t) <=> Silent(q, t) /\ m.topic # t
<1> DEFINE r == Append(q, m)
<1>1. Len(q) \in Nat /\ DOMAIN q = 1..Len(q)
  BY LenProperties
<1>2. /\ r \in Seq(Requests) /\ Len(r) = Len(q) + 1
      /\ (\A i \in 1..Len(q) : r[i] = q[i]) /\ r[Len(q) + 1] = m
  BY AppendProperties
<1>3. DOMAIN r = 1..(Len(q) + 1)
  BY <1>2, LenProperties
<1> HIDE DEF r
<1>4. Len(q) + 1 \in DOMAIN r /\ \A i \in DOMAIN r : i \in DOMAIN q \/ i = Len(q) + 1
  BY <1>1, <1>3
<1>5. \A i \in DOMAIN q : i \in DOMAIN r /\ r[i] = q[i] /\ i < Len(q) + 1
  BY <1>1, <1>2, <1>3
<1>6. Silent(r, t) <=> Silent(q, t) /\ m.topic # t
  BY <1>2, <1>4, <1>5 DEF Silent
<1>7. ASSUME NEW k  PROVE Final(r, t, k) <=> IF m.topic = t THEN m.kind = k ELSE Final(q, t, k)
  <2>1. CASE m.topic = t
    <3>1. \A i \in DOMAIN r : ~(\E j \in DOMAIN r : j > i /\ r[j].topic = t) => i = Len(q) + 1
      BY <1>2, <1>4, <1>5, <2>1
    <3>2. \A j \in DOMAIN r : ~(j > Len(q) + 1)
      BY <1>1, <1>3
    <3>q. QED  BY <1>2, <1>4, <2>1, <3>1, <3>2 DEF Final
  <2>2. CASE m.topic # t
    <3>1. Final(r, t, k) => Final(q, t, k)
      BY <1>2, <1>4, <1>5, <2>2 DEF Final
    <3>2. Final(q, t, k) => Final(r, t, k)
      BY <1>2, <1>4, <1>5, <2>2 DEF Final
    <3>q. QED  BY <2>2, <3>1, <3>2
  <2>q. QED  BY <2>1, <2>2
<1>q. QED  BY <1>2, <1>6, <1>7 DEF r

\* The first message is taken.
LEMMA Taken ==
    ASSUME NEW S, NEW q \in Seq(S), q # <<>>
    PROVE  /\ Head(q) = q[1] /\ Head(q) \in S /\ 1 \in DOMAIN q /\ Tail(q) \in Seq(S)
           /\ \A i \in DOMAIN Tail(q) : i \in Nat /\ i + 1 \in DOMAIN q /\ Tail(q)[i] = q[i + 1]
           /\ \A i \in DOMAIN q : i \in Nat /\ (i = 1 \/ (i - 1 \in DOMAIN Tail(q) /\ Tail(q)[i - 1] = q[i]))
<1>1. Len(q) \in Nat /\ DOMAIN q = 1..Len(q) /\ Len(q) # 0
  BY LenProperties, EmptySeq
<1>2. /\ Head(q) \in S /\ Tail(q) \in Seq(S) /\ Len(Tail(q)) = Len(q) - 1
      /\ \A i \in 1..Len(Tail(q)) : Tail(q)[i] = q[i + 1]
  BY HeadTailProperties
<1>3. DOMAIN Tail(q) = 1..(Len(q) - 1)
  BY <1>2, LenProperties
<1>4. Head(q) = q[1]
  BY DEF Head
<1>q. QED  BY <1>1, <1>2, <1>3, <1>4

\* The server takes the first message of the page.
LEMMA UpTail ==
    ASSUME NEW q \in Seq(Requests), q # <<>>, NEW t \in Topics
    PROVE  /\ Tail(q) \in Seq(Requests) /\ Head(q) \in Requests
           /\ \A k : Final(Tail(q), t, k) => Final(q, t, k)
           /\ Silent(Tail(q), t) => IF Head(q).topic = t THEN Final(q, t, Head(q).kind) ELSE Silent(q, t)
<1> DEFINE r == Tail(q)
<1>1. /\ Head(q) = q[1] /\ Head(q) \in Requests /\ 1 \in DOMAIN q /\ r \in Seq(Requests)
      /\ \A i \in DOMAIN r : i \in Nat /\ i + 1 \in DOMAIN q /\ r[i] = q[i + 1]
      /\ \A i \in DOMAIN q : i \in Nat /\ (i = 1 \/ (i - 1 \in DOMAIN r /\ r[i - 1] = q[i]))
  BY Taken
<1> HIDE DEF r
<1>2. ASSUME NEW k, Final(r, t, k)  PROVE Final(q, t, k)
  <2>1. PICK i \in DOMAIN r : r[i].topic = t /\ r[i].kind = k /\ \A j \in DOMAIN r : j > i => r[j].topic # t
    BY <1>2 DEF Final
  <2>2. i \in Nat /\ i + 1 \in DOMAIN q /\ q[i + 1].topic = t /\ q[i + 1].kind = k
    BY <1>1, <2>1
  <2>3. ASSUME NEW j \in DOMAIN q, j > i + 1  PROVE q[j].topic # t
    <3>1. j - 1 \in DOMAIN r /\ r[j - 1] = q[j] /\ j - 1 > i
      BY <1>1, <2>2, <2>3
    <3>q. QED  BY <2>1, <3>1
  <2>q. QED  BY <2>2, <2>3 DEF Final
<1>3. ASSUME Silent(r, t)  PROVE IF Head(q).topic = t THEN Final(q, t, Head(q).kind) ELSE Silent(q, t)
  <2>1. \A j \in DOMAIN q : j # 1 => q[j].topic # t
    BY <1>1, <1>3 DEF Silent
  <2>2. CASE Head(q).topic = t
    BY <1>1, <2>1, <2>2 DEF Final
  <2>3. CASE Head(q).topic # t
    BY <1>1, <2>1, <2>3 DEF Silent
  <2>q. QED  BY <2>2, <2>3
<1>q. QED  BY <1>1, <1>2, <1>3 DEF r

\* A message more to the page.
LEMMA DownAppend ==
    ASSUME NEW q \in Seq(Answers), NEW m \in Answers
    PROVE  /\ Append(q, m) \in Seq(Answers)
           /\ \A t : RejectedIn(Append(q, m), t) <=> RejectedIn(q, t) \/ (m.kind = "subscribe_rejected" /\ m.topic = t)
           /\ OnlyCloses(Append(q, m)) <=> OnlyCloses(q) /\ m.kind = "close"
           /\ ClosesFirst(q) => ClosesFirst(Append(q, m))
<1> DEFINE r == Append(q, m)
<1>1. Len(q) \in Nat /\ DOMAIN q = 1..Len(q)
  BY LenProperties
<1>2. /\ r \in Seq(Answers) /\ r # <<>> /\ Len(r) = Len(q) + 1
      /\ (\A i \in 1..Len(q) : r[i] = q[i]) /\ r[Len(q) + 1] = m
  BY AppendProperties
<1>3. DOMAIN r = 1..(Len(q) + 1)
  BY <1>2, LenProperties
<1>h. ClosesFirst(q) => Head(r) = Head(q)
  BY HeadTailAppend DEF ClosesFirst
<1> HIDE DEF r
<1>4. Len(q) + 1 \in DOMAIN r /\ \A i \in DOMAIN r : i \in DOMAIN q \/ i = Len(q) + 1
  BY <1>1, <1>3
<1>5. \A i \in DOMAIN q : i \in DOMAIN r /\ r[i] = q[i]
  BY <1>1, <1>2, <1>3
<1>6. ASSUME NEW t  PROVE RejectedIn(r, t) <=> RejectedIn(q, t) \/ (m.kind = "subscribe_rejected" /\ m.topic = t)
  BY <1>2, <1>4, <1>5 DEF RejectedIn
<1>7. OnlyCloses(r) <=> OnlyCloses(q) /\ m.kind = "close"
  BY <1>2, <1>4, <1>5 DEF OnlyCloses
<1>q. QED  BY <1>2, <1>6, <1>7, <1>h DEF r, ClosesFirst

\* The page takes the first message to it.
LEMMA DownTail ==
    ASSUME NEW q \in Seq(Answers), q # <<>>
    PROVE  /\ Tail(q) \in Seq(Answers) /\ Head(q) \in Answers
           /\ \A t : RejectedIn(Tail(q), t) => RejectedIn(q, t)
           /\ \A t : RejectedIn(q, t) /\ ~(Head(q).kind = "subscribe_rejected" /\ Head(q).topic = t)
                       => RejectedIn(Tail(q), t)
           /\ Head(q).kind = "subscribe_rejected" => RejectedIn(q, Head(q).topic)
           /\ OnlyCloses(q) => OnlyCloses(Tail(q)) /\ Head(q).kind = "close"
<1> DEFINE r == Tail(q)
<1>1. /\ Head(q) = q[1] /\ Head(q) \in Answers /\ 1 \in DOMAIN q /\ r \in Seq(Answers)
      /\ \A i \in DOMAIN r : i \in Nat /\ i + 1 \in DOMAIN q /\ r[i] = q[i + 1]
      /\ \A i \in DOMAIN q : i \in Nat /\ (i = 1 \/ (i - 1 \in DOMAIN r /\ r[i - 1] = q[i]))
  BY Taken
<1> HIDE DEF r
<1>2. ASSUME NEW t, RejectedIn(r, t)  PROVE RejectedIn(q, t)
  BY <1>1, <1>2 DEF RejectedIn
<1>3. ASSUME NEW t, RejectedIn(q, t), ~(Head(q).kind = "subscribe_rejected" /\ Head(q).topic = t)
      PROVE  RejectedIn(r, t)
  BY <1>1, <1>3 DEF RejectedIn
<1>4. Head(q).kind = "subscribe_rejected" => RejectedIn(q, Head(q).topic)
  BY <1>1 DEF RejectedIn
<1>5. OnlyCloses(q) => OnlyCloses(r) /\ Head(q).kind = "close"
  BY <1>1 DEF OnlyCloses
<1>q. QED  BY <1>1, <1>2, <1>3, <1>4, <1>5 DEF r

\* The short queues.
LEMMA ShortQueues ==
    /\ <<>> \in Seq(Requests) /\ <<>> \in Seq(Answers)
    /\ \A t : Silent(<<>>, t) /\ ~RejectedIn(<<>>, t)
    /\ OnlyCloses(<<>>)
    /\ \A c \in Int : LET q == << Close(c) >> IN
         q \in Seq(Answers) /\ OnlyCloses(q) /\ ClosesFirst(q) /\ \A t : ~RejectedIn(q, t)
    /\ \A c \in Int : LET q == << Message("open", <<>>, 0), Close(c) >> IN
         q \in Seq(Answers) /\ \A t : ~RejectedIn(q, t)
<1>1. \A c \in Int : Close(c) \in Answers /\ Close(c).kind = "close"
  BY DEF Close, Message, Answers
<1>2. Message("open", <<>>, 0) \in Answers /\ Message("open", <<>>, 0).kind = "open"
  BY DEF Message, Answers
<1>3. /\ <<>> \in Seq(Requests) /\ <<>> \in Seq(Answers) /\ OnlyCloses(<<>>)
      /\ \A t : Silent(<<>>, t) /\ ~RejectedIn(<<>>, t)
  BY EmptySeq DEF Silent, RejectedIn, OnlyCloses
<1>4. ASSUME NEW c \in Int
      PROVE  LET q == << Close(c) >> IN
             q \in Seq(Answers) /\ OnlyCloses(q) /\ ClosesFirst(q) /\ \A t : ~RejectedIn(q, t)
  <2> DEFINE m == Close(c)
  <2>1. m \in Answers /\ m.kind = "close"
    BY <1>1
  <2> HIDE DEF m
  <2>q. QED  BY <2>1 DEF m, OnlyCloses, ClosesFirst, RejectedIn
<1>5. ASSUME NEW c \in Int
      PROVE  LET q == << Message("open", <<>>, 0), Close(c) >> IN q \in Seq(Answers) /\ \A t : ~RejectedIn(q, t)
  <2> DEFINE m == Close(c)
             o == Message("open", <<>>, 0)
  <2>1. m \in Answers /\ m.kind = "close" /\ o \in Answers /\ o.kind = "open"
    BY <1>1, <1>2
  <2> HIDE DEF m, o
  <2>2. << o, m >> \in Seq(Answers) /\ \A t : ~RejectedIn(<< o, m >>, t)
    BY <2>1 DEF RejectedIn
  <2>q. QED  BY <2>2 DEF m, o
<1>q. QED  BY <1>3, <1>4, <1>5

\* What a server step sends.
LEMMA ToldFacts ==
    ASSUME NEW d \in [Sockets -> Seq(Answers)], NEW X, NEW m \in Answers, NEW r, r = Told(d, X, m)
    PROVE  /\ r \in [Sockets -> Seq(Answers)]
           /\ \A s \in Sockets, t \in Topics : RejectedIn(r[s], t) <=> \/ RejectedIn(d[s], t)
                                                                    \/ /\ m.kind = "subscribe_rejected" /\ m.topic = t
                                                                       /\ s \in X /\ Linked(s)
           /\ \A s \in Sockets : ClosesFirst(d[s]) => ClosesFirst(r[s])
           /\ \A s \in Sockets : OnlyCloses(d[s]) /\ (m.kind = "close" \/ s \notin X) => OnlyCloses(r[s])
           /\ \A s \in Sockets : ~Linked(s) \/ s \notin X => r[s] = d[s]
<1>1. \A s \in Sockets : r[s] = IF s \in X /\ Linked(s) THEN Append(d[s], m) ELSE d[s]
  BY DEF Told, Linked
<1>2. r = [s \in Sockets |-> r[s]]
  BY DEF Told, Linked
<1>3. ASSUME NEW s \in Sockets
      PROVE  /\ r[s] \in Seq(Answers)
             /\ \A t : RejectedIn(r[s], t) <=> \/ RejectedIn(d[s], t)
                                               \/ /\ m.kind = "subscribe_rejected" /\ m.topic = t
                                                  /\ s \in X /\ Linked(s)
             /\ ClosesFirst(d[s]) => ClosesFirst(r[s])
             /\ OnlyCloses(d[s]) /\ (m.kind = "close" \/ s \notin X) => OnlyCloses(r[s])
             /\ ~Linked(s) \/ s \notin X => r[s] = d[s]
  <2>1. d[s] \in Seq(Answers)
    OBVIOUS
  <2>2. CASE s \in X /\ Linked(s)
    <3>1. r[s] = Append(d[s], m)
      BY <1>1, <2>2
    <3>q. QED  BY <2>1, <2>2, <3>1, DownAppend
  <2>3. CASE ~(s \in X /\ Linked(s))
    <3>1. r[s] = d[s]
      BY <1>1, <2>3
    <3>q. QED  BY <2>1, <2>3, <3>1
  <2>q. QED  BY <2>2, <2>3
<1>q. QED  BY <1>2, <1>3

\* onopen() asks for every topic of the page.
LEMMA Asked ==
    ASSUME topics \in SUBSET Topics
    PROVE  LET wanted == SetToSeq(topics)
               q == [i \in DOMAIN wanted |-> Message("subscribe", wanted[i], 0)]
           IN  /\ q \in Seq(Requests)
               /\ \A t \in Topics : /\ Final(q, t, "unsubscribe") => FALSE
                                    /\ Final(q, t, "subscribe") => t \in topics
                                    /\ Silent(q, t) => t \notin topics
<1> DEFINE w == SetToSeq(topics)
           q == [i \in DOMAIN w |-> Message("subscribe", w[i], 0)]
           n == Cardinality(topics)
<1>1. IsFiniteSet(topics) /\ n \in Nat
  BY BrowserSocketAssumption, FS_Subset, FS_CardinalityType
<1>2. \E f \in [1..n -> topics] : IsInjective(f)
  <2>1. PICK k \in Nat : ExistsBijection(1..k, topics)
    BY <1>1, FS_NatBijection
  <2>2. n = k
    BY <2>1, FS_CountingElements
  <2>q. QED  BY <2>1, <2>2 DEF ExistsBijection, Bijection, Injection, IsInjective
<1>3. w \in [1..n -> topics] /\ IsInjective(w)
  BY <1>2 DEF SetToSeq
<1>4. \A t \in topics : \E i \in 1..n : w[i] = t
  <2>1. IsFiniteSet(1..n) /\ Cardinality(1..n) = n
    BY <1>1, FS_Interval
  <2>2. w \in Injection(1..n, topics)
    BY <1>3 DEF Injection, IsInjective
  <2>3. w \in Surjection(1..n, topics)
    BY <1>1, <2>1, <2>2, FS_Injection
  <2>q. QED  BY <2>3 DEF Surjection
<1> HIDE DEF w, n
<1>5. DOMAIN w = 1..n /\ DOMAIN q = 1..n
  BY <1>3
<1>6. \A i \in 1..n : q[i] \in Requests /\ q[i].kind = "subscribe" /\ q[i].topic = w[i] /\ w[i] \in topics
  BY <1>3, <1>5 DEF Requests, Message
<1>7. q \in Seq(Requests)
  <2>1. q \in [1..n -> Requests]
    BY <1>5, <1>6
  <2>q. QED  BY <1>1, <2>1, SeqDef
<1> HIDE DEF q
<1>8. ASSUME NEW t \in Topics
      PROVE  ~Final(q, t, "unsubscribe") /\ (Final(q, t, "subscribe") => t \in topics) /\ (Silent(q, t) => t \notin topics)
  BY <1>4, <1>5, <1>6 DEF Final, Silent
<1>q. QED  BY <1>7, <1>8 DEF q, w

-----------------------------------------------------------------------------
\* connect() leaves everything as it is, or makes the next socket when the page has none that
\* opens or is open.
LEMMA Connects ==
    ASSUME SocketTypeOK, Links, NEW W, NEW P, NEW H, connect(W, P, H)
    PROVE  \/ UNCHANGED << ws, readyState, made, link >>
           \/ \E n \in Sockets :
                /\ n = made + 1 /\ made' = n /\ ws' = n
                /\ readyState' = [readyState EXCEPT ![n] = "connecting"] /\ link' = [link EXCEPT ![n] = "up"]
                /\ ws \in Sockets => readyState[ws] \notin {"connecting", "open"}
<1>1. CASE UNCHANGED << ws, readyState, made, link >>
  BY <1>1
<1>2. CASE /\ made < MaxSockets /\ made' = made + 1 /\ ws' = made'
           /\ readyState' = [readyState EXCEPT ![made'] = "connecting"] /\ link' = [link EXCEPT ![made'] = "up"]
           /\ ~(ws # 0 /\ readyState[ws] \in {"connecting", "open"})
  <2>1. made + 1 \in Sockets /\ 0 \notin Sockets
    BY <1>2, BrowserSocketAssumption DEF SocketTypeOK, Sockets
  <2>q. QED  BY <1>2, <2>1
<1>q. QED  BY <1>1, <1>2 DEF connect

\* send() reaches the link of an open socket only.
LEMMA Sends ==
    ASSUME SocketTypeOK, NEW k \in {"subscribe", "unsubscribe"}, NEW t \in Topics, Sending(k, t)
    PROVE  /\ Message(k, t, 0) \in Requests
           /\ Message(k, t, 0).kind = k /\ Message(k, t, 0).topic = t
           /\ up' \in [Sockets -> Seq(Requests)]
           /\ \A s \in Sockets : up'[s] = IF Live(s) THEN Append(up[s], Message(k, t, 0)) ELSE up[s]
           /\ (\A s \in Sockets : ~Live(s)) => up' = up
<1> DEFINE m == Message(k, t, 0)
<1>1. m \in Requests /\ m.kind = k /\ m.topic = t
  BY DEF Message, Requests
<1> HIDE DEF m
<1>2. up \in [Sockets -> Seq(Requests)] /\ ws \in 0..MaxSockets /\ MaxSockets \in Nat
  BY BrowserSocketAssumption DEF SocketTypeOK
<1>3. up' = IF ws # 0 /\ readyState[ws] = "open" /\ link[ws] = "up" THEN [up EXCEPT ![ws] = Append(@, m)] ELSE up
  BY DEF Sending, m
<1>4. CASE ws # 0 /\ readyState[ws] = "open" /\ link[ws] = "up"
  <2>1. ws \in Sockets
    BY <1>2, <1>4 DEF Sockets
  <2>2. Append(up[ws], m) \in Seq(Requests)
    BY <1>1, <1>2, <2>1, AppendProperties
  <2>3. \A s \in Sockets : up'[s] = IF s = ws THEN Append(up[s], m) ELSE up[s]
    BY <1>2, <1>3, <1>4
  <2>4. up' \in [Sockets -> Seq(Requests)]
    BY <1>2, <1>3, <1>4, <2>2
  <2>5. Live(ws)
    BY <1>4 DEF Live, Linked
  <2>6. \A s \in Sockets : up'[s] = IF Live(s) THEN Append(up[s], m) ELSE up[s]
    BY <2>3, <2>5 DEF Live
  <2>q. QED  BY <1>1, <2>1, <2>4, <2>5, <2>6 DEF m
<1>5. CASE ~(ws # 0 /\ readyState[ws] = "open" /\ link[ws] = "up")
  <2>1. \A s \in Sockets : ~Live(s)
    BY <1>5 DEF Live, Linked, Sockets
  <2>q. QED  BY <1>1, <1>2, <1>3, <1>5, <2>1 DEF m
<1>q. QED  BY <1>4, <1>5

\* disconnect() after d was sent.
LEMMA Disconnects ==
    ASSUME SocketTypeOK, NEW X \in SUBSET Sockets, NEW c \in Int, NEW d \in [Sockets -> Seq(Answers)], disconnect(X, c, d)
    PROVE  /\ active' = active \ X /\ subscriptions' \subseteq subscriptions
           /\ \A s \in Sockets, t \in Topics : << s, t >> \in subscriptions' <=> << s, t >> \in subscriptions /\ s \notin X
           /\ \A x \in subscriptions' : x \in subscriptions /\ x[1] \notin X
           /\ down' \in [Sockets -> Seq(Answers)]
           /\ \A s \in Sockets, t \in Topics : RejectedIn(down'[s], t) <=> RejectedIn(d[s], t)
           /\ \A s \in Sockets : ClosesFirst(d[s]) => ClosesFirst(down'[s])
<1>1. Close(c) \in Answers /\ Close(c).kind = "close"
  BY DEF Close, Message, Answers
<1>2. down' = Told(d, X \cap active, Close(c))
  BY DEF disconnect
<1>3. /\ down' \in [Sockets -> Seq(Answers)]
      /\ \A s \in Sockets, t \in Topics : RejectedIn(down'[s], t) <=> RejectedIn(d[s], t)
      /\ \A s \in Sockets : ClosesFirst(d[s]) => ClosesFirst(down'[s])
  <2> DEFINE m == Close(c)
             Z == X \cap active
  <2>1. m \in Answers /\ m.kind = "close" /\ down' = Told(d, Z, m)
    BY <1>1, <1>2
  <2> HIDE DEF m, Z
  <2>2. /\ down' \in [Sockets -> Seq(Answers)]
        /\ \A s \in Sockets, t \in Topics : RejectedIn(down'[s], t) <=> RejectedIn(d[s], t)
    BY <2>1, ToldFacts
  <2>3. \A s \in Sockets : ClosesFirst(d[s]) => ClosesFirst(down'[s])
    BY <2>1, ToldFacts
  <2>q. QED  BY <2>2, <2>3
<1>q. QED  BY <1>3 DEF disconnect

\* It sends nothing to a socket that is not in the table or whose link is lost.
LEMMA DisconnectsQuietly ==
    ASSUME NEW X \in SUBSET Sockets, NEW c \in Int, NEW d \in [Sockets -> Seq(Answers)], disconnect(X, c, d)
    PROVE  \A s \in Sockets : ~Linked(s) \/ s \notin active => down'[s] = d[s]
BY DEF disconnect, Told, Linked

\* A topic's frame, and the sockets that did not take it.
LEMMA Broadcasts ==
    ASSUME SocketTypeOK, NEW t \in Topics, NEW n \in Int, Broadcast(t, Message("update", t, n))
    PROVE  \E X \in SUBSET active :
           /\ active' = active \ X /\ subscriptions' \subseteq subscriptions
           /\ \A s \in Sockets, u \in Topics : << s, u >> \in subscriptions' <=> << s, u >> \in subscriptions /\ s \notin X
           /\ \A x \in subscriptions' : x \in subscriptions /\ x[1] \notin X
           /\ down' \in [Sockets -> Seq(Answers)]
           /\ \A s \in Sockets, u \in Topics : RejectedIn(down'[s], u) <=> RejectedIn(down[s], u)
           /\ \A s \in Sockets : ClosesFirst(down[s]) => ClosesFirst(down'[s])
           /\ \A s \in Sockets : ~Linked(s) \/ s \notin active => down'[s] = down[s]
<1> DEFINE m == Message("update", t, n)
<1>1. m \in Answers /\ m.kind = "update"
  BY DEF Message, Answers
<1> HIDE DEF m
<1>2. PICK X \in SUBSET (Subscribers(t) \cap active) :
        disconnect(X, Normal, Told(down, (Subscribers(t) \cap active) \ X, m))
  BY DEF Broadcast, m
<1> DEFINE Y == (Subscribers(t) \cap active) \ X
<1>d. PICK d : d = Told(down, Y, m)
  OBVIOUS
<1>3. X \in SUBSET active /\ X \in SUBSET Sockets /\ Normal \in Int /\ Y \subseteq active
  BY DEF SocketTypeOK, Normal
<1> HIDE DEF Y
<1>4. /\ d \in [Sockets -> Seq(Answers)]
      /\ \A s \in Sockets, u \in Topics : RejectedIn(d[s], u) <=> RejectedIn(down[s], u)
      /\ \A s \in Sockets : ClosesFirst(down[s]) => ClosesFirst(d[s])
      /\ \A s \in Sockets : ~Linked(s) \/ s \notin Y => d[s] = down[s]
  <2>1. down \in [Sockets -> Seq(Answers)]
    BY DEF SocketTypeOK
  <2>q. QED  BY <1>1, <1>d, <2>1, ToldFacts
<1>5. disconnect(X, Normal, d)
  BY <1>2, <1>d DEF Y
<1>6. /\ active' = active \ X /\ subscriptions' \subseteq subscriptions
      /\ \A s \in Sockets, u \in Topics : << s, u >> \in subscriptions' <=> << s, u >> \in subscriptions /\ s \notin X
      /\ \A x \in subscriptions' : x \in subscriptions /\ x[1] \notin X
      /\ down' \in [Sockets -> Seq(Answers)]
      /\ \A s \in Sockets, u \in Topics : RejectedIn(down'[s], u) <=> RejectedIn(d[s], u)
      /\ \A s \in Sockets : ClosesFirst(d[s]) => ClosesFirst(down'[s])
      /\ \A s \in Sockets : ~Linked(s) \/ s \notin active => down'[s] = d[s]
  <2>1. d \in [Sockets -> Seq(Answers)]
    BY <1>4
  <2>2. X \in SUBSET Sockets
    BY <1>3
  <2>3. PICK c \in Int : disconnect(X, c, d)
    BY <1>3, <1>5
  <2>4. active' = active \ X /\ subscriptions' \subseteq subscriptions /\ down' \in [Sockets -> Seq(Answers)]
    BY <2>1, <2>2, <2>3, Disconnects
  <2>5. \A s \in Sockets, u \in Topics : << s, u >> \in subscriptions' <=> << s, u >> \in subscriptions /\ s \notin X
    BY <2>1, <2>2, <2>3, Disconnects
  <2>6. \A x \in subscriptions' : x \in subscriptions /\ x[1] \notin X
    BY <2>1, <2>2, <2>3, Disconnects
  <2>7. \A s \in Sockets, u \in Topics : RejectedIn(down'[s], u) <=> RejectedIn(d[s], u)
    BY <2>1, <2>2, <2>3, Disconnects
  <2>8. \A s \in Sockets : ClosesFirst(d[s]) => ClosesFirst(down'[s])
    BY <2>1, <2>2, <2>3, Disconnects
  <2>9. \A s \in Sockets : ~Linked(s) \/ s \notin active => down'[s] = d[s]
    BY <2>1, <2>2, <2>3, DisconnectsQuietly
  <2>q. QED  BY <2>4, <2>5, <2>6, <2>7, <2>8, <2>9
<1>q. QED  BY <1>3, <1>4, <1>6

-----------------------------------------------------------------------------
\* Every step keeps the types.
LEMMA SocketTypesKeep ==
    ASSUME SocketTypeOK, Links, [SocketNext]_socketVars
    PROVE  SocketTypeOK'
<1> DEFINE Ready5 == {"none", "connecting", "open", "closing", "closed"}
<1>0. /\ topics \subseteq Topics /\ allowed \subseteq Topics
      /\ ws \in 0..MaxSockets /\ made \in 0..MaxSockets /\ MaxSockets \in Nat
      /\ readyState \in [Sockets -> Ready5] /\ link \in [Sockets -> {"none", "up", "lost"}]
      /\ up \in [Sockets -> Seq(Requests)] /\ down \in [Sockets -> Seq(Answers)]
      /\ endpoint \in [Sockets -> Places] /\ active \subseteq Sockets /\ subscriptions \subseteq Sockets \X Topics
      /\ payload \in [Topics -> Int] /\ built \in [Topics -> Int] /\ 0 \in 0..MaxSockets
  BY BrowserSocketAssumption DEF SocketTypeOK
<1>d. down \in [Sockets -> Seq(Answers)]
  BY <1>0
<1>a. \A t \in Topics : /\ At("lookup", t) \in Places /\ At("found", t) \in Places /\ At("refused", t) \in Places
  BY DEF At, Places
<1>b. Idle \in Places /\ At("accepting", <<>>) \in Places /\ At("gone", <<>>) \in Places
  BY DEF At, Idle, Places
<1>e. <<>> \in Seq(Requests) /\ <<>> \in Seq(Answers)
  BY ShortQueues
<1>c. ASSUME NEW W, NEW P, NEW H, connect(W, P, H)
      PROVE  /\ ws' \in 0..MaxSockets /\ made' \in 0..MaxSockets
             /\ readyState' \in [Sockets -> Ready5] /\ link' \in [Sockets -> {"none", "up", "lost"}]
  <2>1. CASE UNCHANGED << ws, readyState, made, link >>
    BY <1>0, <2>1
  <2>2. CASE \E n \in Sockets :
                /\ made' = n /\ ws' = n
                /\ readyState' = [readyState EXCEPT ![n] = "connecting"] /\ link' = [link EXCEPT ![n] = "up"]
    BY <1>0, <2>2 DEF Sockets
  <2>q. QED  BY <1>c, <2>1, <2>2, Connects
\* the page
<1>1. ASSUME NEW t \in Topics, subscribe(t)  PROVE SocketTypeOK'
  <2>1. up' \in [Sockets -> Seq(Requests)]
    BY <1>1, Sends DEF subscribe
  <2>2. /\ ws' \in 0..MaxSockets /\ made' \in 0..MaxSockets
        /\ readyState' \in [Sockets -> Ready5] /\ link' \in [Sockets -> {"none", "up", "lost"}]
    BY <1>1, <1>c DEF subscribe
  <2>3. topics' \subseteq Topics /\ UNCHANGED << down, endpoint, active, subscriptions, payload, built, allowed >>
    BY <1>0, <1>1 DEF subscribe, serverVars
  <2>q. QED  BY <1>0, <2>1, <2>2, <2>3 DEF SocketTypeOK
<1>2. ASSUME NEW t \in Topics, unsubscribe(t)  PROVE SocketTypeOK'
  <2>1. up' \in [Sockets -> Seq(Requests)]
    BY <1>2, Sends DEF unsubscribe
  <2>2. /\ topics' \subseteq Topics
        /\ UNCHANGED << ws, readyState, made, link, down, endpoint, active, subscriptions, payload, built, allowed >>
    BY <1>0, <1>2 DEF unsubscribe, serverVars
  <2>q. QED  BY <1>0, <2>1, <2>2 DEF SocketTypeOK
<1>3. CASE TimerFires \/ visibilitychange \/ pageshow
  <2>1. UNCHANGED << topics, up, down, endpoint, active, subscriptions, payload, built, allowed >>
    BY <1>3 DEF TimerFires, visibilitychange, pageshow, serverVars
  <2>2. /\ ws' \in 0..MaxSockets /\ made' \in 0..MaxSockets
        /\ readyState' \in [Sockets -> Ready5] /\ link' \in [Sockets -> {"none", "up", "lost"}]
    BY <1>3, <1>c DEF TimerFires, visibilitychange, pageshow
  <2>q. QED  BY <1>0, <2>1, <2>2 DEF SocketTypeOK
<1>4. ASSUME NEW s \in Sockets, onopen(s)  PROVE SocketTypeOK'
  <2>1. down' \in [Sockets -> Seq(Answers)]
    BY <1>0, <1>4, DownTail DEF onopen, Read
  <2>2. up' \in [Sockets -> Seq(Requests)]
    <3>1. topics \in SUBSET Topics
      BY <1>0
    <3>q. QED  BY <1>0, <1>4, <3>1, Asked DEF onopen
  <2>3. readyState' \in [Sockets -> Ready5]
    BY <1>0, <1>4 DEF onopen
  <2>4. UNCHANGED << topics, ws, made, link, endpoint, active, subscriptions, payload, built, allowed >>
    BY <1>4 DEF onopen, serverVars
  <2>q. QED  BY <1>0, <2>1, <2>2, <2>3, <2>4 DEF SocketTypeOK
<1>5. ASSUME NEW s \in Sockets, onmessage(s)  PROVE SocketTypeOK'
  <2>1. down' \in [Sockets -> Seq(Answers)]
    BY <1>0, <1>5, DownTail DEF onmessage, Read
  <2>2. topics' \subseteq Topics
    BY <1>0, <1>5 DEF onmessage
  <2>3. UNCHANGED << ws, readyState, made, up, link, endpoint, active, subscriptions, payload, built, allowed >>
    BY <1>5 DEF onmessage, serverVars
  <2>q. QED  BY <1>0, <2>1, <2>2, <2>3 DEF SocketTypeOK
<1>6. ASSUME NEW s \in Sockets, CloseBegins(s)  PROVE SocketTypeOK'
  <2>1. readyState' \in [Sockets -> Ready5]
    BY <1>0, <1>6 DEF CloseBegins
  <2>2. UNCHANGED << topics, ws, made, up, down, link, endpoint, active, subscriptions, payload, built, allowed >>
    BY <1>6 DEF CloseBegins, serverVars, linkVars
  <2>q. QED  BY <1>0, <2>1, <2>2 DEF SocketTypeOK
<1>7. ASSUME NEW s \in Sockets, onclose(s)  PROVE SocketTypeOK'
  <2>1. /\ readyState' \in [Sockets -> Ready5] /\ link' \in [Sockets -> {"none", "up", "lost"}]
        /\ up' \in [Sockets -> Seq(Requests)] /\ down' \in [Sockets -> Seq(Answers)]
    BY <1>0, <1>e, <1>7 DEF onclose
  <2>2. ws' \in 0..MaxSockets /\ UNCHANGED << topics, made, endpoint, active, subscriptions, payload, built, allowed >>
    BY <1>0, <1>7 DEF onclose, serverVars
  <2>q. QED  BY <1>0, <2>1, <2>2 DEF SocketTypeOK
<1>8. CASE pagehide
  <2>1. /\ readyState' \in [Sockets -> Ready5] /\ link' \in [Sockets -> {"none", "up", "lost"}]
        /\ up' \in [Sockets -> Seq(Requests)] /\ down' \in [Sockets -> Seq(Answers)]
    BY <1>0, <1>e, <1>8 DEF pagehide, linkVars
  <2>2. ws' \in 0..MaxSockets /\ UNCHANGED << topics, made, endpoint, active, subscriptions, payload, built, allowed >>
    BY <1>0, <1>8 DEF pagehide, serverVars
  <2>q. QED  BY <1>0, <2>1, <2>2 DEF SocketTypeOK
<1>9. ASSUME NEW s \in Sockets, LoseLink(s)  PROVE SocketTypeOK'
  <2>1. << Close(Abnormal) >> \in Seq(Answers)
    <3>1. Abnormal \in Int
      BY DEF Abnormal
    <3>q. QED  BY <3>1, ShortQueues, Zenon
  <2>2. /\ link' \in [Sockets -> {"none", "up", "lost"}]
        /\ up' \in [Sockets -> Seq(Requests)] /\ down' \in [Sockets -> Seq(Answers)]
    BY <1>0, <1>e, <1>9, <2>1 DEF LoseLink
  <2>3. UNCHANGED << topics, ws, readyState, made, endpoint, active, subscriptions, payload, built, allowed >>
    BY <1>9 DEF LoseLink, pageVars, serverVars
  <2>q. QED  BY <1>0, <2>2, <2>3 DEF SocketTypeOK
\* the server
<1>10. ASSUME NEW s \in Sockets, _authenticate_websocket(s)  PROVE SocketTypeOK'
  <2>1. << Message("open", <<>>, 0), Close(Policy) >> \in Seq(Answers)
    <3>1. Policy \in Int
      BY DEF Policy
    <3>q. QED  BY <3>1, ShortQueues, Zenon
  <2>2. down' \in [Sockets -> Seq(Answers)]
    BY <1>0, <1>10, <2>1 DEF _authenticate_websocket
  <2>3. endpoint' \in [Sockets -> Places]
    BY <1>0, <1>b, <1>10 DEF _authenticate_websocket, Goes
  <2>4. UNCHANGED << topics, ws, readyState, made, up, link, active, subscriptions, payload, built, allowed >>
    BY <1>10 DEF _authenticate_websocket, pageVars
  <2>q. QED  BY <1>0, <2>2, <2>3, <2>4 DEF SocketTypeOK
<1>11. ASSUME NEW s \in Sockets, Accept(s)  PROVE SocketTypeOK'
  <2>1. Message("open", <<>>, 0) \in Answers
    BY DEF Message, Answers
  <2>2. Told(down, {s}, Message("open", <<>>, 0)) \in [Sockets -> Seq(Answers)]
    BY <1>d, <2>1, ToldFacts
  <2>3. down' \in [Sockets -> Seq(Answers)] /\ active' \subseteq Sockets
    BY <1>0, <1>11, <2>2 DEF Accept
  <2>4. endpoint' \in [Sockets -> Places]
    BY <1>0, <1>b, <1>11 DEF Accept, Goes
  <2>5. UNCHANGED << topics, ws, readyState, made, up, link, subscriptions, payload, built, allowed >>
    BY <1>11 DEF Accept, pageVars
  <2>q. QED  BY <1>0, <2>3, <2>4, <2>5 DEF SocketTypeOK
<1>12. ASSUME NEW s \in Sockets, Receive(s)  PROVE SocketTypeOK'
  <2>1. Tail(up[s]) \in Seq(Requests) /\ Head(up[s]) \in Requests
    BY <1>0, <1>12, HeadTailProperties DEF Receive
  <2>2. Head(up[s]).topic \in Topics
    BY <2>1 DEF Requests
  <2>3. up' \in [Sockets -> Seq(Requests)]
    BY <1>0, <1>12, <2>1 DEF Receive
  <2>4. endpoint' \in [Sockets -> Places] /\ subscriptions' \subseteq subscriptions
    BY <1>0, <1>a, <1>12, <2>2 DEF Receive, Goes
  <2>5. UNCHANGED << topics, ws, readyState, made, down, link, active, payload, built, allowed >>
    BY <1>12 DEF Receive, pageVars
  <2>q. QED  BY <1>0, <2>3, <2>4, <2>5 DEF SocketTypeOK
<1>13. ASSUME NEW s \in Sockets, _resolve_vehicle_topic(s)  PROVE SocketTypeOK'
  <2>1. endpoint[s].at = "lookup" /\ endpoint[s] \in Places
    BY <1>0, <1>13 DEF _resolve_vehicle_topic
  <2>2. endpoint' \in [Sockets -> Places]
    <3>1. endpoint[s].topic \in Topics
      BY <2>1 DEF Places
    <3>q. QED  BY <1>0, <1>a, <1>13, <3>1 DEF _resolve_vehicle_topic, Goes
  <2>3. UNCHANGED << topics, ws, readyState, made, up, down, link, active, subscriptions, payload, built, allowed >>
    BY <1>13 DEF _resolve_vehicle_topic, pageVars, linkVars
  <2>q. QED  BY <1>0, <2>2, <2>3 DEF SocketTypeOK
<1>14. ASSUME NEW s \in Sockets, Resolved(s)  PROVE SocketTypeOK'
  <2>1. endpoint[s].topic \in Topics
    BY <1>0, <1>14 DEF Resolved, Places
  <2>2. subscriptions' \subseteq Sockets \X Topics
    BY <1>0, <1>14, <2>1 DEF Resolved
  <2>3. down' \in [Sockets -> Seq(Answers)]
    <3>1. Message("subscribe_rejected", endpoint[s].topic, 0) \in Answers
      BY <2>1 DEF Message, Answers
    <3>2. CASE down' = Told(down, {s} \cap active, Message("subscribe_rejected", endpoint[s].topic, 0))
      BY <1>d, <3>1, <3>2, ToldFacts
    <3>3. CASE down' = down
      BY <1>0, <3>3
    <3>q. QED  BY <1>14, <3>2, <3>3 DEF Resolved
  <2>4. endpoint' \in [Sockets -> Places]
    BY <1>0, <1>b, <1>14 DEF Resolved, Goes
  <2>5. UNCHANGED << topics, ws, readyState, made, up, link, active, payload, built, allowed >>
    BY <1>14 DEF Resolved, pageVars
  <2>q. QED  BY <1>0, <2>2, <2>3, <2>4, <2>5 DEF SocketTypeOK
<1>15. ASSUME NEW s \in Sockets, EndpointEnds(s)  PROVE SocketTypeOK'
  <2>1. PICK c \in {Normal, Policy} : disconnect({s}, c, down)
    BY <1>15 DEF EndpointEnds
  <2>2. c \in Int /\ {s} \in SUBSET Sockets
    BY DEF Normal, Policy
  <2>3. active' \subseteq active /\ subscriptions' \subseteq subscriptions /\ down' \in [Sockets -> Seq(Answers)]
    BY <1>d, <2>1, <2>2, Disconnects
  <2>4. endpoint' \in [Sockets -> Places]
    BY <1>0, <1>b, <1>15 DEF EndpointEnds, Goes
  <2>5. UNCHANGED << topics, ws, readyState, made, up, link, payload, built, allowed >>
    BY <1>15 DEF EndpointEnds, pageVars
  <2>q. QED  BY <1>0, <2>3, <2>4, <2>5 DEF SocketTypeOK
<1>16. CASE TickBegins
  <2>1. built' \in [Topics -> Int]
    BY <1>0, <1>16 DEF TickBegins
  <2>2. UNCHANGED << topics, ws, readyState, made, up, down, link, endpoint, active, subscriptions, payload, allowed >>
    BY <1>16 DEF TickBegins, pageVars, linkVars
  <2>q. QED  BY <1>0, <2>1, <2>2 DEF SocketTypeOK
<1>17. ASSUME NEW t \in Topics, TickSends(t)  PROVE SocketTypeOK'
  <2>1. built' \in [Topics -> Int] /\ built[t] \in Int
    BY <1>0, <1>17 DEF TickSends
  <2>2. active' \subseteq Sockets /\ subscriptions' \subseteq Sockets \X Topics /\ down' \in [Sockets -> Seq(Answers)]
    <3>1. CASE UNCHANGED << active, subscriptions, down >>
      BY <1>0, <3>1
    <3>2. CASE Broadcast(t, Message("update", t, built[t]))
      BY <1>0, <2>1, <3>2, Broadcasts
    <3>q. QED  BY <1>17, <3>1, <3>2 DEF TickSends
  <2>3. UNCHANGED << topics, ws, readyState, made, up, link, endpoint, payload, allowed >>
    BY <1>17 DEF TickSends, pageVars
  <2>q. QED  BY <1>0, <2>1, <2>2, <2>3 DEF SocketTypeOK
<1>18. ASSUME NEW t \in Topics, PayloadChanges(t)  PROVE SocketTypeOK'
  <2>1. payload' \in [Topics -> Int]
    BY <1>0, <1>18 DEF PayloadChanges
  <2>2. UNCHANGED << topics, ws, readyState, made, up, down, link, endpoint, active, subscriptions, built, allowed >>
    BY <1>18 DEF PayloadChanges, pageVars, linkVars
  <2>q. QED  BY <1>0, <2>1, <2>2 DEF SocketTypeOK
<1>19. ASSUME NEW t \in Topics, drop_topic(t)  PROVE SocketTypeOK'
  <2>1. Message("subscribe_rejected", t, 0) \in Answers
    BY DEF Message, Answers
  <2>2. down' = Told(down, Subscribers(t) \cap active, Message("subscribe_rejected", t, 0))
    BY <1>19 DEF drop_topic
  <2>3. down' \in [Sockets -> Seq(Answers)]
    BY <1>d, <2>1, <2>2, ToldFacts
  <2>4. /\ allowed' \subseteq Topics /\ subscriptions' \subseteq subscriptions
        /\ UNCHANGED << topics, ws, readyState, made, up, link, endpoint, active, payload, built >>
    BY <1>0, <1>19 DEF drop_topic, pageVars
  <2>q. QED  BY <1>0, <2>3, <2>4 DEF SocketTypeOK
<1>20. CASE disconnect_user
  <2>1. disconnect(active, Policy, down) /\ Policy \in Int
    BY <1>20 DEF disconnect_user, Policy
  <2>2. active' \subseteq active /\ subscriptions' \subseteq subscriptions /\ down' \in [Sockets -> Seq(Answers)]
    BY <1>0, <2>1, Disconnects
  <2>3. UNCHANGED << topics, ws, readyState, made, up, link, endpoint, payload, built, allowed >>
    BY <1>20 DEF disconnect_user, pageVars
  <2>q. QED  BY <1>0, <2>2, <2>3 DEF SocketTypeOK
<1>21. CASE SessionExpires \/ UNCHANGED socketVars
  BY <1>0, <1>21 DEF SocketTypeOK, SessionExpires, socketVars, pageVars, linkVars, serverVars
<1>q. QED
  BY <1>1, <1>2, <1>3, <1>4, <1>5, <1>6, <1>7, <1>8, <1>9, <1>10, <1>11, <1>12, <1>13, <1>14, <1>15, <1>16, <1>17,
     <1>18, <1>19, <1>20, <1>21
  DEF SocketNext, PageSteps, EndpointSteps

-----------------------------------------------------------------------------
\* A socket was made or is still to be made, and 0 is none.
LEMMA Numbers ==
    ASSUME SocketTypeOK
    PROVE  0 \notin Sockets /\ Sockets \subseteq Nat /\ \A s \in Sockets : s > made \/ s <= made
BY BrowserSocketAssumption DEF SocketTypeOK, Sockets

\* The steps that take sockets out of the table, or only send: the endpoint that ends, the
\* broadcaster, a logout.
LEMMA Dropping ==
    ASSUME SocketInv, NEW X \in SUBSET Sockets,
           UNCHANGED << topics, ws, made, readyState, up, link, allowed >>,
           active' = active \ X,
           \A s \in Sockets, t \in Topics : << s, t >> \in subscriptions' <=> << s, t >> \in subscriptions /\ s \notin X,
           \A x \in subscriptions' : x \in subscriptions /\ x[1] \notin X,
           \A s \in Sockets : \/ endpoint'[s] = endpoint[s]
                              \/ s \in X /\ endpoint[s].at = "idle" /\ endpoint'[s].at = "gone",
           \A s \in Sockets, t \in Topics : RejectedIn(down'[s], t) <=> RejectedIn(down[s], t),
           \A s \in Sockets : ClosesFirst(down[s]) => ClosesFirst(down'[s]),
           \A s \in Sockets : ~Linked(s) \/ s \notin active => down'[s] = down[s]
    PROVE  Links' /\ Endpoints' /\ Lookups' /\ Agreed'
<1>0. Links /\ Endpoints /\ Lookups /\ Agreed /\ active \subseteq Sockets /\ subscriptions \subseteq Sockets \X Topics
  BY DEF SocketInv, SocketTypeOK
<1>1. Links'
  <2>1. ws' <= made' /\ (ws' # 0 => readyState'[ws'] \in {"connecting", "open", "closing"})
    BY <1>0 DEF Links
  <2>2. ASSUME NEW s \in Sockets
        PROVE  /\ s > made => /\ readyState'[s] = "none" /\ link'[s] = "none"
                              /\ up'[s] = <<>> /\ down'[s] = <<>> /\ endpoint'[s].at = "none"
               /\ s <= made /\ s # ws => readyState'[s] \in {"closing", "closed"}
               /\ readyState'[s] = "closed" => link'[s] = "lost" /\ down'[s] = <<>>
               /\ readyState'[s] = "closing" => ClosesFirst(down'[s])
    BY <1>0 DEF Links, Linked
  <2>q. QED  BY <2>1, <2>2 DEF Links
<1>2. Endpoints'
  <2>1. \A s \in active' : Running(s)'
    BY <1>0 DEF Endpoints, Running
  <2>2. \A x \in subscriptions' : Running(x[1])'
    BY <1>0 DEF Endpoints, SubscriptionHasEndpoint, Running
  <2>3. ASSUME NEW s \in Sockets, endpoint'[s].at \in {"none", "accepting"}
        PROVE  readyState'[s] # "open" /\ OnlyCloses(down'[s]) /\ (Linked(s)' => down'[s] = <<>>)
    <3>1. endpoint'[s] = endpoint[s] /\ s \notin active
      BY <1>0, <2>3 DEF Endpoints, Running
    <3>2. readyState[s] # "open" /\ OnlyCloses(down[s]) /\ (Linked(s) => down[s] = <<>>)
      BY <1>0, <2>3, <3>1 DEF Endpoints
    <3>q. QED  BY <3>1, <3>2 DEF Linked
  <2>4. ASSUME NEW s \in Sockets, NEW t \in Topics, readyState'[s] \in {"none", "connecting"}
        PROVE  up'[s] = <<>> /\ ~Asking(s, t)' /\ << s, t >> \notin subscriptions'
    BY <1>0, <2>4 DEF Endpoints, Asking
  <2>5. ASSUME NEW s \in Sockets, readyState'[s] \in {"none", "connecting"}  PROVE up'[s] = <<>>
    BY <1>0, <2>5 DEF Endpoints
  <2>q. QED  BY <2>1, <2>2, <2>3, <2>4, <2>5 DEF Endpoints, SubscriptionHasEndpoint
<1>3. Lookups'
  <2>1. ASSUME NEW s \in Sockets, NEW t \in Topics
        PROVE  /\ Asking(s, t)' => << s, t >> \notin subscriptions'
               /\ endpoint'[s].at = "refused" /\ endpoint'[s].topic = t => t \notin allowed'
               /\ RejectedIn(down'[s], t) => Dead(s, t)'
    <3>1. /\ Asking(s, t) => << s, t >> \notin subscriptions
          /\ endpoint[s].at = "refused" /\ endpoint[s].topic = t => t \notin allowed
          /\ RejectedIn(down[s], t) => Dead(s, t)
      BY <1>0 DEF Lookups
    <3>2. CASE endpoint'[s] = endpoint[s]
      BY <3>1, <3>2 DEF Asking, Dead
    <3>3. CASE endpoint'[s].at = "gone"
      BY <3>1, <3>3 DEF Asking, Dead
    <3>q. QED  BY <3>2, <3>3
  <2>q. QED  BY <2>1 DEF Lookups
<1>4. Agreed'
  <2>1. ASSUME NEW s \in active', NEW t \in Topics, Live(s)'  PROVE AgreedAt(s, t)'
    <3>1. s \in active /\ s \in Sockets /\ s \notin X /\ Live(s) /\ endpoint'[s] = endpoint[s]
      BY <1>0, <2>1 DEF Live, Linked
    <3>2. AgreedAt(s, t) /\ (<< s, t >> \in subscriptions' <=> << s, t >> \in subscriptions)
          /\ (RejectedIn(down'[s], t) <=> RejectedIn(down[s], t))
      BY <1>0, <3>1 DEF Agreed
    <3>q. QED  BY <3>1, <3>2 DEF AgreedAt, Asking, Dead
  <2>q. QED  BY <2>1 DEF Agreed
<1>q. QED  BY <1>1, <1>2, <1>3, <1>4

\* The page makes its next socket, or none.
LEMMA Reconnecting ==
    ASSUME SocketInv, UNCHANGED << endpoint, active, subscriptions, allowed, down >>,
           NEW n \in Sockets, n = made + 1, made' = n, ws' = n,
           readyState' = [readyState EXCEPT ![n] = "connecting"], link' = [link EXCEPT ![n] = "up"],
           ws \in Sockets => readyState[ws] \notin {"connecting", "open"},
           up' = up
    PROVE  Links' /\ Endpoints' /\ Lookups' /\ Agreed'
<1>0. /\ Links /\ Endpoints /\ Lookups /\ active \subseteq Sockets
      /\ readyState \in [Sockets -> {"none", "connecting", "open", "closing", "closed"}]
      /\ link \in [Sockets -> {"none", "up", "lost"}] /\ made \in Nat /\ ws \in Nat /\ Sockets \subseteq Nat /\ 0 \notin Sockets
  BY BrowserSocketAssumption DEF SocketInv, SocketTypeOK, Sockets
<1>n. /\ readyState[n] = "none" /\ link[n] = "none" /\ up[n] = <<>> /\ down[n] = <<>> /\ endpoint[n].at = "none"
      /\ readyState'[n] = "connecting" /\ link'[n] = "up"
      /\ \A s \in Sockets : s # n => readyState'[s] = readyState[s] /\ link'[s] = link[s]
  BY <1>0 DEF Links
<1>w. ws # 0 => ws \in Sockets /\ readyState[ws] = "closing"
  <2>1. ws # 0 => ws \in Sockets
    BY DEF SocketInv, SocketTypeOK, Sockets
  <2>q. QED  BY <1>0, <2>1 DEF Links
<1>1. Links'
  <2>1. ASSUME NEW s \in Sockets
        PROVE  /\ s > made' => /\ readyState'[s] = "none" /\ link'[s] = "none"
                               /\ up'[s] = <<>> /\ down'[s] = <<>> /\ endpoint'[s].at = "none"
               /\ s <= made' /\ s # ws' => readyState'[s] \in {"closing", "closed"}
               /\ readyState'[s] = "closed" => link'[s] = "lost" /\ down'[s] = <<>>
               /\ readyState'[s] = "closing" => ClosesFirst(down'[s])
    <3>1. CASE s = n
      BY <1>0, <1>n, <3>1
    <3>2. CASE s # n
      <4>1. s \in Nat /\ (s > made' => s > made) /\ (s <= made' => s <= made)
        BY <1>0, <3>2
      <4>2. s <= made => readyState[s] \in {"closing", "closed"}
        BY <1>0, <1>w DEF Links
      <4>q. QED  BY <1>0, <1>n, <3>2, <4>1, <4>2 DEF Links
    <3>q. QED  BY <3>1, <3>2
  <2>q. QED  BY <1>0, <1>n, <2>1 DEF Links
<1>2. Endpoints'
  <2>1. (\A s \in active' : Running(s)') /\ \A x \in subscriptions' : Running(x[1])'
    BY <1>0 DEF Endpoints, SubscriptionHasEndpoint, Running
  <2>2. ASSUME NEW s \in Sockets
        PROVE  /\ endpoint'[s].at \in {"none", "accepting"} =>
                    readyState'[s] # "open" /\ OnlyCloses(down'[s]) /\ (Linked(s)' => down'[s] = <<>>)
               /\ readyState'[s] \in {"none", "connecting"} =>
                    up'[s] = <<>> /\ \A t \in Topics : ~Asking(s, t)' /\ << s, t >> \notin subscriptions'
    <3>1. readyState'[s] \in {"none", "connecting"} => readyState[s] \in {"none", "connecting"}
      BY <1>n
    <3>2. readyState'[s] = "open" => readyState[s] = "open"
      BY <1>n
    <3>3. Linked(s)' => Linked(s) \/ down[s] = <<>>
      BY <1>n DEF Linked
    <3>q. QED  BY <1>0, <3>1, <3>2, <3>3 DEF Endpoints, Asking
  <2>q. QED  BY <2>1, <2>2 DEF Endpoints, SubscriptionHasEndpoint
<1>3. Lookups'
  BY <1>0 DEF Lookups, Asking, Dead
<1>4. Agreed'
  BY <1>n DEF Agreed, Live
<1>q. QED  BY <1>1, <1>2, <1>3, <1>4

\* The time-out, the visible tab and the page that comes back.
LEMMA ReconnectKeeps ==
    ASSUME SocketInv, TimerFires \/ visibilitychange \/ pageshow
    PROVE  Links' /\ Endpoints' /\ Lookups' /\ Agreed'
<1>1. /\ UNCHANGED << topics, up, down, endpoint, active, subscriptions, allowed >>
      /\ \E P, H \in BOOLEAN \cup {timer, stopped} : connect(topics, P, H)
  BY DEF TimerFires, visibilitychange, pageshow, serverVars
<1>2. SocketTypeOK /\ Links
  BY DEF SocketInv
<1>3. CASE UNCHANGED << ws, readyState, made, link >>
  BY <1>1, <1>3 DEF SocketInv, Links, Endpoints, Lookups, Agreed, AgreedAt, Live, Linked, Running, Asking, Dead, SubscriptionHasEndpoint
<1>4. CASE \E n \in Sockets :
             /\ n = made + 1 /\ made' = n /\ ws' = n
             /\ readyState' = [readyState EXCEPT ![n] = "connecting"] /\ link' = [link EXCEPT ![n] = "up"]
             /\ ws \in Sockets => readyState[ws] \notin {"connecting", "open"}
  BY <1>1, <1>4, Reconnecting
<1>q. QED  BY <1>1, <1>2, <1>3, <1>4, Connects

\* subscribe() and unsubscribe() of a page that keeps its socket.
LEMMA Asks ==
    ASSUME SocketInv, NEW t \in Topics, NEW k \in {"subscribe", "unsubscribe"}, Sending(k, t),
           topics' = IF k = "subscribe" THEN topics \cup {t} ELSE topics \ {t},
           UNCHANGED << ws, readyState, made, link, down, endpoint, active, subscriptions, allowed >>
    PROVE  Links' /\ Endpoints' /\ Lookups' /\ Agreed'
<1> DEFINE m == Message(k, t, 0)
<1>0. SocketTypeOK /\ Links /\ Endpoints /\ Lookups /\ Agreed /\ active \subseteq Sockets
  BY DEF SocketInv, SocketTypeOK
<1>1. m \in Requests /\ m.kind = k /\ m.topic = t /\ \A s \in Sockets : up'[s] = IF Live(s) THEN Append(up[s], m) ELSE up[s]
  BY <1>0, Sends
<1> HIDE DEF m
<1>2. \A s \in Sockets : readyState[s] # "open" => up'[s] = up[s]
  BY <1>1 DEF Live
<1>3. Links'
  <2>1. ASSUME NEW s \in Sockets, s > made  PROVE up'[s] = <<>>
    BY <1>0, <1>2, <2>1 DEF Links
  <2>q. QED  BY <1>0, <2>1 DEF Links
<1>4. Endpoints'
  <2>1. ASSUME NEW s \in Sockets, readyState[s] \in {"none", "connecting"}  PROVE up'[s] = <<>>
    BY <1>0, <1>2, <2>1 DEF Endpoints
  <2>q. QED  BY <1>0, <2>1 DEF Endpoints, SubscriptionHasEndpoint, Running, Asking, Linked
<1>5. Lookups'
  BY <1>0 DEF Lookups, Asking, Dead
<1>6. Agreed'
  <2>1. ASSUME NEW s \in active', NEW u \in Topics, Live(s)'  PROVE AgreedAt(s, u)'
    <3>1. s \in active /\ s \in Sockets /\ Live(s) /\ AgreedAt(s, u)
      BY <1>0, <2>1 DEF Live, Linked, Agreed
    <3>2. up'[s] = Append(up[s], m) /\ up[s] \in Seq(Requests)
      BY <1>0, <1>1, <3>1 DEF SocketTypeOK
    <3>3. /\ \A l : Final(up'[s], u, l) <=> IF t = u THEN k = l ELSE Final(up[s], u, l)
          /\ Silent(up'[s], u) <=> Silent(up[s], u) /\ t # u
      BY <1>1, <3>2, UpAppend
    <3>4. CASE t = u
      <4>1. ~Silent(up'[s], u) /\ \A l : Final(up'[s], u, l) <=> k = l
        BY <3>3, <3>4
      <4>2. u \in topics' <=> k = "subscribe"
        BY <3>4
      <4>q. QED  BY <4>1, <4>2 DEF AgreedAt
    <3>5. CASE t # u
      <4>1. (u \in topics' <=> u \in topics) /\ (Dead(s, u)' <=> Dead(s, u)) /\ (Asking(s, u)' <=> Asking(s, u))
        BY <3>5 DEF Dead, Asking
      <4>2. (Silent(up'[s], u) <=> Silent(up[s], u)) /\ \A l : Final(up'[s], u, l) <=> Final(up[s], u, l)
        BY <3>3, <3>5
      <4>q. QED  BY <3>1, <4>1, <4>2 DEF AgreedAt
    <3>q. QED  BY <3>4, <3>5
  <2>q. QED  BY <2>1 DEF Agreed
<1>q. QED  BY <1>3, <1>4, <1>5, <1>6

\* subscribe() also makes a socket when there is none.
LEMMA AsksKeep ==
    ASSUME SocketInv, NEW t \in Topics, subscribe(t) \/ unsubscribe(t)
    PROVE  Links' /\ Endpoints' /\ Lookups' /\ Agreed'
<1>0. SocketTypeOK /\ Links
  BY DEF SocketInv
<1>1. CASE unsubscribe(t)
  BY <1>1, Asks DEF unsubscribe, serverVars
<1>2. CASE subscribe(t)
  <2>1. /\ Sending("subscribe", t) /\ topics' = topics \cup {t} /\ connect(topics', timer, stopped)
        /\ UNCHANGED << down, endpoint, active, subscriptions, allowed >>
    BY <1>2 DEF subscribe, serverVars
  <2>2. CASE UNCHANGED << ws, readyState, made, link >>
    BY <2>1, <2>2, Asks
  <2>3. CASE \E n \in Sockets :
                /\ n = made + 1 /\ made' = n /\ ws' = n
                /\ readyState' = [readyState EXCEPT ![n] = "connecting"] /\ link' = [link EXCEPT ![n] = "up"]
                /\ ws \in Sockets => readyState[ws] \notin {"connecting", "open"}
    <3>1. \A s \in Sockets : ~Live(s)
      BY <2>3 DEF Live
    <3>2. up' = up
      BY <1>0, <2>1, <3>1, Sends
    <3>q. QED  BY <2>1, <2>3, <3>2, Reconnecting
  <2>q. QED  BY <1>0, <2>1, <2>2, <2>3, Connects
<1>q. QED  BY <1>1, <1>2

\* The socket opens: the page asks for its topics.
LEMMA OpenKeeps ==
    ASSUME SocketInv, NEW s \in Sockets, onopen(s)
    PROVE  Links' /\ Endpoints' /\ Lookups' /\ Agreed'
<1>0. /\ Links /\ Endpoints /\ Lookups /\ active \subseteq Sockets /\ down[s] \in Seq(Answers)
      /\ readyState \in [Sockets -> {"none", "connecting", "open", "closing", "closed"}]
      /\ up \in [Sockets -> Seq(Requests)] /\ down \in [Sockets -> Seq(Answers)] /\ topics \in SUBSET Topics
  BY DEF SocketInv, SocketTypeOK
<1>1. /\ down[s] # <<>> /\ Head(down[s]).kind = "open" /\ readyState[s] = "connecting"
      /\ UNCHANGED << topics, ws, made, link, endpoint, active, subscriptions, allowed >>
  BY DEF onopen, Arrives, serverVars
<1>2. /\ readyState'[s] = "open" /\ down'[s] = Tail(down[s])
      /\ \A r \in Sockets : r # s => readyState'[r] = readyState[r] /\ down'[r] = down[r] /\ up'[r] = up[r]
  BY <1>0 DEF onopen, Read
<1>3. \A t \in Topics : /\ ~Final(up'[s], t, "unsubscribe")
                        /\ Final(up'[s], t, "subscribe") => t \in topics
                        /\ Silent(up'[s], t) => t \notin topics
  <2>1. up'[s] = LET wanted == SetToSeq(topics) IN [i \in DOMAIN wanted |-> Message("subscribe", wanted[i], 0)]
    BY <1>0 DEF onopen
  <2>q. QED  BY <1>0, <2>1, Asked
<1>n. s > made \/ s <= made
  BY Numbers DEF SocketInv
<1>4. s = ws /\ s <= made
  BY <1>0, <1>1, <1>n DEF Links
<1>5. /\ \A t \in Topics : ~Asking(s, t) /\ << s, t >> \notin subscriptions
      /\ endpoint[s].at \notin {"none", "accepting"}
  <2>1. ~OnlyCloses(down[s])
    BY <1>0, <1>1, DownTail
  <2>q. QED  BY <1>0, <1>1, <2>1 DEF Endpoints
<1>6. Links'
  <2>1. ASSUME NEW r \in Sockets
        PROVE  /\ r > made => /\ readyState'[r] = "none" /\ link'[r] = "none"
                              /\ up'[r] = <<>> /\ down'[r] = <<>> /\ endpoint'[r].at = "none"
               /\ r <= made /\ r # ws => readyState'[r] \in {"closing", "closed"}
               /\ readyState'[r] = "closed" => link'[r] = "lost" /\ down'[r] = <<>>
               /\ readyState'[r] = "closing" => ClosesFirst(down'[r])
    <3>1. CASE r = s
      BY <1>0, <1>1, <1>2, <1>4, <3>1 DEF Links
    <3>2. CASE r # s
      BY <1>0, <1>1, <1>2, <3>2 DEF Links
    <3>q. QED  BY <3>1, <3>2
  <2>2. ws <= made /\ readyState'[ws] = "open"
    BY <1>0, <1>2, <1>4 DEF Links
  <2>q. QED  BY <1>1, <2>1, <2>2 DEF Links
<1>7. Endpoints'
  <2>1. (\A r \in active' : Running(r)') /\ \A x \in subscriptions' : Running(x[1])'
    BY <1>0, <1>1 DEF Endpoints, SubscriptionHasEndpoint, Running
  <2>2. ASSUME NEW r \in Sockets
        PROVE  /\ endpoint'[r].at \in {"none", "accepting"} =>
                    readyState'[r] # "open" /\ OnlyCloses(down'[r]) /\ (Linked(r)' => down'[r] = <<>>)
               /\ readyState'[r] \in {"none", "connecting"} =>
                    up'[r] = <<>> /\ \A t \in Topics : ~Asking(r, t)' /\ << r, t >> \notin subscriptions'
    <3>1. CASE r = s
      BY <1>1, <1>2, <1>5, <3>1
    <3>2. CASE r # s
      BY <1>0, <1>1, <1>2, <3>2 DEF Endpoints, Asking, Linked
    <3>q. QED  BY <3>1, <3>2
  <2>q. QED  BY <2>1, <2>2 DEF Endpoints, SubscriptionHasEndpoint
<1>8. Lookups'
  <2>1. ASSUME NEW r \in Sockets, NEW t \in Topics, RejectedIn(down'[r], t)  PROVE RejectedIn(down[r], t)
    BY <1>0, <1>1, <1>2, <2>1, DownTail
  <2>q. QED  BY <1>0, <1>1, <2>1 DEF Lookups, Asking, Dead
<1>9. Agreed'
  <2>1. ASSUME NEW r \in active', NEW t \in Topics, Live(r)'  PROVE AgreedAt(r, t)'
    <3>1. r = s
      BY <1>1, <1>4, <2>1 DEF Live
    <3>2. t \in topics' <=> t \in topics
      BY <1>1
    <3>3. ~Asking(s, t)' /\ << s, t >> \notin subscriptions'
      BY <1>1, <1>5 DEF Asking
    <3>4. ~(endpoint'[s].at \in {"lookup", "found"} /\ endpoint'[s].topic = t)
      BY <3>3 DEF Asking
    <3>q. QED  BY <1>3, <3>1, <3>2, <3>3, <3>4 DEF AgreedAt
  <2>q. QED  BY <2>1 DEF Agreed
<1>q. QED  BY <1>6, <1>7, <1>8, <1>9

\* A message reaches the page.
LEMMA MessageKeeps ==
    ASSUME SocketInv, NEW s \in Sockets, onmessage(s)
    PROVE  Links' /\ Endpoints' /\ Lookups' /\ Agreed'
<1> DEFINE m == Head(down[s])
<1>0. /\ Links /\ Endpoints /\ Lookups /\ Agreed /\ active \subseteq Sockets /\ down[s] \in Seq(Answers)
      /\ down \in [Sockets -> Seq(Answers)]
  BY DEF SocketInv, SocketTypeOK
<1>1. /\ down[s] # <<>>
      /\ \/ m.kind = "update" /\ topics' = topics
         \/ m.kind = "subscribe_rejected" /\ topics' = topics \ {m.topic}
      /\ UNCHANGED << ws, readyState, made, up, link, endpoint, active, subscriptions, allowed >>
  BY DEF onmessage, Arrives, Read, serverVars
<1>2. down'[s] = Tail(down[s]) /\ \A r \in Sockets : r # s => down'[r] = down[r]
  BY <1>0 DEF onmessage, Read
<1>3. /\ \A t : RejectedIn(down'[s], t) => RejectedIn(down[s], t)
      /\ \A t : RejectedIn(down[s], t) /\ ~(m.kind = "subscribe_rejected" /\ m.topic = t) => RejectedIn(down'[s], t)
      /\ m.kind = "subscribe_rejected" => RejectedIn(down[s], m.topic)
      /\ ~OnlyCloses(down[s])
  BY <1>0, <1>1, <1>2, DownTail
<1> HIDE DEF m
<1>n. s # 0 /\ (s > made \/ s <= made)
  BY Numbers DEF SocketInv
<1>4. readyState[s] \notin {"none", "closing", "closed"}
  BY <1>0, <1>1, <1>n DEF Links, ClosesFirst, m
<1>5. endpoint[s].at \notin {"none", "accepting"} /\ s <= made /\ s = ws
  BY <1>0, <1>1, <1>3, <1>4, <1>n DEF Endpoints, Links
<1>6. Links'
  <2>1. ASSUME NEW r \in Sockets
        PROVE  /\ r > made => /\ readyState'[r] = "none" /\ link'[r] = "none"
                              /\ up'[r] = <<>> /\ down'[r] = <<>> /\ endpoint'[r].at = "none"
               /\ r <= made /\ r # ws => readyState'[r] \in {"closing", "closed"}
               /\ readyState'[r] = "closed" => link'[r] = "lost" /\ down'[r] = <<>>
               /\ readyState'[r] = "closing" => ClosesFirst(down'[r])
    <3>1. CASE r = s
      BY <1>0, <1>1, <1>4, <1>5, <3>1 DEF Links
    <3>2. CASE r # s
      BY <1>0, <1>1, <1>2, <3>2 DEF Links
    <3>q. QED  BY <3>1, <3>2
  <2>q. QED  BY <1>0, <1>1, <2>1 DEF Links
<1>7. Endpoints'
  <2>1. ASSUME NEW r \in Sockets, endpoint[r].at \in {"none", "accepting"}
        PROVE  OnlyCloses(down'[r]) /\ (Linked(r)' => down'[r] = <<>>)
    <3>1. r # s
      BY <1>5, <2>1
    <3>q. QED  BY <1>0, <1>1, <1>2, <2>1, <3>1 DEF Endpoints, Linked
  <2>q. QED  BY <1>0, <1>1, <2>1 DEF Endpoints, SubscriptionHasEndpoint, Running, Asking
<1>8. Lookups'
  <2>1. ASSUME NEW r \in Sockets, NEW t \in Topics, RejectedIn(down'[r], t)  PROVE RejectedIn(down[r], t)
    BY <1>2, <1>3, <2>1
  <2>q. QED  BY <1>0, <1>1, <2>1 DEF Lookups, Asking, Dead
<1>9. Agreed'
  <2>1. ASSUME NEW r \in active', NEW t \in Topics, Live(r)'  PROVE AgreedAt(r, t)'
    <3>1. r \in active /\ r \in Sockets /\ r = s /\ Live(s)
      BY <1>0, <1>1, <1>5, <2>1 DEF Live, Linked
    <3>2. AgreedAt(s, t) /\ (Dead(s, t)' <=> Dead(s, t)) /\ (Asking(s, t)' <=> Asking(s, t))
      BY <1>0, <1>1, <2>1, <3>1 DEF Agreed, Dead, Asking
    <3>3. CASE m.kind = "subscribe_rejected" /\ m.topic = t
      <4>1. Dead(s, t) /\ t \notin topics'
        BY <1>0, <1>1, <1>3, <3>3 DEF Lookups
      <4>q. QED  BY <1>1, <3>1, <3>2, <4>1 DEF AgreedAt, Dead
    <3>4. CASE ~(m.kind = "subscribe_rejected" /\ m.topic = t)
      <4>1. (t \in topics' <=> t \in topics) /\ (RejectedIn(down[s], t) => RejectedIn(down'[s], t))
        BY <1>1, <1>3, <3>4
      <4>q. QED  BY <1>1, <3>1, <3>2, <4>1 DEF AgreedAt
    <3>q. QED  BY <3>3, <3>4
  <2>q. QED  BY <2>1 DEF Agreed
<1>q. QED  BY <1>6, <1>7, <1>8, <1>9

\* What only the page's side of one socket changes: how far it is, its link and what is on its
\* way.  It is no longer the open socket of the page, or its link is lost.
LEMMA Ending ==
    ASSUME SocketInv, NEW s \in Sockets, s <= made,
           UNCHANGED << topics, made, endpoint, active, subscriptions, allowed >>,
           \A r \in Sockets : r # s => /\ readyState'[r] = readyState[r] /\ link'[r] = link[r]
                                       /\ up'[r] = up[r] /\ down'[r] = down[r],
           \/ /\ ws' = ws /\ ws # 0 /\ readyState'[ws] \in {"connecting", "open", "closing"}
              /\ s # ws => readyState'[s] \in {"closing", "closed"}
           \/ ws' = 0 /\ readyState'[s] \in {"closing", "closed"} /\ ws \in {0, s}
           \/ ws' = ws /\ s # ws /\ readyState'[s] \in {"closing", "closed"},
           readyState'[s] = "closed" => link'[s] = "lost" /\ down'[s] = <<>>,
           readyState'[s] = "closing" => ClosesFirst(down'[s]),
           readyState'[s] \in {"none", "connecting"} => readyState[s] \in {"none", "connecting"} /\ up'[s] = <<>>,
           readyState'[s] = "open" => readyState[s] = "open",
           OnlyCloses(down[s]) => OnlyCloses(down'[s]),
           link'[s] = "up" => link[s] = "up" /\ down'[s] = down[s],
           \A t \in Topics : RejectedIn(down'[s], t) => RejectedIn(down[s], t),
           readyState'[s] # "open" \/ link'[s] # "up"
    PROVE  Links' /\ Endpoints' /\ Lookups' /\ Agreed'
<1>0. Links /\ Endpoints /\ Lookups /\ Agreed /\ active \subseteq Sockets
  BY DEF SocketInv, SocketTypeOK
<1>n. 0 \notin Sockets /\ made \in Nat /\ ws \in 0..MaxSockets /\ ws <= made /\ \A r \in Sockets : ~(r > made /\ r <= made)
  BY <1>0, BrowserSocketAssumption DEF SocketInv, SocketTypeOK, Sockets, Links
<1>1. Links'
  <2>1. ASSUME NEW r \in Sockets
        PROVE  /\ r > made => /\ readyState'[r] = "none" /\ link'[r] = "none"
                              /\ up'[r] = <<>> /\ down'[r] = <<>> /\ endpoint'[r].at = "none"
               /\ r <= made /\ r # ws' => readyState'[r] \in {"closing", "closed"}
               /\ readyState'[r] = "closed" => link'[r] = "lost" /\ down'[r] = <<>>
               /\ readyState'[r] = "closing" => ClosesFirst(down'[r])
    <3>1. CASE r = s
      BY <1>n, <3>1
    <3>2. CASE r # s
      <4>1. r # ws' => r # ws \/ ~(r <= made)
        BY <1>n, <3>2
      <4>q. QED  BY <1>0, <3>2, <4>1 DEF Links
    <3>q. QED  BY <3>1, <3>2
  <2>2. ws' <= made /\ (ws' # 0 => readyState'[ws'] \in {"connecting", "open", "closing"})
    <3>1. CASE ws' = 0
      BY <1>n, <3>1
    <3>2. CASE ws' = ws /\ ws # 0 /\ readyState'[ws] \in {"connecting", "open", "closing"}
      BY <1>n, <3>2
    <3>3. CASE ws' = ws /\ s # ws /\ ws # 0
      <4>1. ws \in Sockets
        BY <1>n, <3>3 DEF Sockets
      <4>q. QED  BY <1>0, <1>n, <3>3, <4>1 DEF Links
    <3>q. QED  BY <3>1, <3>2, <3>3
  <2>q. QED  BY <2>1, <2>2 DEF Links
<1>2. Endpoints'
  <2>1. (\A r \in active' : Running(r)') /\ \A x \in subscriptions' : Running(x[1])'
    BY <1>0 DEF Endpoints, SubscriptionHasEndpoint, Running
  <2>2. ASSUME NEW r \in Sockets
        PROVE  /\ endpoint'[r].at \in {"none", "accepting"} =>
                    readyState'[r] # "open" /\ OnlyCloses(down'[r]) /\ (Linked(r)' => down'[r] = <<>>)
               /\ readyState'[r] \in {"none", "connecting"} =>
                    up'[r] = <<>> /\ \A t \in Topics : ~Asking(r, t)' /\ << r, t >> \notin subscriptions'
    <3>1. CASE r = s
      BY <1>0, <3>1 DEF Endpoints, Asking, Linked
    <3>2. CASE r # s
      BY <1>0, <3>2 DEF Endpoints, Asking, Linked
    <3>q. QED  BY <3>1, <3>2
  <2>q. QED  BY <2>1, <2>2 DEF Endpoints, SubscriptionHasEndpoint
<1>3. Lookups'
  <2>1. ASSUME NEW r \in Sockets, NEW t \in Topics, RejectedIn(down'[r], t)  PROVE RejectedIn(down[r], t)
    BY <2>1
  <2>q. QED  BY <1>0, <2>1 DEF Lookups, Asking, Dead
<1>4. Agreed'
  <2>1. ASSUME NEW r \in active', NEW t \in Topics, Live(r)'  PROVE AgreedAt(r, t)'
    <3>1. r \in Sockets /\ r # s /\ ws' # 0
      BY <1>0, <1>n, <2>1 DEF Live, Linked
    <3>2. Live(r) /\ r \in active /\ down'[r] = down[r] /\ up'[r] = up[r]
      BY <2>1, <3>1 DEF Live, Linked
    <3>3. AgreedAt(r, t)
      BY <1>0, <3>2 DEF Agreed
    <3>q. QED  BY <3>2, <3>3 DEF AgreedAt, Asking, Dead
  <2>q. QED  BY <2>1 DEF Agreed
<1>q. QED  BY <1>1, <1>2, <1>3, <1>4

\* The close frame and the close event, the page that goes, and the link that is lost.
LEMMA EndingKeeps ==
    ASSUME SocketInv, pagehide \/ \E s \in Sockets : CloseBegins(s) \/ onclose(s) \/ LoseLink(s)
    PROVE  Links' /\ Endpoints' /\ Lookups' /\ Agreed'
<1>0. /\ Links /\ Endpoints /\ Lookups /\ Agreed
      /\ readyState \in [Sockets -> {"none", "connecting", "open", "closing", "closed"}]
      /\ link \in [Sockets -> {"none", "up", "lost"}] /\ up \in [Sockets -> Seq(Requests)]
      /\ down \in [Sockets -> Seq(Answers)] /\ ws \in 0..MaxSockets /\ made \in 0..MaxSockets
  BY DEF SocketInv, SocketTypeOK
<1>n. \A r \in Sockets : readyState[r] # "none" => r <= made
  <2>1. \A r \in Sockets : r > made \/ r <= made
    BY Numbers DEF SocketInv
  <2>q. QED  BY <1>0, <2>1 DEF Links
<1>e. OnlyCloses(<<>>) /\ \A t : ~RejectedIn(<<>>, t)
  BY ShortQueues
<1>1. ASSUME NEW s \in Sockets, CloseBegins(s)  PROVE Links' /\ Endpoints' /\ Lookups' /\ Agreed'
  <2>1. /\ down[s] # <<>> /\ Head(down[s]).kind = "close" /\ readyState[s] \in {"connecting", "open"}
        /\ UNCHANGED << topics, ws, made, up, down, link, endpoint, active, subscriptions, allowed >>
    BY <1>1 DEF CloseBegins, Arrives, linkVars, serverVars
  <2>2. readyState'[s] = "closing" /\ \A r \in Sockets : r # s => readyState'[r] = readyState[r]
    BY <1>0, <1>1 DEF CloseBegins
  <2>3. s <= made /\ s = ws /\ ws # 0
    <3>1. s <= made /\ s # 0
      BY <1>n, <2>1, Numbers DEF SocketInv
    <3>q. QED  BY <1>0, <2>1, <3>1 DEF Links
  <2>q. QED  BY <2>1, <2>2, <2>3, Ending DEF ClosesFirst
<1>2. ASSUME NEW s \in Sockets, onclose(s)  PROVE Links' /\ Endpoints' /\ Lookups' /\ Agreed'
  <2>1. /\ readyState[s] = "closing" /\ ws' = (IF ws = s THEN 0 ELSE ws)
        /\ UNCHANGED << topics, made, endpoint, active, subscriptions, allowed >>
    BY <1>2 DEF onclose, serverVars
  <2>2. /\ readyState'[s] = "closed" /\ link'[s] = "lost" /\ up'[s] = <<>> /\ down'[s] = <<>>
        /\ \A r \in Sockets : r # s => /\ readyState'[r] = readyState[r] /\ link'[r] = link[r]
                                       /\ up'[r] = up[r] /\ down'[r] = down[r]
    BY <1>0, <1>2 DEF onclose
  <2>3. s <= made
    BY <1>n, <2>1
  <2>4. \/ ws' = 0 /\ ws \in {0, s}
        \/ ws' = ws /\ s # ws
    BY <2>1
  <2>q. QED  BY <1>e, <2>1, <2>2, <2>3, <2>4, Ending
<1>3. CASE pagehide /\ ws = 0
  <2>1. UNCHANGED << topics, ws, made, readyState, link, up, down, endpoint, active, subscriptions, allowed >>
    BY <1>3 DEF pagehide, linkVars, serverVars
  <2>q. QED
    BY <1>0, <2>1 DEF Links, Endpoints, Lookups, Agreed, AgreedAt, Live, Linked, Running, Asking, Dead, SubscriptionHasEndpoint
<1>4. CASE pagehide /\ ws # 0
  <2>1. /\ ws' = 0 /\ UNCHANGED << topics, made, endpoint, active, subscriptions, allowed >>
    BY <1>4 DEF pagehide, serverVars
  <2>2. ws \in Sockets /\ ws <= made
    BY <1>0, <1>4 DEF Links, Sockets
  <2>3. /\ readyState'[ws] = "closed" /\ link'[ws] = "lost" /\ up'[ws] = <<>> /\ down'[ws] = <<>>
        /\ \A r \in Sockets : r # ws => /\ readyState'[r] = readyState[r] /\ link'[r] = link[r]
                                        /\ up'[r] = up[r] /\ down'[r] = down[r]
    BY <1>0, <1>4, <2>2 DEF pagehide
  <2>4. PICK w \in Sockets : w = ws
    BY <2>2
  <2>q. QED  BY <1>e, <2>1, <2>2, <2>3, <2>4, Ending
<1>5. ASSUME NEW s \in Sockets, LoseLink(s)  PROVE Links' /\ Endpoints' /\ Lookups' /\ Agreed'
  <2>1. /\ readyState[s] \in {"connecting", "open"}
        /\ UNCHANGED << topics, ws, made, readyState, endpoint, active, subscriptions, allowed >>
    BY <1>5 DEF LoseLink, pageVars, serverVars
  <2>2. /\ link'[s] = "lost" /\ up'[s] = <<>> /\ down'[s] = << Close(Abnormal) >>
        /\ \A r \in Sockets : r # s => link'[r] = link[r] /\ up'[r] = up[r] /\ down'[r] = down[r]
    BY <1>0, <1>5 DEF LoseLink
  <2>3. OnlyCloses(down'[s]) /\ \A t : ~RejectedIn(down'[s], t)
    <3>1. Abnormal \in Int
      BY DEF Abnormal
    <3>q. QED  BY <2>2, <3>1, ShortQueues
  <2>4. s <= made /\ s = ws /\ ws # 0
    <3>1. s <= made /\ s # 0
      BY <1>n, <2>1, Numbers DEF SocketInv
    <3>q. QED  BY <1>0, <2>1, <3>1 DEF Links
  <2>q. QED  BY <2>1, <2>2, <2>3, <2>4, Ending
<1>q. QED  BY <1>1, <1>2, <1>3, <1>4, <1>5

-----------------------------------------------------------------------------
\* What a step of one endpoint changes: its place, its entries in the tables and what is on its
\* way to and from its page.
LEMMA Serving ==
    ASSUME SocketInv, SocketTypeOK', NEW s \in Sockets, s <= made,
           UNCHANGED << topics, ws, made, readyState, link, allowed >>,
           \A r \in Sockets : r # s => endpoint'[r] = endpoint[r] /\ up'[r] = up[r] /\ down'[r] = down[r],
           \A r \in Sockets : r # s => (r \in active' <=> r \in active),
           \A r \in Sockets, t \in Topics : r # s => (<< r, t >> \in subscriptions' <=> << r, t >> \in subscriptions),
           s \in active' => Running(s)',
           \A t \in Topics : << s, t >> \in subscriptions' => Running(s)',
           ClosesFirst(down[s]) => ClosesFirst(down'[s]),
           ~Linked(s) => down'[s] = down[s],
           endpoint'[s].at \in {"none", "accepting"} => endpoint[s].at \in {"none", "accepting"} /\ down'[s] = down[s],
           readyState[s] \in {"none", "connecting"} => up'[s] = <<>>,
           \A t \in Topics : readyState[s] \in {"none", "connecting"} => ~Asking(s, t)' /\ << s, t >> \notin subscriptions',
           \A t \in Topics : Asking(s, t)' => << s, t >> \notin subscriptions',
           \A t \in Topics : endpoint'[s].at = "refused" /\ endpoint'[s].topic = t => t \notin allowed,
           \A t \in Topics : RejectedIn(down'[s], t) => Dead(s, t)',
           \A t \in Topics : s \in active' /\ Live(s) => AgreedAt(s, t)'
    PROVE  Links' /\ Endpoints' /\ Lookups' /\ Agreed'
<1>0. /\ Links /\ Endpoints /\ Lookups /\ Agreed
      /\ active' \subseteq Sockets /\ subscriptions' \subseteq Sockets \X Topics
  BY DEF SocketInv, SocketTypeOK
<1>n. made \in Nat /\ s \in Nat
  BY BrowserSocketAssumption DEF SocketInv, SocketTypeOK, Sockets
<1>1. Links'
  <2>1. ASSUME NEW r \in Sockets
        PROVE  /\ r > made => /\ readyState'[r] = "none" /\ link'[r] = "none"
                              /\ up'[r] = <<>> /\ down'[r] = <<>> /\ endpoint'[r].at = "none"
               /\ r <= made /\ r # ws => readyState'[r] \in {"closing", "closed"}
               /\ readyState'[r] = "closed" => link'[r] = "lost" /\ down'[r] = <<>>
               /\ readyState'[r] = "closing" => ClosesFirst(down'[r])
    <3>1. CASE r = s
      <4>1. ~(r > made)
        BY <1>n, <3>1
      <4>q. QED  BY <1>0, <3>1, <4>1 DEF Links, Linked
    <3>2. CASE r # s
      BY <1>0, <3>2 DEF Links
    <3>q. QED  BY <3>1, <3>2
  <2>q. QED  BY <1>0, <2>1 DEF Links
<1>2. Endpoints'
  <2>1. ASSUME NEW r \in active'  PROVE Running(r)'
    <3>1. CASE r = s
      BY <2>1, <3>1
    <3>2. CASE r # s
      <4>1. r \in Sockets /\ r \in active /\ endpoint'[r] = endpoint[r]
        BY <1>0, <2>1, <3>2
      <4>q. QED  BY <1>0, <4>1 DEF Endpoints, Running
    <3>q. QED  BY <3>1, <3>2
  <2>2. ASSUME NEW x \in subscriptions'  PROVE Running(x[1])'
    <3>1. PICK r \in Sockets, t \in Topics : x = << r, t >>
      BY <1>0, <2>2
    <3>2. CASE r = s
      BY <2>2, <3>1, <3>2
    <3>3. CASE r # s
      <4>1. x \in subscriptions /\ endpoint'[r] = endpoint[r]
        BY <2>2, <3>1, <3>3
      <4>q. QED  BY <1>0, <3>1, <4>1 DEF Endpoints, SubscriptionHasEndpoint, Running
    <3>q. QED  BY <3>2, <3>3
  <2>3. ASSUME NEW r \in Sockets
        PROVE  /\ endpoint'[r].at \in {"none", "accepting"} =>
                    readyState'[r] # "open" /\ OnlyCloses(down'[r]) /\ (Linked(r)' => down'[r] = <<>>)
               /\ readyState'[r] \in {"none", "connecting"} =>
                    up'[r] = <<>> /\ \A t \in Topics : ~Asking(r, t)' /\ << r, t >> \notin subscriptions'
    <3>1. CASE r = s
      BY <1>0, <3>1 DEF Endpoints, Linked
    <3>2. CASE r # s
      BY <1>0, <3>2 DEF Endpoints, Asking, Linked
    <3>q. QED  BY <3>1, <3>2
  <2>q. QED  BY <2>1, <2>2, <2>3 DEF Endpoints, SubscriptionHasEndpoint
<1>3. Lookups'
  <2>1. ASSUME NEW r \in Sockets, NEW t \in Topics
        PROVE  /\ Asking(r, t)' => << r, t >> \notin subscriptions'
               /\ endpoint'[r].at = "refused" /\ endpoint'[r].topic = t => t \notin allowed'
               /\ RejectedIn(down'[r], t) => Dead(r, t)'
    <3>1. CASE r = s
      BY <3>1
    <3>2. CASE r # s
      BY <1>0, <3>2 DEF Lookups, Asking, Dead
    <3>q. QED  BY <3>1, <3>2
  <2>q. QED  BY <2>1 DEF Lookups
<1>4. Agreed'
  <2>1. ASSUME NEW r \in active', NEW t \in Topics, Live(r)'  PROVE AgreedAt(r, t)'
    <3>1. Live(r) /\ r \in Sockets
      BY <1>0, <2>1 DEF Live, Linked
    <3>2. CASE r = s
      BY <2>1, <3>1, <3>2
    <3>3. CASE r # s
      <4>1. AgreedAt(r, t)
        BY <1>0, <2>1, <3>1, <3>3 DEF Agreed
      <4>q. QED  BY <3>1, <3>3, <4>1 DEF AgreedAt, Asking, Dead
    <3>q. QED  BY <3>2, <3>3
  <2>q. QED  BY <2>1 DEF Agreed
<1>q. QED  BY <1>1, <1>2, <1>3, <1>4

\* The handshake.
LEMMA HandshakeKeeps ==
    ASSUME SocketInv, SocketTypeOK', NEW s \in Sockets, _authenticate_websocket(s) \/ Accept(s)
    PROVE  Links' /\ Endpoints' /\ Lookups' /\ Agreed'
<1>0. /\ Links /\ Endpoints /\ Lookups /\ active \subseteq Sockets
      /\ endpoint \in [Sockets -> Places] /\ down \in [Sockets -> Seq(Answers)]
  BY DEF SocketInv, SocketTypeOK
<1>1. /\ endpoint[s].at \in {"none", "accepting"}
      /\ UNCHANGED << topics, ws, made, readyState, link, allowed, up, subscriptions >>
      /\ endpoint[s].at = "none" => Linked(s)
  BY DEF _authenticate_websocket, Accept, NoEndpoint, pageVars, Linked
<1>2. /\ readyState[s] # "open" /\ OnlyCloses(down[s]) /\ (Linked(s) => down[s] = <<>>)
      /\ s \notin active /\ (\A t \in Topics : << s, t >> \notin subscriptions)
  <2>1. ~Running(s)
    BY <1>1 DEF Running
  <2>2. \A t \in Topics : << s, t >> \in subscriptions => Running(s)
    BY <1>0 DEF Endpoints, SubscriptionHasEndpoint
  <2>q. QED  BY <1>0, <1>1, <2>1, <2>2 DEF Endpoints
<1>3. s <= made
  <2>1. s > made => ~Linked(s) /\ endpoint[s].at = "none"
    BY <1>0 DEF Links, Linked
  <2>q. QED  BY <1>1, <2>1, Numbers DEF SocketInv
<1>4. /\ \A r \in Sockets : r # s => endpoint'[r] = endpoint[r] /\ down'[r] = down[r]
      /\ endpoint'[s].at \in {"accepting", "idle", "gone"} /\ endpoint'[s].topic = <<>>
      /\ active' = (IF endpoint'[s].at = "idle" THEN active \cup {s} ELSE active)
      /\ endpoint'[s].at = "accepting" => down'[s] = down[s]
      /\ \A t \in Topics : ~RejectedIn(down'[s], t)
      /\ ~Linked(s) => down'[s] = down[s]
  <2>n. \A t \in Topics : ~RejectedIn(down[s], t)
    BY <1>2 DEF OnlyCloses, RejectedIn
  <2>1. CASE _authenticate_websocket(s) /\ session = "valid"
    BY <1>0, <2>1, <2>n DEF _authenticate_websocket, Goes, At
  <2>2. CASE _authenticate_websocket(s) /\ session # "valid"
    <3> DEFINE q == << Message("open", <<>>, 0), Close(Policy) >>
    <3>1. \A t : ~RejectedIn(q, t)
      <4>1. Policy \in Int
        BY DEF Policy
      <4>q. QED  BY <4>1, ShortQueues, Zenon
    <3> HIDE DEF q
    <3>2. down' = [down EXCEPT ![s] = q]
      BY <2>2 DEF _authenticate_websocket, q
    <3>3. Linked(s)
      BY <2>2 DEF _authenticate_websocket, Linked
    <3>q. QED  BY <1>0, <2>2, <3>1, <3>2, <3>3 DEF _authenticate_websocket, Goes, At
  <2>3. CASE Accept(s) /\ Linked(s)
    <3> DEFINE m == Message("open", <<>>, 0)
               Z == {s}
    <3>1. m \in Answers /\ m.kind = "open" /\ down' = Told(down, Z, m)
      BY <2>3 DEF Accept, Linked, Message, Answers
    <3>z. \A r \in Sockets : r # s => r \notin Z
      OBVIOUS
    <3> HIDE DEF m, Z
    <3>2. \A r \in Sockets : r # s => down'[r] = down[r]
      BY <1>0, <3>1, <3>z, ToldFacts
    <3>3. \A t \in Topics : ~RejectedIn(down'[s], t)
      BY <1>0, <2>n, <3>1, ToldFacts
    <3>4. endpoint' = [endpoint EXCEPT ![s] = Idle] /\ active' = active \cup {s}
      BY <2>3 DEF Accept, Linked, Goes
    <3>5. endpoint'[s].at = "idle" /\ endpoint'[s].topic = <<>> /\ \A r \in Sockets : r # s => endpoint'[r] = endpoint[r]
      BY <1>0, <3>4 DEF Idle
    <3>q. QED  BY <2>3, <3>2, <3>3, <3>4, <3>5
  <2>4. CASE Accept(s) /\ ~Linked(s)
    BY <1>0, <2>4, <2>n DEF Accept, Linked, Goes, At
  <2>q. QED  BY <2>1, <2>2, <2>3, <2>4
<1>5. \A t \in Topics : ~Asking(s, t)'
  BY <1>4 DEF Asking
<1>6. s \in active' => Running(s)'
  BY <1>2, <1>4 DEF Running
<1>7. ~Live(s)
  BY <1>2 DEF Live
<1>8. ClosesFirst(down[s]) => ClosesFirst(down'[s])
  BY <1>2, <1>4 DEF ClosesFirst
<1>9. readyState[s] \in {"none", "connecting"} => up'[s] = <<>>
  BY <1>0, <1>1 DEF Endpoints
<1>q. QED
  BY <1>1, <1>2, <1>3, <1>4, <1>5, <1>6, <1>7, <1>8, <1>9, Serving

\* The endpoint reads a message of its page.
LEMMA ReceiveKeeps ==
    ASSUME SocketInv, SocketTypeOK', NEW s \in Sockets, Receive(s)
    PROVE  Links' /\ Endpoints' /\ Lookups' /\ Agreed'
<1> DEFINE m == Head(up[s])
<1>0. /\ Links /\ Endpoints /\ Lookups /\ Agreed /\ up \in [Sockets -> Seq(Requests)] /\ up[s] \in Seq(Requests)
      /\ endpoint \in [Sockets -> Places]
  BY DEF SocketInv, SocketTypeOK
<1>1. /\ endpoint[s] = Idle /\ s \in active /\ up[s] # <<>> /\ up' = [up EXCEPT ![s] = Tail(@)]
      /\ UNCHANGED << topics, ws, made, readyState, link, allowed, down, active >>
  BY DEF Receive, pageVars
<1>2. /\ m \in Requests
      /\ \A t \in Topics, k \in {"subscribe", "unsubscribe"} : Final(up'[s], t, k) => Final(up[s], t, k)
      /\ \A t \in Topics : Silent(up'[s], t) => IF m.topic = t THEN Final(up[s], t, m.kind) ELSE Silent(up[s], t)
      /\ \A r \in Sockets : r # s => up'[r] = up[r]
  <2>1. up'[s] = Tail(up[s]) /\ \A r \in Sockets : r # s => up'[r] = up[r]
    BY <1>0, <1>1
  <2>2. m \in Requests
    BY <1>0, <1>1, HeadTailProperties
  <2>q. QED  BY <1>0, <1>1, <2>1, <2>2, UpTail
<1>3. \/ /\ m.kind = "unsubscribe" /\ subscriptions' = subscriptions \ {<< s, m.topic >>} /\ endpoint' = endpoint
      \/ /\ m.kind = "subscribe" /\ << s, m.topic >> \in subscriptions /\ UNCHANGED << subscriptions, endpoint >>
      \/ /\ m.kind = "subscribe" /\ << s, m.topic >> \notin subscriptions /\ UNCHANGED subscriptions
         /\ endpoint' = [endpoint EXCEPT ![s] = At("lookup", m.topic)]
  BY <1>2 DEF Receive, Goes, Requests
<1> HIDE DEF m
<1>4. /\ m.topic \in Topics /\ endpoint[s].at = "idle"
      /\ endpoint'[s].at \in {"idle", "lookup"} /\ \A r \in Sockets : r # s => endpoint'[r] = endpoint[r]
      /\ endpoint'[s].at = "lookup" => /\ endpoint'[s].topic = m.topic /\ m.kind = "subscribe"
                                       /\ << s, m.topic >> \notin subscriptions /\ subscriptions' = subscriptions
  BY <1>0, <1>1, <1>2, <1>3 DEF Requests, Idle, At
<1>5. /\ subscriptions' \subseteq subscriptions
      /\ \A r \in Sockets, t \in Topics : r # s => (<< r, t >> \in subscriptions' <=> << r, t >> \in subscriptions)
      /\ \A t \in Topics : t # m.topic => (<< s, t >> \in subscriptions' <=> << s, t >> \in subscriptions)
      /\ m.kind = "unsubscribe" => << s, m.topic >> \notin subscriptions' /\ endpoint'[s].at = "idle"
      /\ m.kind = "subscribe" => subscriptions' = subscriptions
      /\ m.kind = "subscribe" /\ << s, m.topic >> \notin subscriptions => endpoint'[s].at = "lookup"
      /\ m.kind \in {"subscribe", "unsubscribe"}
  BY <1>0, <1>3, <1>4 DEF At
<1>6. s <= made /\ readyState[s] \notin {"none", "connecting"}
  <2>1. ~(s > made)
    BY <1>0, <1>4 DEF Links
  <2>q. QED  BY <1>0, <1>1, <2>1, Numbers DEF Endpoints, SocketInv
<1>7. \A t \in Topics : Dead(s, t) => Dead(s, t)'
  BY <1>1, <1>4, <1>5 DEF Dead
<1>8. ASSUME NEW t \in Topics, Live(s)  PROVE AgreedAt(s, t)'
  <2>1. AgreedAt(s, t) /\ ~Asking(s, t)
    BY <1>0, <1>1, <1>4, <1>8 DEF Agreed, Asking
  <2>2. /\ Final(up'[s], t, "subscribe") => t \in topics \/ Dead(s, t)'
        /\ Final(up'[s], t, "unsubscribe") => t \notin topics
    BY <1>2, <1>7, <2>1 DEF AgreedAt
  <2>3. CASE m.topic # t
    <3>1. /\ << s, t >> \in subscriptions' <=> << s, t >> \in subscriptions
          /\ ~Asking(s, t)' /\ (Silent(up'[s], t) => Silent(up[s], t))
      BY <1>2, <1>4, <1>5, <2>3 DEF Asking
    <3>2. ~(endpoint'[s].at \in {"found", "lookup"} /\ endpoint'[s].topic = t)
      BY <3>1 DEF Asking
    <3>3. Silent(up'[s], t) => (<< s, t >> \in subscriptions => t \in topics)
                               /\ (<< s, t >> \notin subscriptions => t \notin topics \/ RejectedIn(down[s], t))
      BY <2>1, <3>1 DEF AgreedAt
    <3>q. QED  BY <1>1, <2>2, <3>1, <3>2, <3>3 DEF AgreedAt
  <2>4. CASE m.topic = t /\ m.kind = "unsubscribe"
    <3>1. << s, t >> \notin subscriptions' /\ endpoint'[s].at = "idle"
      BY <1>5, <2>4
    <3>2. Silent(up'[s], t) => t \notin topics
      BY <1>2, <2>1, <2>4 DEF AgreedAt
    <3>q. QED  BY <1>1, <2>2, <3>1, <3>2 DEF AgreedAt
  <2>5. CASE m.topic = t /\ m.kind = "subscribe"
    <3>1. Silent(up'[s], t) => t \in topics \/ Dead(s, t)
      BY <1>2, <2>1, <2>5 DEF AgreedAt
    <3>2. << s, t >> \in subscriptions' => ~Dead(s, t)
      BY <1>5, <2>5 DEF Dead
    <3>3. << s, t >> \notin subscriptions' => Asking(s, t)' /\ endpoint'[s].at = "lookup"
      BY <1>4, <1>5, <2>5 DEF Asking
    <3>4. endpoint'[s].at # "found"
      BY <1>4
    <3>q. QED  BY <1>1, <1>7, <2>2, <3>1, <3>2, <3>3, <3>4 DEF AgreedAt
  <2>q. QED  BY <1>5, <2>3, <2>4, <2>5
<1>9. Running(s)'
  BY <1>4 DEF Running
<1>10. \A t \in Topics : Asking(s, t)' => << s, t >> \notin subscriptions'
  BY <1>4 DEF Asking
<1>11. \A t \in Topics : RejectedIn(down'[s], t) => Dead(s, t)'
  BY <1>0, <1>1, <1>7 DEF Lookups
<1>12. endpoint'[s].at \notin {"none", "accepting", "refused"}
  BY <1>4
<1>q. QED
  BY <1>1, <1>2, <1>4, <1>5, <1>6, <1>8, <1>9, <1>10, <1>11, <1>12, Serving

\* The topic is looked up, and the endpoint goes on with the answer.
LEMMA LookupKeeps ==
    ASSUME SocketInv, SocketTypeOK', NEW s \in Sockets, _resolve_vehicle_topic(s) \/ Resolved(s)
    PROVE  Links' /\ Endpoints' /\ Lookups' /\ Agreed'
<1>0. /\ Links /\ Endpoints /\ Lookups /\ Agreed /\ endpoint \in [Sockets -> Places]
      /\ down \in [Sockets -> Seq(Answers)] /\ active \subseteq Sockets
  BY DEF SocketInv, SocketTypeOK
<1>1. /\ endpoint[s].at \in {"lookup", "found", "refused"}
      /\ UNCHANGED << topics, ws, made, readyState, link, allowed, up, active >>
  BY DEF _resolve_vehicle_topic, Resolved, pageVars, linkVars
<1>t. PICK t0 \in Topics : t0 = endpoint[s].topic
  BY <1>0, <1>1 DEF Places
<1> DEFINE m == Message("subscribe_rejected", t0, 0)
<1>2. Asking(s, t0) /\ << s, t0 >> \notin subscriptions
  BY <1>0, <1>1, <1>t DEF Asking, Lookups
<1>3. m \in Answers /\ m.kind = "subscribe_rejected" /\ m.topic = t0
  BY DEF Message, Answers
<1>4. \/ /\ endpoint[s].at = "lookup" /\ endpoint' = [endpoint EXCEPT ![s] = At("found", t0)] /\ t0 \in allowed
         /\ UNCHANGED << subscriptions, down >>
      \/ /\ endpoint[s].at = "lookup" /\ endpoint' = [endpoint EXCEPT ![s] = At("refused", t0)] /\ t0 \notin allowed
         /\ UNCHANGED << subscriptions, down >>
      \/ /\ endpoint[s].at = "found" /\ endpoint' = [endpoint EXCEPT ![s] = Idle] /\ UNCHANGED down
         /\ subscriptions' = subscriptions \cup {<< s, t0 >>}
      \/ /\ endpoint[s].at = "refused" /\ endpoint' = [endpoint EXCEPT ![s] = Idle] /\ UNCHANGED subscriptions
         /\ down' = Told(down, {s} \cap active, m)
  BY <1>1, <1>t DEF _resolve_vehicle_topic, Resolved, Goes, linkVars
<1> HIDE DEF m
<1>5. s <= made /\ readyState[s] \notin {"none", "connecting"}
  <2>1. ~(s > made)
    BY <1>0, <1>1 DEF Links
  <2>q. QED  BY <1>0, <1>2, <2>1, Numbers DEF Endpoints, SocketInv
<1>6. \A t \in Topics : endpoint[s].topic = t <=> t = t0
  BY <1>t
<1>r. \A r \in Sockets : r # s => endpoint'[r] = endpoint[r]
  BY <1>0, <1>4
\* what each of the four does
<1>7. CASE endpoint[s].at = "lookup"
  <2>1. /\ UNCHANGED << subscriptions, down >>
        /\ endpoint'[s].topic = t0 /\ endpoint'[s].at = IF t0 \in allowed THEN "found" ELSE "refused"
    BY <1>0, <1>4, <1>7 DEF At
  <2>2. \A t \in Topics : Asking(s, t)' <=> Asking(s, t)
    BY <1>6, <1>7, <2>1 DEF Asking
  <2>3. \A t \in Topics : Dead(s, t) => Dead(s, t)'
    BY <1>1, <2>1 DEF Dead
  <2>4. ASSUME NEW t \in Topics, s \in active, Live(s)  PROVE AgreedAt(s, t)'
    <3>1. AgreedAt(s, t)
      BY <1>0, <2>4 DEF Agreed
    <3>2. endpoint'[s].at = "found" /\ endpoint'[s].topic = t =>
            endpoint[s].at = "lookup" /\ endpoint[s].topic = t /\ ~Dead(s, t)
      BY <1>6, <1>7, <2>1 DEF Dead
    <3>3. endpoint'[s].at # "lookup"
      BY <2>1
    <3>q. QED  BY <1>1, <2>1, <2>2, <2>3, <3>1, <3>2, <3>3 DEF AgreedAt
  <2>5. Running(s)' /\ endpoint'[s].at \notin {"none", "accepting"}
    BY <2>1 DEF Running
  <2>6. \A t \in Topics : RejectedIn(down'[s], t) => Dead(s, t)'
    BY <1>0, <2>1, <2>3 DEF Lookups
  <2>7. \A t \in Topics : Asking(s, t)' => << s, t >> \notin subscriptions'
    BY <1>0, <2>1, <2>2 DEF Lookups
  <2>8. \A t \in Topics : endpoint'[s].at = "refused" /\ endpoint'[s].topic = t => t \notin allowed
    BY <2>1
  <2>q. QED
    BY <1>1, <1>5, <1>r, <2>1, <2>4, <2>5, <2>6, <2>7, <2>8, Serving
<1>8. CASE endpoint[s].at \in {"found", "refused"}
  <2>1. endpoint'[s].at = "idle"
    BY <1>0, <1>4, <1>8 DEF Idle
  <2>2. \A t \in Topics : ~Asking(s, t)'
    BY <2>1 DEF Asking
  <2>3. Running(s)' /\ endpoint'[s].at \notin {"none", "accepting", "refused"}
    BY <2>1 DEF Running
  <2>4. CASE endpoint[s].at = "found"
    <3>1. UNCHANGED down /\ subscriptions' = subscriptions \cup {<< s, t0 >>}
      BY <1>4, <2>4
    <3>2. /\ \A r \in Sockets, t \in Topics : r # s => (<< r, t >> \in subscriptions' <=> << r, t >> \in subscriptions)
          /\ \A t \in Topics : << s, t >> \in subscriptions' <=> << s, t >> \in subscriptions \/ t = t0
      BY <3>1
    <3>3. \A t \in Topics : Dead(s, t) => Dead(s, t)'
      BY <1>1, <1>6, <2>1, <2>4, <3>2 DEF Dead
    <3>4. ASSUME NEW t \in Topics, s \in active, Live(s)  PROVE AgreedAt(s, t)'
      <4>1. AgreedAt(s, t)
        BY <1>0, <3>4 DEF Agreed
      <4>2. << s, t >> \in subscriptions' => << s, t >> \in subscriptions \/ (endpoint[s].at = "found" /\ endpoint[s].topic = t)
        BY <1>6, <2>4, <3>2
      <4>3. << s, t >> \notin subscriptions' => << s, t >> \notin subscriptions /\ ~Asking(s, t)
        BY <1>6, <3>2 DEF Asking
      <4>4. endpoint'[s].at \notin {"found", "lookup"}
        BY <2>1
      <4>q. QED  BY <1>1, <2>2, <3>1, <3>3, <4>1, <4>2, <4>3, <4>4 DEF AgreedAt
    <3>5. \A t \in Topics : RejectedIn(down'[s], t) => Dead(s, t)'
      BY <1>0, <3>1, <3>3 DEF Lookups
    <3>q. QED  BY <1>1, <1>5, <1>r, <2>2, <2>3, <3>1, <3>2, <3>4, <3>5, Serving
  <2>5. CASE endpoint[s].at = "refused"
    <3> DEFINE Z == {s} \cap active
    <3>1. UNCHANGED subscriptions /\ down' = Told(down, Z, m)
      BY <1>4, <2>5
    <3>z. \A r \in Sockets : r \in Z <=> r = s /\ s \in active
      OBVIOUS
    <3> HIDE DEF Z
    <3>2. /\ \A t \in Topics : RejectedIn(down'[s], t) <=> RejectedIn(down[s], t) \/ (t = t0 /\ s \in active /\ Linked(s))
          /\ ClosesFirst(down[s]) => ClosesFirst(down'[s])
          /\ ~Linked(s) => down'[s] = down[s]
      BY <1>0, <1>3, <3>1, <3>z, ToldFacts
    <3>3. \A r \in Sockets : r # s => down'[r] = down[r]
      BY <1>0, <1>3, <3>1, <3>z, ToldFacts
    <3>4. Dead(s, t0)' /\ \A t \in Topics : Dead(s, t) => Dead(s, t)'
      <4>1. t0 \notin allowed
        BY <1>0, <1>2, <1>6, <2>5 DEF Lookups
      <4>2. allowed' = allowed /\ subscriptions' = subscriptions /\ endpoint'[s].at # "found"
        BY <1>1, <2>1, <3>1
      <4>3. Dead(s, t0)'
        BY <1>2, <4>1, <4>2 DEF Dead
      <4>4. \A t \in Topics : Dead(s, t) => Dead(s, t)'
        BY <4>2 DEF Dead
      <4>q. QED  BY <4>3, <4>4
    <3>5. ASSUME NEW t \in Topics, s \in active, Live(s)  PROVE AgreedAt(s, t)'
      <4>1. AgreedAt(s, t)
        BY <1>0, <3>5 DEF Agreed
      <4>2. endpoint'[s].at \notin {"found", "lookup"}
        BY <2>1
      <4>3. CASE t = t0
        <5>1. RejectedIn(down'[s], t)
          BY <3>2, <3>5, <4>3 DEF Live
        <5>2. << s, t >> \notin subscriptions'
          BY <1>2, <3>1, <4>3
        <5>q. QED  BY <1>1, <3>4, <4>1, <4>2, <5>1, <5>2 DEF AgreedAt
      <4>4. CASE t # t0
        <5>1. ~Asking(s, t) /\ (RejectedIn(down'[s], t) <=> RejectedIn(down[s], t))
          BY <1>6, <3>2, <4>4 DEF Asking
        <5>q. QED  BY <1>1, <3>1, <3>4, <4>1, <4>2, <5>1 DEF AgreedAt
      <4>q. QED  BY <4>3, <4>4
    <3>6. \A t \in Topics : RejectedIn(down'[s], t) => Dead(s, t)'
      <4>1. \A t \in Topics : RejectedIn(down[s], t) => Dead(s, t)
        BY <1>0 DEF Lookups
      <4>q. QED  BY <3>2, <3>4, <4>1
    <3>q. QED  BY <1>1, <1>5, <1>r, <2>2, <2>3, <3>1, <3>2, <3>3, <3>5, <3>6, Serving
  <2>q. QED  BY <1>8, <2>4, <2>5
<1>q. QED  BY <1>1, <1>7, <1>8

\* A topic is withdrawn.
LEMMA WithdrawnKeeps ==
    ASSUME SocketInv, NEW t0 \in Topics, drop_topic(t0)
    PROVE  Links' /\ Endpoints' /\ Lookups' /\ Agreed'
<1> DEFINE m == Message("subscribe_rejected", t0, 0)
           Z == Subscribers(t0) \cap active
<1>0. /\ Links /\ Endpoints /\ Lookups /\ Agreed /\ down \in [Sockets -> Seq(Answers)]
      /\ active \subseteq Sockets /\ subscriptions \subseteq Sockets \X Topics
  BY DEF SocketInv, SocketTypeOK
<1>1. /\ allowed' = allowed \ {t0} /\ subscriptions' = { x \in subscriptions : x[2] # t0 } /\ down' = Told(down, Z, m)
      /\ UNCHANGED << topics, ws, made, readyState, up, link, endpoint, active >>
  BY DEF drop_topic, pageVars
<1>2. m \in Answers /\ m.kind = "subscribe_rejected" /\ m.topic = t0
  BY DEF Message, Answers
<1>3. \A r \in Sockets : r \in Z <=> << r, t0 >> \in subscriptions /\ r \in active
  <2>1. \A r : r \in Subscribers(t0) <=> \E x \in subscriptions : x[2] = t0 /\ r = x[1]
    BY DEF Subscribers
  <2>2. \A x \in subscriptions : x = << x[1], x[2] >>
    BY <1>0
  <2>q. QED  BY <2>1, <2>2
<1> HIDE DEF m, Z
<1>4. /\ \A r \in Sockets, t \in Topics :
           RejectedIn(down'[r], t) <=> RejectedIn(down[r], t) \/ (t = t0 /\ r \in Z /\ Linked(r))
      /\ \A r \in Sockets : ClosesFirst(down[r]) => ClosesFirst(down'[r])
      /\ \A r \in Sockets : ~Linked(r) \/ r \notin Z => down'[r] = down[r]
  BY <1>0, <1>1, <1>2, ToldFacts
<1>5. /\ \A r \in Sockets, t \in Topics : << r, t >> \in subscriptions' <=> << r, t >> \in subscriptions /\ t # t0
      /\ subscriptions' \subseteq subscriptions
  BY <1>1
<1>6. \A r \in Sockets, t \in Topics : Dead(r, t) => Dead(r, t)'
  BY <1>1, <1>5 DEF Dead
<1>7. Links'
  BY <1>0, <1>1, <1>4 DEF Links, Linked
<1>8. Endpoints'
  <2>1. ASSUME NEW r \in Sockets, endpoint[r].at \in {"none", "accepting"}  PROVE down'[r] = down[r]
    <3>1. r \notin active
      BY <1>0, <2>1 DEF Endpoints, Running
    <3>q. QED  BY <1>3, <1>4, <3>1
  <2>q. QED  BY <1>0, <1>1, <1>5, <2>1 DEF Endpoints, SubscriptionHasEndpoint, Running, Asking, Linked
<1>9. Lookups'
  <2>1. ASSUME NEW r \in Sockets, NEW t \in Topics
        PROVE  /\ Asking(r, t)' => << r, t >> \notin subscriptions'
               /\ endpoint'[r].at = "refused" /\ endpoint'[r].topic = t => t \notin allowed'
               /\ RejectedIn(down'[r], t) => Dead(r, t)'
    <3>1. Asking(r, t)' => << r, t >> \notin subscriptions'
      BY <1>0, <1>1, <1>5 DEF Lookups, Asking
    <3>2. endpoint'[r].at = "refused" /\ endpoint'[r].topic = t => t \notin allowed'
      BY <1>0, <1>1 DEF Lookups
    <3>3. r \in Z => Dead(r, t0)'
      <4>1. << r, t0 >> \in subscriptions => ~Asking(r, t0)
        BY <1>0 DEF Lookups
      <4>q. QED  BY <1>1, <1>3, <1>5, <4>1 DEF Dead, Asking
    <3>4. RejectedIn(down[r], t) => Dead(r, t)'
      BY <1>0, <1>6 DEF Lookups
    <3>q. QED  BY <1>4, <3>1, <3>2, <3>3, <3>4
  <2>q. QED  BY <2>1 DEF Lookups
<1>10. Agreed'
  <2>1. ASSUME NEW r \in active', NEW t \in Topics, Live(r)'  PROVE AgreedAt(r, t)'
    <3>1. r \in active /\ r \in Sockets /\ Live(r) /\ Linked(r)
      BY <1>0, <1>1, <2>1 DEF Live, Linked
    <3>2. AgreedAt(r, t)
      BY <1>0, <3>1 DEF Agreed
    <3>3. << r, t >> \notin subscriptions' => << r, t >> \notin subscriptions \/ RejectedIn(down'[r], t)
      BY <1>3, <1>4, <1>5, <3>1
    <3>4. RejectedIn(down[r], t) => RejectedIn(down'[r], t)
      BY <1>4, <3>1
    <3>q. QED  BY <1>1, <1>5, <1>6, <3>1, <3>2, <3>3, <3>4 DEF AgreedAt, Asking
  <2>q. QED  BY <2>1 DEF Agreed
<1>q. QED  BY <1>7, <1>8, <1>9, <1>10

\* The steps that take sockets out of the table: an endpoint ends, a topic is sent, a logout.
LEMMA LeavingKeeps ==
    ASSUME SocketInv, disconnect_user \/ (\E s \in Sockets : EndpointEnds(s)) \/ \E t \in Topics : TickSends(t)
    PROVE  Links' /\ Endpoints' /\ Lookups' /\ Agreed'
<1>0. /\ SocketTypeOK /\ Links /\ Endpoints /\ Lookups /\ Agreed /\ active \in SUBSET Sockets
      /\ endpoint \in [Sockets -> Places]
  BY DEF SocketInv, SocketTypeOK
<1>d. down \in [Sockets -> Seq(Answers)]
  BY DEF SocketInv, SocketTypeOK
\* disconnect(), of sockets whose endpoint goes on or ends
<1>1. ASSUME NEW X \in SUBSET Sockets, NEW c \in Int, disconnect(X, c, down),
             UNCHANGED << topics, ws, made, readyState, up, link, allowed >>,
             \A r \in Sockets : \/ endpoint'[r] = endpoint[r]
                                \/ r \in X /\ endpoint[r].at = "idle" /\ endpoint'[r].at = "gone"
      PROVE  Links' /\ Endpoints' /\ Lookups' /\ Agreed'
  <2>1. active' = active \ X
    BY <1>0, <1>1, <1>d, Disconnects
  <2>2. \A r \in Sockets, u \in Topics : << r, u >> \in subscriptions' <=> << r, u >> \in subscriptions /\ r \notin X
    BY <1>0, <1>1, <1>d, Disconnects
  <2>3. \A x \in subscriptions' : x \in subscriptions /\ x[1] \notin X
    BY <1>0, <1>1, <1>d, Disconnects
  <2>4. \A r \in Sockets, u \in Topics : RejectedIn(down'[r], u) <=> RejectedIn(down[r], u)
    BY <1>0, <1>1, <1>d, Disconnects
  <2>5. \A r \in Sockets : ClosesFirst(down[r]) => ClosesFirst(down'[r])
    BY <1>0, <1>1, <1>d, Disconnects
  <2>6. \A r \in Sockets : ~Linked(r) \/ r \notin active => down'[r] = down[r]
    BY <1>1, <1>d, DisconnectsQuietly
  <2>q. QED  BY <1>1, <2>1, <2>2, <2>3, <2>4, <2>5, <2>6, Dropping
<1>2. ASSUME NEW s \in Sockets, EndpointEnds(s)  PROVE Links' /\ Endpoints' /\ Lookups' /\ Agreed'
  <2>1. PICK c \in {Normal, Policy} : disconnect({s}, c, down)
    BY <1>2 DEF EndpointEnds
  <2>2. c \in Int /\ {s} \in SUBSET Sockets
    BY DEF Normal, Policy
  <2>3. /\ endpoint[s].at = "idle" /\ endpoint' = [endpoint EXCEPT ![s] = At("gone", <<>>)]
        /\ UNCHANGED << topics, ws, made, readyState, up, link, allowed >>
    BY <1>2 DEF EndpointEnds, Goes, Idle, pageVars
  <2>4. endpoint'[s].at = "gone" /\ \A r \in Sockets : r # s => endpoint'[r] = endpoint[r]
    BY <1>0, <2>3 DEF At
  <2>q. QED  BY <1>1, <2>1, <2>2, <2>3, <2>4
<1>3. CASE disconnect_user
  <2>1. disconnect(active, Policy, down) /\ Policy \in Int
    BY <1>3 DEF disconnect_user, Policy
  <2>2. UNCHANGED << topics, ws, made, readyState, up, link, allowed, endpoint >>
    BY <1>3 DEF disconnect_user, pageVars
  <2>q. QED  BY <1>0, <1>1, <2>1, <2>2
<1>4. ASSUME NEW t \in Topics, TickSends(t)  PROVE Links' /\ Endpoints' /\ Lookups' /\ Agreed'
  <2>1. UNCHANGED << topics, ws, made, readyState, up, link, allowed, endpoint >>
    BY <1>4 DEF TickSends, pageVars
  <2>2. CASE UNCHANGED << active, subscriptions, down >>
    BY <1>0, <2>1, <2>2
    DEF Links, Endpoints, Lookups, Agreed, AgreedAt, Live, Linked, Running, Asking, Dead, SubscriptionHasEndpoint
  <2>3. CASE Broadcast(t, Message("update", t, built[t]))
    <3>1. built[t] \in Int
      BY DEF SocketInv, SocketTypeOK
    <3>2. PICK X \in SUBSET active :
           /\ active' = active \ X
           /\ \A r \in Sockets, u \in Topics : << r, u >> \in subscriptions' <=> << r, u >> \in subscriptions /\ r \notin X
           /\ \A x \in subscriptions' : x \in subscriptions /\ x[1] \notin X
           /\ \A r \in Sockets, u \in Topics : RejectedIn(down'[r], u) <=> RejectedIn(down[r], u)
           /\ \A r \in Sockets : ClosesFirst(down[r]) => ClosesFirst(down'[r])
           /\ \A r \in Sockets : ~Linked(r) \/ r \notin active => down'[r] = down[r]
      BY <1>0, <2>3, <3>1, Broadcasts
    <3>3. X \in SUBSET Sockets
      BY <1>0
    <3>q. QED  BY <2>1, <3>2, <3>3, Dropping
  <2>q. QED  BY <1>4, <2>2, <2>3 DEF TickSends
<1>q. QED  BY <1>2, <1>3, <1>4

\* The other steps change nothing the invariant is about.
LEMMA OthersKeep ==
    ASSUME SocketInv, TickBegins \/ SessionExpires \/ (\E t \in Topics : PayloadChanges(t)) \/ UNCHANGED socketVars
    PROVE  Links' /\ Endpoints' /\ Lookups' /\ Agreed'
<1>1. UNCHANGED << topics, ws, made, readyState, up, down, link, endpoint, active, subscriptions, allowed >>
  BY DEF TickBegins, PayloadChanges, SessionExpires, socketVars, pageVars, linkVars, serverVars
<1>q. QED
  BY <1>1 DEF SocketInv, Links, Endpoints, Lookups, Agreed, AgreedAt, Live, Linked, Running, Asking, Dead, SubscriptionHasEndpoint

-----------------------------------------------------------------------------
\* The page's socket, its endpoint and what is on its way between them belong together in every
\* reachable state (base.html, ws.py, websocket_manager.py).
THEOREM SocketInvariance == SocketSpec => []SocketInv
<1>1. SocketInit => SocketInv
  <2> SUFFICES ASSUME SocketInit  PROVE SocketInv
    OBVIOUS
  <2>0. /\ topics = {} /\ ws = 0 /\ made = 0 /\ active = {} /\ subscriptions = {} /\ allowed = Topics
        /\ readyState = [s \in Sockets |-> "none"] /\ link = [s \in Sockets |-> "none"]
        /\ up = [s \in Sockets |-> <<>>] /\ down = [s \in Sockets |-> <<>>]
        /\ endpoint = [s \in Sockets |-> NoEndpoint]
        /\ built = [t \in Topics |-> -1] /\ payload = [t \in Topics |-> 0]
    BY DEF SocketInit
  <2>1. SocketTypeOK
    <3>1. NoEndpoint \in Places
      BY DEF NoEndpoint, Places
    <3>2. 0 \in 0..MaxSockets
      BY BrowserSocketAssumption
    <3>q. QED  BY <2>0, <3>1, <3>2, ShortQueues DEF SocketTypeOK
  <2>2. \A s \in Sockets : /\ readyState[s] = "none" /\ link[s] = "none" /\ up[s] = <<>> /\ down[s] = <<>>
                           /\ endpoint[s].at = "none" /\ ~(s <= made)
    BY <2>0, Numbers, BrowserSocketAssumption DEF NoEndpoint, Sockets
  <2>3. Links
    BY <2>0, <2>2 DEF Links
  <2>4. Endpoints
    BY <2>0, <2>2, ShortQueues DEF Endpoints, SubscriptionHasEndpoint, Asking, Linked
  <2>5. Lookups
    BY <2>2, ShortQueues DEF Lookups, Asking
  <2>6. Agreed
    BY <2>0 DEF Agreed
  <2>q. QED  BY <2>1, <2>3, <2>4, <2>5, <2>6 DEF SocketInv
<1>2. SocketInv /\ [SocketNext]_socketVars => SocketInv'
  <2> SUFFICES ASSUME SocketInv, [SocketNext]_socketVars  PROVE SocketInv'
    OBVIOUS
  <2>1. SocketTypeOK'
    BY SocketTypesKeep DEF SocketInv
  <2>2. Links' /\ Endpoints' /\ Lookups' /\ Agreed'
    <3>1. ASSUME NEW t \in Topics, subscribe(t) \/ unsubscribe(t)  PROVE Links' /\ Endpoints' /\ Lookups' /\ Agreed'
      BY <3>1, AsksKeep
    <3>2. ASSUME NEW t \in Topics, drop_topic(t)  PROVE Links' /\ Endpoints' /\ Lookups' /\ Agreed'
      BY <3>2, WithdrawnKeeps
    <3>3. CASE TimerFires \/ visibilitychange \/ pageshow
      BY <3>3, ReconnectKeeps
    <3>4. ASSUME NEW s \in Sockets, onopen(s)  PROVE Links' /\ Endpoints' /\ Lookups' /\ Agreed'
      BY <3>4, OpenKeeps
    <3>5. ASSUME NEW s \in Sockets, onmessage(s)  PROVE Links' /\ Endpoints' /\ Lookups' /\ Agreed'
      BY <3>5, MessageKeeps
    <3>6. CASE pagehide \/ \E s \in Sockets : CloseBegins(s) \/ onclose(s) \/ LoseLink(s)
      BY <3>6, EndingKeeps
    <3>7. ASSUME NEW s \in Sockets, _authenticate_websocket(s) \/ Accept(s)
          PROVE  Links' /\ Endpoints' /\ Lookups' /\ Agreed'
      BY <2>1, <3>7, HandshakeKeeps
    <3>8. ASSUME NEW s \in Sockets, Receive(s)  PROVE Links' /\ Endpoints' /\ Lookups' /\ Agreed'
      BY <2>1, <3>8, ReceiveKeeps
    <3>9. ASSUME NEW s \in Sockets, _resolve_vehicle_topic(s) \/ Resolved(s)
          PROVE  Links' /\ Endpoints' /\ Lookups' /\ Agreed'
      BY <2>1, <3>9, LookupKeeps
    <3>10. CASE disconnect_user \/ (\E s \in Sockets : EndpointEnds(s)) \/ \E t \in Topics : TickSends(t)
      BY <3>10, LeavingKeeps
    <3>11. CASE TickBegins \/ SessionExpires \/ (\E t \in Topics : PayloadChanges(t)) \/ UNCHANGED socketVars
      BY <3>11, OthersKeep
    <3>q. QED
      BY <3>1, <3>2, <3>3, <3>4, <3>5, <3>6, <3>7, <3>8, <3>9, <3>10, <3>11 DEF SocketNext, PageSteps, EndpointSteps
  <2>q. QED  BY <2>1, <2>2 DEF SocketInv
<1>q. QED  BY <1>1, <1>2, PTL DEF SocketSpec

\* Every subscription belongs to an endpoint that still runs, whoever removed its socket and
\* whatever it was looking up then (websocket_manager.py:216).
THEOREM SubscribersServed == SocketSpec => []SubscriptionHasEndpoint
<1>1. SocketInv => SubscriptionHasEndpoint
  BY DEF SocketInv, Endpoints
<1>q. QED  BY <1>1, SocketInvariance, PTL

\* Once a page and its open socket have handled every message between them, the server's table
\* has exactly the topics the page has handlers for (base.html and ws.py).
THEOREM TablesAgree == SocketSpec => []ClientServerAgree
<1>1. SocketInv => ClientServerAgree
  <2> SUFFICES ASSUME SocketInv, NEW s \in active,
                      s = ws /\ readyState[s] = "open" /\ link[s] = "up",
                      up[s] = <<>> /\ down[s] = <<>> /\ endpoint[s] = Idle
               PROVE  { t \in Topics : << s, t >> \in subscriptions } = topics
    BY DEF ClientServerAgree
  <2>1. topics \subseteq Topics
    BY DEF SocketInv, SocketTypeOK
  <2>2. \A t : Silent(up[s], t) /\ ~RejectedIn(down[s], t)
    BY ShortQueues
  <2>3. ASSUME NEW t \in Topics  PROVE << s, t >> \in subscriptions <=> t \in topics
    <3>1. AgreedAt(s, t)
      BY DEF SocketInv, Agreed, Live, Linked
    <3>2. ~Asking(s, t)
      BY DEF Asking, Idle
    <3>q. QED  BY <2>2, <3>1, <3>2 DEF AgreedAt
  <2>q. QED  BY <2>1, <2>3
<1>q. QED  BY <1>1, SocketInvariance, PTL
=============================================================================
