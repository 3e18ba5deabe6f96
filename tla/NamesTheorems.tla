--------------------------- MODULE NamesTheorems ----------------------------
(***************************************************************************)
(* The lobby.  The final hands are read as they were written: when the     *)
(* last player has stood, the list of names that followed the last         *)
(* newcomer has been sent to everybody, ahead of the hands.  The argument  *)
(* is the order of the packets in one queue: an answer comes behind the    *)
(* name of its client.  And a game starts, until somebody restarts, only   *)
(* when everybody seated has agreed: the messages the server counts are    *)
(* then as many as the players that sent them.  At a table that nobody     *)
(* joins late that holds of every game, and the question that ends a game  *)
(* finds cin in order: the argument is the order in which a client gets    *)
(* the lists of names, the turns and the ends of the games.                *)
(***************************************************************************)
EXTENDS TableTheorems, FiniteSetTheorems

\* A message of X comes only behind one of Y.
Before(q, X, Y) ==
  \A k \in DOMAIN q : q[k] \in X => \E j \in 1..(k - 1) : q[j] \in Y

\* The queue q, and what is behind it in r.
Extends(q, r) == Len(q) <= Len(r) /\ \A j \in 1..Len(q) : r[j] = q[j]

-----------------------------------------------------------------------------
(* What is before what in a queue.                                         *)

LEMMA BeforeTail ==
  ASSUME NEW S, NEW q \in Seq(S), q # << >>, NEW X, NEW Y, Before(q, X, Y), Head(q) \notin Y
  PROVE  Head(q) \notin X /\ Before(Tail(q), X, Y)
<1>1. /\ Len(q) \in Nat /\ Len(q) >= 1 /\ DOMAIN q = 1..Len(q) /\ q[1] = Head(q)
      /\ DOMAIN Tail(q) = 1..(Len(q) - 1)
      /\ \A i \in 1..(Len(q) - 1) : Tail(q)[i] = q[i + 1]
  BY EmptySeq, LenProperties, HeadTailProperties
<1>2. Head(q) \notin X
  BY <1>1 DEF Before
<1>3. ASSUME NEW k \in 1..(Len(q) - 1), Tail(q)[k] \in X
      PROVE  \E j \in 1..(k - 1) : Tail(q)[j] \in Y
  <2>1. k + 1 \in 1..Len(q) /\ q[k + 1] \in X
    BY <1>1, <1>3
  <2>2. PICK i \in 1..(k + 1 - 1) : q[i] \in Y
    BY <1>1, <2>1 DEF Before
  <2>3. i # 1
    BY <1>1, <2>2
  <2>4. i - 1 \in 1..(k - 1) /\ Tail(q)[i - 1] = q[i]
    BY <1>1, <2>2, <2>3
  <2>5. QED
    BY <2>2, <2>4
<1>4. QED
  BY <1>1, <1>2, <1>3 DEF Before

LEMMA BeforeExtends ==
  ASSUME NEW S, NEW q \in Seq(S), NEW r \in Seq(S), Extends(q, r), NEW X, NEW Y,
         Before(q, X, Y),
         \A k \in (Len(q) + 1)..Len(r) : r[k] \in X => At(q, Y) # {}
  PROVE  Before(r, X, Y)
<1>1. /\ Len(q) \in Nat /\ Len(r) \in Nat /\ DOMAIN q = 1..Len(q) /\ DOMAIN r = 1..Len(r)
      /\ Len(q) <= Len(r) /\ \A j \in 1..Len(q) : r[j] = q[j]
  BY LenProperties DEF Extends
<1>2. ASSUME NEW k \in 1..Len(r), r[k] \in X PROVE \E j \in 1..(k - 1) : r[j] \in Y
  <2>1. CASE k <= Len(q)
    <3>1. k \in 1..Len(q) /\ q[k] \in X
      BY <1>1, <1>2, <2>1
    <3>2. PICK j \in 1..(k - 1) : q[j] \in Y
      BY <1>1, <3>1 DEF Before
    <3>3. j \in 1..Len(q)
      BY <1>1, <2>1
    <3>4. QED
      BY <1>1, <3>2, <3>3
  <2>2. CASE k > Len(q)
    <3>1. At(q, Y) # {}
      BY <1>1, <1>2, <2>2
    <3>2. PICK j \in 1..Len(q) : q[j] \in Y
      BY <1>1, <3>1 DEF At
    <3>3. j \in 1..(k - 1)
      BY <1>1, <2>2
    <3>4. QED
      BY <1>1, <3>2, <3>3
  <2>3. QED
    BY <1>1, <2>1, <2>2
<1>3. QED
  BY <1>1, <1>2 DEF Before

LEMMA AtExtends ==
  ASSUME NEW S, NEW q \in Seq(S), NEW r \in Seq(S), Extends(q, r), NEW Y, At(q, Y) # {}
  PROVE  At(r, Y) # {}
<1>1. /\ Len(q) \in Nat /\ Len(r) \in Nat /\ DOMAIN q = 1..Len(q) /\ DOMAIN r = 1..Len(r)
      /\ Len(q) <= Len(r) /\ \A j \in 1..Len(q) : r[j] = q[j]
  BY LenProperties DEF Extends
<1>2. PICK j \in 1..Len(q) : q[j] \in Y
  BY <1>1 DEF At
<1>3. j \in 1..Len(r) /\ r[j] \in Y
  BY <1>1, <1>2
<1>4. QED
  BY <1>1, <1>3 DEF At

LEMMA BeforeSubSeq ==
  ASSUME NEW S, NEW q \in Seq(S), NEW n \in 0..Len(q), NEW X, NEW Y, Before(q, X, Y)
  PROVE  Before(SubSeq(q, 1, n), X, Y)
<1>1. /\ Len(q) \in Nat /\ DOMAIN q = 1..Len(q)
      /\ DOMAIN SubSeq(q, 1, n) = 1..n
      /\ \A i \in 1..n : SubSeq(q, 1, n)[i] = q[i]
  BY LenProperties, SubSeqProperties
<1>2. ASSUME NEW k \in 1..n, SubSeq(q, 1, n)[k] \in X
      PROVE  \E j \in 1..(k - 1) : SubSeq(q, 1, n)[j] \in Y
  <2>1. k \in DOMAIN q /\ q[k] \in X
    BY <1>1, <1>2
  <2>2. PICK j \in 1..(k - 1) : q[j] \in Y
    BY <2>1 DEF Before
  <2>3. j \in 1..n
    OBVIOUS
  <2>4. QED
    BY <1>1, <2>2, <2>3
<1>3. QED
  BY <1>1, <1>2 DEF Before

LEMMA AppendExtends ==
  ASSUME NEW S, NEW q \in Seq(S), NEW m \in S
  PROVE  /\ Append(q, m) \in Seq(S) /\ Extends(q, Append(q, m))
         /\ Len(Append(q, m)) = Len(q) + 1
         /\ \A k \in (Len(q) + 1)..Len(Append(q, m)) : Append(q, m)[k] = m
<1>1. /\ Len(q) \in Nat /\ Append(q, m) \in Seq(S)
      /\ Len(Append(q, m)) = Len(q) + 1
      /\ \A i \in 1..Len(q) : Append(q, m)[i] = q[i]
      /\ Append(q, m)[Len(q) + 1] = m
  BY LenProperties, AppendProperties
<1>2. \A k \in (Len(q) + 1)..(Len(q) + 1) : k = Len(q) + 1
  BY <1>1
<1>3. QED
  BY <1>1, <1>2 DEF Extends

LEMMA ConcatExtends ==
  ASSUME NEW S, NEW q \in Seq(S), NEW r \in Seq(S)
  PROVE  /\ q \o r \in Seq(S) /\ Extends(q, q \o r)
         /\ Len(q \o r) = Len(q) + Len(r)
         /\ \A k \in (Len(q) + 1)..Len(q \o r) :
              k - Len(q) \in 1..Len(r) /\ (q \o r)[k] = r[k - Len(q)]
<1>1. /\ Len(q) \in Nat /\ Len(r) \in Nat /\ q \o r \in Seq(S)
      /\ Len(q \o r) = Len(q) + Len(r)
      /\ \A k \in 1..(Len(q) + Len(r)) :
           (q \o r)[k] = IF k <= Len(q) THEN q[k] ELSE r[k - Len(q)]
  BY LenProperties, ConcatProperties
<1>2. QED
  BY <1>1 DEF Extends

-----------------------------------------------------------------------------
(* The number of players a client knows.                                   *)

Counts(m) == m.type \in {"CURRENT_PLAYERS", "JOINED_GAME"}

\* A client that starts with n0 and has received what comes before place k of
\* the queue q knows the number n.
Known(q, n0, k, n) ==
  \E j \in 0..(k - 1) : /\ IF j = 0 THEN n0 = n ELSE Counts(q[j]) /\ q[j].n = n
                        /\ \A l \in (j + 1)..(k - 1) : ~Counts(q[l])

LEMMA KnownTail ==
  ASSUME NEW S, NEW q \in Seq(S), q # << >>, NEW n0, NEW n1, NEW n, NEW k \in 1..Len(q),
         Known(q, n0, k + 1, n), n1 = IF Counts(Head(q)) THEN Head(q).n ELSE n0
  PROVE  Known(Tail(q), n1, k, n)
<1>1. /\ Len(q) \in Nat /\ Len(q) >= 1 /\ q[1] = Head(q)
      /\ \A i \in 1..(Len(q) - 1) : Tail(q)[i] = q[i + 1]
  BY EmptySeq, LenProperties, HeadTailProperties
<1>2. PICK j \in 0..k : /\ IF j = 0 THEN n0 = n ELSE Counts(q[j]) /\ q[j].n = n
                        /\ \A l \in (j + 1)..k : ~Counts(q[l])
  <2>1. k + 1 - 1 = k
    OBVIOUS
  <2>2. QED
    BY <2>1 DEF Known
<1>3. ASSUME NEW l \in 1..(k - 1), l + 1 > j PROVE ~Counts(Tail(q)[l])
  <2>1. l + 1 \in (j + 1)..k /\ l \in 1..(Len(q) - 1)
    BY <1>1, <1>3
  <2>2. QED
    BY <1>1, <1>2, <2>1
<1>4. CASE j <= 1
  <2>1. n1 = n
    <3>1. CASE j = 0
      <4>1. 1 \in (j + 1)..k
        BY <3>1
      <4>2. QED
        BY <1>1, <1>2, <3>1, <4>1
    <3>2. CASE j = 1
      BY <1>1, <1>2, <3>2
    <3>3. QED
      BY <1>4, <3>1, <3>2
  <2>2. \A l \in (0 + 1)..(k - 1) : ~Counts(Tail(q)[l])
    BY <1>3, <1>4
  <2>3. 0 \in 0..(k - 1)
    OBVIOUS
  <2>4. QED
    BY <2>1, <2>2, <2>3 DEF Known
<1>5. CASE j > 1
  <2>1. PICK i \in 1..(k - 1) : i = j - 1
    BY <1>5
  <2>2. i \in 1..(Len(q) - 1) /\ i + 1 = j /\ i # 0 /\ i \in 0..(k - 1) /\ j # 0
    BY <1>1, <1>5, <2>1
  <2>3. Counts(Tail(q)[i]) /\ Tail(q)[i].n = n
    BY <1>1, <1>2, <2>2
  <2>4. ASSUME NEW l \in (i + 1)..(k - 1) PROVE ~Counts(Tail(q)[l])
    <3>1. l \in 1..(k - 1) /\ l + 1 > j
      BY <2>2
    <3>2. QED
      BY <1>3, <3>1
  <2>5. QED
    BY <2>2, <2>3, <2>4 DEF Known
<1>6. QED
  BY <1>4, <1>5

LEMMA KnownSame ==
  ASSUME NEW q, NEW r, NEW n0, NEW n, NEW k \in Nat, Known(q, n0, k, n),
         \A l \in 1..(k - 1) : r[l] = q[l]
  PROVE  Known(r, n0, k, n)
<1>1. PICK j \in 0..(k - 1) : /\ IF j = 0 THEN n0 = n ELSE Counts(q[j]) /\ q[j].n = n
                              /\ \A l \in (j + 1)..(k - 1) : ~Counts(q[l])
  BY DEF Known
<1>2. j # 0 => r[j] = q[j]
  OBVIOUS
<1>3. \A l \in (j + 1)..(k - 1) : r[l] = q[l]
  OBVIOUS
<1>4. QED
  BY <1>1, <1>2, <1>3 DEF Known

\* What does not count leaves the number alone.
LEMMA KnownOn ==
  ASSUME NEW q, NEW n0, NEW n, NEW k \in Nat, NEW m \in Nat, k <= m, Known(q, n0, k, n),
         \A l \in k..(m - 1) : ~Counts(q[l])
  PROVE  Known(q, n0, m, n)
<1>1. PICK j \in 0..(k - 1) : /\ IF j = 0 THEN n0 = n ELSE Counts(q[j]) /\ q[j].n = n
                              /\ \A l \in (j + 1)..(k - 1) : ~Counts(q[l])
  BY DEF Known
<1>2. j \in 0..(m - 1)
  OBVIOUS
<1>3. \A l \in (j + 1)..(m - 1) : l \in (j + 1)..(k - 1) \/ l \in k..(m - 1)
  OBVIOUS
<1>4. QED
  BY <1>1, <1>2, <1>3 DEF Known

LEMMA KnownLast ==
  ASSUME NEW q, NEW n0, NEW n, NEW k \in Nat \ {0}, Counts(q[k]), q[k].n = n
  PROVE  Known(q, n0, k + 1, n)
<1>1. k \in 0..(k + 1 - 1) /\ \A l \in (k + 1)..(k + 1 - 1) : ~Counts(q[l])
  OBVIOUS
<1>2. QED
  BY <1>1 DEF Known

-----------------------------------------------------------------------------
(* What a client has been told, and where its name is.                     *)

Greeting == {Plain("ACCEPTED")}
NameSent(d) == At(toServer[d], {"PLAYERNAME"}) # {}

\* The server has the name of client d still before it: an answer of d comes
\* behind the name, and what is to be sent waits for what was received.
NameComes(d) ==
  /\ Before(toServer[d], AnswerMessage, {"PLAYERNAME"})
  /\ ~NameSent(d) => /\ conn[d] = "on" => At(toClient[d], Greeting) # {}
                     /\ pc[d] # "move"
                     /\ Before(toClient[d], AskMessage, Greeting)

\* When client d has received all there is, it knows how many players are.
Told(d) == Known(toClient[d], numPlayers[d], Len(toClient[d]) + 1, Len(players))
AllTold == \A d \in Clients : d \in Seated /\ conn[d] = "on" => Told(d)

\* The hands on their way are as many as the client will know when it comes
\* to read them.
HandsKnown(d) ==
  \A k \in DOMAIN toClient[d] :
    toClient[d][k].type = "CARDS_STRING"
      => Known(toClient[d], numPlayers[d], k, toClient[d][k].n)

Newest(d) == players # << >> /\ players[Len(players)].client = d

\* A connection is announced ahead of everything else.
AnnouncedFirst(d) ==
  /\ conn[d] = "off" => toServer[d] = << >> /\ pc[d] = "off"
  /\ \A k \in Announced(d) : k = 1
  /\ Announced(d) # {} => NameComes(d)

NamesInv ==
  /\ \A d \in Clients : AnnouncedFirst(d) /\ HandsKnown(d)
  /\ \A d \in Clients : Newest(d) => AllTold \/ NameComes(d)
  /\ serverPc = "dealer" => AllTold

-----------------------------------------------------------------------------
(* What a step does to the two queues of a client.                         *)

\* The server sends to d, or does not.
Grows(d) ==
  /\ Extends(toClient[d], toClient'[d])
  /\ conn[d] = "on" \/ toClient'[d] = toClient[d]

New(d) == (Len(toClient[d]) + 1)..Len(toClient'[d])

\* d receives a message, and counts.
Takes(d) ==
  /\ toClient[d] # << >> /\ toClient'[d] = Tail(toClient[d])
  /\ numPlayers'[d] = IF Counts(Head(toClient[d])) THEN Head(toClient[d]).n
                      ELSE numPlayers[d]

\* d sends something, or not; the server receives something of it, but no name.
Uploads(d) ==
  \/ toServer'[d] = toServer[d]
  \/ \E m \in UpMessage : /\ toServer'[d] = Append(toServer[d], m)
                          /\ m \in AnswerMessage => NameSent(d)
Downs(d) ==
  /\ toServer[d] # << >> /\ Head(toServer[d]) # "PLAYERNAME"
  /\ toServer'[d] = Tail(toServer[d])

LEMMA NewNone ==
  ASSUME NetTypeOK, NEW d \in Clients, toClient'[d] = toClient[d]
  PROVE  Grows(d) /\ New(d) = {}
<1>1. toClient[d] \in Seq(DownMessage) /\ Len(toClient[d]) \in Nat
  BY LenProperties DEF NetTypeOK
<1>2. QED
  BY <1>1 DEF Grows, New, Extends

LEMMA SentGrows ==
  ASSUME NetTypeOK, NEW S, NEW m \in DownMessage, toClient' = Sent(S, m), NEW d \in Clients
  PROVE  /\ Grows(d) /\ \A k \in New(d) : toClient'[d][k] = m
         /\ d \in S /\ conn[d] = "on" => Len(toClient'[d]) = Len(toClient[d]) + 1
<1>1. toClient[d] \in Seq(DownMessage)
  BY DEF NetTypeOK
<1>2. CASE d \in S /\ conn[d] = "on"
  <2>1. toClient'[d] = Append(toClient[d], m)
    BY <1>2 DEF Sent
  <2>2. QED
    BY <1>1, <1>2, <2>1, AppendExtends DEF Grows, New
<1>3. CASE ~(d \in S /\ conn[d] = "on")
  <2>1. toClient'[d] = toClient[d]
    BY <1>3 DEF Sent
  <2>2. QED
    BY <1>3, <2>1, NewNone
<1>4. QED
  BY <1>2, <1>3

LEMMA HandsKnownGrows ==
  ASSUME NetTypeOK, NetTypeOK', NEW d \in Clients, HandsKnown(d), Grows(d),
         numPlayers'[d] = numPlayers[d],
         \A k \in New(d) : toClient'[d][k].type = "CARDS_STRING" =>
           Known(toClient[d], numPlayers[d], Len(toClient[d]) + 1, toClient'[d][k].n)
           /\ k = Len(toClient[d]) + 1
  PROVE  HandsKnown(d)'
<1> DEFINE q == toClient[d]
           r == toClient'[d]
           n0 == numPlayers[d]
<1>1. q \in Seq(DownMessage) /\ r \in Seq(DownMessage) /\ Extends(q, r)
  BY DEF NetTypeOK, Grows
<1> SUFFICES ASSUME NEW k \in DOMAIN r, r[k].type = "CARDS_STRING"
             PROVE  Known(r, n0, k, r[k].n)
  BY DEF HandsKnown
<1>2. HandsKnown(d) /\ (k \in New(d) => /\ Known(q, n0, Len(q) + 1, r[k].n)
                                        /\ k = Len(q) + 1)
  OBVIOUS
<1>3. \A i \in DOMAIN q : q[i].type = "CARDS_STRING" => Known(q, n0, i, q[i].n)
  BY <1>2 DEF HandsKnown
<1>4. New(d) = (Len(q) + 1)..Len(r)
  BY DEF New
<1> HIDE DEF q, r, n0
<1>5. /\ Len(q) \in Nat /\ Len(r) \in Nat /\ DOMAIN q = 1..Len(q) /\ DOMAIN r = 1..Len(r)
      /\ \A j \in 1..Len(q) : r[j] = q[j]
  BY <1>1, LenProperties DEF Extends
<1>6. CASE k <= Len(q)
  <2>1. k \in 1..Len(q) /\ k \in Nat /\ r[k] = q[k] /\ \A l \in 1..(k - 1) : r[l] = q[l]
    BY <1>5, <1>6
  <2>2. Known(q, n0, k, r[k].n)
    BY <1>3, <1>5, <2>1
  <2>3. QED
    BY <2>1, <2>2, KnownSame
<1>7. CASE k > Len(q)
  <2>1. k \in New(d)
    BY <1>4, <1>5, <1>7
  <2>2. k = Len(q) + 1 /\ Known(q, n0, Len(q) + 1, r[k].n)
    BY <1>2, <2>1
  <2>3. k \in Nat /\ Known(q, n0, k, r[k].n) /\ \A l \in 1..(k - 1) : r[l] = q[l]
    BY <1>5, <2>2
  <2>4. QED
    BY <2>3, KnownSame
<1>8. QED
  BY <1>5, <1>6, <1>7

LEMMA HandsKnownTaken ==
  ASSUME NetTypeOK, NEW d \in Clients, HandsKnown(d), Takes(d)
  PROVE  HandsKnown(d)'
<1> DEFINE q == toClient[d]
           n0 == numPlayers[d]
<1>1. q \in Seq(DownMessage) /\ q # << >> /\ toClient'[d] = Tail(q)
  BY DEF NetTypeOK, Takes
<1>2. PICK n1 : /\ n1 = IF Counts(Head(q)) THEN Head(q).n ELSE n0
                /\ numPlayers'[d] = n1
  BY DEF Takes
<1>3. \A i \in DOMAIN q : q[i].type = "CARDS_STRING" => Known(q, n0, i, q[i].n)
  BY DEF HandsKnown
<1> HIDE DEF q, n0
<1>4. ASSUME NEW k \in DOMAIN Tail(q), Tail(q)[k].type = "CARDS_STRING"
      PROVE  Known(Tail(q), n1, k, Tail(q)[k].n)
  <2>1. /\ Len(q) \in Nat /\ k \in 1..Len(q) /\ k + 1 \in DOMAIN q /\ Tail(q)[k] = q[k + 1]
    BY <1>1, EmptySeq, LenProperties, HeadTailProperties
  <2>2. Known(q, n0, k + 1, Tail(q)[k].n)
    BY <1>3, <1>4, <2>1
  <2>3. QED
    BY <1>1, <1>2, <2>1, <2>2, KnownTail
<1>5. QED
  BY <1>1, <1>2, <1>4 DEF HandsKnown

LEMMA ToldGrows ==
  ASSUME NetTypeOK, NetTypeOK', NEW d \in Clients, Told(d), Grows(d),
         numPlayers'[d] = numPlayers[d], Len(players') = Len(players),
         \A k \in New(d) : ~Counts(toClient'[d][k])
  PROVE  Told(d)'
<1> DEFINE q == toClient[d]
           r == toClient'[d]
           n0 == numPlayers[d]
           n == Len(players)
<1>1. /\ q \in Seq(DownMessage) /\ r \in Seq(DownMessage) /\ Extends(q, r)
      /\ Known(q, n0, Len(q) + 1, n)
      /\ \A k \in (Len(q) + 1)..Len(r) : ~Counts(r[k])
  BY DEF NetTypeOK, Grows, Told, New
<1>2. Told(d)' = Known(r, n0, Len(r) + 1, n)
  BY DEF Told
<1> HIDE DEF q, r, n0, n
<1>3. /\ Len(q) \in Nat /\ Len(r) \in Nat /\ Len(q) <= Len(r)
      /\ \A j \in 1..Len(q) : r[j] = q[j]
  BY <1>1, LenProperties DEF Extends
<1>4. Known(r, n0, Len(q) + 1, n)
  <2>1. Len(q) + 1 \in Nat /\ \A l \in 1..(Len(q) + 1 - 1) : r[l] = q[l]
    BY <1>3
  <2>2. QED
    BY <1>1, <2>1, KnownSame
<1>5. Known(r, n0, Len(r) + 1, n)
  <2>1. /\ Len(q) + 1 \in Nat /\ Len(r) + 1 \in Nat /\ Len(q) + 1 <= Len(r) + 1
        /\ \A l \in (Len(q) + 1)..(Len(r) + 1 - 1) : ~Counts(r[l])
    BY <1>1, <1>3
  <2>2. QED
    BY <1>4, <2>1, KnownOn
<1>6. QED
  BY <1>2, <1>5

LEMMA ToldTaken ==
  ASSUME NetTypeOK, NEW d \in Clients, Told(d), Takes(d), Len(players') = Len(players)
  PROVE  Told(d)'
<1> DEFINE q == toClient[d]
           n0 == numPlayers[d]
           n == Len(players)
<1>1. /\ q \in Seq(DownMessage) /\ q # << >> /\ toClient'[d] = Tail(q)
      /\ Known(q, n0, Len(q) + 1, n)
  BY DEF NetTypeOK, Takes, Told
<1>2. PICK n1 : /\ n1 = IF Counts(Head(q)) THEN Head(q).n ELSE n0
                /\ numPlayers'[d] = n1
  BY DEF Takes
<1>3. Told(d)' = Known(Tail(q), n1, Len(Tail(q)) + 1, n)
  BY <1>1, <1>2 DEF Told
<1> HIDE DEF q, n0, n
<1>4. Len(q) \in 1..Len(q) /\ Len(Tail(q)) + 1 = Len(q)
  BY <1>1, EmptySeq, LenProperties, HeadTailProperties
<1>5. Known(Tail(q), n1, Len(q), n)
  BY <1>1, <1>2, <1>4, KnownTail
<1>6. QED
  BY <1>3, <1>4, <1>5

-----------------------------------------------------------------------------
(* The name stays ahead of the answer.                                     *)

LEMMA NameStaysSent ==
  ASSUME NetTypeOK, NEW d \in Clients, NameSent(d), Uploads(d) \/ Downs(d)
  PROVE  NameSent(d)'
<1>1. toServer[d] \in Seq(UpMessage)
  BY DEF NetTypeOK
<1>2. At(toServer[d], {"PLAYERNAME"}) # {}
  BY DEF NameSent
<1>3. At(toServer'[d], {"PLAYERNAME"}) # {}
  BY <1>1, <1>2, AtStays DEF Uploads, Downs
<1>4. QED
  BY <1>3 DEF NameSent

LEMMA AnswersBehind ==
  ASSUME NetTypeOK, NEW d \in Clients, Before(toServer[d], AnswerMessage, {"PLAYERNAME"}),
         Uploads(d) \/ Downs(d)
  PROVE  Before(toServer'[d], AnswerMessage, {"PLAYERNAME"})
<1>1. toServer[d] \in Seq(UpMessage)
  BY DEF NetTypeOK
<1>2. CASE toServer'[d] = toServer[d]
  BY <1>2
<1>3. CASE Downs(d)
  BY <1>1, <1>3, BeforeTail DEF Downs
<1>4. ASSUME NEW m \in UpMessage, toServer'[d] = Append(toServer[d], m),
             m \in AnswerMessage => NameSent(d)
      PROVE  Before(toServer'[d], AnswerMessage, {"PLAYERNAME"})
  <2>1. m \in AnswerMessage => At(toServer[d], {"PLAYERNAME"}) # {}
    BY <1>4 DEF NameSent
  <2> DEFINE r == Append(toServer[d], m)
  <2>2. /\ r \in Seq(UpMessage) /\ Extends(toServer[d], r)
        /\ \A k \in (Len(toServer[d]) + 1)..Len(r) : r[k] = m
    BY <1>1, AppendExtends
  <2> HIDE DEF r
  <2>3. Before(r, AnswerMessage, {"PLAYERNAME"})
    BY <1>1, <2>1, <2>2, BeforeExtends
  <2>4. QED
    BY <1>4, <2>3 DEF r
<1>5. QED
  BY <1>2, <1>3, <1>4 DEF Uploads

LEMMA NameComesKept ==
  ASSUME NetTypeOK, NetTypeOK', NEW d \in Clients, NameComes(d), Uploads(d) \/ Downs(d),
         conn'[d] = "on" => conn[d] = "on",
         pc'[d] = "move" => pc[d] = "move" \/ NameSent(d),
         \/ Grows(d)
         \/ /\ Takes(d)
            /\ Head(toClient[d]).type = "ACCEPTED" => NameSent(d)'
  PROVE  NameComes(d)'
<1> SUFFICES ASSUME ~NameSent(d)'
             PROVE  /\ conn'[d] = "on" => At(toClient'[d], Greeting) # {}
                    /\ pc'[d] # "move"
                    /\ Before(toClient'[d], AskMessage, Greeting)
  BY AnswersBehind DEF NameComes
<1>1. ~NameSent(d)
  BY NameStaysSent
<1>2. /\ conn[d] = "on" => At(toClient[d], Greeting) # {}
      /\ pc[d] # "move"
      /\ Before(toClient[d], AskMessage, Greeting)
  BY <1>1 DEF NameComes
<1>3. toClient[d] \in Seq(DownMessage) /\ toClient'[d] \in Seq(DownMessage)
  BY DEF NetTypeOK
<1>4. pc'[d] # "move"
  BY <1>1, <1>2
<1>5. CASE Takes(d) /\ Head(toClient[d]).type # "ACCEPTED"
  <2>1. Head(toClient[d]) \notin Greeting
    BY <1>5 DEF Greeting, Plain
  <2>2. QED
    BY <1>2, <1>3, <1>4, <1>5, <2>1, AtStays, BeforeTail DEF Takes
<1>6. CASE Grows(d)
  <2>1. Extends(toClient[d], toClient'[d])
    BY <1>6 DEF Grows
  <2>2. conn'[d] = "on" => At(toClient'[d], Greeting) # {}
    BY <1>2, <1>3, <2>1, AtExtends
  <2>3. CASE conn[d] = "on"
    <3>1. At(toClient[d], Greeting) # {}
      BY <1>2, <2>3
    <3>2. Before(toClient'[d], AskMessage, Greeting)
      BY <1>2, <1>3, <2>1, <3>1, BeforeExtends
    <3>3. QED
      BY <1>4, <2>2, <3>2
  <2>4. CASE toClient'[d] = toClient[d]
    BY <1>2, <1>4, <2>2, <2>4
  <2>5. QED
    BY <1>6, <2>3, <2>4 DEF Grows
<1>7. QED
  BY <1>5, <1>6

\* A client whose name comes and who is asked has it on its way already.
LEMMA AskedIsNamed ==
  ASSUME NetTypeOK, NEW d \in Clients, NameComes(d), toClient[d] # << >>,
         Head(toClient[d]).type = "HIT_STAND"
  PROVE  NameSent(d)
<1> SUFFICES ASSUME ~NameSent(d) PROVE FALSE
  OBVIOUS
<1>1. toClient[d] \in Seq(DownMessage) /\ Before(toClient[d], AskMessage, Greeting)
  BY DEF NetTypeOK, NameComes
<1>2. Head(toClient[d]) \in DownMessage
  BY <1>1
<1>3. Head(toClient[d]) \in AskMessage /\ Head(toClient[d]) \notin Greeting
  BY <1>2 DEF AskMessage, Greeting, Plain
<1>4. QED
  BY <1>1, <1>3, BeforeTail

\* An answer of a client whose name comes is never the next message.
LEMMA NameBeforeAnswer ==
  ASSUME NetTypeOK, NEW d \in Clients, NameComes(d), toServer[d] # << >>,
         Head(toServer[d]) \in AnswerMessage
  PROVE  FALSE
<1>1. toServer[d] \in Seq(UpMessage) /\ Head(toServer[d]) \notin {"PLAYERNAME"}
  BY DEF NetTypeOK, AnswerMessage
<1>2. QED
  BY <1>1, BeforeTail DEF NameComes

-----------------------------------------------------------------------------
(* The steps of a client.                                                  *)

Vanishes(c) ==
  /\ conn'[c] = "gone" /\ toClient'[c] = << >> /\ pc'[c] = "exit"
  /\ \E k \in 0..Len(toServer[c]) : toServer'[c] = SubSeq(toServer[c], 1, k)

\* What client c itself sees of a step of its own, or of its user or its
\* connection, if it stays.
Stays(c) ==
  /\ conn'[c] = "on" => conn[c] = "on"
  /\ conn'[c] = "off" => conn[c] = "off"
  /\ \/ toServer'[c] = toServer[c]
     \/ /\ pc[c] # "off"
        /\ \E m \in UpMessage \ {"NEW_CONNECTION"} :
             /\ toServer'[c] = Append(toServer[c], m)
             /\ m \in AnswerMessage => pc[c] = "move"
  /\ \/ toClient'[c] = toClient[c] /\ numPlayers'[c] = numPlayers[c]
     \/ /\ Takes(c)
        /\ Head(toClient[c]).type = "ACCEPTED"
             => toServer'[c] = Append(toServer[c], "PLAYERNAME")
  /\ pc'[c] = "move" => \/ pc[c] = "move"
                        \/ toClient[c] # << >> /\ Head(toClient[c]).type = "HIT_STAND"
  /\ pc[c] = "off" => pc'[c] = "off"

LEMMA ReceiveStays ==
  ASSUME MoveInv, TypeInv', NEW c \in Clients,
         \/ Accepted(c) \/ SetPlayerID(c) \/ PrintCurrentPlayers(c) \/ UpdatePlayers(c)
         \/ HitorStand(c) \/ RecieveAllCards(c) \/ RecieveString(c)
  PROVE  Stays(c)
<1> USE DEF MoveInv, TypeInv, TypeOK
<1>1. /\ toClient \in [Clients -> Seq(DownMessage)] /\ toServer \in [Clients -> Seq(UpMessage)]
      /\ conn' = conn /\ pc \in [Clients -> ClientPc]
      /\ toClient[c] # << >> /\ toClient'[c] = Tail(toClient[c]) /\ pc[c] = "loop"
      /\ numPlayers \in [Clients -> Nat]
  BY DEF Accepted, SetPlayerID, PrintCurrentPlayers, UpdatePlayers, HitorStand,
         RecieveAllCards, RecieveString, Take, Taken, NetTypeOK, ClientTypeOK
<1>2. CASE Accepted(c)
  <2>1. /\ Head(toClient[c]).type = "ACCEPTED" /\ numPlayers' = numPlayers /\ pc' = pc
        /\ toServer'[c] = Append(toServer[c], "PLAYERNAME")
    BY <1>1, <1>2 DEF Accepted, Take, Uploaded, clientVars
  <2>2. "PLAYERNAME" \in UpMessage \ {"NEW_CONNECTION"} /\ "PLAYERNAME" \notin AnswerMessage
    BY DEF UpMessage, AnswerMessage
  <2>3. ~Counts(Head(toClient[c]))
    BY <2>1 DEF Counts
  <2>4. QED
    BY <1>1, <2>1, <2>2, <2>3 DEF Stays, Takes
<1>3. CASE PrintCurrentPlayers(c)
  <2>1. /\ Head(toClient[c]).type = "CURRENT_PLAYERS" /\ toServer' = toServer /\ pc' = pc
        /\ numPlayers'[c] = Head(toClient[c]).n
    BY <1>1, <1>3 DEF PrintCurrentPlayers, Take
  <2>2. QED
    BY <1>1, <2>1 DEF Stays, Takes, Counts
<1>4. CASE UpdatePlayers(c)
  <2>1. /\ Head(toClient[c]).type = "JOINED_GAME" /\ toServer' = toServer
        /\ pc'[c] \in {"ready", "loop"} /\ numPlayers'[c] = Head(toClient[c]).n
    BY <1>1, <1>4 DEF UpdatePlayers, Take, Goto
  <2>2. QED
    BY <1>1, <2>1 DEF Stays, Takes, Counts
<1>5. CASE HitorStand(c)
  <2>1. /\ Head(toClient[c]).type = "HIT_STAND" /\ toServer' = toServer
        /\ numPlayers' = numPlayers /\ pc'[c] = "move"
    BY <1>1, <1>5 DEF HitorStand, Take, Goto
  <2>2. QED
    BY <1>1, <2>1 DEF Stays, Takes, Counts
<1>6. CASE SetPlayerID(c) \/ RecieveAllCards(c) \/ RecieveString(c)
  <2>1. /\ Head(toClient[c]).type \in {"PLAYER_ID", "CARDS_STRING", "END"}
        /\ toServer' = toServer /\ numPlayers' = numPlayers /\ pc'[c] \in {"loop", "restart"}
    BY <1>1, <1>6 DEF SetPlayerID, RecieveAllCards, RecieveString, Take, Goto, clientVars
  <2>2. QED
    BY <1>1, <2>1 DEF Stays, Takes, Counts
<1>7. QED
  BY <1>2, <1>3, <1>4, <1>5, <1>6

LEMMA UserStays ==
  ASSUME MoveInv, TypeInv', NEW c \in Clients,
         \/ SendReady(c) \/ EnterReady(c) \/ AnswerYes(c) \/ AnswerOther(c)
         \/ \E key \in UserKeys : TestTest(c, key)
         \/ PeerNotices(c)
  PROVE  Stays(c)
<1> USE DEF MoveInv, TypeInv, TypeOK
<1>1. /\ toServer \in [Clients -> Seq(UpMessage)] /\ pc \in [Clients -> ClientPc]
      /\ toServer[c] \in Seq(UpMessage) /\ conn \in [Clients -> ConnState]
  BY DEF NetTypeOK, ClientTypeOK
<1>2. CASE SendReady(c)
  <2>1. /\ toServer'[c] = Append(toServer[c], "READY") /\ pc[c] = "loop" /\ pc' = pc
        /\ conn' = conn /\ toClient' = toClient /\ numPlayers' = numPlayers
    BY <1>1, <1>2 DEF SendReady, Uploaded
  <2>2. "READY" \in UpMessage \ {"NEW_CONNECTION"} /\ "READY" \notin AnswerMessage
    BY DEF UpMessage, AnswerMessage
  <2>3. QED
    BY <2>1, <2>2 DEF Stays
<1>3. CASE EnterReady(c) \/ AnswerYes(c) \/ AnswerOther(c)
  <2>1. /\ UNCHANGED <<conn, toServer, toClient, numPlayers>>
        /\ pc[c] # "off" /\ pc'[c] # "move"
    BY <1>1, <1>3 DEF EnterReady, AnswerYes, AnswerOther, Goto, netVars
  <2>2. QED
    BY <2>1 DEF Stays
<1>4. ASSUME NEW key \in UserKeys, TestTest(c, key) PROVE Stays(c)
  <2>1. /\ UNCHANGED <<conn, toClient, numPlayers>>
        /\ pc[c] = "move" /\ pc'[c] = "loop"
        /\ toServer'[c] = toServer[c] \o Answer(key)
    BY <1>1, <1>4 DEF TestTest, Goto
  <2>2. CASE key \in {"h", "s"}
    <3>1. PICK m \in UpMessage \ {"NEW_CONNECTION"} : Answer(key) = <<m>>
      BY <2>2 DEF Answer, UpMessage
    <3>2. toServer[c] \o <<m>> = Append(toServer[c], m)
      BY <1>1
    <3>3. QED
      BY <2>1, <3>1, <3>2 DEF Stays
  <2>3. CASE key \notin {"h", "s"}
    <3>1. Answer(key) = << >>
      BY <2>3 DEF Answer
    <3>2. toServer[c] \o << >> = toServer[c]
      BY <1>1, ConcatEmptySeq
    <3>3. QED
      BY <2>1, <3>1, <3>2 DEF Stays
  <2>4. QED
    BY <2>2, <2>3
<1>5. CASE PeerNotices(c)
  <2>1. /\ UNCHANGED <<toServer, toClient, pc, numPlayers>>
        /\ conn'[c] = "lost"
    BY <1>1, <1>5 DEF PeerNotices, ConnectionLost, clientVars
  <2>2. QED
    BY <2>1 DEF Stays
<1>6. QED
  BY <1>2, <1>3, <1>4, <1>5

LEMMA GoneVanishes ==
  ASSUME MoveInv, NEW c \in Clients, AnswerNo(c) \/ CloseClient(c)
  PROVE  Vanishes(c)
  BY DEF AnswerNo, CloseClient, Vanish, Vanishes, Goto, MoveInv, TypeInv, TypeOK, NetTypeOK,
         ClientTypeOK

\* Nobody else notices.
LEMMA OthersUnaware ==
  ASSUME MoveInv, TypeInv', NEW c \in Clients,
         \/ ClientReceives(c) \/ ClientReady(c) \/ UserStarts(c) \/ UserReady(c)
         \/ UserMoves(c) \/ UserRestarts(c) \/ UserDeclines(c) \/ PeerNotices(c)
  PROVE  \A d \in Clients \ {c} :
           /\ UNCHANGED <<toClient[d], toServer[d], pc[d], conn[d], numPlayers[d]>>
<1> USE DEF MoveInv, TypeInv, TypeOK, NetTypeOK, ClientTypeOK
<1>1. OthersStay(c)
  BY OthersUndisturbed
<1>2. \A d \in Clients \ {c} : conn'[d] = conn[d] /\ numPlayers'[d] = numPlayers[d]
  <2>1. CASE ClientReceives(c)
    BY <2>1 DEF ClientReceives, Accepted, SetPlayerID, PrintCurrentPlayers, UpdatePlayers,
                HitorStand, RecieveAllCards, RecieveString, Take, clientVars
  <2>2. CASE ClientReady(c) \/ UserReady(c) \/ UserMoves(c) \/ UserRestarts(c)
    BY <2>2 DEF ClientReady, SendReady, UserReady, EnterReady, UserMoves, TestTest,
                UserRestarts, AnswerYes, netVars
  <2>3. CASE UserStarts(c)
    BY <2>3 DEF UserStarts, StartClient, Connect
  <2>4. CASE UserDeclines(c)
    BY <2>4 DEF UserDeclines, AnswerOther, AnswerNo, CloseClient, Vanish, netVars
  <2>5. CASE PeerNotices(c)
    BY <2>5 DEF PeerNotices, ConnectionLost, clientVars
  <2>6. QED
    BY <2>1, <2>2, <2>3, <2>4, <2>5
<1>3. QED
  BY <1>1, <1>2 DEF OthersStay

LEMMA StaysNames ==
  ASSUME NetTypeOK, NetTypeOK', NEW c \in Clients, Stays(c), NameComes(c)
  PROVE  NameComes(c)'
<1>1. toServer[c] \in Seq(UpMessage) /\ toClient[c] \in Seq(DownMessage)
  BY DEF NetTypeOK
<1>2. pc[c] = "move" => NameSent(c)
  BY DEF NameComes
<1>3. Uploads(c)
  BY <1>2 DEF Uploads, Stays
<1>4. pc'[c] = "move" => pc[c] = "move" \/ NameSent(c)
  BY AskedIsNamed DEF Stays
<1>5. CASE toClient'[c] = toClient[c]
  BY <1>3, <1>4, <1>5, NewNone, NameComesKept DEF Stays
<1>6. CASE Takes(c) /\ (Head(toClient[c]).type = "ACCEPTED"
                          => toServer'[c] = Append(toServer[c], "PLAYERNAME"))
  <2>1. At(Append(toServer[c], "PLAYERNAME"), {"PLAYERNAME"}) # {}
    <3>1. "PLAYERNAME" \in UpMessage /\ "PLAYERNAME" \in {"PLAYERNAME"}
      BY DEF UpMessage
    <3>2. QED
      BY <1>1, <3>1, AtAppended
  <2>2. Head(toClient[c]).type = "ACCEPTED" => NameSent(c)'
    BY <1>6, <2>1 DEF NameSent
  <2>3. QED
    BY <1>3, <1>4, <1>6, <2>2, NameComesKept DEF Stays
<1>7. QED
  BY <1>5, <1>6 DEF Stays

LEMMA VanishesNames ==
  ASSUME NetTypeOK, NEW c \in Clients, Vanishes(c), NameComes(c)
  PROVE  NameComes(c)'
<1>1. toServer[c] \in Seq(UpMessage) /\ Before(toServer[c], AnswerMessage, {"PLAYERNAME"})
  BY DEF NetTypeOK, NameComes
<1>2. PICK k \in 0..Len(toServer[c]) : toServer'[c] = SubSeq(toServer[c], 1, k)
  BY DEF Vanishes
<1>3. Before(toServer'[c], AnswerMessage, {"PLAYERNAME"})
  BY <1>1, <1>2, BeforeSubSeq
<1>4. Before(toClient'[c], AskMessage, Greeting)
  BY DEF Vanishes, Before
<1>5. QED
  BY <1>3, <1>4 DEF NameComes, Vanishes

LEMMA StaysAnnounced ==
  ASSUME NetTypeOK, NetTypeOK', NEW c \in Clients, Stays(c), AnnouncedFirst(c)
  PROVE  AnnouncedFirst(c)'
<1>1. toServer[c] \in Seq(UpMessage)
  BY DEF NetTypeOK
<1>2. Announced(c)' = Announced(c)
  <2>1. ASSUME NEW m \in UpMessage \ {"NEW_CONNECTION"},
               toServer'[c] = Append(toServer[c], m)
        PROVE  Announced(c)' = Announced(c)
    <3>1. At(Append(toServer[c], m), {"NEW_CONNECTION"}) = At(toServer[c], {"NEW_CONNECTION"})
      BY <1>1, AtAppend
    <3>2. QED
      BY <2>1, <3>1 DEF Announced
  <2>2. toServer'[c] = toServer[c] => Announced(c)' = Announced(c)
    BY DEF Announced
  <2>3. QED
    BY <2>1, <2>2 DEF Stays
<1>3. conn'[c] = "off" => toServer'[c] = << >> /\ pc'[c] = "off"
  BY DEF Stays, AnnouncedFirst
<1>4. QED
  BY <1>2, <1>3, StaysNames DEF AnnouncedFirst

LEMMA VanishesAnnounced ==
  ASSUME NetTypeOK, NEW c \in Clients, Vanishes(c), AnnouncedFirst(c)
  PROVE  AnnouncedFirst(c)'
<1>1. toServer[c] \in Seq(UpMessage)
  BY DEF NetTypeOK
<1>2. PICK k \in 0..Len(toServer[c]) : toServer'[c] = SubSeq(toServer[c], 1, k)
  BY DEF Vanishes
<1>3. Announced(c)' \subseteq Announced(c)
  <2>1. At(SubSeq(toServer[c], 1, k), {"NEW_CONNECTION"})
          \subseteq At(toServer[c], {"NEW_CONNECTION"})
    BY <1>1, AtSubSeq
  <2>2. QED
    BY <1>2, <2>1 DEF Announced
<1>4. Announced(c)' # {} => NameComes(c)'
  BY <1>3, VanishesNames DEF AnnouncedFirst
<1>5. conn'[c] # "off"
  BY DEF Vanishes
<1>6. QED
  BY <1>3, <1>4, <1>5 DEF AnnouncedFirst

LEMMA StartNames ==
  ASSUME MoveInv, NEW c \in Clients, UserStarts(c), AnnouncedFirst(c), HandsKnown(c)
  PROVE  AnnouncedFirst(c)' /\ HandsKnown(c)'
<1> USE DEF MoveInv, TypeInv, TypeOK
<1>1. /\ conn[c] = "off" /\ pc'[c] = "loop" /\ numPlayers' = numPlayers /\ Connect(c)
      /\ toServer[c] = << >>
      /\ toServer \in [Clients -> Seq(UpMessage)] /\ toClient \in [Clients -> Seq(DownMessage)]
      /\ conn \in [Clients -> ConnState]
  BY DEF UserStarts, StartClient, Connect, Goto, AnnouncedFirst, NetTypeOK, ClientTypeOK
<1>2. CASE conn'[c] = "refused" /\ toServer' = toServer /\ toClient' = toClient
  <2>1. Announced(c)' = {}
    BY <1>1, <1>2 DEF Announced, At
  <2>2. QED
    BY <1>1, <1>2, <2>1 DEF AnnouncedFirst, HandsKnown
<1>3. CASE /\ conn'[c] = "on" /\ toServer'[c] = Append(toServer[c], "NEW_CONNECTION")
           /\ toClient'[c] = <<Plain("ACCEPTED")>>
  <2>1. toServer'[c] = <<"NEW_CONNECTION">>
    BY <1>1, <1>3
  <2>2. \A k \in DOMAIN toServer'[c] : k = 1 /\ toServer'[c][k] = "NEW_CONNECTION"
    BY <2>1
  <2>3. \A k \in DOMAIN toClient'[c] : k = 1 /\ toClient'[c][k] = Plain("ACCEPTED")
    BY <1>3
  <2>4. Before(toServer'[c], AnswerMessage, {"PLAYERNAME"})
    BY <2>2 DEF Before, AnswerMessage
  <2>5. Plain("ACCEPTED").type = "ACCEPTED"
    BY DEF Plain
  <2>6. Before(toClient'[c], AskMessage, Greeting)
    BY <2>3, <2>5 DEF Before, AskMessage
  <2>7. At(toClient'[c], Greeting) # {}
    <3>1. 1 \in DOMAIN toClient'[c] /\ toClient'[c][1] \in Greeting
      BY <1>3 DEF Greeting
    <3>2. QED
      BY <3>1 DEF At
  <2>8. NameComes(c)'
    BY <1>1, <2>4, <2>6, <2>7 DEF NameComes
  <2>9. HandsKnown(c)'
    BY <2>3, <2>5 DEF HandsKnown
  <2>10. QED
    BY <1>3, <2>2, <2>8, <2>9 DEF AnnouncedFirst, Announced, At
<1>4. QED
  BY <1>1, <1>2, <1>3 DEF Connect, Uploaded

LEMMA ClientCases ==
  ASSUME MoveInv, TypeInv', NEW c \in Clients,
         \/ ClientReceives(c) \/ ClientReady(c) \/ UserStarts(c) \/ UserReady(c)
         \/ UserMoves(c) \/ UserRestarts(c) \/ UserDeclines(c) \/ PeerNotices(c)
  PROVE  Stays(c) \/ Vanishes(c) \/ UserStarts(c)
  BY ReceiveStays, UserStays, GoneVanishes
     DEF ClientReceives, ClientReady, UserReady, UserMoves, UserRestarts, UserDeclines

\* What a client, its user or its connection does leaves all in order.
LEMMA ClientNames ==
  ASSUME MoveInv, TypeInv', SeatInv, NamesInv, NEW c \in Clients,
         \/ ClientReceives(c) \/ ClientReady(c) \/ UserStarts(c) \/ UserReady(c)
         \/ UserMoves(c) \/ UserRestarts(c) \/ UserDeclines(c) \/ PeerNotices(c)
  PROVE  NamesInv'
<1>1. NetTypeOK /\ NetTypeOK'
  BY DEF MoveInv, TypeInv, TypeOK
<1>2. /\ UNCHANGED <<players, serverPc>>
      /\ \A d \in Clients \ {c} :
           UNCHANGED <<toClient[d], toServer[d], pc[d], conn[d], numPlayers[d]>>
  BY Bystander, OthersUnaware DEF serverVars
<1>3. Seated' = Seated /\ \A d \in Clients : Newest(d)' <=> Newest(d)
  BY <1>2 DEF Seated, Newest
<1>4. Stays(c) \/ Vanishes(c) \/ UserStarts(c)
  BY ClientCases
<1>5. ASSUME NEW d \in Clients \ {c}
      PROVE  /\ AnnouncedFirst(d)' /\ HandsKnown(d)'
             /\ NameComes(d) => NameComes(d)'
             /\ conn'[d] = conn[d] /\ (Told(d) => Told(d)')
  <2>1. UNCHANGED <<toClient[d], toServer[d], pc[d], conn[d], numPlayers[d], players>>
    BY <1>2
  <2>2. NameComes(d)' <=> NameComes(d)
    BY <2>1 DEF NameComes, NameSent
  <2>3. AnnouncedFirst(d) /\ HandsKnown(d)
    BY DEF NamesInv
  <2>4. QED
    BY <2>1, <2>2, <2>3 DEF AnnouncedFirst, Announced, HandsKnown, Told
<1>6. AnnouncedFirst(c)' /\ HandsKnown(c)'
  <2>1. AnnouncedFirst(c) /\ HandsKnown(c)
    BY DEF NamesInv
  <2>2. CASE UserStarts(c)
    BY <2>1, <2>2, StartNames
  <2>3. CASE Vanishes(c)
    <3>1. HandsKnown(c)'
      BY <2>3 DEF Vanishes, HandsKnown
    <3>2. QED
      BY <1>1, <2>1, <2>3, <3>1, VanishesAnnounced
  <2>4. CASE Stays(c)
    <3>1. CASE toClient'[c] = toClient[c] /\ numPlayers'[c] = numPlayers[c]
      BY <1>1, <2>1, <2>4, <3>1, StaysAnnounced DEF HandsKnown
    <3>2. CASE Takes(c)
      BY <1>1, <2>1, <2>4, <3>2, StaysAnnounced, HandsKnownTaken
    <3>3. QED
      BY <2>4, <3>1, <3>2 DEF Stays
  <2>5. QED
    BY <1>4, <2>2, <2>3, <2>4
<1>7. ASSUME c \in Seated PROVE Stays(c) \/ Vanishes(c)
  <2>1. conn[c] # "off"
    BY <1>7 DEF SeatInv, AnnouncedOnce
  <2>2. QED
    BY <1>4, <2>1 DEF UserStarts, StartClient, Connect
<1>8. Newest(c) /\ NameComes(c) => NameComes(c)'
  <2>1. Newest(c) => c \in Seated
    BY SeatsDomain DEF Newest, Seated, MoveInv, TypeInv, TypeOK, ServerTypeOK
  <2>2. QED
    BY <1>1, <1>7, <2>1, StaysNames, VanishesNames
<1>9. AllTold => AllTold'
  <2> SUFFICES ASSUME AllTold, NEW d \in Clients, d \in Seated', conn'[d] = "on"
               PROVE  Told(d)'
    BY DEF AllTold
  <2>1. CASE d # c
    BY <1>3, <1>5, <2>1 DEF AllTold
  <2>2. CASE d = c
    <3>1. Stays(c)
      BY <1>3, <1>7, <2>2 DEF Vanishes
    <3>2. Told(c)
      BY <1>3, <2>2, <3>1 DEF AllTold, Stays
    <3>3. CASE toClient'[c] = toClient[c] /\ numPlayers'[c] = numPlayers[c]
      BY <1>2, <2>2, <3>2, <3>3 DEF Told
    <3>4. CASE Takes(c)
      BY <1>1, <1>2, <2>2, <3>2, <3>4, ToldTaken
    <3>5. QED
      BY <3>1, <3>3, <3>4 DEF Stays
  <2>3. QED
    BY <2>1, <2>2
<1>10. QED
  BY <1>2, <1>3, <1>5, <1>6, <1>8, <1>9 DEF NamesInv

-----------------------------------------------------------------------------
(* The steps of the server.                                                *)

LEMMA SameNewest ==
  ASSUME ServerTypeOK, ServerTypeOK', SameClients, NEW d
  PROVE  Newest(d)' <=> Newest(d)
<1>1. /\ Len(players') = Len(players) /\ Len(players) \in Nat
      /\ \A i \in 1..Len(players) : players'[i].client = players[i].client
      /\ players = << >> <=> Len(players) = 0
      /\ players' = << >> <=> Len(players') = 0
  BY EmptySeq, LenProperties DEF SameClients, ServerTypeOK
<1>2. QED
  BY <1>1 DEF Newest

\* What the server receives and sends leaves the order of what is on its way.
LEMMA ServedAnnounced ==
  ASSUME NetTypeOK, NetTypeOK', NEW d \in Clients, AnnouncedFirst(d), Grows(d),
         conn'[d] = conn[d], pc'[d] = pc[d],
         \/ toServer'[d] = toServer[d]
         \/ toServer[d] # << >> /\ toServer'[d] = Tail(toServer[d])
  PROVE  AnnouncedFirst(d)'
<1>1. CASE toServer'[d] = toServer[d]
  <2>1. Announced(d)' = Announced(d)
    BY <1>1 DEF Announced
  <2>2. Uploads(d)
    BY <1>1 DEF Uploads
  <2>3. NameComes(d) => NameComes(d)'
    BY <2>2, NameComesKept
  <2>4. QED
    BY <1>1, <2>1, <2>3 DEF AnnouncedFirst
<1>2. CASE toServer[d] # << >> /\ toServer'[d] = Tail(toServer[d])
  <2>1. toServer[d] \in Seq(UpMessage)
    BY DEF NetTypeOK
  <2>2. ASSUME NEW k \in DOMAIN Tail(toServer[d]), Tail(toServer[d])[k] = "NEW_CONNECTION"
        PROVE  FALSE
    <3>1. /\ k \in Nat /\ k # 0 /\ k + 1 \in DOMAIN toServer[d]
          /\ toServer[d][k + 1] = "NEW_CONNECTION"
      BY <1>2, <2>1, <2>2, EmptySeq, LenProperties, HeadTailProperties
    <3>2. k + 1 \in Announced(d)
      BY <3>1 DEF Announced, At
    <3>3. k + 1 = 1
      BY <3>2 DEF AnnouncedFirst
    <3>4. QED
      BY <3>1, <3>3
  <2>3. Announced(d)' = {}
    BY <1>2, <2>2 DEF Announced, At
  <2>4. QED
    BY <1>2, <2>3 DEF AnnouncedFirst
<1>3. QED
  BY <1>1, <1>2

\* A step of the server that moves the game on but seats nobody, names nobody
\* and shows no hands.
LEMMA GameStep ==
  ASSUME MoveInv, TypeInv', NamesInv, SameClients, conn' = conn, UNCHANGED clientVars,
         \A d \in Clients : toServer'[d] = toServer[d] \/ Downs(d),
         \A d \in Clients : /\ Grows(d)
                            /\ \A k \in New(d) : toClient'[d][k] = Plain("HIT_STAND"),
         serverPc' = "dealer" => AllTold
  PROVE  NamesInv'
<1> USE DEF MoveInv, TypeInv, TypeOK
<1>1. UNCHANGED <<pc, numPlayers>> /\ Len(players') = Len(players)
  BY DEF clientVars, SameClients
<1>2. /\ Plain("HIT_STAND").type # "CARDS_STRING" /\ ~Counts(Plain("HIT_STAND"))
  BY DEF Plain, Counts
<1>3. ASSUME NEW d \in Clients
      PROVE  /\ AnnouncedFirst(d)' /\ HandsKnown(d)'
             /\ NameComes(d) => NameComes(d)'
             /\ Told(d) => Told(d)'
  <2>1. /\ AnnouncedFirst(d) /\ HandsKnown(d) /\ Grows(d)
        /\ \A k \in New(d) : /\ toClient'[d][k].type # "CARDS_STRING"
                             /\ ~Counts(toClient'[d][k])
    BY <1>2 DEF NamesInv
  <2>2. AnnouncedFirst(d)'
    BY <1>1, <2>1, ServedAnnounced DEF Downs
  <2>3. HandsKnown(d)'
    BY <1>1, <2>1, HandsKnownGrows
  <2>4. Uploads(d) \/ Downs(d)
    BY DEF Uploads
  <2>5. NameComes(d) => NameComes(d)'
    BY <1>1, <2>1, <2>4, NameComesKept
  <2>6. Told(d) => Told(d)'
    BY <1>1, <2>1, ToldGrows
  <2>7. QED
    BY <2>2, <2>3, <2>5, <2>6
<1>4. Seated' = Seated /\ \A d \in Clients : Newest(d)' <=> Newest(d)
  BY SameClientsSit, SameNewest
<1>5. AllTold => AllTold'
  BY <1>3, <1>4 DEF AllTold
<1>6. QED
  BY <1>3, <1>4, <1>5 DEF NamesInv

LEMMA NobodyAsked ==
  ASSUME NetTypeOK, toClient' = toClient, NEW d \in Clients
  PROVE  Grows(d) /\ \A k \in New(d) : toClient'[d][k] = Plain("HIT_STAND")
  BY NewNone

LEMMA SomeAsked ==
  ASSUME NetTypeOK, NEW S, toClient' = Sent(S, Plain("HIT_STAND")), NEW d \in Clients
  PROVE  Grows(d) /\ \A k \in New(d) : toClient'[d][k] = Plain("HIT_STAND")
<1> DEFINE m == Plain("HIT_STAND")
<1>1. m \in DownMessage
  BY MessageTypes
<1> HIDE DEF m
<1>2. Grows(d) /\ \A k \in New(d) : toClient'[d][k] = m
  <2>1. toClient' = Sent(S, m)
    BY DEF m
  <2>2. QED
    BY <1>1, <2>1, SentGrows
<1>3. QED
  BY <1>2 DEF m

LEMMA LoopAsks ==
  ASSUME NetTypeOK, NEW ps, NEW cur, GameLoop(ps, cur), NEW d \in Clients
  PROVE  Grows(d) /\ \A k \in New(d) : toClient'[d][k] = Plain("HIT_STAND")
  BY NobodyAsked, SomeAsked DEF GameLoop

LEMMA ServerQueues ==
  ASSUME MoveInv, TypeInv', NEW c \in Clients, NEW m, Receive(c, m), m # "PLAYERNAME"
  PROVE  \A d \in Clients : toServer'[d] = toServer[d] \/ Downs(d)
  BY ReceiveQueue DEF Downs

LEMMA HitSameClients ==
  ASSUME MoveInv, TypeInv', SeatInv, NEW c \in Clients, Hit(c), pc' = pc
  PROVE  SameClients /\ serverPc' # "dealer" /\ conn' = conn
<1>1. ServerTypeOK
  BY DEF MoveInv, TypeInv, TypeOK
<1>2. /\ serverPc' # "dealer" /\ conn' = conn /\ Len(players') = Len(players)
      /\ \E card \in Ranks :
           players'[currentPlayer + 1]
             = [players[currentPlayer + 1] EXCEPT
                  !.hand = AddCard(players[currentPlayer + 1].hand, card)]
      /\ \A i \in 1..Len(players) : i # currentPlayer + 1 => players'[i] = players[i]
      /\ currentPlayer < Len(players)
  BY <1>1, HitSeats DEF SeatInv
<1>3. currentPlayer + 1 \in 1..Len(players)
  BY <1>1, <1>2, SeatsDomain DEF ServerTypeOK
<1>4. players[currentPlayer + 1] \in Player
  BY <1>1, <1>3, SeatsDomain
<1>5. players'[currentPlayer + 1].client = players[currentPlayer + 1].client
  BY <1>2, <1>4 DEF Player
<1>6. QED
  BY <1>2, <1>5 DEF SameClients

LEMMA HitNames ==
  ASSUME MoveInv, TypeInv', SeatInv, NamesInv, NEW c \in Clients, Hit(c), UNCHANGED clientVars
  PROVE  NamesInv'
<1>1. NetTypeOK /\ pc' = pc
  BY DEF MoveInv, TypeInv, TypeOK, clientVars
<1>2. SameClients /\ serverPc' # "dealer" /\ conn' = conn
  BY <1>1, HitSameClients
<1>3. \A d \in Clients : toServer'[d] = toServer[d] \/ Downs(d)
  BY ServerQueues DEF Hit
<1>4. \A d \in Clients : Grows(d) /\ \A k \in New(d) : toClient'[d][k] = Plain("HIT_STAND")
  BY <1>1, SomeAsked DEF Hit, AsksAgain
<1>5. QED
  BY <1>2, <1>3, <1>4, GameStep

LEMMA StandSameClients ==
  ASSUME MoveInv, TypeInv', NEW c \in Clients, Stand(c), pc' = pc
  PROVE  SameClients
<1>0. /\ ServerTypeOK /\ currentPlayer \in Nat /\ Len(players) \in Nat
  BY SeatsDomain DEF MoveInv, TypeInv, TypeOK, ServerTypeOK
<1>1. CASE LastTurn
  BY <1>1, StandSeats, <1>0 DEF SameClients
<1>2. CASE ~LastTurn
  <2>1. /\ currentPlayer + 1 < Len(players) /\ Len(players') = Len(players)
        /\ players'[currentPlayer + 2] = AddScore(players[currentPlayer + 2], -betScore)
        /\ \A i \in 1..Len(players) : i # currentPlayer + 2 => players'[i] = players[i]
    BY <1>0, <1>2, StandSeats
  <2>2. players[currentPlayer + 2] \in Player
    <3>1. currentPlayer + 2 \in 1..Len(players)
      BY <1>0, <2>1
    <3>2. QED
      BY <1>0, <3>1, SeatsDomain
  <2>3. players'[currentPlayer + 2].client = players[currentPlayer + 2].client
    BY <2>1, <2>2, BetTaken
  <2>4. QED
    BY <2>1, <2>3 DEF SameClients
<1>3. QED
  BY <1>1, <1>2

\* The last to stand is the newest player, whose name came before.
LEMMA StandNames ==
  ASSUME MoveInv, TypeInv', NamesInv, NEW c \in Clients, Stand(c), UNCHANGED clientVars
  PROVE  NamesInv'
<1>1. /\ NetTypeOK /\ ServerTypeOK /\ pc' = pc /\ currentPlayer \in Nat
      /\ Len(players) \in Nat
  BY SeatsDomain DEF MoveInv, TypeInv, TypeOK, ServerTypeOK, clientVars
<1>2. \A d \in Clients : toServer'[d] = toServer[d] \/ Downs(d)
  BY ServerQueues DEF Stand
<1>3. \A d \in Clients : Grows(d) /\ \A k \in New(d) : toClient'[d][k] = Plain("HIT_STAND")
  BY <1>1, NobodyAsked, LoopAsks DEF Stand
<1>4. SameClients
  BY <1>1, StandSameClients
<1>5. ASSUME serverPc' = "dealer" PROVE AllTold
  <2>1. LastTurn
    BY <1>1, <1>5, StandSeats
  <2>2. /\ toServer[c] # << >> /\ Head(toServer[c]) \in AnswerMessage
    BY DEF Stand, Receive, AnswerMessage
  <2>3. 1 \in Answers(c)
    BY <2>2 DEF Answers, AnswerMessage, MoveInv, TypeInv, TypeOK, NetTypeOK
  <2>4. currentPlayer < Len(players) /\ players[currentPlayer + 1].client = c
    BY <2>3 DEF MovePending, OnlyCurrentMoves, MoveInv
  <2>5. currentPlayer + 1 = Len(players) /\ players # << >>
    BY <1>1, <2>1, <2>4 DEF LastTurn
  <2>6. Newest(c)
    BY <2>4, <2>5 DEF Newest
  <2>7. QED
    BY <1>1, <2>2, <2>6, NameBeforeAnswer DEF NamesInv
<1>6. conn' = conn
  BY DEF Stand
<1>7. QED
  BY <1>2, <1>3, <1>4, <1>5, <1>6, GameStep

LEMMA ReadySameClients ==
  ASSUME MoveInv, TypeInv', NEW c \in Clients, PlayerReady(c)
  PROVE  SameClients
<1>0. ServerTypeOK
  BY DEF MoveInv, TypeInv, TypeOK
<1>1. CASE readyToStart' /\ NoGame
  <2>1. PICK cards \in [1..Len(players) -> Ranks \X Ranks] :
          \A i \in 1..Len(players) :
            players'[i] = IF i = 1 THEN AddScore(Dealt(cards)[i], -betScore)
                                   ELSE Dealt(cards)[i]
    BY <1>1, StartGameSeats
  <2>2. ASSUME NEW i \in 1..Len(players) PROVE players'[i].client = players[i].client
    <3>1. Dealt(cards)[i].client = players[i].client
      BY <1>0, DealtPlayers
    <3>2. Dealt(cards)[i] \in Player
      <4>1. i \in DOMAIN players
        BY <1>0, SeatsDomain
      <4>2. QED
        BY <1>0, <4>1, DealtTypes
    <3>3. QED
      BY <2>1, <3>1, <3>2, BetTaken
  <2>3. Len(players') = Len(players)
    BY <1>1, StartGameSeats
  <2>4. QED
    BY <2>2, <2>3 DEF SameClients
<1>2. CASE ~(readyToStart' /\ NoGame)
  BY <1>2, PlayerReadyWaits DEF SameClients
<1>3. QED
  BY <1>1, <1>2

LEMMA ReadyNames ==
  ASSUME MoveInv, TypeInv', NamesInv, NEW c \in Clients, PlayerReady(c), UNCHANGED clientVars
  PROVE  NamesInv'
<1>1. NetTypeOK /\ ServerTypeOK
  BY DEF MoveInv, TypeInv, TypeOK
<1>2. \A d \in Clients : toServer'[d] = toServer[d] \/ Downs(d)
  BY ServerQueues DEF PlayerReady
<1>3. \A d \in Clients : Grows(d) /\ \A k \in New(d) : toClient'[d][k] = Plain("HIT_STAND")
  BY <1>1, NobodyAsked, LoopAsks DEF PlayerReady, StartGame
<1>4. SameClients
  BY ReadySameClients
<1>5. conn' = conn /\ serverPc' # "dealer"
  BY DEF PlayerReady, Receive
<1>6. QED
  BY <1>2, <1>3, <1>4, <1>5, GameStep

LEMMA QuietNames ==
  ASSUME MoveInv, TypeInv', NamesInv, DealerDraw \/ IgnoreKey \/ PressEnter \/ UNCHANGED vars,
         UNCHANGED clientVars
  PROVE  NamesInv'
<1>1. UNCHANGED <<conn, toServer, toClient, players>>
  BY DEF DealerDraw, IgnoreKey, PressEnter, vars, netVars, serverVars
<1>2. serverPc' = "dealer" => serverPc = "dealer"
  BY DEF DealerDraw, IgnoreKey, PressEnter, vars, serverVars
<1>3. SameClients /\ NetTypeOK
  BY <1>1 DEF SameClients, MoveInv, TypeInv, TypeOK
<1>4. \A d \in Clients : Grows(d) /\ \A k \in New(d) : toClient'[d][k] = Plain("HIT_STAND")
  BY <1>1, <1>3, NobodyAsked
<1>5. serverPc' = "dealer" => AllTold
  BY <1>2 DEF NamesInv
<1>6. QED
  BY <1>1, <1>3, <1>4, <1>5, GameStep

LEMMA ResultsAre ==
  ASSUME ServerTypeOK
  PROVE  /\ Results \in Seq(DownMessage)
         /\ \A i \in 1..Len(Results) :
              Results[i] = IF i = 1 THEN AllCards(Len(players)) ELSE Plain("END")
<1> DEFINE x == AllCards(Len(players))
           y == Plain("END")
<1>1. x \in DownMessage /\ y \in DownMessage
  BY SeatsDomain, MessageTypes
<1>2. Results = <<x>> \o <<y>> \/ Results = <<x>> \o << >>
  BY DEF Results
<1> HIDE DEF x, y
<1>3. /\ <<x>> \in Seq(DownMessage) /\ Len(<<x>>) = 1 /\ <<x>>[1] = x
      /\ <<y>> \in Seq(DownMessage) /\ Len(<<y>>) = 1 /\ <<y>>[1] = y
  BY <1>1
<1>4. CASE Results = <<x>> \o <<y>>
  <2>1. /\ <<x>> \o <<y>> \in Seq(DownMessage) /\ Len(<<x>> \o <<y>>) = 2
        /\ \A i \in 1..2 : (<<x>> \o <<y>>)[i] = IF i <= 1 THEN <<x>>[i] ELSE <<y>>[i - 1]
    BY <1>3, ConcatProperties
  <2>2. (<<x>> \o <<y>>)[1] = x /\ (<<x>> \o <<y>>)[2] = y
    BY <1>3, <2>1
  <2>3. \A i \in 1..2 : i = 1 \/ i = 2
    OBVIOUS
  <2>4. Results \in Seq(DownMessage) /\ Len(Results) = 2 /\ Results[1] = x /\ Results[2] = y
    BY <1>4, <2>1, <2>2
  <2>5. QED
    BY <2>3, <2>4 DEF x, y
<1>5. CASE Results = <<x>> \o << >>
  <2>1. Results = <<x>>
    BY <1>3, <1>5, ConcatEmptySeq
  <2>2. Results \in Seq(DownMessage) /\ Len(Results) = 1 /\ Results[1] = x
    BY <1>3, <2>1
  <2>3. QED
    BY <2>2 DEF x
<1>6. QED
  BY <1>2, <1>4, <1>5

\* What is sent at the showdown, behind all there was.
LEMMA HandsSent ==
  ASSUME MoveInv, Showdown, NEW d \in Clients
  PROVE  /\ Grows(d)
         /\ \A k \in New(d) :
              /\ d \in Seated /\ conn[d] = "on"
              /\ toClient'[d][k] = IF k = Len(toClient[d]) + 1
                                   THEN AllCards(Len(players)) ELSE Plain("END")
<1> DEFINE q == toClient[d]
<1>1. NetTypeOK /\ ServerTypeOK /\ q \in Seq(DownMessage) /\ Len(q) \in Nat
  BY LenProperties DEF MoveInv, TypeInv, TypeOK, NetTypeOK
<1>2. CASE d \in Seated /\ conn[d] = "on"
  <2>1. toClient'[d] = q \o Results
    BY <1>2 DEF Showdown
  <2>2. /\ Extends(q, q \o Results)
        /\ \A k \in (Len(q) + 1)..Len(q \o Results) :
             k - Len(q) \in 1..Len(Results) /\ (q \o Results)[k] = Results[k - Len(q)]
    BY <1>1, ResultsAre, ConcatExtends
  <2>3. ASSUME NEW k \in New(d)
        PROVE  toClient'[d][k] = IF k = Len(q) + 1
                                 THEN AllCards(Len(players)) ELSE Plain("END")
    <3>1. /\ k \in (Len(q) + 1)..Len(q \o Results) /\ k \in Int
          /\ k - Len(q) = 1 <=> k = Len(q) + 1
      BY <1>1, <2>1 DEF New
    <3> HIDE DEF q
    <3>2. /\ k - Len(q) \in 1..Len(Results)
          /\ toClient'[d][k] = Results[k - Len(q)]
      BY <2>1, <2>2, <3>1
    <3>3. QED
      BY <1>1, <3>1, <3>2, ResultsAre
  <2>4. QED
    BY <1>2, <2>1, <2>2, <2>3 DEF Grows
<1>3. CASE ~(d \in Seated /\ conn[d] = "on")
  <2>1. toClient'[d] = toClient[d]
    BY <1>3 DEF Showdown
  <2>2. QED
    BY <1>1, <2>1, NewNone
<1>4. QED
  BY <1>2, <1>3

\* The hands are sent behind the last list of names.
LEMMA ShowdownNames ==
  ASSUME MoveInv, TypeInv', NamesInv, Showdown, UNCHANGED clientVars
  PROVE  NamesInv'
<1> USE DEF MoveInv, TypeInv, TypeOK
<1>1. /\ UNCHANGED <<conn, toServer, pc, numPlayers>> /\ serverPc' = "ignore" /\ AllTold
  BY DEF Showdown, clientVars, NamesInv
<1>2. SameClients
  BY ShowdownSeats, SettledSeats, SeatsDomain DEF SameClients
<1>3. Seated' = Seated /\ \A d \in Clients : Newest(d)' <=> Newest(d)
  BY <1>2, SameClientsSit, SameNewest
<1>4. ASSUME NEW d \in Clients
      PROVE  /\ Grows(d)
             /\ \A k \in New(d) :
                  /\ d \in Seated /\ conn[d] = "on"
                  /\ toClient'[d][k] = IF k = Len(toClient[d]) + 1
                                       THEN AllCards(Len(players)) ELSE Plain("END")
  BY HandsSent
<1>5. /\ AllCards(Len(players)).n = Len(players) /\ ~Counts(AllCards(Len(players)))
      /\ ~Counts(Plain("END")) /\ Plain("END").type # "CARDS_STRING"
  BY DEF AllCards, Plain, Counts
<1>6. ASSUME NEW d \in Clients PROVE HandsKnown(d)'
  <2>1. ASSUME NEW k \in New(d), toClient'[d][k].type = "CARDS_STRING"
        PROVE  /\ Known(toClient[d], numPlayers[d], Len(toClient[d]) + 1, toClient'[d][k].n)
               /\ k = Len(toClient[d]) + 1
    <3>1. Told(d)
      BY <1>1, <1>4, <2>1 DEF AllTold
    <3>2. k = Len(toClient[d]) + 1 /\ toClient'[d][k].n = Len(players)
      BY <1>4, <1>5, <2>1
    <3>3. QED
      BY <3>1, <3>2 DEF Told
  <2>2. HandsKnown(d) /\ Grows(d) /\ numPlayers'[d] = numPlayers[d]
    BY <1>1, <1>4 DEF NamesInv
  <2>3. QED
    BY <2>1, <2>2, HandsKnownGrows
<1>7. ASSUME NEW d \in Clients PROVE AnnouncedFirst(d)'
  BY <1>1, <1>4, ServedAnnounced DEF NamesInv
<1>8. AllTold'
  <2>1. ASSUME NEW d \in Clients, Told(d) PROVE Told(d)'
    <3>1. \A k \in New(d) : ~Counts(toClient'[d][k])
      BY <1>4, <1>5
    <3>2. Grows(d) /\ numPlayers'[d] = numPlayers[d] /\ Len(players') = Len(players)
      BY <1>1, <1>2, <1>4 DEF SameClients
    <3>3. QED
      BY <2>1, <3>1, <3>2, ToldGrows
  <2>2. QED
    BY <1>1, <1>3, <2>1 DEF AllTold
<1>9. QED
  BY <1>6, <1>7, <1>8 DEF NamesInv

-----------------------------------------------------------------------------
(* A player joins, and is named.                                           *)

\* A newcomer's announcement comes before its name, so the name comes.
LEMMA CreateNewPlayerNames ==
  ASSUME MoveInv, TypeInv', NamesInv, NEW c \in Clients, CreateNewPlayer(c),
         UNCHANGED clientVars
  PROVE  NamesInv'
<1> USE DEF MoveInv, TypeInv, TypeOK
<1>1. /\ UNCHANGED <<conn, pc, numPlayers>> /\ serverPc' = "loop"
      /\ Len(players') = Len(players) + 1 /\ players'[Len(players) + 1].client = c
      /\ Len(players) \in Nat
  <2>1. UNCHANGED <<pc, numPlayers>>
    BY DEF clientVars
  <2>2. NewPlayer(c).client = c
    BY DEF NewPlayer
  <2>3. QED
    BY <2>1, <2>2, CreateNewPlayerSeats, SeatsDomain
<1>2. \A d \in Clients : \/ toServer'[d] = toServer[d]
                         \/ toServer[d] # << >> /\ toServer'[d] = Tail(toServer[d])
  BY ReceiveQueue DEF CreateNewPlayer
<1>3. /\ toServer[c] # << >> /\ Head(toServer[c]) = "NEW_CONNECTION"
      /\ toServer'[c] = Tail(toServer[c]) /\ Announced(c) # {}
  BY ReceiveQueue, ReceiveAnnounces DEF CreateNewPlayer
<1>4. ASSUME NEW d \in Clients
      PROVE  Grows(d) /\ \A k \in New(d) : toClient'[d][k].type # "CARDS_STRING"
  <2>1. CASE toClient'[d] = toClient[d]
    BY <2>1, NewNone
  <2>2. CASE d = c /\ conn[c] = "on"
    <3> DEFINE r == <<PlayerId(lastPlayerID), Current(Len(players'))>>
    <3>1. r \in Seq(DownMessage)
      BY <1>1, MessageTypes DEF ServerTypeOK
    <3>2. \A i \in 1..Len(r) : r[i].type # "CARDS_STRING"
      BY DEF PlayerId, Current
    <3>3. toClient'[d] = toClient[d] \o r
      BY <2>2 DEF CreateNewPlayer, NetTypeOK
    <3> HIDE DEF r
    <3>4. toClient[d] \in Seq(DownMessage)
      BY DEF NetTypeOK
    <3>5. QED
      BY <2>2, <3>1, <3>2, <3>3, <3>4, ConcatExtends DEF Grows, New
  <2>3. QED
    BY <2>1, <2>2 DEF CreateNewPlayer, NetTypeOK
<1>5. ASSUME NEW d \in Clients PROVE AnnouncedFirst(d)' /\ HandsKnown(d)'
  <2>1. AnnouncedFirst(d) /\ HandsKnown(d) /\ numPlayers'[d] = numPlayers[d]
    BY <1>1 DEF NamesInv
  <2>2. AnnouncedFirst(d)'
    BY <1>1, <1>2, <1>4, <2>1, ServedAnnounced
  <2>3. HandsKnown(d)'
    BY <1>4, <2>1, HandsKnownGrows
  <2>4. QED
    BY <2>2, <2>3
<1>6. NameComes(c)'
  <2>1. NameComes(c)
    BY <1>3 DEF NamesInv, AnnouncedFirst
  <2>2. Downs(c)
    BY <1>3 DEF Downs
  <2>3. QED
    BY <1>1, <1>4, <2>1, <2>2, NameComesKept
<1>7. \A d \in Clients : Newest(d)' => d = c
  BY <1>1 DEF Newest
<1>8. QED
  BY <1>1, <1>5, <1>6, <1>7 DEF NamesInv

\* The list of names tells everybody how many players there are.
LEMMA NameListTells ==
  ASSUME MoveInv, TypeInv', NEW c \in Clients, UpdatePlayerName(c), UNCHANGED clientVars,
         PlayerIdx(c) <= Len(players), NEW d \in Clients
  PROVE  /\ Grows(d) /\ \A k \in New(d) : toClient'[d][k].type # "CARDS_STRING"
         /\ d \in Seated /\ conn[d] = "on" => Told(d)'
<1> USE DEF MoveInv, TypeInv, TypeOK
<1> DEFINE m == NameList(players')
<1>1. Len(players') >= 1 /\ players' \in Seq(Player)
  BY NameOrHandSeats, SeatedIdx DEF SeatsStay, ServerTypeOK
<1>2. m \in DownMessage /\ m.type = "JOINED_GAME" /\ m.n = Len(players')
  BY <1>1, NameListType DEF NameList, Joined
<1>3. toClient' = Sent(NameListTo(c), m) /\ NameListTo(c) = Seated
  BY DEF UpdatePlayerName, NameListTo
<1> HIDE DEF m
<1>4. /\ Grows(d) /\ \A k \in New(d) : toClient'[d][k] = m
      /\ d \in Seated /\ conn[d] = "on" => Len(toClient'[d]) = Len(toClient[d]) + 1
  BY <1>2, <1>3, SentGrows
<1>5. ASSUME d \in Seated, conn[d] = "on" PROVE Told(d)'
  <2> DEFINE r == toClient'[d]
  <2>1. Len(toClient[d]) \in Nat
    BY LenProperties DEF NetTypeOK
  <2>2. Len(r) \in Nat \ {0} /\ Len(r) \in New(d)
    BY <1>4, <1>5, <2>1 DEF New
  <2>3. r[Len(r)] = m
    BY <1>4, <2>2
  <2>4. Counts(r[Len(r)]) /\ r[Len(r)].n = Len(players')
    BY <1>2, <2>3 DEF Counts
  <2> HIDE DEF r
  <2>5. Known(r, numPlayers'[d], Len(r) + 1, Len(players'))
    BY <2>2, <2>4, KnownLast
  <2>6. QED
    BY <2>5 DEF Told, r
<1>6. QED
  BY <1>2, <1>4, <1>5

LEMMA NameNames ==
  ASSUME MoveInv, TypeInv', SeatInv, NamesInv, NEW c \in Clients, UpdatePlayerName(c),
         UNCHANGED clientVars
  PROVE  NamesInv'
<1> USE DEF MoveInv, TypeInv, TypeOK
<1>1. /\ UNCHANGED <<conn, pc, numPlayers>> /\ serverPc' = "loop"
      /\ Len(players') = Len(players)
  BY UpdatePlayerNameSeats DEF clientVars, UpdatePlayerName, Receive
<1>2. SameClients
  BY UpdatePlayerNameSeats DEF SameClients
<1>3. Seated' = Seated /\ \A d \in Clients : Newest(d)' <=> Newest(d)
  BY <1>2, SameClientsSit, SameNewest
<1>4. \A d \in Clients : \/ toServer'[d] = toServer[d]
                         \/ toServer[d] # << >> /\ toServer'[d] = Tail(toServer[d])
  BY ReceiveQueue DEF UpdatePlayerName
<1>5. ASSUME NEW d \in Clients
      PROVE  Grows(d) /\ \A k \in New(d) : toClient'[d][k].type # "CARDS_STRING"
  <2>1. CASE PlayerIdx(c) <= Len(players)
    BY <2>1, NameListTells
  <2>2. CASE ~(PlayerIdx(c) <= Len(players))
    BY <2>2, NewNone DEF UpdatePlayerName
  <2>3. QED
    BY <2>1, <2>2
<1>6. ASSUME NEW d \in Clients PROVE AnnouncedFirst(d)' /\ HandsKnown(d)'
  <2>1. AnnouncedFirst(d) /\ HandsKnown(d) /\ numPlayers'[d] = numPlayers[d]
    BY <1>1 DEF NamesInv
  <2>2. AnnouncedFirst(d)'
    BY <1>1, <1>4, <1>5, <2>1, ServedAnnounced
  <2>3. HandsKnown(d)'
    BY <1>5, <2>1, HandsKnownGrows
  <2>4. QED
    BY <2>2, <2>3
<1>7. CASE PlayerIdx(c) <= Len(players)
  <2>1. AllTold'
    BY <1>1, <1>3, <1>7, NameListTells DEF AllTold
  <2>2. QED
    BY <1>1, <1>6, <2>1 DEF NamesInv
<1>8. CASE ~(PlayerIdx(c) <= Len(players))
  <2>1. UNCHANGED <<players, toClient>>
    BY <1>8 DEF UpdatePlayerName
  <2>2. AllTold => AllTold'
    BY <1>1, <1>3, <2>1 DEF AllTold, Told
  <2>3. ASSUME NEW d \in Clients, Newest(d), NameComes(d) PROVE NameComes(d)'
    <3>1. d # c
      <4>1. d \in Seated
        BY <2>3, SeatsDomain DEF Newest, Seated, ServerTypeOK
      <4>2. c \notin Seated
        BY <1>8, SeatsDomain, SeatOfClient DEF Seated, SeatInv
      <4>3. QED
        BY <4>1, <4>2
    <3>2. toServer'[d] = toServer[d]
      BY <3>1, ReceiveQueue DEF UpdatePlayerName
    <3>3. QED
      BY <1>1, <1>5, <2>3, <3>2, NameComesKept DEF Uploads
  <2>4. QED
    BY <1>1, <1>3, <1>6, <2>2, <2>3 DEF NamesInv
<1>9. QED
  BY <1>7, <1>8

-----------------------------------------------------------------------------
(* The whole system.                                                       *)

LEMMA NextNames == MoveInv /\ TypeInv' /\ SeatInv /\ NamesInv /\ [Next]_vars => NamesInv'
<1> SUFFICES ASSUME MoveInv, TypeInv', SeatInv, NamesInv, [Next]_vars PROVE NamesInv'
  OBVIOUS
<1>1. CASE ServerDoEnd
  BY <1>1, QuietNames, ShowdownNames DEF ServerDoEnd, ServerEnds
<1>2. ASSUME NEW c \in Clients, ServerThread(c) PROVE NamesInv'
  BY <1>2, CreateNewPlayerNames, NameNames, HitNames, StandNames, ReadyNames
     DEF ServerThread, ServerReceives
<1>3. CASE Operator \/ UNCHANGED vars
  <2>1. UNCHANGED clientVars
    BY <1>3 DEF Operator, vars
  <2>2. QED
    BY <1>3, <2>1, QuietNames DEF Operator
<1>4. ASSUME NEW c \in Clients,
             \/ ClientReceives(c) \/ ClientReady(c) \/ UserStarts(c) \/ UserReady(c)
             \/ UserMoves(c) \/ UserRestarts(c) \/ UserDeclines(c) \/ PeerNotices(c)
      PROVE  NamesInv'
  BY <1>4, ClientNames
<1>5. QED
  BY <1>1, <1>2, <1>3, <1>4 DEF Next

LEMMA InitNames == Init => NamesInv
<1> SUFFICES ASSUME Init PROVE NamesInv
  OBVIOUS
<1>1. players = << >> /\ serverPc = "loop"
  BY DEF Init, ServerInit
<1>2. ASSUME NEW d \in Clients
      PROVE  conn[d] = "off" /\ toServer[d] = << >> /\ toClient[d] = << >> /\ pc[d] = "off"
  BY DEF Init, NetInit, ClientInit
<1>3. \A d \in Clients : Announced(d) = {}
  BY <1>2 DEF Announced, At
<1>4. \A d \in Clients : AnnouncedFirst(d) /\ HandsKnown(d)
  BY <1>2, <1>3 DEF AnnouncedFirst, HandsKnown
<1>5. QED
  BY <1>1, <1>4 DEF NamesInv, Newest

\* The final hands are as many as their reader expects: SendAllPlayersCardsString
\* writes one for each player of the vector, RecieveAllCards reads numPlayers of
\* them, and numPlayers, which only the lists of names keep fresh, is the same
\* number, whoever joined while the game was on.
THEOREM HandsComplete == Spec => []FinalHandsComplete
<1>1. MoveInv /\ SeatInv /\ [Next]_vars /\ (MoveInv /\ SeatInv)' /\ NamesInv => NamesInv'
  BY NextNames DEF MoveInv
<1>2. MoveInv /\ NamesInv => FinalHandsComplete
  <2> SUFFICES ASSUME MoveInv, NamesInv, NEW c \in Clients, toClient[c] # << >>,
                      Head(toClient[c]).type = "CARDS_STRING"
               PROVE  numPlayers[c] = Head(toClient[c]).n
    BY DEF FinalHandsComplete
  <2>1. 1 \in DOMAIN toClient[c] /\ toClient[c][1] = Head(toClient[c])
    BY DEF MoveInv, TypeInv, TypeOK, NetTypeOK
  <2>2. Known(toClient[c], numPlayers[c], 1, Head(toClient[c]).n)
    BY <2>1 DEF NamesInv, HandsKnown
  <2>3. \A j \in 0..(1 - 1) : j = 0
    OBVIOUS
  <2>4. QED
    BY <2>2, <2>3 DEF Known
<1>3. QED
  BY InitNames, <1>1, <1>2, SeatsAndTurn, PTL DEF Spec

-----------------------------------------------------------------------------
(* Who is there, and who has agreed to play.                               *)

Readies(d) == At(toServer[d], {"READY"})

\* The server has been told, or will be, of a client that is connected or has
\* sent something.
Heard(d) ==
  conn[d] = "on" \/ toServer[d] # << >> => Announced(d) # {} \/ d \in Seated

\* A client that is not connected does nothing.
Outside(d) ==
  /\ conn[d] \in {"gone", "lost"} => pc[d] = "exit"
  /\ conn[d] \in {"off", "refused"} =>
       /\ pc[d] \in {"off", "loop"} /\ ~preReadyToStart[d]
       /\ toClient[d] = << >> /\ toServer[d] = << >>

PresentInv == \A d \in Clients : Heard(d) /\ Outside(d)

NobodyRestarted == \A d \in Clients : restarts[d] = 0

\* A client that has not restarted is counted once.
ReadyOnce(d) ==
  /\ Lone(Readies(d))
  /\ Readies(d) # {} => readySent[d] /\ d \notin consent
  /\ d \in consent => readySent[d] /\ d \in Seated

ReadyInv ==
  NobodyRestarted => /\ \A d \in Clients : ReadyOnce(d)
                     /\ numPlayersReadyToStart = Cardinality(consent)

\* A client of which the server receives something has a seat, unless it is
\* the announcement.
LEMMA SenderSits ==
  ASSUME MoveInv, NamesInv, PresentInv, NEW c \in Clients, NEW m, Receive(c, m),
         m # "NEW_CONNECTION"
  PROVE  c \in Seated
<1>1. toServer[c] # << >> /\ toServer[c] \in Seq(UpMessage) /\ Head(toServer[c]) = m
  BY DEF Receive, MoveInv, TypeInv, TypeOK, NetTypeOK
<1>2. toServer[c][1] = m
  BY <1>1
<1>3. 1 \notin Announced(c)
  BY <1>2 DEF Announced, At
<1>4. Announced(c) = {}
  BY <1>3 DEF NamesInv, AnnouncedFirst
<1>5. QED
  BY <1>1, <1>4 DEF PresentInv, Heard

\* What is sent to a client that is not connected is dropped.
LEMMA OnlyConnectedAreSent ==
  ASSUME MoveInv, NEW c \in Clients, ServerThread(c) \/ ServerDoEnd \/ Operator,
         NEW d \in Clients, conn[d] # "on"
  PROVE  toClient'[d] = toClient[d]
<1> USE DEF MoveInv, TypeInv, TypeOK, NetTypeOK
<1>1. ASSUME NEW ps, NEW cur, GameLoop(ps, cur) PROVE toClient'[d] = toClient[d]
  BY <1>1 DEF GameLoop, Sent
<1>2. CASE ServerThread(c)
  BY <1>1, <1>2 DEF ServerThread, ServerReceives, CreateNewPlayer, UpdatePlayerName, Hit,
                    AsksAgain, Stand, PlayerReady, StartGame, Sent
<1>3. CASE ServerDoEnd
  BY <1>3 DEF ServerDoEnd, ServerEnds, DealerDraw, Showdown, IgnoreKey, netVars
<1>4. CASE Operator
  BY <1>4 DEF Operator, PressEnter, netVars
<1>5. QED
  BY <1>2, <1>3, <1>4

\* Nobody loses a seat.
LEMMA SeatedStay ==
  ASSUME MoveInv, TypeInv', SeatInv, NEW c \in Clients,
         ServerThread(c) \/ ServerDoEnd \/ Operator
  PROVE  Seated \subseteq Seated' /\ (CreateNewPlayer(c) => c \in Seated')
<1>1. ServerTypeOK /\ ServerTypeOK'
  BY DEF MoveInv, TypeInv, TypeOK
<1>2. SameClients => Seated' = Seated
  BY <1>1, SameClientsSit
<1>3. CASE CreateNewPlayer(c)
  <2>1. /\ DOMAIN players = 1..Len(players) /\ Len(players) \in Nat
        /\ DOMAIN players' = 1..(Len(players) + 1)
        /\ \A i \in 1..Len(players) : players'[i] = players[i]
        /\ players'[Len(players) + 1].client = c
    <3>1. DOMAIN players' = 1..Len(players')
      BY <1>1 DEF ServerTypeOK
    <3>2. NewPlayer(c).client = c
      BY DEF NewPlayer
    <3>3. QED
      BY <1>1, <1>3, <3>1, <3>2, SeatsDomain, CreateNewPlayerSeats
  <2>2. Seated \subseteq Seated'
    BY <2>1 DEF Seated
  <2>3. c \in Seated'
    BY <2>1 DEF Seated
  <2>4. QED
    BY <2>2, <2>3
<1>4. CASE ServerThread(c) /\ ~CreateNewPlayer(c)
  <2>1. pc' = pc
    BY <1>4 DEF ServerThread, clientVars
  <2>2. SameClients
    BY <1>1, <1>4, <2>1, UpdatePlayerNameSeats, HitSameClients, StandSameClients,
       ReadySameClients DEF ServerThread, ServerReceives, SameClients
  <2>3. QED
    BY <1>2, <1>4, <2>2
<1>5. CASE Showdown
  <2>1. SameClients
    BY <1>1, <1>5, ShowdownSeats, SettledSeats, SeatsDomain DEF SameClients
  <2>2. serverPc # "loop"
    BY <1>5 DEF Showdown
  <2>3. ~CreateNewPlayer(c)
    BY <2>2 DEF CreateNewPlayer, Receive
  <2>4. QED
    BY <1>2, <2>1, <2>3
<1>6. CASE DealerDraw \/ IgnoreKey \/ PressEnter
  <2>1. players' = players /\ toServer' = toServer
    BY <1>6 DEF DealerDraw, IgnoreKey, PressEnter, netVars
  <2>2. Seated' = Seated
    BY <2>1 DEF Seated
  <2>3. QED
    BY <1>3, <2>2
<1>7. QED
  BY <1>3, <1>4, <1>5, <1>6 DEF ServerDoEnd, ServerEnds, Operator

LEMMA ServerPresence ==
  ASSUME MoveInv, TypeInv', SeatInv, NamesInv, PresentInv, NEW c \in Clients,
         ServerThread(c) \/ ServerDoEnd \/ Operator
  PROVE  PresentInv'
<1> SUFFICES ASSUME NEW d \in Clients PROVE Heard(d)' /\ Outside(d)'
  BY DEF PresentInv
<1> USE DEF MoveInv, TypeInv, TypeOK
<1>1. /\ UNCHANGED <<conn, pc, preReadyToStart>>
      /\ Heard(d) /\ Outside(d)
  BY DEF PresentInv, ServerThread, ServerReceives, ServerDoEnd, ServerEnds, Operator,
         clientVars, CreateNewPlayer, UpdatePlayerName, Hit, Stand, PlayerReady,
         DealerDraw, Showdown, IgnoreKey, PressEnter, netVars
<1>2. Seated \subseteq Seated'
  BY SeatedStay
<1>3. CASE toServer'[d] = toServer[d]
  <2>1. Announced(d)' = Announced(d)
    BY <1>3 DEF Announced
  <2>2. QED
    BY <1>1, <1>2, <1>3, <2>1, OnlyConnectedAreSent DEF Heard, Outside
<1>4. CASE d = c /\ ServerThread(c)
  <2>1. /\ toServer[c] # << >>
        /\ \/ CreateNewPlayer(c)
           \/ \E m \in {"PLAYERNAME", "READY", "HIT", "STAND"} : Receive(c, m)
    BY <1>4 DEF ServerThread, ServerReceives, CreateNewPlayer, UpdatePlayerName, Hit,
                Stand, PlayerReady, Receive
  <2>2. c \in Seated'
    BY <1>2, <1>4, <2>1, SenderSits, SeatedStay
  <2>3. toServer[c] # << >>
    BY <2>1
  <2>4. conn[c] \notin {"off", "refused"}
    BY <1>1, <1>4, <2>3 DEF Outside
  <2>5. QED
    BY <1>1, <1>4, <2>2, <2>4 DEF Heard, Outside
<1>5. CASE d # c \/ ~ServerThread(c)
  <2>1. toServer'[d] = toServer[d]
    BY <1>5, ReceiveQueue
       DEF ServerThread, ServerReceives, ServerDoEnd, ServerEnds, Operator,
           CreateNewPlayer, UpdatePlayerName, Hit, Stand, PlayerReady, DealerDraw,
           Showdown, IgnoreKey, PressEnter, netVars
  <2>2. QED
    BY <1>3, <2>1
<1>6. QED
  BY <1>4, <1>5

\* Only a client that is connected acts, and what it sends is no announcement.
ActsConnected(c) ==
  /\ conn[c] = "on" /\ conn' = conn
  /\ \/ toServer'[c] = toServer[c] /\ (readySent'[c] = readySent[c] \/ AnswerYes(c))
     \/ \E m \in UpMessage \ {"NEW_CONNECTION", "READY"} :
          toServer'[c] = Append(toServer[c], m) /\ readySent'[c] = readySent[c]
     \/ /\ ~readySent[c] /\ readySent'[c]
        /\ toServer'[c] = Append(toServer[c], "READY")

LEMMA ConnectedReceives ==
  ASSUME MoveInv, PresentInv, NEW c \in Clients,
         \/ Accepted(c) \/ SetPlayerID(c) \/ PrintCurrentPlayers(c) \/ UpdatePlayers(c)
         \/ HitorStand(c) \/ RecieveAllCards(c) \/ RecieveString(c)
  PROVE  ActsConnected(c)
<1> USE DEF MoveInv, TypeInv, TypeOK, NetTypeOK
<1>1. /\ conn' = conn /\ readySent' = readySent /\ pc[c] = "loop" /\ toClient[c] # << >>
  BY DEF Accepted, SetPlayerID, PrintCurrentPlayers, UpdatePlayers, HitorStand,
         RecieveAllCards, RecieveString, Take, clientVars
<1>2. conn[c] = "on"
  BY <1>1 DEF PresentInv, Outside, ConnState
<1>3. CASE Accepted(c)
  <2>1. toServer'[c] = Append(toServer[c], "PLAYERNAME")
    BY <1>3 DEF Accepted, Uploaded
  <2>2. "PLAYERNAME" \in UpMessage \ {"NEW_CONNECTION", "READY"}
    BY DEF UpMessage
  <2>3. QED
    BY <1>1, <1>2, <2>1, <2>2 DEF ActsConnected
<1>4. CASE ~Accepted(c)
  <2>1. toServer' = toServer
    BY <1>4 DEF SetPlayerID, PrintCurrentPlayers, UpdatePlayers, HitorStand,
                RecieveAllCards, RecieveString
  <2>2. QED
    BY <1>1, <1>2, <2>1 DEF ActsConnected
<1>5. QED
  BY <1>3, <1>4

LEMMA ConnectedUsers ==
  ASSUME MoveInv, PresentInv, NEW c \in Clients,
         \/ SendReady(c) \/ EnterReady(c) \/ AnswerYes(c) \/ AnswerOther(c)
         \/ \E key \in UserKeys : TestTest(c, key)
  PROVE  ActsConnected(c)
<1> USE DEF MoveInv, TypeInv, TypeOK, NetTypeOK
<1>1. conn' = conn /\ toServer[c] \in Seq(UpMessage)
  BY DEF SendReady, EnterReady, AnswerYes, AnswerOther, TestTest, netVars
<1>2. \/ pc[c] = "loop" /\ preReadyToStart[c]
      \/ pc[c] \in {"ready", "again", "move", "restart"}
  BY DEF SendReady, MustSendReady, EnterReady, AnswerYes, AnswerOther, TestTest
<1>3. conn[c] = "on"
  BY <1>2 DEF PresentInv, Outside, ConnState
<1>4. CASE SendReady(c)
  <2>1. ~readySent[c] /\ readySent'[c] /\ toServer'[c] = Append(toServer[c], "READY")
    BY <1>4 DEF SendReady, MustSendReady, Uploaded, ClientTypeOK
  <2>2. QED
    BY <1>1, <1>3, <2>1 DEF ActsConnected
<1>5. CASE EnterReady(c) \/ AnswerYes(c) \/ AnswerOther(c)
  <2>1. toServer' = toServer /\ (readySent' = readySent \/ AnswerYes(c))
    BY <1>5 DEF EnterReady, AnswerOther, AnswerYes, netVars
  <2>2. QED
    BY <1>1, <1>3, <2>1 DEF ActsConnected
<1>6. ASSUME NEW key \in UserKeys, TestTest(c, key) PROVE ActsConnected(c)
  <2>1. readySent' = readySent /\ toServer'[c] = toServer[c] \o Answer(key)
    BY <1>6 DEF TestTest
  <2>2. CASE key \in {"h", "s"}
    <3>1. PICK m \in {"HIT", "STAND"} : Answer(key) = <<m>>
      BY <2>2 DEF Answer
    <3>2. /\ toServer[c] \o <<m>> = Append(toServer[c], m)
          /\ m \in UpMessage \ {"NEW_CONNECTION", "READY"}
      BY <1>1 DEF UpMessage
    <3>3. QED
      BY <1>1, <1>3, <2>1, <3>1, <3>2 DEF ActsConnected
  <2>3. CASE key \notin {"h", "s"}
    <3>1. toServer[c] \o << >> = toServer[c] /\ Answer(key) = << >>
      BY <1>1, <2>3, ConcatEmptySeq DEF Answer
    <3>2. QED
      BY <1>1, <1>3, <2>1, <3>1 DEF ActsConnected
  <2>4. QED
    BY <2>2, <2>3
<1>7. QED
  BY <1>4, <1>5, <1>6

\* What happens to client c when it, its user or its connection does something.
LEMMA ClientActs ==
  ASSUME MoveInv, TypeInv', PresentInv, NEW c \in Clients,
         \/ ClientReceives(c) \/ ClientReady(c) \/ UserStarts(c) \/ UserReady(c)
         \/ UserMoves(c) \/ UserRestarts(c) \/ UserDeclines(c) \/ PeerNotices(c)
  PROVE  \/ ActsConnected(c)
         \/ Vanishes(c) /\ readySent'[c] = readySent[c]
         \/ UserStarts(c) \/ PeerNotices(c)
<1>1. AnswerNo(c) \/ CloseClient(c) => Vanishes(c) /\ readySent'[c] = readySent[c]
  BY GoneVanishes DEF AnswerNo, CloseClient
<1>2. QED
  BY <1>1, ConnectedReceives, ConnectedUsers
     DEF ClientReceives, ClientReady, UserReady, UserMoves, UserRestarts, UserDeclines

LEMMA OthersPrepared ==
  ASSUME MoveInv, NEW c \in Clients, NEW d \in Clients \ {c},
         \/ ClientReceives(c) \/ ClientReady(c) \/ UserStarts(c) \/ UserReady(c)
         \/ UserMoves(c) \/ UserRestarts(c) \/ UserDeclines(c) \/ PeerNotices(c)
  PROVE  preReadyToStart'[d] = preReadyToStart[d] /\ readySent'[d] = readySent[d]
<1> USE DEF MoveInv, TypeInv, TypeOK, ClientTypeOK
<1>1. CASE ClientReceives(c)
  BY <1>1 DEF ClientReceives, Accepted, SetPlayerID, PrintCurrentPlayers, UpdatePlayers,
              HitorStand, RecieveAllCards, RecieveString, clientVars
<1>2. CASE ClientReady(c) \/ UserReady(c) \/ UserMoves(c) \/ UserRestarts(c)
  BY <1>2 DEF ClientReady, SendReady, UserReady, EnterReady, UserMoves, TestTest,
              UserRestarts, AnswerYes
<1>3. CASE UserStarts(c) \/ UserDeclines(c) \/ PeerNotices(c)
  BY <1>3 DEF UserStarts, StartClient, UserDeclines, AnswerOther, AnswerNo, CloseClient,
              PeerNotices, clientVars
<1>4. QED
  BY <1>1, <1>2, <1>3

LEMMA ClientPresence ==
  ASSUME MoveInv, TypeInv', NamesInv, PresentInv, NEW c \in Clients,
         \/ ClientReceives(c) \/ ClientReady(c) \/ UserStarts(c) \/ UserReady(c)
         \/ UserMoves(c) \/ UserRestarts(c) \/ UserDeclines(c) \/ PeerNotices(c)
  PROVE  PresentInv'
<1> USE DEF MoveInv, TypeInv, TypeOK
<1>1. Seated' = Seated
  BY Bystander DEF Seated, serverVars
<1>2. ASSUME NEW d \in Clients \ {c} PROVE Heard(d)' /\ Outside(d)'
  <2>1. UNCHANGED <<toClient[d], toServer[d], pc[d], conn[d], preReadyToStart[d]>>
    BY OthersUnaware, OthersPrepared
  <2>2. Announced(d)' = Announced(d)
    BY <2>1 DEF Announced
  <2>3. QED
    BY <1>1, <2>1, <2>2 DEF PresentInv, Heard, Outside
<1>3. Heard(c) /\ Outside(c) /\ toServer[c] \in Seq(UpMessage)
  BY DEF PresentInv, NetTypeOK
<1>4. ASSUME ActsConnected(c) PROVE Heard(c)' /\ Outside(c)'
  <2>1. Announced(c)' = Announced(c)
    <3>1. ASSUME NEW m \in UpMessage \ {"NEW_CONNECTION"},
                 toServer'[c] = Append(toServer[c], m)
          PROVE  Announced(c)' = Announced(c)
      <4>1. At(Append(toServer[c], m), {"NEW_CONNECTION"}) = At(toServer[c], {"NEW_CONNECTION"})
        BY <1>3, AtAppend
      <4>2. QED
        BY <3>1, <4>1 DEF Announced
    <3>2. toServer'[c] = toServer[c] => Announced(c)' = Announced(c)
      BY DEF Announced
    <3>3. "READY" \in UpMessage \ {"NEW_CONNECTION"}
      BY DEF UpMessage
    <3>4. QED
      BY <1>4, <3>1, <3>2, <3>3 DEF ActsConnected
  <2>2. QED
    BY <1>1, <1>3, <1>4, <2>1 DEF ActsConnected, Heard, Outside
<1>5. ASSUME Vanishes(c) PROVE Heard(c)' /\ Outside(c)'
  <2>1. PICK k \in 0..Len(toServer[c]) : toServer'[c] = SubSeq(toServer[c], 1, k)
    BY <1>5 DEF Vanishes
  <2>2. ASSUME toServer'[c] # << >>, Announced(c) # {} PROVE Announced(c)' # {}
    <3>1. /\ Len(toServer[c]) \in Nat /\ DOMAIN toServer'[c] = 1..k
          /\ \A i \in 1..k : toServer'[c][i] = toServer[c][i]
          /\ toServer'[c] \in Seq(UpMessage) /\ Len(toServer'[c]) = k
      BY <1>3, <2>1, LenProperties, SubSeqProperties
    <3>2. 1 \in 1..k
      BY <2>2, <3>1, EmptySeq
    <3>3. 1 \in Announced(c)
      BY <2>2 DEF NamesInv, AnnouncedFirst
    <3>4. QED
      BY <3>1, <3>2, <3>3 DEF Announced, At
  <2>3. toServer'[c] # << >> => toServer[c] # << >>
    <3>1. toServer[c] = << >> => k = 0 /\ Len(SubSeq(toServer[c], 1, k)) = 0
      BY <1>3, <2>1, LenProperties, EmptySeq, SubSeqProperties
    <3>2. SubSeq(toServer[c], 1, k) \in Seq(UpMessage)
      BY <1>3, SubSeqProperties, LenProperties
    <3>3. QED
      BY <2>1, <3>1, <3>2, EmptySeq
  <2>4. QED
    BY <1>1, <1>3, <1>5, <2>2, <2>3 DEF Vanishes, Heard, Outside
<1>6. ASSUME UserStarts(c) PROVE Heard(c)' /\ Outside(c)'
  <2>1. /\ conn \in [Clients -> ConnState] /\ toServer \in [Clients -> Seq(UpMessage)]
        /\ toClient \in [Clients -> Seq(DownMessage)] /\ pc \in [Clients -> ClientPc]
    BY DEF NetTypeOK, ClientTypeOK
  <2>2. /\ conn[c] = "off" /\ pc'[c] = "loop" /\ preReadyToStart' = preReadyToStart
        /\ Connect(c)
    BY <1>6, <2>1 DEF UserStarts, StartClient, Goto, Connect
  <2>3. CASE conn'[c] = "on" /\ toServer'[c] = Append(toServer[c], "NEW_CONNECTION")
    <3>1. toServer[c] = << >>
      BY <1>3, <2>2 DEF Outside
    <3>2. toServer'[c] = <<"NEW_CONNECTION">>
      BY <2>3, <3>1
    <3>3. 1 \in Announced(c)'
      BY <3>2 DEF Announced, At
    <3>4. QED
      BY <2>3, <3>3 DEF Heard, Outside
  <2>4. CASE conn'[c] = "refused" /\ toServer' = toServer /\ toClient' = toClient
    <3>1. ~preReadyToStart[c] /\ toClient[c] = << >> /\ toServer[c] = << >>
      BY <1>3, <2>2 DEF Outside
    <3>2. QED
      BY <2>2, <2>4, <3>1 DEF Heard, Outside
  <2>5. QED
    BY <2>1, <2>2, <2>3, <2>4 DEF Connect, Uploaded
<1>7. ASSUME PeerNotices(c) PROVE Heard(c)' /\ Outside(c)'
  <2>1. /\ conn[c] = "gone" /\ conn'[c] = "lost"
        /\ UNCHANGED <<toServer, toClient, pc, preReadyToStart>>
    BY <1>7 DEF PeerNotices, ConnectionLost, clientVars, NetTypeOK
  <2>2. Announced(c)' = Announced(c)
    BY <2>1 DEF Announced
  <2>3. QED
    BY <1>1, <1>3, <2>1, <2>2 DEF Heard, Outside
<1>8. Heard(c)' /\ Outside(c)'
  BY <1>4, <1>5, <1>6, <1>7, ClientActs
<1>9. QED
  BY <1>2, <1>8 DEF PresentInv

-----------------------------------------------------------------------------
(* Who is counted.                                                         *)

LEMMA ClientReadies ==
  ASSUME MoveInv, TypeInv', PresentInv, ReadyInv, NEW c \in Clients,
         \/ ClientReceives(c) \/ ClientReady(c) \/ UserStarts(c) \/ UserReady(c)
         \/ UserMoves(c) \/ UserRestarts(c) \/ UserDeclines(c) \/ PeerNotices(c)
  PROVE  ReadyInv'
<1> USE DEF MoveInv, TypeInv, TypeOK
<1> SUFFICES ASSUME NobodyRestarted'
             PROVE  /\ \A d \in Clients : ReadyOnce(d)'
                    /\ numPlayersReadyToStart' = Cardinality(consent')
  BY DEF ReadyInv
<1>1. UserRestarts(c) => restarts'[c] = restarts[c] + 1
  BY DEF UserRestarts
<1>2. ~UserRestarts(c)
  BY <1>1 DEF NobodyRestarted
<1>3. restarts' = restarts /\ consent' = consent /\ UNCHANGED serverVars
  BY <1>2 DEF ClientReceives, ClientReady, UserStarts, UserReady, UserMoves, UserDeclines,
              PeerNotices
<1>4. /\ \A d \in Clients : ReadyOnce(d)
      /\ numPlayersReadyToStart = Cardinality(consent)
  BY <1>3 DEF ReadyInv, NobodyRestarted
<1>5. Seated' = Seated /\ numPlayersReadyToStart' = numPlayersReadyToStart
  BY <1>3 DEF Seated, serverVars
<1>6. ASSUME NEW d \in Clients \ {c} PROVE ReadyOnce(d)'
  <2>1. toServer'[d] = toServer[d] /\ readySent'[d] = readySent[d]
    BY OthersUnaware, OthersPrepared
  <2>2. Readies(d)' = Readies(d)
    BY <2>1 DEF Readies
  <2>3. QED
    BY <1>3, <1>4, <1>5, <2>1, <2>2 DEF ReadyOnce
<1>7. ReadyOnce(c) /\ toServer[c] \in Seq(UpMessage) /\ "READY" \in UpMessage
  BY <1>4 DEF NetTypeOK, UpMessage
<1>8. ASSUME Readies(c)' \subseteq Readies(c), readySent'[c] = readySent[c]
      PROVE  ReadyOnce(c)'
  BY <1>3, <1>5, <1>7, <1>8 DEF ReadyOnce, Lone
<1>9. ASSUME toServer'[c] = toServer[c], readySent'[c] = readySent[c]
      PROVE  ReadyOnce(c)'
  BY <1>8, <1>9 DEF Readies
<1>10. ASSUME NEW m \in UpMessage \ {"READY"}, toServer'[c] = Append(toServer[c], m),
              readySent'[c] = readySent[c]
       PROVE  ReadyOnce(c)'
  <2>1. At(Append(toServer[c], m), {"READY"}) = At(toServer[c], {"READY"})
    BY <1>7, AtAppend
  <2>2. QED
    BY <1>8, <1>10, <2>1 DEF Readies
<1>11. ASSUME ActsConnected(c) PROVE ReadyOnce(c)'
  <2>1. ~AnswerYes(c)
    <3>1. AnswerYes(c) => pc[c] = "restart"
      BY DEF AnswerYes
    <3>2. AnswerYes(c) => readySent'[c] = FALSE /\ toServer' = toServer
      BY DEF AnswerYes, netVars, ClientTypeOK
    <3>3. AnswerYes(c) => pc'[c] = "again"
      BY DEF AnswerYes, Goto, ClientTypeOK
    <3>4. QED
      BY <1>2, <3>1, <3>3
         DEF ClientReceives, Accepted, SetPlayerID, PrintCurrentPlayers, UpdatePlayers,
             HitorStand, RecieveAllCards, RecieveString, Take, ClientReady, SendReady,
             UserStarts, StartClient, UserReady, EnterReady, UserMoves, TestTest,
             UserDeclines, AnswerOther, AnswerNo, CloseClient, PeerNotices, clientVars,
             Goto, ClientTypeOK
  <2>2. ASSUME ~readySent[c], readySent'[c], toServer'[c] = Append(toServer[c], "READY")
        PROVE  ReadyOnce(c)'
    <3>1. Readies(c) = {} /\ c \notin consent
      BY <1>7, <2>2 DEF ReadyOnce
    <3>2. Lone(At(Append(toServer[c], "READY"), {"READY"}))
      BY <1>7, <3>1, AtAppend DEF Readies
    <3>3. QED
      BY <1>3, <2>2, <3>1, <3>2 DEF ReadyOnce, Readies
  <2>3. QED
    BY <1>9, <1>10, <1>11, <2>1, <2>2 DEF ActsConnected
<1>12. ASSUME Vanishes(c), readySent'[c] = readySent[c] PROVE ReadyOnce(c)'
  <2>1. PICK k \in 0..Len(toServer[c]) : toServer'[c] = SubSeq(toServer[c], 1, k)
    BY <1>12 DEF Vanishes
  <2>2. At(SubSeq(toServer[c], 1, k), {"READY"}) \subseteq At(toServer[c], {"READY"})
    BY <1>7, AtSubSeq
  <2>3. QED
    BY <1>8, <1>12, <2>1, <2>2 DEF Readies
<1>13. ASSUME UserStarts(c) PROVE ReadyOnce(c)'
  <2>1. /\ readySent'[c] = readySent[c]
        /\ \/ toServer'[c] = toServer[c]
           \/ toServer'[c] = Append(toServer[c], "NEW_CONNECTION")
    BY <1>13 DEF UserStarts, StartClient, Connect, Uploaded, NetTypeOK
  <2>2. "NEW_CONNECTION" \in UpMessage \ {"READY"}
    BY DEF UpMessage
  <2>3. QED
    BY <1>9, <1>10, <2>1, <2>2
<1>14. ASSUME PeerNotices(c) PROVE ReadyOnce(c)'
  BY <1>9, <1>14 DEF PeerNotices, ConnectionLost, clientVars
<1>15. ReadyOnce(c)'
  BY <1>11, <1>12, <1>13, <1>14, ClientActs
<1>16. QED
  BY <1>3, <1>4, <1>5, <1>6, <1>15

\* A step of the server that counts nobody and forgets nobody.
LEMMA NoneCounted ==
  ASSUME MoveInv, TypeInv', ReadyInv, Seated \subseteq Seated',
         UNCHANGED <<clientVars, restarts, consent, numPlayersReadyToStart>>,
         \A d \in Clients : Fewer(Readies(d), Readies(d)')
  PROVE  ReadyInv'
<1>1. readySent' = readySent
  BY DEF clientVars
<1>2. \A d \in Clients : ReadyOnce(d) => ReadyOnce(d)'
  BY <1>1 DEF ReadyOnce, Fewer
<1>3. QED
  BY <1>2 DEF ReadyInv, NobodyRestarted

LEMMA ReceivedReadies ==
  ASSUME MoveInv, TypeInv', NEW c \in Clients, NEW m, Receive(c, m), NEW d \in Clients
  PROVE  /\ Fewer(Readies(d), Readies(d)')
         /\ m = "READY" => /\ Readies(c) # {}
                           /\ Lone(Readies(c)) => Readies(c)' = {}
         /\ d # c => Readies(d)' = Readies(d)
<1>1. toServer[d] \in Seq(UpMessage) /\ toServer[c] \in Seq(UpMessage)
  BY DEF MoveInv, TypeInv, TypeOK, NetTypeOK
<1>2. /\ toServer[c] # << >> /\ Head(toServer[c]) = m
      /\ toServer'[c] = Tail(toServer[c])
      /\ d # c => toServer'[d] = toServer[d]
  BY ReceiveQueue
<1>3. Fewer(Readies(d), Readies(d)')
  BY <1>1, <1>2, AtTail DEF Readies, Fewer
<1>4. ASSUME m = "READY" PROVE Readies(c) # {} /\ (Lone(Readies(c)) => Readies(c)' = {})
  <2>1. 1 \in DOMAIN toServer[c] /\ toServer[c][1] = m
    BY <1>1, <1>2
  <2>2. Readies(c) # {}
    BY <1>4, <2>1 DEF Readies, At
  <2>3. Lone(At(toServer[c], {m})) => At(Tail(toServer[c]), {m}) = {}
    BY <1>1, <1>2, AtTail
  <2>4. QED
    BY <1>2, <1>4, <2>2, <2>3 DEF Readies
<1>5. QED
  BY <1>2, <1>3, <1>4 DEF Readies

LEMMA ConsentFinite ==
  ASSUME TypeInv
  PROVE  /\ consent \subseteq Clients /\ IsFiniteSet(consent)
         /\ Cardinality(consent) \in Nat
  BY NetAssumption, FS_Subset, FS_CardinalityType DEF TypeInv, TypeOK

\* The READY of a client that has not been counted.
LEMMA ReadyCounted ==
  ASSUME MoveInv, TypeInv', SeatInv, NamesInv, PresentInv, ReadyInv, NEW c \in Clients,
         ServerThread(c), PlayerReady(c), consent' = consent \cup {c}, NobodyRestarted
  PROVE  /\ \A d \in Clients : ReadyOnce(d)'
         /\ numPlayersReadyToStart' = Cardinality(consent')
         /\ consent' \subseteq Seated
<1>1. /\ \A d \in Clients : ReadyOnce(d)
      /\ numPlayersReadyToStart = Cardinality(consent)
  BY DEF ReadyInv
<1>2. /\ Receive(c, "READY") /\ numPlayersReadyToStart' = numPlayersReadyToStart + 1
      /\ readySent' = readySent
  BY DEF PlayerReady, ServerThread, clientVars
<1>3. Readies(c) # {} /\ (Lone(Readies(c)) => Readies(c)' = {})
  BY <1>2, ReceivedReadies
<1>4. c \notin consent /\ readySent[c] /\ Readies(c)' = {} /\ c \in Seated
  BY <1>1, <1>2, <1>3, SenderSits DEF ReadyOnce
<1>5. Seated \subseteq Seated'
  BY SeatedStay
<1>6. \A d \in Clients : d # c => Readies(d)' = Readies(d)
  BY <1>2, ReceivedReadies
<1>7. \A d \in Clients : ReadyOnce(d)'
  BY <1>1, <1>2, <1>4, <1>5, <1>6 DEF ReadyOnce, Lone
<1>8. Cardinality(consent \cup {c}) = Cardinality(consent) + 1
  BY <1>4, ConsentFinite, FS_AddElement DEF MoveInv
<1>9. consent' \subseteq Seated
  BY <1>1, <1>4, ConsentFinite DEF ReadyOnce, MoveInv
<1>10. QED
  BY <1>1, <1>2, <1>7, <1>8, <1>9

LEMMA ServerReadies ==
  ASSUME MoveInv, TypeInv', SeatInv, NamesInv, PresentInv, ReadyInv, NEW c \in Clients,
         ServerThread(c) \/ ServerDoEnd \/ Operator
  PROVE  ReadyInv'
<1>1. Seated \subseteq Seated' /\ UNCHANGED <<clientVars, restarts>>
  BY SeatedStay DEF ServerThread, ServerDoEnd, Operator
<1>2. NobodyRestarted' <=> NobodyRestarted
  BY <1>1 DEF NobodyRestarted
<1>3. CASE ServerThread(c) /\ PlayerReady(c) /\ consent' = consent \cup {c}
  BY <1>2, <1>3, ReadyCounted DEF ReadyInv
<1>4. CASE /\ CreateNewPlayer(c) \/ UpdatePlayerName(c) \/ Hit(c) \/ Stand(c)
           /\ consent' = consent
  <2>1. numPlayersReadyToStart' = numPlayersReadyToStart
    BY <1>4 DEF CreateNewPlayer, UpdatePlayerName, Hit, Stand
  <2>2. \A d \in Clients : Fewer(Readies(d), Readies(d)')
    BY <1>4, ReceivedReadies DEF CreateNewPlayer, UpdatePlayerName, Hit, Stand
  <2>3. QED
    BY <1>1, <1>4, <2>1, <2>2, NoneCounted
<1>5. CASE (DealerDraw \/ IgnoreKey \/ PressEnter) /\ consent' = consent
  <2>1. numPlayersReadyToStart' = numPlayersReadyToStart /\ toServer' = toServer
    BY <1>5 DEF DealerDraw, IgnoreKey, PressEnter, netVars
  <2>2. \A d \in Clients : Fewer(Readies(d), Readies(d)')
    BY <2>1 DEF Readies, Fewer
  <2>3. QED
    BY <1>1, <1>5, <2>1, <2>2, NoneCounted
<1>6. CASE Showdown /\ consent' = {}
  <2>1. /\ numPlayersReadyToStart' = 0 /\ toServer' = toServer /\ readySent' = readySent
    BY <1>1, <1>6 DEF Showdown, NobodyReady, clientVars
  <2>2. \A d \in Clients : Readies(d)' = Readies(d)
    BY <2>1 DEF Readies
  <2>3. \A d \in Clients : ReadyOnce(d) => ReadyOnce(d)'
    BY <1>6, <2>1, <2>2 DEF ReadyOnce
  <2>4. Cardinality(consent') = 0
    BY <1>6, FS_EmptySet
  <2>5. QED
    BY <1>2, <2>1, <2>3, <2>4 DEF ReadyInv
<1>7. QED
  BY <1>3, <1>4, <1>5, <1>6
     DEF ServerThread, ServerReceives, ServerDoEnd, ServerEnds, Operator

-----------------------------------------------------------------------------
(* A game that starts.                                                     *)

LEMMA NextReadies ==
  /\ MoveInv /\ TypeInv' /\ SeatInv /\ NamesInv /\ PresentInv /\ ReadyInv /\ [Next]_vars
  => PresentInv' /\ ReadyInv'
<1> SUFFICES ASSUME MoveInv, TypeInv', SeatInv, NamesInv, PresentInv, ReadyInv, [Next]_vars
             PROVE  PresentInv' /\ ReadyInv'
  OBVIOUS
<1>1. ASSUME NEW c \in Clients, ServerThread(c) \/ ServerDoEnd \/ Operator
      PROVE  PresentInv' /\ ReadyInv'
  BY <1>1, ServerPresence, ServerReadies
<1>2. ASSUME NEW c \in Clients,
             \/ ClientReceives(c) \/ ClientReady(c) \/ UserStarts(c) \/ UserReady(c)
             \/ UserMoves(c) \/ UserRestarts(c) \/ UserDeclines(c) \/ PeerNotices(c)
      PROVE  PresentInv' /\ ReadyInv'
  BY <1>2, ClientPresence, ClientReadies
<1>3. CASE UNCHANGED vars
  <2>1. UNCHANGED <<conn, toServer, toClient, players, numPlayersReadyToStart, consent,
                    pc, preReadyToStart, readySent, restarts>>
    BY <1>3 DEF vars, netVars, serverVars, clientVars
  <2>2. PresentInv'
    BY <2>1 DEF PresentInv, Heard, Outside, Announced, Seated
  <2>3. ReadyInv'
    BY <2>1 DEF ReadyInv, ReadyOnce, Readies, NobodyRestarted, Seated
  <2>4. QED
    BY <2>2, <2>3
<1>4. CASE (ServerDoEnd \/ Operator) /\ Clients = {}
  <2>1. consent = {} /\ consent' = {}
    BY <1>4 DEF MoveInv, TypeInv, TypeOK
  <2>2. numPlayersReadyToStart = 0
    BY <1>4, <2>1, FS_EmptySet DEF ReadyInv, NobodyRestarted
  <2>3. numPlayersReadyToStart' = 0
    BY <1>4, <2>2 DEF ServerDoEnd, ServerEnds, DealerDraw, IgnoreKey, Showdown, NobodyReady,
                      Operator, PressEnter
  <2>4. QED
    BY <1>4, <2>1, <2>3, FS_EmptySet DEF PresentInv, ReadyInv
<1>5. QED
  BY <1>1, <1>2, <1>3, <1>4 DEF Next

LEMMA InitReadies == Init => PresentInv /\ ReadyInv
<1> SUFFICES ASSUME Init PROVE PresentInv /\ ReadyInv
  OBVIOUS
<1>1. ASSUME NEW d \in Clients
      PROVE  /\ conn[d] = "off" /\ toServer[d] = << >> /\ toClient[d] = << >>
             /\ pc[d] = "off" /\ ~preReadyToStart[d]
  BY DEF Init, NetInit, ClientInit
<1>2. consent = {} /\ numPlayersReadyToStart = 0
  BY DEF Init, ServerInit
<1>3. \A d \in Clients : Readies(d) = {}
  BY <1>1 DEF Readies, At
<1>4. PresentInv
  BY <1>1 DEF PresentInv, Heard, Outside
<1>5. ReadyInv
  BY <1>2, <1>3, FS_EmptySet DEF ReadyInv, ReadyOnce, Lone
<1>6. QED
  BY <1>4, <1>5

\* There are no more players' clients than there are players.
LEMMA SeatsAreMore ==
  ASSUME ServerTypeOK
  PROVE  IsFiniteSet(Seated) /\ Cardinality(Seated) <= Len(players)
<1>1. DOMAIN players = 1..Len(players) /\ Len(players) \in Nat
  BY SeatsDomain
<1> DEFINE f == [i \in 1..Len(players) |-> players[i].client]
<1>2. f \in Surjection(1..Len(players), Seated)
  BY <1>1 DEF Seated, Surjection
<1> HIDE DEF f
<1>3. IsFiniteSet(1..Len(players)) /\ Cardinality(1..Len(players)) = Len(players)
  <2>1. 1 \in Int /\ Len(players) \in Int
    BY <1>1
  <2>2. /\ IsFiniteSet(1..Len(players))
        /\ Cardinality(1..Len(players)) = IF 1 > Len(players) THEN 0 ELSE Len(players) - 1 + 1
    BY <2>1, FS_Interval
  <2>3. QED
    BY <1>1, <2>2
<1>4. IsFiniteSet(Seated) /\ Cardinality(Seated) <= Cardinality(1..Len(players))
  BY <1>2, <1>3, FS_Surjection
<1>5. QED
  BY <1>3, <1>4

\* Only the READY that is as many as the players starts a game.
LEMMA StartCounts ==
  ASSUME MoveInv, [Next]_vars, GameStarts
  PROVE  \E c \in Clients : /\ ServerThread(c) /\ PlayerReady(c)
                            /\ consent' = consent \cup {c}
                            /\ numPlayersReadyToStart' >= Len(players)
<1>1. ~GameInProgress /\ GameInProgress'
  BY DEF GameStarts
<1>2. ~ServerDoEnd /\ ~Operator /\ ~UNCHANGED vars
  BY <1>1 DEF ServerDoEnd, ServerEnds, DealerDraw, IgnoreKey, Showdown, Operator,
              PressEnter, vars, serverVars
<1>3. ASSUME NEW c \in Clients,
             \/ ClientReceives(c) \/ ClientReady(c) \/ UserStarts(c) \/ UserReady(c)
             \/ UserMoves(c) \/ UserRestarts(c) \/ UserDeclines(c) \/ PeerNotices(c)
      PROVE  FALSE
  BY <1>1, <1>3 DEF ClientReceives, ClientReady, UserStarts, UserReady, UserMoves,
                    UserRestarts, UserDeclines, PeerNotices, serverVars
<1>4. PICK c \in Clients : ServerThread(c)
  BY <1>2, <1>3 DEF Next
<1>5. PlayerReady(c) /\ consent' = consent \cup {c}
  BY <1>1, <1>4 DEF ServerThread, ServerReceives, CreateNewPlayer, UpdatePlayerName, Hit,
                    Stand
<1>6. ~readyToStart
  BY <1>1 DEF MoveInv, TypeInv
<1>7. EnoughReady(numPlayersReadyToStart')
  BY <1>1, <1>5, <1>6 DEF PlayerReady
<1>8. QED
  BY <1>4, <1>5, <1>7 DEF EnoughReady

\* As many as there are players are all of them.
LEMMA AllCounted ==
  ASSUME ServerTypeOK, NEW S, S \subseteq Seated, Cardinality(S) >= Len(players)
  PROVE  Seated = S
<1>1. /\ Len(players) \in Nat
      /\ IsFiniteSet(Seated) /\ Cardinality(Seated) <= Len(players)
  BY SeatsAreMore, SeatsDomain
<1>2. S \in SUBSET Seated
  OBVIOUS
<1>3. Cardinality(S) <= Cardinality(Seated) /\ (Cardinality(Seated) = Cardinality(S) => Seated = S)
  BY <1>1, <1>2, FS_Subset
<1>4. IsFiniteSet(S) /\ Cardinality(S) \in Nat /\ Cardinality(Seated) \in Nat
  BY <1>1, <1>2, FS_Subset, FS_CardinalityType
<1>5. Cardinality(Seated) = Cardinality(S)
  BY <1>1, <1>3, <1>4
<1>6. QED
  BY <1>3, <1>5

LEMMA StartAgreed ==
  ASSUME MoveInv, TypeInv', SeatInv, NamesInv, PresentInv, ReadyInv, [Next]_vars,
         GameStarts, NobodyRestarted
  PROVE  Seated \subseteq consent'
<1>1. PICK c \in Clients : /\ ServerThread(c) /\ PlayerReady(c)
                           /\ consent' = consent \cup {c}
                           /\ numPlayersReadyToStart' >= Len(players)
  BY StartCounts
<1>2. numPlayersReadyToStart' = Cardinality(consent') /\ consent' \subseteq Seated
  BY <1>1, ReadyCounted
<1>3. PICK S : S = consent'
  OBVIOUS
<1>4. S \subseteq Seated /\ Cardinality(S) >= Len(players)
  BY <1>1, <1>2, <1>3
<1>5. QED
  BY <1>3, <1>4, AllCounted DEF MoveInv, TypeInv, TypeOK

LEMMA ReadiesKept == Spec => [](MoveInv /\ SeatInv /\ NamesInv /\ PresentInv /\ ReadyInv)
<1>1. /\ MoveInv /\ SeatInv /\ [Next]_vars /\ (MoveInv /\ SeatInv)'
      /\ NamesInv /\ PresentInv /\ ReadyInv
      => NamesInv' /\ PresentInv' /\ ReadyInv'
  BY NextNames, NextReadies DEF MoveInv
<1>2. QED
  BY InitNames, InitReadies, <1>1, SeatsAndTurn, PTL DEF Spec

\* Until a user has answered 'y' to play again, a game starts only when
\* everybody seated has agreed: PlayerReady counts the messages and not the
\* players that sent them, but a client that has not restarted sends one, after
\* its connection was announced, and the count is the number of those who agreed.
THEOREM FirstStartAgreed ==
  Spec => [][GameStarts /\ NobodyRestarted => Seated \subseteq consent']_vars
<1>1. /\ MoveInv /\ SeatInv /\ NamesInv /\ PresentInv /\ ReadyInv /\ [Next]_vars
      /\ (MoveInv /\ SeatInv /\ NamesInv /\ PresentInv /\ ReadyInv)'
      => [GameStarts /\ NobodyRestarted => Seated \subseteq consent']_vars
  BY StartAgreed DEF MoveInv
<1>2. QED
  BY <1>1, ReadiesKept, PTL DEF Spec

-----------------------------------------------------------------------------
(* A table that nobody joins late.                                         *)

EndMessage  == {Plain("END")}
ListMessage == {m \in DownMessage : m.type = "JOINED_GAME"}

\* No message of X comes behind one of Y.
NoneBehind(q, X, Y) ==
  \A k \in DOMAIN q : q[k] \in X => \A j \in 1..(k - 1) : q[j] \notin Y

Greets(d) == At(toClient[d], Greeting)
Ends(d)   == At(toClient[d], EndMessage)
Lists(d)  == At(toClient[d], ListMessage)

\* Between "end" and the next READY of a client its READY is neither on its way
\* nor counted.
CalledOnce(d) ==
  /\ ReadyOnce(d)
  /\ readySent[d] => preReadyToStart[d]
  /\ Lone(Ends(d))
  /\ pc[d] = "restart" => Ends(d) = {}
  /\ Ends(d) # {} \/ pc[d] = "restart" =>
       readySent[d] /\ Readies(d) = {} /\ d \notin consent

\* A client sends its name before it is asked to get ready, so the names of all
\* that have agreed to play have been received.
NamedFirst(d) ==
  /\ NoneBehind(toClient[d], Greeting, DownMessage)
  /\ Greets(d) # {} => ~preReadyToStart[d] /\ pc[d] = "loop"
  /\ NoneBehind(toServer[d], {"PLAYERNAME"}, {"READY"})
  /\ d \in consent => ~NameSent(d)

\* At no ready prompt, and cin in order.
Clear(d) == pc[d] \notin {"ready", "again"} /\ ~cinFail[d]

\* The prompt of a turn clears cin, and no list of names that could ask the user
\* to get ready again comes behind the turn.
TurnClears(d) ==
  \/ Asks(d) # {} /\ NoneBehind(toClient[d], ListMessage, AskMessage)
  \/ Lists(d) = {} /\ (pc[d] = "move" \/ Clear(d))

HadTurn(d) == \E i \in DOMAIN players : i <= currentPlayer + 1 /\ players[i].client = d

ReadFirst(d) ==
  /\ pc[d] = "restart" => ~cinFail[d]
  /\ Ends(d) # {} => Clear(d)
  /\ NoneBehind(toClient[d], EndMessage, ListMessage)
  /\ GameInProgress /\ HadTurn(d) /\ conn[d] = "on" => TurnClears(d)

RoundInv ==
  /\ \A d \in Clients : CalledOnce(d) /\ NamedFirst(d) /\ ReadFirst(d)
  /\ numPlayersReadyToStart = Cardinality(consent)
  /\ GameInProgress => Seated \subseteq consent

\* Nobody takes a seat while a game is on.
NobodyJoinsLate == GameInProgress => Seated' = Seated

-----------------------------------------------------------------------------
(* What does not come behind what.                                         *)

LEMMA BehindTail ==
  ASSUME NEW S, NEW q \in Seq(S), q # << >>, NEW X, NEW Y, NoneBehind(q, X, Y)
  PROVE  /\ NoneBehind(Tail(q), X, Y)
         /\ Head(q) \in Y => At(Tail(q), X) = {}
<1>1. /\ Len(q) \in Nat /\ Len(q) >= 1 /\ DOMAIN q = 1..Len(q) /\ q[1] = Head(q)
      /\ DOMAIN Tail(q) = 1..(Len(q) - 1)
      /\ \A i \in 1..(Len(q) - 1) : Tail(q)[i] = q[i + 1]
  BY EmptySeq, LenProperties, HeadTailProperties
<1>2. ASSUME NEW k \in 1..(Len(q) - 1), Tail(q)[k] \in X, NEW j \in 0..(k - 1)
      PROVE  q[j + 1] \notin Y
  <2>1. k + 1 \in DOMAIN q /\ q[k + 1] \in X /\ j + 1 \in 1..(k + 1 - 1)
    BY <1>1, <1>2
  <2>2. QED
    BY <2>1 DEF NoneBehind
<1>3. ASSUME NEW k \in 1..(Len(q) - 1), Tail(q)[k] \in X
      PROVE  Head(q) \notin Y /\ \A j \in 1..(k - 1) : Tail(q)[j] \notin Y
  <2>1. 0 \in 0..(k - 1) /\ 0 + 1 = 1
    OBVIOUS
  <2>2. Head(q) \notin Y
    BY <1>1, <1>2, <1>3, <2>1
  <2>3. ASSUME NEW j \in 1..(k - 1) PROVE Tail(q)[j] \notin Y
    <3>1. j \in 0..(k - 1) /\ Tail(q)[j] = q[j + 1]
      BY <1>1
    <3>2. QED
      BY <1>2, <1>3, <3>1
  <2>4. QED
    BY <2>2, <2>3
<1>4. QED
  BY <1>1, <1>3 DEF NoneBehind, At

\* What has been sent last is of X only if nothing of Y was there.
LEMMA BehindExtends ==
  ASSUME NEW S, NEW q \in Seq(S), NEW r \in Seq(S), Extends(q, r), NEW X, NEW Y,
         NoneBehind(q, X, Y),
         \/ \A k \in (Len(q) + 1)..Len(r) : r[k] \notin X
         \/ At(q, Y) = {} /\ \A k \in (Len(q) + 1)..Len(r) : r[k] \notin Y
  PROVE  NoneBehind(r, X, Y)
<1>1. /\ Len(q) \in Nat /\ Len(r) \in Nat /\ DOMAIN q = 1..Len(q) /\ DOMAIN r = 1..Len(r)
      /\ Len(q) <= Len(r) /\ \A j \in 1..Len(q) : r[j] = q[j]
  BY LenProperties DEF Extends
<1>2. CASE \A k \in (Len(q) + 1)..Len(r) : r[k] \notin X
  <2>1. ASSUME NEW k \in 1..Len(r), r[k] \in X, NEW j \in 1..(k - 1) PROVE r[j] \notin Y
    <3>1. k \in 1..Len(q)
      BY <1>1, <1>2, <2>1
    <3>2. j \in 1..Len(q) /\ r[k] = q[k] /\ r[j] = q[j]
      BY <1>1, <3>1
    <3>3. QED
      BY <1>1, <2>1, <3>1, <3>2 DEF NoneBehind
  <2>2. QED
    BY <1>1, <2>1 DEF NoneBehind
<1>3. CASE At(q, Y) = {} /\ \A k \in (Len(q) + 1)..Len(r) : r[k] \notin Y
  <2>1. ASSUME NEW j \in 1..Len(r) PROVE r[j] \notin Y
    <3>1. j \in 1..Len(q) \/ j \in (Len(q) + 1)..Len(r)
      BY <1>1
    <3>2. QED
      BY <1>1, <1>3, <3>1 DEF At
  <2>2. \A k \in 1..Len(r) : \A j \in 1..(k - 1) : j \in 1..Len(r)
    BY <1>1
  <2>3. QED
    BY <1>1, <2>1, <2>2 DEF NoneBehind
<1>4. QED
  BY <1>2, <1>3

LEMMA BehindSubSeq ==
  ASSUME NEW S, NEW q \in Seq(S), NEW n \in 0..Len(q), NEW X, NEW Y, NoneBehind(q, X, Y)
  PROVE  NoneBehind(SubSeq(q, 1, n), X, Y)
<1>1. /\ Len(q) \in Nat /\ DOMAIN q = 1..Len(q)
      /\ DOMAIN SubSeq(q, 1, n) = 1..n
      /\ \A i \in 1..n : SubSeq(q, 1, n)[i] = q[i]
  BY LenProperties, SubSeqProperties
<1>2. ASSUME NEW k \in 1..n, SubSeq(q, 1, n)[k] \in X, NEW j \in 1..(k - 1)
      PROVE  SubSeq(q, 1, n)[j] \notin Y
  <2>1. k \in DOMAIN q /\ q[k] \in X /\ j \in 1..n
    BY <1>1, <1>2
  <2>2. QED
    BY <1>1, <2>1 DEF NoneBehind
<1>3. QED
  BY <1>1, <1>2 DEF NoneBehind

LEMMA BehindNone ==
  ASSUME NEW S, NEW q \in Seq(S), NEW X, NEW Y, At(q, X) = {} \/ At(q, Y) = {}
  PROVE  NoneBehind(q, X, Y)
<1>1. DOMAIN q = 1..Len(q) /\ Len(q) \in Nat
  BY LenProperties
<1>2. \A k \in 1..Len(q) : \A j \in 1..(k - 1) : j \in 1..Len(q)
  BY <1>1
<1>3. QED
  BY <1>1, <1>2 DEF NoneBehind, At

\* What is sent is of X only if something of X is new.
LEMMA AtGrown ==
  ASSUME NEW S, NEW q \in Seq(S), NEW r \in Seq(S), Extends(q, r), NEW X,
         \A k \in (Len(q) + 1)..Len(r) : r[k] \notin X
  PROVE  At(r, X) = At(q, X)
<1>1. /\ Len(q) \in Nat /\ Len(r) \in Nat /\ DOMAIN q = 1..Len(q) /\ DOMAIN r = 1..Len(r)
      /\ Len(q) <= Len(r) /\ \A j \in 1..Len(q) : r[j] = q[j]
  BY LenProperties DEF Extends
<1>2. \A k \in 1..Len(r) : k \in 1..Len(q) \/ k \in (Len(q) + 1)..Len(r)
  BY <1>1
<1>3. \A k \in 1..Len(q) : k \in 1..Len(r)
  BY <1>1
<1>4. QED
  BY <1>1, <1>2, <1>3 DEF At

-----------------------------------------------------------------------------
(* A client receives a message.                                            *)

LEMMA MessageClass ==
  ASSUME NEW m \in DownMessage
  PROVE  /\ m \in Greeting <=> m.type = "ACCEPTED"
         /\ m \in EndMessage <=> m.type = "END"
         /\ m \in ListMessage <=> m.type = "JOINED_GAME"
         /\ m \in AskMessage <=> m.type = "HIT_STAND"
<1>1. CASE m \in [type : {"ACCEPTED", "HIT_STAND", "END"}]
  <2>1. m = [type |-> m.type]
    BY <1>1
  <2>2. m = Plain("ACCEPTED") <=> m.type = "ACCEPTED"
    BY <2>1 DEF Plain
  <2>3. m = Plain("END") <=> m.type = "END"
    BY <2>1 DEF Plain
  <2>4. QED
    BY <2>2, <2>3 DEF Greeting, EndMessage, ListMessage, AskMessage
<1>2. CASE m \notin [type : {"ACCEPTED", "HIT_STAND", "END"}]
  <2>1. m.type \in {"PLAYER_ID", "CURRENT_PLAYERS", "CARDS_STRING", "JOINED_GAME"}
    BY <1>2 DEF DownMessage
  <2>2. Plain("ACCEPTED").type = "ACCEPTED" /\ Plain("END").type = "END"
    BY DEF Plain
  <2>3. QED
    BY <2>1, <2>2 DEF Greeting, EndMessage, ListMessage, AskMessage
<1>3. QED
  BY <1>1, <1>2

\* What client c does with the message it receives.
TakesNext(c) ==
  /\ pc[c] = "loop" /\ toClient[c] # << >> /\ toClient'[c] = Tail(toClient[c])
  /\ conn' = conn
  /\ UNCHANGED <<readySent, preReadyToStart, cinFail>>
  /\ \/ toServer'[c] = toServer[c]
     \/ /\ Head(toClient[c]) \in Greeting
        /\ toServer'[c] = Append(toServer[c], "PLAYERNAME")
  /\ pc'[c] \in {"loop", "ready", "move", "restart"}
  /\ pc'[c] = "restart" => Head(toClient[c]) \in EndMessage
  /\ Head(toClient[c]) \in AskMessage => pc'[c] = "move"
  /\ pc'[c] = "ready" => Head(toClient[c]) \in ListMessage

LEMMA ReceiveTakes ==
  ASSUME MoveInv, NEW c \in Clients,
         \/ Accepted(c) \/ SetPlayerID(c) \/ PrintCurrentPlayers(c) \/ UpdatePlayers(c)
         \/ HitorStand(c) \/ RecieveAllCards(c) \/ RecieveString(c)
  PROVE  TakesNext(c)
<1> USE DEF MoveInv, TypeInv, TypeOK, NetTypeOK, ClientTypeOK
<1>1. /\ pc[c] = "loop" /\ toClient[c] # << >> /\ toClient'[c] = Tail(toClient[c])
      /\ conn' = conn /\ UNCHANGED <<readySent, preReadyToStart, cinFail>>
  BY DEF Accepted, SetPlayerID, PrintCurrentPlayers, UpdatePlayers, HitorStand,
         RecieveAllCards, RecieveString, Take, Taken, clientVars
<1> DEFINE h == Head(toClient[c])
<1>2. h \in DownMessage
  BY <1>1
<1>3. CASE Accepted(c)
  <2>1. h.type = "ACCEPTED" /\ toServer'[c] = Append(toServer[c], "PLAYERNAME") /\ pc' = pc
    BY <1>3 DEF Accepted, Take, Uploaded, clientVars
  <2>2. QED
    BY <1>1, <1>2, <2>1, MessageClass DEF TakesNext
<1>4. CASE SetPlayerID(c) \/ PrintCurrentPlayers(c) \/ RecieveAllCards(c)
  <2>1. /\ h.type \in {"PLAYER_ID", "CURRENT_PLAYERS", "CARDS_STRING"}
        /\ toServer' = toServer /\ pc' = pc
    BY <1>4 DEF SetPlayerID, PrintCurrentPlayers, RecieveAllCards, Take, clientVars
  <2>2. QED
    BY <1>1, <1>2, <2>1, MessageClass DEF TakesNext
<1>5. CASE UpdatePlayers(c)
  <2>1. h.type = "JOINED_GAME" /\ toServer' = toServer /\ pc'[c] \in {"ready", "loop"}
    BY <1>5 DEF UpdatePlayers, Take, Goto
  <2>2. QED
    BY <1>1, <1>2, <2>1, MessageClass DEF TakesNext
<1>6. CASE HitorStand(c)
  <2>1. h.type = "HIT_STAND" /\ toServer' = toServer /\ pc'[c] = "move"
    BY <1>6 DEF HitorStand, Take, Goto
  <2>2. QED
    BY <1>1, <1>2, <2>1, MessageClass DEF TakesNext
<1>7. CASE RecieveString(c)
  <2>1. h.type = "END" /\ toServer' = toServer /\ pc'[c] = "restart"
    BY <1>7 DEF RecieveString, Take, Goto
  <2>2. QED
    BY <1>1, <1>2, <2>1, MessageClass DEF TakesNext
<1>8. QED
  BY <1>3, <1>4, <1>5, <1>6, <1>7

LEMMA TakenClears ==
  ASSUME MoveInv, NEW c \in Clients, TakesNext(c), TurnClears(c), NetTypeOK'
  PROVE  TurnClears(c)'
<1> DEFINE q == toClient[c]
           h == Head(q)
<1>1. q \in Seq(DownMessage) /\ q # << >> /\ h \in DownMessage /\ toClient'[c] = Tail(q)
  BY DEF MoveInv, TypeInv, TypeOK, NetTypeOK, TakesNext
<1>2. /\ Asks(c) = At(q, AskMessage) /\ Asks(c)' = At(Tail(q), AskMessage)
      /\ Lists(c) = At(q, ListMessage) /\ Lists(c)' = At(Tail(q), ListMessage)
  BY <1>1, MovesAt, MovesAtNext DEF Lists, MoveInv, TypeInv, TypeOK
<1>3. pc[c] = "loop" /\ pc'[c] \in {"loop", "ready", "move", "restart"} /\ cinFail' = cinFail
  BY DEF TakesNext
<1>4. CASE Asks(c) # {} /\ NoneBehind(q, ListMessage, AskMessage)
  <2>1. CASE h \in AskMessage
    <3>1. At(Tail(q), ListMessage) = {}
      BY <1>1, <1>4, <2>1, BehindTail
    <3>2. QED
      BY <1>2, <2>1, <3>1 DEF TurnClears, TakesNext
  <2>2. CASE h \notin AskMessage
    <3>1. At(Tail(q), AskMessage) # {}
      BY <1>1, <1>2, <1>4, <2>2, AtStays
    <3>2. NoneBehind(Tail(q), ListMessage, AskMessage)
      BY <1>1, <1>4, BehindTail
    <3>3. QED
      BY <1>1, <1>2, <3>1, <3>2 DEF TurnClears
  <2>3. QED
    BY <2>1, <2>2
<1>5. CASE Lists(c) = {} /\ Clear(c)
  <2>1. At(Tail(q), ListMessage) = {}
    BY <1>1, <1>2, <1>5, AtTail
  <2>2. h \notin ListMessage
    <3>1. 1 \in DOMAIN q /\ q[1] = h
      BY <1>1
    <3>2. QED
      BY <1>2, <1>5, <3>1 DEF At
  <2>3. pc'[c] # "ready"
    BY <2>2 DEF TakesNext
  <2>4. QED
    BY <1>2, <1>3, <1>5, <2>1, <2>3 DEF TurnClears, Clear
<1>6. QED
  BY <1>3, <1>4, <1>5 DEF TurnClears

\* What RoundInv says of one client.
RoundOf(d) == CalledOnce(d) /\ NamedFirst(d) /\ ReadFirst(d)

LEMMA TakenRound ==
  ASSUME MoveInv, TypeInv', NEW c \in Clients, RoundOf(c), TakesNext(c),
         UNCHANGED <<serverVars, consent>>
  PROVE  RoundOf(c)'
<1> DEFINE q == toClient[c]
           h == Head(q)
           u == toServer[c]
<1>1. /\ q \in Seq(DownMessage) /\ q # << >> /\ h \in DownMessage /\ toClient'[c] = Tail(q)
      /\ 1 \in DOMAIN q /\ q[1] = h
      /\ u \in Seq(UpMessage) /\ "PLAYERNAME" \in UpMessage
  BY DEF MoveInv, TypeInv, TypeOK, NetTypeOK, TakesNext, UpMessage
<1>2. /\ Seated' = Seated /\ consent' = consent /\ conn' = conn
      /\ UNCHANGED <<readySent, preReadyToStart, cinFail>>
      /\ (GameInProgress /\ HadTurn(c))' <=> GameInProgress /\ HadTurn(c)
  BY DEF serverVars, Seated, HadTurn, TakesNext
<1>3. CalledOnce(c) /\ NamedFirst(c) /\ ReadFirst(c)
  BY DEF RoundOf
<1>4. /\ Ends(c)' # {} => Ends(c) # {}
      /\ Lone(Ends(c)')
      /\ h \in EndMessage => Ends(c) # {} /\ Ends(c)' = {}
      /\ h \in ListMessage => Ends(c)' = {}
  <2>1. Lone(At(q, EndMessage)) /\ NoneBehind(q, EndMessage, ListMessage)
    BY <1>3 DEF CalledOnce, ReadFirst, Ends
  <2>2. /\ At(Tail(q), EndMessage) # {} => At(q, EndMessage) # {}
        /\ Lone(At(Tail(q), EndMessage))
        /\ h \in EndMessage => At(Tail(q), EndMessage) = {}
    BY <1>1, <2>1, AtTail
  <2>3. h \in EndMessage => At(q, EndMessage) # {}
    BY <1>1 DEF At
  <2>4. h \in ListMessage => At(Tail(q), EndMessage) = {}
    BY <1>1, <2>1, BehindTail
  <2>5. QED
    BY <1>1, <2>2, <2>3, <2>4 DEF Ends
<1>5. Greets(c)' = {} /\ (h \in Greeting => Greets(c) # {})
  <2>1. At(Tail(q), Greeting) = {}
    BY <1>1, <1>3, BehindTail DEF NamedFirst
  <2>2. h \in Greeting => At(q, Greeting) # {}
    BY <1>1 DEF At
  <2>3. QED
    BY <1>1, <2>1, <2>2 DEF Greets
<1>6. /\ Readies(c)' = Readies(c)
      /\ NoneBehind(toServer'[c], {"PLAYERNAME"}, {"READY"})
      /\ c \in consent => ~NameSent(c)'
  <2>1. CASE toServer'[c] = u
    BY <1>3, <2>1 DEF Readies, NameSent, NamedFirst
  <2>2. CASE h \in Greeting /\ toServer'[c] = Append(u, "PLAYERNAME")
    <3>1. ~preReadyToStart[c] /\ ~readySent[c] /\ Readies(c) = {} /\ c \notin consent
      BY <1>3, <1>5, <2>2 DEF NamedFirst, CalledOnce, ReadyOnce
    <3> DEFINE r == Append(u, "PLAYERNAME")
    <3>2. At(r, {"READY"}) = At(u, {"READY"})
      BY <1>1, AtAppend
    <3>3. /\ r \in Seq(UpMessage) /\ Extends(u, r)
          /\ \A k \in (Len(u) + 1)..Len(r) : r[k] = "PLAYERNAME"
      BY <1>1, AppendExtends
    <3>4. NoneBehind(r, {"PLAYERNAME"}, {"READY"})
      <4>1. At(r, {"READY"}) = {}
        BY <3>1, <3>2 DEF Readies
      <4> HIDE DEF r
      <4>2. QED
        BY <3>3, <4>1, BehindNone
    <3>5. QED
      BY <2>2, <3>1, <3>2, <3>4 DEF Readies
  <2>3. QED
    BY <2>1, <2>2 DEF TakesNext
<1>7. CalledOnce(c)'
  <2>1. pc'[c] = "restart" => Ends(c) # {} /\ Ends(c)' = {}
    BY <1>4 DEF TakesNext
  <2>2. QED
    BY <1>2, <1>3, <1>4, <1>6, <2>1 DEF CalledOnce, ReadyOnce
<1>8. NamedFirst(c)'
  <2>1. NoneBehind(toClient'[c], Greeting, DownMessage)
    BY <1>1, <1>3, BehindTail DEF NamedFirst
  <2>2. QED
    BY <1>2, <1>5, <1>6, <2>1 DEF NamedFirst
<1>9. ReadFirst(c)'
  <2>1. NoneBehind(toClient'[c], EndMessage, ListMessage)
    BY <1>1, <1>3, BehindTail DEF ReadFirst
  <2>2. pc'[c] = "restart" => ~cinFail[c]
    BY <1>3, <1>4 DEF TakesNext, ReadFirst, Clear
  <2>3. Ends(c)' # {} => Clear(c)'
    <3>1. ASSUME Ends(c)' # {} PROVE Clear(c)'
      <4>1. Clear(c) /\ h \notin ListMessage
        BY <1>3, <1>4, <3>1 DEF ReadFirst
      <4>2. pc'[c] \in {"loop", "move", "restart"}
        BY <4>1 DEF TakesNext
      <4>3. QED
        BY <1>2, <4>1, <4>2 DEF Clear
    <3>2. QED
      BY <3>1
  <2>4. GameInProgress' /\ HadTurn(c)' /\ conn'[c] = "on" => TurnClears(c)'
    BY <1>2, <1>3, TakenClears DEF ReadFirst, MoveInv, TypeInv, TypeOK
  <2>5. QED
    BY <1>2, <2>1, <2>2, <2>3, <2>4 DEF ReadFirst
<1>10. QED
  BY <1>7, <1>8, <1>9 DEF RoundOf

-----------------------------------------------------------------------------
(* The user of a client does something.                                    *)

\* The messages to client c are left where they are.
LEMMA QueueLeft ==
  ASSUME NEW c, toClient'[c] = toClient[c]
  PROVE  /\ Asks(c)' = Asks(c) /\ Lists(c)' = Lists(c) /\ Ends(c)' = Ends(c)
         /\ Greets(c)' = Greets(c)
  BY DownSame DEF Lists, Ends, Greets

LEMMA MoveSends ==
  ASSUME NetTypeOK, NEW c \in Clients, NEW m \in AnswerMessage,
         toServer'[c] = Append(toServer[c], m), NamedFirst(c)
  PROVE  /\ Readies(c)' = Readies(c) /\ NameSent(c)' = NameSent(c)
         /\ NoneBehind(toServer'[c], {"PLAYERNAME"}, {"READY"})
<1> DEFINE u == toServer[c]
           r == Append(u, m)
<1>1. u \in Seq(UpMessage) /\ m \in UpMessage /\ m \notin {"READY"} /\ m \notin {"PLAYERNAME"}
  BY DEF NetTypeOK, UpMessage, AnswerMessage
<1>2. At(r, {"READY"}) = At(u, {"READY"}) /\ At(r, {"PLAYERNAME"}) = At(u, {"PLAYERNAME"})
  BY <1>1, AtAppend
<1>3. /\ r \in Seq(UpMessage) /\ Extends(u, r)
      /\ \A k \in (Len(u) + 1)..Len(r) : r[k] \notin {"PLAYERNAME"}
  BY <1>1, AppendExtends
<1>4. NoneBehind(u, {"PLAYERNAME"}, {"READY"})
  BY DEF NamedFirst
<1> HIDE DEF u, r
<1>5. NoneBehind(r, {"PLAYERNAME"}, {"READY"})
  BY <1>1, <1>3, <1>4, BehindExtends
<1>6. QED
  BY <1>2, <1>5 DEF Readies, NameSent, u, r

LEMMA ReadySends ==
  ASSUME NetTypeOK, NEW c \in Clients, toServer'[c] = Append(toServer[c], "READY"),
         NamedFirst(c), Readies(c) = {}
  PROVE  /\ Lone(Readies(c)')
         /\ NoneBehind(toServer'[c], {"PLAYERNAME"}, {"READY"})
<1> DEFINE u == toServer[c]
           r == Append(u, "READY")
<1>1. u \in Seq(UpMessage) /\ "READY" \in UpMessage
  BY DEF NetTypeOK, UpMessage
<1>2. Lone(At(r, {"READY"}))
  BY <1>1, AtAppend DEF Readies
<1>3. /\ r \in Seq(UpMessage) /\ Extends(u, r)
      /\ \A k \in (Len(u) + 1)..Len(r) : r[k] \notin {"PLAYERNAME"}
  BY <1>1, AppendExtends
<1>4. NoneBehind(u, {"PLAYERNAME"}, {"READY"})
  BY DEF NamedFirst
<1> HIDE DEF u, r
<1>5. NoneBehind(r, {"PLAYERNAME"}, {"READY"})
  BY <1>1, <1>3, <1>4, BehindExtends
<1>6. QED
  BY <1>2, <1>5 DEF Readies, u, r

LEMMA UserRound ==
  ASSUME MoveInv, NEW c \in Clients, RoundOf(c), UNCHANGED <<serverVars, consent>>,
         GameInProgress => Seated \subseteq consent,
         \/ SendReady(c) \/ EnterReady(c) \/ AnswerYes(c) \/ AnswerOther(c)
         \/ \E key \in UserKeys : TestTest(c, key)
  PROVE  RoundOf(c)'
<1>1. /\ NetTypeOK /\ toServer[c] \in Seq(UpMessage)
      /\ pc \in [Clients -> ClientPc] /\ cinFail \in [Clients -> BOOLEAN]
      /\ readySent \in [Clients -> BOOLEAN] /\ preReadyToStart \in [Clients -> BOOLEAN]
  BY DEF MoveInv, TypeInv, TypeOK, NetTypeOK, ClientTypeOK
<1>2. /\ toClient' = toClient /\ conn' = conn /\ consent' = consent
      /\ Seated' = Seated
      /\ (GameInProgress /\ HadTurn(c))' <=> GameInProgress /\ HadTurn(c)
  BY DEF serverVars, Seated, HadTurn, SendReady, EnterReady, AnswerYes, AnswerOther, TestTest,
         netVars
<1>3. CalledOnce(c) /\ NamedFirst(c) /\ ReadFirst(c)
  BY DEF RoundOf
<1>4. /\ Asks(c)' = Asks(c) /\ Lists(c)' = Lists(c) /\ Ends(c)' = Ends(c)
      /\ Greets(c)' = Greets(c)
  BY <1>2, QueueLeft
<1>5. /\ NoneBehind(toClient'[c], Greeting, DownMessage)
      /\ NoneBehind(toClient'[c], EndMessage, ListMessage)
  BY <1>2, <1>3 DEF NamedFirst, ReadFirst
<1>6. TurnClears(c)' <=> \/ Asks(c) # {} /\ NoneBehind(toClient[c], ListMessage, AskMessage)
                         \/ Lists(c) = {} /\ (pc'[c] = "move" \/ Clear(c)')
  BY <1>2, <1>4 DEF TurnClears
<1>7. ASSUME toServer'[c] = toServer[c]
      PROVE  /\ Readies(c)' = Readies(c) /\ NameSent(c)' = NameSent(c)
             /\ NoneBehind(toServer'[c], {"PLAYERNAME"}, {"READY"})
  BY <1>3, <1>7 DEF Readies, NameSent, NamedFirst
<1>8. CASE SendReady(c)
  <2>1. /\ toServer'[c] = Append(toServer[c], "READY") /\ pc[c] = "loop"
        /\ ~readySent[c] /\ readySent'[c] /\ preReadyToStart[c]
        /\ UNCHANGED <<pc, preReadyToStart, cinFail>>
    BY <1>1, <1>8 DEF SendReady, MustSendReady, Uploaded, NetTypeOK
  <2>2. Readies(c) = {} /\ c \notin consent /\ Ends(c) = {}
    BY <1>3, <2>1 DEF CalledOnce, ReadyOnce
  <2>3. Lone(Readies(c)') /\ NoneBehind(toServer'[c], {"PLAYERNAME"}, {"READY"})
    BY <1>1, <1>3, <2>1, <2>2, ReadySends
  <2>4. CalledOnce(c)'
    BY <1>2, <1>4, <2>1, <2>2, <2>3 DEF CalledOnce, ReadyOnce, Lone
  <2>5. NamedFirst(c)'
    BY <1>2, <1>3, <1>4, <1>5, <2>1, <2>2, <2>3 DEF NamedFirst
  <2>6. ReadFirst(c)'
    BY <1>2, <1>3, <1>4, <1>5, <1>6, <2>1 DEF ReadFirst, TurnClears, Clear
  <2>7. QED
    BY <2>4, <2>5, <2>6 DEF RoundOf
<1>9. CASE EnterReady(c)
  <2>1. /\ toServer' = toServer /\ pc[c] \in {"ready", "again"} /\ pc'[c] = "loop"
        /\ readySent' = readySent /\ preReadyToStart'[c]
    BY <1>1, <1>9 DEF EnterReady, Goto, netVars
  <2>2. Ends(c) = {} /\ Greets(c) = {}
    BY <1>3, <2>1 DEF ReadFirst, NamedFirst, Clear
  <2>3. CalledOnce(c)'
    BY <1>2, <1>3, <1>4, <1>7, <2>1, <2>2 DEF CalledOnce, ReadyOnce
  <2>4. NamedFirst(c)'
    BY <1>2, <1>3, <1>4, <1>5, <1>7, <2>1, <2>2 DEF NamedFirst
  <2>5. ReadFirst(c)'
    BY <1>2, <1>3, <1>4, <1>5, <1>6, <2>1, <2>2 DEF ReadFirst, TurnClears, Clear
  <2>6. QED
    BY <2>3, <2>4, <2>5 DEF RoundOf
<1>10. CASE AnswerYes(c)
  <2>1. /\ toServer' = toServer /\ pc[c] = "restart" /\ pc'[c] = "again"
        /\ ~readySent'[c] /\ UNCHANGED <<preReadyToStart, cinFail>>
    BY <1>1, <1>10 DEF AnswerYes, Goto, netVars
  <2>2. /\ Ends(c) = {} /\ Readies(c) = {} /\ c \notin consent /\ Greets(c) = {}
    BY <1>3, <2>1 DEF CalledOnce, NamedFirst
  <2>3. CalledOnce(c)'
    BY <1>2, <1>3, <1>4, <1>7, <2>1, <2>2 DEF CalledOnce, ReadyOnce, Lone
  <2>4. NamedFirst(c)'
    BY <1>2, <1>3, <1>4, <1>5, <1>7, <2>1, <2>2 DEF NamedFirst
  <2>5. ~(GameInProgress /\ HadTurn(c))
    BY <2>2 DEF HadTurn, Seated
  <2>6. ReadFirst(c)'
    BY <1>2, <1>4, <1>5, <2>1, <2>2, <2>5 DEF ReadFirst
  <2>7. QED
    BY <2>3, <2>4, <2>6 DEF RoundOf
<1>11. CASE AnswerOther(c)
  <2>1. /\ toServer' = toServer /\ pc[c] = "restart" /\ pc'[c] = "loop"
        /\ UNCHANGED <<readySent, preReadyToStart, cinFail>>
    BY <1>1, <1>11 DEF AnswerOther, Goto, netVars
  <2>2. Ends(c) = {} /\ Greets(c) = {} /\ ~cinFail[c]
    BY <1>3, <2>1 DEF CalledOnce, NamedFirst, ReadFirst
  <2>3. CalledOnce(c)'
    BY <1>2, <1>3, <1>4, <1>7, <2>1, <2>2 DEF CalledOnce, ReadyOnce
  <2>4. NamedFirst(c)'
    BY <1>2, <1>3, <1>4, <1>5, <1>7, <2>1, <2>2 DEF NamedFirst
  <2>5. ReadFirst(c)'
    BY <1>2, <1>3, <1>4, <1>5, <1>6, <2>1, <2>2 DEF ReadFirst, TurnClears, Clear
  <2>6. QED
    BY <2>3, <2>4, <2>5 DEF RoundOf
<1>12. ASSUME NEW key \in UserKeys, TestTest(c, key) PROVE RoundOf(c)'
  <2>1. /\ pc[c] = "move" /\ pc'[c] = "loop" /\ ~cinFail'[c]
        /\ UNCHANGED <<readySent, preReadyToStart>>
        /\ toServer'[c] = toServer[c] \o Answer(key)
    BY <1>1, <1>12 DEF TestTest, Goto, CinCleared, NetTypeOK
  <2>2. /\ Readies(c)' = Readies(c) /\ NameSent(c)' = NameSent(c)
        /\ NoneBehind(toServer'[c], {"PLAYERNAME"}, {"READY"})
    <3>1. CASE key \in {"h", "s"}
      <4>1. PICK m \in AnswerMessage : Answer(key) = <<m>>
        BY <3>1 DEF Answer, AnswerMessage
      <4>2. toServer[c] \o <<m>> = Append(toServer[c], m)
        <5>1. m \in UpMessage
          BY DEF UpMessage, AnswerMessage
        <5>2. QED
          BY <1>1, <5>1
      <4>3. QED
        BY <1>1, <1>3, <2>1, <4>1, <4>2, MoveSends
    <3>2. CASE key \notin {"h", "s"}
      <4>1. toServer[c] \o << >> = toServer[c] /\ Answer(key) = << >>
        BY <1>1, <3>2, ConcatEmptySeq DEF Answer
      <4>2. QED
        BY <1>7, <2>1, <4>1
    <3>3. QED
      BY <3>1, <3>2
  <2>3. Asks(c) = {} /\ Greets(c) = {}
    BY <1>3, <2>1 DEF NamedFirst, MoveInv, OneMovePending
  <2>4. CalledOnce(c)'
    BY <1>2, <1>3, <1>4, <2>1, <2>2 DEF CalledOnce, ReadyOnce
  <2>5. NamedFirst(c)'
    BY <1>2, <1>3, <1>4, <1>5, <2>2, <2>3 DEF NamedFirst
  <2>6. ReadFirst(c)'
    BY <1>2, <1>3, <1>4, <1>5, <1>6, <2>1, <2>3 DEF ReadFirst, TurnClears, Clear
  <2>7. QED
    BY <2>4, <2>5, <2>6 DEF RoundOf
<1>13. QED
  BY <1>8, <1>9, <1>10, <1>11, <1>12

-----------------------------------------------------------------------------
(* The clients' side of RoundInv.                                          *)

\* A client goes away.
LEMMA GoneRound ==
  ASSUME MoveInv, NEW c \in Clients, RoundOf(c), UNCHANGED <<serverVars, consent>>,
         AnswerNo(c) \/ CloseClient(c)
  PROVE  RoundOf(c)'
<1>1. /\ conn'[c] = "gone" /\ toClient'[c] = << >> /\ pc'[c] = "exit"
      /\ \E k \in 0..Len(toServer[c]) : toServer'[c] = SubSeq(toServer[c], 1, k)
  BY GoneVanishes DEF Vanishes
<1>2. PICK k \in 0..Len(toServer[c]) : toServer'[c] = SubSeq(toServer[c], 1, k)
  BY <1>1
<1>3. /\ UNCHANGED <<readySent, preReadyToStart, cinFail>>
      /\ Seated' = Seated /\ consent' = consent
      /\ toServer[c] \in Seq(UpMessage)
  BY DEF AnswerNo, CloseClient, serverVars, Seated, MoveInv, TypeInv, TypeOK, NetTypeOK
<1>4. Readies(c)' \subseteq Readies(c) /\ (NameSent(c)' => NameSent(c))
  <2>1. /\ At(SubSeq(toServer[c], 1, k), {"READY"}) \subseteq At(toServer[c], {"READY"})
        /\ At(SubSeq(toServer[c], 1, k), {"PLAYERNAME"}) \subseteq At(toServer[c], {"PLAYERNAME"})
    BY <1>3, AtSubSeq
  <2>2. QED
    BY <1>2, <2>1 DEF Readies, NameSent
<1>5. NoneBehind(toServer'[c], {"PLAYERNAME"}, {"READY"})
  <2>1. NoneBehind(toServer[c], {"PLAYERNAME"}, {"READY"})
    BY DEF RoundOf, NamedFirst
  <2>2. QED
    BY <1>2, <1>3, <2>1, BehindSubSeq
<1>6. Ends(c)' = {} /\ Greets(c)' = {}
  BY <1>1 DEF Ends, Greets, At
<1>7. /\ NoneBehind(toClient'[c], Greeting, DownMessage)
      /\ NoneBehind(toClient'[c], EndMessage, ListMessage)
  BY <1>1 DEF NoneBehind
<1>8. CalledOnce(c)'
  BY <1>1, <1>3, <1>4, <1>6 DEF RoundOf, CalledOnce, ReadyOnce, Lone
<1>9. NamedFirst(c)'
  BY <1>1, <1>3, <1>4, <1>5, <1>6, <1>7 DEF RoundOf, NamedFirst
<1>10. ReadFirst(c)'
  BY <1>1, <1>6, <1>7 DEF ReadFirst
<1>11. QED
  BY <1>8, <1>9, <1>10 DEF RoundOf

\* A client is started: nothing has been sent to it or by it.
LEMMA StartRound ==
  ASSUME MoveInv, SeatInv, PresentInv, NEW c \in Clients, RoundOf(c),
         consent' = consent, UserStarts(c)
  PROVE  RoundOf(c)'
<1> USE DEF MoveInv, TypeInv, TypeOK
<1>1. /\ NetTypeOK /\ pc \in [Clients -> ClientPc]
      /\ preReadyToStart \in [Clients -> BOOLEAN] /\ readySent \in [Clients -> BOOLEAN]
      /\ Connect(c)
  BY DEF ClientTypeOK, UserStarts, StartClient
<1>2. /\ conn[c] = "off" /\ pc'[c] = "loop" /\ UNCHANGED <<preReadyToStart, readySent>>
      /\ UNCHANGED serverVars
  BY <1>1 DEF UserStarts, StartClient, Goto, Connect
<1>3. ~preReadyToStart[c] /\ toClient[c] = << >> /\ toServer[c] = << >>
  BY <1>2 DEF PresentInv, Outside
<1>4. ~readySent[c] /\ c \notin consent /\ c \notin Seated
  BY <1>2, <1>3 DEF RoundOf, CalledOnce, ReadyOnce, SeatInv, AnnouncedOnce
<1>5. ~HadTurn(c)'
  BY <1>2, <1>4 DEF HadTurn, serverVars, Seated
<1>6. \/ toServer'[c] = << >> /\ toClient'[c] = << >>
      \/ toServer'[c] = <<"NEW_CONNECTION">> /\ toClient'[c] = <<Plain("ACCEPTED")>>
  BY <1>1, <1>3 DEF Connect, Uploaded, NetTypeOK
<1>7. /\ Readies(c)' = {} /\ ~NameSent(c)'
      /\ NoneBehind(toServer'[c], {"PLAYERNAME"}, {"READY"})
  <2>1. \A k \in DOMAIN toServer'[c] : k = 1 /\ toServer'[c][k] = "NEW_CONNECTION"
    BY <1>6
  <2>2. QED
    BY <2>1 DEF Readies, NameSent, NoneBehind, At
<1>8. /\ Ends(c)' = {} /\ NoneBehind(toClient'[c], Greeting, DownMessage)
      /\ NoneBehind(toClient'[c], EndMessage, ListMessage)
  <2>1. \A k \in DOMAIN toClient'[c] : k = 1 /\ toClient'[c][k] = Plain("ACCEPTED")
    BY <1>6
  <2>2. Plain("ACCEPTED") # Plain("END")
    <3>1. Plain("ACCEPTED").type = "ACCEPTED" /\ Plain("END").type = "END"
      BY DEF Plain
    <3>2. QED
      BY <3>1
  <2>3. Ends(c)' = {}
    BY <2>1, <2>2 DEF Ends, At, EndMessage
  <2>4. \A k \in DOMAIN toClient'[c] : 1..(k - 1) = {}
    BY <2>1
  <2>5. QED
    BY <2>3, <2>4 DEF NoneBehind
<1>9. CalledOnce(c)'
  BY <1>2, <1>4, <1>7, <1>8 DEF CalledOnce, ReadyOnce, Lone
<1>10. NamedFirst(c)'
  BY <1>2, <1>3, <1>4, <1>7, <1>8 DEF NamedFirst
<1>11. ReadFirst(c)'
  BY <1>2, <1>5, <1>8 DEF ReadFirst
<1>12. QED
  BY <1>9, <1>10, <1>11 DEF RoundOf

\* Nothing of client d changes, but that it may be found lost.
LEMMA RoundStays ==
  ASSUME NEW d \in Clients, RoundOf(d), UNCHANGED <<serverVars, consent>>,
         UNCHANGED <<toClient[d], toServer[d], pc[d], preReadyToStart[d], readySent[d],
                     cinFail[d]>>,
         conn'[d] = "on" => conn[d] = "on"
  PROVE  RoundOf(d)'
<1>1. /\ Seated' = Seated /\ consent' = consent
      /\ (GameInProgress /\ HadTurn(d))' <=> GameInProgress /\ HadTurn(d)
  BY DEF serverVars, Seated, HadTurn
<1>2. /\ Asks(d)' = Asks(d) /\ Lists(d)' = Lists(d) /\ Ends(d)' = Ends(d)
      /\ Greets(d)' = Greets(d)
  BY QueueLeft
<1>3. Readies(d)' = Readies(d) /\ (NameSent(d)' <=> NameSent(d))
  BY DEF Readies, NameSent
<1>4. CalledOnce(d)'
  BY <1>1, <1>2, <1>3 DEF RoundOf, CalledOnce, ReadyOnce
<1>5. NamedFirst(d)'
  BY <1>1, <1>2, <1>3 DEF RoundOf, NamedFirst
<1>6. ReadFirst(d)'
  BY <1>1, <1>2 DEF RoundOf, ReadFirst, TurnClears, Clear
<1>7. QED
  BY <1>4, <1>5, <1>6 DEF RoundOf

LEMMA OthersCin ==
  ASSUME MoveInv, NEW c \in Clients, NEW d \in Clients \ {c},
         \/ ClientReceives(c) \/ ClientReady(c) \/ UserStarts(c) \/ UserReady(c)
         \/ UserMoves(c) \/ UserRestarts(c) \/ UserDeclines(c) \/ PeerNotices(c)
  PROVE  cinFail'[d] = cinFail[d]
<1> USE DEF MoveInv, TypeInv, TypeOK, ClientTypeOK
<1>1. CASE ClientReceives(c)
  BY <1>1 DEF ClientReceives, Accepted, SetPlayerID, PrintCurrentPlayers, UpdatePlayers,
              HitorStand, RecieveAllCards, RecieveString, clientVars
<1>2. CASE ClientReady(c) \/ UserReady(c) \/ UserMoves(c) \/ UserRestarts(c)
  BY <1>2 DEF ClientReady, SendReady, UserReady, EnterReady, UserMoves, TestTest,
              UserRestarts, AnswerYes, CinCleared
<1>3. CASE UserStarts(c) \/ UserDeclines(c) \/ PeerNotices(c)
  BY <1>3 DEF UserStarts, StartClient, UserDeclines, AnswerOther, AnswerNo, CloseClient,
              PeerNotices, clientVars
<1>4. QED
  BY <1>1, <1>2, <1>3

LEMMA ClientRound ==
  ASSUME MoveInv, TypeInv', SeatInv, PresentInv, RoundInv, NEW c \in Clients,
         \/ ClientReceives(c) \/ ClientReady(c) \/ UserStarts(c) \/ UserReady(c)
         \/ UserMoves(c) \/ UserRestarts(c) \/ UserDeclines(c) \/ PeerNotices(c)
  PROVE  RoundInv'
<1>1. UNCHANGED serverVars /\ consent' = consent
  BY DEF ClientReceives, ClientReady, UserStarts, UserReady, UserMoves, UserRestarts,
         UserDeclines, PeerNotices
<1>2. \A d \in Clients : RoundOf(d)
  BY DEF RoundInv, RoundOf
<1>3. ASSUME NEW d \in Clients, d # c PROVE RoundOf(d)'
  <2>1. UNCHANGED <<toClient[d], toServer[d], pc[d], conn[d]>>
    BY <1>3, OthersUnaware
  <2>2. UNCHANGED <<preReadyToStart[d], readySent[d], cinFail[d]>>
    BY <1>3, OthersPrepared, OthersCin
  <2>3. QED
    BY <1>1, <1>2, <2>1, <2>2, RoundStays
<1>4. RoundOf(c)'
  <2>1. RoundOf(c) /\ (GameInProgress => Seated \subseteq consent)
    BY <1>2 DEF RoundInv
  <2>2. CASE ClientReceives(c)
    BY <1>1, <2>1, <2>2, ReceiveTakes, TakenRound DEF ClientReceives
  <2>3. CASE ClientReady(c) \/ UserReady(c) \/ UserMoves(c) \/ UserRestarts(c)
    BY <1>1, <2>1, <2>3, UserRound DEF ClientReady, UserReady, UserMoves, UserRestarts
  <2>4. CASE UserDeclines(c)
    BY <1>1, <2>1, <2>4, UserRound, GoneRound DEF UserDeclines
  <2>5. CASE UserStarts(c)
    BY <1>1, <2>1, <2>5, StartRound
  <2>6. CASE PeerNotices(c)
    <3>1. /\ UNCHANGED <<toServer, toClient, clientVars>>
          /\ conn'[c] # "on"
      BY <2>6 DEF PeerNotices, ConnectionLost, MoveInv, TypeInv, TypeOK, NetTypeOK
    <3>2. UNCHANGED <<toClient[c], toServer[c], pc[c], preReadyToStart[c], readySent[c],
                      cinFail[c]>>
      BY <3>1 DEF clientVars
    <3>3. QED
      BY <1>1, <2>1, <3>1, <3>2, RoundStays
  <2>7. QED
    BY <2>2, <2>3, <2>4, <2>5, <2>6
<1>5. Seated' = Seated /\ UNCHANGED <<numPlayersReadyToStart, GameInProgress>>
  BY <1>1 DEF serverVars, Seated
<1>6. QED
  BY <1>1, <1>3, <1>4, <1>5 DEF RoundInv, RoundOf

-----------------------------------------------------------------------------
(* The server's side of RoundInv: what is received and sent in a game.     *)

LEMMA NewMessages ==
  ASSUME NetTypeOK, NetTypeOK', NEW d \in Clients, Grows(d)
  PROVE  /\ \A k \in New(d) : toClient'[d][k] \in DownMessage
         /\ toClient[d] \in Seq(DownMessage) /\ toClient'[d] \in Seq(DownMessage)
<1>1. toClient[d] \in Seq(DownMessage) /\ toClient'[d] \in Seq(DownMessage)
  BY DEF NetTypeOK
<1>2. New(d) \subseteq 1..Len(toClient'[d])
  BY <1>1, LenProperties DEF New
<1>3. QED
  BY <1>1, <1>2

LEMMA ServedQueues ==
  ASSUME MoveInv, TypeInv', NEW d \in Clients, NamedFirst(d), ReadFirst(d), Grows(d),
         \A k \in New(d) : toClient'[d][k].type \notin {"ACCEPTED", "END"},
         \/ toServer'[d] = toServer[d]
         \/ toServer[d] # << >> /\ toServer'[d] = Tail(toServer[d])
  PROVE  /\ Ends(d)' = Ends(d) /\ Greets(d)' = Greets(d)
         /\ NoneBehind(toClient'[d], Greeting, DownMessage)
         /\ NoneBehind(toClient'[d], EndMessage, ListMessage)
         /\ NoneBehind(toServer'[d], {"PLAYERNAME"}, {"READY"})
         /\ Fewer(Readies(d), Readies(d)')
         /\ NameSent(d)' => NameSent(d)
<1> DEFINE q == toClient[d]
           r == toClient'[d]
           u == toServer[d]
<1>1. NetTypeOK /\ NetTypeOK' /\ u \in Seq(UpMessage)
  BY DEF MoveInv, TypeInv, TypeOK, NetTypeOK
<1>2. /\ q \in Seq(DownMessage) /\ r \in Seq(DownMessage) /\ Extends(q, r)
      /\ \A k \in (Len(q) + 1)..Len(r) : r[k] \in DownMessage
  BY <1>1, NewMessages DEF Grows, New
<1>3. /\ \A k \in (Len(q) + 1)..Len(r) : r[k] \notin Greeting
      /\ \A k \in (Len(q) + 1)..Len(r) : r[k] \notin EndMessage
  BY <1>2, MessageClass DEF New
<1>4. /\ NoneBehind(q, Greeting, DownMessage) /\ NoneBehind(q, EndMessage, ListMessage)
      /\ NoneBehind(u, {"PLAYERNAME"}, {"READY"})
  BY DEF NamedFirst, ReadFirst
<1>5. Ends(d)' = Ends(d) /\ Greets(d)' = Greets(d)
  <2>1. At(r, EndMessage) = At(q, EndMessage) /\ At(r, Greeting) = At(q, Greeting)
    BY <1>2, <1>3, AtGrown
  <2>2. QED
    BY <2>1 DEF Ends, Greets
<1>6. /\ NoneBehind(toServer'[d], {"PLAYERNAME"}, {"READY"})
      /\ Fewer(Readies(d), Readies(d)')
      /\ NameSent(d)' => NameSent(d)
  <2>1. CASE toServer'[d] = u
    BY <1>4, <2>1 DEF Readies, NameSent, Fewer
  <2>2. CASE u # << >> /\ toServer'[d] = Tail(u)
    <3>1. NoneBehind(Tail(u), {"PLAYERNAME"}, {"READY"})
      BY <1>1, <1>4, <2>2, BehindTail
    <3>2. /\ At(Tail(u), {"READY"}) # {} => At(u, {"READY"}) # {}
          /\ Lone(At(u, {"READY"})) => Lone(At(Tail(u), {"READY"}))
          /\ At(Tail(u), {"PLAYERNAME"}) # {} => At(u, {"PLAYERNAME"}) # {}
      BY <1>1, <2>2, AtTail
    <3>3. QED
      BY <2>2, <3>1, <3>2 DEF Readies, NameSent, Fewer
  <2>3. QED
    BY <2>1, <2>2
<1> HIDE DEF q, u
<1>7. NoneBehind(r, Greeting, DownMessage) /\ NoneBehind(r, EndMessage, ListMessage)
  <2> HIDE DEF r
  <2>1. QED
    BY <1>2, <1>3, <1>4, BehindExtends
<1>8. QED
  BY <1>5, <1>6, <1>7

LEMMA ServedRound ==
  ASSUME MoveInv, TypeInv', NEW d \in Clients, RoundOf(d), Grows(d),
         UNCHANGED clientVars, Seated \subseteq Seated', conn' = conn,
         \A k \in New(d) : toClient'[d][k].type \notin {"ACCEPTED", "END"},
         \/ toServer'[d] = toServer[d]
         \/ toServer[d] # << >> /\ toServer'[d] = Tail(toServer[d]),
         d \in consent' =>
           \/ d \in consent
           \/ /\ readySent[d] /\ d \in Seated' /\ Readies(d)' = {} /\ ~NameSent(d)'
              /\ Ends(d) = {} /\ pc[d] # "restart",
         GameInProgress' /\ HadTurn(d)' /\ conn[d] = "on" => TurnClears(d)'
  PROVE  RoundOf(d)'
<1>1. UNCHANGED <<pc, preReadyToStart, readySent, cinFail>>
  BY DEF clientVars
<1>2. CalledOnce(d) /\ NamedFirst(d) /\ ReadFirst(d)
  BY DEF RoundOf
<1>3. /\ Ends(d)' = Ends(d) /\ Greets(d)' = Greets(d)
      /\ NoneBehind(toClient'[d], Greeting, DownMessage)
      /\ NoneBehind(toClient'[d], EndMessage, ListMessage)
      /\ NoneBehind(toServer'[d], {"PLAYERNAME"}, {"READY"})
      /\ Fewer(Readies(d), Readies(d)')
      /\ NameSent(d)' => NameSent(d)
  BY <1>2, ServedQueues
<1>4. /\ Lone(Readies(d)') /\ (Readies(d)' # {} => Readies(d) # {})
  BY <1>2, <1>3 DEF Fewer, CalledOnce, ReadyOnce
<1>5. CalledOnce(d)'
  BY <1>1, <1>2, <1>3, <1>4 DEF CalledOnce, ReadyOnce
<1>6. NamedFirst(d)'
  BY <1>1, <1>2, <1>3 DEF NamedFirst
<1>7. ReadFirst(d)'
  BY <1>1, <1>2, <1>3 DEF ReadFirst, Clear
<1>8. QED
  BY <1>5, <1>6, <1>7 DEF RoundOf

\* A turn that was asked for stays ahead of what is sent later, if that is no
\* list of names.
LEMMA TurnKept ==
  ASSUME MoveInv, TypeInv', NEW d \in Clients, TurnClears(d), Grows(d),
         UNCHANGED clientVars,
         \A k \in New(d) : toClient'[d][k].type # "JOINED_GAME"
  PROVE  TurnClears(d)'
<1> DEFINE q == toClient[d]
           r == toClient'[d]
<1>1. NetTypeOK /\ NetTypeOK' /\ UNCHANGED <<pc, cinFail>>
  BY DEF MoveInv, TypeInv, TypeOK, clientVars
<1>2. /\ q \in Seq(DownMessage) /\ r \in Seq(DownMessage) /\ Extends(q, r)
      /\ \A k \in (Len(q) + 1)..Len(r) : r[k] \in DownMessage
  BY <1>1, NewMessages DEF Grows, New
<1>3. \A k \in (Len(q) + 1)..Len(r) : r[k] \notin ListMessage
  BY <1>2, MessageClass DEF New
<1>4. /\ Asks(d) = At(q, AskMessage) /\ Asks(d)' = At(r, AskMessage)
      /\ Lists(d) = At(q, ListMessage) /\ Lists(d)' = At(r, ListMessage)
  BY <1>1, MovesAt, MovesAtNext DEF Lists
<1>5. At(r, ListMessage) = At(q, ListMessage)
  BY <1>2, <1>3, AtGrown
<1>6. ASSUME Asks(d) # {}, NoneBehind(q, ListMessage, AskMessage)
      PROVE  Asks(d)' # {} /\ NoneBehind(r, ListMessage, AskMessage)
  <2>1. At(r, AskMessage) # {}
    BY <1>2, <1>4, <1>6, AtExtends
  <2> HIDE DEF q, r
  <2>2. NoneBehind(r, ListMessage, AskMessage)
    BY <1>2, <1>3, <1>6, BehindExtends
  <2>3. QED
    BY <1>4, <2>1, <2>2
<1>7. QED
  BY <1>1, <1>4, <1>5, <1>6 DEF TurnClears, Clear

\* The first turn of a game that a client is asked for.
LEMMA TurnAsked ==
  ASSUME MoveInv, TypeInv', NEW d \in Clients, Asks(d) = {}, conn[d] = "on",
         NEW S, d \in S, toClient' = Sent(S, Plain("HIT_STAND"))
  PROVE  TurnClears(d)'
<1> DEFINE q == toClient[d]
           m == Plain("HIT_STAND")
           r == Append(q, m)
<1>1. NetTypeOK /\ NetTypeOK'
  BY DEF MoveInv, TypeInv, TypeOK
<1>2. /\ q \in Seq(DownMessage) /\ m \in DownMessage
      /\ m.type = "HIT_STAND" /\ toClient'[d] = r
  BY <1>1, MessageTypes DEF NetTypeOK, Sent, Plain
<1>3. m \in AskMessage /\ m \notin ListMessage
  BY <1>2, MessageClass
<1>4. Asks(d) = At(q, AskMessage) /\ Asks(d)' = At(r, AskMessage)
  BY <1>1, <1>2, MovesAt, MovesAtNext
<1> HIDE DEF m, q
<1>5. At(r, AskMessage) # {}
  BY <1>2, <1>3, AtAppended
<1>6. /\ r \in Seq(DownMessage) /\ Extends(q, r)
      /\ \A k \in (Len(q) + 1)..Len(r) : r[k] \notin ListMessage
  BY <1>2, <1>3, AppendExtends
<1>7. NoneBehind(q, ListMessage, AskMessage)
  BY <1>2, <1>4, BehindNone
<1> HIDE DEF r
<1>8. NoneBehind(r, ListMessage, AskMessage)
  BY <1>2, <1>6, <1>7, BehindExtends
<1>9. QED
  BY <1>2, <1>4, <1>5, <1>8 DEF TurnClears

\* A step of the server that asks for a move or does nothing.
LEMMA GameRound ==
  ASSUME MoveInv, TypeInv', RoundInv, SameClients, conn' = conn,
         UNCHANGED clientVars, consent' = consent,
         UNCHANGED <<numPlayersReadyToStart, GameInProgress>>,
         \A d \in Clients : \/ toServer'[d] = toServer[d]
                            \/ toServer[d] # << >> /\ toServer'[d] = Tail(toServer[d]),
         \A d \in Clients : /\ Grows(d)
                            /\ \A k \in New(d) : toClient'[d][k] = Plain("HIT_STAND"),
         \A d \in Clients : GameInProgress /\ HadTurn(d)' /\ conn[d] = "on"
                              => HadTurn(d) \/ TurnClears(d)'
  PROVE  RoundInv'
<1>1. Seated' = Seated
  BY SameClientsSit DEF MoveInv, TypeInv, TypeOK
<1>2. Plain("HIT_STAND").type = "HIT_STAND"
  BY DEF Plain
<1>3. ASSUME NEW d \in Clients PROVE RoundOf(d)'
  <2>1. RoundOf(d)
    BY DEF RoundInv, RoundOf
  <2>2. Grows(d) /\ \A k \in New(d) : toClient'[d][k].type = "HIT_STAND"
    BY <1>2
  <2>3. TurnClears(d) => TurnClears(d)'
    BY <2>2, TurnKept
  <2>4. GameInProgress' /\ HadTurn(d)' /\ conn[d] = "on" => TurnClears(d)'
    BY <2>1, <2>3 DEF RoundOf, ReadFirst
  <2>5. QED
    BY <1>1, <2>1, <2>2, <2>4, ServedRound
<1>4. QED
  BY <1>1, <1>3 DEF RoundInv, RoundOf

LEMMA SameTurns ==
  ASSUME ServerTypeOK, ServerTypeOK', SameClients, NEW d,
         currentPlayer' = currentPlayer
  PROVE  HadTurn(d)' <=> HadTurn(d)
<1>1. /\ DOMAIN players = 1..Len(players) /\ DOMAIN players' = 1..Len(players)
      /\ \A i \in 1..Len(players) : players'[i].client = players[i].client
  BY SeatsDomain DEF SameClients, ServerTypeOK
<1>2. QED
  BY <1>1 DEF HadTurn

LEMMA ServedQueue ==
  ASSUME MoveInv, TypeInv', NEW c \in Clients, NEW m, Receive(c, m), NEW d \in Clients
  PROVE  \/ toServer'[d] = toServer[d]
         \/ toServer[d] # << >> /\ toServer'[d] = Tail(toServer[d])
  BY ReceiveQueue

LEMMA HitRound ==
  ASSUME MoveInv, TypeInv', SeatInv, RoundInv, NEW c \in Clients, Hit(c),
         UNCHANGED clientVars, consent' = consent
  PROVE  RoundInv'
<1>1. ServerTypeOK /\ ServerTypeOK' /\ NetTypeOK /\ pc' = pc
  BY DEF MoveInv, TypeInv, TypeOK, clientVars
<1>2. /\ SameClients /\ conn' = conn
      /\ UNCHANGED <<numPlayersReadyToStart, GameInProgress, currentPlayer>>
  BY <1>1, HitSameClients DEF Hit
<1>3. \A d \in Clients : HadTurn(d)' <=> HadTurn(d)
  BY <1>1, <1>2, SameTurns
<1>4. \A d \in Clients : Grows(d) /\ \A k \in New(d) : toClient'[d][k] = Plain("HIT_STAND")
  BY <1>1, SomeAsked DEF Hit, AsksAgain
<1>5. \A d \in Clients : \/ toServer'[d] = toServer[d]
                         \/ toServer[d] # << >> /\ toServer'[d] = Tail(toServer[d])
  BY ServedQueue DEF Hit
<1>6. QED
  BY <1>2, <1>3, <1>4, <1>5, GameRound

\* The next player is asked, unlike whom nobody is.
LEMMA StandRound ==
  ASSUME MoveInv, TypeInv', SeatInv, RoundInv, NEW c \in Clients, Stand(c),
         UNCHANGED clientVars, consent' = consent
  PROVE  RoundInv'
<1>1. /\ ServerTypeOK /\ ServerTypeOK' /\ NetTypeOK /\ pc' = pc
      /\ currentPlayer \in Nat /\ Len(players) \in Nat
  BY SeatsDomain DEF MoveInv, TypeInv, TypeOK, ServerTypeOK, clientVars
<1>2. /\ SameClients /\ conn' = conn /\ UNCHANGED <<numPlayersReadyToStart, GameInProgress>>
  BY <1>1, StandSameClients DEF Stand
<1>3. \A d \in Clients : Grows(d) /\ \A k \in New(d) : toClient'[d][k] = Plain("HIT_STAND")
  BY <1>1, NobodyAsked, LoopAsks DEF Stand
<1>4. \A d \in Clients : \/ toServer'[d] = toServer[d]
                         \/ toServer[d] # << >> /\ toServer'[d] = Tail(toServer[d])
  BY ServedQueue DEF Stand
<1>5. ASSUME NEW d \in Clients, HadTurn(d)', conn[d] = "on"
      PROVE  HadTurn(d) \/ TurnClears(d)'
  <2>1. CASE LastTurn
    <3>1. currentPlayer' = currentPlayer
      BY <2>1, <1>1, StandSeats
    <3>2. QED
      BY <1>1, <1>2, <1>5, <3>1, SameTurns
  <2>2. CASE ~LastTurn
    <3>1. /\ currentPlayer + 1 < Len(players) /\ currentPlayer' = currentPlayer + 1
          /\ GameInProgress
      BY <1>1, <2>2, StandSeats
    <3>2. PICK i \in DOMAIN players' : i <= currentPlayer' + 1 /\ players'[i].client = d
      BY <1>5 DEF HadTurn
    <3>3. /\ i \in 1..Len(players) /\ i \in Int /\ players[i].client = d
          /\ DOMAIN players = 1..Len(players)
      BY <1>1, <1>2, <3>2, SeatsDomain DEF SameClients, ServerTypeOK
    <3>4. CASE i <= currentPlayer + 1
      BY <3>3, <3>4 DEF HadTurn
    <3>5. CASE i > currentPlayer + 1
      <4>1. i - 1 > currentPlayer /\ i = currentPlayer + 1 + 1
        BY <1>1, <3>1, <3>2, <3>3, <3>5
      <4>2. ~CheckBust(players[i].hand)
        BY <3>1, <3>3, <4>1 DEF SeatInv, WaitingHands
      <4>3. GameLoop(players, currentPlayer + 1)
        BY <2>2 DEF Stand
      <4>4. toClient' = Sent({d}, Plain("HIT_STAND"))
        BY <3>3, <4>1, <4>2, <4>3 DEF GameLoop, AskedIs
      <4>5. Asks(d) = {}
        BY <1>1, AnswerTaken DEF Stand, AnswerMessage
      <4>6. QED
        BY <1>5, <4>4, <4>5, TurnAsked
    <3>6. QED
      BY <1>1, <3>3, <3>4, <3>5
  <2>3. QED
    BY <2>1, <2>2
<1>6. QED
  BY <1>2, <1>3, <1>4, <1>5, GameRound

\* The server's thread does nothing that the players see.
LEMMA QuietRound ==
  ASSUME MoveInv, TypeInv', RoundInv, DealerDraw \/ IgnoreKey \/ PressEnter \/ UNCHANGED vars,
         UNCHANGED clientVars, consent' = consent
  PROVE  RoundInv'
<1>1. /\ UNCHANGED <<conn, toServer, toClient, players>>
      /\ UNCHANGED <<numPlayersReadyToStart, GameInProgress, currentPlayer>>
  BY DEF DealerDraw, IgnoreKey, PressEnter, vars, netVars, serverVars
<1>2. SameClients /\ NetTypeOK
  BY <1>1 DEF SameClients, MoveInv, TypeInv, TypeOK
<1>3. \A d \in Clients : Grows(d) /\ \A k \in New(d) : toClient'[d][k] = Plain("HIT_STAND")
  BY <1>1, <1>2, NobodyAsked
<1>4. \A d \in Clients : HadTurn(d)' <=> HadTurn(d)
  BY <1>1 DEF HadTurn
<1>5. QED
  BY <1>1, <1>2, <1>3, <1>4, GameRound

\* A newcomer: by then there is no game.
LEMMA JoinRound ==
  ASSUME MoveInv, TypeInv', SeatInv, RoundInv, NEW c \in Clients, CreateNewPlayer(c),
         UNCHANGED clientVars, consent' = consent, Seated \subseteq Seated', ~GameInProgress
  PROVE  RoundInv'
<1> USE DEF MoveInv, TypeInv, TypeOK
<1>1. UNCHANGED <<conn, numPlayersReadyToStart, GameInProgress>>
  BY DEF CreateNewPlayer
<1>2. \A d \in Clients : \/ toServer'[d] = toServer[d]
                         \/ toServer[d] # << >> /\ toServer'[d] = Tail(toServer[d])
  BY ServedQueue DEF CreateNewPlayer
<1>3. ASSUME NEW d \in Clients
      PROVE  Grows(d) /\ \A k \in New(d) : toClient'[d][k].type \notin {"ACCEPTED", "END"}
  <2>1. CASE toClient'[d] = toClient[d]
    BY <2>1, NewNone
  <2>2. CASE d = c /\ conn[c] = "on"
    <3> DEFINE r == <<PlayerId(lastPlayerID), Current(Len(players'))>>
    <3>1. r \in Seq(DownMessage)
      BY SeatsDomain, MessageTypes DEF ServerTypeOK
    <3>2. \A i \in 1..Len(r) : r[i].type \notin {"ACCEPTED", "END"}
      BY DEF PlayerId, Current
    <3>3. toClient'[d] = toClient[d] \o r
      BY <2>2 DEF CreateNewPlayer, NetTypeOK
    <3> HIDE DEF r
    <3>4. toClient[d] \in Seq(DownMessage)
      BY DEF NetTypeOK
    <3>5. /\ Extends(toClient[d], toClient'[d])
          /\ \A k \in New(d) : /\ k - Len(toClient[d]) \in 1..Len(r)
                               /\ toClient'[d][k] = r[k - Len(toClient[d])]
      BY <3>1, <3>3, <3>4, ConcatExtends DEF New
    <3>6. \A k \in New(d) : toClient'[d][k].type \notin {"ACCEPTED", "END"}
      BY <3>2, <3>5
    <3>7. QED
      BY <2>2, <3>5, <3>6 DEF Grows
  <2>3. QED
    BY <2>1, <2>2 DEF CreateNewPlayer, NetTypeOK
<1>4. \A d \in Clients : RoundOf(d)
  BY DEF RoundInv, RoundOf
<1>5. \A d \in Clients : RoundOf(d)'
  BY <1>1, <1>2, <1>3, <1>4, ServedRound
<1>6. QED
  BY <1>1, <1>5 DEF RoundInv, RoundOf

\* A name: its client has not agreed to play yet, so there is no game.
LEMMA NameRound ==
  ASSUME MoveInv, TypeInv', NamesInv, PresentInv, RoundInv, NEW c \in Clients,
         UpdatePlayerName(c), UNCHANGED clientVars, consent' = consent, Seated' = Seated
  PROVE  RoundInv'
<1> USE DEF MoveInv, TypeInv, TypeOK
<1>1. UNCHANGED <<conn, numPlayersReadyToStart, GameInProgress>>
  BY DEF UpdatePlayerName
<1>2. \A d \in Clients : \/ toServer'[d] = toServer[d]
                         \/ toServer[d] # << >> /\ toServer'[d] = Tail(toServer[d])
  BY ServedQueue DEF UpdatePlayerName
<1>3. ~GameInProgress
  <2>1. c \in Seated
    BY SenderSits DEF UpdatePlayerName
  <2>2. toServer[c] # << >> /\ Head(toServer[c]) = "PLAYERNAME"
    BY ReceiveQueue DEF UpdatePlayerName
  <2>3. NameSent(c)
    <3>1. 1 \in DOMAIN toServer[c] /\ toServer[c][1] = "PLAYERNAME"
      BY <2>2 DEF NetTypeOK
    <3>2. QED
      BY <3>1 DEF NameSent, At
  <2>4. c \notin consent
    BY <2>3 DEF RoundInv, NamedFirst
  <2>5. QED
    BY <2>1, <2>4 DEF RoundInv
<1>4. ASSUME NEW d \in Clients
      PROVE  Grows(d) /\ \A k \in New(d) : toClient'[d][k].type \notin {"ACCEPTED", "END"}
  <2>1. CASE toClient' = toClient
    BY <2>1, NewNone
  <2>2. CASE PlayerIdx(c) <= Len(players) /\ toClient' = Sent(NameListTo(c), NameList(players'))
    <3> DEFINE m == NameList(players')
    <3>1. Len(players') >= 1 /\ players' \in Seq(Player)
      BY <2>2, NameOrHandSeats, SeatedIdx DEF SeatsStay, ServerTypeOK
    <3>2. m \in DownMessage /\ m.type = "JOINED_GAME"
      BY <3>1, NameListType DEF NameList, Joined
    <3>3. toClient' = Sent(NameListTo(c), m)
      BY <2>2
    <3> HIDE DEF m
    <3>4. Grows(d) /\ \A k \in New(d) : toClient'[d][k] = m
      BY <3>2, <3>3, SentGrows
    <3>5. QED
      BY <3>2, <3>4
  <2>3. QED
    BY <2>1, <2>2 DEF UpdatePlayerName
<1>5. \A d \in Clients : RoundOf(d)
  BY DEF RoundInv, RoundOf
<1>6. \A d \in Clients : RoundOf(d)'
  BY <1>1, <1>2, <1>3, <1>4, <1>5, ServedRound
<1>7. QED
  BY <1>1, <1>3, <1>6 DEF RoundInv, RoundOf

\* The READY of a client that has not been counted: there is no game, and one
\* starts with the last of them.
LEMMA CountedRound ==
  ASSUME MoveInv, TypeInv', NamesInv, PresentInv, RoundInv, NEW c \in Clients,
         PlayerReady(c), consent' = consent \cup {c}
  PROVE  /\ c \notin consent /\ readySent[c] /\ c \in Seated /\ ~GameInProgress
         /\ Readies(c)' = {} /\ ~NameSent(c)' /\ Ends(c) = {} /\ pc[c] # "restart"
         /\ numPlayersReadyToStart' = Cardinality(consent')
         /\ GameInProgress' => Seated = consent'
<1>1. /\ ServerTypeOK /\ toServer[c] \in Seq(UpMessage)
      /\ numPlayersReadyToStart = Cardinality(consent)
      /\ CalledOnce(c) /\ NamedFirst(c)
      /\ \A d \in consent : d \in Seated
  BY ConsentFinite DEF MoveInv, TypeInv, TypeOK, NetTypeOK, RoundInv, CalledOnce, ReadyOnce
<1>2. /\ Receive(c, "READY") /\ numPlayersReadyToStart' = numPlayersReadyToStart + 1
      /\ toServer[c] # << >> /\ Head(toServer[c]) = "READY" /\ toServer'[c] = Tail(toServer[c])
  BY ReceiveQueue DEF PlayerReady
<1>3. Readies(c) # {} /\ Readies(c)' = {}
  BY <1>1, <1>2, ReceivedReadies DEF CalledOnce, ReadyOnce
<1>4. c \notin consent /\ readySent[c] /\ Ends(c) = {} /\ pc[c] # "restart"
  BY <1>1, <1>3 DEF CalledOnce, ReadyOnce
<1>5. c \in Seated
  BY <1>2, SenderSits
<1>6. ~GameInProgress
  BY <1>4, <1>5 DEF RoundInv
<1>7. ~NameSent(c)'
  <2>1. NoneBehind(toServer[c], {"PLAYERNAME"}, {"READY"})
    BY <1>1 DEF NamedFirst
  <2>2. At(Tail(toServer[c]), {"PLAYERNAME"}) = {}
    BY <1>1, <1>2, <2>1, BehindTail
  <2>3. QED
    BY <1>2, <2>2 DEF NameSent
<1>8. numPlayersReadyToStart' = Cardinality(consent')
  <2>1. Cardinality(consent \cup {c}) = Cardinality(consent) + 1
    BY <1>4, ConsentFinite, FS_AddElement DEF MoveInv
  <2>2. QED
    BY <1>1, <1>2, <2>1
<1>9. ASSUME GameInProgress' PROVE Seated = consent'
  <2>1. ~readyToStart /\ readyToStart'
    BY <1>6, <1>9 DEF PlayerReady, MoveInv, TypeInv
  <2>2. numPlayersReadyToStart' >= Len(players)
    BY <2>1 DEF PlayerReady, EnoughReady
  <2>3. PICK S : S = consent'
    OBVIOUS
  <2>4. S \subseteq Seated /\ Cardinality(S) >= Len(players)
    BY <1>1, <1>5, <1>8, <2>2, <2>3
  <2>5. QED
    BY <1>1, <2>3, <2>4, AllCounted
<1>10. QED
  BY <1>3, <1>4, <1>5, <1>6, <1>7, <1>8, <1>9

LEMMA ReadyRound ==
  ASSUME MoveInv, TypeInv', NamesInv, PresentInv, RoundInv, NEW c \in Clients,
         PlayerReady(c), UNCHANGED clientVars, consent' = consent \cup {c}
  PROVE  RoundInv'
<1>1. ServerTypeOK /\ ServerTypeOK' /\ NetTypeOK /\ Len(players) \in Nat
  BY SeatsDomain DEF MoveInv, TypeInv, TypeOK
<1>2. /\ SameClients /\ conn' = conn /\ Seated' = Seated
  BY <1>1, ReadySameClients, SameClientsSit DEF PlayerReady
<1>3. /\ readySent[c] /\ c \in Seated /\ ~GameInProgress
      /\ Readies(c)' = {} /\ ~NameSent(c)' /\ Ends(c) = {} /\ pc[c] # "restart"
      /\ numPlayersReadyToStart' = Cardinality(consent')
      /\ GameInProgress' => Seated = consent'
  BY CountedRound
<1>4. \A d \in Clients : Grows(d) /\ \A k \in New(d) : toClient'[d][k] = Plain("HIT_STAND")
  BY <1>1, NobodyAsked, LoopAsks DEF PlayerReady, StartGame
<1>5. \A d \in Clients : \/ toServer'[d] = toServer[d]
                         \/ toServer[d] # << >> /\ toServer'[d] = Tail(toServer[d])
  BY ServedQueue DEF PlayerReady
<1>6. ASSUME NEW d \in Clients, GameInProgress', HadTurn(d)', conn[d] = "on"
      PROVE  TurnClears(d)'
  <2>1. readyToStart' /\ NoGame
    BY <1>3, <1>6 DEF PlayerReady, NoGame
  <2>2. PICK e \in Clients : /\ players'[1].client = e /\ currentPlayer' = 0
                             /\ toClient' = Sent({e}, Plain("HIT_STAND"))
    BY <2>1, FirstAsked
  <2>3. PICK i \in DOMAIN players' : i <= currentPlayer' + 1 /\ players'[i].client = d
    BY <1>6 DEF HadTurn
  <2>4. i = 1
    <3>1. i \in Nat /\ i >= 1
      BY <1>1 DEF ServerTypeOK
    <3>2. QED
      BY <2>2, <2>3, <3>1
  <2>5. d = e
    BY <2>2, <2>3, <2>4
  <2>6. Asks(d) = {}
    BY <1>3 DEF MoveInv, OnlyCurrentMoves, MovePending
  <2>7. QED
    BY <1>6, <2>2, <2>5, <2>6, TurnAsked
<1>7. ASSUME NEW d \in Clients PROVE RoundOf(d)'
  <2>1. RoundOf(d) /\ Plain("HIT_STAND").type = "HIT_STAND"
    BY DEF RoundInv, RoundOf, Plain
  <2>2. Grows(d) /\ \A k \in New(d) : toClient'[d][k].type = "HIT_STAND"
    BY <1>4, <2>1
  <2>3. d \in consent' => \/ d \in consent
                          \/ /\ readySent[d] /\ d \in Seated' /\ Readies(d)' = {}
                             /\ ~NameSent(d)' /\ Ends(d) = {} /\ pc[d] # "restart"
    BY <1>2, <1>3
  <2>4. QED
    BY <1>2, <1>5, <1>6, <2>1, <2>2, <2>3, ServedRound
<1>8. QED
  BY <1>2, <1>3, <1>7 DEF RoundInv, RoundOf

-----------------------------------------------------------------------------
(* The showdown, and RoundInv step by step.                                *)

\* "end" is sent once, and last.
LEMMA EndSentOnce ==
  ASSUME MoveInv, TypeInv', Showdown, NEW d \in Clients, d \in Seated, conn[d] = "on"
  PROVE  \A k \in New(d) : k = Len(toClient[d]) + 1 \/ k = Len(toClient[d]) + 2
<1> DEFINE q == toClient[d]
           x == AllCards(Len(players))
           y == Plain("END")
<1>1. /\ ServerTypeOK /\ q \in Seq(DownMessage) /\ Len(q) \in Nat
      /\ x \in DownMessage /\ y \in DownMessage
  BY LenProperties, SeatsDomain, MessageTypes DEF MoveInv, TypeInv, TypeOK, NetTypeOK
<1>2. toClient'[d] = q \o Results
  BY DEF Showdown
<1>3. Results = <<x>> \o <<y>> \/ Results = <<x>> \o << >>
  BY DEF Results
<1>4. Results \in Seq(DownMessage)
  BY <1>1, ResultsAre
<1> HIDE DEF x, y, q
<1>5. Len(Results) \in Nat /\ Len(Results) <= 2
  <2>1. <<x>> \in Seq(DownMessage) /\ <<y>> \in Seq(DownMessage) /\ << >> \in Seq(DownMessage)
    BY <1>1
  <2>2. Len(<<x>>) = 1 /\ Len(<<y>>) = 1
    OBVIOUS
  <2>3. Len(<<x>> \o <<y>>) = 2
    BY <2>1, <2>2, ConcatProperties
  <2>4. <<x>> \o << >> = <<x>>
    BY <2>1, ConcatEmptySeq
  <2>5. QED
    BY <1>3, <2>2, <2>3, <2>4
<1>6. Len(q \o Results) = Len(q) + Len(Results)
  BY <1>1, <1>4, ConcatExtends
<1>7. New(d) = (Len(q) + 1)..(Len(q) + Len(Results))
  BY <1>2, <1>6 DEF New, q
<1>8. ASSUME NEW k \in (Len(q) + 1)..(Len(q) + Len(Results))
      PROVE  k = Len(q) + 1 \/ k = Len(q) + 2
  BY <1>1, <1>5
<1>9. QED
  BY <1>7, <1>8 DEF q

\* Everybody at the table has had a turn and has no list of names to read.
LEMMA ShowdownCalls ==
  ASSUME MoveInv, TypeInv', SeatInv, RoundInv, EveryoneBetsOnce, Showdown,
         NEW d \in Clients, d \in Seated, conn[d] = "on"
  PROVE  /\ readySent[d] /\ preReadyToStart[d] /\ Readies(d) = {}
         /\ Ends(d) = {} /\ Greets(d) = {} /\ Lists(d) = {}
         /\ pc[d] # "restart" /\ Clear(d)
<1>1. /\ ServerTypeOK /\ Len(players) \in Nat /\ DOMAIN players = 1..Len(players)
  BY SeatsDomain DEF MoveInv, TypeInv, TypeOK
<1>2. CalledOnce(d) /\ NamedFirst(d) /\ ReadFirst(d)
  BY DEF RoundInv
<1>3. serverPc = "dealer" /\ GameInProgress
  BY DEF Showdown, SeatInv, EndInProgress
<1>4. d \in consent /\ currentPlayer = Len(players) - 1
  BY <1>3 DEF RoundInv, EveryoneBetsOnce
<1>5. /\ readySent[d] /\ preReadyToStart[d] /\ Readies(d) = {}
      /\ Ends(d) = {} /\ Greets(d) = {} /\ pc[d] # "restart"
  BY <1>2, <1>4 DEF CalledOnce, ReadyOnce, NamedFirst
<1>6. HadTurn(d)
  <2>1. PICK i \in DOMAIN players : players[i].client = d
    BY DEF Seated
  <2>2. i <= currentPlayer + 1
    BY <1>1, <1>4
  <2>3. QED
    BY <2>1, <2>2 DEF HadTurn
<1>7. Asks(d) = {} /\ pc[d] # "move"
  BY <1>3 DEF MoveInv, OnlyCurrentMoves, MovePending
<1>8. Lists(d) = {} /\ Clear(d)
  BY <1>2, <1>3, <1>6, <1>7 DEF ReadFirst, TurnClears
<1>9. QED
  BY <1>5, <1>8

LEMMA ShowdownRound ==
  ASSUME MoveInv, TypeInv', SeatInv, RoundInv, EveryoneBetsOnce, Showdown,
         UNCHANGED clientVars, consent' = {}
  PROVE  RoundInv'
<1>1. /\ UNCHANGED <<conn, toServer>> /\ GameInProgress' = FALSE
      /\ numPlayersReadyToStart' = 0
      /\ UNCHANGED <<pc, preReadyToStart, readySent, cinFail>>
  BY DEF Showdown, NobodyReady, clientVars
<1>2. ASSUME NEW d \in Clients PROVE RoundOf(d)'
  <2>1. CalledOnce(d) /\ NamedFirst(d) /\ ReadFirst(d)
    BY DEF RoundInv
  <2>2. Readies(d)' = Readies(d) /\ (NameSent(d)' <=> NameSent(d))
    BY <1>1 DEF Readies, NameSent
  <2>3. CASE d \in Seated /\ conn[d] = "on"
    <3> DEFINE q == toClient[d]
               r == toClient'[d]
    <3>1. /\ readySent[d] /\ preReadyToStart[d] /\ Readies(d) = {}
          /\ Ends(d) = {} /\ Greets(d) = {} /\ Lists(d) = {}
          /\ pc[d] # "restart" /\ Clear(d)
      BY <2>3, ShowdownCalls
    <3>2. NetTypeOK /\ NetTypeOK' /\ Grows(d)
      BY HandsSent DEF MoveInv, TypeInv, TypeOK
    <3>3. /\ q \in Seq(DownMessage) /\ r \in Seq(DownMessage) /\ Extends(q, r)
          /\ \A k \in (Len(q) + 1)..Len(r) : r[k] \in DownMessage
      BY <3>2, NewMessages DEF Grows, New
    <3>4. AllCards(Len(players)).type = "CARDS_STRING" /\ Plain("END").type = "END"
      BY DEF AllCards, Plain
    <3>5. ASSUME NEW k \in (Len(q) + 1)..Len(r)
          PROVE  /\ r[k] \notin Greeting /\ r[k] \notin ListMessage
                 /\ r[k] \in EndMessage => k = Len(q) + 2
      <4>1. r[k] = IF k = Len(q) + 1 THEN AllCards(Len(players)) ELSE Plain("END")
        BY HandsSent DEF New
      <4>2. k = Len(q) + 1 \/ k = Len(q) + 2
        BY <2>3, EndSentOnce DEF New
      <4>3. r[k].type \in {"CARDS_STRING", "END"} /\ (r[k].type = "END" => k # Len(q) + 1)
        BY <3>4, <4>1
      <4>4. QED
        BY <3>3, <4>2, <4>3, MessageClass
    <3>6. NoneBehind(q, Greeting, DownMessage) /\ At(q, ListMessage) = {}
          /\ NoneBehind(q, EndMessage, ListMessage) /\ At(q, EndMessage) = {}
      BY <2>1, <3>1 DEF NamedFirst, ReadFirst, Lists, Ends
    <3> HIDE DEF q
    <3>7. Greets(d)' = {}
      <4>1. At(r, Greeting) = At(q, Greeting)
        BY <3>3, <3>5, AtGrown
      <4>2. QED
        BY <3>1, <4>1 DEF Greets, q
    <3>8. Lone(Ends(d)')
      <4>1. ASSUME NEW k \in At(r, EndMessage) PROVE k = Len(q) + 2
        <5>1. k \in 1..Len(r) /\ r[k] \in EndMessage /\ Len(q) \in Nat /\ Len(r) \in Nat
          BY <3>3, LenProperties DEF At
        <5>2. CASE k \in (Len(q) + 1)..Len(r)
          BY <3>5, <5>1, <5>2
        <5>3. CASE k \in 1..Len(q)
          <6>1. r[k] = q[k] /\ k \in DOMAIN q
            BY <3>3, <5>3 DEF Extends
          <6>2. QED
            BY <3>6, <5>1, <6>1 DEF At
        <5>4. QED
          BY <5>1, <5>2, <5>3
      <4>2. QED
        BY <4>1 DEF Ends, Lone
    <3> HIDE DEF r
    <3>9. NoneBehind(r, Greeting, DownMessage) /\ NoneBehind(r, EndMessage, ListMessage)
      BY <3>3, <3>5, <3>6, BehindExtends
    <3>10. CalledOnce(d)'
      BY <1>1, <2>2, <3>1, <3>8 DEF CalledOnce, ReadyOnce, Lone
    <3>11. NamedFirst(d)'
      BY <1>1, <2>1, <2>2, <3>7, <3>9 DEF NamedFirst, r
    <3>12. ReadFirst(d)'
      BY <1>1, <3>1, <3>9 DEF ReadFirst, Clear, r
    <3>13. QED
      BY <3>10, <3>11, <3>12 DEF RoundOf
  <2>4. CASE ~(d \in Seated /\ conn[d] = "on")
    <3>1. toClient'[d] = toClient[d]
      BY <2>4 DEF Showdown
    <3>2. Ends(d)' = Ends(d) /\ Greets(d)' = Greets(d)
      BY <3>1, QueueLeft
    <3>3. CalledOnce(d)'
      BY <1>1, <2>1, <2>2, <3>2 DEF CalledOnce, ReadyOnce
    <3>4. NamedFirst(d)'
      BY <1>1, <2>1, <2>2, <3>1, <3>2 DEF NamedFirst
    <3>5. ReadFirst(d)'
      BY <1>1, <2>1, <3>1, <3>2 DEF ReadFirst, Clear
    <3>6. QED
      BY <3>3, <3>4, <3>5 DEF RoundOf
  <2>5. QED
    BY <2>3, <2>4
<1>3. Cardinality(consent') = 0
  BY FS_EmptySet
<1>4. QED
  BY <1>1, <1>2, <1>3 DEF RoundInv, RoundOf

LEMMA ServerRound ==
  ASSUME MoveInv, TypeInv', SeatInv, NamesInv, PresentInv, EveryoneBetsOnce, RoundInv,
         NEW c \in Clients, ServerThread(c), NobodyJoinsLate
  PROVE  RoundInv'
<1>1. UNCHANGED clientVars /\ ServerTypeOK /\ ServerTypeOK'
  BY DEF ServerThread, MoveInv, TypeInv, TypeOK
<1>2. CASE CreateNewPlayer(c) /\ consent' = consent
  <2>1. Seated \subseteq Seated' /\ c \in Seated'
    BY <1>2, SeatedStay
  <2>2. c \notin Seated
    BY <1>2, ReceiveAnnounces DEF CreateNewPlayer, SeatInv, AnnouncedOnce
  <2>3. ~GameInProgress
    BY <2>1, <2>2 DEF NobodyJoinsLate
  <2>4. QED
    BY <1>1, <1>2, <2>1, <2>3, JoinRound
<1>3. CASE UpdatePlayerName(c) /\ consent' = consent
  <2>1. SameClients
    BY <1>1, <1>3, UpdatePlayerNameSeats DEF SameClients
  <2>2. Seated' = Seated
    BY <1>1, <2>1, SameClientsSit
  <2>3. QED
    BY <1>1, <1>3, <2>2, NameRound
<1>4. CASE (Hit(c) \/ Stand(c)) /\ consent' = consent
  BY <1>1, <1>4, HitRound, StandRound
<1>5. CASE PlayerReady(c) /\ consent' = consent \cup {c}
  BY <1>1, <1>5, ReadyRound
<1>6. QED
  BY <1>2, <1>3, <1>4, <1>5 DEF ServerThread, ServerReceives

LEMMA NextRound ==
  /\ MoveInv /\ TypeInv' /\ SeatInv /\ NamesInv /\ PresentInv /\ EveryoneBetsOnce
  /\ RoundInv /\ [Next]_vars /\ [NobodyJoinsLate]_vars
  => RoundInv'
<1> SUFFICES ASSUME MoveInv, TypeInv', SeatInv, NamesInv, PresentInv, EveryoneBetsOnce,
                    RoundInv, [Next]_vars, [NobodyJoinsLate]_vars
             PROVE  RoundInv'
  OBVIOUS
<1>1. CASE UNCHANGED vars
  <2>1. UNCHANGED clientVars /\ consent' = consent
    BY <1>1 DEF vars
  <2>2. QED
    BY <1>1, <2>1, QuietRound
<1>2. ASSUME NEW c \in Clients, ServerThread(c), NobodyJoinsLate PROVE RoundInv'
  BY <1>2, ServerRound
<1>3. ASSUME NEW c \in Clients,
             \/ ClientReceives(c) \/ ClientReady(c) \/ UserStarts(c) \/ UserReady(c)
             \/ UserMoves(c) \/ UserRestarts(c) \/ UserDeclines(c) \/ PeerNotices(c)
      PROVE  RoundInv'
  BY <1>3, ClientRound
<1>4. CASE ServerDoEnd \/ Operator
  BY <1>4, QuietRound, ShowdownRound DEF ServerDoEnd, ServerEnds, Operator
<1>5. QED
  BY <1>1, <1>2, <1>3, <1>4 DEF Next

LEMMA InitRound == Init => RoundInv
<1> SUFFICES ASSUME Init PROVE RoundInv
  OBVIOUS
<1>1. ASSUME NEW d \in Clients
      PROVE  /\ toServer[d] = << >> /\ toClient[d] = << >>
             /\ pc[d] = "off" /\ ~preReadyToStart[d] /\ ~readySent[d]
  BY DEF Init, NetInit, ClientInit
<1>2. consent = {} /\ numPlayersReadyToStart = 0 /\ ~GameInProgress
  BY DEF Init, ServerInit
<1>3. ASSUME NEW d \in Clients PROVE CalledOnce(d) /\ NamedFirst(d) /\ ReadFirst(d)
  <2>1. Readies(d) = {} /\ Ends(d) = {} /\ Greets(d) = {}
    BY <1>1 DEF Readies, Ends, Greets, At
  <2>2. CalledOnce(d)
    BY <1>1, <1>2, <2>1 DEF CalledOnce, ReadyOnce, Lone
  <2>3. NamedFirst(d)
    BY <1>1, <1>2, <2>1 DEF NamedFirst, NoneBehind
  <2>4. ReadFirst(d)
    BY <1>1, <1>2, <2>1 DEF ReadFirst, NoneBehind
  <2>5. QED
    BY <2>2, <2>3, <2>4
<1>4. QED
  BY <1>2, <1>3, FS_EmptySet DEF RoundInv

LEMMA RoundKept ==
  Spec /\ [][NobodyJoinsLate]_vars
    => [](MoveInv /\ SeatInv /\ NamesInv /\ PresentInv /\ RoundInv)
<1>1. /\ MoveInv /\ SeatInv /\ NamesInv /\ PresentInv /\ ReadyInv /\ EveryoneBetsOnce
      /\ (MoveInv /\ SeatInv /\ NamesInv /\ PresentInv /\ ReadyInv)'
      /\ RoundInv /\ [Next]_vars /\ [NobodyJoinsLate]_vars
      => RoundInv'
  BY NextRound DEF MoveInv
<1>2. QED
  BY <1>1, InitRound, ReadiesKept, BetsOnce, PTL DEF Spec

-----------------------------------------------------------------------------
(* What a table that nobody joins late may rely on.                        *)

\* The answer to "Would you like to restart" is read, if nobody takes a seat
\* while a game is on: the prompt of a turn has cleared cin since the client was
\* last asked to get ready, and everybody has had one at the showdown.
THEOREM AnswersAreRead == Spec /\ [][NobodyJoinsLate]_vars => []RestartReadsAnswer
<1>1. RoundInv => RestartReadsAnswer
  BY DEF RoundInv, ReadFirst, RestartReadsAnswer
<1>2. QED
  BY <1>1, RoundKept, PTL

\* A game starts only when everybody seated has agreed to play it, restarted or
\* not, if nobody takes a seat while a game is on: a READY that is on its way is
\* never one of an earlier game.
THEOREM EveryStartAgreed == Spec /\ [][NobodyJoinsLate]_vars => AllReadyAtStart
<1>1. /\ MoveInv /\ NamesInv /\ PresentInv /\ RoundInv /\ TypeInv' /\ [Next]_vars
      => [GameStarts => Seated \subseteq consent']_vars
  <2> SUFFICES ASSUME MoveInv, NamesInv, PresentInv, RoundInv, TypeInv', [Next]_vars,
                      GameStarts
               PROVE  Seated \subseteq consent'
    OBVIOUS
  <2>1. PICK c \in Clients : PlayerReady(c) /\ consent' = consent \cup {c}
    BY StartCounts
  <2>2. QED
    BY <2>1, CountedRound DEF GameStarts
<1>2. /\ (MoveInv /\ SeatInv /\ NamesInv /\ PresentInv /\ RoundInv)
      /\ (MoveInv /\ SeatInv /\ NamesInv /\ PresentInv /\ RoundInv)' /\ [Next]_vars
      => [GameStarts => Seated \subseteq consent']_vars
  BY <1>1 DEF MoveInv
<1>3. QED
  BY <1>2, RoundKept, PTL DEF Spec, AllReadyAtStart

-----------------------------------------------------------------------------
(* Two clients: nobody can be late.                                        *)

AllSit == GameInProgress => Seated = Clients

LEMMA TwoSeats ==
  ASSUME MoveInv, SeatInv, Len(players) >= 2, Cardinality(Clients) <= 2
  PROVE  Seated = Clients
<1>1. /\ ServerTypeOK /\ Len(players) \in Nat /\ DOMAIN players = 1..Len(players)
      /\ \A i \in 1..Len(players) : players[i] \in Player
  BY SeatsDomain DEF MoveInv, TypeInv, TypeOK
<1>2. 1 \in DOMAIN players /\ 2 \in DOMAIN players
  BY <1>1
<1>3. PICK a \in Clients, b \in Clients : a = players[1].client /\ b = players[2].client
  BY <1>1, <1>2 DEF Player
<1>4. a # b /\ a \in Seated /\ b \in Seated
  <2>1. 1 # 2
    OBVIOUS
  <2>2. QED
    BY <1>2, <1>3, <2>1 DEF SeatInv, OneSeatEach, Seated
<1>5. Seated \subseteq Clients
  BY <1>1 DEF Seated, Player
<1>6. IsFiniteSet({a} \cup {b}) /\ Cardinality({a} \cup {b}) = 2
  <2>1. IsFiniteSet({a}) /\ Cardinality({a}) = 1
    BY FS_Singleton
  <2>2. IsFiniteSet({a} \cup {b}) /\ Cardinality({a} \cup {b}) = Cardinality({a}) + 1
    BY <1>4, <2>1, FS_AddElement
  <2>3. QED
    BY <2>1, <2>2
<1>7. /\ Cardinality({a} \cup {b}) <= Cardinality(Clients) /\ Cardinality(Clients) \in Nat
      /\ Cardinality(Clients) = Cardinality({a} \cup {b}) => Clients = {a} \cup {b}
  <2>1. IsFiniteSet(Clients) /\ {a} \cup {b} \in SUBSET Clients
    BY NetAssumption
  <2>2. QED
    BY <2>1, FS_Subset, FS_CardinalityType
<1>8. Clients = {a} \cup {b}
  <2>1. PICK T : T = {a} \cup {b}
    OBVIOUS
  <2>2. Cardinality(T) = 2 /\ Cardinality(T) <= Cardinality(Clients)
        /\ (Cardinality(Clients) = Cardinality(T) => Clients = T)
    BY <1>6, <1>7, <2>1
  <2>3. Cardinality(Clients) = 2
    BY <1>7, <2>2
  <2>4. QED
    BY <2>1, <2>2, <2>3
<1>9. QED
  BY <1>4, <1>5, <1>8

LEMMA NextAllSit ==
  ASSUME Cardinality(Clients) <= 2, MoveInv, TypeInv', SeatInv, AllSit, [Next]_vars
  PROVE  AllSit' /\ NobodyJoinsLate
<1>1. Seated' \subseteq Clients
  <2>1. players' \in Seq(Player)
    BY DEF TypeInv, TypeOK, ServerTypeOK
  <2>2. DOMAIN players' = 1..Len(players') /\ \A i \in DOMAIN players' : players'[i] \in Player
    BY <2>1
  <2>3. QED
    BY <2>2 DEF Seated, Player
<1>2. Seated \subseteq Seated'
  <2>1. ASSUME NEW c \in Clients, ServerThread(c) \/ ServerDoEnd \/ Operator
        PROVE  Seated \subseteq Seated'
    BY <2>1, SeatedStay
  <2>2. ASSUME NEW c \in Clients,
               \/ ClientReceives(c) \/ ClientReady(c) \/ UserStarts(c) \/ UserReady(c)
               \/ UserMoves(c) \/ UserRestarts(c) \/ UserDeclines(c) \/ PeerNotices(c)
        PROVE  Seated \subseteq Seated'
    BY <2>2, Bystander DEF serverVars, Seated
  <2>3. CASE UNCHANGED vars
    BY <2>3 DEF vars, serverVars, Seated
  <2>4. CASE Clients = {}
    BY <2>4 DEF MoveInv, TypeInv, TypeOK, ServerTypeOK, Seated, Player
  <2>5. QED
    BY <2>1, <2>2, <2>3, <2>4 DEF Next
<1>3. CASE GameInProgress
  BY <1>1, <1>2, <1>3 DEF AllSit, NobodyJoinsLate
<1>4. CASE ~GameInProgress /\ GameInProgress'
  <2>1. PICK c \in Clients : PlayerReady(c)
    BY <1>4, StartCounts DEF GameStarts
  <2>2. readyToStart' /\ NoGame
    BY <1>4, <2>1 DEF PlayerReady, NoGame
  <2>3. Seated = Clients
    BY <2>1, <2>2, StartGameSeats, TwoSeats
  <2>4. QED
    BY <1>1, <1>2, <1>4, <2>3 DEF AllSit, NobodyJoinsLate
<1>5. CASE ~GameInProgress /\ ~GameInProgress'
  BY <1>5 DEF AllSit, NobodyJoinsLate
<1>6. QED
  BY <1>3, <1>4, <1>5

LEMMA NobodyLate ==
  ASSUME Cardinality(Clients) <= 2
  PROVE  Spec => [][NobodyJoinsLate]_vars
<1>1. Init => AllSit
  BY DEF Init, ServerInit, AllSit
<1>2. /\ MoveInv /\ SeatInv /\ (MoveInv /\ SeatInv)' /\ AllSit /\ [Next]_vars
      => AllSit' /\ [NobodyJoinsLate]_vars
  BY NextAllSit DEF MoveInv
<1>3. QED
  BY <1>1, <1>2, SeatsAndTurn, PTL DEF Spec

\* Of two clients none is late, since a game takes two: both facts hold of every
\* table of two, whatever their users do.
THEOREM TwoAnswersAreRead ==
  ASSUME Cardinality(Clients) <= 2
  PROVE  Spec => []RestartReadsAnswer
  BY NobodyLate, AnswersAreRead, PTL

\* The same of the starts: with two clients every game that starts was agreed to.
THEOREM TwoStartsAgreed ==
  ASSUME Cardinality(Clients) <= 2
  PROVE  Spec => AllReadyAtStart
<1>1. Spec => [][NobodyJoinsLate]_vars
  BY NobodyLate
<1>2. QED
  BY <1>1, EveryStartAgreed, PTL
=============================================================================
