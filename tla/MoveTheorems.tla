---------------------------- MODULE MoveTheorems ----------------------------
(***************************************************************************)
(* The token of the turn: whatever the number of clients, only the player  *)
(* whose turn it is has a move under way, and only one.  The server relies *)
(* on it, as SetHitStandRecieved does not look at who sends an answer.     *)
(***************************************************************************)
EXTENDS BlackjackTheorems

\* The places in the queue q of messages that belong to X.
At(q, X) == {i \in DOMAIN q : q[i] \in X}

Lone(T) == \A i, j \in T : i = j

LEMMA AtTail ==
  ASSUME NEW S, NEW q \in Seq(S), q # << >>, NEW X
  PROVE  /\ At(Tail(q), X) # {} => At(q, X) # {}
         /\ Lone(At(q, X)) => Lone(At(Tail(q), X))
         /\ Head(q) \in X /\ Lone(At(q, X)) => At(Tail(q), X) = {}
<1>1. Len(q) \in Nat /\ Len(q) >= 1 /\ DOMAIN q = 1..Len(q)
  BY EmptySeq, LenProperties
<1>2. DOMAIN Tail(q) = 1..(Len(q) - 1) /\ \A i \in 1..(Len(q) - 1) : Tail(q)[i] = q[i + 1]
  BY <1>1, HeadTailProperties
<1>3. \A i \in At(Tail(q), X) : i \in Nat /\ i >= 1 /\ i + 1 \in At(q, X)
  BY <1>1, <1>2 DEF At
<1>4. Head(q) \in X => 1 \in At(q, X)
  BY <1>1 DEF At
<1>5. At(Tail(q), X) # {} => At(q, X) # {}
  BY <1>3
<1>6. ASSUME Lone(At(q, X)) PROVE Lone(At(Tail(q), X))
  <2> SUFFICES ASSUME NEW i \in At(Tail(q), X), NEW j \in At(Tail(q), X) PROVE i = j
    BY DEF Lone
  <2>1. i + 1 = j + 1 /\ i \in Nat /\ j \in Nat
    BY <1>3, <1>6 DEF Lone
  <2>2. QED
    BY <2>1
<1>7. ASSUME Head(q) \in X, Lone(At(q, X)) PROVE At(Tail(q), X) = {}
  <2> SUFFICES ASSUME NEW i \in At(Tail(q), X) PROVE FALSE
    OBVIOUS
  <2>1. i \in Nat /\ i >= 1 /\ i + 1 = 1
    BY <1>3, <1>4, <1>7 DEF Lone
  <2>2. QED
    BY <2>1
<1>8. QED
  BY <1>5, <1>6, <1>7

LEMMA AtConcat ==
  ASSUME NEW S, NEW q \in Seq(S), NEW r \in Seq(S), NEW X,
         \A i \in DOMAIN r : r[i] \notin X
  PROVE  At(q \o r, X) = At(q, X)
<1>1. /\ DOMAIN (q \o r) = 1..(Len(q) + Len(r))
      /\ DOMAIN q = 1..Len(q) /\ DOMAIN r = 1..Len(r)
      /\ Len(q) \in Nat /\ Len(r) \in Nat
  BY LenProperties, ConcatProperties
<1>2. ASSUME NEW i \in 1..(Len(q) + Len(r))
      PROVE  (q \o r)[i] \in X <=> i \in 1..Len(q) /\ q[i] \in X
  <2>1. CASE i <= Len(q)
    BY <1>1, <2>1, ConcatProperties
  <2>2. CASE i > Len(q)
    <3>1. (q \o r)[i] = r[i - Len(q)] /\ i - Len(q) \in DOMAIN r
      BY <1>1, <2>2, ConcatProperties
    <3>2. QED
      BY <2>2, <3>1
  <2>3. QED
    BY <1>1, <2>1, <2>2
<1>3. QED
  BY <1>1, <1>2 DEF At

LEMMA AtAppend ==
  ASSUME NEW S, NEW q \in Seq(S), NEW m \in S, NEW X
  PROVE  /\ m \notin X => At(Append(q, m), X) = At(q, X)
         /\ At(q, X) = {} => Lone(At(Append(q, m), X))
<1>1. /\ Len(q) \in Nat /\ DOMAIN q = 1..Len(q)
      /\ DOMAIN Append(q, m) = 1..(Len(q) + 1)
      /\ \A i \in 1..Len(q) : Append(q, m)[i] = q[i]
      /\ Append(q, m)[Len(q) + 1] = m
  BY LenProperties, AppendProperties
<1>2. \A i \in At(Append(q, m), X) : i \in At(q, X) \/ (i = Len(q) + 1 /\ m \in X)
  BY <1>1 DEF At
<1>3. \A i \in At(q, X) : i \in At(Append(q, m), X)
  BY <1>1 DEF At
<1>4. QED
  BY <1>2, <1>3 DEF Lone

LEMMA AtSubSeq ==
  ASSUME NEW S, NEW q \in Seq(S), NEW k \in 0..Len(q), NEW X
  PROVE  At(SubSeq(q, 1, k), X) \subseteq At(q, X)
<1>1. /\ Len(q) \in Nat /\ DOMAIN q = 1..Len(q)
      /\ DOMAIN SubSeq(q, 1, k) = 1..k
      /\ \A i \in 1..k : SubSeq(q, 1, k)[i] = q[i]
  BY LenProperties, SubSeqProperties
<1>2. QED
  BY <1>1 DEF At

-----------------------------------------------------------------------------
(* Moves of one client, as places in its two queues.                       *)

AskMessage    == {m \in DownMessage : m.type = "HIT_STAND"}
AnswerMessage == {"HIT", "STAND"}

LEMMA LenExcept ==
  ASSUME NEW S, NEW s \in Seq(S), NEW i, NEW e
  PROVE  Len([s EXCEPT ![i] = e]) = Len(s)
<1>1. s \in [1..Len(s) -> S] /\ Len(s) \in Nat
  OBVIOUS
<1>2. s \in [1..Len(s) -> S \cup {e}]
  BY <1>1
<1>3. [s EXCEPT ![i] = e] \in [1..Len(s) -> S \cup {e}]
  BY <1>2
<1>4. QED
  BY <1>1, <1>3, IsASeq, LenProperties

LEMMA MovesAt ==
  ASSUME NetTypeOK, NEW d \in Clients
  PROVE  /\ Asks(d) = At(toClient[d], AskMessage)
         /\ Answers(d) = At(toServer[d], AnswerMessage)
<1>1. toClient[d] \in Seq(DownMessage)
  BY DEF NetTypeOK
<1>2. \A i \in DOMAIN toClient[d] :
        toClient[d][i].type = "HIT_STAND" <=> toClient[d][i] \in AskMessage
  BY <1>1 DEF AskMessage
<1>3. QED
  BY <1>2 DEF Asks, Answers, At, AnswerMessage

LEMMA MovesAtNext ==
  ASSUME NetTypeOK', NEW d \in Clients
  PROVE  /\ Asks(d)' = At(toClient'[d], AskMessage)
         /\ Answers(d)' = At(toServer'[d], AnswerMessage)
<1>1. toClient'[d] \in Seq(DownMessage)
  BY DEF NetTypeOK
<1>2. \A i \in DOMAIN toClient'[d] :
        toClient'[d][i].type = "HIT_STAND" <=> toClient'[d][i] \in AskMessage
  BY <1>1 DEF AskMessage
<1>3. QED
  BY <1>2 DEF Asks, Answers, At, AnswerMessage

OneMove(d) ==
  /\ Lone(Asks(d))
  /\ Lone(Answers(d))
  /\ Asks(d) # {} => pc[d] # "move" /\ Answers(d) = {}
  /\ pc[d] = "move" => Answers(d) = {}

LEMMA OneMoveEach == OneMovePending <=> \A d \in Clients : OneMove(d)
  BY DEF OneMovePending, OneMove, Lone

LEMMA OneMoveEachNext == OneMovePending' <=> \A d \in Clients : OneMove(d)'
  BY DEF OneMovePending, OneMove, Lone

\* What a step does to a client that has no part in it: nothing of a move
\* comes into being, though something may go.
Fewer(T, U) == (U # {} => T # {}) /\ (Lone(T) => Lone(U))

NoNewMove(d) ==
  /\ Fewer(Asks(d), Asks(d)')
  /\ Fewer(Answers(d), Answers(d)')
  /\ pc'[d] = "move" => pc[d] = "move"

LEMMA NoNewMoveKeeps ==
  ASSUME NEW d, NoNewMove(d)
  PROVE  /\ MovePending(d)' => MovePending(d)
         /\ OneMove(d) => OneMove(d)'
  BY DEF NoNewMove, Fewer, MovePending, OneMove

SeatNumbers ==
  /\ lastPlayerID = Len(players)
  /\ \A i \in DOMAIN players : players[i].playerID = i - 1

MoveInv == TypeInv /\ SeatNumbers /\ OnlyCurrentMoves /\ OneMovePending

\* The turn stays where it is, with the same player.
TurnStays ==
  /\ GameInProgress' = GameInProgress
  /\ serverPc' = serverPc
  /\ currentPlayer' = currentPlayer
  /\ Len(players') >= Len(players)
  /\ \A i \in DOMAIN players : players'[i].client = players[i].client

OnlyCurrent(d) ==
  MovePending(d) => /\ GameInProgress
                    /\ serverPc = "loop"
                    /\ currentPlayer < Len(players)
                    /\ players[currentPlayer + 1].client = d

LEMMA TurnStaysKeeps ==
  ASSUME TypeInv, TypeInv', TurnStays, NEW d, OnlyCurrent(d),
         MovePending(d)' => MovePending(d)
  PROVE  OnlyCurrent(d)'
<1>1. currentPlayer \in Nat /\ Len(players) \in Nat /\ Len(players') \in Nat
      /\ DOMAIN players = 1..Len(players)
  BY DEF TypeInv, TypeOK, ServerTypeOK
<1>2. SUFFICES ASSUME MovePending(d)'
               PROVE  /\ GameInProgress'
                      /\ serverPc' = "loop"
                      /\ currentPlayer' < Len(players')
                      /\ players'[currentPlayer' + 1].client = d
  BY DEF OnlyCurrent
<1>3. /\ GameInProgress /\ serverPc = "loop"
      /\ currentPlayer < Len(players)
      /\ players[currentPlayer + 1].client = d
  BY <1>2 DEF OnlyCurrent
<1>4. currentPlayer + 1 \in DOMAIN players
  BY <1>1, <1>3
<1>5. QED
  BY <1>1, <1>3, <1>4 DEF TurnStays

LEMMA OnlyCurrentEach == OnlyCurrentMoves <=> \A d \in Clients : OnlyCurrent(d)
  BY DEF OnlyCurrentMoves, OnlyCurrent

LEMMA OnlyCurrentEachNext == OnlyCurrentMoves' <=> \A d \in Clients : OnlyCurrent(d)'
  BY DEF OnlyCurrentMoves, OnlyCurrent

\* A step that brings no move into being and leaves the turn where it is.
LEMMA QuietStep ==
  ASSUME MoveInv, TypeInv', TurnStays, \A d \in Clients : NoNewMove(d)
  PROVE  OnlyCurrentMoves' /\ OneMovePending'
<1>1. ASSUME NEW d \in Clients PROVE OnlyCurrent(d)' /\ OneMove(d)'
  <2>1. OnlyCurrent(d) /\ OneMove(d)
    BY OnlyCurrentEach, OneMoveEach DEF MoveInv
  <2>2. (MovePending(d)' => MovePending(d)) /\ OneMove(d)'
    BY <2>1, NoNewMoveKeeps
  <2>3. QED
    BY <2>1, <2>2, TurnStaysKeeps DEF MoveInv
<1>2. QED
  BY <1>1, OnlyCurrentEachNext, OneMoveEachNext

-----------------------------------------------------------------------------
(* What the changes of a queue do to the moves in it.                      *)

LEMMA Unmoved ==
  ASSUME NEW d, toClient'[d] = toClient[d], toServer'[d] = toServer[d], pc'[d] = pc[d]
  PROVE  NoNewMove(d)
  BY DEF NoNewMove, Fewer, Asks, Answers

LEMMA DownSame ==
  ASSUME NEW d, toClient'[d] = toClient[d]
  PROVE  Asks(d)' = Asks(d)
  BY DEF Asks

LEMMA UpSame ==
  ASSUME NEW d, toServer'[d] = toServer[d]
  PROVE  Answers(d)' = Answers(d)
  BY DEF Answers

LEMMA DownTaken ==
  ASSUME NetTypeOK, NetTypeOK', NEW d \in Clients, toClient[d] # << >>,
         toClient'[d] = Tail(toClient[d])
  PROVE  /\ Fewer(Asks(d), Asks(d)')
         /\ Head(toClient[d]).type = "HIT_STAND" =>
              /\ Asks(d) # {}
              /\ Lone(Asks(d)) => Asks(d)' = {}
<1>1. toClient[d] \in Seq(DownMessage)
  BY DEF NetTypeOK
<1>2. Asks(d) = At(toClient[d], AskMessage) /\ Asks(d)' = At(Tail(toClient[d]), AskMessage)
  BY MovesAt, MovesAtNext
<1>3. Head(toClient[d]).type = "HIT_STAND" =>
        /\ Head(toClient[d]) \in AskMessage
        /\ 1 \in At(toClient[d], AskMessage)
  BY <1>1 DEF AskMessage, At
<1>4. QED
  BY <1>1, <1>2, <1>3, AtTail DEF Fewer

LEMMA UpTaken ==
  ASSUME NetTypeOK, NetTypeOK', NEW d \in Clients, toServer[d] # << >>,
         toServer'[d] = Tail(toServer[d])
  PROVE  /\ Fewer(Answers(d), Answers(d)')
         /\ Head(toServer[d]) \in AnswerMessage =>
              /\ Answers(d) # {}
              /\ Lone(Answers(d)) => Answers(d)' = {}
<1>1. toServer[d] \in Seq(UpMessage)
  BY DEF NetTypeOK
<1>2. Answers(d) = At(toServer[d], AnswerMessage)
      /\ Answers(d)' = At(Tail(toServer[d]), AnswerMessage)
  BY MovesAt, MovesAtNext
<1>3. Head(toServer[d]) \in AnswerMessage => 1 \in At(toServer[d], AnswerMessage)
  BY <1>1 DEF At
<1>4. QED
  BY <1>1, <1>2, <1>3, AtTail DEF Fewer

LEMMA UpSent ==
  ASSUME NetTypeOK, NetTypeOK', NEW d \in Clients, NEW m \in UpMessage,
         toServer'[d] = Append(toServer[d], m)
  PROVE  /\ m \notin AnswerMessage => Answers(d)' = Answers(d)
         /\ Answers(d) = {} => Lone(Answers(d)')
<1>1. toServer[d] \in Seq(UpMessage)
  BY DEF NetTypeOK
<1>2. Answers(d) = At(toServer[d], AnswerMessage)
      /\ Answers(d)' = At(Append(toServer[d], m), AnswerMessage)
  BY MovesAt, MovesAtNext
<1>3. QED
  BY <1>1, <1>2, AtAppend

LEMMA DownNeutral ==
  ASSUME NetTypeOK, NetTypeOK', NEW d \in Clients, NEW r \in Seq(DownMessage),
         \A i \in DOMAIN r : r[i].type # "HIT_STAND",
         toClient'[d] = toClient[d] \o r
  PROVE  Asks(d)' = Asks(d)
<1>1. toClient[d] \in Seq(DownMessage)
  BY DEF NetTypeOK
<1>2. Asks(d) = At(toClient[d], AskMessage) /\ Asks(d)' = At(toClient[d] \o r, AskMessage)
  BY MovesAt, MovesAtNext
<1>3. \A i \in DOMAIN r : r[i] \notin AskMessage
  BY DEF AskMessage
<1>4. QED
  BY <1>1, <1>2, <1>3, AtConcat

LEMMA SentMoves ==
  ASSUME NetTypeOK, NetTypeOK', NEW S, NEW m \in DownMessage,
         toClient' = Sent(S, m), NEW d \in Clients
  PROVE  /\ m.type # "HIT_STAND" \/ d \notin S => Asks(d)' = Asks(d)
         /\ Asks(d) = {} => Lone(Asks(d)')
<1>1. toClient[d] \in Seq(DownMessage)
  BY DEF NetTypeOK
<1>2. CASE d \in S /\ conn[d] = "on"
  <2>1. toClient'[d] = Append(toClient[d], m)
    BY <1>2 DEF Sent
  <2>2. Asks(d) = At(toClient[d], AskMessage)
        /\ Asks(d)' = At(Append(toClient[d], m), AskMessage)
    BY <2>1, MovesAt, MovesAtNext
  <2>3. m.type # "HIT_STAND" => m \notin AskMessage
    BY DEF AskMessage
  <2>4. QED
    BY <1>1, <1>2, <2>2, <2>3, AtAppend
<1>3. CASE ~(d \in S /\ conn[d] = "on")
  <2>1. toClient'[d] = toClient[d]
    BY <1>3 DEF Sent
  <2>2. QED
    BY <2>1, DownSame DEF Lone
<1>4. QED
  BY <1>2, <1>3

-----------------------------------------------------------------------------
(* The seats: whose they are, their numbers and their bets.                *)

LEMMA GameLoopSeats ==
  ASSUME NEW ps \in Seq(Player), NEW cur \in Nat, GameLoop(ps, cur)
  PROVE  /\ Len(players') = Len(ps)
         /\ \A i \in 1..Len(ps) :
              /\ players'[i].client = ps[i].client
              /\ players'[i].playerID = ps[i].playerID
              /\ players'[i].currentBet = IF i = cur + 1 THEN ps[i].currentBet + betScore
                                                         ELSE ps[i].currentBet
<1>1. betScore \in Nat /\ -betScore \in Int /\ -betScore < 0
  BY ServerAssumption
<1>2. \A p \in Player : /\ AddScore(p, -betScore).client = p.client
                        /\ AddScore(p, -betScore).playerID = p.playerID
                        /\ AddScore(p, -betScore).currentBet = p.currentBet + betScore
  BY <1>1 DEF AddScore, Player
<1>3. \A i \in 1..Len(ps) : ps[i] \in Player /\ AddScore(ps[i], -betScore) \in Player
  BY <1>1, AddScoreType
<1>4. players' = [ps EXCEPT ![cur + 1] = AddScore(ps[cur + 1], -betScore)]
  BY DEF GameLoop
<1>5. Len(players') = Len(ps)
  BY <1>3, <1>4, ExceptOfSeq
<1>6. \A i \in 1..Len(ps) :
        players'[i] = IF i = cur + 1 THEN AddScore(ps[i], -betScore) ELSE ps[i]
  BY <1>4
<1>7. QED
  BY <1>2, <1>3, <1>5, <1>6

LEMMA DealtSeats ==
  ASSUME ServerTypeOK, NEW cards
  PROVE  \A i \in 1..Len(players) : /\ Dealt(cards)[i].client = players[i].client
                                    /\ Dealt(cards)[i].playerID = players[i].playerID
                                    /\ Dealt(cards)[i].currentBet = 0
<1>1. players \in Seq(Player) /\ DOMAIN players = 1..Len(players)
  BY DEF ServerTypeOK
<1>2. \A p \in Player : \A h :
        LET q == [p EXCEPT !.currentBet = 0, !.hand = h]
        IN  q.client = p.client /\ q.playerID = p.playerID /\ q.currentBet = 0
  BY DEF Player
<1> SUFFICES ASSUME NEW i \in 1..Len(players)
             PROVE  /\ Dealt(cards)[i].client = players[i].client
                    /\ Dealt(cards)[i].playerID = players[i].playerID
                    /\ Dealt(cards)[i].currentBet = 0
  OBVIOUS
<1> DEFINE h == AddCard(AddCard(Cleared, cards[i][1]), cards[i][2])
<1>3. Dealt(cards)[i] = [players[i] EXCEPT !.currentBet = 0, !.hand = h]
  BY <1>1 DEF Dealt
<1>4. players[i] \in Player
  BY <1>1
<1> HIDE DEF h
<1>5. QED
  BY <1>2, <1>3, <1>4

LEMMA SettledSeats ==
  ASSUME NEW p \in Player
  PROVE  Settled(p).client = p.client /\ Settled(p).playerID = p.playerID
  BY DEF Settled, Won, Lost, AddScore, Player

\* Nobody comes, and all keep seat, number and bet.
SeatsStay ==
  /\ Len(players') = Len(players)
  /\ \A i \in 1..Len(players) : /\ players'[i].client = players[i].client
                                /\ players'[i].playerID = players[i].playerID
                                /\ players'[i].currentBet = players[i].currentBet

LEMMA NameOrHandSeats ==
  ASSUME ServerTypeOK, NEW c, UpdatePlayerName(c) \/ Hit(c)
  PROVE  SeatsStay
<1>1. players \in Seq(Player)
  BY DEF ServerTypeOK
<1>2. CASE UpdatePlayerName(c) /\ PlayerIdx(c) <= Len(players)
  <2> DEFINE i == PlayerIdx(c)
  <2>1. players' = [players EXCEPT ![i] = [players[i] EXCEPT !.name = NameOf[c]]]
    BY <1>2 DEF UpdatePlayerName
  <2> HIDE DEF i
  <2>2. Len(players') = Len(players)
    BY <1>1, <2>1, LenExcept
  <2>3. ASSUME NEW k \in 1..Len(players)
        PROVE  players'[k] = players[k]
               \/ players'[k] = [players[k] EXCEPT !.name = NameOf[c]]
    BY <1>1, <2>1
  <2>4. \A k \in 1..Len(players) : players[k] \in Player
    BY <1>1
  <2>5. QED
    BY <2>2, <2>3, <2>4 DEF SeatsStay, Player
<1>3. CASE UpdatePlayerName(c) /\ ~(PlayerIdx(c) <= Len(players))
  BY <1>3 DEF UpdatePlayerName, SeatsStay
<1>4. CASE Hit(c)
  <2>1. PICK card \in Ranks :
          players' = [players EXCEPT ![PlayerIdx(c)].hand = AddCard(@, card)]
    BY <1>4 DEF Hit
  <2> DEFINE i == PlayerIdx(c)
             h == AddCard(players[i].hand, card)
  <2>2. players' = [players EXCEPT ![i] = [players[i] EXCEPT !.hand = h]]
    BY <2>1
  <2> HIDE DEF i, h
  <2>3. Len(players') = Len(players)
    BY <1>1, <2>2, LenExcept
  <2>4. ASSUME NEW k \in 1..Len(players)
        PROVE  players'[k] = players[k]
               \/ players'[k] = [players[k] EXCEPT !.hand = h]
    BY <1>1, <2>2
  <2>5. \A k \in 1..Len(players) : players[k] \in Player
    BY <1>1
  <2>6. QED
    BY <2>3, <2>4, <2>5 DEF SeatsStay, Player
<1>5. QED
  BY <1>2, <1>3, <1>4

-----------------------------------------------------------------------------
(* Steps of the clients, their users and the network.                      *)

\* A move goes from the queue to the prompt.
LEMMA HitorStandMoves ==
  ASSUME MoveInv, TypeInv', NEW c \in Clients, HitorStand(c)
  PROVE  /\ MovePending(c)' => MovePending(c)
         /\ OneMove(c)'
<1>1. OneMove(c)
  BY OneMoveEach DEF MoveInv
<1>2. toClient[c] # << >> /\ toClient'[c] = Tail(toClient[c]) /\ toServer'[c] = toServer[c]
      /\ Head(toClient[c]).type = "HIT_STAND"
  BY DEF HitorStand, Take, Taken, MoveInv, TypeInv, TypeOK, NetTypeOK
<1>3. Asks(c) # {} /\ Asks(c)' = {}
  BY <1>1, <1>2, DownTaken DEF OneMove, MoveInv, TypeInv, TypeOK
<1>4. Answers(c)' = {}
  BY <1>1, <1>2, <1>3, UpSame DEF OneMove
<1>5. QED
  BY <1>3, <1>4 DEF OneMove, MovePending, Lone

\* A move goes from the prompt to the server, or is lost.
LEMMA TestTestMoves ==
  ASSUME MoveInv, TypeInv', NEW c \in Clients, NEW key, TestTest(c, key)
  PROVE  /\ MovePending(c)' => MovePending(c)
         /\ OneMove(c)'
<1> USE DEF MoveInv, TypeInv, TypeOK
<1>1. OneMove(c)
  BY OneMoveEach
<1>2. pc[c] = "move" /\ pc'[c] = "loop" /\ toClient'[c] = toClient[c]
  BY DEF TestTest, Goto, ClientTypeOK
<1>3. Asks(c)' = {} /\ Answers(c) = {}
  BY <1>1, <1>2, DownSame DEF OneMove
<1>4. Lone(Answers(c)')
  <2>1. toServer[c] \in Seq(UpMessage) /\ toServer'[c] = toServer[c] \o Answer(key)
    BY DEF TestTest, NetTypeOK
  <2>2. CASE key \in {"h", "s"}
    <3>1. PICK m \in UpMessage : Answer(key) = <<m>>
      BY <2>2 DEF Answer, UpMessage
    <3>2. toServer'[c] = Append(toServer[c], m)
      BY <2>1, <3>1
    <3>3. QED
      BY <1>3, <3>2, UpSent
  <2>3. CASE key \notin {"h", "s"}
    <3>1. toServer'[c] = toServer[c]
      BY <2>1, <2>3, ConcatEmptySeq DEF Answer
    <3>2. QED
      BY <1>3, <3>1, UpSame DEF Lone
  <2>4. QED
    BY <2>2, <2>3
<1>5. QED
  BY <1>2, <1>3, <1>4 DEF OneMove, MovePending, Lone

\* Client c takes a step and the others do not.
OthersStay(c) ==
  \A d \in Clients \ {c} : /\ toClient'[d] = toClient[d]
                           /\ toServer'[d] = toServer[d]
                           /\ pc'[d] = pc[d]

LEMMA ClientStep ==
  ASSUME MoveInv, TypeInv', NEW c \in Clients, OthersStay(c), TurnStays,
         MovePending(c)' => MovePending(c), OneMove(c)'
  PROVE  OnlyCurrentMoves' /\ OneMovePending'
<1>1. ASSUME NEW d \in Clients PROVE OnlyCurrent(d)' /\ OneMove(d)'
  <2>1. OnlyCurrent(d) /\ OneMove(d)
    BY OnlyCurrentEach, OneMoveEach DEF MoveInv
  <2>2. (MovePending(d)' => MovePending(d)) /\ OneMove(d)'
    <3>1. CASE d = c
      BY <3>1
    <3>2. CASE d # c
      <4>1. NoNewMove(d)
        BY <3>2, Unmoved DEF OthersStay
      <4>2. QED
        BY <2>1, <4>1, NoNewMoveKeeps
    <3>3. QED
      BY <3>1, <3>2
  <2>3. QED
    BY <2>1, <2>2, TurnStaysKeeps DEF MoveInv
<1>2. QED
  BY <1>1, OnlyCurrentEachNext, OneMoveEachNext

\* The steps of a client that have nothing to do with moves.
LEMMA QuietReceive ==
  ASSUME MoveInv, TypeInv', NEW c \in Clients,
         \/ Accepted(c) \/ SetPlayerID(c) \/ PrintCurrentPlayers(c)
         \/ UpdatePlayers(c) \/ RecieveAllCards(c) \/ RecieveString(c)
  PROVE  NoNewMove(c) /\ OthersStay(c)
<1> USE DEF MoveInv, TypeInv, TypeOK
<1>1. toClient[c] # << >> /\ toClient' = Taken(c)
  BY DEF Accepted, SetPlayerID, PrintCurrentPlayers, UpdatePlayers, RecieveAllCards,
         RecieveString, Take
<1>2. /\ toClient'[c] = Tail(toClient[c])
      /\ \A d \in Clients \ {c} : toClient'[d] = toClient[d]
  BY <1>1 DEF Taken, NetTypeOK
<1>3. Fewer(Asks(c), Asks(c)')
  BY <1>1, <1>2, DownTaken
<1>4. /\ Answers(c)' = Answers(c)
      /\ \A d \in Clients \ {c} : toServer'[d] = toServer[d]
  <2>1. CASE Accepted(c)
    <3>1. /\ toServer'[c] = Append(toServer[c], "PLAYERNAME")
          /\ \A d \in Clients \ {c} : toServer'[d] = toServer[d]
      BY <2>1 DEF Accepted, Uploaded, NetTypeOK
    <3>2. QED
      BY <3>1, UpSent DEF AnswerMessage, UpMessage
  <2>2. CASE toServer' = toServer
    BY <2>2, UpSame
  <2>3. QED
    BY <2>1, <2>2 DEF SetPlayerID, PrintCurrentPlayers, UpdatePlayers, RecieveAllCards,
                      RecieveString, clientVars
<1>5. /\ pc'[c] = "move" => pc[c] = "move"
      /\ \A d \in Clients \ {c} : pc'[d] = pc[d]
  BY DEF Accepted, SetPlayerID, PrintCurrentPlayers, UpdatePlayers, RecieveAllCards,
         RecieveString, Goto, clientVars, ClientTypeOK
<1>6. QED
  BY <1>2, <1>3, <1>4, <1>5 DEF NoNewMove, OthersStay, Fewer

LEMMA QuietUser ==
  ASSUME MoveInv, TypeInv', NEW c \in Clients,
         EnterReady(c) \/ AnswerYes(c) \/ AnswerOther(c) \/ SendReady(c)
  PROVE  NoNewMove(c) /\ OthersStay(c)
<1> USE DEF MoveInv, TypeInv, TypeOK
<1>1. toClient' = toClient
  BY DEF EnterReady, AnswerYes, AnswerOther, SendReady, netVars
<1>2. /\ pc'[c] = "move" => pc[c] = "move"
      /\ \A d \in Clients \ {c} : pc'[d] = pc[d]
  BY DEF EnterReady, AnswerYes, AnswerOther, SendReady, Goto, ClientTypeOK
<1>3. /\ Answers(c)' = Answers(c)
      /\ \A d \in Clients \ {c} : toServer'[d] = toServer[d]
  <2>1. CASE SendReady(c)
    <3>1. /\ toServer'[c] = Append(toServer[c], "READY")
          /\ \A d \in Clients \ {c} : toServer'[d] = toServer[d]
      BY <2>1 DEF SendReady, Uploaded, NetTypeOK
    <3>2. QED
      BY <3>1, UpSent DEF AnswerMessage, UpMessage
  <2>2. CASE toServer' = toServer
    BY <2>2, UpSame
  <2>3. QED
    BY <2>1, <2>2 DEF EnterReady, AnswerYes, AnswerOther, netVars
<1>4. Asks(c)' = Asks(c)
  BY <1>1, DownSame
<1>5. QED
  BY <1>1, <1>2, <1>3, <1>4 DEF NoNewMove, OthersStay, Fewer

\* What was on its way may be cut short, but nothing is added.
LEMMA QuietVanish ==
  ASSUME MoveInv, TypeInv', NEW c \in Clients, AnswerNo(c) \/ CloseClient(c)
  PROVE  NoNewMove(c) /\ OthersStay(c)
<1> USE DEF MoveInv, TypeInv, TypeOK
<1>1. Vanish(c) /\ Goto(c, "exit")
  BY DEF AnswerNo, CloseClient
<1>2. pc'[c] = "exit" /\ toClient'[c] = << >>
      /\ \A d \in Clients \ {c} : pc'[d] = pc[d] /\ toClient'[d] = toClient[d]
  BY <1>1 DEF Vanish, Goto, NetTypeOK, ClientTypeOK
<1>3. PICK k \in 0..Len(toServer[c]) :
        toServer' = [toServer EXCEPT ![c] = SubSeq(toServer[c], 1, k)]
  BY <1>1 DEF Vanish
<1>4. /\ toServer'[c] = SubSeq(toServer[c], 1, k)
      /\ \A d \in Clients \ {c} : toServer'[d] = toServer[d]
  BY <1>3 DEF NetTypeOK
<1>5. Asks(c)' = {}
  BY <1>2 DEF Asks
<1>6. Answers(c)' \subseteq Answers(c)
  <2>1. toServer[c] \in Seq(UpMessage)
    BY DEF NetTypeOK
  <2>2. Answers(c) = At(toServer[c], AnswerMessage)
        /\ Answers(c)' = At(SubSeq(toServer[c], 1, k), AnswerMessage)
    BY <1>4, MovesAt, MovesAtNext
  <2>3. QED
    BY <2>1, <2>2, AtSubSeq
<1>7. QED
  BY <1>2, <1>4, <1>5, <1>6 DEF NoNewMove, OthersStay, Fewer, Lone

LEMMA QuietStart ==
  ASSUME MoveInv, TypeInv', NEW c \in Clients, StartClient(c)
  PROVE  NoNewMove(c) /\ OthersStay(c)
<1> USE DEF MoveInv, TypeInv, TypeOK
<1>1. pc'[c] = "loop" /\ \A d \in Clients \ {c} : pc'[d] = pc[d]
  BY DEF StartClient, Goto, ClientTypeOK
<1>2. CASE UNCHANGED <<toServer, toClient>>
  BY <1>1, <1>2, DownSame, UpSame DEF NoNewMove, OthersStay, Fewer
<1>3. CASE /\ toServer' = Uploaded(c, "NEW_CONNECTION")
           /\ toClient' = [toClient EXCEPT ![c] = <<Plain("ACCEPTED")>>]
  <2>1. /\ toServer'[c] = Append(toServer[c], "NEW_CONNECTION")
        /\ toClient'[c] = <<Plain("ACCEPTED")>>
        /\ \A d \in Clients \ {c} : toServer'[d] = toServer[d] /\ toClient'[d] = toClient[d]
    BY <1>3 DEF Uploaded, NetTypeOK
  <2>2. Answers(c)' = Answers(c)
    BY <2>1, UpSent DEF AnswerMessage, UpMessage
  <2>3. Asks(c)' = {}
    BY <2>1 DEF Asks, Plain
  <2>4. QED
    BY <1>1, <2>1, <2>2, <2>3 DEF NoNewMove, OthersStay, Fewer, Lone
<1>4. QED
  BY <1>2, <1>3 DEF StartClient, Connect

LEMMA QuietClient ==
  ASSUME MoveInv, TypeInv', NEW c \in Clients, NoNewMove(c), OthersStay(c), TurnStays
  PROVE  OnlyCurrentMoves' /\ OneMovePending'
<1>1. OneMove(c)
  BY OneMoveEach DEF MoveInv
<1>2. QED
  BY <1>1, NoNewMoveKeeps, ClientStep

\* Every step of a client, its user or its connection.
LEMMA ClientMoves ==
  ASSUME MoveInv, TypeInv', NEW c \in Clients,
         \/ ClientReceives(c) \/ ClientReady(c) \/ UserStarts(c) \/ UserReady(c)
         \/ UserMoves(c) \/ UserRestarts(c) \/ UserDeclines(c) \/ PeerNotices(c)
  PROVE  SeatNumbers' /\ OnlyCurrentMoves' /\ OneMovePending'
<1>1. UNCHANGED serverVars
  BY DEF ClientReceives, ClientReady, UserStarts, UserReady, UserMoves, UserRestarts,
         UserDeclines, PeerNotices
<1>2. SeatNumbers' /\ TurnStays
  BY <1>1 DEF serverVars, SeatNumbers, TurnStays, MoveInv, TypeInv, TypeOK, ServerTypeOK
<1>3. CASE HitorStand(c)
  <2>1. OthersStay(c)
    BY <1>3 DEF HitorStand, Take, Taken, Goto, OthersStay, MoveInv, TypeInv, TypeOK,
                NetTypeOK, ClientTypeOK
  <2>2. QED
    BY <1>2, <1>3, <2>1, HitorStandMoves, ClientStep
<1>4. CASE \E key \in UserKeys : TestTest(c, key)
  <2>1. OthersStay(c)
    BY <1>4 DEF TestTest, Goto, OthersStay, MoveInv, TypeInv, TypeOK, NetTypeOK,
                ClientTypeOK
  <2>2. QED
    BY <1>2, <1>4, <2>1, TestTestMoves, ClientStep
<1>5. CASE PeerNotices(c)
  <2>1. NoNewMove(c) /\ OthersStay(c)
    BY <1>5, Unmoved DEF PeerNotices, ConnectionLost, clientVars, OthersStay
  <2>2. QED
    BY <1>2, <2>1, QuietClient
<1>6. QED
  BY <1>2, <1>3, <1>4, <1>5, QuietReceive, QuietUser, QuietVanish, QuietStart, QuietClient
     DEF ClientReceives, ClientReady, UserStarts, UserReady, UserMoves, UserRestarts,
         UserDeclines

-----------------------------------------------------------------------------
(* Steps of the server.                                                    *)

LEMMA ReceiveQueue ==
  ASSUME MoveInv, TypeInv', NEW c \in Clients, NEW m, Receive(c, m)
  PROVE  /\ serverPc = "loop"
         /\ toServer[c] # << >> /\ Head(toServer[c]) = m
         /\ toServer'[c] = Tail(toServer[c])
         /\ \A d \in Clients : d # c => toServer'[d] = toServer[d]
         /\ \A d \in Clients : Fewer(Answers(d), Answers(d)')
<1> USE DEF MoveInv, TypeInv, TypeOK
<1>1. /\ serverPc = "loop"
      /\ toServer[c] # << >> /\ Head(toServer[c]) = m
      /\ toServer'[c] = Tail(toServer[c])
      /\ \A d \in Clients : d # c => toServer'[d] = toServer[d]
  BY DEF Receive, Received, NetTypeOK
<1>2. ASSUME NEW d \in Clients PROVE Fewer(Answers(d), Answers(d)')
  <2>1. CASE d = c
    BY <1>1, <2>1, UpTaken
  <2>2. CASE d # c
    BY <1>1, <2>2, UpSame DEF Fewer
  <2>3. QED
    BY <2>1, <2>2
<1>3. QED
  BY <1>1, <1>2

LEMMA CreateNewPlayerMoves ==
  ASSUME MoveInv, TypeInv', NEW c \in Clients, CreateNewPlayer(c), pc' = pc
  PROVE  SeatNumbers' /\ OnlyCurrentMoves' /\ OneMovePending'
<1> USE DEF MoveInv, TypeInv, TypeOK
<1>1. players \in Seq(Player) /\ lastPlayerID \in Nat
  BY DEF ServerTypeOK
<1>2. NewPlayer(c) \in Player
  BY <1>1, HandTypes, ServerAssumption DEF NewPlayer, Player, Names
<1>3. players' = Append(players, NewPlayer(c)) /\ lastPlayerID' = lastPlayerID + 1
  BY DEF CreateNewPlayer
<1>4. /\ Len(players) \in Nat /\ Len(players') = Len(players) + 1
      /\ DOMAIN players = 1..Len(players) /\ DOMAIN players' = 1..(Len(players) + 1)
      /\ \A i \in 1..Len(players) : players'[i] = players[i]
      /\ players'[Len(players) + 1] = NewPlayer(c)
  BY <1>1, <1>2, <1>3, AppendProperties, LenProperties
<1>5. SeatNumbers'
  <2>1. NewPlayer(c).playerID = Len(players)
    BY DEF NewPlayer, SeatNumbers
  <2>2. ASSUME NEW i \in 1..(Len(players) + 1) PROVE players'[i].playerID = i - 1
    <3>1. CASE i = Len(players) + 1
      BY <1>4, <2>1, <3>1
    <3>2. CASE i \in 1..Len(players)
      BY <1>4, <3>2 DEF SeatNumbers
    <3>3. QED
      BY <1>4, <3>1, <3>2
  <2>3. QED
    BY <1>3, <1>4, <2>2 DEF SeatNumbers
<1>6. TurnStays
  BY <1>4 DEF TurnStays, CreateNewPlayer
<1>7. ASSUME NEW d \in Clients PROVE NoNewMove(d)
  <2>1. Fewer(Answers(d), Answers(d)')
    BY ReceiveQueue DEF CreateNewPlayer
  <2>2. Asks(d)' = Asks(d)
    <3>1. CASE toClient'[d] = toClient[d]
      BY <3>1, DownSame
    <3>2. CASE d = c /\ conn[c] = "on"
      <4> DEFINE r == <<PlayerId(lastPlayerID), Current(Len(players'))>>
      <4>1. r \in Seq(DownMessage)
        BY <1>1, <1>4, MessageTypes
      <4>2. \A i \in DOMAIN r : r[i].type # "HIT_STAND"
        BY DEF PlayerId, Current
      <4>3. toClient'[d] = toClient[d] \o r
        BY <3>2 DEF CreateNewPlayer, NetTypeOK
      <4> HIDE DEF r
      <4>4. QED
        BY <4>1, <4>2, <4>3, DownNeutral
    <3>3. QED
      BY <3>1, <3>2 DEF CreateNewPlayer, NetTypeOK
  <2>3. QED
    BY <2>1, <2>2 DEF NoNewMove, Fewer
<1>8. QED
  BY <1>5, <1>6, <1>7, QuietStep

LEMMA SeatsStayKeeps ==
  ASSUME MoveInv, TypeInv', SeatsStay, lastPlayerID' = lastPlayerID
  PROVE  SeatNumbers'
<1>1. DOMAIN players = 1..Len(players) /\ DOMAIN players' = 1..Len(players')
  BY DEF MoveInv, TypeInv, TypeOK, ServerTypeOK
<1>2. QED
  BY <1>1 DEF SeatsStay, SeatNumbers, MoveInv

\* The list of names asks nobody for a move.
LEMMA NamesAskNobody ==
  ASSUME MoveInv, TypeInv', NEW c \in Clients, UpdatePlayerName(c), NEW d \in Clients
  PROVE  Asks(d)' = Asks(d)
<1> USE DEF MoveInv, TypeInv, TypeOK
<1>1. CASE PlayerIdx(c) <= Len(players)
  <2>1. Len(players') >= 1 /\ players' \in Seq(Player)
    BY <1>1, NameOrHandSeats, SeatedIdx DEF SeatsStay, ServerTypeOK
  <2>2. NameList(players') \in DownMessage /\ NameList(players').type # "HIT_STAND"
    BY <2>1, NameListType
  <2>3. toClient' = Sent(NameListTo(c), NameList(players'))
    BY <1>1 DEF UpdatePlayerName
  <2>4. QED
    BY <2>2, <2>3, SentMoves
<1>2. CASE ~(PlayerIdx(c) <= Len(players))
  BY <1>2, DownSame DEF UpdatePlayerName
<1>3. QED
  BY <1>1, <1>2

LEMMA UpdatePlayerNameMoves ==
  ASSUME MoveInv, TypeInv', NEW c \in Clients, UpdatePlayerName(c), pc' = pc
  PROVE  SeatNumbers' /\ OnlyCurrentMoves' /\ OneMovePending'
<1> USE DEF MoveInv, TypeInv, TypeOK
<1>1. SeatsStay
  BY NameOrHandSeats
<1>2. SeatNumbers'
  BY <1>1, SeatsStayKeeps DEF UpdatePlayerName
<1>3. TurnStays
  <2>1. Len(players) \in Nat /\ DOMAIN players = 1..Len(players)
    BY DEF ServerTypeOK
  <2>2. QED
    BY <1>1, <2>1 DEF TurnStays, SeatsStay, UpdatePlayerName
<1>4. ASSUME NEW d \in Clients PROVE NoNewMove(d)
  <2>1. Fewer(Answers(d), Answers(d)')
    BY ReceiveQueue DEF UpdatePlayerName
  <2>2. Asks(d)' = Asks(d)
    BY NamesAskNobody
  <2>3. QED
    BY <2>1, <2>2 DEF NoNewMove, Fewer
<1>5. QED
  BY <1>2, <1>3, <1>4, QuietStep

\* An answer arrives: its sender has the turn, and now nobody has a move.
LEMMA AnswerTaken ==
  ASSUME MoveInv, TypeInv', NEW c \in Clients, NEW m \in AnswerMessage, Receive(c, m),
         pc' = pc
  PROVE  /\ GameInProgress /\ serverPc = "loop"
         /\ currentPlayer < Len(players) /\ players[currentPlayer + 1].client = c
         /\ \A d \in Clients : Asks(d) = {} /\ Answers(d)' = {} /\ pc'[d] # "move"
<1> USE DEF MoveInv, TypeInv, TypeOK
<1>1. OneMove(c) /\ Answers(c) # {} /\ Answers(c)' = {}
  <2>1. Answers(c) # {} /\ (Lone(Answers(c)) => Answers(c)' = {})
    BY ReceiveQueue, UpTaken
  <2>2. QED
    BY <2>1, OneMoveEach DEF OneMove
<1>2. MovePending(c)
  BY <1>1 DEF MovePending
<1>3. /\ GameInProgress /\ serverPc = "loop"
      /\ currentPlayer < Len(players) /\ players[currentPlayer + 1].client = c
  BY <1>2 DEF OnlyCurrentMoves
<1>4. ASSUME NEW d \in Clients
      PROVE  Asks(d) = {} /\ Answers(d)' = {} /\ pc'[d] # "move"
  <2>1. CASE d = c
    BY <1>1, <2>1 DEF OneMove
  <2>2. CASE d # c
    <3>1. ~MovePending(d)
      BY <1>3, <2>2 DEF OnlyCurrentMoves
    <3>2. Fewer(Answers(d), Answers(d)')
      BY ReceiveQueue
    <3>3. QED
      BY <3>1, <3>2 DEF MovePending, Fewer
  <2>3. QED
    BY <2>1, <2>2
<1>5. QED
  BY <1>3, <1>4

NoMove == \A d \in Clients : ~MovePending(d)

LEMMA NoMoveHolds ==
  ASSUME NoMove'
  PROVE  OnlyCurrentMoves' /\ OneMovePending'
  BY DEF NoMove, MovePending, OnlyCurrentMoves, OneMovePending

\* Nobody has a move, and the player whose turn it is is asked for one.
LEMMA TurnBegins ==
  ASSUME NetTypeOK, NetTypeOK',
         \A d \in Clients : Asks(d) = {} /\ Answers(d)' = {} /\ pc'[d] # "move",
         GameInProgress', serverPc' = "loop", currentPlayer' < Len(players'),
         toClient' = toClient
         \/ toClient' = Sent({players'[currentPlayer' + 1].client}, Plain("HIT_STAND"))
  PROVE  OnlyCurrentMoves' /\ OneMovePending'
<1> DEFINE who == players'[currentPlayer' + 1].client
<1>1. Plain("HIT_STAND") \in DownMessage
  BY MessageTypes
<1>2. ASSUME NEW d \in Clients
      PROVE  Lone(Asks(d)') /\ (d # who => Asks(d)' = {})
  <2>1. CASE toClient' = toClient
    BY <2>1, DownSame DEF Lone
  <2>2. CASE toClient' = Sent({who}, Plain("HIT_STAND"))
    BY <1>1, <2>2, SentMoves
  <2>3. QED
    BY <2>1, <2>2
<1>3. OneMovePending'
  BY <1>2 DEF OneMovePending, Lone
<1>4. OnlyCurrentMoves'
  BY <1>2 DEF OnlyCurrentMoves, MovePending
<1>5. QED
  BY <1>3, <1>4

LEMMA HitMoves ==
  ASSUME MoveInv, TypeInv', NEW c \in Clients, Hit(c), pc' = pc
  PROVE  SeatNumbers' /\ OnlyCurrentMoves' /\ OneMovePending'
<1> USE DEF MoveInv, TypeInv, TypeOK
<1>1. SeatsStay
  BY NameOrHandSeats
<1>2. SeatNumbers'
  BY <1>1, SeatsStayKeeps DEF Hit
<1>3. /\ GameInProgress /\ serverPc = "loop"
      /\ currentPlayer < Len(players) /\ players[currentPlayer + 1].client = c
      /\ \A d \in Clients : Asks(d) = {} /\ Answers(d)' = {} /\ pc'[d] # "move"
  BY AnswerTaken DEF Hit, AnswerMessage
<1>4. GameInProgress' /\ serverPc' = "loop" /\ currentPlayer' = currentPlayer
  BY <1>3 DEF Hit
<1>5. currentPlayer' < Len(players') /\ players'[currentPlayer' + 1].client = c
  <2>1. currentPlayer + 1 \in 1..Len(players)
    BY <1>3 DEF ServerTypeOK
  <2>2. QED
    BY <1>1, <1>3, <1>4, <2>1 DEF SeatsStay
<1>6. toClient' = Sent({c}, Plain("HIT_STAND"))
  BY DEF Hit, AsksAgain
<1>7. QED
  BY <1>2, <1>3, <1>4, <1>5, <1>6, TurnBegins

LEMMA StandMoves ==
  ASSUME MoveInv, TypeInv', NEW c \in Clients, Stand(c), pc' = pc
  PROVE  SeatNumbers' /\ OnlyCurrentMoves' /\ OneMovePending'
<1> USE DEF MoveInv, TypeInv, TypeOK
<1>1. players \in Seq(Player) /\ Len(players) \in Nat /\ currentPlayer \in Nat
      /\ DOMAIN players = 1..Len(players)
  BY DEF ServerTypeOK
<1>2. /\ GameInProgress /\ serverPc = "loop" /\ currentPlayer < Len(players)
      /\ \A d \in Clients : Asks(d) = {} /\ Answers(d)' = {} /\ pc'[d] # "move"
  BY AnswerTaken DEF Stand, AnswerMessage
<1>3. CASE LastTurn
  <2>1. SeatNumbers'
    BY <1>3 DEF Stand, SeatNumbers
  <2>2. \A d \in Clients : Asks(d)' = Asks(d)
    BY <1>3, DownSame DEF Stand
  <2>3. NoMove'
    BY <1>2, <2>2 DEF NoMove, MovePending
  <2>4. QED
    BY <2>1, <2>3, NoMoveHolds
<1>4. CASE ~LastTurn
  <2>1. GameLoop(players, currentPlayer + 1) /\ serverPc' = "loop"
        /\ GameInProgress' /\ lastPlayerID' = lastPlayerID
    BY <1>2, <1>4 DEF Stand
  <2>2. currentPlayer + 1 \in Nat /\ currentPlayer + 1 < Len(players)
        /\ currentPlayer + 2 \in 1..Len(players)
    <3>1. currentPlayer # Len(players) - 1
      BY <1>4 DEF LastTurn
    <3> DEFINE n == Len(players)
    <3>2. n \in Nat /\ currentPlayer < n /\ currentPlayer # n - 1
      BY <1>1, <1>2, <3>1
    <3> HIDE DEF n
    <3>3. currentPlayer + 1 \in Nat /\ currentPlayer + 1 < n /\ currentPlayer + 2 \in 1..n
      BY <1>1, <3>2
    <3>4. QED
      BY <3>3 DEF n
  <2>3. /\ Len(players') = Len(players)
        /\ \A i \in 1..Len(players) : /\ players'[i].client = players[i].client
                                      /\ players'[i].playerID = players[i].playerID
    BY <1>1, <2>1, <2>2, GameLoopSeats
  <2>4. SeatNumbers'
    <3>1. DOMAIN players' = 1..Len(players)
      BY <2>3 DEF ServerTypeOK
    <3>2. QED
      BY <1>1, <2>1, <2>3, <3>1 DEF SeatNumbers
  <2>5. currentPlayer' = currentPlayer + 1
    BY <2>1 DEF GameLoop
  <2>6. players'[currentPlayer' + 1].client = players[currentPlayer + 2].client
    BY <1>1, <2>2, <2>3, <2>5
  <2>7. toClient' = toClient
        \/ toClient' = Sent({players'[currentPlayer' + 1].client}, Plain("HIT_STAND"))
    <3>1. currentPlayer + 1 + 1 = currentPlayer + 2
      BY <1>1
    <3>2. QED
      BY <2>1, <2>6, <3>1 DEF GameLoop, AskedIs
  <2>8. QED
    BY <1>2, <2>1, <2>2, <2>3, <2>4, <2>5, <2>7, TurnBegins
<1>5. QED
  BY <1>3, <1>4

LEMMA FirstID ==
  ASSUME SeatNumbers, Len(players) \in Nat, Len(players) >= 2,
         DOMAIN players = 1..Len(players)
  PROVE  players[1].playerID = 0
<1>1. 1 \in DOMAIN players
  OBVIOUS
<1>2. players[1].playerID = 1 - 1
  BY <1>1 DEF SeatNumbers
<1>3. QED
  BY <1>2

\* A game starts: nobody had a move, for there was no game, and the first
\* player, whose ID is 0, is asked for one.
LEMMA StartGameMoves ==
  ASSUME MoveInv, TypeInv', NEW c \in Clients, PlayerReady(c), pc' = pc,
         readyToStart' /\ NoGame
  PROVE  SeatNumbers' /\ OnlyCurrentMoves' /\ OneMovePending'
<1> USE DEF MoveInv, TypeInv, TypeOK
<1>1. players \in Seq(Player) /\ Len(players) \in Nat /\ DOMAIN players = 1..Len(players)
  BY DEF ServerTypeOK
<1>2. Len(players) >= 2
  BY DEF PlayerReady, EnoughReady, NoGame
<1>3. players[1].playerID = 0
  BY <1>1, <1>2, FirstID
<1>4. PICK cards \in [1..Len(players) -> Ranks \X Ranks] : GameLoop(Dealt(cards), 0)
  BY <1>3 DEF PlayerReady, StartGame
<1>5. Dealt(cards) \in Seq(Player) /\ Len(Dealt(cards)) = Len(players)
  BY DealtTypes
<1>6. /\ Len(players') = Len(players)
      /\ \A i \in 1..Len(players) : /\ players'[i].client = Dealt(cards)[i].client
                                    /\ players'[i].playerID = players[i].playerID
  BY <1>4, <1>5, GameLoopSeats, DealtSeats
<1>7. SeatNumbers'
  <2>1. DOMAIN players' = 1..Len(players)
    BY <1>6 DEF ServerTypeOK
  <2>2. QED
    BY <1>1, <1>6, <2>1 DEF SeatNumbers, PlayerReady
<1>8. \A d \in Clients : Asks(d) = {} /\ Answers(d)' = {} /\ pc'[d] # "move"
  <2>1. \A d \in Clients : ~MovePending(d)
    BY DEF OnlyCurrentMoves, NoGame
  <2>2. QED
    BY <2>1, ReceiveQueue DEF MovePending, Fewer, PlayerReady
<1>9. GameInProgress' /\ serverPc' = "loop"
  BY ReceiveQueue DEF PlayerReady
<1>10. currentPlayer' = 0 /\ 0 < Len(players') /\ 1 \in 1..Len(players)
  BY <1>1, <1>2, <1>4, <1>6 DEF GameLoop
<1>11. toClient' = toClient
       \/ toClient' = Sent({players'[currentPlayer' + 1].client}, Plain("HIT_STAND"))
  <2>1. AskedIs(0 + 1, Dealt(cards)) = {players'[currentPlayer' + 1].client}
    BY <1>6, <1>10 DEF AskedIs
  <2>2. QED
    BY <1>4, <2>1 DEF GameLoop
<1>12. QED
  BY <1>7, <1>8, <1>9, <1>10, <1>11, TurnBegins

LEMMA PlayerReadyMoves ==
  ASSUME MoveInv, TypeInv', NEW c \in Clients, PlayerReady(c), pc' = pc
  PROVE  SeatNumbers' /\ OnlyCurrentMoves' /\ OneMovePending'
<1> USE DEF MoveInv, TypeInv, TypeOK
<1>1. CASE readyToStart' /\ NoGame
  BY <1>1, StartGameMoves
<1>2. CASE ~(readyToStart' /\ NoGame)
  <2>1. UNCHANGED <<players, currentPlayer, toClient, lastPlayerID, serverPc>>
    BY <1>2 DEF PlayerReady
  <2>2. GameInProgress' = GameInProgress
    BY <1>2 DEF PlayerReady, NoGame, ServerTypeOK
  <2>3. SeatNumbers' /\ TurnStays
    BY <2>1, <2>2 DEF SeatNumbers, TurnStays, ServerTypeOK
  <2>4. ASSUME NEW d \in Clients PROVE NoNewMove(d)
    BY <2>1, ReceiveQueue, DownSame DEF NoNewMove, Fewer, PlayerReady
  <2>5. QED
    BY <2>3, <2>4, QuietStep
<1>3. QED
  BY <1>1, <1>2

LEMMA DoEndMoves ==
  ASSUME MoveInv, TypeInv', DealerDraw \/ Showdown \/ IgnoreKey, pc' = pc
  PROVE  SeatNumbers' /\ OnlyCurrentMoves' /\ OneMovePending'
<1> USE DEF MoveInv, TypeInv, TypeOK
<1>1. NoMove
  BY DEF NoMove, OnlyCurrentMoves, DealerDraw, Showdown, IgnoreKey
<1>2. ASSUME UNCHANGED <<players, lastPlayerID, toServer, toClient>>
      PROVE  SeatNumbers' /\ NoMove'
  BY <1>1, <1>2, DownSame, UpSame DEF SeatNumbers, NoMove, MovePending
<1>3. CASE Showdown
  <2>1. players \in Seq(Player) /\ Len(players) \in Nat /\ DOMAIN players = 1..Len(players)
    BY DEF ServerTypeOK
  <2>2. SeatNumbers'
    <3>1. /\ DOMAIN players' = DOMAIN players
          /\ \A i \in DOMAIN players : players'[i] = Settled(players[i])
      BY <1>3 DEF Showdown
    <3>2. \A i \in DOMAIN players : players'[i].playerID = i - 1
      BY <2>1, <3>1, SettledSeats DEF SeatNumbers
    <3>3. Len(players') = Len(players)
      BY <2>1, <3>1 DEF ServerTypeOK
    <3>4. QED
      BY <1>3, <3>1, <3>2, <3>3 DEF SeatNumbers, Showdown
  <2>3. Results \in Seq(DownMessage) /\ \A i \in DOMAIN Results : Results[i].type # "HIT_STAND"
    <3>1. AllCards(Len(players)) \in DownMessage /\ Plain("END") \in DownMessage
      BY <2>1, MessageTypes
    <3>2. AllCards(Len(players)).type # "HIT_STAND" /\ Plain("END").type # "HIT_STAND"
      BY DEF AllCards, Plain
    <3> DEFINE x == AllCards(Len(players))
               y == Plain("END")
    <3>3. Results = <<x>> \o <<y>> \/ Results = <<x>> \o << >>
      BY DEF Results
    <3>4. x \in DownMessage /\ y \in DownMessage
          /\ x.type # "HIT_STAND" /\ y.type # "HIT_STAND"
      BY <3>1, <3>2
    <3> HIDE DEF x, y
    <3>5. PICK r \in {<<y>>, << >>} : Results = <<x>> \o r
      BY <3>3
    <3>6. <<x>> \in Seq(DownMessage) /\ r \in Seq(DownMessage)
      <4>1. /\ <<x>> \in Seq(DownMessage)
            /\ <<y>> \in Seq(DownMessage)
            /\ << >> \in Seq(DownMessage)
        BY <3>4
      <4>2. QED
        BY <3>5, <4>1
    <3>7. x \notin AskMessage /\ y \notin AskMessage
      BY <3>4 DEF AskMessage
    <3>8. At(<<x>>, AskMessage) = {} /\ \A i \in DOMAIN r : r[i] \notin AskMessage
      BY <3>7 DEF At
    <3>9. At(Results, AskMessage) = {} /\ Results \in Seq(DownMessage)
      BY <3>5, <3>6, <3>8, AtConcat, ConcatProperties
    <3>10. \A i \in DOMAIN Results : Results[i] \in DownMessage
      BY <3>9
    <3>11. QED
      BY <3>9, <3>10 DEF At, AskMessage
  <2>4. \A d \in Clients : Asks(d)' = Asks(d)
    <3>1. \A d \in Clients : toClient'[d] = toClient[d] \o Results \/ toClient'[d] = toClient[d]
      BY <1>3 DEF Showdown
    <3>2. QED
      BY <2>3, <3>1, DownNeutral, DownSame
  <2>5. \A d \in Clients : Answers(d)' = Answers(d)
    BY <1>3, UpSame DEF Showdown
  <2>6. NoMove'
    BY <1>1, <2>4, <2>5 DEF NoMove, MovePending
  <2>7. QED
    BY <2>2, <2>6, NoMoveHolds
<1>4. QED
  BY <1>2, <1>3, NoMoveHolds DEF DealerDraw, IgnoreKey, netVars

\* Every step of the system keeps the token.
LEMMA NextMoveInv == MoveInv /\ [Next]_vars => MoveInv'
<1> SUFFICES ASSUME MoveInv, [Next]_vars PROVE MoveInv'
  OBVIOUS
<1>1. TypeInv /\ TypeInv'
  BY NextTypeInv DEF MoveInv
<1>2. SUFFICES SeatNumbers' /\ OnlyCurrentMoves' /\ OneMovePending'
  BY <1>1 DEF MoveInv
<1>3. CASE ServerDoEnd
  BY <1>1, <1>3, DoEndMoves DEF ServerDoEnd, ServerEnds, clientVars
<1>4. ASSUME NEW c \in Clients, ServerThread(c)
      PROVE  SeatNumbers' /\ OnlyCurrentMoves' /\ OneMovePending'
  BY <1>1, <1>4, CreateNewPlayerMoves, UpdatePlayerNameMoves, HitMoves, StandMoves,
     PlayerReadyMoves DEF ServerThread, ServerReceives, clientVars
<1>5. CASE Operator \/ UNCHANGED vars
  <2>1. /\ UNCHANGED <<toClient, toServer, pc, players, lastPlayerID>>
        /\ UNCHANGED <<GameInProgress, serverPc, currentPlayer>>
    BY <1>5 DEF Operator, PressEnter, vars, netVars, serverVars, clientVars
  <2>2. \A d \in Clients : NoNewMove(d)
    BY <2>1, Unmoved
  <2>3. SeatNumbers' /\ TurnStays
    BY <1>1, <2>1 DEF SeatNumbers, TurnStays, MoveInv, TypeInv, TypeOK, ServerTypeOK
  <2>4. QED
    BY <1>1, <2>2, <2>3, QuietStep
<1>6. QED
  BY <1>1, <1>3, <1>4, <1>5, ClientMoves DEF Next

LEMMA InitMoveInv == Init => MoveInv
<1> SUFFICES ASSUME Init PROVE MoveInv
  OBVIOUS
<1>1. SeatNumbers
  BY DEF Init, ServerInit, SeatNumbers
<1>2. \A d \in Clients : Asks(d) = {} /\ Answers(d) = {} /\ pc[d] = "off"
  BY DEF Init, NetInit, ClientInit, Asks, Answers
<1>3. OnlyCurrentMoves /\ OneMovePending
  BY <1>2 DEF OnlyCurrentMoves, OneMovePending, MovePending
<1>4. QED
  BY <1>1, <1>3, InitTypeInv DEF MoveInv

\* Only the player whose turn it is has a request, a prompt or an answer for
\* a move, and only while a game is on and the server listens: it makes it
\* safe that SetHitStandRecieved does not look at who sends an answer.
THEOREM TurnToken == Spec => []OnlyCurrentMoves
<1>1. Init => MoveInv
  BY InitMoveInv
<1>2. MoveInv /\ [Next]_vars => MoveInv'
  BY NextMoveInv
<1>3. MoveInv => OnlyCurrentMoves
  BY DEF MoveInv
<1>4. QED
  BY <1>1, <1>2, <1>3, PTL DEF Spec

\* No client has two moves under way: no answer is counted twice by
\* SetHitStandRecieved, which would pass over the turn of the next player.
THEOREM OneToken == Spec => []OneMovePending
<1>1. Init => MoveInv
  BY InitMoveInv
<1>2. MoveInv /\ [Next]_vars => MoveInv'
  BY NextMoveInv
<1>3. MoveInv => OneMovePending
  BY DEF MoveInv
<1>4. QED
  BY <1>1, <1>2, <1>3, PTL DEF Spec

-----------------------------------------------------------------------------
(* The bets.                                                               *)

\* A step that moves neither bets nor turn.
LEMMA BetsStay ==
  ASSUME MoveInv, TypeInv', EveryoneBetsOnce, SeatsStay,
         UNCHANGED <<GameInProgress, serverPc, currentPlayer>>
  PROVE  EveryoneBetsOnce'
<1>1. DOMAIN players = 1..Len(players) /\ DOMAIN players' = 1..Len(players')
  BY DEF MoveInv, TypeInv, TypeOK, ServerTypeOK
<1>2. QED
  BY <1>1 DEF EveryoneBetsOnce, SeatsStay

LEMMA CreateNewPlayerBets ==
  ASSUME MoveInv, TypeInv', EveryoneBetsOnce, NEW c \in Clients, CreateNewPlayer(c)
  PROVE  EveryoneBetsOnce'
<1> USE DEF MoveInv, TypeInv, TypeOK
<1>1. players \in Seq(Player) /\ lastPlayerID \in Nat /\ currentPlayer \in Nat
  BY DEF ServerTypeOK
<1>2. NewPlayer(c) \in Player /\ NewPlayer(c).currentBet = 0
  BY <1>1, HandTypes, ServerAssumption DEF NewPlayer, Player, Names
<1>3. players' = Append(players, NewPlayer(c))
  BY DEF CreateNewPlayer
<1>4. /\ Len(players) \in Nat /\ Len(players') = Len(players) + 1
      /\ DOMAIN players = 1..Len(players) /\ DOMAIN players' = 1..(Len(players) + 1)
      /\ \A i \in 1..Len(players) : players'[i] = players[i]
      /\ players'[Len(players) + 1] = NewPlayer(c)
  BY <1>1, <1>2, <1>3, AppendProperties, LenProperties
<1>5. serverPc = "loop" /\ UNCHANGED <<GameInProgress, currentPlayer, serverPc>>
  BY DEF CreateNewPlayer, Receive
<1> SUFFICES ASSUME GameInProgress
             PROVE  /\ currentPlayer < Len(players')
                    /\ \A i \in 1..(Len(players) + 1) :
                         players'[i].currentBet = IF i - 1 <= currentPlayer THEN betScore ELSE 0
  BY <1>4, <1>5 DEF EveryoneBetsOnce
<1>6. currentPlayer < Len(players)
  BY DEF EveryoneBetsOnce
<1>7. ASSUME NEW i \in 1..(Len(players) + 1)
      PROVE  players'[i].currentBet = IF i - 1 <= currentPlayer THEN betScore ELSE 0
  <2>1. CASE i \in 1..Len(players)
    BY <1>4, <2>1 DEF EveryoneBetsOnce
  <2>2. CASE i = Len(players) + 1
    <3>1. ~(i - 1 <= currentPlayer)
      BY <1>1, <1>4, <1>6, <2>2
    <3>2. QED
      BY <1>2, <1>4, <2>2, <3>1
  <2>3. QED
    BY <1>4, <2>1, <2>2
<1>8. QED
  BY <1>1, <1>4, <1>6, <1>7

LEMMA StandBets ==
  ASSUME MoveInv, TypeInv', EveryoneBetsOnce, NEW c \in Clients, Stand(c), pc' = pc
  PROVE  EveryoneBetsOnce'
<1> USE DEF MoveInv, TypeInv, TypeOK
<1>1. players \in Seq(Player) /\ Len(players) \in Nat /\ currentPlayer \in Nat
      /\ DOMAIN players = 1..Len(players) /\ DOMAIN players' = 1..Len(players')
  BY DEF ServerTypeOK
<1>2. GameInProgress /\ serverPc = "loop" /\ currentPlayer < Len(players)
  BY AnswerTaken DEF Stand, AnswerMessage
<1>3. \A i \in 1..Len(players) :
        players[i].currentBet = IF i - 1 <= currentPlayer THEN betScore ELSE 0
  BY <1>1, <1>2 DEF EveryoneBetsOnce
<1>4. CASE LastTurn
  BY <1>1, <1>2, <1>3, <1>4 DEF Stand, LastTurn, EveryoneBetsOnce
<1>5. CASE ~LastTurn
  <2>1. /\ GameLoop(players, currentPlayer + 1)
        /\ serverPc' = "loop" /\ currentPlayer' = currentPlayer + 1
    BY <1>2, <1>5 DEF Stand, GameLoop
  <2>2. currentPlayer + 1 \in Nat /\ currentPlayer # Len(players) - 1
    <3>1. currentPlayer # Len(players) - 1
      BY <1>5 DEF LastTurn
    <3>2. currentPlayer + 1 \in Nat
      BY <1>1
    <3>3. QED
      BY <3>1, <3>2
  <2>3. /\ Len(players') = Len(players)
        /\ \A i \in 1..Len(players) :
             players'[i].currentBet = IF i = currentPlayer + 1 + 1
                                      THEN players[i].currentBet + betScore
                                      ELSE players[i].currentBet
    BY <1>1, <2>1, <2>2, GameLoopSeats
  <2>4. betScore \in Nat
    BY ServerAssumption
  <2>5. ASSUME NEW i \in 1..Len(players)
        PROVE  players'[i].currentBet = IF i - 1 <= currentPlayer' THEN betScore ELSE 0
    <3>1. CASE i = currentPlayer + 1 + 1
      <4>1. players[i].currentBet = 0
        BY <1>1, <1>3, <3>1
      <4>2. QED
        BY <1>1, <2>1, <2>3, <2>4, <3>1, <4>1
    <3>2. CASE i # currentPlayer + 1 + 1
      <4>1. i - 1 <= currentPlayer' <=> i - 1 <= currentPlayer
        BY <1>1, <2>1, <3>2
      <4>2. QED
        BY <1>3, <2>3, <3>2, <4>1
    <3>3. QED
      BY <3>1, <3>2
  <2>6. currentPlayer' < Len(players')
    <3> DEFINE n == Len(players)
    <3>1. n \in Nat /\ currentPlayer < n /\ currentPlayer # n - 1
      BY <1>1, <1>2, <2>2
    <3> HIDE DEF n
    <3>2. currentPlayer + 1 < n
      BY <1>1, <3>1
    <3>3. QED
      BY <2>1, <2>3, <3>2 DEF n
  <2>7. QED
    BY <1>1, <2>1, <2>3, <2>5, <2>6 DEF EveryoneBetsOnce
<1>6. QED
  BY <1>4, <1>5

LEMMA PlayerReadyBets ==
  ASSUME MoveInv, TypeInv', EveryoneBetsOnce, NEW c \in Clients, PlayerReady(c)
  PROVE  EveryoneBetsOnce'
<1> USE DEF MoveInv, TypeInv, TypeOK
<1>1. /\ players \in Seq(Player) /\ Len(players) \in Nat
      /\ DOMAIN players = 1..Len(players) /\ DOMAIN players' = 1..Len(players')
  BY DEF ServerTypeOK
<1>2. CASE readyToStart' /\ NoGame
  <2>1. Len(players) >= 2 /\ serverPc' = "loop"
    BY <1>2 DEF PlayerReady, EnoughReady, NoGame, Receive
  <2>2. players[1].playerID = 0
    BY <1>1, <2>1, FirstID
  <2>3. PICK cards \in [1..Len(players) -> Ranks \X Ranks] : GameLoop(Dealt(cards), 0)
    BY <1>2, <2>2 DEF PlayerReady, StartGame
  <2>4. Dealt(cards) \in Seq(Player) /\ Len(Dealt(cards)) = Len(players)
    BY DealtTypes
  <2>5. betScore \in Nat /\ currentPlayer' = 0
    BY <2>3, ServerAssumption DEF GameLoop
  <2>6. /\ Len(players') = Len(players)
        /\ \A i \in 1..Len(players) :
             players'[i].currentBet = IF i = 0 + 1 THEN 0 + betScore ELSE 0
    <3>1. \A i \in 1..Len(players) : Dealt(cards)[i].currentBet = 0
      BY DealtSeats
    <3>2. /\ Len(players') = Len(Dealt(cards))
          /\ \A i \in 1..Len(Dealt(cards)) :
               players'[i].currentBet = IF i = 0 + 1 THEN Dealt(cards)[i].currentBet + betScore
                                                     ELSE Dealt(cards)[i].currentBet
      BY <2>3, <2>4, GameLoopSeats
    <3>3. QED
      BY <2>4, <3>1, <3>2
  <2>7. ASSUME NEW i \in 1..Len(players)
        PROVE  players'[i].currentBet = IF i - 1 <= currentPlayer' THEN betScore ELSE 0
    BY <2>5, <2>6
  <2>8. QED
    BY <1>1, <2>1, <2>5, <2>6, <2>7 DEF EveryoneBetsOnce
<1>3. CASE ~(readyToStart' /\ NoGame)
  <2>1. UNCHANGED <<players, currentPlayer, serverPc>>
    BY <1>3 DEF PlayerReady
  <2>2. GameInProgress' = GameInProgress
    BY <1>3 DEF PlayerReady, NoGame, ServerTypeOK
  <2>3. QED
    BY <2>1, <2>2, BetsStay DEF SeatsStay
<1>4. QED
  BY <1>2, <1>3

\* In every game every player, newcomers included, has bet exactly once when
\* the dealer draws, and nobody before the turn came.  (GameLoop, which takes
\* the bet; AddScore; StartGame, which forgets the bets of the last game.)
THEOREM BetsOnce == Spec => []EveryoneBetsOnce
<1> DEFINE BetInv == MoveInv /\ EveryoneBetsOnce
<1>1. Init => BetInv
  BY InitMoveInv DEF Init, ServerInit, EveryoneBetsOnce
<1>2. BetInv /\ [Next]_vars => BetInv'
  <2> SUFFICES ASSUME BetInv, [Next]_vars PROVE BetInv'
    OBVIOUS
  <2>1. MoveInv' /\ TypeInv'
    <3>1. MoveInv'
      BY NextMoveInv
    <3>2. QED
      BY <3>1 DEF MoveInv
  <2>2. CASE ServerDoEnd
    <3>1. CASE Showdown
      BY <2>1, <3>1 DEF Showdown, EveryoneBetsOnce
    <3>2. CASE DealerDraw
      BY <2>1, <3>2, BetsStay DEF DealerDraw, SeatsStay
    <3>3. CASE IgnoreKey
      <4>1. ~GameInProgress' \/ GameInProgress
        BY <3>3 DEF IgnoreKey
      <4>2. QED
        BY <2>1, <3>3, <4>1 DEF IgnoreKey, EveryoneBetsOnce
    <3>4. QED
      BY <2>1, <2>2, <3>1, <3>2, <3>3 DEF ServerDoEnd, ServerEnds
  <2>3. ASSUME NEW c \in Clients, ServerThread(c) PROVE EveryoneBetsOnce'
    <3>1. pc' = pc
      BY <2>3 DEF ServerThread, clientVars
    <3>2. CASE UpdatePlayerName(c) \/ Hit(c)
      <4>1. SeatsStay
        BY <3>2, NameOrHandSeats DEF MoveInv, TypeInv, TypeOK
      <4>2. QED
        BY <2>1, <3>2, <4>1, BetsStay DEF UpdatePlayerName, Hit
    <3>3. QED
      BY <2>1, <2>3, <3>1, <3>2, CreateNewPlayerBets, StandBets, PlayerReadyBets
         DEF ServerThread, ServerReceives
  <2>4. ASSUME UNCHANGED <<players, GameInProgress, serverPc, currentPlayer>>
        PROVE  EveryoneBetsOnce'
    <3>1. SeatsStay
      BY <2>4 DEF SeatsStay
    <3>2. QED
      BY <2>1, <2>4, <3>1, BetsStay
  <2>5. CASE Operator \/ UNCHANGED vars
    BY <2>1, <2>4, <2>5 DEF Operator, PressEnter, vars, serverVars
  <2>6. ASSUME NEW c \in Clients,
               \/ ClientReceives(c) \/ ClientReady(c) \/ UserStarts(c) \/ UserReady(c)
               \/ UserMoves(c) \/ UserRestarts(c) \/ UserDeclines(c) \/ PeerNotices(c)
        PROVE  EveryoneBetsOnce'
    BY <2>4, <2>6 DEF ClientReceives, ClientReady, UserStarts, UserReady, UserMoves,
                      UserRestarts, UserDeclines, PeerNotices, serverVars
  <2>7. QED
    BY <2>1, <2>2, <2>3, <2>5, <2>6 DEF Next
<1>3. BetInv => EveryoneBetsOnce
  OBVIOUS
<1>4. QED
  BY <1>1, <1>2, <1>3, PTL DEF Spec
=============================================================================
