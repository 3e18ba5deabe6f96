-------------------------- MODULE HandshakeTheorems --------------------------
(***************************************************************************)
(* The handshake bans nobody and keeps what module Sessions promises, for  *)
(* any number of clients, slots and attempts.                              *)
(***************************************************************************)
EXTENDS Handshake, FiniteSetTheorems, SequenceTheorems, TLAPS

-----------------------------------------------------------------------------
(* The inductive invariant: for each client, how far its handshake is.     *)

Accepted(c) == told[c] # << >> /\ told[c][1] = "ACCEPTED"

\* Before its first answer a client has no slot at its own end and nothing
\* reliable is on its way; the server has not heard of it.
Fresh(c) ==
  process[c] = "off" \/ c \in requestedConnectionQueue =>
    /\ told[c] = << >> /\ heard[c] = << >>
    /\ clientMode[c] = "INACTIVE"
    /\ serverMode[c] \in {"INACTIVE", "UNVERIFIED_SENDER"}
    /\ up[c] = {} /\ down[c] = {}
    /\ name[c] = "unsent"
    /\ "ALREADY_CONNECTED" \notin wire[c]

\* What the client's slot says of what its program was told.
ToldSoFar(c) ==
  /\ process[c] = "off" => c \notin requestedConnectionQueue
  /\ clientMode[c] = "REQUESTED_CONNECTION" => told[c] = << >>
  /\ clientMode[c] = "CONNECTED" => told[c] = <<"ACCEPTED">>
  /\ up[c] \cap {"NEW_INCOMING", "NAME"} # {} => Accepted(c)
  /\ name[c] # "unsent" \/ heard[c] # << >> => Accepted(c)

\* The client no longer asks, and nothing it asked is on its way.
AskedLongAgo(c) ==
  /\ c \notin requestedConnectionQueue \/ process[c] = "gone"
  /\ process[c] # "off"
  /\ "REQUEST_2" \notin wire[c]

\* A slot that has answered a connection request is never followed by
\* another for the same client: this is why nobody is banned.
NoSecondSlot(c) ==
  down[c] # {} \/ Accepted(c) =>
    \/ serverMode[c] \in {"HANDLING_CONNECTION_REQUEST", "CONNECTED"}
    \/ serverMode[c] = "INACTIVE" /\ AskedLongAgo(c)

\* What the server's slot says of what its program heard.
HeardSoFar(c) ==
  /\ serverMode[c] = "CONNECTED" => heard[c] \in {<<"NEW">>, <<"NEW", "NAME">>}
  /\ \/ serverMode[c] = "CONNECTED"
     \/ heard[c] = << >>
     \/ /\ serverMode[c] = "INACTIVE"
        /\ heard[c] \in {<<"NEW", "LOST">>, <<"NEW", "NAME", "LOST">>}
  /\ "NEW_INCOMING" \in up[c] => heard[c] = << >>
  /\ Accepted(c) /\ "NEW_INCOMING" \notin up[c] =>
       serverMode[c] # "HANDLING_CONNECTION_REQUEST"
  /\ name[c] # "sent" \/ "NAME" \in up[c] =>
       heard[c] \in {<< >>, <<"NEW">>, <<"NEW", "LOST">>}
  /\ name[c] # "sent" => "NAME" \notin up[c]

ClientInv(c) ==
  /\ Fresh(c)
  /\ ToldSoFar(c)
  /\ NoSecondSlot(c)
  /\ HeardSoFar(c)
  /\ "BANNED" \notin wire[c]

SlotsInv == Cardinality(ActiveSlots) <= MAX_PLAYERS

HandshakeInv ==
  /\ HandshakeTypeOK
  /\ NobodyBanned
  /\ \A c \in Clients : ClientInv(c)
  /\ SlotsInv

-----------------------------------------------------------------------------
(* A sequence of one or two and another element.                           *)

LEMMA AppendShape ==
  ASSUME NEW S, NEW s \in Seq(S), NEW e \in S
  PROVE  /\ Append(s, e) \in Seq(S)
         /\ Len(Append(s, e)) = Len(s) + 1
         /\ \A i \in 1..Len(s) : Append(s, e)[i] = s[i]
         /\ Append(s, e)[Len(s) + 1] = e
OBVIOUS

LEMMA AppendTwo == \A m, n : Append(<<m>>, n) = <<m, n>>
<1> TAKE m, n
<1> DEFINE s == <<m>>
           t == Append(s, n)
           u == <<m, n>>
           S == {m, n}
<1>0. s \in Seq(S) /\ n \in S
  OBVIOUS
<1>1. /\ Len(s) = 1 /\ s[1] = m
      /\ u \in Seq(S) /\ Len(u) = 2 /\ u[1] = m /\ u[2] = n
  OBVIOUS
<1> HIDE DEF s, u, S
<1>2. /\ t \in Seq(S) /\ Len(t) = Len(s) + 1
      /\ \A i \in 1..Len(s) : t[i] = s[i]
      /\ t[Len(s) + 1] = n
  BY <1>0, AppendShape
<1> HIDE DEF t
<1>3. Len(t) = 2 /\ t[1] = m /\ t[2] = n
  BY <1>1, <1>2
<1>4. \A i \in 1..2 : t[i] = u[i]
  BY <1>1, <1>3
<1>5. t = u
  BY <1>1, <1>2, <1>3, <1>4, SeqEqual
<1>6. QED
  BY <1>5 DEF s, t, u

LEMMA AppendThree == \A k, m, n : Append(<<k, m>>, n) = <<k, m, n>>
<1> TAKE k, m, n
<1> DEFINE s == <<k, m>>
           t == Append(s, n)
           u == <<k, m, n>>
           S == {k, m, n}
<1>0. s \in Seq(S) /\ n \in S
  OBVIOUS
<1>1. /\ Len(s) = 2 /\ s[1] = k /\ s[2] = m
      /\ u \in Seq(S) /\ Len(u) = 3 /\ u[1] = k /\ u[2] = m /\ u[3] = n
  OBVIOUS
<1> HIDE DEF s, u, S
<1>2. /\ t \in Seq(S) /\ Len(t) = Len(s) + 1
      /\ \A i \in 1..Len(s) : t[i] = s[i]
      /\ t[Len(s) + 1] = n
  BY <1>0, AppendShape
<1> HIDE DEF t
<1>3. Len(t) = 3 /\ t[1] = k /\ t[2] = m /\ t[3] = n
  BY <1>1, <1>2
<1>4. \A i \in 1..3 : t[i] = u[i]
  BY <1>1, <1>3
<1>5. t = u
  BY <1>1, <1>2, <1>3, <1>4, SeqEqual
<1>6. QED
  BY <1>5 DEF s, t, u

-----------------------------------------------------------------------------
(* Types.                                                                  *)

LEMMA InitTypes == HandshakeInit => HandshakeTypeOK
<1> SUFFICES ASSUME HandshakeInit PROVE HandshakeTypeOK
  OBVIOUS
<1>1. /\ told \in [Clients -> Seq({"ACCEPTED", "ATTEMPT_FAILED", "LOST"} \cup Refusals)]
      /\ heard \in [Clients -> Seq({"NEW", "NAME", "LOST"})]
  BY DEF HandshakeInit
<1>2. /\ requestsMade \in [Clients -> 0..(Attempts + 1)]
      /\ wire \in [Clients -> SUBSET Offline]
  BY HandshakeAssumption DEF HandshakeInit
<1>3. QED
  BY <1>1, <1>2 DEF HandshakeInit, HandshakeTypeOK

LEMMA ToldIsSeq ==
  ASSUME HandshakeTypeOK, NEW c \in Clients,
         NEW m \in {"ACCEPTED", "ATTEMPT_FAILED", "LOST"} \cup Refusals,
         Tell(c, m)
  PROVE  told' \in [Clients -> Seq({"ACCEPTED", "ATTEMPT_FAILED", "LOST"} \cup Refusals)]
BY DEF HandshakeTypeOK, Tell

LEMMA HeardIsSeq ==
  ASSUME HandshakeTypeOK, NEW c \in Clients, NEW m \in {"NEW", "NAME", "LOST"},
         Hear(c, m)
  PROVE  heard' \in [Clients -> Seq({"NEW", "NAME", "LOST"})]
BY DEF HandshakeTypeOK, Hear

LEMMA WireTypes ==
  ASSUME HandshakeTypeOK, NEW c \in Clients, NEW m, NEW r \in Offline
  PROVE  /\ [wire EXCEPT ![c] = @ \ {m}] \in [Clients -> SUBSET Offline]
         /\ [wire EXCEPT ![c] = (@ \ {m}) \cup {r}] \in [Clients -> SUBSET Offline]
  BY DEF HandshakeTypeOK

LEMMA PutTypes ==
  ASSUME NEW T, NEW f \in [Clients -> SUBSET T], NEW c \in Clients, NEW m \in T
  PROVE  [f EXCEPT ![c] = @ \cup {m}] \in [Clients -> SUBSET T]
<1>1. f[c] \cup {m} \in SUBSET T
  OBVIOUS
<1>2. QED
  BY <1>1

LEMMA StepTypes == ASSUME HandshakeTypeOK, NEW c \in Clients, Step(c)
                   PROVE  HandshakeTypeOK'
<1>1. CASE Connect(c)
  BY <1>1, HandshakeAssumption
     DEF Connect, HandshakeTypeOK, clientVars, serverVars, linkVars
<1>2. CASE SendRequest(c)
  BY <1>2, HandshakeAssumption
     DEF SendRequest, HandshakeTypeOK, clientVars, serverVars, linkVars, NoMoreRequests, Offline
<1>3. CASE GiveUp(c)
  BY <1>3, ToldIsSeq, HandshakeAssumption
     DEF GiveUp, HandshakeTypeOK, clientVars, serverVars, linkVars, Asking
<1>4. CASE HandleReply1(c)
  <2>1. wire' \in [Clients -> SUBSET Offline]
    BY <1>4, WireTypes DEF HandleReply1, Consume, Answer, Offline, Refusals
  <2>2. QED
    BY <1>4, <2>1 DEF HandleReply1, HandshakeTypeOK, clientVars, serverVars
<1>5. CASE HandleReply2(c)
  <2>1. wire' \in [Clients -> SUBSET Offline]
    BY <1>5, WireTypes DEF HandleReply2, Consume, Offline
  <2>2. up' \in [Clients -> SUBSET {"CONNECTION_REQUEST", "NEW_INCOMING", "NAME"}]
    <3>1. [up EXCEPT ![c] = @ \cup {"CONNECTION_REQUEST"}]
            \in [Clients -> SUBSET {"CONNECTION_REQUEST", "NEW_INCOMING", "NAME"}]
      BY PutTypes DEF HandshakeTypeOK
    <3>2. QED
      BY <1>5, <3>1 DEF HandleReply2, HandshakeTypeOK
  <2>3. requestedConnectionQueue' \subseteq Clients
    BY <1>5 DEF HandleReply2, HandshakeTypeOK
  <2>4. QED
    BY <1>5, <2>1, <2>2, <2>3 DEF HandleReply2, HandshakeTypeOK, serverVars
<1>6. CASE HandleRefusal(c)
  <2> PICK m \in Refusals \cap wire[c] :
         /\ Consume(c, m)
         /\ IF Asking(c)
            THEN /\ requestedConnectionQueue' = requestedConnectionQueue \ {c}
                 /\ Tell(c, m)
            ELSE UNCHANGED <<requestedConnectionQueue, told>>
    BY <1>6 DEF HandleRefusal
  <2>1. wire' \in [Clients -> SUBSET Offline]
    BY WireTypes DEF Consume, Offline
  <2>2. told' \in [Clients -> Seq({"ACCEPTED", "ATTEMPT_FAILED", "LOST"} \cup Refusals)]
    BY ToldIsSeq DEF HandshakeTypeOK
  <2>3. QED
    BY <1>6, <2>1, <2>2 DEF HandleRefusal, HandshakeTypeOK, serverVars
<1>7. CASE HandleRequest1(c)
  <2>1. wire' \in [Clients -> SUBSET Offline]
    BY <1>7, WireTypes DEF HandleRequest1, Answer, Reply, Offline, Refusals
  <2>2. QED
    BY <1>7, <2>1 DEF HandleRequest1, HandshakeTypeOK, clientVars, serverVars
<1>8. CASE HandleNewRequest2(c)
  <2>1. wire' \in [Clients -> SUBSET Offline]
    BY <1>8, WireTypes DEF HandleNewRequest2, Answer, Reply, Offline, Refusals
  <2>2. QED
    BY <1>8, <2>1 DEF HandleNewRequest2, HandshakeTypeOK, clientVars, serverVars
<1>9. CASE HandleRequest2Again(c)
  <2>1. wire' \in [Clients -> SUBSET Offline]
    BY <1>9, WireTypes DEF HandleRequest2Again, Answer, Reply, Offline, Refusals
  <2>2. QED
    BY <1>9, <2>1 DEF HandleRequest2Again, HandshakeTypeOK, clientVars, serverVars
<1>10. CASE ReceiveUnverified(c)
  <2>1. up' \in [Clients -> SUBSET {"CONNECTION_REQUEST", "NEW_INCOMING", "NAME"}]
    BY <1>10 DEF ReceiveUnverified, Arrives, HandshakeTypeOK
  <2>2. /\ down' \in [Clients -> SUBSET {"ACCEPTED"}]
        /\ banList' \subseteq Clients
    <3>1. [down EXCEPT ![c] = @ \cup {"ACCEPTED"}] \in [Clients -> SUBSET {"ACCEPTED"}]
      BY PutTypes DEF HandshakeTypeOK
    <3>2. down' = [down EXCEPT ![c] = @ \cup {"ACCEPTED"}] \/ down' = down
      BY <1>10 DEF ReceiveUnverified
    <3>3. banList' \subseteq banList \cup {c}
      BY <1>10 DEF ReceiveUnverified
    <3>4. QED
      BY <3>1, <3>2, <3>3 DEF HandshakeTypeOK
  <2>3. QED
    BY <1>10, <2>1, <2>2 DEF ReceiveUnverified, HandshakeTypeOK, clientVars
<1>11. CASE ReceiveNewIncoming(c)
  <2>1. heard' \in [Clients -> Seq({"NEW", "NAME", "LOST"})]
    BY <1>11, HeardIsSeq DEF ReceiveNewIncoming, HandshakeTypeOK
  <2>2. QED
    BY <1>11, <2>1 DEF ReceiveNewIncoming, HandshakeTypeOK, clientVars, Arrives
<1>12. CASE ReceiveMessage(c)
  <2>1. heard' \in [Clients -> Seq({"NEW", "NAME", "LOST"})]
    BY <1>12, HeardIsSeq DEF ReceiveMessage
  <2>2. QED
    BY <1>12, <2>1 DEF ReceiveMessage, HandshakeTypeOK, clientVars, Arrives
<1>13. CASE ReceiveAccepted(c)
  <2>1. told' \in [Clients -> Seq({"ACCEPTED", "ATTEMPT_FAILED", "LOST"} \cup Refusals)]
    BY <1>13, ToldIsSeq DEF ReceiveAccepted, HandshakeTypeOK
  <2>2. up' \in [Clients -> SUBSET {"CONNECTION_REQUEST", "NEW_INCOMING", "NAME"}]
    <3>1. [up EXCEPT ![c] = @ \cup {"NEW_INCOMING"}]
            \in [Clients -> SUBSET {"CONNECTION_REQUEST", "NEW_INCOMING", "NAME"}]
      BY PutTypes DEF HandshakeTypeOK
    <3>2. QED
      BY <1>13, <3>1 DEF ReceiveAccepted, HandshakeTypeOK
  <2>3. QED
    BY <1>13, <2>1, <2>2 DEF ReceiveAccepted, HandshakeTypeOK, serverVars
<1>14. CASE SendPlayerName(c)
  BY <1>14, HandshakeAssumption
     DEF SendPlayerName, HandshakeTypeOK, clientVars, serverVars, linkVars
<1>15. CASE SendBuffered(c)
  BY <1>15, HandshakeAssumption
     DEF SendBuffered, HandshakeTypeOK, clientVars, serverVars, linkVars
<1>16. CASE SlotTimeout(c)
  BY <1>16, HandshakeAssumption
     DEF SlotTimeout, HandshakeTypeOK, clientVars, serverVars, linkVars
<1>17. CASE ServerNoAck(c)
  BY <1>17, HeardIsSeq, HandshakeAssumption
     DEF ServerNoAck, HandshakeTypeOK, clientVars, serverVars, linkVars
<1>18. CASE AttemptTimeout(c)
  BY <1>18, ToldIsSeq, HandshakeAssumption
     DEF AttemptTimeout, HandshakeTypeOK, clientVars, serverVars, linkVars
<1>19. CASE ClientNoAck(c)
  BY <1>19, ToldIsSeq, HandshakeAssumption
     DEF ClientNoAck, HandshakeTypeOK, clientVars, serverVars, linkVars
<1>20. CASE Vanish(c)
  BY <1>20, HandshakeAssumption
     DEF Vanish, HandshakeTypeOK, clientVars, serverVars, linkVars
<1>21. CASE Lose(c)
  BY <1>21, WireTypes, HandshakeAssumption
     DEF Lose, HandshakeTypeOK, clientVars, serverVars, linkVars, Consume, Answer, Offline, Refusals
<1>22. QED
  BY <1>1, <1>2, <1>3, <1>4, <1>5, <1>6, <1>7, <1>8, <1>9, <1>10, <1>11,
     <1>12, <1>13, <1>14, <1>15, <1>16, <1>17, <1>18, <1>19, <1>20, <1>21 DEF
     Step

-----------------------------------------------------------------------------
(* A step concerns one client; what holds of the others stays.             *)

Same(d) ==
  /\ process'[d] = process[d]
  /\ d \in requestedConnectionQueue' <=> d \in requestedConnectionQueue
  /\ clientMode'[d] = clientMode[d]
  /\ serverMode'[d] = serverMode[d]
  /\ wire'[d] = wire[d]
  /\ up'[d] = up[d]
  /\ down'[d] = down[d]
  /\ name'[d] = name[d]
  /\ told'[d] = told[d]
  /\ heard'[d] = heard[d]

LEMMA SameKeeps == ASSUME NEW d \in Clients, ClientInv(d), Same(d)
                   PROVE  ClientInv(d)'
BY DEF Same, ClientInv, Fresh, ToldSoFar, NoSecondSlot, HeardSoFar, AskedLongAgo,
       Accepted

LEMMA OthersSame == ASSUME HandshakeTypeOK, NEW c \in Clients, Step(c),
                           NEW d \in Clients, d # c
                    PROVE  Same(d)
<1>1. CASE Connect(c)
  BY <1>1 DEF Connect, Same, serverVars, linkVars
<1>2. CASE SendRequest(c)
  BY <1>2 DEF SendRequest, Same, serverVars
<1>3. CASE GiveUp(c)
  BY <1>3 DEF GiveUp, Same, serverVars, linkVars, Tell
<1>4. CASE HandleReply1(c)
  BY <1>4 DEF HandleReply1, Same, HandshakeTypeOK, clientVars, serverVars,
              Consume, Answer
<1>5. CASE HandleReply2(c)
  BY <1>5 DEF HandleReply2, Same, HandshakeTypeOK, serverVars, Consume
<1>6. CASE HandleRefusal(c)
  BY <1>6 DEF HandleRefusal, Same, HandshakeTypeOK, serverVars, Tell, Consume
<1>7. CASE HandleRequest1(c)
  BY <1>7 DEF HandleRequest1, Same, clientVars, serverVars, Answer
<1>8. CASE HandleNewRequest2(c)
  BY <1>8 DEF HandleNewRequest2, Same, clientVars, Answer
<1>9. CASE HandleRequest2Again(c)
  BY <1>9 DEF HandleRequest2Again, Same, clientVars, serverVars, Answer
<1>10. CASE ReceiveUnverified(c)
  BY <1>10 DEF ReceiveUnverified, Same, HandshakeTypeOK, clientVars, Arrives
<1>11. CASE ReceiveNewIncoming(c)
  BY <1>11 DEF ReceiveNewIncoming, Same, HandshakeTypeOK, clientVars, Hear,
               Arrives
<1>12. CASE ReceiveMessage(c)
  BY <1>12 DEF ReceiveMessage, Same, clientVars, Hear, Arrives
<1>13. CASE ReceiveAccepted(c)
  BY <1>13 DEF ReceiveAccepted, Same, HandshakeTypeOK, serverVars, Tell
<1>14. CASE SendPlayerName(c)
  BY <1>14 DEF SendPlayerName, Same, serverVars, linkVars
<1>15. CASE SendBuffered(c)
  BY <1>15 DEF SendBuffered, Same, serverVars
<1>16. CASE SlotTimeout(c)
  BY <1>16 DEF SlotTimeout, Same, clientVars, linkVars
<1>17. CASE ServerNoAck(c)
  BY <1>17 DEF ServerNoAck, Same, clientVars, linkVars, Hear
<1>18. CASE AttemptTimeout(c)
  BY <1>18 DEF AttemptTimeout, Same, serverVars, linkVars, Tell
<1>19. CASE ClientNoAck(c)
  BY <1>19 DEF ClientNoAck, Same, serverVars, linkVars, Tell
<1>20. CASE Vanish(c)
  BY <1>20 DEF Vanish, Same, serverVars, linkVars
<1>21. CASE Lose(c)
  BY <1>21 DEF Lose, Same, clientVars, serverVars, Consume
<1>22. QED
  BY <1>1, <1>2, <1>3, <1>4, <1>5, <1>6, <1>7, <1>8, <1>9, <1>10, <1>11,
     <1>12, <1>13, <1>14, <1>15, <1>16, <1>17, <1>18, <1>19, <1>20, <1>21 DEF
     Step

-----------------------------------------------------------------------------
(* The step of a client keeps what holds of it.                            *)

LEMMA KeepsConnect ==
  ASSUME HandshakeTypeOK, NobodyBanned, NEW c \in Clients, ClientInv(c), Connect(c)
  PROVE  ClientInv(c)'
<1>1. Fresh(c)'
  BY DEF Connect, serverVars, linkVars, ClientInv, Fresh
<1>2. ToldSoFar(c)'
  BY DEF Connect, HandshakeTypeOK, serverVars, linkVars, ClientInv, ToldSoFar,
         Accepted
<1>3. NoSecondSlot(c)'
  BY DEF Connect, linkVars, ClientInv, Fresh, NoSecondSlot, Accepted
<1>4. HeardSoFar(c)'
  BY DEF Connect, serverVars, linkVars, ClientInv, HeardSoFar, Accepted
<1>5. "BANNED" \notin wire'[c]
  BY DEF Connect, linkVars, ClientInv
<1>6. QED
  BY <1>1, <1>2, <1>3, <1>4, <1>5 DEF ClientInv

LEMMA KeepsSendRequest ==
  ASSUME HandshakeTypeOK, NobodyBanned, NEW c \in Clients, ClientInv(c), SendRequest(c)
  PROVE  ClientInv(c)'
<1>1. Fresh(c)'
  BY DEF SendRequest, serverVars, ClientInv, Fresh
<1>2. ToldSoFar(c)'
  BY DEF SendRequest, serverVars, ClientInv, ToldSoFar, Accepted
<1>3. NoSecondSlot(c)'
  BY DEF SendRequest, Asking, ClientInv, Fresh, NoSecondSlot, Accepted
<1>4. HeardSoFar(c)'
  BY DEF SendRequest, serverVars, ClientInv, HeardSoFar, Accepted
<1>5. "BANNED" \notin wire'[c]
  BY DEF SendRequest, ClientInv
<1>6. QED
  BY <1>1, <1>2, <1>3, <1>4, <1>5 DEF ClientInv

LEMMA KeepsGiveUp ==
  ASSUME HandshakeTypeOK, NobodyBanned, NEW c \in Clients, ClientInv(c), GiveUp(c)
  PROVE  ClientInv(c)'
<1>1. Fresh(c)'
  BY DEF GiveUp, Asking, Fresh
<1>2. ToldSoFar(c)'
  BY DEF GiveUp, serverVars, linkVars, Asking, ClientInv, Fresh, ToldSoFar
<1>3. NoSecondSlot(c)'
  BY DEF GiveUp, linkVars, Tell, Asking, ClientInv, Fresh, NoSecondSlot,
         Accepted
<1>4. HeardSoFar(c)'
  BY DEF GiveUp, serverVars, linkVars, Asking, ClientInv, Fresh, HeardSoFar
<1>5. "BANNED" \notin wire'[c]
  BY DEF GiveUp, linkVars, ClientInv
<1>6. QED
  BY <1>1, <1>2, <1>3, <1>4, <1>5 DEF ClientInv

LEMMA KeepsHandleReply1 ==
  ASSUME HandshakeTypeOK, NobodyBanned, NEW c \in Clients, ClientInv(c), HandleReply1(c)
  PROVE  ClientInv(c)'
<1>1. Fresh(c)'
  BY DEF HandleReply1, HandshakeTypeOK, clientVars, serverVars, Answer,
         Asking, ClientInv, Fresh
<1>2. ToldSoFar(c)'
  BY DEF HandleReply1, clientVars, serverVars, ClientInv, ToldSoFar, Accepted
<1>3. NoSecondSlot(c)'
  BY DEF HandleReply1, HandshakeTypeOK, clientVars, serverVars, Consume,
         Asking, ClientInv, NoSecondSlot, AskedLongAgo, Accepted
<1>4. HeardSoFar(c)'
  BY DEF HandleReply1, clientVars, serverVars, ClientInv, HeardSoFar, Accepted
<1>5. "BANNED" \notin wire'[c]
  BY DEF HandleReply1, HandshakeTypeOK, Consume, Answer, ClientInv
<1>6. QED
  BY <1>1, <1>2, <1>3, <1>4, <1>5 DEF ClientInv

LEMMA KeepsHandleReply2 ==
  ASSUME HandshakeTypeOK, NobodyBanned, NEW c \in Clients, ClientInv(c), HandleReply2(c)
  PROVE  ClientInv(c)'
<1>1. Fresh(c)'
  BY DEF HandleReply2, Asking, Fresh
<1>2. ToldSoFar(c)'
  BY DEF HandleReply2, HandshakeTypeOK, serverVars, Asking, ClientInv, Fresh,
         ToldSoFar, Accepted
<1>3. NoSecondSlot(c)'
  BY DEF HandleReply2, serverVars, Consume, ClientInv, NoSecondSlot,
         AskedLongAgo, Accepted
<1>4. HeardSoFar(c)'
  BY DEF HandleReply2, HandshakeTypeOK, serverVars, ClientInv, HeardSoFar,
         Accepted
<1>5. "BANNED" \notin wire'[c]
  BY DEF HandleReply2, Consume, ClientInv
<1>6. QED
  BY <1>1, <1>2, <1>3, <1>4, <1>5 DEF ClientInv

LEMMA KeepsHandleRefusal ==
  ASSUME HandshakeTypeOK, NobodyBanned, NEW c \in Clients, ClientInv(c), HandleRefusal(c)
  PROVE  ClientInv(c)'
<1>1. Fresh(c)'
  BY DEF HandleRefusal, Asking, Fresh
<1>2. ToldSoFar(c)'
  BY DEF HandleRefusal, serverVars, Asking, ClientInv, Fresh, ToldSoFar,
         Accepted
<1>3. NoSecondSlot(c)'
  BY DEF HandleRefusal, HandshakeTypeOK, serverVars, Tell, Consume, Asking,
         Refusals, ClientInv, Fresh, NoSecondSlot, AskedLongAgo, Accepted
<1>4. HeardSoFar(c)'
  BY DEF HandleRefusal, serverVars, Asking, ClientInv, Fresh, HeardSoFar,
         Accepted
<1>5. "BANNED" \notin wire'[c]
  BY DEF HandleRefusal, Consume, ClientInv
<1>6. QED
  BY <1>1, <1>2, <1>3, <1>4, <1>5 DEF ClientInv

LEMMA KeepsHandleRequest1 ==
  ASSUME HandshakeTypeOK, NobodyBanned, NEW c \in Clients, ClientInv(c), HandleRequest1(c)
  PROVE  ClientInv(c)'
<1>1. Fresh(c)'
  BY DEF HandleRequest1, clientVars, serverVars, Answer, Reply, ClientInv, Fresh
<1>2. ToldSoFar(c)'
  BY DEF HandleRequest1, clientVars, serverVars, ClientInv, ToldSoFar, Accepted
<1>3. NoSecondSlot(c)'
  BY DEF HandleRequest1, clientVars, serverVars, Answer, Reply, ClientInv,
         NoSecondSlot, AskedLongAgo, Accepted
<1>4. HeardSoFar(c)'
  BY DEF HandleRequest1, clientVars, serverVars, ClientInv, HeardSoFar, Accepted
<1>5. "BANNED" \notin wire'[c]
  BY DEF HandleRequest1, NobodyBanned, Answer, Reply, ClientInv
<1>6. QED
  BY <1>1, <1>2, <1>3, <1>4, <1>5 DEF ClientInv

LEMMA KeepsHandleNewRequest2 ==
  ASSUME HandshakeTypeOK, NobodyBanned, NEW c \in Clients, ClientInv(c), HandleNewRequest2(c)
  PROVE  ClientInv(c)'
<1>1. Fresh(c)'
  BY DEF HandleNewRequest2, clientVars, Answer, Reply, ClientInv, Fresh
<1>2. ToldSoFar(c)'
  BY DEF HandleNewRequest2, clientVars, ClientInv, ToldSoFar, Accepted
<1>3. NoSecondSlot(c)'
  BY DEF HandleNewRequest2, clientVars, ClientInv, NoSecondSlot, AskedLongAgo,
         Accepted
<1>4. HeardSoFar(c)'
  <2>1. ~Accepted(c)
    BY DEF HandleNewRequest2, ClientInv, NoSecondSlot, AskedLongAgo
  <2>2. heard[c] = << >> /\ "NEW_INCOMING" \notin up[c] /\ "NAME" \notin up[c]
    BY <2>1 DEF ClientInv, ToldSoFar
  <2>3. serverMode'[c] \in {"INACTIVE", "UNVERIFIED_SENDER"}
    BY DEF HandleNewRequest2, HandshakeTypeOK
  <2>4. ~Accepted(c)' /\ heard'[c] = << >> /\ up'[c] = up[c]
    BY <2>1, <2>2 DEF HandleNewRequest2, clientVars, Accepted
  <2>5. QED
    BY <2>2, <2>3, <2>4 DEF HeardSoFar
<1>5. "BANNED" \notin wire'[c]
  BY DEF HandleNewRequest2, NobodyBanned, Answer, Reply, ClientInv
<1>6. QED
  BY <1>1, <1>2, <1>3, <1>4, <1>5 DEF ClientInv

LEMMA KeepsHandleRequest2Again ==
  ASSUME HandshakeTypeOK, NobodyBanned, NEW c \in Clients, ClientInv(c), HandleRequest2Again(c)
  PROVE  ClientInv(c)'
<1>1. Fresh(c)'
  BY DEF HandleRequest2Again, clientVars, serverVars, Answer, Reply,
         ActiveSlots, InMode, ClientInv, Fresh
<1>2. ToldSoFar(c)'
  BY DEF HandleRequest2Again, clientVars, serverVars, ClientInv, ToldSoFar,
         Accepted
<1>3. NoSecondSlot(c)'
  BY DEF HandleRequest2Again, clientVars, serverVars, ActiveSlots, InMode,
         ClientInv, NoSecondSlot, Accepted
<1>4. HeardSoFar(c)'
  BY DEF HandleRequest2Again, clientVars, serverVars, ClientInv, HeardSoFar,
         Accepted
<1>5. "BANNED" \notin wire'[c]
  BY DEF HandleRequest2Again, NobodyBanned, Answer, Reply, ClientInv
<1>6. QED
  BY <1>1, <1>2, <1>3, <1>4, <1>5 DEF ClientInv

LEMMA KeepsReceiveUnverified ==
  ASSUME HandshakeTypeOK, NobodyBanned, NEW c \in Clients, ClientInv(c), ReceiveUnverified(c)
  PROVE  ClientInv(c)'
<1>1. Fresh(c)'
  BY DEF ReceiveUnverified, clientVars, ClientInv, Fresh
<1>2. ToldSoFar(c)'
  <2>1. up'[c] \subseteq up[c]
    BY DEF ReceiveUnverified, Arrives, HandshakeTypeOK
  <2>2. UNCHANGED <<heard, clientVars>>
    BY DEF ReceiveUnverified
  <2>3. QED
    BY <2>1, <2>2 DEF clientVars, ClientInv, ToldSoFar, Accepted
<1>3. NoSecondSlot(c)'
  BY DEF ReceiveUnverified, HandshakeTypeOK, ClientInv, ToldSoFar, NoSecondSlot
<1>4. HeardSoFar(c)'
  BY DEF ReceiveUnverified, HandshakeTypeOK, clientVars, Arrives, ClientInv,
         NoSecondSlot, HeardSoFar, Accepted
<1>5. "BANNED" \notin wire'[c]
  BY DEF ReceiveUnverified, ClientInv
<1>6. QED
  BY <1>1, <1>2, <1>3, <1>4, <1>5 DEF ClientInv

LEMMA KeepsReceiveNewIncoming ==
  ASSUME HandshakeTypeOK, NobodyBanned, NEW c \in Clients, ClientInv(c), ReceiveNewIncoming(c)
  PROVE  ClientInv(c)'
<1>1. Fresh(c)'
  BY DEF ReceiveNewIncoming, clientVars, ClientInv, Fresh
<1>2. ToldSoFar(c)'
  <2>1. /\ up'[c] \subseteq up[c]
        /\ "NEW_INCOMING" \in up[c]
    BY DEF ReceiveNewIncoming, Arrives, MayArrive, HandshakeTypeOK
  <2>2. UNCHANGED clientVars
    BY DEF ReceiveNewIncoming
  <2>3. Accepted(c)
    BY <2>1 DEF ClientInv, ToldSoFar
  <2>4. QED
    BY <2>2, <2>3 DEF clientVars, ClientInv, ToldSoFar, Accepted
<1>3. NoSecondSlot(c)'
  BY DEF ReceiveNewIncoming, HandshakeTypeOK, NoSecondSlot
<1>4. HeardSoFar(c)'
  BY DEF ReceiveNewIncoming, HandshakeTypeOK, clientVars, Hear, Arrives,
         MayArrive, ClientInv, HeardSoFar
<1>5. "BANNED" \notin wire'[c]
  BY DEF ReceiveNewIncoming, ClientInv
<1>6. QED
  BY <1>1, <1>2, <1>3, <1>4, <1>5 DEF ClientInv

\* A message of the game comes after NEW_INCOMING: both are sent ordered.
LEMMA NameAfterNew ==
  ASSUME NEW c \in Clients, ClientInv(c), ReceiveMessage(c)
  PROVE  serverMode[c] = "CONNECTED" /\ heard[c] = <<"NEW">>
<1>1. "NAME" \in up[c] /\ "NEW_INCOMING" \notin up[c]
  <2>1. 1 \in DOMAIN Ordered /\ 2 \in DOMAIN Ordered /\ 1 < 2
        /\ Ordered[1] = "NEW_INCOMING" /\ Ordered[2] = "NAME"
    BY DEF Ordered
  <2>2. QED
    BY <2>1 DEF ReceiveMessage, Arrives, MayArrive
<1>2. Accepted(c)
  BY <1>1 DEF ClientInv, ToldSoFar
<1>3. serverMode[c] = "CONNECTED"
  BY <1>1, <1>2 DEF ReceiveMessage, ClientInv, HeardSoFar
<1>4. QED
  BY <1>1, <1>3 DEF ClientInv, HeardSoFar

LEMMA KeepsReceiveMessage ==
  ASSUME HandshakeTypeOK, NobodyBanned, NEW c \in Clients, ClientInv(c), ReceiveMessage(c)
  PROVE  ClientInv(c)'
<1>1. Fresh(c)'
  BY DEF ReceiveMessage, clientVars, ClientInv, Fresh
<1>2. ToldSoFar(c)'
  <2>1. "NAME" \in up[c]
    BY DEF ReceiveMessage, Arrives, MayArrive
  <2>2. UNCHANGED clientVars
    BY DEF ReceiveMessage
  <2>3. Accepted(c)
    BY <2>1 DEF ClientInv, ToldSoFar
  <2>4. QED
    BY <2>2, <2>3 DEF clientVars, ClientInv, ToldSoFar, Accepted
<1>3. NoSecondSlot(c)'
  BY DEF ReceiveMessage, NoSecondSlot
<1>4. HeardSoFar(c)'
  <2>1. serverMode[c] = "CONNECTED" /\ heard[c] = <<"NEW">>
    BY NameAfterNew
  <2>2. heard'[c] = <<"NEW", "NAME">>
    BY <2>1, AppendTwo DEF ReceiveMessage, Hear, HandshakeTypeOK
  <2>3. up'[c] = up[c] \ {"NAME"} /\ "NAME" \in up[c]
    BY DEF ReceiveMessage, Arrives, MayArrive, HandshakeTypeOK
  <2>4. /\ name[c] = "sent" /\ "NEW_INCOMING" \notin up[c]
        /\ UNCHANGED <<clientVars, serverMode>>
    BY <2>1, <2>3 DEF ReceiveMessage, ClientInv, HeardSoFar
  <2>5. QED
    BY <2>1, <2>2, <2>3, <2>4 DEF clientVars, HeardSoFar
<1>5. "BANNED" \notin wire'[c]
  BY DEF ReceiveMessage, ClientInv
<1>6. QED
  BY <1>1, <1>2, <1>3, <1>4, <1>5 DEF ClientInv

LEMMA KeepsReceiveAccepted ==
  ASSUME HandshakeTypeOK, NobodyBanned, NEW c \in Clients, ClientInv(c), ReceiveAccepted(c)
  PROVE  ClientInv(c)'
<1>1. Fresh(c)'
  BY DEF ReceiveAccepted, ClientInv, Fresh
<1>2. ToldSoFar(c)'
  BY DEF ReceiveAccepted, HandshakeTypeOK, Tell, Offline, ClientInv,
         ToldSoFar, Accepted
<1>3. NoSecondSlot(c)'
  BY DEF ReceiveAccepted, serverVars, ClientInv, NoSecondSlot, AskedLongAgo
<1>4. HeardSoFar(c)'
  <2>1. CASE clientMode[c] = "REQUESTED_CONNECTION"
    <3>1. told[c] = << >>
      BY <2>1 DEF ClientInv, ToldSoFar
    <3>2. ~Accepted(c)
      BY <3>1 DEF Accepted
    <3>3. heard[c] = << >> /\ "NAME" \notin up[c] /\ name[c] = "unsent"
      BY <3>2 DEF ClientInv, ToldSoFar
    <3>4. /\ heard'[c] = << >> /\ name'[c] = "unsent"
          /\ serverMode'[c] = serverMode[c]
          /\ up'[c] = up[c] \cup {"NEW_INCOMING"}
      BY <2>1, <3>3 DEF ReceiveAccepted, serverVars, HandshakeTypeOK
    <3>5. serverMode[c] # "CONNECTED"
      BY <3>3 DEF ClientInv, HeardSoFar
    <3>6. QED
      BY <3>3, <3>4, <3>5 DEF HeardSoFar
  <2>2. CASE clientMode[c] # "REQUESTED_CONNECTION"
    BY <2>2 DEF ReceiveAccepted, serverVars, ClientInv, HeardSoFar, Accepted
  <2>3. QED
    BY <2>1, <2>2
<1>5. "BANNED" \notin wire'[c]
  BY DEF ReceiveAccepted, ClientInv
<1>6. QED
  BY <1>1, <1>2, <1>3, <1>4, <1>5 DEF ClientInv

LEMMA KeepsSendPlayerName ==
  ASSUME HandshakeTypeOK, NobodyBanned, NEW c \in Clients, ClientInv(c), SendPlayerName(c)
  PROVE  ClientInv(c)'
<1>1. Fresh(c)'
  BY DEF SendPlayerName, ClientInv, Fresh
<1>2. ToldSoFar(c)'
  BY DEF SendPlayerName, ClientInv, ToldSoFar, Accepted
<1>3. NoSecondSlot(c)'
  BY DEF SendPlayerName, serverVars, linkVars, ClientInv, NoSecondSlot,
         AskedLongAgo, Accepted
<1>4. HeardSoFar(c)'
  BY DEF SendPlayerName, serverVars, linkVars, ClientInv, HeardSoFar, Accepted
<1>5. "BANNED" \notin wire'[c]
  BY DEF SendPlayerName, linkVars, ClientInv
<1>6. QED
  BY <1>1, <1>2, <1>3, <1>4, <1>5 DEF ClientInv

LEMMA KeepsSendBuffered ==
  ASSUME HandshakeTypeOK, NobodyBanned, NEW c \in Clients, ClientInv(c), SendBuffered(c)
  PROVE  ClientInv(c)'
<1>1. Fresh(c)'
  BY DEF SendBuffered, ClientInv, Fresh
<1>2. ToldSoFar(c)'
  BY DEF SendBuffered, ClientInv, ToldSoFar, Accepted
<1>3. NoSecondSlot(c)'
  BY DEF SendBuffered, serverVars, ClientInv, NoSecondSlot, AskedLongAgo,
         Accepted
<1>4. HeardSoFar(c)'
  BY DEF SendBuffered, HandshakeTypeOK, serverVars, ClientInv, HeardSoFar,
         Accepted
<1>5. "BANNED" \notin wire'[c]
  BY DEF SendBuffered, ClientInv
<1>6. QED
  BY <1>1, <1>2, <1>3, <1>4, <1>5 DEF ClientInv

LEMMA KeepsSlotTimeout ==
  ASSUME HandshakeTypeOK, NobodyBanned, NEW c \in Clients, ClientInv(c), SlotTimeout(c)
  PROVE  ClientInv(c)'
<1>1. Fresh(c)'
  BY DEF SlotTimeout, clientVars, linkVars, ClientInv, Fresh
<1>2. ToldSoFar(c)'
  BY DEF SlotTimeout, clientVars, linkVars, ClientInv, ToldSoFar, Accepted
<1>3. NoSecondSlot(c)'
  BY DEF SlotTimeout, clientVars, linkVars, SlotIsOld, ClientInv, Fresh,
         NoSecondSlot, AskedLongAgo, Accepted
<1>4. HeardSoFar(c)'
  BY DEF SlotTimeout, clientVars, linkVars, Incomplete, ClientInv, HeardSoFar,
         Accepted
<1>5. "BANNED" \notin wire'[c]
  BY DEF SlotTimeout, linkVars, ClientInv
<1>6. QED
  BY <1>1, <1>2, <1>3, <1>4, <1>5 DEF ClientInv

LEMMA KeepsServerNoAck ==
  ASSUME HandshakeTypeOK, NobodyBanned, NEW c \in Clients, ClientInv(c), ServerNoAck(c)
  PROVE  ClientInv(c)'
<1>1. Fresh(c)'
  BY DEF ServerNoAck, clientVars, ClientInv, Fresh
<1>2. ToldSoFar(c)'
  BY DEF ServerNoAck, clientVars, ClientInv, ToldSoFar, HeardSoFar, Accepted
<1>3. NoSecondSlot(c)'
  BY DEF ServerNoAck, clientVars, linkVars, SlotIsOld, ClientInv, Fresh,
         NoSecondSlot, AskedLongAgo
<1>4. HeardSoFar(c)'
  <2>1. heard[c] \in {<<"NEW">>, <<"NEW", "NAME">>}
    BY DEF ServerNoAck, ClientInv, HeardSoFar
  <2>2. heard'[c] = Append(heard[c], "LOST")
    BY DEF ServerNoAck, Hear, HandshakeTypeOK
  <2>3. \/ heard[c] = <<"NEW">> /\ heard'[c] = <<"NEW", "LOST">>
        \/ heard[c] = <<"NEW", "NAME">> /\ heard'[c] = <<"NEW", "NAME", "LOST">>
    BY <2>1, <2>2, AppendTwo, AppendThree
  <2>4. serverMode'[c] = "INACTIVE"
    BY DEF ServerNoAck, HandshakeTypeOK
  <2>5. UNCHANGED <<clientVars, up>>
    BY DEF ServerNoAck, linkVars
  <2>6. <<"NEW">> # << >> /\ <<"NEW", "NAME">> # << >> /\ <<"NEW">> # <<"NEW", "NAME">>
        /\ <<"NEW", "NAME">> # <<"NEW", "LOST">>
    OBVIOUS
  <2>7. "NEW_INCOMING" \notin up[c]
        /\ (name[c] # "sent" \/ "NAME" \in up[c] => heard[c] = <<"NEW">>)
        /\ (name[c] # "sent" => "NAME" \notin up[c])
    BY <2>1, <2>6 DEF ServerNoAck, ClientInv, HeardSoFar
  <2>8. QED
    <3>1. heard'[c] \in {<<"NEW", "LOST">>, <<"NEW", "NAME", "LOST">>}
      BY <2>3
    <3>2. name'[c] = name[c] /\ up'[c] = up[c]
      BY <2>5 DEF clientVars
    <3>3. name[c] # "sent" \/ "NAME" \in up[c] => heard'[c] = <<"NEW", "LOST">>
      BY <2>3, <2>6, <2>7
    <3>4. QED
      BY <2>4, <2>7, <3>1, <3>2, <3>3 DEF HeardSoFar
<1>5. "BANNED" \notin wire'[c]
  BY DEF ServerNoAck, linkVars, ClientInv
<1>6. QED
  BY <1>1, <1>2, <1>3, <1>4, <1>5 DEF ClientInv

LEMMA KeepsAttemptTimeout ==
  ASSUME HandshakeTypeOK, NobodyBanned, NEW c \in Clients, ClientInv(c), AttemptTimeout(c)
  PROVE  ClientInv(c)'
<1>1. Fresh(c)'
  BY DEF AttemptTimeout, Incomplete, ClientInv, Fresh
<1>2. ToldSoFar(c)'
  BY DEF AttemptTimeout, HandshakeTypeOK, serverVars, linkVars, Incomplete,
         ClientInv, ToldSoFar, Accepted
<1>3. NoSecondSlot(c)'
  BY DEF AttemptTimeout, serverVars, linkVars, Tell, ClientInv, NoSecondSlot,
         AskedLongAgo, Accepted
<1>4. HeardSoFar(c)'
  BY DEF AttemptTimeout, serverVars, linkVars, Tell, ClientInv, HeardSoFar,
         Accepted
<1>5. "BANNED" \notin wire'[c]
  BY DEF AttemptTimeout, linkVars, ClientInv
<1>6. QED
  BY <1>1, <1>2, <1>3, <1>4, <1>5 DEF ClientInv

LEMMA KeepsClientNoAck ==
  ASSUME HandshakeTypeOK, NobodyBanned, NEW c \in Clients, ClientInv(c), ClientNoAck(c)
  PROVE  ClientInv(c)'
<1>1. Fresh(c)'
  BY DEF ClientNoAck, ClientInv, Fresh
<1>2. ToldSoFar(c)'
  <2>1. told[c] = <<"ACCEPTED">>
    BY DEF ClientNoAck, ClientInv, ToldSoFar
  <2>2. told'[c] = <<"ACCEPTED", "LOST">>
    BY <2>1, AppendTwo DEF ClientNoAck, Tell, HandshakeTypeOK
  <2>3. Accepted(c)'
    BY <2>2 DEF Accepted
  <2>4. clientMode'[c] = "INACTIVE" /\ UNCHANGED <<process, requestedConnectionQueue>>
    BY DEF ClientNoAck, HandshakeTypeOK
  <2>5. QED
    BY <2>3, <2>4 DEF ClientInv, ToldSoFar
<1>3. NoSecondSlot(c)'
  BY DEF ClientNoAck, serverVars, linkVars, ClientInv, ToldSoFar,
         NoSecondSlot, AskedLongAgo, Accepted
<1>4. HeardSoFar(c)'
  BY DEF ClientNoAck, serverVars, linkVars, ClientInv, ToldSoFar, HeardSoFar,
         Accepted
<1>5. "BANNED" \notin wire'[c]
  BY DEF ClientNoAck, linkVars, ClientInv
<1>6. QED
  BY <1>1, <1>2, <1>3, <1>4, <1>5 DEF ClientInv

LEMMA KeepsVanish ==
  ASSUME HandshakeTypeOK, NobodyBanned, NEW c \in Clients, ClientInv(c), Vanish(c)
  PROVE  ClientInv(c)'
<1>1. Fresh(c)'
  BY DEF Vanish, serverVars, linkVars, ClientInv, Fresh
<1>2. ToldSoFar(c)'
  BY DEF Vanish, serverVars, linkVars, ClientInv, ToldSoFar, Accepted
<1>3. NoSecondSlot(c)'
  BY DEF Vanish, serverVars, linkVars, ClientInv, NoSecondSlot, AskedLongAgo,
         Accepted
<1>4. HeardSoFar(c)'
  BY DEF Vanish, serverVars, linkVars, ClientInv, HeardSoFar, Accepted
<1>5. "BANNED" \notin wire'[c]
  BY DEF Vanish, linkVars, ClientInv
<1>6. QED
  BY <1>1, <1>2, <1>3, <1>4, <1>5 DEF ClientInv

LEMMA KeepsLose ==
  ASSUME HandshakeTypeOK, NobodyBanned, NEW c \in Clients, ClientInv(c), Lose(c)
  PROVE  ClientInv(c)'
<1>1. Fresh(c)'
  BY DEF Lose, clientVars, serverVars, Consume, ClientInv, Fresh
<1>2. ToldSoFar(c)'
  BY DEF Lose, clientVars, serverVars, ClientInv, ToldSoFar, Accepted
<1>3. NoSecondSlot(c)'
  BY DEF Lose, clientVars, serverVars, Consume, ClientInv, NoSecondSlot,
         AskedLongAgo, Accepted
<1>4. HeardSoFar(c)'
  BY DEF Lose, clientVars, serverVars, ClientInv, HeardSoFar, Accepted
<1>5. "BANNED" \notin wire'[c]
  BY DEF Lose, Consume, ClientInv
<1>6. QED
  BY <1>1, <1>2, <1>3, <1>4, <1>5 DEF ClientInv

LEMMA StepKeeps ==
  ASSUME HandshakeTypeOK, NobodyBanned, NEW c \in Clients, ClientInv(c), Step(c)
  PROVE  ClientInv(c)'
BY KeepsConnect, KeepsSendRequest, KeepsGiveUp, KeepsHandleReply1,
   KeepsHandleReply2, KeepsHandleRefusal, KeepsHandleRequest1,
   KeepsHandleNewRequest2, KeepsHandleRequest2Again, KeepsReceiveUnverified,
   KeepsReceiveNewIncoming, KeepsReceiveMessage, KeepsReceiveAccepted,
   KeepsSendPlayerName, KeepsSendBuffered, KeepsSlotTimeout, KeepsServerNoAck,
   KeepsAttemptTimeout, KeepsClientNoAck, KeepsVanish, KeepsLose
   DEF Step

-----------------------------------------------------------------------------
(* Slots and bans.                                                         *)

\* What follows a connection request does not meet an unverified slot.
LEMMA StepBansNobody ==
  ASSUME HandshakeTypeOK, NobodyBanned, NEW c \in Clients, ClientInv(c), Step(c)
  PROVE  NobodyBanned'
<1>1. CASE ReceiveUnverified(c)
  <2>1. ~Accepted(c)
    BY <1>1 DEF ReceiveUnverified, ClientInv, NoSecondSlot
  <2>2. up[c] \subseteq {"CONNECTION_REQUEST"}
    BY <2>1 DEF ClientInv, ToldSoFar, HandshakeTypeOK
  <2>3. QED
    BY <1>1, <2>2 DEF ReceiveUnverified, Arrives, MayArrive, NobodyBanned
<1>2. CASE ~ReceiveUnverified(c)
  BY <1>2 DEF Step, NobodyBanned, serverVars, Connect, SendRequest, GiveUp,
     HandleReply1, HandleReply2, HandleRefusal, HandleRequest1,
     HandleNewRequest2, HandleRequest2Again, ReceiveNewIncoming,
     ReceiveMessage, ReceiveAccepted, SendPlayerName, SendBuffered,
     SlotTimeout, ServerNoAck, AttemptTimeout, ClientNoAck, Vanish, Lose
<1>3. QED
  BY <1>1, <1>2

LEMMA StepKeepsSlots ==
  ASSUME HandshakeTypeOK, SlotsInv, NEW c \in Clients, Step(c)
  PROVE  SlotsInv'
<1>1. IsFiniteSet(ActiveSlots) /\ Cardinality(ActiveSlots) \in Nat
  BY HandshakeAssumption, FS_Subset, FS_CardinalityType DEF ActiveSlots
<1>2. CASE ActiveSlots' \subseteq ActiveSlots
  BY <1>1, <1>2, FS_Subset, FS_CardinalityType, HandshakeAssumption DEF SlotsInv
<1>3. CASE HandleNewRequest2(c) /\ serverMode' # serverMode
  <2>1. /\ Cardinality(ActiveSlots) < MAX_PLAYERS
        /\ serverMode' = [serverMode EXCEPT ![c] = "UNVERIFIED_SENDER"]
        /\ c \notin ActiveSlots
    BY <1>3 DEF HandleNewRequest2, ActiveSlots, InMode
  <2>2. ActiveSlots' = ActiveSlots \cup {c}
    BY <2>1 DEF ActiveSlots, InMode, HandshakeTypeOK
  <2>3. Cardinality(ActiveSlots') = Cardinality(ActiveSlots) + 1
    BY <1>1, <2>1, <2>2, FS_AddElement
  <2>4. QED
    BY <1>1, <2>1, <2>3, HandshakeAssumption DEF SlotsInv
<1>4. CASE ~(HandleNewRequest2(c) /\ serverMode' # serverMode)
  <2>1. ActiveSlots' \subseteq ActiveSlots
    BY <1>4 DEF Step, ActiveSlots, InMode, HandshakeTypeOK, serverVars,
       Connect, SendRequest, GiveUp, HandleReply1, HandleReply2,
       HandleRefusal, HandleRequest1, HandleNewRequest2, HandleRequest2Again,
       ReceiveUnverified, ReceiveNewIncoming, ReceiveMessage, ReceiveAccepted,
       SendPlayerName, SendBuffered, SlotTimeout, ServerNoAck, AttemptTimeout,
       ClientNoAck, Vanish, Lose
  <2>2. QED
    BY <1>2, <2>1
<1>5. QED
  BY <1>3, <1>4

LEMMA InitInv == HandshakeInit => HandshakeInv
<1> SUFFICES ASSUME HandshakeInit PROVE HandshakeInv
  OBVIOUS
<1>1. HandshakeTypeOK /\ NobodyBanned
  BY InitTypes DEF HandshakeInit, NobodyBanned
<1>2. ASSUME NEW c \in Clients PROVE ClientInv(c)
  BY DEF HandshakeInit, ClientInv, Fresh, ToldSoFar, NoSecondSlot, HeardSoFar, Accepted
<1>3. SlotsInv
  <2>1. ActiveSlots = {}
    BY DEF HandshakeInit, ActiveSlots, InMode
  <2>2. QED
    BY <2>1, FS_EmptySet, HandshakeAssumption DEF SlotsInv
<1>4. QED
  BY <1>1, <1>2, <1>3 DEF HandshakeInv

LEMMA NextInv == HandshakeInv /\ [HandshakeNext]_handshakeVars => HandshakeInv'
<1> SUFFICES ASSUME HandshakeInv, [HandshakeNext]_handshakeVars PROVE HandshakeInv'
  OBVIOUS
<1>1. CASE UNCHANGED handshakeVars
  BY <1>1 DEF handshakeVars, clientVars, serverVars, linkVars, HandshakeInv,
              HandshakeTypeOK, NobodyBanned, SlotsInv, ActiveSlots, InMode, ClientInv,
              Fresh, ToldSoFar, NoSecondSlot, AskedLongAgo, HeardSoFar, Accepted
<1>2. ASSUME NEW c \in Clients, Step(c) PROVE HandshakeInv'
  <2>1. HandshakeTypeOK' /\ NobodyBanned' /\ SlotsInv'
    BY <1>2, StepTypes, StepBansNobody, StepKeepsSlots DEF HandshakeInv
  <2>2. ASSUME NEW d \in Clients PROVE ClientInv(d)'
    <3>1. CASE d = c
      BY <1>2, <3>1, StepKeeps DEF HandshakeInv
    <3>2. CASE d # c
      BY <1>2, <3>2, OthersSame, SameKeeps DEF HandshakeInv
    <3>3. QED
      BY <3>1, <3>2
  <2>3. QED
    BY <2>1, <2>2 DEF HandshakeInv
<1>3. QED
  BY <1>1, <1>2 DEF HandshakeNext

LEMMA Invariance == HandshakeSpec => []HandshakeInv
BY InitInv, NextInv, PTL DEF HandshakeSpec

\* Every variable keeps its type, whatever is lost, sent again or timed out.
THEOREM HandshakeTypes == HandshakeSpec => []HandshakeTypeOK
BY Invariance, PTL DEF HandshakeInv

\* No client is banned for talking out of turn (RunUpdateCycle, "sending
\* nonsense data"), for any number of clients, slots and attempts.
THEOREM NobodyIsBanned == HandshakeSpec => []NobodyBanned
BY Invariance, PTL DEF HandshakeInv

\* There are never more slots in use than the server allows, handshakes in
\* progress included.
THEOREM SlotsSuffice == HandshakeSpec => [](Cardinality(ActiveSlots) <= MAX_PLAYERS)
BY Invariance, PTL DEF HandshakeInv, SlotsInv

-----------------------------------------------------------------------------
(* Each step is one of Sessions, or none.                                  *)

SessionStep(c) ==
  \/ Promised!Accept(c) \/ Promised!Refuse(c) \/ Promised!ClientLoses(c)
  \/ Promised!Announce(c) \/ Promised!Message(c) \/ Promised!ServerLoses(c)

\* The instance of Sessions brings its own Cardinality.
LEMMA SameCardinality ==
  Promised!Cardinality(Promised!Present) = Cardinality(Promised!Present)
BY Zenon DEF Cardinality, Promised!Cardinality

\* Whoever is present has a slot, so the newcomer with a slot of its own
\* finds room.
LEMMA RoomForNewcomer ==
  ASSUME HandshakeInv, NEW c \in Clients, serverMode[c] = "HANDLING_CONNECTION_REQUEST"
  PROVE  Promised!Cardinality(Promised!Present) < MAX_PLAYERS
<1>1. Promised!Present \subseteq ActiveSlots \ {c}
  <2> SUFFICES ASSUME NEW d \in Promised!Present PROVE d \in ActiveSlots \ {c}
    OBVIOUS
  <2>1. d \in Clients /\ heard[d] # << >> /\ heard[d][Len(heard[d])] # "LOST"
    BY DEF Promised!Present
  <2>2. /\ <<"NEW", "LOST">>[Len(<<"NEW", "LOST">>)] = "LOST"
        /\ <<"NEW", "NAME", "LOST">>[Len(<<"NEW", "NAME", "LOST">>)] = "LOST"
    OBVIOUS
  <2>3. serverMode[d] = "CONNECTED"
    BY <2>1, <2>2 DEF HandshakeInv, ClientInv, HeardSoFar
  <2>4. QED
    BY <2>1, <2>3 DEF ActiveSlots, InMode
<1>2. c \in ActiveSlots
  BY DEF ActiveSlots, InMode
<1>3. IsFiniteSet(ActiveSlots) /\ Cardinality(ActiveSlots) \in Nat
  BY HandshakeAssumption, FS_Subset, FS_CardinalityType DEF ActiveSlots
<1>4. /\ IsFiniteSet(ActiveSlots \ {c})
      /\ Cardinality(ActiveSlots \ {c}) = Cardinality(ActiveSlots) - 1
  BY <1>2, <1>3, FS_RemoveElement
<1>5. /\ Cardinality(Promised!Present) <= Cardinality(ActiveSlots \ {c})
      /\ Cardinality(Promised!Present) \in Nat
  BY <1>1, <1>4, FS_Subset, FS_CardinalityType
<1>6. QED
  BY <1>3, <1>4, <1>5, SameCardinality, HandshakeAssumption DEF HandshakeInv, SlotsInv

LEMMA StepIsSessionStep ==
  ASSUME HandshakeInv, NEW c \in Clients, Step(c)
  PROVE  SessionStep(c) \/ UNCHANGED Promised!sessionVars
<1> USE DEF Promised!sessionVars, Promised!Tell, Promised!Hear
<1>1. ClientInv(c) /\ HandshakeTypeOK
  BY DEF HandshakeInv
<1>2. CASE GiveUp(c)
  <2>1. told[c] = << >>
    BY <1>1, <1>2 DEF GiveUp, Asking, ClientInv, Fresh
  <2>2. QED
    BY <1>2, <2>1 DEF GiveUp, Tell, serverVars, SessionStep, Promised!Refuse
<1>3. CASE HandleRefusal(c)
  <2>1. PICK m \in Refusals \cap wire[c] :
          IF Asking(c) THEN Tell(c, m) ELSE UNCHANGED told
    BY <1>3 DEF HandleRefusal
  <2>2. UNCHANGED heard
    BY <1>3 DEF HandleRefusal, serverVars
  <2>3. CASE Asking(c)
    <3>1. told[c] = << >> /\ m = "NO_FREE"
      BY <1>1, <2>1, <2>3 DEF Asking, Refusals, ClientInv, Fresh
    <3>2. QED
      BY <2>1, <2>2, <2>3, <3>1 DEF Tell, SessionStep, Promised!Refuse
  <2>4. QED
    BY <2>1, <2>2, <2>3
<1>4. CASE AttemptTimeout(c)
  <2>1. told[c] = << >>
    BY <1>1, <1>4 DEF AttemptTimeout, Incomplete, HandshakeTypeOK, ClientInv, ToldSoFar
  <2>2. QED
    BY <1>4, <2>1 DEF AttemptTimeout, Tell, serverVars, SessionStep, Promised!Refuse
<1>5. CASE ReceiveAccepted(c)
  <2>1. UNCHANGED heard
    BY <1>5 DEF ReceiveAccepted, serverVars
  <2>2. CASE clientMode[c] = "REQUESTED_CONNECTION"
    <3>1. told[c] = << >>
      BY <1>1, <2>2 DEF ClientInv, ToldSoFar
    <3>2. QED
      BY <1>5, <2>1, <2>2, <3>1 DEF ReceiveAccepted, Tell, SessionStep, Promised!Accept
  <2>3. QED
    BY <1>5, <2>1, <2>2 DEF ReceiveAccepted
<1>6. CASE ClientNoAck(c)
  <2>1. told[c] = <<"ACCEPTED">>
    BY <1>1, <1>6 DEF ClientNoAck, ClientInv, ToldSoFar
  <2>2. QED
    BY <1>6, <2>1 DEF ClientNoAck, Tell, serverVars, SessionStep, Promised!ClientLoses
<1>7. CASE ReceiveNewIncoming(c)
  <2>1. UNCHANGED told
    BY <1>7 DEF ReceiveNewIncoming, clientVars
  <2>2. CASE serverMode[c] = "HANDLING_CONNECTION_REQUEST"
    <3>1. heard[c] = << >> /\ Accepted(c)
      BY <1>1, <1>7 DEF ReceiveNewIncoming, Arrives, MayArrive, ClientInv, ToldSoFar, HeardSoFar
    <3>2. Promised!Cardinality(Promised!Present) < MAX_PLAYERS
      BY <2>2, RoomForNewcomer
    <3>3. Promised!Hear(c, "NEW")
      BY <1>7, <2>1, <2>2 DEF ReceiveNewIncoming, Hear
    <3>4. Promised!Announce(c)
      BY <3>1, <3>2, <3>3 DEF Accepted, Promised!Announce
    <3>5. QED
      BY <3>4 DEF SessionStep
  <2>3. CASE serverMode[c] # "HANDLING_CONNECTION_REQUEST"
    BY <1>7, <2>1, <2>3 DEF ReceiveNewIncoming
  <2>4. QED
    BY <2>2, <2>3
<1>8. CASE ReceiveMessage(c)
  <2>1. heard[c] = <<"NEW">>
    BY <1>1, <1>8, NameAfterNew
  <2>2. QED
    BY <1>8, <2>1 DEF ReceiveMessage, Hear, clientVars, SessionStep, Promised!Message
<1>9. CASE ServerNoAck(c)
  <2>1. heard[c] \in {<<"NEW">>, <<"NEW", "NAME">>}
    BY <1>1, <1>9 DEF ServerNoAck, ClientInv, HeardSoFar
  <2>2. c \in Promised!Present
    BY <2>1 DEF Promised!Present
  <2>3. QED
    BY <1>9, <2>2 DEF ServerNoAck, Hear, clientVars, SessionStep, Promised!ServerLoses
<1>10. CASE UNCHANGED <<told, heard>>
  BY <1>10
<1>11. Connect(c) \/ SendRequest(c) \/ HandleReply1(c)
         \/ HandleReply2(c) \/ HandleRequest1(c)
         \/ HandleNewRequest2(c) \/ HandleRequest2Again(c)
         \/ ReceiveUnverified(c) \/ SendPlayerName(c) \/ SendBuffered(c) \/ SlotTimeout(c)
         \/ Vanish(c) \/ Lose(c)
         => UNCHANGED <<told, heard>>
  BY DEF clientVars, serverVars,
         Connect, SendRequest, HandleReply1, HandleReply2, HandleRequest1, HandleNewRequest2,
         HandleRequest2Again, ReceiveUnverified, SendPlayerName, SendBuffered,
         SlotTimeout, Vanish, Lose
<1>12. QED
  BY <1>2, <1>3, <1>4, <1>5, <1>6, <1>7, <1>8, <1>9, <1>10, <1>11 DEF Step

\* What Net takes for granted of a connection (module Sessions), for any
\* number of clients, slots and attempts.
THEOREM HandshakeKeepsPromise == HandshakeSpec => ImplementsSessions
<1>1. HandshakeInit => Promised!SessionsInit
  BY DEF HandshakeInit, Promised!SessionsInit
<1>2. HandshakeInv /\ [HandshakeNext]_handshakeVars
        => [Promised!SessionsNext]_(Promised!sessionVars)
  <2> SUFFICES ASSUME HandshakeInv, [HandshakeNext]_handshakeVars
               PROVE  [Promised!SessionsNext]_(Promised!sessionVars)
    OBVIOUS
  <2>1. CASE UNCHANGED handshakeVars
    BY <2>1 DEF handshakeVars, serverVars, clientVars, Promised!sessionVars
  <2>2. ASSUME NEW c \in Clients, Step(c)
        PROVE  [Promised!SessionsNext]_(Promised!sessionVars)
    BY <2>2, StepIsSessionStep DEF SessionStep, Promised!SessionsNext
  <2>3. QED
    BY <2>1, <2>2 DEF HandshakeNext
<1>3. QED
  BY <1>1, <1>2, Invariance, PTL
     DEF HandshakeSpec, ImplementsSessions, Promised!SessionsSpec
=============================================================================
