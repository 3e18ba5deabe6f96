# Blackjack over RakNet: a formal model

A TLA+ development of the blackjack game in `src/Solution/Blackjack_RakNet`: a
server process that deals and keeps the scores, client processes that ask their
users for moves, and RakNet between them. Paths below are relative to that
directory; `main.cpp` is the server, `client.cpp` is `Client/client.cpp`.

## Inventory

| Part | State | Operations | Talks to |
|---|---|---|---|
| Server loop and lobby (`main.cpp` 57-250, 467-546) | `players` (nobody is ever removed), `lastPlayerID`, `numPlayersReadyToStart`, `readyToStart`, `GameInProgress` | new connection, name, ready | every client, by ordered messages |
| Turns and showdown (`main.cpp` 278-463, 576-714) | hands, `currentPlayer`, scores, bets | `StartGame`, `GameLoop`, hit, stand, `DoEnd`, `CheckWins` | the player whose turn it is; everyone at the end; the operator's console |
| Player (`Player.h`, `Player.cpp`) | score, bet, wins, losses, hand | `AddScore` | |
| Hand (`Hand.cpp`) | array of 52 cards, `cardCount` | `ClearHand`, `AddCard`, `GetValue` | |
| Deck (`Deck.cpp`, `Card.cpp`) | array of 52 cards, `currentCard` | `Shuffle`, `NextCard` | |
| Client (`client.cpp`) | `preReadyToStart`, `readyToStart`, `numPlayers`, the state of `cin` | one handler for each packet; four prompts that block the thread | the server, its user |
| Connection (RakNet, vendored) | queues, slots | connect, ordered delivery, loss | both |
| Handshake (RakNet's `RakPeer.cpp`) | `requestedConnectionQueue`, a slot with a `connectMode` for each peer, ban list, queue of commands | `Connect`, four datagrams and their refusals, connection request, acceptance, announcement, deadlines of both ends | its peer; the two programs, through the packets they receive |
| Reliability layer (RakNet's `ReliabilityLayer.cpp`) | resend buffer, datagram history, acknowledgements to send, receive queue, ordering heap, all in 24-bit numbers | `Send`, `Update`, `HandleSocketReceiveFromConnectedPlayer`, `Receive` | its peer, over UDP |
| Console start-up | name, address, port | read before the loops start | user |
| First client (`Blackjack_RakNet_Client`) | | superseded, not in the solution | |

What is hard. Both programs are single-threaded, so there are no data races;
the difficulty is in the protocol. The server acts on an answer without asking
whose turn it is; it counts READY messages without asking whose they are; the
vector of players grows while a game runs; a client blocks on its user while
messages queue up; the server blocks on its own console after each game;
clients vanish without the game noticing. Below the game, datagrams and their
acknowledgements are lost, delayed, reordered and repeated while the numbers
that tell them apart wrap; a connection is asked for again and again while
either end may give it up, each on a deadline of its own. `PROJECT.json` lists each of these as
a hazard at its line, with the properties that watch it.

## Modules

* `HandTotals` - a hand as two sums; the operators `AddCard`, `GetValue`,
  `CheckBust` the server's model uses. A suit or a name of a card is only
  printed and does not exist here.
* `Hand` - the class: the array, stale cards behind `cardCount` included,
  checked to implement `HandTotals` and compared with the rules of blackjack.
* `Deck` - the class: shuffling swap by swap, dealing, running out.
* `Dealing` (extends `Deck`, `Hand`) - the two together: what `DrawPlayer` and
  `DrawForAll` draw, hands cleared for a new game, a deck that goes on from one
  game to the next.
* `Net` - one FIFO queue in each direction for each client, slots, loss.
* `GameServer` (extends `Net`, `HandTotals`) - a handler of `RunGame` is one
  action. `DoEnd` is three: the dealer's draws, one action a card; `Showdown`
  (everything up to `cin.ignore()`); `IgnoreKey`. `serverPc` holds the thread
  there: no packet is received in between, as in the code.
* `GameClient` (extends `Net`) - a handler is one action that ends at a prompt
  if there is one; the user's answer is the action that continues from it.
* `Blackjack` - all of it, with the users, the operator, the bounds, fairness
  and the properties.
* `RoundTable` - the abstract specification: a table where every seat plays in
  order, once, and money moves when all have played. `TableRefinement` maps
  `Blackjack` to it; `Blackjack` implements it. The house's bound of 16 is the code's:
  the refinement says that the showdown waits for it, not which bound is right.
* `TurnOrder` - `Blackjack` with a history variable, `stood`: whose 'stand' the
  server has acted on since the last showdown. It restricts nothing.
* `RangeList` - uint24_t and the list of number ranges in which datagrams are
  acknowledged (`DS_RangeList.h`).
* `OrderingChannel` - the receiving end of an ordering channel: the index that
  comes next, the heap of messages that came early.
* `Sessions` - what the two programs may be told of a connection and in which
  order: what `Net` takes for granted.
* `Handshake` - how connections open and close, both ends and the network;
  implements `Sessions`.
* `Reliability` (extends `OrderingChannel`) - RakNet's reliability layer, one
  direction of a connection: both ends and the network. `Channel` is what it
  promises, and what `Net` takes for granted.
* `LongGap` - an ordering channel alone, under a stream longer than the numbers.
* `Claims` - what comments and prompts say where the code does otherwise.
* `MCBlackjack`, `MCTurnOrder`, `MCDealing` - values for the constants; the `.cfg` files name the
  runs. `RangeList`, `Reliability`, `LongGap` and `Handshake` need no such module.
* `DealingTheorems`, `BlackjackTheorems` (types), `MoveTheorems` (the token of the
  turn, the bets), `TableTheorems` (hands that bust, seats, scores, the turn, the
  refinement of `RoundTable`), `NamesTheorems` (names, final
  hands, who has agreed to play, one game after another),
  `ReliabilityTheorems` (lists of ranges, acknowledgements), `ChannelTheorems` (order,
  the refinement of `Channel`), `HandshakeTheorems` - proofs.

Definitions named as mutants in comments are faults that a programmer could
make; no specification uses them. They show that each property can fail:
`PROJECT.json` pairs every property with one.

### Correspondence

`players[i]` of the code is `players[i + 1]` of the model; `currentPlayer`
keeps the code's value. The variables of the server and of the clients have the
names of the code, but `readySent`, which is the client's `readyToStart`.
`console` counts characters on the server's standard input: one to begin with,
the newline that `cin >> PortNum` leaves there (132). `cinFail` is the failbit
of a client's `cin`: `cin >> input` into an `int` sets it when the user types
the letter the prompt asks for (458, 472), `ValidInput_char` clears it (947).

Left out, because nothing reads them or they are only printed: `DoneEnd`,
`turnCount`, `turn`, `insurance`, `active`, `hitStandRecieved`, `draws`, the
client's `gameInProgress`, `myTurn`, `Players`, hands and scores; the messages
that carry only text. Messages the programs name and never send
(`ID_GAME_STARTED`, `ID_PLAYER_TURN`, ...) do not exist here.

`Reliability` names a message by its place in the order of sending. `received`
and `base` are `hasReceivedPacketQueue` and `receivedPacketsBaseIndex`; `history`
is `datagramHistory`, the messages of each datagram. `sent` separates the messages
with a number from those still in `outgoingPacketBuffer`, from which messages of
one priority leave in the order in which they came. The game sends all of its
messages with one priority; RakPeer's own pings go ahead of them and are left
out. (Among messages of different priorities the heap weights of
`GetNextWeight`, `ReliabilityLayer.cpp` 3926, can tie and let two of the game's
messages swap before they are numbered; the ordering index makes up for it.)
Left out too: NAKs, which only bring a resend forward, for here any message that
is not acknowledged may be sent again at any moment; unreliable, sequenced and
split messages, receipts and the size of the congestion window. The wire is a
set: what is never taken out is lost, what is taken twice is a duplicate.

In `Handshake` each client process connects once, as `client.cpp` does (377). A slot
is its `connectMode`; a slot that is not active is "INACTIVE". The wire of a client
is the set of datagrams of either direction; a copy that comes twice is a request
sent again, of which there are `Attempts` + 1. What goes through the slots'
reliability layers is a set as well, of which an ordered message cannot be
taken before an earlier one (`MayArrive`), as `Reliability` shows; a message that
does not arrive is one that stays. The deadlines are taken from these numbers: a
slot is dropped 10 seconds after it was assigned (5881), a client asks 7 times, a
second apart (`Connect`'s defaults), and a datagram is assumed to be on its way
for less than the 3 seconds between; so a slot's deadline passes only when the
client has stopped asking (`SlotIsOld`). Left out, for the game uses none of it: two
ends that connect to each other, passwords, security, limits by address, closing
with a notification; the steps down in MTU size, and the end of a ban. REPLY_2
is sent also when handshakes in progress hold all slots and none is left
(5367); the client then finds nobody at the other end and is told ATTEMPT_FAILED
where NO_FREE_INCOMING_CONNECTIONS would be the truth. `Net` does not tell the
two apart. Nor does `Net` have the client that is accepted and never announced,
because the server's slot was given up first: it waits until its own deadline
tells it CONNECTION_LOST, and no game has heard of it.

A card the server draws is any of `Ranks`: more than the deck allows, so what is
checked does not lean on the order of the cards.

## What is checked

Runs that pass:

* `dealing` - a deck of four cards (two aces, a ten and a nine), two swaps in a
  shuffle, which reach every order in time, and a hand of up to five drawn from it
  over the remains of earlier hands. The deck runs out in the middle of a game,
  is shuffled and dealt again: a hand of five is always one in which a card
  comes twice, and `TwiceOnlyAfterShuffle` says that this is the only way. The
  values of the hands are compared with the rules of blackjack.
* `two_players` - two games, cards 10 and 11: hands of 20, 21, 12 and 2 from
  the deal, wins, losses, ties, 21, busts of either side. `Ledger` ties the
  scores to wins and losses; `RestartReadsAnswer` and `AllReadyAtStart` hold
  for players who were there from the start (proved: `TwoAnswersAreRead`,
  `TwoStartsAgreed`).
* `late_join` - three clients that connect at any moment. Three is the least
  number for a newcomer in a running game. The turn is a token: `OnlyCurrentMoves`
  and `OneMovePending` say it is in one place, a request, a prompt or an answer
  of the player whose turn it is; `TurnHeld` says it is not lost, and
  `TurnsGoRound` that it goes round: the clients whose answers moved it are the
  first of the table, once each and in order, a newcomer last, whoever is asked is
  the next, and the dealer draws when everybody has stood. The server's index does
  not say that, for it moves with every 'stand', whoever sent it; hence the record of
  `TurnOrder`.
  `EveryoneBetsOnce`, `FinalHandsComplete` and `ImplementsTable` say what
  follows for the bets, for the client's reading of the final hands and for
  the order of play.
* `two_players_fair` - liveness, three games: `GameEnds`, `ReadyStarts`,
  `NewestGetsReady`.
* `leaving` - two of three clients quit or crash at any moment, with what they
  sent cut off anywhere; two slots, so that the third is refused or takes the
  slot of one that was lost. A game that does not end has stopped at a player
  who is gone (`GameEndsOrIsLeft`).
* `handshake` - two clients, one slot, each request sent up to twice at the first
  stage, anything lost, either client gone at any moment. `NobodyBanned`: a slot
  that has not heard a connection request never gets what follows one, which
  would be "nonsense data" (5966) and a ban. `ImplementsSessions`: what the programs
  are told is what `Net` assumes. `EveryAttemptEnds` and `SlotsComeFree`, liveness:
  nobody waits for ever, and no handshake keeps a slot for ever.
* `reliability` - three messages, ordered or not, three datagrams, two slots in
  the resend buffer, a history of two, numbers below 8 that wrap in the middle.
  `NoLoss`, `OneToASlot`, `HistoryAligned` and `HoleCountExact` say that sender
  and receiver do not mistake one message, slot or datagram for another;
  `OnceInOrder`, `NoneStuck` and `ImplementsChannel` what the game gets from it.
* `delivery` - liveness, two messages, datagrams without bound in numbers below
  4: `EventuallyTaken`.

Runs that show a disagreement with the source's own words: `asked_again`,
`ready_twice`, `unattended`, and for RakNet `heap_wraps`; see "findings" in
`PROJECT.json`. More were met and have no run of their own: a player who joins
after the deal plays from no cards (`main.cpp` 449) where a comment
says "draw everyone 2 cards" (586); a capital H or S is accepted by a prompt
that is to "ensure valid char input" (`client.cpp` 938) and never sent (584), so
that the game waits for ever; the restart prompt of a late joiner whose `cin`
has failed reads nothing and acts on an uninitialized char (593); the dealer
stands on 16 (`main.cpp` 391) where a comment says "more than 16"
(743); a player with a negative score plays although the server prints "can't
play!" (704); the client's prompt promises names of 16 characters (334) and its
buffer holds 15.

### Bounds

`MaxCards` (cards a user asks for), `MaxRestarts` (answers 'y' of a user),
`MaxConsole` (keys the operator types ahead), and the sizes of `Clients` and
`Ranks`. Three cards reach a bust; one restart reaches every state in which a
game follows another; the second restart is needed only where the newline of
the port number must be used up first (`unattended`, `two_players_fair`).
In `reliability` three datagrams are enough to send one message twice and to push
the first out of the history of two; an acknowledgement may come at any later
moment, once or often. `MaxAcks` and `MaxRanges` bound what is on the way back.
`delivery` sends datagrams for ever, so that every acknowledgement may be lost
any number of times, and takes `MaxRanges` = 1: a longer list with a range that
ends in the largest number is rejected from there on (738). `SkipLimit` does not
bind there: after more than 50000 datagrams lost in a row all are ignored until
the numbers come round. The runs keep fewer messages than there are numbers
between two moments at which the heap is empty; `heap_wraps` shows what happens
otherwise. In `handshake` one slot for two clients is the least that makes handshakes
compete for slots, and `Attempts` = 1 the least that repeats a request. In
`dealing`, `MaxShuffles` bounds how often the deck runs out in one game. Clients
with names of their own are interchangeable, and the runs without
liveness or distinguished leavers use that symmetry. Both programs poll for
ever, so a state without successor is a system at rest, and deadlock checking
is off in the runs of `MCBlackjack`; liveness is what looks for stalls.

### Fairness

`ThreadFairness`: both loops spin and receive what has arrived. `UserFairness`:
a user at the ready or hit/stand prompt types something, and does not hit for
ever. `OperatorFairness`: someone presses Enter at the server now and then;
`unattended` shows what happens otherwise. `DeliveryFairness`: what is tried again and again
over the network succeeds now and then, message by message; fairness is strong
there because a datagram whose number is still in an acknowledgement on its way
waits for it (`Fresh`, `Emit`), which is the one assumption on the network: a
datagram or acknowledgement does not outlive its number. `HandshakeFairness`:
the client's thread goes on asking, a datagram does not stay on its way for ever,
deadlines pass, and a connection whose other end is no more is noticed. Nothing is
assumed to get through. Nothing is assumed of the restart prompt, of users starting
clients or of users leaving.

## What is proved

With TLAPS, for every value of the constants that the ASSUMEs admit
(`NetAssumption`: finitely many clients, at least one slot;
`ServerAssumption`: ranks are card values, the bet is positive, the starting
score an integer; `DeckAssumption` of `Deck`; nothing else is assumed):

* `DealingTheorems`: `ShuffleKeepsCards` and `NoCardTwice`, for a deck of any size
  and any number of swaps. `DeckInv` says that the array stays a permutation and
  that the cards dealt since the last shuffle are those up to `currentCard`; "the
  next card is new" alone is not inductive, for it says nothing of the cards
  behind the next one. `DealsFromDeck` - dealing is a behaviour of `Deck` - carries
  what holds of the deck over to the hands: `HandsHoldCardsOnce`, by an invariant
  that relates the cards of the hand to those dealt since the last shuffle,
  `DeckTypeCorrect` and `HandTypeCorrect`, under `DealingAssumption` (the deck's
  cards have values, a hand is bounded by its array). `DealsAllBeforeShuffle`: the
  deck is shuffled in the middle of a game only when all of it has been dealt, for
  every card is somewhere in the array (`AllThere`). `BustsByTheRules`,
  `ValuesByTheRules` and `HandsAreTotals` are about the loop of `GetValue`, for an
  array of any length. `SumsInv` says what its two sums are: every ace as 1, and that
  with ten more for each ace; it is kept because the card that is added is the next
  in use and the ones behind it are not looked at (`AddTotals`, `AddHard`). What a hand
  is worth by the rules is a maximum over the ways to count its aces, which
  `BestCount` finds. The sum is a recursive function, and what is needed of it
  goes by induction over the array: each lemma about it (`RoundsExist`, `RoundsAgree`,
  `LoopSumAgree`, `LoopSumOneMore`) takes the least round at which it would fail
  (`FirstFailure`).
* `BlackjackTheorems`: `TypeCorrect`. `TypeInv` adds to `TypeOK` that
  `readyToStart` implies `GameInProgress`: without it a READY could start a game
  at an empty table, where `players[0]` (`main.cpp` 576-600, `StartGame`) does
  not exist.
* `MoveTheorems`: `TurnToken`, `OneToken` and `BetsOnce`. `MoveInv` adds to the two
  token properties that seat i has ID i - 1, for `StartGame` takes the ID of the
  first player for an index. The argument: a step is either quiet (it brings no
  request, prompt or answer into being and leaves the turn where it is,
  `QuietStep`), or moves one client's token along (`HitorStandMoves`,
  `TestTestMoves`), or consumes the one answer there is (`AnswerTaken`) and then
  asks one player, whose turn it then is (`TurnBegins`), or asks nobody and
  leaves no token (`NoMoveHolds`). Since an answer that arrives comes from the
  player whose turn it is, `Stand` moves the turn of the right player, and
  `EveryoneBetsOnce` follows by one more induction on top of `MoveInv`.
  Nothing about seats being of different clients is needed for the token.
* `TableTheorems`: `BustIsFinal`, `DealtHandsStand`, facts of `GetValue` for hands
  of any length that the turn relies on: a player who hits while bust cannot
  come back, and the first request of a game is never skipped. Then `SeatsDiffer`, `TurnIsHeld`, `OnlyKeysDropTurns`,
  `ScoresAccounted`, `TablePlayed` and `EveryoneStandsInTurn`. `SeatInv`, inductive beside
  `MoveInv`, says that the seats are of different clients, for a connection is
  announced once and before that the client has no seat (`AnnouncedOnce`); where
  `DoEnd` is (`EndInProgress`); and that nobody is bust before the turn comes
  (`WaitingHands`). The last is what keeps a turn from being dropped, for
  `GameLoop` asks nothing of a player who is bust. `TurnIsHeld` assumes that users answer 'h' or 's', the keys the prompt
  names; `TestTest` sends nothing for another that `ValidInput_char` lets through (a
  capital H), and the game stops there. `OnlyKeysDropTurns` says of any keys that
  nothing else drops a turn. `ScoresAccounted` needs an invariant of its own: in a
  game the bet has left the score and no loss is counted yet, and it needs
  `EveryoneBetsOnce`, for `CheckWins` settles what was bet. `TablePlayed` is the
  refinement of `RoundTable`, action by action: a newcomer's connection is a seat
  taken, `StartGame` the deal, `Hit` a card for the seat whose turn it is, `Stand` the
  pass of the turn, the dealer's draws and `Showdown` themselves, all else a stutter. That the
  name and the READY of a seat leave the table alone, and that an answer moves
  the seat whose turn it is, come from `MoveInv` and `OneSeatEach`.
  `EveryoneStandsInTurn` is about `TurnSpec`, whose behaviours are behaviours of
  `Spec` (`TurnsAreBlackjack`). `StoodInv` says that the record is the beginning
  of the table, as long as `currentPlayer` says, or all of it once the dealer
  draws. A 'stand' keeps it because the answer the server takes is that of the
  player whose turn it is (`AnswerTaken`); nothing else touches the record, the
  index or the clients of the seats (`OthersEndNoTurn`).

* `NamesTheorems`: `HandsComplete`. `RecieveAllCards` reads `numPlayers` hands from a
  message into which `SendAllPlayersCardsString` wrote one for each player of the
  vector, and `numPlayers` is only what the last message with a number said. `NamesInv` says that hands on
  their way are as many as the client will know when it has received what is before them
  in its queue (`HandsKnown`); that either everybody has been told, by what has been
  received or is on its way, how many players there are (`AllTold`), or the name of
  the newest player is still to come (`NameComes`); and that everybody has been told
  when the dealer draws. `NameComes` is about the order of the packets: no answer of
  that client lies before its name in the queue to the server, and as long as it
  has not sent the name, no request lies before ID_CONNECTION_REQUEST_ACCEPTED, on
  which it will send it. The argument: seats play in order, so the answer that
  brings the showdown is the newest player's; it comes behind the name; and on the
  name `SendPlayerNamesToClients` told everybody, on the queue that the hands take
  too. A client that leaves keeps the order, for what it sent is cut off
  at the end (`BeforeSubSeq`). It needs `OnlyCurrentMoves` and `SeatInv`.
  `FirstStartAgreed` is what `PlayerReady` gets right although it counts messages and
  not players: until a user has answered 'y', a game starts only when everybody
  seated has agreed. `PresentInv` says that a client of which anything comes has a
  seat, or its announcement is ahead of it (`Heard`), and that one which is
  not connected does nothing (`Outside`). `ReadyInv` says that, if nobody has
  restarted, a client's READY is sent once, is on its way or counted but not
  both, and that the count is the number of those in `consent`. So a count of at
  least `players.size()` is as many clients as there are seats, all seated, hence
  everybody (`StartAgreed`). After a restart it is false: `ready_twice`.
  The client at fault there is one that took its seat while a game was on.
  `EveryStartAgreed` and `AnswersAreRead` say that this is the only way: assuming
  `[][NobodyJoinsLate]_vars`, no step of a running game takes a seat, every
  game of every length of session starts with everybody's consent, and
  `Restart` finds `cin` in order. Clients may still come between games, and leave or crash
  whenever they like. The hypothesis is needed for both: for the start see
  `ready_twice`, for the answer TLC shows a third client that takes its seat in the
  second player's turn, gets its own turn before the list that answers its name,
  is then asked to get ready, types a letter, and finds "end" next.
  `TwoStartsAgreed` and `TwoAnswersAreRead` discharge it for two clients: a game takes
  two seats, so there is nobody left who could be late (`NobodyLate`).
  `RoundInv` carries a session from one game to the next. `CalledOnce` says that
  between "end" and its next READY a client has none on its way and none counted, so the
  count is the number of those in `consent` after restarts too. `NamedFirst` says
  that a client is greeted before anything else and gives its name before its
  READY; so when a game starts no name is outstanding, and no list of
  names is sent, and no ready prompt caused, before the game is over.
  `ReadFirst` says that whoever has had the turn has a prompt ahead that
  clears `cin` or has passed it, with no list of names behind it (`TurnClears`). At the
  showdown that is everybody, so "end" comes to a client whose `cin` is
  in order (`Clear`).

* `ReliabilityTheorems`: `InsertAddsOne`, for lists of any length: `Insert` adds the
  number it is given and nothing else. The place `GetIndexFromKey` finds exists
  by the least-number principle, proved there from the set's minimum. `NothingLost`, `SlotsNeverClash`, `HistoryStaysAligned`,
  `VerdictsRight` and `ReliabilityTypeCorrect`, for every modulus, every size of
  the buffers and any number of messages, assuming `ReliabilityAssumption`: the
  resend buffer is at most half the numbers and divides their count, and what
  the history can span stays below it. `LinkInv` says what the two ends know of
  each other: what is not acknowledged lies within the resend buffer's length of
  the newest (`Window`); what an entry of the history holds was sent at most so
  many datagrams ago (`HistoryRecent`), so its number is its own; a datagram on
  the wire has what its history entry says (`WireTrue`); and what an
  acknowledgement names, the receiver has (`AcksTrue`, `AckWireTrue`). Without
  the last three `NoLoss` is not inductive: an acknowledgement that comes late
  could name a datagram whose entry belongs to another.
* `ChannelTheorems`: `OutInOrder`, `HeapHoldsNoneUp` and `ChannelKept`, the
  refinement of `Channel`, on top of `LinkInv` and under the same assumption.
  `OrderInv` says what the numbers of ordered messages are (`Numbered`: one after
  another, in the order of sending), that all before the receiver's index have
  come (`TurnsTaken`) and the one whose turn it is has not (`NextMissing`), that the
  heap holds the ordered messages that came early and nothing else
  (`HeapHolds`), and that the output holds the others, once each
  (`OutputHolds`). The argument: the message whose turn it is has not been
  received, so by `NoLoss` it still lies in the resend buffer, or is not sent
  yet; hence everything received lies within the buffer's length of it, less
  than half the numbers, and "later" is never mistaken for "earlier" by the
  comparison of `OrderingIndexType`s that wrap. The loop over the heap then takes
  exactly the successors that are there. `NextMissing` is what makes the loop's end
  right: without it a message could be left in the heap whose turn has passed.
  The hypothesis is `FewMessages`: a connection sends no more messages than there
  are numbers, wherever they start and however often datagrams are lost, delayed
  or sent again. It is needed because the weights of the heap are distances from
  `heapIndexOffset`, which is set only when the heap is empty (`OffsetKnown`);
  `heap_wraps` shows what a longer stream can do.

* `HandshakeTheorems`: `NobodyIsBanned`, `HandshakeKeepsPromise` (the refinement of
  `Sessions`), `SlotsSuffice` and `HandshakeTypes`, for any number of clients,
  slots and attempts; of `Clients` only that they are finitely many
  (`HandshakeAssumption`). `HandshakeInv` says for each client how far it has come:
  while it asks nothing reliable exists yet (`Fresh`), what its slot says of what it
  was told (`ToldSoFar`), what the server's slot says of what the server heard
  (`HeardSoFar`), and, the heart of it, that a slot which has answered is never
  followed by another for the same client (`NoSecondSlot`), because by the time it
  is given up no request of the client is left (`AskedLongAgo`). A step concerns
  one client (`OthersSame`), so each action is dealt with for that one. Room for
  a newcomer follows by counting: whoever is present has a slot, and so has the
  newcomer.

`MoveInv`, `NamesInv`, `PresentInv`, `ReadyInv`, `RoundInv`, `HandshakeInv`, `OrderInv` and
their parts were model-checked before they were proved, `RoundInv` on the behaviours
that `NobodyJoinsLate` leaves. The theorems do not need
the bounds `MaxCards`, `MaxRestarts` and `MaxConsole`: they hold whatever their
values.

Every invariant and action property the passing runs check is stated by a theorem. Two need a
hypothesis because the code breaks them without it: `RestartReadsAnswer` and
`AllReadyAtStart` are proved for tables that nobody joins while a game is on, and with
no hypothesis for two clients. With three, `ready_twice` shows what a late joiner
does to the second.

Model-checked only: all liveness (`GameEnds`, `ReadyStarts`, `NewestGetsReady`,
`GameEndsOrIsLeft`, `EventuallyTaken`, `EveryAttemptEnds`, `SlotsComeFree`), which is
out of the proof system's reach.

## Plan

1. Done: `Hand`, `Deck` and their composition, `Net`, `GameServer`, `GameClient`,
   `Blackjack`, the table and its refinement; RakNet's reliability layer and
   handshake, each with what it promises. Proved: types, token, bets, seats,
   scores, the turn, the final hands, who agreed to a start, the answers to the
   restart prompt and the refinement of the table; dealing and the values of hands; acknowledgements, the order of messages and the refinement of the channel;
   handshake and the refinement of its sessions.
2. Next: the console start-up (names of 16 characters and more, two players of
   one name, the empty name) and loss of the server.

## Not modelled

The first client; drawing text on consoles; reading names, addresses and
ports before the loops start; of RakNet, everything but the reliability layer and
the handshake: sockets, plugins, and the many parts in
`src/Raknet/RakNet-master` that the game does not link (databases, image and
sound libraries, samples, plugins), which are most of the repository's lines and
none of its behaviour.
