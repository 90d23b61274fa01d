# A TLA+ model of SilentTanks

SilentTanks is a turn-based tank game for two, three or five players: a C++
server (Boost.Asio, PostgreSQL), a Qt client, and a game library they share.
This directory models the server, the game rules, the replay of recorded
matches, and the client's state. Every definition is
translated from the source; `PROJECT.json` gives the lines each one stands for.

## 1. Inventory

The server is a set of objects. Each posts its work to a *strand* (a FIFO queue
of handlers that run one at a time) served by the threads of one `io_context`;
the database adds a thread pool. Handlers of different strands run in parallel,
and members that are read off their strand are read in the middle of things.

| Component | State | Operations | Talks to | What is hard |
|---|---|---|---|---|
| `MatchInstance` | roster, turn, fuel, clocks, command queues, phase | command, forfeit, sync, shutdown, turn start, timeout | MatchMaker (results), sessions (views) | a timer handler that is queued when it is cancelled; turns posted twice; callbacks reset under queued handlers |
| `MatchMaker` | `uuid_to_match_`, `uuid_to_gamemode_`, live matches | enqueue, cancel, forfeit, route, make match, results, shutdown | strategies, UserManager, MatchInstance, Database | maps read and written off their strand; connections that die between queue and match |
| casual strategies | a queue and a lookup set each | enqueue, cancel, form match | MatchMaker | two structures kept in step |
| `RankedTwoPlayerStrategy` | rating buckets, lookup of iterators | enqueue, cancel, tick | MatchMaker | stale iterators; a window that widens with waiting time |
| `Session` | socket, write queue, four timers, live flag | read loop, write loop, ping, deliver, close | Server, everyone who sends | loops that must neither break off nor double; closers on several threads |
| `UserManager` | users, their session and match | login, disconnect, match start and end, ratings, social notices | Session, MatchInstance | messages about a session or match that was replaced |
| `Server` | sessions, bans, shutdown counter | accept, on_message, remove_session, shutdown | all | the order in which parts stop |
| `Database` | pending writes, shutdown flag and callback | record match, authenticate, social and ban requests | PostgreSQL, Server, UserManager | results on their way while the process stops; concurrent read-modify-write |
| `KeyedExecutor` | a strand and a count per key | post | Database | a count that reaches zero while a job is posted |
| `GameInstance` (libgame) | board, tanks, vision | place, move, rotate, load, fire, repair, views | MatchInstance, replay manager | edges of the board; wrecks whose position stays; rays and foliage |
| Replay manager (client) | stored replays, an instance, applied moves | add, choose, perspective, step forward and back | GameInstance, GUI | a board rebuilt from moves alone, and undone |
| Client and its sessions | state, lists, `playing_`, current session | one request per button, server messages, disconnect, shutdown | Server, GUI | three kinds of thread; late messages; reconnection |
| GUI client | page, queue button, popup queues | callbacks, clicks | Client | callbacks in another order than the changes they report |
| Elo updates, MapRepository, Console, messages | - | computation, files, terminal, serialisation | - | - |

Properties that make each part correct: a match never freezes, ranks everybody
once and ends; a match is made whenever it can be, of as many different users as
its mode needs, and its entries in the maps are its own; a bucket and its lookup
describe one queue; banned users are out, friends and blocks in memory are those
of the tables, and a player finds their match again; the board holds every living
tank once, and shows a player what their tanks see; a replay shows the match, and
going back undoes going forward; the client shows what the server knows, forgets no
popup, and exits; a connection keeps reading and writing until it is removed,
and is removed when its peer is gone; jobs of one user do not overlap; ratings
add up; a shutdown completes and loses nothing.

## 2. Modules

| Module | Models |
|---|---|
| `MatchInstance` | one match, its strand, its timer, and what the rest of the server posts to it |
| `MatchOutcome` | what a match promises the rest of the server: who is in, who left in which place, one ranking at the end |
| `MatchInstanceProofs` | proofs about `MatchInstance` |
| `MatchMaker`, `MatchMakerProofs` | the match maker, its casual queues, and the sessions' requests; proofs about it |
| `RankedStrategy`, `RankedStrategyProofs` | the ranked queue, and proofs about it |
| `Session`, `SessionProofs` | one connection, and proofs about it |
| `MatchRecorder`, `MatchRecorderProofs` | the way of a result into the database, and the server's shutdown; proofs about it |
| `KeyedExecutor` | the per-user executor; the proofs about it are the last section of `UsersProofs` |
| `Users`, `UsersProofs` | accounts, logins, friends, blocks, bans and match history, through `Server`, `Database` and `UserManager`; proofs about them |
| `GameInstance` | the rules: operators on a board, without state of their own |
| `Replay`, `ReplayProofs` | a match played with `GameInstance`, and the client's replay of it; extends `GameInstance`; proofs about both |
| `Client`, `ClientProofs` | the client program against a server that is external to it, and proofs about it |
| `MC...` | constants, definitions and symmetry for TLC |

Operators marked *Slip* are mutated forms of the definition that follows; no
specification uses them. They are what a plausible mistake in the code would be,
and each property is known to notice one.

### MatchInstance

`self` is the object: a record of its members with the queue of its strand.
A member function is an operator from object to object (to a set of objects where
the client or the board decides); one action runs the handler at the head of the
strand to completion. Turn timer: `timer_` holds the pending wait with the turn
and player it was armed for; `ExpireTimer` moves it to the strand, after which a
cancel comes too late, as in Asio. `turn_ID_` is read off the strand, so a command
may carry the previous one. `turn_claimed_` has no initialiser: both values are
initial states. The board is reduced to the tanks each player has placed and still
has; a command may fail, do nothing to others, or destroy one tank. A clock is
reduced to whose time it holds. A call of a callback that was reset is
`status = "thrown"`: no thread catches it, so nothing happens afterwards. A tank
written outside a player's list is `"overrun"`.

### MatchMaker

The casual strategies differ in the group size only, so they are one queue
indexed by mode. `enqueue()` is two steps (`EnqueueCheck`, `Enqueue`): it looks at
two maps that `global_strand_` changes. `remove_session` runs late and cancels by
user. Matches are reduced to who is in them; `playing` are those who have not
forfeited.

### RankedStrategy

`try_form_match` goes over the buckets from the highest index down; `cursor` is
the bucket it is at, and each bucket is one action (pairs within it, a neighbour
for a lone player, or nothing). Times and ratings are small integers, the bucket
arithmetic is the code's. `entered` orders the entries of a bucket.

### Session

`self` again is the object. `reading`, `writing` and `farewell` are the operations
under way; `abort_io` is what cancelling or closing the socket does to them. Other
threads only post, except `close_session`, whose test and store of `live_` are two
steps. `farewell` is the message that is written past the queue before the session
closes itself (a bad header, a ping timeout).

### MatchRecorder

`stage` says where each thread is: a thread of the pool per result, and the one
that runs `Server::shutdown`. SQL transactions read what is committed, hold the
rows they write until they end, and are aborted in a deadlock.
`try_finish_shutdown` is six steps, because two threads may run it and nothing
protects the callback; moving a `std::function` reads it and then clears it.

### KeyedExecutor

An entry of the map is named by the job that made it. The handler's end is split
at the point where the count is zero and the entry not yet erased (`Release`,
`Erase`).

### Users

A request is a record that travels: from the connection's strand to the pool
(`pool`, a set: its threads take handlers in any order) when a name has to be looked
up, else directly to the strand of one of the two users it is about
(`uuid_strands_`); from there to the server's strand (logins, bans) or directly to
the UserManager's (friends and blocks). A job that tests and then commits, or
commits and then posts, is several steps (`stage`). A statement may throw. The
UserManager's handlers are operators on its two maps and the sessions. `ghost`
records the overlaps that the code does not guard against, so that the properties
can name them: `raced` pairs of users, `late` logins, `missed` matches.

### GameInstance and Replay

A game is a record: the occupant of every cell, the tanks, how many each player has
placed. Positions are `uint8_t` and wrap; a shell is the sequence of cells it
crosses; a ray is the sequence of cells it looks at, computed in integers (slopes in
sixths, squares instead of roots) where the code uses floats, with the code's
rounding of halves. `Replay` plays a match with the commands of `Orders`, lets
players leave (which is not among the recorded moves), hands the moves to the
client, and steps through them. `boards` and `trail` remember what the match and the
replay looked like after each move: they are history, and what the properties
compare with.

### Client

One action is what one thread does under its locks. `session[i]` is a ClientSession:
its stage (resolving, connecting, handshake, up, closed), the messages on the
`wire`, those `posted` to its strand, and the requests in `out`. `strand` holds what
was posted to `client_strand_`. `change_state` stores the state; the callback that
follows is a step of its own (`Tell`), and the page changes when the GUI thread gets
to it (`ShowScreen`). The server answers requests in order and brings news; a message
whose conversion fails is `Malformed`. When a thread waits for a mutex it holds
(`hung`), nothing more is modelled.

## 3. Runs

| Run | Asks | Bounds |
|---|---|---|
| `match_two` | stalls, throws, placing, claimed turns, and that the match ends (`NoStall`, `ThrowsOnlyWhenOver`, `FullRosterFits`, `ClaimedTurnIsClosed`, `MatchEnds`) | 2 players, 1 tank each, 2 commands per turn, queue of 2, commands in turns 0-4, 1 reconnection, a shutdown: every handler meets every other |
| `match_three` | roster, ranking, refinement of `MatchOutcome` (`RosterConsistent`, `PublishedRanking`, `ImplementsOutcome`) | 3 players: several leave in one step, eliminated players are skipped, a match goes on after a departure |
| `matchmaker` | no missed match, entries of the maps belong to the user's own match (`NoMissedMatch`, `MappedToOwnMatch`) | 2 users, one with a second connection that replaces the first, 5 requests, 2 matches: enough to queue again after a match, a cancel or a reconnection |
| `matchmaker_modes` | full matches of different users, and that nobody is locked out (`FullMatches`, `QueuedUsersAreQueued`) | queues of 2 and 3, 6 requests, cancels naming either mode, forfeits; connections stay |
| `ranked` | iterators, maximal ticks, two players in reach meet (`LookupMatchesBuckets`, `TickIsMaximal`, `PairsMeet`) | 3 users, ratings below, inside and above the range, 3 buckets, window up to 2 |
| `session` | read loop, write loop, removal of a lost peer (`ReadLoop`, `WriteLoop`, `LostPeerIsRemoved`) | backlog 2, one outside closer, one outside message; the peer may send for ever |
| `recorder` | ratings, the UserManager's copy, orderly stop, completion (`RatingsAddUp`, `ManagerKnowsRatings`, `StopsWhenAllAreDone`, `ShutdownCompletes`) | 2 ranked matches of the same two players with sides swapped, so that rows can deadlock; failures; ratings start at the floor |
| `keyed` | order, leaks, every job runs (`SerialUnlessReused`, `NoLeak`, `EveryJobRuns`) | 2 keys, 6 jobs |
| `users` | banned users are out, sessions known, caches and tables, data dropped, players rejoin (`BannedAreOut`, `SessionsAreKnown`, `CachesMatchTables`, `DataIsDropped`, `PlayersRejoin`) | 2 users, 3 connections from 2 addresses, 2 matches, 3 requests or outside events from several starting points (strangers, friends, a pending request, a match forfeited by all): two requests that race and a third that shows what they left |
| `replay` | board, fog of war, sight against fire, replay against match, back against forward (`BoardConsistent`, `FogOfWar`, `SeesTarget`, `ReplayShowsMatch`, `BackUndoesForward`) | 3 players on a 5 by 3 board with mountains and grass, 2 tanks each in the roster, 4 moves after the placements, two of the players may leave: a tank is hit, destroyed and driven over, a turn ends, and a player is skipped |
| `client` | page, lists and button against the server, popups, exit (`ScreenFollowsServer`, `ListsFollowServer`, `ButtonFollowsServer`, `PopupsAreShown`, `ExitCompletes`) | 2 connections, 2 clicks and a shutdown, 1 unasked message, 1 mode, 1 other user; started fresh, or logged in idle, queued or in a match, so that each race is within reach of two clicks |
| `match_timeout` | *violation* (`TimeoutHitsItsPlayer`) | as `match_two`, wider |

Symmetry is used in `matchmaker_modes` only (users with one connection are
swapped together with their sessions; no temporal property is checked there).
The bounds named `Max...` appear as guards and limit how often the surroundings
act, never what the modelled code does; in `Session`, timers that a handler sets
on a closed session are visible but not followed. `replay`, `users` and `client` may
stop (no move, request or click has to happen), so deadlock is not checked there;
their properties speak of the moments at which nothing is under way, or of every
state.

Fairness. The `io_context` and pool threads run whatever is ready: weak fairness
on handlers and thread steps. A timer that is not cancelled expires. In `Session`
a peer that receives gets what is sent. Nothing is assumed of clients: no command,
message, match end or shutdown has to happen. In `RankedStrategy` ticks and time go
on (the tick timer re-arms itself).

### Where the code departs from what it says

One run shows a violation:

* `match_timeout`: a timeout handler that is already queued when its player
  forfeits eliminates the next player (`match-instance.cpp:574` reads
  `current_player` when it runs).

These statements of the code's comments and README are written down beside the
properties; TLC refutes each within a minute when it takes the place of the
properties in the `.cfg` named:

* `OneMatchPerUser` (`MatchMaker.cfg`): a match made between the two lookups of
  `enqueue()` lets a user into two matches (`match-maker.cpp:60`; `src/README.md:383`).
* `Serialized` (`KeyedExecutor.cfg`): a post between `fetch_sub` and `erase` leads to
  two strands for one user (`keyed-executor.h:74`; `src/README.md:373`).
* `ExitsOnceDone` (`MatchRecorder.cfg`): a result that was handed over but not counted
  yet does not hold back the shutdown, and is lost (`database.cpp:191-193`).
* `BlockedSendNoRequests` (`Users.cfg`, as a PROPERTY): `do_send_friend_request`
  asks whether the sender has blocked the receiver; the comment at
  `database.cpp:1368` says the opposite.
* `ViewBringsGameBack` (`Client.cfg`): "Change to playing if necessary"
  (`client.cpp:1396`) calls `change_state` with `state_mutex_` held, which
  `change_state` takes. A view that arrives while a replay is open stops the client.
* `ExitsWhenNotConnected` (`Client.cfg`): "If not connected, we do not need to wait and
  can just exit" (`client.cpp:828`), but a session that is still connecting, or has
  failed, counts as connected, is not live, and never reports.
* `OccupantIsOnGrid` (`Replay.cfg`): eliminating a player clears the cells of their
  wrecks too, also one that a living tank has driven onto since
  (`match-instance.cpp:616`; `grid-cell.h:27`).
* `StateOfNextMove` (`Replay.cfg`): stepping back from the first move of the play phase
  shows the setup one move early.

The models contain further ones, which the passing properties delimit:

* Handlers that are still queued when a match concludes or shuts down call reset
  callbacks (`ThrowsOnlyWhenOver`: only those do).
* After an elimination in Setup a player can place more tanks than the map has
  (`FullRosterFits`: only then).
* A command handled between a departure and the turn it posted is charged to the
  clock of the player who left, and is accepted from a player who is out.
* A dead session in a group leaves the players behind it marked as queued
  (`QueuedUsersAreQueued` holds while connections stay); the results of a match
  unmap a user who forfeited it and is playing another.
* Overlapping recordings of one player lose a rating change (`RatingsAddUp` holds
  for the others); a failed write is never counted as ended, so a shutdown waits
  for it (`ShutdownCompletes` excepts it); two threads in `try_finish_shutdown`
  may both call back (`StopsWhenAllAreDone` excepts it).
* A ping handler that is queued when a session is closed sets its timers again.
* In `Users`, the exceptions the properties make are the code's: a login that arrives
  after its connection has gone leaves a user behind (`user-manager.cpp:86`), a
  connection can log in twice, a match that starts just after its player was dropped is
  not known to the UserManager, the end of one match resets another
  (`user-manager.cpp:148`), lists read by a login are overtaken, a login goes on with
  empty lists after an error, accepting a friend is reported before it is committed,
  and an unblock can overtake a block. Lifting an expired ban of an address also
  lifts a new one, and a console ban of an address is not in `bans_`; the history
  flag goes down before a result is recorded.
* In `Replay`, the client's shells hit the own side and the server's do not; leaving
  is not recorded; a repair gives back full health (`ReplayShowsMatch` and
  `BackUndoesForward` except these). Two living tanks can come to share a cell, and
  a player's own may then hide the other from view (`SeesTarget` excepts it).
* In `Client`: a page that is not the state, when two threads are in `change_state`
  (`client.h:163`); a lobby without a connection, after a late message; two sessions
  at once, after two clicks on connect; a queue button that a refused second request
  resets while the first is held or its refusal or match is on its way, or that a lost
  connection leaves down (or a request puts down that was on the strand when it was
  lost); an answered friend request that a list on its way, or a block lifted again,
  brings back; a second answer to one request, taken for a later one's; a connect timer that
  cancels an established connection; a request written on an unconnected session,
  after which nothing is ever written.
* A ranked player is taken from a bucket that could have made a match itself, and
  the odd player of a bucket that formed pairs is not given the search of its
  neighbours, although `match-strategy.h:198` describes both otherwise. The
  comment at `match-strategy.h:234` says the window grows every 30 seconds; the
  constant is 15.

## 4. Proofs

All proofs hold for every value of the constants that satisfies the modules'
assumptions, without the bounds' help. A theorem that needs more says so in its
`ASSUME`. Each module proves its type invariant as `TypeCorrect`; the other theorems
and what carries them are these.

* `MatchInstanceProofs`. A step runs nested member functions, so each invariant is
  stated of an object and every member function gets a lemma.
  `RosterCorrect`, `RankingCorrect`: the ranking also needs that a result was published
  only together with the reset of the callbacks, so that no second one can follow.
  `NoThrowInPlay`: timers belong to turns already opened, none waits once the match
  is concluded, and the callbacks are set unless it is over or shut down.
  `MatchImplementsOutcome`: the refinement of `MatchOutcome`, one lemma per member
  function about what the rest of the server sees change.
  `GameLoopLives` (`NoStall`): the property is nearly inductive; what a handler may
  leave behind in the middle (a turn closed and the next not yet posted) is stated
  separately and discharged at its end.
  `NoOverrun` (`FullRosterFits`): while nobody has left, Setup goes round by round,
  so the tanks placed differ by at most one between players.
  `ClaimClosesTurn` is an action property: of the handlers that may find a claimed turn,
  each returns with the game as it was.
* `RankedStrategyProofs`: `IndexInRange`, `LookupCorrect`, `TicksAreMaximal`. A tick is
  many steps, so its maximality is an invariant about the buckets the cursor has passed:
  each holds at most one player, and one left in a bucket without pairs had nobody in the
  window. Later buckets only take players away, which keeps it.
* `MatchMakerProofs`: `DequeAndLookupAgree`, `NoMatchIsMissed`, `MatchesAreFull`,
  `RoutedToOwnMatch`. A deque holds different users, those of its lookup set, and fewer
  than a match; the groups on the way to `make_match` hold exactly as many, all
  different; an entry of `uuid_to_match_` belongs to a match whose results are not yet
  taken. `NobodyIsLockedOut` assumes that no connection is lost (`~MayClose`, as its run
  does; with losses the code does lock users out). It follows the last request of a user
  on a strategy's strand: if that is to enqueue it will be done, and if there is none
  the user is queued or in a group that is ahead.
* `SessionProofs`: `ReadLoopLives`, `WriteLoopLives`. The argument counts: operations
  under way and completions on the strand add up to at most one, and only a member
  function that starts an operation, or the handler of its completion, changes the sum.
* `MatchRecorderProofs`: `StopIsComplete`, `ManagerCatchesUp`, `TypeCorrect`,
  `HistoryExplainsRatings`. Where a
  result is on its way; `pending_writes_` as the number of threads between its two
  changes; the row a transaction has written is held until it ends, so that the last
  rating told about a player is the last one committed. `StopIsComplete` and
  `TypeCorrect` assume `SHUTDOWN_COMPONENTS_COUNT = 3`, its value in `server.h:28`: the
  three parts that count themselves done are the three of the code.
  `HistoryExplainsRatings` (`RatingsAddUp`): a transaction that is about to update the
  player of one recording holds the rating that is in the table, no two such share a
  player, and a match enters the history once. The sum is a fold over a set, so the
  module first proves, by the least counterexample in the size of the set, that a total
  exists, does not depend on the order, and grows by what is added.
* `UsersProofs`: `ConnectionsAreCurrent`, `BannedUsersLeave`, `NothingIsKept`,
  `PlayersAreLedBack`, `CachesAreTrue`. A session's user and the UserManager's maps agree up to what is
  still on its way; a banned user who is still known has the ban on the way (committed
  and not yet posted, on the server's strand, or as a removal of the session), because
  logins and bans of a user share a strand; data without a connection or a live match has
  a removal or a match's end coming; the last start on the way to a player is that of the
  match being played. `UsersAssumption` asks of the starting points that connected users
  have accounts and are not banned.
  `CachesAreTrue` (`CachesMatchTables`): for a pair of which nothing overlapped (`InStep`)
  at most one change is in progress, none while a login of the user carries its lists,
  and those lists are the tables'; otherwise what the UserManager will hold
  after handling its queue is what the tables hold, corrected by the change that has
  committed and not told, or told and not committed.
  `ExecutorTypes`, `SerialExecution` and `NothingLeaks` are about `KeyedExecutor`, which
  this module extends too, for any set of keys. As long as no entry of a key was reused
  the map names its only entry, whose strand holds exactly the unfinished jobs of the key
  in ascending order. For the leak, an entry's count is the number of its unfinished jobs
  also where it was reused.
* `ClientProofs`: `WaitingPopupsAreShown` needs only the types of the popup queues,
  and that steps change them in four ways. `LeavingGetsOut` (`ExitCompletes`): until the
  program is told to end, the shutdown, the close of a session or the report of a
  closed one is on its way. That needs the invariant that a session which is closed
  and has not been reported has its report on the client's strand.
  `ScreenIsTrue`, `ButtonIsTrue` and `ListsAreTrue` share a picture of the network
  (`Net`): while the user neither leaves nor connects twice, only the session in use is
  open or has a report on the strand. Of that session each says what the client
  will show when the messages on their way are handled: the page (`Told`: who is about
  to tell the page of the state; `Page`: the state the last match message leads to), the
  button (`Held`: the one request on its way, or the refusal or match start coming back,
  explains a button that differs from the server), and each list about each user
  (`Synced`: the last message about the user decides).
* `ReplayProofs`: `BoardIsTrue`, `FoliageHides`, `TargetIsSeen`, `ReplayIsTrue`,
  `BackIsExact`. What each operator of `GameInstance` does is first stated as a relation
  between the board before and the board after (`Adds`, `Moves`, `Strikes`, `Alike`),
  and three grades of order are shown to survive it: `Fit` (listed tanks belong to the
  player and stand on open ground), `Sound` (an occupant is a living tank standing
  there), `Full` (a living tank is the occupant). The inductive invariant is
  `MatchInv /\ ReplayInv`. `MatchInv`: the board is sound, and full but for the cells of
  wrecks of players who left (`Covered`: this is `BoardConsistent`, made inductive by
  knowing whose wrecks they are); until somebody leaves, every recorded board
  follows from the one before by the recorded command, and so do the turns (`Recorded`);
  placements come first, each on a cell of the player that no other placement has taken
  (`Sites`). `ReplayInv`: the replay's tank lists are those of the recorded board
  (`ReplayTypes`), the boards of the trail are sound and full and each follows from
  the one before by `Forward`, with the outcome `move_status_` holds (`Trailed`), and what
  is shown is the recorded board up to the first friendly hit or elimination (`Shows`). The undo lemmas (`UndoMove`,
  `UndoTurn`, `UndoFire`, `UndoPlace`) are about any full board. A board that was restored
  inexactly keeps only `Fit`, which is all that `TargetIsSeen` needs: while a shell stays
  on the board its 8-bit coordinates have not wrapped, and the middle ray of an
  orthogonal view looks at the same cells; that of a diagonal view advances by half a
  cell's width and rounds, and reaches the first, second and third cell of the shell's
  path with its 2nd, 5th and 8th look, having looked before only at the tank's own cell
  and at earlier cells of the path. `ReplayAssumption` asks that tanks fit in a byte
  (`NumPlayers * NumTanks <= 255`), that placements are placements and orders are not;
  whether the tank and the position a command names make sense is left to the
  code's own checks.

Only model-checked:

* liveness (`MatchEnds`, `PairsMeet`, `LostPeerIsRemoved`, `ShutdownCompletes`,
  `EveryJobRuns`), which is out of the prover's reach;
* `StateOfNextMove` and the other statements of section 3, which do not hold.

## 5. Not modelled

* `MatchMaker`: the tick timer and the choice of a map; it still makes matches after
  its shutdown. In `MatchRecorder` the set of matches is fixed.
* `Session`: the token bucket. `ClientSession`: answers to pings.
* `Server`, `Database`, `UserManager`: requests that only read (lists, replays), the
  relay of direct and match messages, the notice of a friend request, the limit on
  the number of sessions. A user has at most one ban.
* `GameInstance`: reading map files; a map is a constant.
* Replay manager: a map the client cannot read (every later step is refused).
* Client: texts, match data, history and replays handed through to the models, and
  the Qt models themselves.
* Serialisation of messages; the amount of a rating change (floating point); file and
  terminal I/O; TLS.

## 6. Plan

1. A composition of MatchMaker and MatchInstance through their abstract
   specifications.
2. The relay of messages through the UserManager, with blocks, as an extension of
   `Users`.
