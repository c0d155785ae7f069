# Branchout: a specification

Branchout is a party-game platform. A host opens a room, players join it from their phones, and a
shared screen shows the game. This directory holds TLA+ modules of the parts whose correctness
depends on order or on rules: the game engine's session, the reports that become money, the
connections, the worker threads, the rooms, the accounts and the admin console, every game, and the
screens the games are played on. TLC checks them on small instances; TLAPS proves some of the
results for every instance.

`PROJECT.json` names, for each definition, the source lines it stands for.

## 1. The system

| component | state it keeps | operations | talks to |
|---|---|---|---|
| **Game engine session** (`apps/game-engine/src/engine.ts`, `session.ts`, `scheduler.ts`) | one `SessionState` per room and game, a JSON blob in Redis; timers and simulation loops in memory | start, restart, pause, unpause, advance, exit, join, disconnect, move, vote; timer callbacks; ticks of a live game | workers, Redis, pub/sub, control plane |
| **Report outbox and billing** (`engine.ts`, `reporter.ts`; `rooms/service.ts`, `credits/ledger.ts`) | `pendingReports`, `reportedRounds`, `completeReported` in the session; `room_rounds`, `room_games`, `game_plays`, `credit_ledger` in Postgres | queue, flush, retry; record a round, debit, record a game, record plays | HTTP between the two services |
| **Connections and presence** (`socket.ts`, `pubsub.ts`, `apps/web/lib/game-client.ts`) | a socket per device, its binding, its two listeners; `connected`, `paused`, `hostPaused` of the session | connect, join, close, reconnect, publish | the engine's operations |
| **Game workers** (`worker/*.ts`) | one thread per session, its pending calls, the cap | ensure, call, dispose, fail; the thread's messages | the engine's operations |
| **Rooms** (`control-plane/src/rooms/*`, `routes/rooms.ts`) | seats and bars in Redis, status and selected game in Postgres | join, mode, palette, kick, poll; select, start, restart, exit | the engine over HTTP |
| **Accounts, sessions, rate limits** (`control-plane/src/accounts`, `sessions`, `ratelimit`, `routes/auth.ts`) | rows behind two unique indexes; session keys and counters that expire | sign up, log in, log out, join by a name, change a profile, delete; count and block | the account, log-in, sign-up and join pages |
| **Admin console** (`control-plane/src/admin`, `routes/admin.ts`, `apps/admin`) | admin rows, their sessions, the root admin of the environment | log in, search, toggle, delete, add an admin; seed at boot | operators' browsers |
| **Question and story games** (`packages/games/{trivia,liar-liar,zinger,odd-bird,same-branch,sketchy,lone-leaf}`, the SDK's stub and decider) | the round's scratch, a value inside the session | configure, start round, collect, reveal, vote, decide, score | called by the worker |
| **Live games** (`packages/games/{reversi,checkers,chess,teeter-tower,nightleaf,brambles,whispergrove}`) | the same, and what a tick does to it | configure, submit, tick | called by the worker |
| **Screens** (`apps/web/lib/game-state.ts`, `apps/web/lib/games/*`) | a snapshot folded from frames; what was tapped, what was sent | fold a frame; tap, submit, vote | the socket client |
| Web pages, newsletter, feedback, deployment | what a page shows | rendering; calls to outside services | both services |

What is hard about each, and what makes it right:

- *Session.* The engine chains the operations of one session on a promise, so an operation is
  atomic for the others, but a timer is armed by one operation and runs as another, long after a
  pause, a resume, a restart or an exit. Deadlines are stored; what is to fire at them is not. Right
  means: a pause really holds, the table always gets the answer time it was promised, no callback
  closes a phase it was not armed for, and every step is one the round's life allows.
- *Reports.* A round is money. The report may be lost, answered late, repeated, or served while its
  caller has given up, and either process may die between any two statements. Right means: charged
  once, never before it was scored, never forgotten while the session lives.
- *Presence.* A device drops and returns; its old socket may outlive its new one, and a close may
  arrive during any await of a join. Right means: nothing published is missed, and `connected` ends
  up telling the truth, because rounds close early on the strength of it.
- *Workers.* Threads crash, stop answering, and are replaced by others that number their calls from
  one again. Right means: a call ends, with its own worker's answer, and takes nobody else with it.
- *Rooms.* No transaction spans Redis, Postgres and the engine, or two statements of one of them.
  Right means: a barred session stays out, an id stays with its seat, and the room's status and the
  engine do not drift apart. The host's page sees all this through polls, answers to its taps and a
  token it fetches for the game, which cross in any order. Right means: it does not fall back to a room
  it was told is past, and the token it holds opens the game it shows.
- *Accounts.* Requests of several tabs share one cookie and end in any order; an account may be
  deleted, and its tag taken, between any two statements of a log-in; a counter and its expiry are
  two commands. Right means: a browser is whom it proved to be, what was ended stays ended, and
  every lock opens.
- *Games.* A round is assembled from answers that may be replaced, refused, or left behind by a player
  who dropped, under deadlines that may fall anywhere. Right means: the table can always close the
  round, a bank never runs dry, options tell apart, and points are a function of what was done.
  A live game has rules of its own: a side that cannot move, a castling right, a chain of jumps, a
  banner over an empty table.
- *Screens.* Every controller remembers what it sent by its own flags, while frames, rejections,
  reconnects and restarts arrive in any order. Right means: no player is locked out of a round that
  waits for them, "locked in" is true, a reload paints what the others see, and a secret stays with
  those it is for.

## 2. Modules

| module | models | composed with |
|---|---|---|
| `RoundLifecycle` | what a session promises, without timers, devices or workers | implemented by `GameEngine` |
| `GameEngine` | one session: phases, pause and reconnect, timers, the live loop, crashes, operations that reject part way | |
| `Billing` | what billing promises a host | implemented by `Reporting` |
| `Reporting` | the outbox, the HTTP report, the intake and the ledger of one room | engine and control plane together |
| `Presence` | client sockets, the socket server, pub/sub listeners and the engine's join and disconnect | client, server and engine together |
| `WorkerManager` | the manager, its calls, and the threads as seen from outside; its proofs | manager and threads together |
| `Rooms` | the room service's requests, each a sequence of reads and writes | control plane, Redis, Postgres and the engine's sessions together |
| `RoomPages` | the host's room page: polls, taps, the token of the game, lost answers, reloads | extends `Rooms`; page, control plane and engine's sessions together |
| `Accounts` | the routes of sign-in, statement by statement, and the pages that call them | browsers, control plane, Postgres and Redis together |
| `Console` | the admin console beside them | extends `Accounts`; its `Next` is that of both |
| `GameOptions` | a game's settings (proofs in `LiveGames_proof`): the host's panels, what the page lets through to Start, and each game's `validateConfig` | pure; its drafts are what `MCRoundGames` takes its tables' rounds from |
| `RoundContext`, `Boards` | what a game module is handed and hands back; square boards and seats | |
| `Trivia`, `LiarLiar`, `Zinger`, `OddBird`, `SameBranch`, `Sketchy`, `LoneLeaf` | a question or story game: its callbacks, then what its screens keep and offer | |
| `StubGame`, `DeciderGame` | the two games of the SDK, by which the engine's tests are driven | |
| `RoundGames` | the engine's round loop over whichever of these nine the session names | engine and game together |
| `GameScreen` | what a device folds its frames into | |
| `Remotes` | one player's device at a table of `RoundGames`, and the line between them | engine, game and screen together |
| `Reversi`, `Checkers`, `Chess`, `TeeterTower`, `Nightleaf`, `Brambles`, `Whispergrove` | a live game: its rules and ticks, then its screens | |
| `LiveGames` | submissions and frames over whichever of these seven the session names | engine and game together |
| `LiveScreens` | the same, played through every player's screen | extends `LiveGames` |
| `GameEngine_proof`, `Reporting_proof`, `Presence_proof`, `Rooms_proof`, `Console_proof`, `RoundGames_proof`, `LiveGames_proof` | the proofs | each extends the module it is about |
| `MC...` | instances for TLC: tables, banks, positions, and the repertoires that keep products apart | |

Definitions named `X_Something`, marked "mutant", are broken variants of `X`: the plausible slip
each property is meant to notice. No specification uses them.

### GameEngine

`GameEngine.run()` serialises a session, so one operation is one action, and the timers it arms are
values in `timers`: each remembers the phase, round and run it was armed for, and `RunTimer` applies
the fire-time guard of `fireWindow`, `armMoveWindow` and `armAutoAdvance`. `windowTimer` is the one
handle that can be cancelled; `FireWindow` is the moment it no longer can. `simTimer` is the live
game's interval. The code stores absolute deadlines and uses only `deadline - clock`, clipped at
zero; the model stores that difference and `Tick` lowers it, so no clock needs a bound. `None` is
the code's `undefined`. A game module is what the constants and `Advanced` leave open: which phase
its reveal opens, whether it ends early, whether it rejects a move.

Where an operation saves the session and where it does not is kept: `Unpause` saves before it arms
the window, so the stored deadline stays absent and the time left stays stored, and a host who returns
to a table somebody else resumed arms the window anew with it; `AdvanceFails` loses what was not
saved and keeps what was already done to the timers.

`owed` is what the phase in play still owes the table, and nothing but the clock lowers it. `lapses`
names what has gone wrong in the phase, until the next is entered, so that a property can say where
the code does not keep its promise: `cut`, a returning host cut a window short with a stale time;
`untimed`, a fault may have left a countdown without its timer; `unnoticed`, a table became complete
where nothing looked. `NoEarlyClose` and `CountdownsAreBacked` name them as their exceptions, and
section 6 lists each as a defect.

### Reporting

The engine holds a session's lock across the awaits of a flush, so `op` is the operation in progress
with its working copy of the session; only its last step saves it. The control plane serves a
request in a `handler` of its own, a statement at a time, and a handler whose caller gave up works
on. Ids are those of the code, `room:game:run:round`; which start of the game a report belongs to is
recorded beside it and is in no id, which is what the claim of section 6 is about.

### Presence

`handleJoin` awaits two subscriptions and the engine; `join[s]` says how far it got, and `Close` may
happen at each. `queue` is the engine's chain of joins and drops. Since frames reach a device in
order, a device is either `fresh`, or has `frames` on their way, or has missed one. Every save goes
with a publish, before it or after it, and either may reject: a join and a pause are saved first
(`SavedUnpublished`), the other operations publish first (`PublishedUnsaved`). After that what a
listening device shows is not what is stored; `missed` collects these devices, until the next frame,
and is the one exception of `NoFrameMissed`.

`astray` collects the players whose stored presence is known to be wrong: the drop of an old
connection was served after the join of a new one, a connection joined that had closed while it
subscribed, a join was saved and then refused, the process ended, or a new handoff marked everybody
away. A player leaves it with the next join or drop of theirs. `PresenceSettles` is about everybody
else: it says that overlaps, early closes and faults of one player's connections never touch another's
presence, and that each mistake ends with the next join or drop that is served in order.

### WorkerManager

The manager runs on the engine's event loop, so each of its reactions is one action; `inbox` and
`outbox` are the messages between it and a thread. Time is left out: an armed timer may fire at any
moment. A thread that hangs is one that takes no further step.

### Rooms

A request is served in steps, one per await, and up to `MaxInFlight` requests from different lanes
interleave. `crossed` and `adrift` remember that requests collided, so that each property can say how
far the code's guarantees reach. `crossed` is a set of sessions: the damage of two requests about one
seat must stay with that seat. A room is `adrift` once a start broke off between the handoff and the
status, two of the host's selects, starts and exits crossed, or a game was selected beside one still
there, and no longer when the engine has no game of it and none of these requests is being served
(`Clear`): what an exit leaves behind is a room whose next start is played by those it counts.

`RoomPages` puts one host's page (`RoomClient.tsx`) in front of the lane `Mine`: what that lane asks is
what the page's buttons ask, one tap at a time, and nothing else. `page.view` is what the page shows,
`kept` the membership it remembers beside it, `stored` what a reload finds. An effect of the page that
runs again ignores what it asked for before (its `active` flag), so `Repolls` and `Rendered` drop the
polls and the token in flight where the effects' dependencies change. What the page does with an
answer is one step, since React commits a state and runs its effects before the next message. `fresh`
and `since` are histories: the rooms there have been since the last act the page was told is done, and
since the one it waits to hear of. The expiry of a token is left out (the page renews it in time), and
so are a guest's page, the palette and kick buttons, and the share sheet.

### Accounts and Console

A tab has at most one `request`; it is served in steps, one for each statement or command that
another request can fall between, and ends `answered`, after which the answer reaches its page or is
lost. A tab sends the `cookie` of its device, as it is when the request is made; the answer may
change it, in the order answers arrive. `sessions`, `adminSessions` and `counters` hold the ticks their
keys have left. `maker` remembers who made each account, `gone` which were deleted. `Dies` is a crash
of the control plane, which answers nothing it was serving; `Reboot` is the boot after it, with
whatever root password the environment now holds. A password is the person who chose it, since no
route changes one; an operator's password is a value of its own.

### Games

A game of rounds is a set of operators over a context `[round, phase, present, scratch]`, one for each
callback of the module, and `RoundGames` is `advanceLocked` driving them: a phase may be closed at any
moment (a timer or the host), and at once when the module says that everyone has acted. `Next` has the
engine's five advances and the messages of the players; `GameEngine` has the timers in full. A draw
from a bank is a set of outcomes. Texts are members of small sets, told apart as the matchers tell
them apart: an answer of Trivia is "right", "wrong" or "blank", a clue of Brambles is clean or touches
the card.

`GameOptions` has no state of its own: a draft is a record, `EditsOf` the drafts that one press or one
typed value of a panel makes of it, `Accepts` the `validateConfig` of the page and `Takes` that of the
game, two pieces of code with lists and ranges of their own. A number field holds a sequence: empty
(NaN on the page, null when sent, the default to the game), a whole number, or two numbers for one
between them. The size of a bank against the rounds, and who may be on a team, are looked at by
`configure` itself and belong to the modules of the games. The definitions from `Picks` to `Filled` are
those the theorems need and stand for no code.

A live game has one open phase; `SubmitMove` and `SimTick` are the only ways to change it. The
rigid-body solver of Teeter Tower is external: a step may leave the scene at rest at any height, or in
motion, and may cull pieces that fell.

### Screens

After the rules of each game comes what its screens do with it: `Prompt`, `Private`, `RevealFrame` and
`ResultFrame` are what the engine publishes and to whom, `Controls` what the controller offers,
`Tapped` what it remembers of a tap, `Painted` what the viewer shows. `Remotes` follows the device
`me` of one player at a table whose other players do what they like; `mail` is the one message on its
way. `excused` says that since the round began something happened after which the code does let the
device be wrong: a message dropped by a closed socket, lost with it, ignored as stale or while the
game is paused, or a vote that was not counted; a refusal that a reconnect forgot or that a later
move outlived; or a restart that opened a round with the number of the one before. `NobodyLockedOut`
and `LockedInMeansHeld` leave such a round out, up to a reload, and say so; what goes wrong in it is in
section 6, and no property bounds it.

`LiveScreens` gives every player a screen: a tap sends nothing or a move, `Publish` is a tick whose
frame reaches every screen. Boards and the tower keep what was tapped; hands and groves keep nothing
and are judged on the state itself. `Stuck` and `LeftOpen` name the two states of section 6 from which
a screen offers no way on.

## 3. What the runs check

| run | instance | distinct states | shows |
|---|---|---|---|
| `engine_timed` | two players, two rounds, every window timed but a guess's (the leaderboard's longer than the disputes'), guess and dispute reveals, one restart, fair timers | 725,421 | no interleaving of players, host, drops and late timers breaks a pause, shortens an answer round or closes a phase early (but a window that a returning host cut short); an answer round closes if the host finally leaves the table unpaused |
| `engine_live` | a live game started three times, crash and worker faults | 4,532 | the world of a live game runs whenever it should and never while paused |
| `engine_faults` | one round, answer windows chosen by the round, a timed guess, crash, worker and Redis faults | 1,371,048 | the lifecycle survives operations that reject part way; whatever arms timers next gives every countdown and every complete table its timer back |
| `reporting` | two rounds, one restart, any two faults | 56,890 | a round is charged once and only after it was scored; nothing is forgotten; an operation ends |
| `presence` | host, player, viewer; two connections; every hazard | 291,892 | no frame is missed but by an operation that broke off, presence settles again after each mistake, a present host is not waited for |
| `workers` | two sessions, a cap of one or two, three threads | 585,398 | replies are a call's own; failures are contained; calls end |
| `rooms` | a host with two tabs and a screen, a guest, two games, two faults; the host's page | 794,141 | seats, bars and the status, through interleaved requests, lapses, engine failures and crashes, and again after an exit; what the page shows of them |
| `round_games` | each of nine games, three players (four for a sweep), two drops | 4,278,163 | the table can close every phase, banks last, options tell apart, points add up |
| `live_games` | each of seven games through its screens; small boards, two positions of checkers and three of chess, two levels | 68,787 | positions are sound, moves account for the pieces, somebody can always go on, and from the screen they have; what a screen offers is accepted; frames carry a game on |
| `remotes` | one device in each of seven games; a drop, a reload or restart | 2,136,711 | nobody is locked out and "locked in" is true, in rounds in which nothing was lost; catching up is complete and secrets are kept, always |
| `accounts` | two people on three devices, two operators; seven repertoires | 288,434 | whom a browser is signed in to, what deletion and logging out end, and that locks open |
| `claim_second_game` | | | the disagreement of section 6 |

### Properties

- `PausedMeansFrozen`, `AnswerTimeKept`, `NoEarlyClose`, `LiveWorldRuns`, `AnswerRoundCloses`, and, under
  faults, `CountdownsAreBacked` and `PlaysTheLifecycle`, the refinement of `RoundLifecycle`.
- `ReportedIsBilled`, `NothingForgotten`, `OperationsEnd`, and `ChargesOnce`, the refinement of
  `Billing`.
- `NoFrameMissed`, `PresenceSettles`, `NobodyWaitsForAPresentHost`.
- `OwnReply`, `FailureIsContained`, `CallsEnd`.
- `KickedStayOut`, `SeatKept`, `PlayedByThoseCounted`, `ExitEndsInTheLobby`; of the host's page
  `OwnActsStick` and `TokenFits`.
- `OwnAccount`, `DeletedIsGone`, `EndedForGood` (both session stores), `LocksOpen`.
- `TableCanClose`, `BankLasts`, `OptionsTellApart`, `PointsAddUp`.
- `PositionsSound`, `TurnCanBeTaken`, `OffersAreGood`, `PiecesAccountedFor`, `ClockRunsOut`.
- `NobodyLockedOut`, `LockedInMeansHeld`, `CatchUpIsComplete`, `SecretsKept`.

### Bounds, and why they are enough

- *Windows of one or two ticks* separate a timer that is due from one that is not and leave a pause
  in the middle of a window; longer ones repeat this. That they differ matters: the time left of one
  phase's window may re-base another's, which windows of one length hide. `Grace` is no longer than a
  window. A guess is timed in `engine_faults` and waits for its players or the host in `engine_timed`,
  where disputes and votes are timed: what enters, freezes and arms a window is the same code for all.
- *Two rounds and two runs* give a timer of an earlier round, and of an earlier run with the same
  round number. *Two players*, one of them the host, give "everybody has answered" a member that can
  leave. *`MaxTimers`* bounds how many callbacks people may leave pending; it holds back people, never
  the clock or a due callback.
- *Two faults* let a retry fail as well, and a crash follow a lost reply; with `MaxGames` 1 the ids of
  a room's reports are unique, and `claim_second_game` lifts that bound.
- *Two connections* are two devices, or one that reconnects while its old socket is open.
- *Three threads for two sessions* let a session's thread be replaced while another session's works
  on; two calls give each thread an id its predecessor used as well.
- *Two requests in flight* in `rooms` are what a race needs. Each behaviour draws its requests from one
  of four `Repertoires`, to keep their product apart: seats; orchestration; the host's page beside a tab
  that exits; the page alone with one mishap, a fault, a lost answer or a reload. One poll in flight
  (`MaxLoads`) is enough: a page drops all of them at once or none. `SYMMETRY` permutes
  the palettes; no liveness is checked there.
- *`accounts`*: a behaviour has one of seven repertoires, which say how often each tab may use each page
  and each console each duty, two at most; there is no other bound on how they interleave. `LoginMax` 1
  makes the first failure a lock, `LoginMaxPerIp` 2 makes the address's counter a different one. Keys
  live one tick, so that a session may lapse under any request. One fault, a crash or a lost answer, in
  five of the repertoires; none in the two where a deletion races a purge or a freed tag, which are the
  widest.
- *`round_games`*: three players, four in Zinger, whose clean sweep takes them. One round where a round
  looks back at nothing but the bank, two where the second must not repeat the first or the subject
  goes round; banks that are just large enough. Two drops.
- *Settings*: TLC evaluates the `ASSUME`s of `MCRoundGames`, every pair of edits of every default with
  values at and past the edges of the ranges (`MCTyped`), and that the rounds of the instance are some
  that a host can set up.
- *`remotes`*: the seven games; two players in Trivia, Liar Liar and Sketchy, whose rounds treat
  everyone alike, three where one of the table has a part of their own. One drop (of any player), and
  one reload or restart; the device of Ann, the subject of a round in some rounds and not in others.
- *`live_games`*: a board of 4 in Reversi and 6 in Checkers (one row of men), which pass within six
  and four moves; Checkers also from two positions with chains to choose between and a man crowned in
  the middle of one; chess on its own board from three positions in which castling with a
  rook under attack, a double step beside a pawn, a promotion and a mate are next, for two moves and an
  answer; three pieces of a tower of two levels; five leaves, two tiers; three cards; seven leaves of a
  grove. One restart. One submission changes a drawn game between two frames, which come twenty-five
  times a second. Lengths of banners, sprints and beats are two or three ticks.
- Deadlock is not checked: a finished game, a closed room and an exhausted bound may all stop.

### Fairness

`engine_timed`: weak fairness of the clock, of a due handle and of a due callback. Node's event loop
runs due timers, and a session's chain is always drained; nothing is assumed of players or host. The
pauses end by assumption (`<>[]~paused`) in the property, not in the specification.
`reporting`: the engine's continuation of an awaited call, and the control plane's service of a
request it has; hosts need not act. The reporter's `fetch` has no timeout, so this presumes that a
control plane which accepted a request answers or loses the connection.
`workers`: delivery of events, resumption of awaits, and armed timers; nothing is assumed of threads,
and the call timeout is what makes `CallsEnd` true.
`live_games`: weak fairness of the tick, an interval of the engine (`startSimLoop`). Nothing is assumed
of players, so `ClockRunsOut` speaks of what frames alone bring about.
`accounts`: Redis's clock, and that *some* request is served, some answer delivered or some locked form
sent again while there is one. Nobody in particular has to act, and faults are finite.
`presence`, `rooms`, `round_games` and `remotes` check safety only.

## 4. What is proved

Eight modules hold the proofs. Each theorem holds for every value of the constants and is proved from
the assumptions named in the module it is about. TLC checks the properties of the same names in the runs; `TypeOK` is proved only.

`GameEngine_proof`, for every roster, game kind, choice of windows, number of rounds and runs, and
every set of faults:

- **`TypeCorrect`**: `Spec => []TypeOK`. `TypeOK` is inductive. The lemmas on session transformers
  (`EnterType`, `FreezeType`, `ResumeMoveType`, ..., `AdvancedType`) say that each returns a session;
  `ArmedType` and `ResumeTimersType` say that what is armed for a session is a timer. The step that
  needs care is a resumed answer round: `ResumeMoveType` also shows that its deadline is a number, or
  the timer armed with it would not be one.
- **`AnswerTimeIsKept`**: `Spec => []AnswerTimeKept`. The property is not inductive: a host whose
  return finds the table unpaused is given a fresh window (`Default(moveRemaining, moveWindow)`).
  `Grants` adds the two facts that make this harmless, that a round never owes more than its window
  and that an unpaused round has no frozen time left for a later resume to bring back.
- **`PauseHolds`**: `Spec => []PausedMeansFrozen`, if no worker fails under an operation: one that dies
  under the host's return does leave a timer behind (section 6, operations that reject).
  `PauseInv` adds that a round's deadline belongs to the answer phase and to no live game (`Clean`),
  so that freezing the one window a phase has freezes all of them, and that only a live game has a
  loop (`OnlyLiveLoops`), so that a join can start no other.
- **`EngineImplementsLifecycle`**: `Spec => PlaysTheLifecycle`, the refinement of `RoundLifecycle` under
  the mapping of `GameEngine`, faults included. `RefineInv` adds `OnlyLiveLoops` and that a live game
  never reviews a round (`NoReviews`). One lemma per action says which step of the lifecycle it is; a
  timer that fires late, and an operation that rejects, leave it alone.
- **`LiveWorldsAreStepped`**: `Spec => []LiveWorldRuns`, every fault included. `LiveInv` adds who may
  set `worldIdle`, so that a loop is missing only where the engine died or a worker did.
- **`CountdownsEnd`**: `Spec => []CountdownsAreBacked`, every fault included: a deadline that is shown has
  a timer that ends it in time, and a table that everybody answered, or in which everybody decided, has
  its grace timer. The exceptions are the lapses of section 2: a fault that took the timers (`untimed`)
  and a completion nobody noticed (`unnoticed`), until something arms timers again. `CountInv` says it of
  the three things apart (`Backed` of the deadlines, `GraceBacked` of the grace timer), and that a
  paused table has no deadline, since a timer set while the table is held would be the wrong one.
- **`NothingClosesEarly`**: `[]NoEarlyClose` for a game that is started once, in which no operation
  rejects part way; crashes are included. A late callback knows the phase, the round and the run it
  was armed in, and no game enters the same three twice (`NoneAhead`, `Unstarted`), so it is either for
  a phase left behind or for this one, and then it was armed with at least what is still owed
  (`FiredIsDue`, `WindowOwes`, `Timed`). Both hypotheses are needed: a second start begins again at run
  1 and round 1, and an advance that rejects leaves the timer of a phase it did not enter; section 6
  has both. What is owed is never lowered but by the clock. The theorem does not cover the window that a
  returning host cut short with a stale time (`cut`; section 6): `Owing` is what the invariant says of
  it, and there it is nothing.

`Reporting_proof`, for any number of rounds, runs, games and faults, and any balance:

- **`DeliveredIsBilled`**: `Spec => []ReportedIsBilled`. The invariant `OutboxInv` follows a report
  through the requests: an operation waits for one request at most, the one for the head of its
  outbox (`Asking`); a request of a round that is done has its debit in the ledger, and so has every
  round its operation counts as delivered (`Billed`).
- **`OutboxForgetsNothing`**: `Spec => []NothingForgotten`. `Remembered` says it of the working copy as
  well, of which only the last step of an operation is saved: each finished round is delivered, kept
  for later, or still to be sent. `Games` keeps the rounds of one start of the game from standing for
  those of another, whose ids they share.
- **`LedgerImplementsBilling`**: `Spec => ChargesOnce`, the refinement of `Billing`. `AllSound` says that
  no report of a round that was not scored is in an outbox or on its way; the debit's key does the rest.
- `FlushKeeps`, `HandlerKeeps`, `BeginKeeps` and `SaveKeeps` are the four kinds of step the invariant has
  to survive; each action is shown to be one of them.

`WorkerManager`, which holds its own proofs, for any number of sessions, threads and calls:

- **`RepliesAreOwn`**: `Spec => []OwnReply`, and **`FailuresAreContained`**: `Spec => FailureIsContained`.
  The invariant adds the shape of the manager's tables and that a call in progress is in some worker's
  hands (`Held`). That a replaced worker numbers its calls from one again does no harm, since a reply
  is looked up among the calls of the thread it came from.

`Presence_proof`, for any roster, host, viewers, number of connections and choice of faults:

- **`FramesArrive`**: `Spec => []NoFrameMissed`, and **`PresentHostHoldsNobody`**:
  `Spec => []NobodyWaitsForAPresentHost`. `PresenceInv` adds that a connection bound, or about to be,
  listens already (`Subscribed`), and that a pause nobody made by hand is the one the host's drop set
  (`HeldForTheHost`). The first leaves out the devices that listened to an operation that broke off
  between its save and its frame (`missed`), until the next frame.
- **`PresenceIsSettled`**: `Spec => []PresenceSettles`, for every player that is not `astray` (section 2),
  whatever happened to the connections of the others. The property speaks of the moment the queue holds
  nothing of a player, so the invariant has to say what the queue means before: a leave waits for a
  closed connection, a join for one that awaits the engine and is bound, or has its leave behind it, and
  each connection joins once (`QueueSound`). `Counted` then ties the stored session to the sockets: who
  is attended counts as connected, and who counts as connected is attended or has a leave still
  waiting. The step that needs care is a join that is served for a connection already closed
  (`RunJoinOrders`): its leave is behind it in the queue, unless it closed before it was bound, which is
  what `astray` remembers.

`Rooms_proof`, for any sessions, lanes, games, palettes, limits, repertoires and faults:

- **`TheKickedStayOut`**: `Spec => []KickedStayOut`, and **`IdsStayWithTheirSeats`**: `Spec => SeatKept`.
  `SeatInv` ties what a request has read of a seat to the seat as it is: they differ only if another
  request, a lapse or a kick came between, which `crossed` remembers (`CrossingsRemembered`), and two
  lanes in flight with the same seat are a crossing from the start (`TwoAreMany`).
- **`TheCountedPlay`**: `Spec => []PlayedByThoseCounted`, and **`ExitsEndInTheLobby`**:
  `Spec => ExitEndsInTheLobby`. `RoomInv` says that with one hand on the room the status a request
  read is the status there is, that only the selected game has a session that is on, and that the
  lobby has none; `adrift` remembers when two hands, a failure or a pick beside a game broke that, and
  the property is about the rooms that are not. Once nothing of the room is left in the engine and no
  hand is at work, the invariant holds again whatever was before (`ClearIsFresh`).

The same module, for `RoomPages`, any game shown first, and any number of polls and mishaps:

- **`OwnActsLast`**: `SpecPages => []OwnActsStick`. Once the page was told that its pick, start or exit
  is done, it never shows the room of before. The invariant says of everything that can still reach
  the page, a poll on its way, what it kept and what it stored, that it is a room there has been since
  (`PageKept`), and the same of the answer it waits for and the time since that was served (`TapKept`).
  The polls that were on their way are the danger, and that an act runs the effect again is what
  drops them: the mutant that lets them go on breaks the property.
- **`PagesServeTheRoom`**: `SpecPages => Spec`. Whatever a page does is something the rooms of `Rooms`
  allow, so that what is proved of `Rooms` holds beside every page.
- **`TokensFit`**: `SpecPages => []TokenFits`. While a page alone steers its room and nothing was lost,
  the host keeps the seat it was given with the room (`OwnerSits`), and only the request of the tap in
  hand moves the room (`TapInHand`). So the rooms the page may still be shown are of one status, and
  those that run are of the game there is (`OneStatus`), until a start or an exit is served, after
  which the page is told and forgets them. A page therefore goes from one game to another through
  the lobby, where it drops the token and the fetch (`PageHeld`).

`Console_proof`, for `Accounts` and `Console` together, any people, devices, tabs, operators, limits,
lifetimes and faults:

- **`SignedInToOwnAccount`**: `Spec => []OwnAccount`, and **`DeletedStaysGone`**: `Spec => []DeletedIsGone`.
  `AccountsInv` says of each place an account or a key may be in (a cookie, a request, an answer, a tab's
  page, a session) that it is of the person whose device it is, and that what a request had to forget
  when it began is gone still (`before \subseteq gone`). There is one lemma for each kind of step of a
  request, so that the routes that share a step share its proof.
- **`EndedStaysEnded`**: `Spec => EndedForGood`. A key is drawn once (`OnlyTheNextIsOpened`), in both
  session stores, so that what is deleted or has lapsed cannot be written again.

`RoundGames_proof`, for any tables, configurations and texts, and any finite banks whose entries are
rated by integers (`RoundGamesAssumption`; the banks are JSON files of the repository; it also says of the
two test games that no player is called `nobody` or `truth`, and that a table of the decider game has as
many `Fakes` to choose from as players). Its invariants
say of each game what the last round left, since only the start of a round draws (`StepsOfBanks`: a
reveal, a move, a vote and a score leave bank, plan and number of rounds as they were):

- **`QuestionsLast`**: `Spec => []BankLasts`. Where a round is a prompt (`CountedInv`), as many are spent
  as rounds were begun, and the configuration refused more rounds than prompts. Trivia counts its bank
  by the kinds of questions and plans its rounds by their types (`TriviaInv`): an open round takes a
  question without choices while there is one, so the questions with choices are spent as the
  multiple-choice rounds went, or nothing without choices is left (`Counts`) and any recall question
  left has choices. It also needs that a plan has as many rounds of each type as its composition says
  (`PlanCounts`), that is, that the slots the open rounds are spread over are all different
  (`SlotsDiffer`). In Sketchy the `k`-th draw round deals at most the `k`-th hand (`DealtOut`), and a hand
  can be dealt from as many seeds as seats (`DealtOneEach`). The draw of the nearest difficulty never
  comes back empty (`NearestIsThere`, `InBandIsThere`).
- **`OptionsStayApart`**: `Spec => []OptionsTellApart`. `ApartInv` says it of the texts before they are
  shown (`Distinct`): a submission that is the truth or taken is refused, one player at a time, in
  whatever order they come; and of the options, that they were written before the reveal, because
  nothing is written while they are guessed.

- **`TablesCanAlwaysClose`**: `Spec => []TableCanClose`, in all nine games. `TableSound` says what the fields
  of a scratch range over and, while the table guesses, that there is something to pick (`Offered`).
  `After` folds over the seats: the fold is taken apart into a trail of scratches, one for each seat
  (`TurnByTurn`), and an induction along the seats (`Upward`, over a set of seats, no operator) carries what
  holds so far to the last. While the table writes, everyone who is awaited gets a text that nobody wrote and that no
  other is to write (`SpareTexts`, `TextsLeft`); on the way the texts held are those of before and those chosen
  (`SaidSoFar`), so that none is refused as taken and each one's word counts (`WordCounts`). While it guesses, each picks
  the truth, an author, a roost or a bird that is not their own, in games that show it to all
  (`GuessesOnOffer`, `GuessCounts`). A text that is already there is never lost on the way, so that the
  players who are not connected do not matter. There must be as many texts as players (anyone may type anything);
  the run of `MCRoundGames` makes do with fewer, since the player whose sketch is guessed at writes none.

- **`PointsAlwaysAddUp`**: `Spec => []PointsAddUp`, in all nine games. `PaidInv` says who may have voted, and for
  what (`Entered`: only a wrong answer to an open question is disputed, the player whose sketch is featured is neither
  guesser nor option, nobody guesses their own story), and what the reveal has paid by then (`PaidByReveal`: a right
  answer, and nothing to those who guess later). A sum over the seats is taken apart by the same trail as
  `After` (`TurnByTurn`, `SumByTurn`); along it, each seat adds what its player is paid for, so that every guess is
  counted at one seat and no other (`GuessesPaid`), and a flush adds at one seat alone (`OnePaid`, `WinnerPaid`). The
  decider pays an author by text: that the texts are apart (`ApartInv`) makes it one author a guess.
  It assumes that a roster names somebody and nobody twice (the control plane hands over the members of a room).

The same module, for the device of one player in any of the seven games with screens (`Remotes`), any
owner, table and number of reloads and restarts:

- **`SecretsStayKept`**: `SpecRemote => []SecretsKept`, and **`CatchUpStaysComplete`**:
  `SpecRemote => []CatchUpIsComplete`. Both follow from one invariant (`ScreenInv`) that says what a
  connected device holds, whatever it went through: the phase, the prompt and the secret of the table
  as it is now, and the reveals of the round, all of them or, if it came late, the last
  (`DeviceInv`). What is not obvious is that nothing of the round before survives on it, and that no
  move and no vote alters what its prompt and secret were made of (`MoveTells`, `VoteTells`: the
  fields `Told`), for these are not sent again. `RevealInv` says which frames a phase may have: no
  game shows its result before the guesses are in (`Closing`, `Result`). A viewer looks for the latest
  frame of a kind, so that a device with both frames of a round and one with the last alone paint
  the same (`LastFits`, `ResultPainted`).
- **`LockedInStaysHeld`**: `SpecRemote => []LockedInMeansHeld`, and **`NobodyStaysLockedOut`**:
  `SpecRemote => []NobodyLockedOut`. These speak of a device with nothing on the line; the invariant has to
  follow a message from the tap on. `LockInv` says what the flags of a device mean of the engine's scratch at every
  moment (`FlagsMean`): what it remembers to have sent is held, or refused, or still on the line and then
  something the round still takes; a vote it remembers is counted or on the line; and a flag is of this
  round or an earlier one, so that a round that opens out of its sight takes the flags with it when the device
  comes back (`OpeningStep`, `ComingsStep`). `excused` is the property's history: the step lemmas show
  that nothing else makes a flag untrue; what it stands for, lost and ignored messages, forgotten refusals
  and restarts under the same number, is left out of both. A message of the others leaves it alone, except that anyone may call the
  flush of Odd Bird (`HeldByOthers`, `VotedStays`). `SeatsInv` adds what the fields of a scratch range over, that no
  text held is the truth (or the guess could not be told from one's own), and that there is something to pick
  while the table guesses (`Offered`); `FrameInv` that the frame it is picked from is the one last sent.
  Then a player who is awaited can end the wait, game by game (`CanAnswer`, `CanGuess`): a lie that
  nobody else wrote is there because there are more texts than players (`SpareText`), and the truth is always on
  offer, to everybody, even to one whose own text is hidden. The assumptions (`RemotesAssumption`): a player is neither
  null nor the option `truth` (ids are drawn by the control plane), a text is not null, the texts of
  `Fakes` and `Decoys` are not the truth nor blank and no fewer than the players (anyone may type anything), and the
  dial of Same Branch has a position (a range input from 0 to 100).

`LiveGames_proof`, for the seven live games played through their screens (`LiveScreens`), any seats, any
bank of cards, any tower and any sound opening:

- **`PositionsAreSound`**: `ScreensSpec => []PositionsSound`. A tap sends at most one message of the screen,
  and anybody may send any other, so that the invariant (`LiveGamesSound`) says nothing of the screens: it is
  about the scratch, and there is one lemma for each way a game's module may change it. Per game:
  - *Chess* (`ChessSound`). Every pseudo-move is described once (`Goes`), and so is the board it leaves
    (`Leaves`: which squares change, where the rook goes, which pawn is passed); the four facts of a sound
    position then need no further look at the rules. No king is taken (`NoKingIsTaken`), because a square a
    piece can capture on is attacked (`LinesAttack`, `PawnsAttack`) and the side that moved last is out of
    check; a right is dropped by whatever leaves or enters its king's or rook's square (`RightsAfter`); the
    target of a leap is empty with the pawn before it (`LeapsAfter`). `ResolvedEnds` gives the reasons of an end.
  - *Checkers* (`DraughtsSound`). A chain is built hop by hop (`ChainsAreBuilt`), stays on dark squares and is
    where its path ends (`HopsGoOn`, `JumpsLand`), and that square decides
    about the crown.
  - *Nightleaf* (`NightleafSound`). Buds are counted against the leaves that were played while somebody held
    a lower one (`TooSoon`): a leaf that lands spoils itself at most, and not if it was the lowest
    (`LeafLands`); leaves that go by a hush spoil nothing (`FewerHeld`).
  - *Reversi, Brambles, Whispergrove and Teeter Tower* (`ReversiSound`, `BramblesSound`, `GroveSound`,
    `TeeterSound`): the passed turn is one without a move; the points are no more than the cards drawn but
    the one in hand; a grove has won when its last leaf shows; a scene between two levels holds no piece.

- **`OffersStayGood`**: `ScreensSpec => []OffersAreGood`. What is offered is computed from the frame, and is
  sure only while the frame is the position. That it is then taken is a lemma per game about the rules alone:
  a disc, a man and a chess move change the board or the turn (`DiscsLand`, `DraughtsLand`, `TurnsPass`), a
  leaf and a tap on a grove are recorded (`LeavesLand`, `TapsLand`). The dialog of chess needs an invariant of the screens
  (`ScreensSound`): it outlives frames, so `Dialog` says that each of its choices is in the list of the frame
  that is shown, or that a restart left it open (then `LeftOpen` excuses what it offers). A frame in which
  the same side is to move again must bring the same list. It does because a screen is `Behind` only by a
  move, which passes the turn or ends the game, or by a restart; and a pawn on the last rank has all four
  promotions listed or none (`PromotionsTogether`, `ListedTogether`: what the pawn becomes does not change
  who attacks the king, `SameAttacks`).

- **`TurnsCanBeTaken`**: `ScreensSpec => []TurnCanBeTaken`. What lets a game go on is an invariant of its own
  (`GoesOn`, in `ScreensGoOn`): at a board whose game is not over the side to move has a move, because the turn
  is passed or the game ended otherwise (`ReversiGoesOn`, `DraughtsGoOn`, `ChessGoesOn`); a tier that is played
  is played with a leaf in some hand, and a banner counts down (`NightleafGoesOn`, `BannersGoOn`); a sprint's
  clock runs (`BramblesGoOn`). The second half is about the screens: from whatever a device keeps, a
  piece selected or not, a dialog open or left open by a restart, an aim taken or not, at most three taps send
  such a move (`ReversiCarriesOn`, `DraughtsCarryOn`, `ChessCarriesOn`, `TowerCarriesOn`), and
  it is taken by the lemmas of `OffersStayGood`. In a grove the side to move always hides a leaf and has both a
  whisperer and somebody to tap (`GrovesAreManned`), which is why four must be seated. The tower's two dead ends
  (`Stuck`) are the property's own exception.

  The openings are constants, and `OpeningsAssumption` asks of them what the code's own have, a sound position
  whose side to move has a move: `ChessStarts` and `WhiteOpens` prove it of `StartingPosition`, `DraughtsStart`
  and `DraughtsStartGoesOn` of `StartingBoard`; of Reversi it only asks for a board of four squares a side or
  more, and `ReversiStarts` finds violet's first disc. `SeatsAssumption` says that two play the
  board games and are called as their sides are, and that as many play the others as their manifests ask for at
  least (four in a grove). `BanksAssumption` says that no card is called `none`, that tiers have leaves and
  buds, and that a banner's ticks are a number; `TowerAssumption` that levels, goals and ticks are numbers.

The same module holds the proofs about `GameOptions`, for whatever may be typed into a number field (`OptionsAssumption` says that a field holds
nothing, one number or one between two, and no more) and any number of edits:

- **`DraftsStaySound`**: an edit of a draft the panels can show is one they can show, so that by induction
  every draft is (`RepickedKeeps`: the chips never pass their cap, and opening them presses one).
  **`DefaultsCanStart`** is the start of that induction, and says that the default can be started.
- **`AcceptedIsTaken`**: the page's rules are no laxer than the game's, which the comments of every
  `config.ts` ask for ("mirror the engine's rules"). **`RefusedIsUnfilled`** is the converse: where they
  differ, a field is empty. Both go game by game over two lemmas about one field (`WithinIsTaken`,
  `FilledIsWithin`); Trivia's own mixes need that the sum of the counts is the same on both sides.
- **`AskedIsPlanned`**: what the page asks the control plane to check against the balance is what the game
  plans, or differs as section 6 says. **`StaleDwell`**: no single edit makes a draft good again whose dwell
  is wrong and disabled.

Only model-checked: `PiecesAccountedFor` of the live games, which counts pieces through a chain of captures and
compares the slide that is shown with the chain that was played. Liveness under fairness
(`AnswerRoundCloses`, `OperationsEnd`, `CallsEnd`, `LocksOpen`, `ClockRunsOut`) is beyond the prover.

## 5. What is not modelled, and what is abstracted

- *Absolute time and its rounding.* `windowMsFor`'s values and the clock's skew after a restart do
  not matter to what is checked.
- *Inside `GameEngine`, a game's rules*: it chooses among what any module may answer; `RoundGames` and
  `LiveGames` have the rules, with the timers left out. A module is trusted to be deterministic from its
  scratch, as the SDK asks.
- *Wording, layout and drawing*: normalisation of texts beyond what tells two apart, canvases, hints,
  move logs, countdown displays, nicknames and avatars (one value of a profile).
- *The physics of Teeter Tower*: `physics.ts` hands the scene to a rigid-body library; the model takes
  every outcome it may have.
- *The anonymous nickname, the attributes of cookies, the join token's signature*: a connection's owner
  and a request's session are given.
- *The daily grant* (a balance is a constant), tiers, stars, histories' contents, room codes.
- *The rest of the lobby, newsletter, feedback, HTTP and process wiring, brand, deployment*:
  see the component list in `PROJECT.json` for the reason of each.

## 6. Where code and documents disagree

One is a run, with a short counterexample: `claim_second_game`. `session.ts:14` and the architecture
say that report ids are unique per run; `start` begins every session at run 1, so the second game of a
room repeats the first one's ids and is neither charged nor recorded.

Others met while modelling, seen with TLC or on reading, on which no run is spent:

*The session and its timers*

- *Stale `hostPaused`.* `control('pause')` leaves `hostPaused` as the last drop set it: drop, unpause,
  pause, rejoin lifts a deliberate pause, which `session.ts:107` excludes. With the table unpaused the
  same reconnect gives the answer round a fresh window (spec 0017 speaks of the remaining time); it
  never costs the table time, which `AnswerTimeIsKept` proves.
- *A late close.* The close of an old socket handled after the join of a new one disconnects the host who
  is back (spec 0014). An unhandled rejection of `engine.disconnect` ends the process, and with it
  the other rooms (spec 0045).
- *The stale time of a window.* Resuming a window saves the session before it forgets the time that was
  left (`engine.ts:474-487`), and entering the next phase does not clear it. A guess window paused
  once thus leaves its time in the session, and pausing and resuming the leaderboard after it arms a
  timer with that time even if its window is 0 and it waits for the host (`engine.ts:485`, `:1023`,
  spec 0074); Zinger, Liar Liar and Odd Bird have such phases. A host whose drop paused the table, and
  who comes back after somebody else resumed it, cuts the dwell down to the same time, though
  `engine.ts:278` promises the time its own drop froze; if that was nothing the leaderboard has no timer.
  `NoEarlyClose` names this window as its exception (`cut`) and does not show its absence. A dwell that is paused twice starts over (spec 0068). A window
  frozen at exactly 0 ms is not armed again.
- *No timer after a restart.* A restarted engine has a stored deadline and nothing to fire it, until an
  answer, a resume or the host's return arms it again (`untimed`); nor is a
  live game's loop started again by a reconnect, only by the host's controls. Players stored as
  connected stay so, until their next join or drop (`astray`).
- *A complete table nobody notices* (`unnoticed`). Rejoining a table that everybody else has left, with
  one's answer given, arms no grace timer (spec 0017). Nor does a drop from a guess that the others have
  finished: `engine.ts:441` speaks of a close "once every connected player has guessed", but a drop
  checks answers only (`engine.ts:371`). The window, the next message or the host closes the phase.
- *A save without its frame.* When Redis takes the save of a join or a pause and not its publish
  (`engine.ts:288-290`, `:473-474`), or the publish of another operation and not its save, the devices
  show a state that is not the stored one until the next frame.
- *A second game with the first one's ids* may also be closed by an auto-advance armed in the first,
  if both were in round 1.
- *A control on a finished session* takes the runtime before it looks at the phase, which starts a
  worker that nothing disposes of. A running game whose worker crashed passes the cap again.
- *Operations that reject* leave the timer of a phase that was not entered; `NoEarlyClose` is
  therefore checked without faults, and proved for crashes only.

*Money, rooms, accounts*

- *The ledger may go negative*: a restart plays on without asking for the balance (`ledger.ts` speaks
  of starts only). An exit reports the game and flushes no rounds that still wait. A live game never
  finalises a round and is free. A crash between the record of a game and its players' histories
  loses the histories.
- *Player limits and palettes.* `join` and `setMode` read, then write; two of them may fill one seat, or
  take one palette. `start` asks for the minimum only, so a smaller game selected later is played by
  too many.
- *Selecting another game while one runs* orphans the running session: an exit then addresses one that
  does not exist, is told 404 and returns to the lobby; a later start of the orphan resumes it with
  its old roster. Two tabs of a host that start and exit at once can end the same way.
- *A host without a seat* is given one by a poll; two polls, or a poll and a join, may mint two ids, and
  the device may keep the one that was overwritten. Members whose seat lapsed during a game get no
  entry in their history.
- *The room page.* What the host plays is read from the host's row of the member list, the first one
  (`RoomClient.tsx:178-183`): with two browsers of one account, one of them claims an id its token is
  not for, and its join is refused (`socket.ts:79-92`). A page that goes from one running game to another
  with no lobby between opens the socket of the second with the token of the first until the fetch of
  its own is answered, or 90 seconds longer if that fails; the token fetched is for the game selected
  when it was served, which another tab may have changed (`RoomClient.tsx:225-261`). `TokenFits` is
  therefore about a page that alone steers the room and of which nothing was lost. A change of mode stores the membership of the last act, so a reload shows a room older than
  the one on the screen, until the next poll. A guest's lobby keeps the game that was selected when it
  was loaded (`RoomClient.tsx:103-121`), and with it that game's settings.
- *A join that fails* leaves its socket open and unbound, and the client sends no other.
- *Logging out unheard.* `AdminNav.tsx` says that the cookie is cleared even if the call fails; it is
  httpOnly and cleared by the reply, so the operator is sent to a login page that sends them back. The
  pages of players likewise go home while the session lives.
- *Profiles of deleted accounts.* The updates of `repository.ts:202-227` do not look at the tombstone,
  though lines 66-70 say that the player's paths never load one. Two saves of one page may be answered
  out of order. An answer to `me` that clears the cookie may arrive after a log-in in another tab, and
  signs the new session out.

*Settings*

- *Rounds asked for and rounds planned.* `registry.ts:104-108` calls `roundsOf` the number of rounds that
  the config runs; Sketchy's cycles are one drawing and a guess for each player (`sketchy.ts:203`), so a
  host who can pay for the cycles may start a game of several times as many rounds. `brambles/index.ts:29`
  says that the control plane debits once per team turn; the game plans one round, and a host needs
  credit for all sprints to start it (`AskedIsPlanned`).
- *A dwell that is not in use.* Auto-advance switched off after a dwell was typed wrongly leaves a
  disabled field that holds Start in Trivia and Sketchy, and not in Lone Leaf, whose comment says why
  it should not (`StaleDwell`).
- *An empty field* is refused by the page and read as the default by the game; a list of no word
  categories likewise (`RefusedIsUnfilled`).

*Games*

- *Brambles.* A prick is answered with the next card and a rejection at once; the engine drops the
  scratch of a rejected move (`engine.ts:397-399`), so the prick of `docs/specs/0061-brambles.md:61`
  never happens, except that the clue is refused.
- *Votes of those who left.* Zinger's sweep (`zinger.ts:249-299`) and Trivia's majority
  (`trivia.ts:808-811`) count ballots of departed players against the number present.
- *Small ones.* A blank guess of Same Branch is recorded as 0; a Sketchy player who never drew is still
  guessed; a leaf of Lone Leaf that names the seed by an alias survives; a grove of Whispergrove waits
  for a whisperer who dropped; `stub-game.ts:34` says that the last secret repeats, and the game ends
  after it; a tower of sixty pieces is a dead end.

*Screens*

- *Teeter Tower's latch.* `dropped` is set by a tap and cleared by another piece, so a drop that is
  refused or lost, or a restart that begins with the same piece, leaves the player unable to drop until
  a reload (`Stuck`).
- *Chess's dialog* is cleared when the turn is not ours; a restart gives the turn to the same side,
  and the promotion of the old game stays open (`LeftOpen`), though the comment says "or the board
  resets under us". Two chains of Checkers with the same ends are one tap: only the first can be sent.
- *Flags by round number.* A restart in round 1 keeps "locked in" (in Odd Bird always); Trivia keeps the
  form locked after a refusal; `clearRejected`, of which `game-state.ts:99-100` speaks, is never called.
- *Silent loss.* `GameClient.send` drops a message while the socket is down (`game-client.ts:229`), the
  engine ignores a stale one or one to a paused table, and the controller says "Locked in" all the same,
  until the round changes or the page is reloaded. A move lost with the socket is not sent again.
- *Own fakes.* A reload forgets which lie or decoy was one's own and offers it again; a refused lie that
  is the truth hides the truth (`liar-liar/Remote.tsx:109`).
- *Catching up.* A device that rejoins Trivia after a vote has lost the round's reveal; Same Branch shows
  "Get ready" during a dispute.

## 7. Plan

1. Done: every module of section 2, the runs of section 3, the theorems of section 4.
2. Next: a guest's room page, beside the host's of `RoomPages`; the
   daily grant across midnight beside debits; the refresh of the newsletter's token.
3. Compositions: `GameEngine` over `WorkerManager` (an operation's calls are the worker's), `Rooms` over
   `RoundLifecycle` (its `engine` variable is the lifecycle's stage), `RoundGames` as the `Advanced` of
   `GameEngine`.
4. Proofs: `PiecesAccountedFor`, of which the invariant of `PositionsAreSound` is the first half.
