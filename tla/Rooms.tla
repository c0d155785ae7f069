-------------------------------- MODULE Rooms --------------------------------
(***************************************************************************)
(* A room of the control plane: who sits in it and what it has asked of    *)
(* the engine (rooms/service.ts).  The seats live in Redis, the room's     *)
(* status and selected game in Postgres, the games in the engine; no       *)
(* transaction spans two of them, or two statements.                       *)
(*                                                                         *)
(* A request is served in steps, one for each await.  What a device may    *)
(* have in flight is one request per lane: a tap, a tap in another tab, a  *)
(* poll.  Beginning a request reads the room.                              *)
(***************************************************************************)
EXTENDS Integers, FiniteSets

CONSTANTS
    Sessions,       \* browser sessions
    HostSessions,   \* those signed in to the account that owns the room
    Lanes,          \* where requests come from: <<session, "tap" | "tab" | "poll">>
    Games, Palettes,
    MinPlayers, MaxPlayers, \* of each game
    Wishes,         \* the modes a guest asks for
    Repertoires,    \* bound: what each lane may ask in one behaviour
    MaxInFlight,    \* bound: the requests served at a time
    MaxIds,         \* bound: player ids minted
    MaxFaults       \* bound: the faults of one behaviour

ASSUME RoomsAssumption ==
    /\ IsFiniteSet(Sessions) /\ HostSessions \subseteq Sessions
    /\ Lanes \subseteq (Sessions \X {"tap", "tab"}) \cup (HostSessions \X {"poll"})
    /\ MinPlayers \in [Games -> Nat] /\ MaxPlayers \in [Games -> Nat]
    /\ Wishes \subseteq {"viewer", "interactive", "remote"}
    /\ {MaxInFlight, MaxIds, MaxFaults} \subseteq Nat

VARIABLES
    room,           \* rooms: status and selected_game
    seats,          \* room:<id>:members
    kicked,         \* room:<id>:kicked
    engine,         \* the engine's session of each game in this room
    serving,        \* the request in flight in each lane
    minted,         \* player ids handed out
    repertoire,     \* what each lane may ask in this one
    faults,         \* history: the faults so far
    crossed,        \* history: sessions with two requests in flight about their seat
    adrift          \* history: since the engine last had no game of the room, a start broke off,
                    \* a game was selected beside another, or two of the host's requests crossed

store   == <<room, seats, kicked, engine>>
history == <<crossed, adrift>>
vars    == <<store, serving, minted, repertoire, faults, history>>

Nobody == [player |-> 0, mode |-> "viewer", palette |-> "none"]
Idle   == [does |-> "nothing"]
Absent == [phase |-> "absent", roster |-> {}]

Init ==
    /\ room = [status |-> "lobby", game |-> "none"]
    /\ \E h \in HostSessions, p \in Palettes :                        \* createRoom
         seats = [s \in Sessions |->
                    IF s = h THEN [player |-> 1, mode |-> "interactive", palette |-> p] ELSE Nobody]
    /\ kicked = {}
    /\ engine = [g \in Games |-> Absent]
    /\ serving = [l \in Lanes |-> Idle]
    /\ minted = 1 /\ repertoire \in Repertoires /\ faults = 0
    /\ crossed = {} /\ adrift = FALSE

-----------------------------------------------------------------------------
(* Seats.                                                                  *)

Seated(row) == row.player # 0
IsPlaying(row) == Seated(row) /\ row.mode \in {"interactive", "remote"}
IsDisplay(row) == Seated(row) /\ row.mode \in {"interactive", "viewer"}

Others(s) == Sessions \ {s}
Playing(who) == {s \in who : IsPlaying(seats[s])}

\* playerLimits of a game nobody knows bounds nothing.
Full(s, game) == game \in Games /\ Cardinality(Playing(Others(s))) >= MaxPlayers[game]
ClampToMax(wish, s, game) == IF wish # "viewer" /\ Full(s, game) THEN "viewer" ELSE wish

Taken(s) == {seats[t].palette : t \in Others(s)} \ {"none"}

\* assignPaletteId: the palette held so far, or any free one, or none.
AssignPalettes(s, row) ==
    LET free == Palettes \ Taken(s)
    IN IF row.palette \in free THEN {row.palette} ELSE IF free = {} THEN {"none"} ELSE free

\* A session that is seated keeps its id.
\* Mutant: a new one on each join.
PlayerOf_Fresh(row) == minted + 1
PlayerOf(row) == IF Seated(row) THEN row.player ELSE minted + 1

-----------------------------------------------------------------------------
(* Requests.                                                               *)

By(l) == l[1]

MindsTheGame == {"join", "setMode", "start", "restart", "exit"}

Arrives(l, does, first, arg) ==
    /\ serving[l] = Idle /\ does \in repertoire[l]
    /\ Cardinality({k \in Lanes : serving[k] # Idle}) < MaxInFlight
    /\ serving' = [serving EXCEPT ![l] =
                     [does |-> does, at |-> first, arg |-> arg,
                      game |-> IF does \in MindsTheGame THEN room.game ELSE "none",
                      row |-> Nobody, roster |-> {}]]
    /\ UNCHANGED <<store, minted, faults>>

At(l, does, step) == serving[l] # Idle /\ serving[l].does = does /\ serving[l].at = step

Goes(l, step) == serving' = [serving EXCEPT ![l].at = step]
GoesWith(l, step, row) == serving' = [serving EXCEPT ![l].at = step, ![l].row = row]
Ends(l) == serving' = [serving EXCEPT ![l] = Idle]

\* Requests of any session, and of the host alone (requireHost).
Ask(l) ==
    \/ /\ l[2] # "poll"
       /\ \/ \E wish \in Wishes : Arrives(l, "join", "barred", wish) \/ Arrives(l, "setMode", "get", wish)
          \/ \E p \in Palettes : Arrives(l, "setPalette", "get", p)
          \/ /\ By(l) \in HostSessions
             /\ \/ \E s \in Others(By(l)) : Seated(seats[s]) /\ Arrives(l, "kick", "get", s)
                \/ \E g \in Games : Arrives(l, "select", "set", g)
                \/ room.game # "none" /\ Arrives(l, "start", "list", "none")
                \/ room.game # "none" /\ Arrives(l, "restart", "engine", "none")
    \/ l[2] = "poll" /\ Arrives(l, "poll", "get", "none")

AskExit(l) ==
    /\ By(l) \in HostSessions /\ l[2] # "poll"
    /\ room.game # "none" /\ Arrives(l, "exit", "engine", "none")

Put(l, row) ==
    /\ seats' = [seats EXCEPT ![By(l)] = row]
    /\ minted' = IF row.player > minted THEN row.player ELSE minted
    /\ Ends(l)
    /\ UNCHANGED <<room, kicked, engine, faults>>

Reads == UNCHANGED <<store, minted, faults>>

\* join: barred? who am I? who else? and then the seat is written.
Barred_Never(s) == FALSE                                              \* mutant
Barred(s) == s \in kicked

JoinBarred(l) ==
    /\ At(l, "join", "barred")
    /\ IF Barred(By(l)) THEN Ends(l) ELSE Goes(l, "get")
    /\ Reads

JoinGet(l) ==
    /\ At(l, "join", "get") /\ GoesWith(l, "list", seats[By(l)]) /\ Reads

JoinList(l) ==
    /\ At(l, "join", "list")
    /\ LET s == By(l)
           existing == serving[l].row
           wish == IF s \in HostSessions /\ Seated(existing) THEN existing.mode ELSE serving[l].arg
       IN /\ PlayerOf(existing) <= MaxIds
          /\ \E p \in AssignPalettes(s, existing) :
               GoesWith(l, "put", [player |-> PlayerOf(existing),
                                   mode |-> ClampToMax(wish, s, serving[l].game), palette |-> p])
    /\ Reads

WritesRow(l) ==
    /\ At(l, "join", "put") \/ At(l, "setMode", "put") \/ At(l, "setPalette", "put")
    /\ Put(l, serving[l].row)

SetModeGet(l) ==
    /\ At(l, "setMode", "get")
    /\ LET row == [seats[By(l)] EXCEPT !.mode = serving[l].arg]
       IN IF ~Seated(row) THEN Ends(l)
          ELSE GoesWith(l, IF row.mode = "viewer" THEN "put" ELSE "list", row)
    /\ Reads

SetModeList(l) ==
    /\ At(l, "setMode", "list")
    /\ IF Full(By(l), serving[l].game) THEN Ends(l) ELSE Goes(l, "put")
    /\ Reads

SetPaletteGet(l) ==
    /\ At(l, "setPalette", "get")
    /\ LET row == seats[By(l)]
       IN IF ~Seated(row) \/ row.palette = serving[l].arg THEN Ends(l)
          ELSE GoesWith(l, "list", [row EXCEPT !.palette = serving[l].arg])
    /\ Reads

SetPaletteList(l) ==
    /\ At(l, "setPalette", "list")
    /\ IF serving[l].arg \in Taken(By(l)) THEN Ends(l) ELSE Goes(l, "put")
    /\ Reads

\* view, members, resume: a host without a seat is given one, with a new id.
PollGet(l) ==
    /\ At(l, "poll", "get")
    /\ IF Seated(seats[By(l)]) THEN Ends(l) ELSE Goes(l, "put")
    /\ Reads

PollPut(l) ==
    /\ At(l, "poll", "put") /\ minted < MaxIds
    /\ Put(l, [player |-> minted + 1, mode |-> "interactive", palette |-> "none"])

\* kick: the seat is deleted first, the session barred after.
KickGet(l) ==
    /\ At(l, "kick", "get")
    /\ IF serving[l].arg \in HostSessions /\ Seated(seats[serving[l].arg]) THEN Ends(l) ELSE Goes(l, "remove")
    /\ Reads

KickRemove(l) ==
    /\ At(l, "kick", "remove")
    /\ seats' = [seats EXCEPT ![serving[l].arg] = Nobody]
    /\ Goes(l, "bar")
    /\ UNCHANGED <<room, kicked, engine, minted, faults>>

KickBar(l) ==
    /\ At(l, "kick", "bar")
    /\ kicked' = kicked \cup {serving[l].arg}
    /\ Ends(l)
    /\ UNCHANGED <<room, seats, engine, minted, faults>>

Seat(l) ==
    \/ JoinBarred(l) \/ JoinGet(l) \/ JoinList(l) \/ WritesRow(l)
    \/ SetModeGet(l) \/ SetModeList(l) \/ SetPaletteGet(l) \/ SetPaletteList(l)
    \/ PollGet(l) \/ PollPut(l) \/ KickGet(l) \/ KickRemove(l) \/ KickBar(l)

-----------------------------------------------------------------------------
(* The room and the engine.                                                *)

Live(g) == engine[g].phase = "playing"
SetStatus(status) == room' = [room EXCEPT !.status = status]

\* A game may be selected at any time; the one that runs is not looked at.
SelectSet(l) ==
    /\ At(l, "select", "set")
    /\ room' = [room EXCEPT !.game = serving[l].arg]
    /\ Ends(l)
    /\ UNCHANGED <<seats, kicked, engine, minted, faults>>

\* The gates; the balance may refuse as well.
StartList(l) ==
    /\ At(l, "start", "list")
    /\ \/ Ends(l)
       \/ /\ \E s \in Sessions : IsDisplay(seats[s])
          /\ Cardinality(Playing(Sessions)) >= MinPlayers[serving[l].game]
          /\ serving' = [serving EXCEPT ![l].at = "engine",
                            ![l].roster = Playing(Sessions)]
    /\ Reads

\* The engine's answer to a start: a game that is on goes on as it is.
Started(l) ==
    LET g == serving[l].game
    IN IF Live(g) THEN engine
       ELSE [engine EXCEPT ![g] = [phase |-> "playing", roster |-> serving[l].roster]]
Exited(l) == [engine EXCEPT ![serving[l].game] = Absent]
Restarted(l) == [engine EXCEPT ![serving[l].game].phase = "playing"]

Knows(l) == engine[serving[l].game].phase # "absent"

\* How a control that failed ends: for an exit, a 404 is as good as a success.
\* Mutants: it is an error like any other; every error is swallowed.
Swallows_Nothing(code) == FALSE
Swallows_Everything(code) == TRUE
Swallows(code) == code = 404

ExitFails(l, code) == IF Swallows(code) THEN Goes(l, "status") ELSE Ends(l)

CallEngine(l) ==
    /\ \/ At(l, "start", "engine") /\ engine' = Started(l) /\ Goes(l, "status")
       \/ At(l, "exit", "engine") /\ Knows(l) /\ engine' = Exited(l) /\ Goes(l, "status")
       \/ At(l, "exit", "engine") /\ ~Knows(l) /\ engine' = engine /\ ExitFails(l, 404)
       \/ At(l, "restart", "engine") /\ Ends(l)
          /\ engine' = IF Knows(l) THEN Restarted(l) ELSE engine
    /\ UNCHANGED <<room, seats, kicked, minted, faults>>

\* The engine is not reached or refuses, or what it answered is lost.
CallFails(l) ==
    /\ faults < MaxFaults /\ faults' = faults + 1
    /\ \/ At(l, "start", "engine") /\ Ends(l) /\ engine' \in {engine, Started(l)}
       \/ At(l, "exit", "engine") /\ ExitFails(l, 502) /\ engine' \in {engine, Exited(l)}
    /\ UNCHANGED <<room, seats, kicked, minted>>

WritesStatus(l) ==
    /\ \/ At(l, "start", "status") /\ SetStatus("running")
       \/ At(l, "exit", "status") /\ SetStatus("lobby")
    /\ Ends(l)
    /\ UNCHANGED <<seats, kicked, engine, minted, faults>>

Orchestrate(l) == SelectSet(l) \/ StartList(l) \/ CallEngine(l) \/ WritesStatus(l)

-----------------------------------------------------------------------------
(* The rest of the world.                                                  *)

Quiet == \A l \in Lanes : serving[l] = Idle

\* The game ends; its session lapses an hour later.
GameEnds ==
    /\ \E g \in Games : Live(g) /\ engine' = [engine EXCEPT ![g].phase = "complete"]
    /\ UNCHANGED <<room, seats, kicked, serving, minted, faults>>

SessionLapses ==
    /\ \E g \in Games : engine[g].phase = "complete" /\ engine' = [engine EXCEPT ![g] = Absent]
    /\ UNCHANGED <<room, seats, kicked, serving, minted, faults>>

\* Twelve hours without a write: seats and bars lapse together.
SeatsLapse ==
    /\ Quiet /\ faults < MaxFaults /\ faults' = faults + 1
    /\ seats' = [s \in Sessions |-> Nobody] /\ kicked' = {}
    /\ UNCHANGED <<room, engine, serving, minted>>

Crash ==
    /\ ~Quiet /\ faults < MaxFaults /\ faults' = faults + 1
    /\ serving' = [l \in Lanes |-> Idle]
    /\ UNCHANGED <<store, minted>>

-----------------------------------------------------------------------------
(* What the properties remember of a behaviour.                            *)

Doing(does) == {l \in Lanes : serving[l].does \in does}
Touching(s) ==
    {l \in Doing({"join", "setMode", "setPalette", "poll"}) : By(l) = s} \cup
    {l \in Doing({"kick"}) : serving[l].arg = s}

Colliding == {s \in Sessions : Cardinality(Touching(s)) > 1}

\* A start that does not run to its end; two hands on the room at once; a pick beside
\* a game that is still there.  No hand, and no game there: a new beginning.
BreaksOff == \E l \in Lanes : serving[l].does = "start" /\ serving[l].at # "list" /\ faults' > faults
Hands == {"select", "start", "exit"}
Crowded == Cardinality(Doing(Hands)) > 1
Switches == room'.game # room.game /\ \E g \in Games : engine[g].phase # "absent"
Clear == Doing(Hands) = {} /\ \A g \in Games : engine[g].phase = "absent"

Remember ==
    /\ repertoire' = repertoire
    /\ crossed' = crossed \cup Colliding'
    /\ adrift' = (~Clear' /\ (adrift \/ BreaksOff \/ Crowded' \/ Switches))

Step ==
    \/ \E l \in Lanes : Ask(l) \/ AskExit(l) \/ Seat(l) \/ Orchestrate(l) \/ CallFails(l)
    \/ GameEnds \/ SessionLapses \/ SeatsLapse \/ Crash

Next == Step /\ Remember
Spec == Init /\ [][Next]_vars

-----------------------------------------------------------------------------
(* Properties.                                                             *)

\* service.ts:262-271 and membership.redis.ts:76-80: a session that was barred holds no
\* seat, unless a request about its own seat crossed another, the kick say.
KickedStayOut == \A s \in kicked : Seated(seats[s]) => s \in crossed

\* service.ts:276-278, 294: the id by which the engine's roster knows a player stays
\* with the seat, unless two requests about the seat crossed; nobody else's may.
SeatKept ==
    [][\A s \in Sessions :
         Seated(seats[s]) /\ Seated(seats'[s]) /\ s \notin crossed' =>
             seats'[s].player = seats[s].player]_vars

\* service.ts:383-438 and engine.ts:159-163: a game started from the lobby is played by
\* those the gates counted, not by the table of an earlier game that is still on.  The
\* exception is a room adrift: a start broke off (a crash or a lost answer between the
\* handoff and the status), another request of the host's crossed a select, start or
\* exit, or a game was selected beside one that is still there.  It lasts until the engine
\* has no game of the room again, as after an exit.
PlayedByThoseCounted ==
    \A l \in Lanes :
        At(l, "start", "status") /\ room.status = "lobby" /\ ~adrift =>
            engine[serving[l].game].roster \in {{}, serving[l].roster}

\* service.ts:451-456: an exit ends in the lobby whatever became of the game; only an
\* engine that could not be asked, or a crash, leaves the room as it was.
ExitEndsInTheLobby ==
    [][\A l \in Lanes :
         serving[l].does = "exit" /\ serving'[l] = Idle /\ faults' = faults =>
             room'.status = "lobby"]_vars
===============================================================================
