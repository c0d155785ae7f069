------------------------------- MODULE RoomPages -------------------------------
(***************************************************************************)
(* The room page of a host (RoomClient.tsx) over the room of Rooms.        *)
(*                                                                         *)
(* The page shows the room as it last heard of it: from the polls it sends *)
(* every three seconds and from the answers to its own taps, which come in *)
(* any order.  What an effect of the page has asked for is ignored once    *)
(* the effect runs again (its `active` flag): such requests leave `loads`  *)
(* and `page.fetch` at once.  The taps are the requests of the lane Mine,  *)
(* one at a time; the host's other tab and its screen are other lanes.     *)
(* What the page does with an answer, the effects included, is one step.   *)
(***************************************************************************)
EXTENDS Rooms

CONSTANTS
    Owner,          \* whose page it is
    DefaultGame,    \* DEFAULT_GAME_ID
    MaxLoads,       \* bound: polls in flight
    MaxMishaps      \* bound: the faults, lost answers and reloads of one page

Mine == <<Owner, "tap">>

ASSUME PagesAssumption ==
    /\ Owner \in HostSessions /\ Mine \in Lanes /\ DefaultGame \in Games
    /\ MaxLoads \in Nat \ {0} /\ MaxMishaps \in Nat

VARIABLES
    page,           \* what the page holds
    loads,          \* its polls in flight that it still listens to
    tap,            \* what it was told to do and has not heard of
    mishaps,        \* lost answers and reloads so far
    fresh,          \* history: the room since the act the page last heard of was served
    since           \* history: the room since the act in `tap` was served

pages   == <<page, loads, tap, mishaps>>
allVars == <<vars, pages, fresh, since>>

\* A token expires after two minutes; the page renews it before that.
Token(game, player) == [game |-> game, player |-> player]
NoToken == Token("none", 0)
NoView  == [status |-> "gone", game |-> "none"]
NoCrowd == [host |-> 0, playing |-> 0, screen |-> FALSE]
NoLoad  == [at |-> "none", view |-> NoView, player |-> 0, crowd |-> NoCrowd]
NoTap   == [does |-> "nothing", at |-> "asked", ok |-> FALSE, view |-> NoView]
NoFetch == [at |-> "idle", token |-> NoToken]
Asked   == [NoFetch EXCEPT !.at = "asked"]

Slots == 1 .. MaxLoads
Silence == [i \in Slots |-> NoLoad]
FirstLoad == [Silence EXCEPT ![1].at = "room"]

\* The bounds: which repertoires of Rooms come with a page, and what may befall it.
Opened == "page" \in repertoire[Mine]
Luck == Opened => "mishap" \in repertoire[Mine] /\ faults + mishaps < MaxMishaps

-----------------------------------------------------------------------------
(* What the page shows.                                                    *)

InRoom == page.view # NoView
Running(p) == p.view.status = "running"

\* The host finds its id in the list of members, or uses the one it was seated with.
Me(p) == IF p.crowd.host # 0 THEN p.crowd.host ELSE p.player

\* The lobby offers a start once the members it last heard of are enough.
CanStart(p) == ~Running(p) /\ p.crowd.screen /\ p.crowd.playing >= MinPlayers[p.game]

WantsToken(p) == Running(p) /\ Me(p) # 0 /\ p.view.game # "none"
TokenKey(p) == <<Running(p), Me(p), p.view.game>>

\* The token's effect runs again when what it depends on has changed, and drops the
\* fetch in flight; a page without a game forgets its token.
\* Mutant: the fetch in flight is listened to.
Rendered_KeepsFetch(q) ==
    IF TokenKey(q) = TokenKey(page) \/ q.fetch.at = "minted" THEN q
    ELSE IF WantsToken(q) THEN [q EXCEPT !.fetch = Asked]
    ELSE [q EXCEPT !.fetch = NoFetch, !.token = NoToken]
Rendered(q) ==
    IF TokenKey(q) = TokenKey(page) THEN q
    ELSE IF WantsToken(q) THEN [q EXCEPT !.fetch = Asked]
    ELSE [q EXCEPT !.fetch = NoFetch, !.token = NoToken]

\* A new membership runs the poll's effect again. Mutant: its loads go on.
Repolls_Beside == loads' = loads
Repolls == loads' = FirstLoad

\* persist: the answer to an act is shown, remembered, and stored for a reload.
Persist(view) ==
    /\ page' = Rendered([page EXCEPT !.view = view, !.kept = view, !.stored = view])
    /\ Repolls

SeedGame(view) == IF view.game \in Games THEN view.game ELSE DefaultGame

Hydrated(view, player) ==
    LET q == [view |-> view, kept |-> view, stored |-> view, player |-> player, crowd |-> NoCrowd,
              game |-> SeedGame(view), token |-> NoToken, fetch |-> NoFetch]
    IN IF WantsToken(q) THEN [q EXCEPT !.fetch = Asked] ELSE q

\* The host has come from creating the room, with no game chosen.
PagesInit ==
    /\ Init
    /\ page = Hydrated(room, seats[Owner].player)
    /\ loads = IF Opened THEN FirstLoad ELSE Silence
    /\ tap = NoTap /\ mishaps = 0
    /\ fresh = {room} /\ since = {}

-----------------------------------------------------------------------------
(* Polls: the room and, in the lobby, the members.                         *)

Poll(i) ==
    /\ Opened /\ InRoom /\ loads[i] = NoLoad
    /\ loads' = [loads EXCEPT ![i].at = "room"]
    /\ UNCHANGED <<page, tap, mishaps>>

\* The first row of a host, how many play, and whether there is a screen.
Crowd(h) == [host |-> seats[h].player, playing |-> Cardinality(Playing(Sessions)),
             screen |-> \E s \in Sessions : IsDisplay(seats[s])]

\* The room is answered to those who sit in it.
ServesLoad(i) ==
    /\ Seated(seats[Owner])
    /\ \/ /\ loads[i].at = "room"
          /\ loads' = [loads EXCEPT ![i].at = "seen", ![i].view = room]
       \/ /\ loads[i].at = "members"
          /\ \E h \in HostSessions :
               /\ Seated(seats[h])
               /\ loads' = [loads EXCEPT ![i].at = "listed", ![i].crowd = Crowd(h)]
       \/ /\ loads[i].at = "resume"
          /\ loads' = [loads EXCEPT ![i].at = "resumed", ![i].view = room,
                                    ![i].player = seats[Owner].player]
    /\ UNCHANGED <<page, tap, mishaps>>

GetsRoom(i) ==
    /\ loads[i].at = "seen"
    /\ LET view == loads[i].view
       IN /\ page' = Rendered([page EXCEPT !.view = view, !.stored = view])
          /\ loads' = [loads EXCEPT ![i] =
                         IF view.status = "running" THEN NoLoad ELSE [NoLoad EXCEPT !.at = "members"]]
    /\ UNCHANGED <<tap, mishaps>>

GetsMembers(i) ==
    /\ loads[i].at = "listed"
    /\ page' = Rendered([page EXCEPT !.crowd = loads[i].crowd])
    /\ loads' = [loads EXCEPT ![i] = NoLoad]
    /\ UNCHANGED <<tap, mishaps>>

\* A tab that forgot its seat is told of it.
GetsSeat(i) ==
    /\ loads[i].at = "resumed"
    /\ page' = Hydrated(loads[i].view, loads[i].player)
    /\ loads' = FirstLoad
    /\ UNCHANGED <<tap, mishaps>>

LoadFails(i) ==
    /\ loads[i] # NoLoad
    /\ loads' = [loads EXCEPT ![i] = NoLoad]
    /\ UNCHANGED <<page, tap, mishaps>>

-----------------------------------------------------------------------------
(* The token that opens the game's socket.                                 *)

MintsToken ==
    /\ page.fetch.at = "asked" /\ Seated(seats[Owner]) /\ room.game # "none"
    /\ page' = [page EXCEPT !.fetch = [at |-> "minted", token |-> Token(room.game, seats[Owner].player)]]
    /\ UNCHANGED <<loads, tap, mishaps>>

GetsToken ==
    /\ page.fetch.at = "minted"
    /\ page' = [page EXCEPT !.token = page.fetch.token, !.fetch = NoFetch]
    /\ UNCHANGED <<loads, tap, mishaps>>

TokenFails ==
    /\ page.fetch.at \in {"asked", "minted"}
    /\ page' = [page EXCEPT !.fetch = [NoFetch EXCEPT !.at = "failed"]]
    /\ UNCHANGED <<loads, tap, mishaps>>

RefreshToken ==
    /\ WantsToken(page) /\ page.fetch.at \in {"idle", "failed"}
    /\ page' = [page EXCEPT !.fetch = Asked]
    /\ UNCHANGED <<loads, tap, mishaps>>

\* authorizeJoin: what the engine asks of the join the page sends.
Admitted(p) == p.token = Token(p.view.game, Me(p))

-----------------------------------------------------------------------------
(* Taps.                                                                   *)

Tells(does, request, first, arg) ==
    /\ Opened /\ InRoom
    /\ Arrives(Mine, request, first, arg)
    /\ tap' = [NoTap EXCEPT !.does = does]
    /\ UNCHANGED <<loads, mishaps>>

Picks ==
    /\ tap = NoTap /\ ~Running(page)
    /\ \E g \in Games : Tells("pick", "select", "set", g) /\ page' = [page EXCEPT !.game = g]

\* onStart: the game is selected again, and then started.
Chooses ==
    /\ tap = NoTap /\ CanStart(page)
    /\ Tells("choose", "select", "set", page.game) /\ page' = page

Starts ==
    /\ tap.does = "choose" /\ tap.at = "answered" /\ tap.ok /\ room.game # "none"
    /\ Tells("start", "start", "list", "none") /\ page' = page

Exits ==
    /\ tap = NoTap /\ Running(page) /\ room.game # "none"
    /\ Tells("exit", "exit", "engine", "none") /\ page' = page

ChangesMode ==
    /\ tap = NoTap /\ ~Running(page)
    /\ \E wish \in Wishes : Tells("mode", "setMode", "get", wish)
    /\ page' = page

\* A step of the request; the last one answers the page.
ServesTap ==
    /\ Seat(Mine) \/ Orchestrate(Mine) \/ (Luck /\ CallFails(Mine))
    /\ tap' = IF tap # NoTap /\ tap.at = "asked" /\ serving'[Mine] = Idle
              THEN [tap EXCEPT !.at = "answered", !.ok = serving[Mine].at \in {"set", "status", "put"},
                               !.view = room']
              ELSE tap
    /\ UNCHANGED <<page, loads, mishaps>>

Hears ==
    /\ tap.at = "answered" /\ (tap.ok => tap.does # "choose")
    /\ \/ tap.ok /\ tap.does # "mode" /\ Persist(tap.view)
       \/ tap.ok /\ tap.does = "mode" /\ page' = [page EXCEPT !.stored = page.kept] /\ Repolls
       \/ ~tap.ok /\ UNCHANGED <<page, loads>>
    /\ tap' = NoTap /\ UNCHANGED mishaps

AnswerLost ==
    /\ Luck /\ tap.at = "answered" /\ tap.ok
    /\ tap' = [tap EXCEPT !.ok = FALSE] /\ mishaps' = mishaps + 1
    /\ UNCHANGED <<page, loads>>

\* A reload finds what was stored; a tab closed and opened again does not.
Reload ==
    /\ Opened /\ InRoom /\ Luck /\ mishaps' = mishaps + 1 /\ tap' = NoTap
    /\ \/ page' = Hydrated(page.stored, page.player) /\ loads' = FirstLoad
       \/ page' = Hydrated(NoView, 0) /\ loads' = [Silence EXCEPT ![1].at = "resume"]

-----------------------------------------------------------------------------
PageStep ==
    \/ \E i \in Slots : Poll(i) \/ ServesLoad(i) \/ GetsRoom(i) \/ GetsMembers(i) \/ GetsSeat(i) \/ LoadFails(i)
    \/ Opened /\ (MintsToken \/ GetsToken \/ TokenFails \/ RefreshToken)
    \/ Hears \/ AnswerLost \/ Reload

\* The other lanes, and the page's own where there is no page.
Elsewhere ==
    /\ \/ \E l \in Lanes : (l = Mine => ~Opened) /\ (Ask(l) \/ AskExit(l))
       \/ \E l \in Lanes \ {Mine} : Seat(l) \/ Orchestrate(l) \/ (Luck /\ CallFails(l))
       \/ GameEnds \/ SessionLapses \/ (Luck /\ SeatsLapse)
    /\ UNCHANGED pages

\* A crash answers nothing: the page's request fails.
Crashes ==
    /\ Luck /\ Crash
    /\ tap' = IF tap # NoTap THEN [tap EXCEPT !.at = "answered"] ELSE tap
    /\ UNCHANGED <<page, loads, mishaps>>

\* When an act of the page is done, and when the page is told.
Acts == {"pick", "start", "exit"}
Served == tap.does \in Acts /\ tap.at = "asked" /\ tap'.at = "answered" /\ tap'.ok
Told   == tap.does \in Acts /\ tap.ok /\ tap' = NoTap /\ mishaps' = mishaps

Recall ==
    /\ since' = IF Served THEN {room'} ELSE IF tap' = NoTap \/ since = {} THEN {} ELSE since \cup {room'}
    /\ fresh' = IF Opened THEN (IF Told THEN since ELSE fresh) \cup {room'} ELSE fresh

NextPages ==
    /\ \/ PageStep /\ UNCHANGED vars
       \/ /\ Picks \/ Chooses \/ Starts \/ Exits \/ ChangesMode \/ ServesTap \/ Elsewhere \/ Crashes
          /\ Remember
    /\ Recall

SpecPages == PagesInit /\ [][NextPages]_allVars

-----------------------------------------------------------------------------
(* Properties.                                                             *)

\* RoomClient.tsx:191-216, 276-287: once the page was told that its own pick, start or
\* exit is done, neither a poll that was on its way nor a reload takes it back to the
\* room of before.
OwnActsStick == InRoom => page.view \in fresh

\* RoomClient.tsx:225-261 and socket.ts:69-93: where this page alone steers the room and
\* nothing was lost, a page that shows a game that runs and waits for no token holds one
\* with which the engine lets it in.
Steering == {"select", "start", "exit"}
Alone == HostSessions = {Owner} /\ \A l \in Lanes \ {Mine} : repertoire[l] \cap Steering = {}
TokenFits ==
    WantsToken(page) /\ page.fetch.at = "idle" /\ Alone /\ faults + mishaps = 0 => Admitted(page)
===============================================================================
