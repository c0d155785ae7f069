------------------------------ MODULE Rooms_proof ------------------------------
(***************************************************************************)
(* A room for any sessions, lanes, games, limits and faults: who sits in   *)
(* it, what an exit and a start make of it, and the host's page for it: it *)
(* serves the room of Rooms, what the host did stays on the page, and a    *)
(* page that is alone has a token that fits the game it shows.             *)
(***************************************************************************)
EXTENDS RoomPages, FiniteSetTheorems, TLAPS

Fields == {"does", "at", "arg", "game", "row", "roster"}

\* Once past the bar a request may seat its session without asking again.
PastTheBar(l) ==
    \/ serving[l].does = "join" /\ serving[l].at # "barred"
    \/ serving[l].does \in {"setMode", "setPalette"} /\ serving[l].at # "get"

\* The row a request is about to write is of the player who has the seat.
RowHolds(l) ==
    LET s == By(l)
    IN /\ serving[l].does = "join" /\ serving[l].at = "list" => serving[l].row.player = seats[s].player
       /\ serving[l].does = "join" /\ serving[l].at = "put" /\ Seated(seats[s]) =>
             serving[l].row.player = seats[s].player
       /\ serving[l].does \in {"setMode", "setPalette"} /\ serving[l].at # "get" =>
             serving[l].row.player = seats[s].player
       /\ serving[l].does = "poll" /\ serving[l].at = "put" => ~Seated(seats[s])

\* Between the two halves of a kick the seat is empty; a host who has one keeps it.
KickHolds(l) ==
    LET s == serving[l].arg
    IN /\ serving[l].at = "bar" /\ Seated(seats[s]) => s \in crossed
       /\ serving[l].at = "get" /\ s \in HostSessions => Seated(seats[s]) \/ s \in crossed
       /\ serving[l].at # "get" /\ s \in HostSessions => s \in crossed

Lane(l) ==
    serving[l] # Idle =>
        /\ Fields \subseteq DOMAIN serving[l] /\ "player" \in DOMAIN serving[l].row
        /\ serving[l].does = "poll" => By(l) \in HostSessions
        /\ PastTheBar(l) /\ By(l) \in kicked => By(l) \in crossed
        /\ By(l) \notin crossed => RowHolds(l)
        /\ serving[l].does = "kick" => serving[l].arg \in Sessions /\ KickHolds(l)

Barrier ==
    /\ kicked \subseteq Sessions
    /\ \A s \in kicked : Seated(seats[s]) \/ s \in HostSessions => s \in crossed

Crossings ==
    \A s \in Sessions : \A l, k \in Lanes : l # k /\ l \in Touching(s) /\ k \in Touching(s) => s \in crossed

Shape ==
    /\ DOMAIN serving = Lanes /\ DOMAIN seats = Sessions
    /\ \A s \in Sessions : "player" \in DOMAIN seats[s]

SeatInv == Shape /\ Crossings /\ Barrier /\ \A l \in Lanes : Lane(l)

-----------------------------------------------------------------------------
(* Lanes.                                                                  *)

LEMMA WhoAsks ==
  ASSUME NEW l \in Lanes
  PROVE  By(l) \in Sessions /\ (l[2] = "poll" => By(l) \in HostSessions)
  BY RoomsAssumption DEF By

LEMMA LanesFinite == IsFiniteSet(Lanes)
  <1>1. IsFiniteSet(Sessions) /\ IsFiniteSet(HostSessions)
    BY RoomsAssumption, FS_Subset
  <1>2. IsFiniteSet({"tap", "tab"}) /\ IsFiniteSet({"poll"})
    <2>1. IsFiniteSet({"poll"}) /\ IsFiniteSet({"tap"})
      BY FS_Singleton
    <2>2. IsFiniteSet({"tap"} \cup {"tab"})
      BY <2>1, FS_AddElement
    <2>3. {"tap"} \cup {"tab"} = {"tap", "tab"}
      OBVIOUS
    <2> QED  BY <2>1, <2>2, <2>3
  <1>3. IsFiniteSet(Sessions \X {"tap", "tab"}) /\ IsFiniteSet(HostSessions \X {"poll"})
    BY <1>1, <1>2, FS_Product
  <1>4. IsFiniteSet((Sessions \X {"tap", "tab"}) \cup (HostSessions \X {"poll"}))
    BY <1>3, FS_Union
  <1> QED  BY <1>4, RoomsAssumption, FS_Subset

\* Two of a set of lanes are more than one.
LEMMA TwoAreMany ==
  ASSUME NEW L, L \subseteq Lanes, NEW l \in L, NEW k \in L, l # k
  PROVE  Cardinality(L) > 1
  <1>1. IsFiniteSet(L)
    BY LanesFinite, FS_Subset
  <1>2. IsFiniteSet({l} \cup {k}) /\ Cardinality({l} \cup {k}) = 2
    <2>1. IsFiniteSet({l}) /\ Cardinality({l}) = 1
      BY FS_Singleton
    <2>2. /\ IsFiniteSet({l} \cup {k})
          /\ Cardinality({l} \cup {k}) = IF k \in {l} THEN Cardinality({l}) ELSE Cardinality({l}) + 1
      BY <2>1, FS_AddElement
    <2> QED  BY <2>1, <2>2
  <1>3. Cardinality({l} \cup {k}) <= Cardinality(L)
    BY <1>1, FS_Subset
  <1>4. Cardinality(L) \in Nat
    BY <1>1, FS_CardinalityType
  <1> QED  BY <1>2, <1>3, <1>4

LEMMA CrossingsRemembered ==
  ASSUME Remember
  PROVE  Crossings' /\ crossed \subseteq crossed'
  <1>1. ASSUME NEW s \in Sessions, NEW l \in Lanes, NEW k \in Lanes, l # k, l \in Touching(s)', k \in Touching(s)'
        PROVE  s \in crossed'
    <2>1. PICK T : T = Touching(s)'
      OBVIOUS
    <2>2. T \subseteq Lanes
      BY <2>1 DEF Touching, Doing
    <2>3. Cardinality(Touching(s)') > 1
      BY <1>1, <2>1, <2>2, TwoAreMany
    <2> QED  BY <2>3 DEF Remember, Colliding
  <1> QED  BY <1>1 DEF Remember, Crossings

-----------------------------------------------------------------------------
(* What persists.                                                          *)

\* A lane that does not move, beside whatever happens to the seats it is not about.
LEMMA LaneLasts ==
  ASSUME NEW k \in Lanes, Lane(k), serving'[k] = serving[k], crossed \subseteq crossed',
         \A s \in Sessions :
            k \in Touching(s) => s \in crossed' \/ (seats'[s] = seats[s] /\ (s \in kicked' => s \in kicked))
  PROVE  Lane(k)'
  <1> SUFFICES ASSUME serving[k] # Idle PROVE Lane(k)'
    BY DEF Lane
  <1>1. By(k) \in Sessions
    BY WhoAsks
  <1>2. PICK s : s = By(k)
    OBVIOUS
  <1>3. /\ Fields \subseteq DOMAIN serving[k] /\ "player" \in DOMAIN serving[k].row
        /\ serving[k].does = "poll" => s \in HostSessions
        /\ PastTheBar(k) /\ s \in kicked => s \in crossed
        /\ s \notin crossed => RowHolds(k)
        /\ serving[k].does = "kick" => serving[k].arg \in Sessions /\ KickHolds(k)
    BY <1>2 DEF Lane
  <1>4. PastTheBar(k)' /\ s \in kicked' => s \in crossed'
    BY <1>1, <1>2, <1>3 DEF PastTheBar, Touching, Doing
  <1>5. s \notin crossed' => RowHolds(k)'
    <2>1. CASE serving[k].does \in {"join", "setMode", "setPalette", "poll"}
      BY <1>1, <1>2, <1>3, <2>1 DEF RowHolds, Touching, Doing, By
    <2>2. CASE serving[k].does \notin {"join", "setMode", "setPalette", "poll"}
      BY <2>2 DEF RowHolds
    <2> QED  BY <2>1, <2>2
  <1>6. serving[k].does = "kick" => KickHolds(k)'
    <2>1. PICK v : v = serving[k].arg
      OBVIOUS
    <2>2. ASSUME serving[k].does = "kick" PROVE v \in crossed' \/ seats'[v] = seats[v]
      BY <1>3, <2>1, <2>2 DEF Touching, Doing
    <2> QED  BY <1>3, <2>1, <2>2 DEF KickHolds
  <1>7. By(k)' = s
    BY <1>2 DEF By
  <1> QED  BY <1>3, <1>4, <1>5, <1>6, <1>7 DEF Lane

\* A lane moves by itself: nobody's seat changes.
Moves(l) == DOMAIN serving' = Lanes /\ \A k \in Lanes \ {l} : serving'[k] = serving[k]

LEMMA LaneMoves ==
  ASSUME SeatInv, Remember, NEW l \in Lanes, Moves(l), UNCHANGED <<seats, kicked>>, Lane(l)'
  PROVE  SeatInv'
  <1>1. Crossings' /\ crossed \subseteq crossed'
    BY CrossingsRemembered
  <1>2. Barrier'
    BY <1>1 DEF SeatInv, Barrier
  <1>3. ASSUME NEW k \in Lanes PROVE Lane(k)'
    <2>1. CASE k = l
      BY <2>1
    <2>2. CASE k # l
      BY <1>1, <2>2, LaneLasts DEF SeatInv, Moves
    <2> QED  BY <2>1, <2>2
  <1>4. Shape'
    BY DEF SeatInv, Shape, Moves
  <1> QED  BY <1>1, <1>2, <1>3, <1>4 DEF SeatInv

LEMMA EndsKeeps ==
  ASSUME SeatInv, Remember, NEW l \in Lanes, Ends(l), UNCHANGED <<seats, kicked>>
  PROVE  SeatInv'
  <1>1. Moves(l) /\ serving'[l] = Idle
    BY DEF Ends, Moves, SeatInv, Shape
  <1>2. Lane(l)'
    BY <1>1 DEF Lane
  <1> QED  BY <1>1, <1>2, LaneMoves

-----------------------------------------------------------------------------
(* Requests.                                                               *)

LEMMA InFlight ==
  ASSUME SeatInv, NEW l \in Lanes, NEW does, NEW step, At(l, does, step)
  PROVE  /\ serving[l] # Idle /\ serving[l].does = does /\ serving[l].at = step
         /\ Fields \subseteq DOMAIN serving[l] /\ "player" \in DOMAIN serving[l].row
         /\ DOMAIN serving = Lanes /\ DOMAIN seats = Sessions /\ By(l) \in Sessions
         /\ "player" \in DOMAIN seats[By(l)]
  BY WhoAsks DEF SeatInv, Shape, Lane, At

LEMMA ArrivesKeeps ==
  ASSUME SeatInv, Remember, NEW l \in Lanes, NEW does, NEW first, NEW arg, Arrives(l, does, first, arg),
         does = "poll" => By(l) \in HostSessions /\ first # "put",
         does = "join" => first = "barred",
         does \in {"setMode", "setPalette", "kick"} => first = "get",
         does = "kick" => arg \in Sessions /\ Seated(seats[arg])
  PROVE  SeatInv'
  <1>1. UNCHANGED <<seats, kicked>>
    BY DEF Arrives, store
  <1>2. /\ Moves(l) /\ Fields \subseteq DOMAIN serving'[l] /\ "player" \in DOMAIN serving'[l].row
        /\ serving'[l].does = does /\ serving'[l].at = first /\ serving'[l].arg = arg
    BY DEF Arrives, Moves, SeatInv, Shape, Fields, Nobody
  <1>3. ~PastTheBar(l)'
    BY <1>2 DEF PastTheBar
  <1>4. RowHolds(l)'
    BY <1>2 DEF RowHolds
  <1>5. does = "kick" => KickHolds(l)'
    BY <1>1, <1>2 DEF KickHolds
  <1>6. Lane(l)'
    BY <1>2, <1>3, <1>4, <1>5 DEF Lane, By
  <1> QED  BY <1>1, <1>2, <1>6, LaneMoves

LEMMA AskKeeps ==
  ASSUME SeatInv, Remember, NEW l \in Lanes, Ask(l) \/ AskExit(l)
  PROVE  SeatInv'
  BY WhoAsks, ArrivesKeeps DEF Ask, AskExit, Others

\* A request that only read goes on; what it carries is of the seat as it is.
LEMMA ReadsKeeps ==
  ASSUME SeatInv, Remember, NEW l \in Lanes, UNCHANGED <<seats, kicked>>, serving[l] # Idle,
         NEW step, NEW row, (Goes(l, step) /\ row = serving[l].row) \/ GoesWith(l, step, row),
         "player" \in DOMAIN row,
         serving[l].does \in {"join", "setMode", "setPalette"} /\ By(l) \in kicked => By(l) \in crossed,
         By(l) \notin crossed /\ serving[l].does \in {"setMode", "setPalette"} => row.player = seats[By(l)].player,
         By(l) \notin crossed /\ serving[l].does = "join" /\ step = "list" => row.player = seats[By(l)].player,
         By(l) \notin crossed /\ serving[l].does = "join" /\ step = "put" /\ Seated(seats[By(l)]) =>
             row.player = seats[By(l)].player,
         serving[l].does = "poll" => ~Seated(seats[By(l)]),
         serving[l].does = "kick" =>
             /\ step \notin {"bar", "get"}
             /\ serving[l].arg \in HostSessions => serving[l].arg \in crossed
  PROVE  SeatInv'
  <1>1. Lane(l) /\ crossed \subseteq crossed'
    BY CrossingsRemembered DEF SeatInv
  <1>2. /\ Moves(l) /\ Fields \subseteq DOMAIN serving'[l]
        /\ serving'[l].does = serving[l].does /\ serving'[l].at = step /\ serving'[l].arg = serving[l].arg
        /\ serving'[l].row = row
    BY <1>1 DEF Goes, GoesWith, Moves, SeatInv, Shape, Fields, Lane
  <1>3. PICK s : s = By(l)
    OBVIOUS
  <1>4. PastTheBar(l)' /\ s \in kicked' => s \in crossed'
    BY <1>1, <1>2, <1>3 DEF PastTheBar
  <1>5. s \notin crossed' => RowHolds(l)'
    BY <1>1, <1>2, <1>3 DEF RowHolds, By
  <1>6. serving[l].does = "kick" => serving'[l].arg \in Sessions /\ KickHolds(l)'
    BY <1>1, <1>2 DEF KickHolds, Lane
  <1>7. By(l)' = s
    BY <1>3 DEF By
  <1>8. Lane(l)'
    BY <1>1, <1>2, <1>3, <1>4, <1>5, <1>6, <1>7 DEF Lane
  <1> QED  BY <1>2, <1>8, LaneMoves

LEMMA JoinKeeps ==
  ASSUME SeatInv, Remember, NEW l \in Lanes, JoinBarred(l) \/ JoinGet(l) \/ JoinList(l)
  PROVE  SeatInv'
  <1>1. UNCHANGED <<seats, kicked>>
    BY DEF JoinBarred, JoinGet, JoinList, Reads, store
  <1>2. Lane(l) /\ Barrier
    BY DEF SeatInv
  <1>3. CASE JoinBarred(l)
    <2>1. serving[l] # Idle /\ serving[l].does = "join" /\ "player" \in DOMAIN serving[l].row
      BY <1>3, InFlight DEF JoinBarred
    <2>2. CASE By(l) \in kicked
      BY <1>1, <1>3, <2>2, EndsKeeps DEF JoinBarred, Barred
    <2>3. CASE By(l) \notin kicked
      <3>1. Goes(l, "get")
        BY <1>3, <2>3 DEF JoinBarred, Barred
      <3> QED  BY <1>1, <2>1, <2>3, <3>1, ReadsKeeps
    <2> QED  BY <2>2, <2>3
  <1>4. CASE JoinGet(l)
    <2>1. /\ serving[l] # Idle /\ serving[l].does = "join" /\ serving[l].at = "get"
          /\ "player" \in DOMAIN seats[By(l)]
      BY <1>4, InFlight DEF JoinGet
    <2>2. GoesWith(l, "list", seats[By(l)])
      BY <1>4 DEF JoinGet
    <2>3. By(l) \in kicked => By(l) \in crossed
      BY <1>2, <2>1 DEF Lane, PastTheBar
    <2> QED  BY <1>1, <2>1, <2>2, <2>3, ReadsKeeps
  <1>5. CASE JoinList(l)
    <2>1. serving[l] # Idle /\ serving[l].does = "join" /\ serving[l].at = "list"
      BY <1>5, InFlight DEF JoinList
    <2>2. By(l) \in kicked => By(l) \in crossed
      BY <1>2, <2>1 DEF Lane, PastTheBar
    <2>3. PICK row : /\ GoesWith(l, "put", row) /\ "player" \in DOMAIN row
                     /\ row.player = PlayerOf(serving[l].row)
      BY <1>5 DEF JoinList
    <2>4. By(l) \notin crossed /\ Seated(seats[By(l)]) => row.player = seats[By(l)].player
      BY <1>2, <2>1, <2>3 DEF Lane, RowHolds, PlayerOf, Seated
    <2> QED  BY <1>1, <2>1, <2>2, <2>3, <2>4, ReadsKeeps
  <1> QED  BY <1>3, <1>4, <1>5

LEMMA SetKeeps ==
  ASSUME SeatInv, Remember, NEW l \in Lanes,
         SetModeGet(l) \/ SetModeList(l) \/ SetPaletteGet(l) \/ SetPaletteList(l)
  PROVE  SeatInv'
  <1>1. UNCHANGED <<seats, kicked>>
    BY DEF SetModeGet, SetModeList, SetPaletteGet, SetPaletteList, Reads, store
  <1>2. Lane(l) /\ Barrier
    BY DEF SeatInv
  <1>3. CASE Ends(l)
    BY <1>1, <1>3, EndsKeeps
  <1>4. CASE SetModeGet(l) \/ SetPaletteGet(l)
    <2>1. /\ serving[l] # Idle /\ serving[l].does \in {"setMode", "setPalette"}
          /\ "player" \in DOMAIN seats[By(l)]
      BY <1>4, InFlight DEF SetModeGet, SetPaletteGet
    <2>2. CASE ~Ends(l)
      <3>1. PICK step, row : /\ GoesWith(l, step, row) /\ Seated(seats[By(l)])
                             /\ "player" \in DOMAIN row /\ row.player = seats[By(l)].player
        <4>1. CASE SetModeGet(l)
          <5>1. PICK row : row = [seats[By(l)] EXCEPT !.mode = serving[l].arg]
            OBVIOUS
          <5>2. Seated(row) /\ \E step : GoesWith(l, step, row)
            BY <2>2, <4>1, <5>1 DEF SetModeGet
          <5> QED  BY <2>1, <5>1, <5>2 DEF Seated
        <4>2. CASE SetPaletteGet(l)
          <5>1. PICK row : row = [seats[By(l)] EXCEPT !.palette = serving[l].arg]
            OBVIOUS
          <5>2. Seated(seats[By(l)]) /\ GoesWith(l, "list", row)
            BY <2>2, <4>2, <5>1 DEF SetPaletteGet
          <5> QED  BY <2>1, <5>1, <5>2
        <4> QED  BY <1>4, <4>1, <4>2
      <3>2. By(l) \in kicked => By(l) \in crossed
        BY <1>2, <3>1 DEF Barrier
      <3> QED  BY <1>1, <2>1, <3>1, <3>2, ReadsKeeps
    <2> QED  BY <1>3, <2>2
  <1>5. CASE SetModeList(l) \/ SetPaletteList(l)
    <2>1. /\ serving[l] # Idle /\ serving[l].does \in {"setMode", "setPalette"} /\ serving[l].at = "list"
          /\ "player" \in DOMAIN serving[l].row
      BY <1>5, InFlight DEF SetModeList, SetPaletteList
    <2>2. By(l) \in kicked => By(l) \in crossed
      BY <1>2, <2>1 DEF Lane, PastTheBar
    <2>3. By(l) \notin crossed => serving[l].row.player = seats[By(l)].player
      BY <1>2, <2>1 DEF Lane, RowHolds
    <2>4. CASE Goes(l, "put")
      BY <1>1, <2>1, <2>2, <2>3, <2>4, ReadsKeeps
    <2> QED  BY <1>3, <1>5, <2>4 DEF SetModeList, SetPaletteList
  <1> QED  BY <1>4, <1>5

\* A seat is written, or taken away, by a request about it: any other that is about
\* the same seat crosses it.
LEMMA SeatWritten ==
  ASSUME SeatInv, Remember, NEW l \in Lanes, NEW s \in Sessions, l \in Touching(s), NEW row, "player" \in DOMAIN row,
         seats' = [seats EXCEPT ![s] = row], UNCHANGED kicked, Moves(l), Lane(l)',
         s \in kicked /\ Seated(row) => s \in crossed
  PROVE  SeatInv'
  <1>1. Crossings' /\ crossed \subseteq crossed'
    BY CrossingsRemembered
  <1>2. Shape'
    BY DEF SeatInv, Shape, Moves
  <1>3. Barrier'
    BY <1>1 DEF SeatInv, Shape, Barrier
  <1>4. ASSUME NEW k \in Lanes PROVE Lane(k)'
    <2>1. CASE k = l
      BY <2>1
    <2>2. CASE k # l
      <3>1. \A v \in Sessions : k \in Touching(v) => v \in crossed' \/ seats'[v] = seats[v]
        BY <1>1, <2>2 DEF SeatInv, Crossings
      <3> QED  BY <1>1, <2>2, <3>1, LaneLasts DEF SeatInv, Moves
    <2> QED  BY <2>1, <2>2
  <1> QED  BY <1>1, <1>2, <1>3, <1>4 DEF SeatInv

LEMMA PutKeeps ==
  ASSUME SeatInv, Remember, NEW l \in Lanes, NEW row, "player" \in DOMAIN row, Put(l, row),
         serving[l].does \in {"join", "setMode", "setPalette", "poll"},
         By(l) \in kicked => By(l) \in crossed
  PROVE  SeatInv'
  <1>1. By(l) \in Sessions /\ l \in Touching(By(l))
    BY WhoAsks DEF Touching, Doing
  <1>2. Moves(l) /\ serving'[l] = Idle
    BY DEF Put, Ends, Moves, SeatInv, Shape
  <1>3. Lane(l)'
    BY <1>2 DEF Lane
  <1>4. seats' = [seats EXCEPT ![By(l)] = row] /\ UNCHANGED kicked
    BY DEF Put
  <1> QED  BY <1>1, <1>2, <1>3, <1>4, SeatWritten

LEMMA WritesRowKeeps ==
  ASSUME SeatInv, Remember, NEW l \in Lanes, WritesRow(l)
  PROVE  SeatInv'
  <1>1. /\ serving[l] # Idle /\ serving[l].does \in {"join", "setMode", "setPalette"} /\ serving[l].at = "put"
        /\ "player" \in DOMAIN serving[l].row
    BY InFlight DEF WritesRow
  <1>2. By(l) \in kicked => By(l) \in crossed
    BY <1>1 DEF SeatInv, Lane, PastTheBar
  <1> QED  BY <1>1, <1>2, PutKeeps DEF WritesRow

LEMMA PollKeeps ==
  ASSUME SeatInv, Remember, NEW l \in Lanes, PollGet(l) \/ PollPut(l)
  PROVE  SeatInv'
  <1>1. serving[l] # Idle /\ serving[l].does = "poll" /\ "player" \in DOMAIN serving[l].row
    BY InFlight DEF PollGet, PollPut
  <1>2. By(l) \in kicked => By(l) \in crossed
    BY <1>1 DEF SeatInv, Lane, Barrier
  <1>3. CASE PollGet(l)
    <2>1. UNCHANGED <<seats, kicked>>
      BY <1>3 DEF PollGet, Reads, store
    <2>2. CASE Seated(seats[By(l)])
      BY <1>3, <2>1, <2>2, EndsKeeps DEF PollGet
    <2>3. CASE ~Seated(seats[By(l)])
      <3>1. Goes(l, "put")
        BY <1>3, <2>3 DEF PollGet
      <3> QED  BY <1>1, <2>1, <2>3, <3>1, ReadsKeeps
    <2> QED  BY <2>2, <2>3
  <1>4. CASE PollPut(l)
    BY <1>1, <1>2, <1>4, PutKeeps DEF PollPut
  <1> QED  BY <1>3, <1>4

LEMMA KickKeeps ==
  ASSUME SeatInv, Remember, NEW l \in Lanes, KickGet(l) \/ KickRemove(l) \/ KickBar(l)
  PROVE  SeatInv'
  <1>1. /\ serving[l] # Idle /\ serving[l].does = "kick" /\ "player" \in DOMAIN serving[l].row
        /\ KickGet(l) => serving[l].at = "get"
        /\ KickRemove(l) => serving[l].at = "remove"
        /\ KickBar(l) => serving[l].at = "bar"
    BY InFlight DEF KickGet, KickRemove, KickBar
  <1>2. PICK s : s = serving[l].arg
    OBVIOUS
  <1>3. s \in Sessions /\ KickHolds(l) /\ l \in Touching(s)
    BY <1>1, <1>2 DEF SeatInv, Lane, Touching, Doing
  <1>4. Crossings' /\ crossed \subseteq crossed'
    BY CrossingsRemembered
  <1>5. CASE KickGet(l)
    <2>1. UNCHANGED <<seats, kicked>>
      BY <1>5 DEF KickGet, Reads, store
    <2>2. CASE s \in HostSessions /\ Seated(seats[s])
      BY <1>2, <1>5, <2>1, <2>2, EndsKeeps DEF KickGet
    <2>3. CASE ~ (s \in HostSessions /\ Seated(seats[s]))
      <3>1. Goes(l, "remove")
        BY <1>2, <1>5, <2>3 DEF KickGet
      <3>2. s \in HostSessions => s \in crossed
        BY <1>1, <1>2, <1>3, <1>5, <2>3 DEF KickHolds
      <3> QED  BY <1>1, <1>2, <2>1, <3>1, <3>2, ReadsKeeps
    <2> QED  BY <2>2, <2>3
  <1>6. CASE KickRemove(l)
    <2>1. seats' = [seats EXCEPT ![s] = Nobody] /\ UNCHANGED kicked /\ Goes(l, "bar")
      BY <1>2, <1>6 DEF KickRemove
    <2>2. /\ Moves(l) /\ Fields \subseteq DOMAIN serving'[l] /\ "player" \in DOMAIN serving'[l].row
          /\ serving'[l].does = "kick" /\ serving'[l].at = "bar" /\ serving'[l].arg = s
      BY <1>1, <1>2, <2>1 DEF Goes, Moves, SeatInv, Shape, Lane, Fields
    <2>3. ~Seated(Nobody) /\ "player" \in DOMAIN Nobody
      BY DEF Seated, Nobody
    <2>4. seats'[s] = Nobody
      BY <1>3, <2>1 DEF SeatInv, Shape
    <2>5. KickHolds(l)'
      BY <1>1, <1>2, <1>3, <1>4, <1>6, <2>2, <2>3, <2>4 DEF KickHolds
    <2>6. ~PastTheBar(l)' /\ RowHolds(l)'
      BY <2>2 DEF PastTheBar, RowHolds
    <2>7. Lane(l)'
      BY <1>3, <2>2, <2>5, <2>6 DEF Lane
    <2> QED  BY <1>3, <2>1, <2>2, <2>3, <2>7, SeatWritten
  <1>7. CASE KickBar(l)
    <2>1. kicked' = kicked \cup {s} /\ UNCHANGED seats /\ Ends(l)
      BY <1>2, <1>7 DEF KickBar
    <2>2. Moves(l) /\ serving'[l] = Idle
      BY <2>1 DEF Ends, Moves, SeatInv, Shape
    <2>3. Shape'
      BY <2>1, <2>2 DEF SeatInv, Shape, Moves
    <2>4. Barrier'
      BY <1>1, <1>2, <1>3, <1>4, <1>7, <2>1 DEF SeatInv, Barrier, KickHolds
    <2>5. ASSUME NEW k \in Lanes PROVE Lane(k)'
      <3>1. CASE k = l
        BY <2>2, <3>1 DEF Lane
      <3>2. CASE k # l
        <4>1. \A v \in Sessions : k \in Touching(v) => v \in crossed' \/ (v \in kicked' => v \in kicked)
          BY <1>3, <1>4, <2>1, <3>2 DEF SeatInv, Crossings
        <4> QED  BY <1>4, <2>1, <2>2, <3>2, <4>1, LaneLasts DEF SeatInv, Moves
      <3> QED  BY <3>1, <3>2
    <2> QED  BY <1>4, <2>3, <2>4, <2>5 DEF SeatInv
  <1> QED  BY <1>5, <1>6, <1>7

-----------------------------------------------------------------------------
(* The room, the engine and the world.                                     *)

LEMMA OrchestrateKeeps ==
  ASSUME SeatInv, Remember, NEW l \in Lanes, Orchestrate(l) \/ CallFails(l)
  PROVE  SeatInv'
  <1>1. UNCHANGED <<seats, kicked>>
    BY DEF Orchestrate, SelectSet, StartList, CallEngine, WritesStatus, CallFails, Reads, store
  <1>2. CASE Ends(l)
    BY <1>1, <1>2, EndsKeeps
  <1>3. CASE ~Ends(l)
    <2>1. serving[l] # Idle /\ serving[l].does \in {"select", "start", "restart", "exit"}
      BY DEF Orchestrate, SelectSet, StartList, CallEngine, WritesStatus, CallFails, At
    <2>2. \/ \E step : Goes(l, step)
          \/ \E step, roster : serving' = [serving EXCEPT ![l].at = step, ![l].roster = roster]
      BY <1>3 DEF Orchestrate, SelectSet, StartList, CallEngine, WritesStatus, CallFails, ExitFails
    <2>3. /\ Moves(l) /\ Fields \subseteq DOMAIN serving'[l] /\ "player" \in DOMAIN serving'[l].row
          /\ serving'[l].does = serving[l].does
      BY <2>1, <2>2 DEF Goes, Moves, SeatInv, Shape, Lane, Fields
    <2>4. ~PastTheBar(l)' /\ RowHolds(l)'
      BY <2>1, <2>3 DEF PastTheBar, RowHolds
    <2>5. Lane(l)'
      BY <2>1, <2>3, <2>4 DEF Lane
    <2> QED  BY <1>1, <2>3, <2>5, LaneMoves
  <1> QED  BY <1>2, <1>3

LEMMA WorldKeeps ==
  ASSUME SeatInv, Remember, GameEnds \/ SessionLapses \/ SeatsLapse \/ Crash
  PROVE  SeatInv'
  <1>1. Crossings' /\ crossed \subseteq crossed'
    BY CrossingsRemembered
  <1>2. CASE GameEnds \/ SessionLapses
    <2>1. UNCHANGED <<seats, kicked, serving>>
      BY <1>2 DEF GameEnds, SessionLapses
    <2> QED  BY <1>1, <2>1, LaneLasts DEF SeatInv, Shape, Barrier
  <1>3. CASE SeatsLapse \/ Crash
    <2>1. \A l \in Lanes : serving'[l] = Idle
      BY <1>3 DEF SeatsLapse, Crash, Quiet
    <2>2. \A l \in Lanes : Lane(l)'
      BY <2>1 DEF Lane
    <2>3. CASE SeatsLapse
      BY <1>1, <2>2, <2>3 DEF SeatsLapse, SeatInv, Shape, Barrier, Nobody
    <2>4. CASE Crash
      BY <1>1, <2>2, <2>4 DEF Crash, store, SeatInv, Shape, Barrier
    <2> QED  BY <1>3, <2>3, <2>4
  <1> QED  BY <1>2, <1>3

LEMMA SeatInvHolds == Spec => []SeatInv
  <1>1. Init => SeatInv
    <2> SUFFICES ASSUME Init PROVE SeatInv
      OBVIOUS
    <2>1. serving = [l \in Lanes |-> Idle] /\ kicked = {}
      BY DEF Init
    <2>2. DOMAIN seats = Sessions /\ \A s \in Sessions : "player" \in DOMAIN seats[s]
      BY DEF Init, Nobody
    <2>3. \A s \in Sessions : Touching(s) = {}
      BY <2>1 DEF Touching, Doing, Idle
    <2> QED  BY <2>1, <2>2, <2>3 DEF SeatInv, Shape, Crossings, Barrier, Lane
  <1>2. SeatInv /\ [Next]_vars => SeatInv'
    <2> SUFFICES ASSUME SeatInv, [Next]_vars PROVE SeatInv'
      OBVIOUS
    <2>1. ASSUME Remember, NEW l \in Lanes, Ask(l) \/ AskExit(l) \/ Seat(l) \/ Orchestrate(l) \/ CallFails(l)
          PROVE  SeatInv'
      BY <2>1, AskKeeps, JoinKeeps, SetKeeps, WritesRowKeeps, PollKeeps, KickKeeps, OrchestrateKeeps DEF Seat
    <2>2. CASE UNCHANGED vars
      BY <2>2 DEF vars, store, history, SeatInv, Shape, Crossings, Touching, Doing, Barrier, Lane, PastTheBar,
                  RowHolds, KickHolds, By
    <2> QED  BY <2>1, <2>2, WorldKeeps DEF Next, Step
  <1> QED  BY <1>1, <1>2, PTL DEF Spec

\* service.ts:262-271, 410-415: whoever was kicked holds no seat until the bar lapses with
\* the seats, unless a request of the same session was in flight beside the kick.
THEOREM TheKickedStayOut == Spec => []KickedStayOut
  <1>1. SeatInv => KickedStayOut
    BY DEF SeatInv, Barrier, KickedStayOut
  <1> QED  BY <1>1, SeatInvHolds, PTL

LEMMA RowsAreTheirs ==
  ASSUME SeatInv, Next, NEW s \in Sessions, Seated(seats[s]), Seated(seats'[s]), s \notin crossed'
  PROVE  seats'[s].player = seats[s].player
  <1>1. Remember /\ crossed \subseteq crossed' /\ Shape
    BY CrossingsRemembered DEF Next, SeatInv
  <1>2. ASSUME NEW l \in Lanes, WritesRow(l) \/ PollPut(l) PROVE seats'[s].player = seats[s].player
    <2>1. Lane(l)
      BY DEF SeatInv
    <2>2. CASE s # By(l)
      BY <1>1, <1>2, <2>2 DEF WritesRow, PollPut, Put, Shape
    <2>3. CASE s = By(l) /\ WritesRow(l)
      <3>1. /\ serving[l] # Idle /\ serving[l].does \in {"join", "setMode", "setPalette"} /\ serving[l].at = "put"
            /\ seats' = [seats EXCEPT ![s] = serving[l].row]
        BY <2>3, InFlight DEF WritesRow, Put
      <3>2. serving[l].row.player = seats[s].player
        BY <1>1, <2>1, <2>3, <3>1 DEF Lane, RowHolds
      <3> QED  BY <1>1, <3>1, <3>2 DEF Shape
    <2>4. CASE s = By(l) /\ PollPut(l)
      <3>1. serving[l] # Idle /\ serving[l].does = "poll" /\ serving[l].at = "put"
        BY <2>4, InFlight DEF PollPut
      <3> QED  BY <1>1, <2>1, <2>4, <3>1 DEF Lane, RowHolds
    <2> QED  BY <1>2, <2>2, <2>3, <2>4
  <1>3. ASSUME NEW l \in Lanes, KickRemove(l) PROVE seats'[s] = seats[s]
    <2>1. CASE s = serving[l].arg
      BY <1>1, <1>3, <2>1 DEF KickRemove, Shape, Nobody, Seated
    <2>2. CASE s # serving[l].arg
      BY <1>3, <2>2 DEF KickRemove
    <2> QED  BY <2>1, <2>2
  <1>4. CASE SeatsLapse
    BY <1>4 DEF SeatsLapse, Nobody, Seated
  <1>5. CASE UNCHANGED seats
    BY <1>5
  <1>6. ASSUME NEW l \in Lanes, Ask(l) \/ AskExit(l) \/ Orchestrate(l) \/ CallFails(l) PROVE UNCHANGED seats
    BY <1>6 DEF Ask, AskExit, Arrives, Orchestrate, SelectSet, StartList, CallEngine, WritesStatus, CallFails,
                Reads, store
  <1>7. ASSUME NEW l \in Lanes, Seat(l), ~ (WritesRow(l) \/ PollPut(l) \/ KickRemove(l)) PROVE UNCHANGED seats
    BY <1>7 DEF Seat, JoinBarred, JoinGet, JoinList, SetModeGet, SetModeList, SetPaletteGet, SetPaletteList,
                PollGet, KickGet, KickBar, Reads, store
  <1>8. CASE GameEnds \/ SessionLapses \/ Crash
    BY <1>5, <1>8 DEF GameEnds, SessionLapses, Crash, store
  <1> QED  BY <1>2, <1>3, <1>4, <1>5, <1>6, <1>7, <1>8 DEF Next, Step

\* service.ts:276-278, 294: from one request to the next the id the engine's roster knows
\* stays with the seat, unless two requests about the same seat crossed.
THEOREM IdsStayWithTheirSeats == Spec => SeatKept
  <1>1. ASSUME SeatInv, [Next]_vars
        PROVE  [\A s \in Sessions :
                  Seated(seats[s]) /\ Seated(seats'[s]) /\ s \notin crossed' =>
                      seats'[s].player = seats[s].player]_vars
    BY <1>1, RowsAreTheirs
  <1> QED  BY <1>1, SeatInvHolds, PTL DEF Spec, SeatKept


-----------------------------------------------------------------------------
(* The room and its games.                                                 *)

Gone(g) == engine[g].phase = "absent"
StartWaits(l) == serving[l].does = "start" /\ serving[l].at = "status"

Table ==
    /\ {"status", "game"} \subseteq DOMAIN room /\ room.game \in Games \cup {"none"} /\ faults \in Nat
    /\ DOMAIN engine = Games
    /\ \A g \in Games : {"phase", "roster"} \subseteq DOMAIN engine[g] /\ (Gone(g) => engine[g].roster = {})

OneHand ==
    \A l, k \in Lanes : serving[l].does \in Hands /\ serving[k].does \in Hands => l = k \/ adrift

Calls(l) ==
    /\ serving[l].does \in {"start", "restart", "exit"} => serving[l].game \in Games
    /\ serving[l].does = "select" => serving[l].arg \in Games

\* A start or an exit minds the selected game; what it has done of its work stands.
Minds(l) ==
    /\ serving[l].does \in {"start", "exit"} => serving[l].game = room.game
    /\ serving[l].does = "exit" /\ serving[l].at = "status" => \A g \in Games : Gone(g)
    /\ StartWaits(l) /\ room.status = "lobby" => engine[serving[l].game].roster \in {{}, serving[l].roster}

\* Only the selected game is on, and in the lobby only one whose start is not yet done.
OneGame ==
    \A g \in Games :
        /\ g # room.game => Gone(g)
        /\ room.status = "lobby" => Gone(g) \/ \E l \in Lanes : StartWaits(l) /\ serving[l].game = g

RoomInv ==
    /\ Table /\ OneHand /\ \A l \in Lanes : Calls(l)
    /\ ~adrift => OneGame /\ \A l \in Lanes : Minds(l)

Fresh == OneGame /\ \A l \in Lanes : Minds(l)

\* With no hand at work and no game there, nothing of before is left.
LEMMA ClearIsFresh ==
  ASSUME Clear'
  PROVE  Fresh'
  <1>1. \A l \in Lanes : serving'[l].does \notin Hands
    BY DEF Clear, Doing
  <1>2. \A g \in Games : Gone(g)'
    BY DEF Clear, Gone
  <1> QED  BY <1>1, <1>2 DEF Fresh, OneGame, Minds, StartWaits, Hands

LEMMA OneHandRemembered ==
  ASSUME Remember
  PROVE  OneHand' /\ (~adrift' => ~adrift \/ Clear')
  <1>1. ASSUME NEW l \in Lanes, NEW k \in Lanes, serving'[l].does \in Hands, serving'[k].does \in Hands, l # k
        PROVE  adrift'
    <2>1. PICK T : T = Doing(Hands)'
      OBVIOUS
    <2>2. T \subseteq Lanes /\ l \in T /\ k \in T
      BY <1>1, <2>1 DEF Doing
    <2>3. Cardinality(T) > 1
      BY <1>1, <2>2, TwoAreMany
    <2>4. ~Clear'
      BY <2>1, <2>2 DEF Clear
    <2> QED  BY <2>1, <2>3, <2>4 DEF Remember, Crowded
  <1> QED  BY <1>1 DEF OneHand, Remember

\* A request moves that is no hand on the room, before or after.
LEMMA HandsOff ==
  ASSUME RoomInv, Remember, NEW l \in Lanes, Moves(l), UNCHANGED <<room, engine>>,
         faults' \in Nat, ~StartWaits(l), ~StartWaits(l)', Calls(l)', Minds(l)'
  PROVE  RoomInv'
  <1>1. OneHand' /\ (~adrift' => ~adrift \/ Clear') /\ (Clear' => Fresh')
    BY OneHandRemembered, ClearIsFresh
  <1>2. Table'
    BY DEF RoomInv, Table, Gone
  <1>3. ASSUME NEW k \in Lanes, k # l
        PROVE  Calls(k)' /\ StartWaits(k)' = StartWaits(k) /\ (~adrift => Minds(k)')
    BY <1>3 DEF RoomInv, Calls, Minds, StartWaits, Gone, Moves
  <1>4. ~adrift => OneGame'
    BY <1>3 DEF RoomInv, OneGame, Gone, Moves
  <1> QED  BY <1>1, <1>2, <1>3, <1>4 DEF RoomInv, Fresh

LEMMA ArrivesMinds ==
  ASSUME SeatInv, RoomInv, Remember, NEW l \in Lanes, NEW does, NEW first, NEW arg, Arrives(l, does, first, arg),
         first # "status", does = "select" => arg \in Games,
         does \in {"start", "restart", "exit"} => room.game # "none"
  PROVE  RoomInv'
  <1>1. UNCHANGED <<room, engine, faults>> /\ Moves(l) /\ serving[l] = Idle
    BY DEF Arrives, store, SeatInv, Shape, Moves
  <1>2. /\ serving'[l].does = does /\ serving'[l].at = first /\ serving'[l].arg = arg
        /\ does \in MindsTheGame => serving'[l].game = room.game
    BY DEF Arrives, SeatInv, Shape
  <1>3. Calls(l)' /\ Minds(l)' /\ ~StartWaits(l)' /\ ~StartWaits(l)
    BY <1>1, <1>2 DEF Calls, Minds, StartWaits, Idle, MindsTheGame, RoomInv, Table
  <1> QED  BY <1>1, <1>3, HandsOff DEF RoomInv, Table

LEMMA AskMinds ==
  ASSUME SeatInv, RoomInv, Remember, NEW l \in Lanes, Ask(l) \/ AskExit(l)
  PROVE  RoomInv'
  BY ArrivesMinds DEF Ask, AskExit

LEMMA SeatMinds ==
  ASSUME SeatInv, RoomInv, Remember, NEW l \in Lanes, Seat(l)
  PROVE  RoomInv'
  <1>1. UNCHANGED <<room, engine, faults>>
    BY DEF Seat, JoinBarred, JoinGet, JoinList, WritesRow, SetModeGet, SetModeList, SetPaletteGet,
           SetPaletteList, PollGet, PollPut, KickGet, KickRemove, KickBar, Put, Reads, store
  <1>2. serving[l] # Idle /\ serving[l].does \in {"join", "setMode", "setPalette", "poll", "kick"}
    BY DEF Seat, JoinBarred, JoinGet, JoinList, WritesRow, SetModeGet, SetModeList, SetPaletteGet,
           SetPaletteList, PollGet, PollPut, KickGet, KickRemove, KickBar, At
  <1>3. Ends(l) \/ (\E step : Goes(l, step)) \/ (\E step, row : GoesWith(l, step, row))
    BY DEF Seat, JoinBarred, JoinGet, JoinList, WritesRow, SetModeGet, SetModeList, SetPaletteGet,
           SetPaletteList, PollGet, PollPut, KickGet, KickRemove, KickBar, Put
  <1>4. Moves(l) /\ serving'[l].does \in {"nothing", serving[l].does}
    <2>1. DOMAIN serving = Lanes /\ Fields \subseteq DOMAIN serving[l]
      BY <1>2 DEF SeatInv, Shape, Lane
    <2>2. CASE Ends(l)
      BY <2>1, <2>2 DEF Ends, Moves, Idle
    <2>3. ASSUME NEW step, NEW row, Goes(l, step) \/ GoesWith(l, step, row)
          PROVE  Moves(l) /\ serving'[l].does = serving[l].does
      BY <2>1, <2>3 DEF Goes, GoesWith, Moves, Fields
    <2> QED  BY <1>3, <2>2, <2>3
  <1>5. Calls(l)' /\ Minds(l)' /\ ~StartWaits(l)' /\ ~StartWaits(l)
    BY <1>2, <1>4 DEF Calls, Minds, StartWaits
  <1> QED  BY <1>1, <1>4, <1>5, HandsOff DEF RoomInv, Table

\* A hand on the room moves: no other request has one, unless the room is adrift.
LEMMA HandMoves ==
  ASSUME SeatInv, RoomInv, Remember, NEW l \in Lanes, Moves(l), serving[l].does \in Hands, Table',
         Calls(l)', ~adrift /\ ~adrift' /\ ~Clear' => OneGame' /\ Minds(l)'
  PROVE  RoomInv'
  <1>1. OneHand' /\ (~adrift' => ~adrift \/ Clear') /\ (Clear' => Fresh')
    BY OneHandRemembered, ClearIsFresh
  <1>2. ASSUME NEW k \in Lanes, k # l PROVE Calls(k)' /\ (~adrift => Minds(k)')
    BY <1>2 DEF RoomInv, OneHand, Calls, Minds, StartWaits, Moves, Hands
  <1> QED  BY <1>1, <1>2 DEF RoomInv, Fresh

LEMMA SelectMinds ==
  ASSUME SeatInv, RoomInv, Remember, NEW l \in Lanes, SelectSet(l)
  PROVE  RoomInv'
  <1>1. /\ serving[l].does = "select" /\ Moves(l) /\ serving'[l].does = "nothing"
        /\ UNCHANGED <<engine, faults>>
    BY DEF SelectSet, At, Ends, Moves, Idle, SeatInv, Shape
  <1>2. room' = [room EXCEPT !.game = serving[l].arg] /\ serving[l].arg \in Games
    BY <1>1 DEF SelectSet, RoomInv, Calls
  <1>3. room'.status = room.status /\ room'.game = serving[l].arg /\ Table'
    BY <1>1, <1>2 DEF RoomInv, Table, Gone
  <1>4. Calls(l)' /\ Minds(l)'
    BY <1>1 DEF Calls, Minds, StartWaits
  <1>5. ASSUME ~adrift, ~adrift', ~Clear' PROVE OneGame'
    <2>1. \A k \in Lanes : ~StartWaits(k)
      BY <1>1, <1>5 DEF RoomInv, OneHand, StartWaits, Hands
    <2>2. CASE room'.game = room.game
      BY <1>1, <1>3, <1>5, <2>1, <2>2 DEF RoomInv, OneGame, Gone
    <2>3. CASE room'.game # room.game
      BY <1>1, <1>5, <2>3 DEF Remember, Switches, OneGame, Gone
    <2> QED  BY <2>2, <2>3
  <1> QED  BY <1>1, <1>3, <1>4, <1>5, HandMoves DEF Hands

LEMMA StartListMinds ==
  ASSUME SeatInv, RoomInv, Remember, NEW l \in Lanes, StartList(l)
  PROVE  RoomInv'
  <1>1. /\ serving[l] # Idle /\ serving[l].does = "start" /\ serving[l].at = "list"
        /\ UNCHANGED <<room, engine, faults>> /\ DOMAIN serving = Lanes /\ Fields \subseteq DOMAIN serving[l]
    BY InFlight DEF StartList, Reads, store
  <1>2. \/ Ends(l)
        \/ \E roster : serving' = [serving EXCEPT ![l].at = "engine", ![l].roster = roster]
    BY DEF StartList
  <1>3. /\ Moves(l) /\ (serving'[l].at # "status" \/ serving'[l] = Idle)
        /\ serving'[l].does \in {"nothing", "start"}
        /\ serving'[l].does = "start" => serving'[l].game = serving[l].game
    BY <1>1, <1>2 DEF Ends, Moves, Idle, Fields
  <1>4. Calls(l)' /\ (~adrift => Minds(l)') /\ ~StartWaits(l)' /\ ~StartWaits(l)
    BY <1>1, <1>3 DEF Calls, Minds, StartWaits, RoomInv, Idle
  <1>5. Table'
    BY <1>1 DEF RoomInv, Table, Gone
  <1>6. ~adrift => OneGame'
    BY <1>1, <1>3, <1>4 DEF RoomInv, OneGame, Gone, StartWaits, Moves
  <1>7. Moves(l)
    BY <1>1, <1>2 DEF Ends, Moves
  <1> QED  BY <1>1, <1>4, <1>5, <1>6, <1>7, HandMoves DEF Hands

\* In the lobby of a room that is not adrift no game is on while a hand is at work.
LEMMA LobbyIsEmpty ==
  ASSUME RoomInv, ~adrift, NEW l \in Lanes, serving[l].does \in Hands, ~StartWaits(l), room.status = "lobby"
  PROVE  \A g \in Games : Gone(g)
  BY DEF RoomInv, OneHand, OneGame, StartWaits, Hands

\* What the engine does for a hand leaves the shape of its sessions alone.
LEMMA EngineShape ==
  ASSUME RoomInv, room' = room, faults' \in Nat, NEW l \in Lanes, serving[l].does \in {"start", "exit", "restart"},
         engine' \in {engine, Started(l), Exited(l)} \/ (Knows(l) /\ engine' = Restarted(l))
  PROVE  /\ Table' /\ serving[l].game \in Games
         /\ \A g \in Games : g # serving[l].game => engine'[g] = engine[g]
  <1>1. PICK g \in Games : g = serving[l].game
    BY DEF RoomInv, Calls
  <1>2. Table
    BY DEF RoomInv
  <1>3. PICK e : /\ DOMAIN engine' = Games /\ \A h \in Games : engine'[h] = IF h = g THEN e ELSE engine[h]
                 /\ {"phase", "roster"} \subseteq DOMAIN e /\ (e.phase = "absent" => e.roster = {})
    <2>1. CASE engine' = engine
      <3>1. PICK e : e = engine[g]
        OBVIOUS
      <3> QED  BY <1>2, <2>1, <3>1 DEF Table, Gone
    <2>2. CASE Started(l) # engine /\ engine' = Started(l)
      <3>1. PICK e : e = [phase |-> "playing", roster |-> serving[l].roster]
        OBVIOUS
      <3>2. engine' = [engine EXCEPT ![g] = e]
        BY <1>1, <2>2, <3>1 DEF Started
      <3> QED  BY <1>2, <3>1, <3>2 DEF Table
    <2>3. CASE engine' = Exited(l)
      <3>1. engine' = [engine EXCEPT ![g] = Absent]
        BY <1>1, <2>3 DEF Exited
      <3> QED  BY <1>2, <3>1 DEF Table, Absent
    <2>4. CASE Knows(l) /\ engine' = Restarted(l)
      <3>1. PICK e : e = [engine[g] EXCEPT !.phase = "playing"]
        OBVIOUS
      <3>2. engine' = [engine EXCEPT ![g] = e]
        BY <1>1, <1>2, <2>4, <3>1 DEF Restarted, Table
      <3> QED  BY <1>2, <3>1, <3>2 DEF Table
    <2> QED  BY <2>1, <2>2, <2>3, <2>4
  <1> QED  BY <1>1, <1>2, <1>3 DEF Table, Gone

LEMMA StartMinds ==
  ASSUME SeatInv, RoomInv, Remember, NEW l \in Lanes, CallEngine(l), At(l, "start", "engine")
  PROVE  RoomInv'
  <1>1. /\ serving[l] # Idle /\ serving[l].does = "start" /\ serving[l].at = "engine"
        /\ UNCHANGED <<room, faults>> /\ DOMAIN serving = Lanes /\ Fields \subseteq DOMAIN serving[l]
    BY InFlight DEF CallEngine
  <1>2. engine' = Started(l) /\ Goes(l, "status")
    BY DEF CallEngine, At
  <1>3. PICK g \in Games : g = serving[l].game
    BY <1>1 DEF RoomInv, Calls
  <1>4. Table' /\ \A h \in Games : h # g => engine'[h] = engine[h]
    BY <1>1, <1>2, <1>3, EngineShape DEF RoomInv, Table
  <1>5. /\ Moves(l) /\ serving'[l].does = "start" /\ serving'[l].at = "status" /\ serving'[l].game = g
        /\ serving'[l].roster = serving[l].roster
    BY <1>1, <1>2, <1>3 DEF Goes, Moves, Fields
  <1>6. Calls(l)' /\ StartWaits(l)'
    BY <1>5 DEF Calls, StartWaits
  <1>7. ASSUME ~adrift PROVE OneGame' /\ Minds(l)'
    <2>1. g = room.game
      BY <1>1, <1>3, <1>7 DEF RoomInv, Minds
    <2>2. room.status = "lobby" => engine' = [engine EXCEPT ![g] = [phase |-> "playing", roster |-> serving[l].roster]]
      <3>1. room.status = "lobby" => Gone(g)
        BY <1>1, <1>7, LobbyIsEmpty DEF Hands, StartWaits
      <3> QED  BY <1>2, <1>3, <3>1 DEF Started, Live, Gone
    <2>3. room.status = "lobby" => engine'[g].roster = serving[l].roster
      BY <2>2 DEF RoomInv, Table
    <2>4. Minds(l)'
      BY <1>1, <1>5, <2>1, <2>3 DEF Minds, StartWaits
    <2>5. \A h \in Games : h # g => Gone(h)'
      BY <1>4, <1>7, <2>1 DEF RoomInv, OneGame, Gone
    <2> QED  BY <1>1, <1>5, <1>6, <2>1, <2>4, <2>5 DEF OneGame
  <1> QED  BY <1>1, <1>4, <1>5, <1>6, <1>7, HandMoves DEF Hands

LEMMA ExitMinds ==
  ASSUME SeatInv, RoomInv, Remember, NEW l \in Lanes, CallEngine(l), At(l, "exit", "engine")
  PROVE  RoomInv'
  <1>1. /\ serving[l] # Idle /\ serving[l].does = "exit" /\ serving[l].at = "engine"
        /\ UNCHANGED <<room, faults>> /\ DOMAIN serving = Lanes /\ Fields \subseteq DOMAIN serving[l]
    BY InFlight DEF CallEngine
  <1>2. /\ Goes(l, "status")
        /\ engine' = Exited(l) \/ (~Knows(l) /\ engine' = engine)
    BY DEF CallEngine, At, ExitFails, Swallows
  <1>3. PICK g \in Games : g = serving[l].game
    BY <1>1 DEF RoomInv, Calls
  <1>4. Table' /\ \A h \in Games : h # g => engine'[h] = engine[h]
    BY <1>1, <1>2, <1>3, EngineShape DEF RoomInv, Table
  <1>5. Moves(l) /\ serving'[l].does = "exit" /\ serving'[l].at = "status" /\ serving'[l].game = g
    BY <1>1, <1>2, <1>3 DEF Goes, Moves, Fields
  <1>6. Calls(l)'
    BY <1>5 DEF Calls
  <1>7. Gone(g)'
    BY <1>2, <1>3 DEF Exited, Knows, Gone, Absent, RoomInv, Table
  <1>8. ASSUME ~adrift PROVE OneGame' /\ Minds(l)'
    <2>1. g = room.game
      BY <1>1, <1>3, <1>8 DEF RoomInv, Minds
    <2>2. \A h \in Games : Gone(h)'
      BY <1>4, <1>7, <1>8, <2>1 DEF RoomInv, OneGame, Gone
    <2> QED  BY <1>1, <1>5, <2>1, <2>2 DEF OneGame, Minds, StartWaits
  <1> QED  BY <1>1, <1>4, <1>5, <1>6, <1>8, HandMoves DEF Hands

\* A restart is no hand on the room: it wakes a game that is there, or does nothing.
LEMMA RestartMinds ==
  ASSUME SeatInv, RoomInv, Remember, NEW l \in Lanes, CallEngine(l), At(l, "restart", "engine")
  PROVE  RoomInv'
  <1>1. /\ serving[l].does = "restart" /\ UNCHANGED <<room, faults>> /\ DOMAIN serving = Lanes
    BY InFlight DEF CallEngine
  <1>2. Ends(l) /\ engine' = IF Knows(l) THEN Restarted(l) ELSE engine
    BY DEF CallEngine, At
  <1>3. PICK g \in Games : g = serving[l].game
    BY <1>1 DEF RoomInv, Calls
  <1>4. Table' /\ \A h \in Games : h # g => engine'[h] = engine[h]
    BY <1>1, <1>2, <1>3, EngineShape DEF RoomInv, Table
  <1>5. Moves(l) /\ serving'[l].does = "nothing"
    BY <1>1, <1>2 DEF Ends, Moves, Idle
  <1>6. /\ engine'[g].roster = engine[g].roster
        /\ Gone(g)' = Gone(g)
    BY <1>2, <1>3 DEF Restarted, Knows, Gone, RoomInv, Table
  <1>7. \A h \in Games : engine'[h].roster = engine[h].roster /\ Gone(h)' = Gone(h)
    BY <1>4, <1>6 DEF Gone
  <1>8. OneHand' /\ (~adrift' => ~adrift \/ Clear') /\ (Clear' => Fresh')
    BY OneHandRemembered, ClearIsFresh
  <1>9. ASSUME NEW k \in Lanes PROVE Calls(k)' /\ (~adrift => Minds(k)')
    <2>1. CASE k = l
      BY <1>5, <2>1 DEF Calls, Minds, StartWaits
    <2>2. CASE k # l
      <3>1. Calls(k) /\ serving'[k] = serving[k]
        BY <1>5, <2>2 DEF RoomInv, Moves
      <3> QED  BY <1>1, <1>7, <3>1 DEF RoomInv, Calls, Minds, StartWaits
    <2> QED  BY <2>1, <2>2
  <1>10. ~adrift => OneGame'
    BY <1>1, <1>5, <1>7 DEF RoomInv, OneGame, StartWaits, Moves
  <1> QED  BY <1>4, <1>8, <1>9, <1>10 DEF RoomInv, Fresh

LEMMA CallFailsMinds ==
  ASSUME SeatInv, RoomInv, Remember, NEW l \in Lanes, CallFails(l)
  PROVE  RoomInv'
  <1>1. /\ serving[l].does \in {"start", "exit"} /\ serving[l].at = "engine" /\ DOMAIN serving = Lanes
        /\ room' = room /\ faults' = faults + 1 /\ faults \in Nat
        /\ engine' \in {engine, Started(l), Exited(l)}
        /\ serving[l].does = "exit" => engine' \in {engine, Exited(l)}
    BY DEF CallFails, At, SeatInv, Shape, RoomInv, Table
  <1>2. Ends(l)
    BY DEF CallFails, ExitFails, Swallows
  <1>3. PICK g \in Games : g = serving[l].game
    BY <1>1 DEF RoomInv, Calls
  <1>4. Table' /\ \A h \in Games : h # g => engine'[h] = engine[h]
    BY <1>1, <1>3, EngineShape
  <1>5. Moves(l) /\ serving'[l].does = "nothing"
    BY <1>1, <1>2 DEF Ends, Moves, Idle
  <1>6. Calls(l)' /\ Minds(l)'
    BY <1>5 DEF Calls, Minds, StartWaits
  <1>7. ASSUME ~adrift, ~adrift', ~Clear' PROVE OneGame'
    <2>1. serving[l].does = "exit"
      <3>1. faults' > faults
        BY <1>1
      <3>2. ~BreaksOff
        BY <1>7 DEF Remember
      <3> QED  BY <1>1, <3>1, <3>2 DEF BreaksOff
    <2>2. \A h \in Games : Gone(h) => Gone(h)'
      BY <1>1, <1>3, <1>4, <2>1 DEF Exited, Absent, Gone, RoomInv, Table
    <2> QED  BY <1>1, <1>5, <1>7, <2>1, <2>2 DEF RoomInv, OneGame, StartWaits, Moves
  <1> QED  BY <1>1, <1>4, <1>5, <1>6, <1>7, HandMoves DEF Hands

LEMMA WritesStatusMinds ==
  ASSUME SeatInv, RoomInv, Remember, NEW l \in Lanes, WritesStatus(l)
  PROVE  RoomInv'
  <1>1. /\ serving[l].does \in {"start", "exit"} /\ serving[l].at = "status" /\ DOMAIN serving = Lanes
        /\ UNCHANGED <<engine, faults>>
        /\ serving[l].does = "start" => SetStatus("running")
        /\ serving[l].does = "exit" => SetStatus("lobby")
    BY DEF WritesStatus, At, SeatInv, Shape
  <1>2. /\ room'.game = room.game /\ {"status", "game"} \subseteq DOMAIN room'
        /\ serving[l].does = "start" => room'.status = "running"
    BY <1>1 DEF SetStatus, RoomInv, Table
  <1>3. Moves(l) /\ serving'[l].does = "nothing"
    BY <1>1 DEF WritesStatus, Ends, Moves, Idle
  <1>4. Calls(l)' /\ Minds(l)' /\ Table'
    BY <1>1, <1>2, <1>3 DEF Calls, Minds, StartWaits, RoomInv, Table, Gone
  <1>5. ASSUME ~adrift PROVE OneGame'
    <2>1. CASE serving[l].does = "start"
      BY <1>1, <1>2, <1>5, <2>1 DEF RoomInv, OneGame, Gone
    <2>2. CASE serving[l].does = "exit"
      BY <1>1, <1>5, <2>2 DEF RoomInv, Minds, OneGame, Gone
    <2> QED  BY <1>1, <2>1, <2>2
  <1> QED  BY <1>1, <1>3, <1>4, <1>5, HandMoves DEF Hands

LEMMA WorldMinds ==
  ASSUME SeatInv, RoomInv, Remember, GameEnds \/ SessionLapses \/ SeatsLapse \/ Crash
  PROVE  RoomInv'
  <1>1. OneHand' /\ (~adrift' => ~adrift \/ Clear') /\ (Clear' => Fresh')
    BY OneHandRemembered, ClearIsFresh
  <1>2. CASE GameEnds \/ SessionLapses
    <2>1. UNCHANGED <<room, serving, faults>>
      BY <1>2 DEF GameEnds, SessionLapses
    <2>2. PICK g, e : /\ g \in Games /\ ~Gone(g)
                      /\ engine' = [engine EXCEPT ![g] = e]
                      /\ {"phase", "roster"} \subseteq DOMAIN e
                      /\ e.roster \in {{}, engine[g].roster}
                      /\ e.phase = "absent" => e.roster = {}
      <3>1. CASE GameEnds
        <4>1. PICK g \in Games : Live(g) /\ engine' = [engine EXCEPT ![g].phase = "complete"]
          BY <3>1 DEF GameEnds
        <4>2. PICK e : e = [engine[g] EXCEPT !.phase = "complete"]
          OBVIOUS
        <4>3. engine' = [engine EXCEPT ![g] = e]
          BY <4>1, <4>2
        <4>4. /\ {"phase", "roster"} \subseteq DOMAIN e /\ e.roster = engine[g].roster
              /\ e.phase # "absent" /\ ~Gone(g)
          BY <4>1, <4>2 DEF RoomInv, Table, Live, Gone
        <4> QED  BY <4>1, <4>3, <4>4
      <3>2. CASE SessionLapses
        <4>1. PICK g \in Games : ~Gone(g) /\ engine' = [engine EXCEPT ![g] = Absent]
          BY <3>2 DEF SessionLapses, Gone
        <4>2. {"phase", "roster"} \subseteq DOMAIN Absent /\ Absent.roster = {}
          BY DEF Absent
        <4> QED  BY <4>1, <4>2
      <3> QED  BY <1>2, <3>1, <3>2
    <2>3. /\ DOMAIN engine' = Games
          /\ \A h \in Games : engine'[h] = IF h = g THEN e ELSE engine[h]
      BY <2>2 DEF RoomInv, Table
    <2>4. /\ Table'
          /\ \A h \in Games : (Gone(h) => Gone(h)') /\ engine'[h].roster \in {{}, engine[h].roster}
      BY <2>1, <2>2, <2>3 DEF RoomInv, Table, Gone
    <2>5. ASSUME NEW k \in Lanes PROVE Calls(k)' /\ (~adrift => Minds(k)')
      <3>1. Calls(k) /\ (~adrift => Minds(k))
        BY DEF RoomInv
      <3> QED  BY <2>1, <2>4, <3>1 DEF Calls, Minds, StartWaits
    <2>6. ~adrift => OneGame'
      BY <2>1, <2>4 DEF RoomInv, OneGame, StartWaits
    <2> QED  BY <1>1, <2>4, <2>5, <2>6 DEF RoomInv, Fresh
  <1>3. CASE SeatsLapse
    <2>1. UNCHANGED <<room, engine, serving>> /\ faults' \in Nat
      BY <1>3 DEF SeatsLapse, RoomInv, Table
    <2>2. Table' /\ \A k \in Lanes : Calls(k)' /\ (~adrift => Minds(k)')
      BY <2>1 DEF RoomInv, Table, Calls, Minds, StartWaits, Gone
    <2>3. ~adrift => OneGame'
      BY <2>1 DEF RoomInv, OneGame, StartWaits, Gone
    <2> QED  BY <1>1, <2>2, <2>3 DEF RoomInv, Fresh
  <1>4. CASE Crash
    <2>1. UNCHANGED <<room, engine>> /\ faults' \in Nat /\ faults' > faults
      BY <1>4 DEF Crash, store, RoomInv, Table
    <2>2. \A k \in Lanes : serving'[k].does = "nothing"
      BY <1>4 DEF Crash, Idle
    <2>3. Table' /\ \A k \in Lanes : Calls(k)' /\ Minds(k)'
      BY <2>1, <2>2 DEF RoomInv, Table, Calls, Minds, StartWaits, Gone
    <2>4. ASSUME ~adrift, ~adrift', ~Clear' PROVE OneGame'
      <3>1. ~BreaksOff
        BY <2>4 DEF Remember
      <3>2. \A k \in Lanes : ~StartWaits(k)
        BY <2>1, <3>1 DEF BreaksOff, StartWaits
      <3> QED  BY <2>1, <2>4, <3>2 DEF RoomInv, OneGame, Gone
    <2> QED  BY <1>1, <2>3, <2>4 DEF RoomInv, Fresh
  <1> QED  BY <1>2, <1>3, <1>4

LEMMA RoomInvHolds == Spec => [](SeatInv /\ RoomInv)
  <1>1. Init => RoomInv
    <2> SUFFICES ASSUME Init PROVE RoomInv
      OBVIOUS
    <2>1. /\ room = [status |-> "lobby", game |-> "none"] /\ engine = [g \in Games |-> Absent]
          /\ serving = [l \in Lanes |-> Idle] /\ faults = 0
      BY DEF Init
    <2>2. \A l \in Lanes : serving[l].does = "nothing"
      BY <2>1 DEF Idle
    <2>3. \A g \in Games : Gone(g)
      BY <2>1 DEF Gone, Absent
    <2>4. Table
      BY <2>1 DEF Table, Absent
    <2> QED  BY <2>2, <2>3, <2>4 DEF RoomInv, OneHand, Hands, Calls, OneGame, Minds, StartWaits
  <1>2. SeatInv /\ RoomInv /\ [Next]_vars => RoomInv'
    <2> SUFFICES ASSUME SeatInv, RoomInv, [Next]_vars PROVE RoomInv'
      OBVIOUS
    <2>1. ASSUME Remember, NEW l \in Lanes, Ask(l) \/ AskExit(l) \/ Seat(l) \/ Orchestrate(l) \/ CallFails(l)
          PROVE  RoomInv'
      <3>1. CASE Ask(l) \/ AskExit(l) \/ Seat(l) \/ CallFails(l)
        BY <2>1, <3>1, AskMinds, SeatMinds, CallFailsMinds
      <3>2. CASE CallEngine(l)
        <4>1. At(l, "start", "engine") \/ At(l, "exit", "engine") \/ At(l, "restart", "engine")
          BY <3>2 DEF CallEngine
        <4> QED  BY <2>1, <3>2, <4>1, StartMinds, ExitMinds, RestartMinds
      <3>3. CASE SelectSet(l) \/ StartList(l) \/ WritesStatus(l)
        BY <2>1, <3>3, SelectMinds, StartListMinds, WritesStatusMinds
      <3> QED  BY <2>1, <3>1, <3>2, <3>3 DEF Orchestrate
    <2>2. CASE UNCHANGED vars
      BY <2>2 DEF vars, store, history, RoomInv, Table, OneHand, Calls, Minds, OneGame, StartWaits, Gone
    <2> QED  BY <2>1, <2>2, WorldMinds DEF Next, Step
  <1> QED  BY <1>1, <1>2, SeatInvHolds, PTL DEF Spec

\* service.ts:383-438 and engine.ts:159-163: when a start from the lobby is about to mark
\* the room running, the game is played by the table its gates counted, or over, whatever
\* restarts, polls, seatings and lapses fell between its steps; except in a room that is
\* adrift (see PlayedByThoseCounted), which ends when the engine has no game of it again.
THEOREM TheCountedPlay == Spec => []PlayedByThoseCounted
  <1>1. RoomInv => PlayedByThoseCounted
    BY DEF RoomInv, Minds, StartWaits, PlayedByThoseCounted, At
  <1> QED  BY <1>1, RoomInvHolds, PTL

-----------------------------------------------------------------------------
(* An exit.                                                                *)

LEMMA ExitsSettle ==
  ASSUME SeatInv, Table, Next, NEW l \in Lanes, serving[l].does = "exit", serving'[l] = Idle, faults' = faults
  PROVE  room'.status = "lobby"
  <1>1. serving[l] # Idle /\ DOMAIN serving = Lanes /\ Fields \subseteq DOMAIN serving[l]
    BY DEF Idle, SeatInv, Shape, Lane
  <1>2. ASSUME NEW k \in Lanes, k # l, serving'[k] # serving[k], Moves(k) PROVE FALSE
    BY <1>1, <1>2 DEF Moves
  <1>3. ASSUME NEW k \in Lanes, Ask(k) \/ AskExit(k) PROVE FALSE
    <2>1. PICK does, first, arg : Arrives(k, does, first, arg)
      BY <1>3 DEF Ask, AskExit
    <2>2. serving[k] = Idle /\ \E r : serving' = [serving EXCEPT ![k] = r]
      BY <2>1 DEF Arrives
    <2> QED  BY <1>1, <2>2
  <1>4. ASSUME NEW k \in Lanes, Seat(k) PROVE FALSE
    <2>1. serving[k].does \in {"join", "setMode", "setPalette", "poll", "kick"}
      BY <1>4 DEF Seat, JoinBarred, JoinGet, JoinList, WritesRow, SetModeGet, SetModeList, SetPaletteGet,
                  SetPaletteList, PollGet, PollPut, KickGet, KickRemove, KickBar, At
    <2>2. \E r : serving' = [serving EXCEPT ![k] = r]
      BY <1>4 DEF Seat, JoinBarred, JoinGet, JoinList, WritesRow, SetModeGet, SetModeList, SetPaletteGet,
                  SetPaletteList, PollGet, PollPut, KickGet, KickRemove, KickBar, Put, Goes, GoesWith, Ends
    <2> QED  BY <1>1, <2>1, <2>2
  <1>5. ASSUME NEW k \in Lanes, Orchestrate(k) PROVE room'.status = "lobby"
    <2>1. CASE k # l
      <3>1. \E r : serving' = [serving EXCEPT ![k] = r]
        BY <1>5 DEF Orchestrate, SelectSet, StartList, CallEngine, WritesStatus, ExitFails, Goes, Ends
      <3> QED  BY <1>1, <2>1, <3>1
    <2>2. CASE k = l
      <3>1. ASSUME NEW step, Goes(l, step) PROVE FALSE
        <4>1. serving'[l].does = "exit"
          BY <1>1, <3>1 DEF Goes, Fields
        <4> QED  BY <4>1 DEF Idle
      <3> QED  BY <1>5, <2>2, <3>1 DEF Orchestrate, SelectSet, StartList, CallEngine, WritesStatus, At,
                  ExitFails, Swallows, SetStatus, Table
    <2> QED  BY <2>1, <2>2
  <1>6. CASE \E k \in Lanes : CallFails(k)
    BY <1>6 DEF CallFails, Table
  <1>7. CASE SeatsLapse \/ Crash
    BY <1>7 DEF SeatsLapse, Crash, Table
  <1>8. CASE GameEnds \/ SessionLapses
    BY <1>1, <1>8 DEF GameEnds, SessionLapses
  <1> QED  BY <1>3, <1>4, <1>5, <1>6, <1>7, <1>8 DEF Next, Step

\* service.ts:451-456: whatever the engine knew of the game, an exit that was answered
\* leaves the room in the lobby.
THEOREM ExitsEndInTheLobby == Spec => ExitEndsInTheLobby
  <1>1. ASSUME SeatInv, RoomInv, [Next]_vars
        PROVE  [\A l \in Lanes :
                  serving[l].does = "exit" /\ serving'[l] = Idle /\ faults' = faults =>
                      room'.status = "lobby"]_vars
    BY <1>1, ExitsSettle DEF RoomInv
  <1> QED  BY <1>1, RoomInvHolds, PTL DEF Spec, ExitEndsInTheLobby

-----------------------------------------------------------------------------
(* The host's page.                                                        *)

PageFields == {"view", "kept", "stored", "player", "crowd", "game", "token", "fetch"}
LoadFields == {"at", "view", "player", "crowd"}
TapFields  == {"does", "at", "ok", "view"}

PageShape ==
    /\ DOMAIN page = PageFields /\ page.game \in Games
    /\ DOMAIN loads = Slots /\ \A i \in Slots : DOMAIN loads[i] = LoadFields
    /\ DOMAIN tap = TapFields

\* A tap waits for its answer, which says when it was served.
TapKept ==
    /\ tap.does \in Acts \cup {"nothing", "choose", "mode"}
    /\ tap.does = "nothing" => tap = NoTap
    /\ tap.at = "asked" => ~tap.ok
    /\ tap.does \in Acts /\ tap.ok => tap.view \in since /\ room \in since

\* All that can still come to the page is of the time since its last act.
Recent(view) == view \in fresh \cup {NoView}
PageKept ==
    /\ Opened => room \in fresh
    /\ ~Opened => loads = Silence /\ tap = NoTap
    /\ Recent(page.view) /\ Recent(page.kept) /\ Recent(page.stored)
    /\ \A i \in Slots : loads[i].at \in {"seen", "resumed"} => loads[i].view \in fresh

PageInv == PageShape /\ TapKept /\ PageKept

-----------------------------------------------------------------------------
(* The page.                                                               *)

LEMMA RenderedKeeps ==
  ASSUME NEW q, DOMAIN q = PageFields
  PROVE  /\ DOMAIN Rendered(q) = PageFields
         /\ Rendered(q).view = q.view /\ Rendered(q).kept = q.kept
         /\ Rendered(q).stored = q.stored /\ Rendered(q).game = q.game
  BY DEF Rendered, PageFields

LEMMA HydratedHolds ==
  ASSUME NEW v, NEW p
  PROVE  /\ DOMAIN Hydrated(v, p) = PageFields /\ Hydrated(v, p).game \in Games
         /\ Hydrated(v, p).view = v /\ Hydrated(v, p).kept = v /\ Hydrated(v, p).stored = v
  BY PagesAssumption DEF Hydrated, SeedGame, PageFields

LEMMA LoadsHold ==
  /\ DOMAIN Silence = Slots /\ DOMAIN FirstLoad = Slots
  /\ \A i \in Slots : DOMAIN Silence[i] = LoadFields /\ DOMAIN FirstLoad[i] = LoadFields
  /\ \A i \in Slots : Silence[i].at = "none" /\ FirstLoad[i].at \in {"none", "room"}
  /\ 1 \in Slots
  BY PagesAssumption DEF Silence, FirstLoad, Slots, NoLoad, LoadFields

LEMMA InitHolds == PagesInit => PageInv
  BY HydratedHolds, LoadsHold
  DEF PagesInit, PageInv, PageShape, TapKept, PageKept, Recent, NoTap, TapFields

-----------------------------------------------------------------------------
(* Steps.                                                                  *)

LEMMA FreshLasts ==
  ASSUME PageInv, Recall, ~Told, repertoire' = repertoire
  PROVE  fresh \subseteq fresh' /\ (Opened => room' \in fresh') /\ Opened' = Opened
  BY DEF Recall, Opened

LEMMA TapWaits ==
  ASSUME PageInv, Recall, tap' = tap
  PROVE  TapKept' /\ ~Told
  <1>1. ~Served /\ ~Told
    BY DEF PageInv, TapKept, Served, Told, NoTap, Acts
  <1>2. ASSUME tap.does \in Acts, tap.ok PROVE tap.view \in since' /\ room' \in since'
    <2>1. tap # NoTap /\ since # {}
      BY <1>2 DEF PageInv, TapKept, NoTap
    <2> QED  BY <1>1, <1>2, <2>1 DEF PageInv, TapKept, Recall
  <1> QED  BY <1>1, <1>2 DEF PageInv, TapKept

\* The tap waits and the page shows no other room.
LEMMA LoadsKeep ==
  ASSUME PageInv, Recall, UNCHANGED <<page, tap>>, repertoire' = repertoire,
         DOMAIN loads' = Slots, \A i \in Slots : DOMAIN loads'[i] = LoadFields,
         ~Opened => loads' = Silence,
         \A i \in Slots : loads'[i].at \in {"seen", "resumed"} =>
            loads'[i].view \in fresh \cup {room} \/ loads'[i] = loads[i],
         Opened \/ loads' = loads
  PROVE  PageInv'
  <1>1. TapKept' /\ ~Told
    BY TapWaits
  <1>2. fresh \subseteq fresh' /\ (Opened => room' \in fresh') /\ Opened' = Opened
    BY <1>1, FreshLasts
  <1>3. PageShape'
    BY DEF PageInv, PageShape
  <1>4. \A i \in Slots : loads'[i].at \in {"seen", "resumed"} => loads'[i].view \in fresh'
    BY <1>2 DEF PageInv, PageKept
  <1> QED  BY <1>1, <1>2, <1>3, <1>4 DEF PageInv, PageKept, Recent

LEMMA AsksKeep ==
  ASSUME PageInv, Recall, UNCHANGED vars, NEW i \in Slots, Poll(i) \/ ServesLoad(i) \/ LoadFails(i)
  PROVE  PageInv'
  <1>1. Opened \/ loads' = loads
    <2>1. ASSUME ~Opened PROVE loads[i] = NoLoad
      BY <2>1 DEF PageInv, PageKept, Silence
    <2> QED  BY <2>1 DEF Poll, ServesLoad, LoadFails, NoLoad
  <1>2. /\ DOMAIN loads' = Slots /\ \A k \in Slots : DOMAIN loads'[k] = LoadFields
        /\ \A k \in Slots : loads'[k].at \in {"seen", "resumed"} =>
              loads'[k].view = room \/ loads'[k] = loads[k]
    <2>1. DOMAIN loads = Slots /\ \A k \in Slots : DOMAIN loads[k] = LoadFields
      BY DEF PageInv, PageShape
    <2>2. CASE Poll(i)
      BY <2>1, <2>2 DEF Poll, LoadFields
    <2>3. CASE ServesLoad(i)
      BY <2>1, <2>3 DEF ServesLoad, LoadFields
    <2>4. CASE LoadFails(i)
      BY <2>1, <2>4 DEF LoadFails, LoadFields, NoLoad
    <2> QED  BY <2>2, <2>3, <2>4
  <1>3. UNCHANGED <<page, tap, repertoire>>
    BY DEF Poll, ServesLoad, LoadFails, vars
  <1>4. ~Opened => loads' = Silence
    BY <1>1 DEF PageInv, PageKept
  <1> QED  BY <1>1, <1>2, <1>3, <1>4, LoadsKeep

\* The tap waits, and what the page now shows and listens to is recent.
LEMMA PageKeeps ==
  ASSUME PageInv, Recall, tap' = tap, repertoire' = repertoire,
         DOMAIN page' = PageFields, page'.game \in Games,
         DOMAIN loads' = Slots, \A i \in Slots : DOMAIN loads'[i] = LoadFields,
         ~Opened => loads' = Silence,
         Recent(page'.view), Recent(page'.kept), Recent(page'.stored),
         \A i \in Slots : loads'[i].at \in {"seen", "resumed"} => loads'[i].view \in fresh
  PROVE  PageInv'
  <1>1. TapKept' /\ ~Told
    BY TapWaits
  <1>2. fresh \subseteq fresh' /\ (Opened => room' \in fresh') /\ Opened' = Opened
    BY <1>1, FreshLasts
  <1>3. PageShape'
    BY DEF PageInv, PageShape
  <1>4. \A i \in Slots : loads'[i].at \in {"seen", "resumed"} => loads'[i].view \in fresh'
    BY <1>2
  <1> QED  BY <1>1, <1>2, <1>3, <1>4 DEF PageInv, PageKept, Recent

LEMMA AnswersKeep ==
  ASSUME PageInv, Recall, UNCHANGED vars, NEW i \in Slots, GetsRoom(i) \/ GetsMembers(i) \/ GetsSeat(i)
  PROVE  PageInv'
  <1>1. Opened
    BY DEF PageInv, PageKept, Silence, NoLoad, GetsRoom, GetsMembers, GetsSeat
  <1>2. /\ DOMAIN page = PageFields /\ page.game \in Games
        /\ DOMAIN loads = Slots /\ \A k \in Slots : DOMAIN loads[k] = LoadFields
        /\ Recent(page.view) /\ Recent(page.kept) /\ Recent(page.stored)
        /\ \A k \in Slots : loads[k].at \in {"seen", "resumed"} => loads[k].view \in fresh
    BY DEF PageInv, PageShape, PageKept
  <1>3. tap' = tap /\ repertoire' = repertoire
    BY DEF GetsRoom, GetsMembers, GetsSeat, vars
  <1>4. CASE GetsRoom(i)
    <2>1. PICK q : /\ q = [page EXCEPT !.view = loads[i].view, !.stored = loads[i].view]
                   /\ page' = Rendered(q)
      BY <1>4 DEF GetsRoom
    <2>2. /\ DOMAIN q = PageFields /\ q.game = page.game /\ q.kept = page.kept
          /\ q.view = loads[i].view /\ q.stored = loads[i].view
      BY <1>2, <2>1 DEF PageFields
    <2>3. loads[i].view \in fresh
      BY <1>2, <1>4 DEF GetsRoom
    <2>4. /\ DOMAIN page' = PageFields /\ page'.game = page.game /\ page'.kept = page.kept
          /\ page'.view = loads[i].view /\ page'.stored = loads[i].view
      BY <2>1, <2>2, RenderedKeeps
    <2>5. /\ DOMAIN loads' = Slots /\ \A k \in Slots : DOMAIN loads'[k] = LoadFields
          /\ \A k \in Slots : loads'[k].at \in {"seen", "resumed"} => loads'[k] = loads[k]
      BY <1>2, <1>4 DEF GetsRoom, NoLoad, LoadFields
    <2> QED  BY <1>1, <1>2, <1>3, <2>3, <2>4, <2>5, PageKeeps DEF Recent
  <1>5. CASE GetsMembers(i)
    <2>1. PICK q : q = [page EXCEPT !.crowd = loads[i].crowd] /\ page' = Rendered(q)
      BY <1>5 DEF GetsMembers
    <2>2. /\ DOMAIN q = PageFields /\ q.game = page.game /\ q.kept = page.kept
          /\ q.view = page.view /\ q.stored = page.stored
      BY <1>2, <2>1 DEF PageFields
    <2>3. /\ DOMAIN page' = PageFields /\ page'.game = page.game /\ page'.kept = page.kept
          /\ page'.view = page.view /\ page'.stored = page.stored
      BY <2>1, <2>2, RenderedKeeps
    <2>4. /\ DOMAIN loads' = Slots /\ \A k \in Slots : DOMAIN loads'[k] = LoadFields
          /\ \A k \in Slots : loads'[k].at \in {"seen", "resumed"} => loads'[k] = loads[k]
      BY <1>2, <1>5 DEF GetsMembers, NoLoad, LoadFields
    <2> QED  BY <1>1, <1>2, <1>3, <2>3, <2>4, PageKeeps
  <1>6. CASE GetsSeat(i)
    BY <1>1, <1>2, <1>3, <1>6, HydratedHolds, LoadsHold, PageKeeps DEF GetsSeat, Recent
  <1> QED  BY <1>4, <1>5, <1>6

LEMMA TokenKeeps ==
  ASSUME PageInv, Recall, UNCHANGED vars, MintsToken \/ GetsToken \/ TokenFails \/ RefreshToken
  PROVE  PageInv'
  <1>1. tap' = tap /\ loads' = loads /\ repertoire' = repertoire
    BY DEF MintsToken, GetsToken, TokenFails, RefreshToken, vars
  <1>2. /\ DOMAIN page' = DOMAIN page /\ page'.game = page.game /\ page'.kept = page.kept
        /\ page'.view = page.view /\ page'.stored = page.stored
    <2>1. DOMAIN page = PageFields
      BY DEF PageInv, PageShape
    <2> QED  BY <2>1 DEF MintsToken, GetsToken, TokenFails, RefreshToken, PageFields
  <1> QED  BY <1>1, <1>2, PageKeeps DEF PageInv, PageShape, PageKept

\* A tap begins: nothing was served yet.
LEMMA TellsKeeps ==
  ASSUME PageInv, Recall, Remember, NEW does \in Acts \cup {"choose", "mode"},
         NEW request, NEW first, NEW arg, Tells(does, request, first, arg),
         DOMAIN page' = PageFields, page'.game \in Games,
         UNCHANGED <<page.view, page.kept, page.stored>>
  PROVE  PageInv'
  <1>1. tap' = [NoTap EXCEPT !.does = does] /\ loads' = loads /\ repertoire' = repertoire /\ Opened
    BY DEF Tells, Remember
  <1>2. /\ DOMAIN tap' = TapFields /\ tap'.does = does /\ tap'.at = "asked" /\ ~tap'.ok
        /\ tap' # NoTap
    BY <1>1 DEF NoTap, TapFields, Acts
  <1>3. TapKept' /\ ~Told
    BY <1>2 DEF TapKept, Told, Acts
  <1>4. fresh \subseteq fresh' /\ (Opened => room' \in fresh') /\ Opened' = Opened
    BY <1>1, <1>3, FreshLasts
  <1>5. PageShape'
    BY <1>1, <1>2 DEF PageInv, PageShape
  <1> QED  BY <1>1, <1>3, <1>4, <1>5 DEF PageInv, PageKept, Recent

LEMMA TapsKeep ==
  ASSUME PageInv, Recall, Remember, Picks \/ Chooses \/ Starts \/ Exits \/ ChangesMode
  PROVE  PageInv'
  <1>1. DOMAIN page = PageFields /\ page.game \in Games
    BY DEF PageInv, PageShape
  <1>2. CASE Picks
    <2>1. PICK g \in Games : Tells("pick", "select", "set", g) /\ page' = [page EXCEPT !.game = g]
      BY <1>2 DEF Picks
    <2>2. /\ DOMAIN page' = PageFields /\ page'.game = g
          /\ page'.view = page.view /\ page'.kept = page.kept /\ page'.stored = page.stored
      BY <1>1, <2>1 DEF PageFields
    <2> QED  BY <2>1, <2>2, TellsKeeps DEF Acts
  <1>3. CASE Chooses
    BY <1>1, <1>3, TellsKeeps DEF Chooses
  <1>4. CASE Starts
    BY <1>1, <1>4, TellsKeeps DEF Starts, Acts
  <1>5. CASE Exits
    BY <1>1, <1>5, TellsKeeps DEF Exits, Acts
  <1>6. CASE ChangesMode
    BY <1>1, <1>6, TellsKeeps DEF ChangesMode
  <1> QED  BY <1>2, <1>3, <1>4, <1>5, <1>6

\* A step of the world: the page is as it was, and the tap may have been served.
LEMMA ServedKeeps ==
  ASSUME PageInv, Recall, Remember, UNCHANGED <<page, loads>>,
         \/ tap' = tap
         \/ /\ tap # NoTap /\ DOMAIN tap' = TapFields /\ tap'.does = tap.does /\ tap'.at = "answered"
            /\ tap'.ok => (tap.at = "asked" /\ tap'.view = room') \/ (tap.ok /\ tap'.view = tap.view)
  PROVE  PageInv'
  <1>1. repertoire' = repertoire
    BY DEF Remember
  <1>2. CASE tap' = tap
    BY <1>1, <1>2, PageKeeps DEF PageInv, PageShape, PageKept
  <1>3. CASE tap' # tap
    <2>1. /\ tap # NoTap /\ DOMAIN tap' = TapFields /\ tap'.does = tap.does /\ tap'.at = "answered"
          /\ tap'.ok => (tap.at = "asked" /\ tap'.view = room') \/ (tap.ok /\ tap'.view = tap.view)
      BY <1>3
    <2>2. tap' # NoTap
      BY <2>1 DEF NoTap
    <2>3. ASSUME tap.does \in Acts, tap'.ok PROVE tap'.view \in since' /\ room' \in since'
      <3>1. CASE Served
        BY <2>1, <3>1 DEF Served, Recall, PageInv, TapKept
      <3>2. CASE ~Served
        BY <2>1, <2>2, <2>3, <3>2 DEF Served, Recall, PageInv, TapKept
      <3> QED  BY <3>1, <3>2
    <2>4. TapKept'
      BY <2>1, <2>3 DEF PageInv, TapKept
    <2>5. ~Told
      BY <2>2 DEF Told
    <2>6. fresh \subseteq fresh' /\ (Opened => room' \in fresh') /\ Opened' = Opened
      BY <1>1, <2>5, FreshLasts
    <2>7. Opened
      BY <2>1 DEF PageInv, PageKept
    <2> QED  BY <2>1, <2>4, <2>6, <2>7 DEF PageInv, PageShape, PageKept, Recent
  <1> QED  BY <1>2, <1>3

LEMMA LanesKeep ==
  ASSUME PageInv, Recall, Remember, ServesTap \/ Elsewhere \/ Crashes
  PROVE  PageInv'
  <1>1. DOMAIN tap = TapFields
    BY DEF PageInv, PageShape
  <1>2. CASE ServesTap
    <2>1. UNCHANGED <<page, loads>>
      BY <1>2 DEF ServesTap
    <2>2. CASE tap' = tap
      BY <2>1, <2>2, ServedKeeps
    <2>3. CASE tap' # tap
      <3>1. PICK done : /\ tap # NoTap /\ tap.at = "asked"
                        /\ tap' = [tap EXCEPT !.at = "answered", !.ok = done, !.view = room']
        BY <1>2, <2>3 DEF ServesTap
      <3>2. /\ DOMAIN tap' = TapFields /\ tap'.does = tap.does /\ tap'.at = "answered"
            /\ tap'.view = room'
        BY <1>1, <3>1 DEF TapFields
      <3> QED  BY <2>1, <3>1, <3>2, ServedKeeps
    <2> QED  BY <2>2, <2>3
  <1>3. CASE Elsewhere
    BY <1>3, ServedKeeps DEF Elsewhere, pages
  <1>4. CASE Crashes
    BY <1>1, <1>4, ServedKeeps DEF Crashes, TapFields
  <1> QED  BY <1>2, <1>3, <1>4

LEMMA LostKeeps ==
  ASSUME PageInv, Recall, UNCHANGED vars, AnswerLost
  PROVE  PageInv'
  <1>1. DOMAIN tap = TapFields /\ tap.at = "answered" /\ tap.does \in Acts \cup {"choose", "mode"}
    BY DEF AnswerLost, PageInv, PageShape, TapKept, NoTap
  <1>2. DOMAIN tap' = TapFields /\ tap'.does = tap.does /\ tap'.at = "answered" /\ ~tap'.ok
    BY <1>1 DEF AnswerLost, TapFields
  <1>3. TapKept' /\ ~Told
    BY <1>1, <1>2 DEF TapKept, Told, NoTap, Acts
  <1>4. repertoire' = repertoire /\ UNCHANGED <<page, loads>> /\ Opened
    BY <1>1 DEF AnswerLost, vars, PageInv, PageKept, NoTap
  <1>5. fresh \subseteq fresh' /\ (Opened => room' \in fresh') /\ Opened' = Opened
    BY <1>3, <1>4, FreshLasts
  <1> QED  BY <1>2, <1>3, <1>4, <1>5 DEF PageInv, PageShape, PageKept, Recent

LEMMA NoTapIsKept ==
  ASSUME tap' = NoTap
  PROVE  DOMAIN tap' = TapFields /\ TapKept'
  BY DEF NoTap, TapFields, TapKept, Acts

LEMMA ReloadKeeps ==
  ASSUME PageInv, mishaps \in Nat, Recall, UNCHANGED vars, Reload
  PROVE  PageInv'
  <1>1. repertoire' = repertoire /\ Opened /\ tap' = NoTap /\ ~Told
    BY DEF Reload, vars, Told
  <1>2. fresh \subseteq fresh' /\ (Opened => room' \in fresh') /\ Opened' = Opened
    BY <1>1, FreshLasts
  <1>3. /\ DOMAIN page' = PageFields /\ page'.game \in Games
        /\ Recent(page'.view) /\ Recent(page'.kept) /\ Recent(page'.stored)
    BY HydratedHolds DEF Reload, PageInv, PageKept, Recent
  <1>4. /\ DOMAIN loads' = Slots /\ \A i \in Slots : DOMAIN loads'[i] = LoadFields
        /\ \A i \in Slots : loads'[i].at \notin {"seen", "resumed"}
    BY LoadsHold DEF Reload, LoadFields
  <1> QED  BY <1>1, <1>2, <1>3, <1>4, NoTapIsKept DEF PageInv, PageShape, PageKept, Recent

\* The page is told: what was on its way to it is dropped.
LEMMA HearsKeeps ==
  ASSUME PageInv, Recall, UNCHANGED vars, Hears
  PROVE  PageInv'
  <1>1. repertoire' = repertoire /\ room' = room /\ tap' = NoTap /\ Opened /\ Opened' = Opened
    BY DEF Hears, vars, store, PageInv, PageKept, NoTap, Opened
  <1>2. DOMAIN page = PageFields /\ page.game \in Games
    BY DEF PageInv, PageShape
  <1>3. CASE tap.ok /\ tap.does # "mode"
    <2>1. tap.does \in Acts /\ tap.at = "answered"
      BY <1>3 DEF Hears, PageInv, TapKept, NoTap
    <2>2. tap.view \in fresh' /\ room' \in fresh'
      BY <1>1, <1>3, <2>1 DEF Hears, Told, Recall, PageInv, TapKept
    <2>3. PICK q : /\ q = [page EXCEPT !.view = tap.view, !.kept = tap.view, !.stored = tap.view]
                   /\ page' = Rendered(q) /\ loads' = FirstLoad
      BY <1>3 DEF Hears, Persist, Repolls
    <2>4. /\ DOMAIN q = PageFields /\ q.game = page.game
          /\ q.view = tap.view /\ q.kept = tap.view /\ q.stored = tap.view
      BY <1>2, <2>3 DEF PageFields
    <2>5. /\ DOMAIN page' = PageFields /\ page'.game = page.game
          /\ page'.view = tap.view /\ page'.kept = tap.view /\ page'.stored = tap.view
      BY <2>3, <2>4, RenderedKeeps
    <2> QED  BY <1>1, <1>2, <2>2, <2>3, <2>5, LoadsHold, NoTapIsKept
             DEF PageInv, PageShape, PageKept, Recent
  <1>4. CASE ~(tap.ok /\ tap.does # "mode")
    <2>1. ~Told
      BY <1>4 DEF Told, Acts
    <2>2. fresh \subseteq fresh' /\ (Opened => room' \in fresh')
      BY <1>1, <2>1, FreshLasts
    <2>3. CASE tap.ok
      <3>1. page' = [page EXCEPT !.stored = page.kept] /\ loads' = FirstLoad
        BY <1>4, <2>3 DEF Hears, Repolls
      <3>2. /\ DOMAIN page' = PageFields /\ page'.game = page.game
            /\ page'.view = page.view /\ page'.kept = page.kept /\ page'.stored = page.kept
        BY <1>2, <3>1 DEF PageFields
      <3> QED  BY <1>1, <1>2, <2>2, <3>1, <3>2, LoadsHold, NoTapIsKept
               DEF PageInv, PageShape, PageKept, Recent
    <2>4. CASE ~tap.ok
      <3>1. page' = page /\ loads' = loads
        BY <2>4 DEF Hears
      <3> QED  BY <1>1, <2>2, <3>1, NoTapIsKept DEF PageInv, PageShape, PageKept, Recent
    <2> QED  BY <2>3, <2>4
  <1> QED  BY <1>3, <1>4

Counted == mishaps \in Nat

LEMMA MishapsGrow ==
  ASSUME [NextPages]_allVars
  PROVE  mishaps' = mishaps \/ mishaps' = mishaps + 1
  BY DEF NextPages, allVars, pages, PageStep, Poll, ServesLoad, GetsRoom, GetsMembers, GetsSeat,
         LoadFails, MintsToken, GetsToken, TokenFails, RefreshToken, Hears, AnswerLost, Reload,
         Picks, Chooses, Starts, Exits, ChangesMode, Tells, ServesTap, Elsewhere, Crashes

LEMMA MishapsCounted == SpecPages => []Counted
  <1>1. PagesInit => Counted
    BY DEF PagesInit, Counted
  <1>2. ASSUME Counted, [NextPages]_allVars PROVE Counted'
    BY <1>2, MishapsGrow DEF Counted
  <1> QED  BY <1>1, <1>2, PTL DEF SpecPages

LEMMA PageInvHolds == SpecPages => []PageInv
  <1>1. ASSUME PageInv, Counted, [NextPages]_allVars PROVE PageInv'
    <2>1. CASE UNCHANGED allVars
      <3>1. UNCHANGED <<page, loads, tap, room, repertoire, fresh, since>>
        BY <2>1 DEF allVars, pages, vars, store
      <3> QED  BY <1>1, <3>1 DEF PageInv, PageShape, TapKept, PageKept, Recent, Opened
    <2>2. CASE NextPages
      <3>1. Recall
        BY <2>2 DEF NextPages
      <3>2. CASE PageStep /\ UNCHANGED vars
        BY <1>1, <3>1, <3>2, AsksKeep, AnswersKeep, TokenKeeps, LostKeeps, ReloadKeeps, HearsKeeps
        DEF PageStep, Counted
      <3>3. CASE ~(PageStep /\ UNCHANGED vars)
        BY <1>1, <2>2, <3>1, <3>3, TapsKeep, LanesKeep DEF NextPages
      <3> QED  BY <3>2, <3>3
    <2> QED  BY <1>1, <2>1, <2>2
  <1> QED  BY <1>1, InitHolds, MishapsCounted, PTL DEF SpecPages

\* RoomClient.tsx:191-216, 276-287: what the host did stays on its page.
THEOREM OwnActsLast == SpecPages => []OwnActsStick
  <1>1. PageInv => OwnActsStick
    BY DEF PageInv, PageKept, Recent, OwnActsStick, InRoom
  <1> QED  BY <1>1, PageInvHolds, PTL

-----------------------------------------------------------------------------
(* The page asks nothing of the room that Rooms does not serve.            *)

LEMMA MineIsAHosts == Mine[2] = "tap" /\ By(Mine) \in HostSessions
  BY PagesAssumption DEF Mine, By

LEMMA TapsAsk ==
  ASSUME PageInv, Picks \/ Chooses \/ Starts \/ Exits \/ ChangesMode
  PROVE  Ask(Mine) \/ AskExit(Mine)
  <1>1. page.game \in Games
    BY DEF PageInv, PageShape
  <1>2. ASSUME NEW g \in Games, Arrives(Mine, "select", "set", g) PROVE Ask(Mine)
    BY <1>2, MineIsAHosts DEF Ask
  <1>3. ASSUME room.game # "none", Arrives(Mine, "start", "list", "none") PROVE Ask(Mine)
    BY <1>3, MineIsAHosts DEF Ask
  <1>4. ASSUME room.game # "none", Arrives(Mine, "exit", "engine", "none") PROVE AskExit(Mine)
    BY <1>4, MineIsAHosts DEF AskExit
  <1>5. ASSUME NEW wish \in Wishes, Arrives(Mine, "setMode", "get", wish) PROVE Ask(Mine)
    BY <1>5, MineIsAHosts DEF Ask
  <1> QED  BY <1>1, <1>2, <1>3, <1>4, <1>5 DEF Picks, Chooses, Starts, Exits, ChangesMode, Tells

\* RoomClient.tsx:289-403: whatever the page asks, the room of Rooms serves: what is
\* proved of Spec holds beside any page.
THEOREM PagesServeTheRoom == SpecPages => Spec
  <1>1. PagesInit => Init
    BY DEF PagesInit
  <1>2. ASSUME PageInv, [NextPages]_allVars PROVE [Next]_vars
    <2>1. Mine \in Lanes
      BY PagesAssumption
    <2>2. CASE UNCHANGED allVars
      BY <2>2 DEF allVars
    <2>3. CASE NextPages
      <3>1. CASE UNCHANGED vars
        BY <3>1
      <3>2. ASSUME Picks \/ Chooses \/ Starts \/ Exits \/ ChangesMode PROVE Step
        BY <1>2, <2>1, <3>2, TapsAsk DEF Step
      <3>3. ASSUME ServesTap \/ Elsewhere \/ Crashes PROVE Step
        BY <2>1, <3>3 DEF ServesTap, Elsewhere, Crashes, Step
      <3> QED  BY <2>3, <3>1, <3>2, <3>3 DEF NextPages, Next
    <2> QED  BY <1>2, <2>2, <2>3
  <1> QED  BY <1>1, <1>2, PageInvHolds, PTL DEF SpecPages, Spec

-----------------------------------------------------------------------------
(* A page that alone steers the room, of which nothing was lost.           *)

Undisturbed == Alone /\ faults + mishaps = 0

\* The owner keeps the seat of createRoom, and nobody asks what is not in the repertoire.
OwnerLane(l) ==
    /\ serving[l].does \in {"nothing"} \cup repertoire[l]
    /\ serving[l].does = "kick" => serving[l].arg # Owner
    /\ serving[l].does = "poll" => serving[l].at # "put"
    /\ By(l) = Owner /\ serving[l].does \in {"join", "setMode", "setPalette"} /\ serving[l].at \in {"list", "put"}
          => serving[l].row.player = 1
OwnerSits == seats[Owner].player = 1 /\ \A l \in Lanes : OwnerLane(l)

\* What the lane serves is the tap the page waits for.
RequestOf == [pick |-> "select", choose |-> "select", start |-> "start", exit |-> "exit", mode |-> "setMode"]
TapInHand ==
    serving[Mine] # Idle => tap # NoTap /\ tap.at = "asked" /\ serving[Mine].does = RequestOf[tap.does]

\* The rooms a page may still see are of one status, until its start or exit is served.
Agrees(v) == v.status = "running" => v.game = room.game
OneStatus ==
    /\ \A v \in fresh :
         /\ v.status \in {"lobby", "running"} /\ Agrees(v)
         /\ tap.does \in {"nothing", "mode"} => v.status = room.status
         /\ tap.does \in {"pick", "choose"} => v.status = "lobby"
         /\ tap.does = "start" /\ ~tap.ok => v.status = "lobby"
         /\ tap.does = "exit" /\ ~tap.ok => v.status = "running"
    /\ tap.does \in Acts /\ tap.ok => \A v \in since : v.status = room.status /\ Agrees(v)

\* The token is of the game the page shows, or on its way.
PageHeld(p) ==
    /\ p.player = 1 /\ p.crowd.host \in {0, 1}
    /\ ~WantsToken(p) => p.fetch = NoFetch /\ p.token = NoToken
    /\ p.fetch.at = "minted" => p.fetch.token = Token(p.view.game, 1)
    /\ p.token \in {NoToken, Token(p.view.game, 1)}
    /\ WantsToken(p) /\ p.fetch.at = "idle" => p.token = Token(p.view.game, 1)
TokenHeld ==
    /\ PageHeld(page)
    /\ \A i \in Slots : loads[i].at \notin {"resume", "resumed"} /\ loads[i].crowd.host \in {0, 1}

TokenInv ==
    Undisturbed => IF Opened THEN OwnerSits /\ TapInHand /\ OneStatus /\ TokenHeld ELSE ~Running(page)

-----------------------------------------------------------------------------
(* The owner's seat.                                                       *)

SoleHost == HostSessions = {Owner}
LanesSound == Shape /\ \A l \in Lanes : Lane(l)

LEMMA OwnerIsSomebody == Owner \in Sessions /\ Mine \in Lanes
  BY PagesAssumption, RoomsAssumption

LEMMA LaneFields ==
  ASSUME LanesSound, NEW l \in Lanes, serving[l] # Idle
  PROVE  /\ DOMAIN serving = Lanes /\ Fields \subseteq DOMAIN serving[l]
         /\ "player" \in DOMAIN serving[l].row /\ DOMAIN seats = Sessions
         /\ serving[l].does = "poll" => By(l) \in HostSessions
         /\ By(l) \in Sessions /\ "player" \in DOMAIN seats[By(l)]
  BY WhoAsks DEF LanesSound, Shape, Lane

LEMMA LanesApart ==
  ASSUME LanesSound, NEW m \in Lanes, Ask(m) \/ AskExit(m) \/ Seat(m) \/ Orchestrate(m)
  PROVE  \A l \in Lanes \ {m} : serving'[l] = serving[l]
  <1>1. DOMAIN serving = Lanes
    BY DEF LanesSound, Shape
  <1>2. CASE Ask(m) \/ AskExit(m)
    BY <1>1, <1>2 DEF Ask, AskExit, Arrives
  <1>3. CASE Seat(m)
    BY <1>1, <1>3 DEF Seat, JoinBarred, JoinGet, JoinList, WritesRow, SetModeGet, SetModeList, SetPaletteGet,
           SetPaletteList, PollGet, PollPut, KickGet, KickRemove, KickBar, Goes, GoesWith, Ends, Put
  <1>4. CASE Orchestrate(m)
    BY <1>1, <1>4 DEF Orchestrate, SelectSet, StartList, CallEngine, WritesStatus, Goes, Ends, ExitFails
  <1> QED  BY <1>2, <1>3, <1>4

LEMMA IdleOwnerLane == ASSUME NEW l \in Lanes, serving'[l] = Idle PROVE OwnerLane(l)'
  BY DEF OwnerLane, Idle

LEMMA OtherOwnerLanes ==
  ASSUME OwnerSits, repertoire' = repertoire, NEW m \in Lanes, OwnerLane(m)',
         \A l \in Lanes \ {m} : serving'[l] = serving[l]
  PROVE  \A l \in Lanes : OwnerLane(l)'
  <1>1. ASSUME NEW l \in Lanes \ {m} PROVE OwnerLane(l)'
    BY <1>1 DEF OwnerSits, OwnerLane
  <1> QED  BY <1>1

LEMMA AskSits ==
  ASSUME LanesSound, OwnerSits, SoleHost, repertoire' = repertoire, NEW m \in Lanes, Ask(m) \/ AskExit(m)
  PROVE  OwnerSits'
  <1>1. PICK does, first, arg :
          /\ Arrives(m, does, first, arg)
          /\ first \notin {"put"} /\ (first = "list" => does = "start")
          /\ does = "kick" => By(m) \in HostSessions /\ arg \in Others(By(m))
    BY DEF Ask, AskExit
  <1>2. serving'[m].does = does /\ serving'[m].at = first /\ serving'[m].arg = arg /\ does \in repertoire[m]
    BY <1>1 DEF Arrives, LanesSound, Shape
  <1>3. OwnerLane(m)'
    BY <1>1, <1>2 DEF OwnerLane, SoleHost, Others
  <1>4. \A l \in Lanes \ {m} : serving'[l] = serving[l]
    BY LanesApart
  <1>5. seats' = seats
    BY <1>1 DEF Arrives, store
  <1> QED  BY <1>3, <1>4, <1>5, OtherOwnerLanes DEF OwnerSits

LEMMA SeatSits ==
  ASSUME LanesSound, OwnerSits, SoleHost, repertoire' = repertoire, NEW m \in Lanes, Seat(m)
  PROVE  OwnerSits'
  <1>1. serving[m] # Idle
    BY DEF Seat, JoinBarred, JoinGet, JoinList, WritesRow, SetModeGet, SetModeList, SetPaletteGet,
           SetPaletteList, PollGet, PollPut, KickGet, KickRemove, KickBar, At
  <1>2. /\ DOMAIN serving = Lanes /\ Fields \subseteq DOMAIN serving[m]
        /\ "player" \in DOMAIN serving[m].row /\ DOMAIN seats = Sessions
        /\ serving[m].does = "poll" => By(m) \in HostSessions
        /\ By(m) \in Sessions /\ "player" \in DOMAIN seats[By(m)]
    BY <1>1, LaneFields
  <1>3. \A l \in Lanes \ {m} : serving'[l] = serving[l]
    BY LanesApart
  <1>4. OwnerLane(m) /\ seats[Owner].player = 1
    BY DEF OwnerSits
  <1>5. ASSUME JoinBarred(m) \/ JoinGet(m) \/ JoinList(m)
        PROVE  OwnerLane(m)' /\ seats' = seats
    <2>1. seats' = seats
      BY <1>5 DEF JoinBarred, JoinGet, JoinList, Reads, store
    <2>2. CASE serving'[m] = Idle
      BY <2>1, <2>2, IdleOwnerLane
    <2>3. CASE JoinBarred(m) /\ Goes(m, "get")
      BY <1>2, <1>4, <2>1, <2>3 DEF JoinBarred, Goes, At, OwnerLane, Fields
    <2>4. CASE JoinGet(m)
      <3>1. serving'[m].does = "join" /\ serving'[m].row = seats[By(m)]
        BY <1>2, <2>4 DEF JoinGet, GoesWith, At, Fields
      <3> QED  BY <1>4, <2>1, <2>4, <3>1 DEF JoinGet, At, OwnerLane
    <2>5. CASE JoinList(m)
      <3>1. PICK mode, palette :
              GoesWith(m, "put", [player |-> PlayerOf(serving[m].row), mode |-> mode, palette |-> palette])
        BY <2>5 DEF JoinList
      <3>2. serving'[m].does = "join" /\ serving'[m].row.player = PlayerOf(serving[m].row)
        BY <1>2, <2>5, <3>1 DEF JoinList, GoesWith, At, Fields
      <3>3. By(m) = Owner => PlayerOf(serving[m].row) = 1
        BY <1>4, <2>5 DEF JoinList, At, OwnerLane, PlayerOf, Seated
      <3> QED  BY <1>4, <2>1, <2>5, <3>2, <3>3 DEF JoinList, At, OwnerLane
    <2> QED  BY <1>2, <1>5, <2>2, <2>3, <2>4, <2>5 DEF JoinBarred, Ends
  <1>6. ASSUME SetModeGet(m) \/ SetModeList(m) \/ SetPaletteGet(m) \/ SetPaletteList(m)
        PROVE  OwnerLane(m)' /\ seats' = seats
    <2>1. seats' = seats
      BY <1>6 DEF SetModeGet, SetModeList, SetPaletteGet, SetPaletteList, Reads, store
    <2>2. CASE serving'[m] = Idle
      BY <2>1, <2>2, IdleOwnerLane
    <2>3. CASE serving'[m] # Idle
      <3>1. serving'[m] # Idle => serving'[m].does = serving[m].does /\ serving[m].does \in {"setMode", "setPalette"}
        BY <1>2, <1>6 DEF SetModeGet, SetModeList, SetPaletteGet, SetPaletteList, Goes, GoesWith, Ends, At, Fields
      <3>2. CASE SetModeGet(m) \/ SetPaletteGet(m)
        <4>1. serving'[m].row.player = seats[By(m)].player
          BY <1>2, <2>3, <3>2 DEF SetModeGet, SetPaletteGet, GoesWith, Ends, Fields
        <4> QED  BY <1>4, <2>1, <2>3, <3>1, <4>1 DEF OwnerLane
      <3>3. CASE SetModeList(m) \/ SetPaletteList(m)
        <4>1. serving'[m].row = serving[m].row /\ serving[m].at = "list"
          BY <1>2, <2>3, <3>3 DEF SetModeList, SetPaletteList, Goes, Ends, Fields, At
        <4> QED  BY <1>4, <2>1, <2>3, <3>1, <4>1 DEF OwnerLane
      <3> QED  BY <1>6, <3>2, <3>3
    <2> QED  BY <2>2, <2>3
  <1>7. ASSUME WritesRow(m)
        PROVE  OwnerLane(m)' /\ seats'[Owner].player = 1
    <2>1. seats' = [seats EXCEPT ![By(m)] = serving[m].row] /\ serving'[m] = Idle
      BY <1>2, <1>7 DEF WritesRow, Put, Ends
    <2>2. By(m) = Owner => serving[m].row.player = 1
      BY <1>4, <1>7 DEF WritesRow, At, OwnerLane
    <2> QED  BY <1>2, <1>4, <2>1, <2>2, IdleOwnerLane
  <1>8. ASSUME PollGet(m) \/ PollPut(m)
        PROVE  OwnerLane(m)' /\ seats' = seats
    BY <1>2, <1>4, <1>8, IdleOwnerLane
    DEF PollGet, PollPut, At, SoleHost, Seated, Ends, Reads, store, OwnerLane
  <1>9. ASSUME KickGet(m) \/ KickRemove(m) \/ KickBar(m)
        PROVE  OwnerLane(m)' /\ seats'[Owner].player = 1
    <2>1. serving[m].does = "kick" /\ serving[m].arg # Owner
      BY <1>4, <1>9 DEF KickGet, KickRemove, KickBar, At, OwnerLane
    <2>2. serving'[m] = Idle \/ (serving'[m].does = "kick" /\ serving'[m].arg = serving[m].arg)
      BY <1>2, <1>9, <2>1 DEF KickGet, KickRemove, KickBar, Goes, Ends, Fields
    <2>3. OwnerLane(m)'
      BY <1>4, <2>1, <2>2, IdleOwnerLane DEF OwnerLane
    <2>4. seats'[Owner] = seats[Owner]
      BY <1>2, <1>9, <2>1, OwnerIsSomebody DEF KickGet, KickRemove, KickBar, Reads, store
    <2> QED  BY <1>4, <2>3, <2>4
  <1>10. OwnerLane(m)' /\ seats'[Owner].player = 1
    BY <1>4, <1>5, <1>6, <1>7, <1>8, <1>9 DEF Seat
  <1> QED  BY <1>3, <1>10, OtherOwnerLanes DEF OwnerSits

LEMMA OrchestrateSits ==
  ASSUME LanesSound, OwnerSits, repertoire' = repertoire, NEW m \in Lanes, Orchestrate(m)
  PROVE  OwnerSits'
  <1>1. serving[m] # Idle /\ serving[m].does \in {"select", "start", "exit", "restart"} /\ seats' = seats
    BY DEF Orchestrate, SelectSet, StartList, CallEngine, WritesStatus, At, Reads, store
  <1>2. DOMAIN serving = Lanes /\ Fields \subseteq DOMAIN serving[m] /\ OwnerLane(m)
    BY <1>1, LaneFields DEF OwnerSits
  <1>3. \A l \in Lanes \ {m} : serving'[l] = serving[l]
    BY LanesApart
  <1>4. serving'[m] = Idle \/ serving'[m].does = serving[m].does
    BY <1>2 DEF Orchestrate, SelectSet, StartList, CallEngine, WritesStatus, Goes, Ends, ExitFails, Fields
  <1>5. OwnerLane(m)'
    BY <1>1, <1>2, <1>4, IdleOwnerLane DEF OwnerLane
  <1> QED  BY <1>1, <1>3, <1>5, OtherOwnerLanes DEF OwnerSits

\* Only a fault unseats the owner.
LEMMA OwnerStays ==
  ASSUME LanesSound, OwnerSits, SoleHost, repertoire' = repertoire, Step, faults \in Nat, faults' = faults
  PROVE  OwnerSits'
  <1>1. ASSUME NEW m \in Lanes, Ask(m) \/ AskExit(m) \/ Seat(m) \/ Orchestrate(m) PROVE OwnerSits'
    BY <1>1, AskSits, SeatSits, OrchestrateSits
  <1>2. ASSUME GameEnds \/ SessionLapses PROVE OwnerSits'
    BY <1>2 DEF GameEnds, SessionLapses, OwnerSits, OwnerLane
  <1> QED  BY <1>1, <1>2 DEF Step, CallFails, SeatsLapse, Crash

-----------------------------------------------------------------------------
(* The room moves by the owner's tap alone.                                *)

LEMMA OthersLeaveTheRoom ==
  ASSUME OwnerSits, Alone, NEW l \in Lanes \ {Mine}, Orchestrate(l) \/ Seat(l) \/ Ask(l) \/ AskExit(l)
  PROVE  room' = room
  <1>1. serving[l].does \notin Steering
    BY DEF OwnerSits, OwnerLane, Alone, Steering
  <1>2. ~SelectSet(l) /\ ~WritesStatus(l)
    BY <1>1 DEF SelectSet, WritesStatus, At, Steering
  <1>3. Orchestrate(l) => room' = room
    BY <1>2 DEF Orchestrate, StartList, CallEngine, Reads, store
  <1>4. Seat(l) => room' = room
    BY DEF Seat, JoinBarred, JoinGet, JoinList, WritesRow, SetModeGet, SetModeList, SetPaletteGet,
           SetPaletteList, PollGet, PollPut, KickGet, KickRemove, KickBar, Reads, Put, store
  <1>5. Ask(l) \/ AskExit(l) => room' = room
    BY DEF Ask, AskExit, Arrives, store
  <1> QED  BY <1>3, <1>4, <1>5

\* How the request of a tap goes on, and what it does to the room when it ends.
RequestMoves(r) ==
    \/ room' = room /\ serving'[Mine] # Idle /\ serving'[Mine].does = r.does
    \/ /\ serving'[Mine] = Idle
       /\ \/ r.does = "select" /\ r.at = "set" /\ room'.status = room.status
          \/ r.does = "start" /\ r.at = "status" /\ room'.status = "running" /\ room'.game = room.game
          \/ r.does = "exit" /\ r.at = "status" /\ room'.status = "lobby" /\ room'.game = room.game
          \/ r.does \in {"start", "exit"} /\ r.at \notin {"set", "status", "put"} /\ room' = room
          \/ r.does \notin Steering /\ room' = room

LEMMA TapMoves ==
  ASSUME LanesSound, {"status", "game"} \subseteq DOMAIN room, Seat(Mine) \/ Orchestrate(Mine)
  PROVE  serving[Mine] # Idle /\ RequestMoves(serving[Mine])
  <1>1. serving[Mine] # Idle
    BY DEF Seat, JoinBarred, JoinGet, JoinList, WritesRow, SetModeGet, SetModeList, SetPaletteGet,
           SetPaletteList, PollGet, PollPut, KickGet, KickRemove, KickBar, At,
           Orchestrate, SelectSet, StartList, CallEngine, WritesStatus
  <1>2. Mine \in Lanes
    BY PagesAssumption
  <1>3. DOMAIN serving = Lanes /\ Fields \subseteq DOMAIN serving[Mine]
    BY <1>1, <1>2, LaneFields
  <1>4. ASSUME Seat(Mine) PROVE RequestMoves(serving[Mine])
    <2>1. room' = room /\ serving[Mine].does \notin Steering
      BY <1>4 DEF Seat, JoinBarred, JoinGet, JoinList, WritesRow, SetModeGet, SetModeList, SetPaletteGet,
           SetPaletteList, PollGet, PollPut, KickGet, KickRemove, KickBar, Reads, Put, store, At, Steering
    <2>2. serving'[Mine] = Idle \/ serving'[Mine].does = serving[Mine].does
      BY <1>2, <1>3, <1>4 DEF Seat, JoinBarred, JoinGet, JoinList, WritesRow, SetModeGet, SetModeList,
           SetPaletteGet, SetPaletteList, PollGet, PollPut, KickGet, KickRemove, KickBar,
           Goes, GoesWith, Ends, Put, Fields
    <2> QED  BY <2>1, <2>2 DEF RequestMoves
  <1>5. CASE SelectSet(Mine)
    BY <1>2, <1>3, <1>5 DEF SelectSet, At, Ends, RequestMoves
  <1>6. CASE StartList(Mine)
    <2>1. room' = room /\ serving[Mine].does = "start" /\ serving[Mine].at = "list"
      BY <1>6 DEF StartList, At, Reads, store
    <2>2. serving'[Mine] = Idle \/ serving'[Mine].does = serving[Mine].does
      BY <1>2, <1>3, <1>6 DEF StartList, Ends, Fields
    <2>3. serving[Mine].at \notin {"set", "status", "put"}
      BY <2>1
    <2> QED  BY <1>1, <2>1, <2>2, <2>3, Zenon DEF RequestMoves
  <1>7. CASE CallEngine(Mine)
    <2>1. room' = room /\ serving[Mine].does \in {"start", "exit", "restart"} /\ serving[Mine].at = "engine"
      BY <1>7 DEF CallEngine, At
    <2>2. serving'[Mine] = Idle \/ serving'[Mine].does = serving[Mine].does
      BY <1>2, <1>3, <1>7 DEF CallEngine, Ends, Goes, ExitFails, Fields
    <2>3. serving[Mine].at \notin {"set", "status", "put"}
      BY <2>1
    <2>4. serving[Mine].does = "restart" => serving[Mine].does \notin Steering
      BY DEF Steering
    <2> QED  BY <1>1, <2>1, <2>2, <2>3, <2>4, Zenon DEF RequestMoves
  <1>8. CASE WritesStatus(Mine)
    BY <1>2, <1>3, <1>8 DEF WritesStatus, SetStatus, At, Ends, RequestMoves
  <1> QED  BY <1>1, <1>4, <1>5, <1>6, <1>7, <1>8 DEF Orchestrate

\* Without a fault and a mishap nothing becomes disturbed that was not.
LEMMA FaultsGrow ==
  ASSUME Step
  PROVE  faults' = faults \/ faults' = faults + 1
  <1>1. ASSUME NEW l \in Lanes, Ask(l) \/ AskExit(l) PROVE faults' = faults
    BY <1>1 DEF Ask, AskExit, Arrives
  <1>2. ASSUME NEW l \in Lanes, Seat(l) PROVE faults' = faults
    BY <1>2 DEF Seat, JoinBarred, JoinGet, JoinList, WritesRow, SetModeGet, SetModeList, SetPaletteGet,
           SetPaletteList, PollGet, PollPut, KickGet, KickRemove, KickBar, Reads, Put
  <1>3. ASSUME NEW l \in Lanes, Orchestrate(l) PROVE faults' = faults
    BY <1>3 DEF Orchestrate, SelectSet, StartList, CallEngine, WritesStatus, Reads
  <1> QED  BY <1>1, <1>2, <1>3 DEF Step, CallFails, GameEnds, SessionLapses, SeatsLapse, Crash

LEMMA CalmBefore ==
  ASSUME Counted, Table, mishaps' = mishaps \/ mishaps' = mishaps + 1, Step \/ UNCHANGED vars,
         repertoire' = repertoire, Undisturbed'
  PROVE  Undisturbed /\ mishaps' = mishaps /\ faults' = faults /\ faults = 0 /\ mishaps = 0
  <1>1. faults' = faults \/ faults' = faults + 1
    BY FaultsGrow DEF vars
  <1>2. faults' = faults /\ mishaps' = mishaps /\ faults = 0 /\ mishaps = 0
    BY <1>1 DEF Counted, Table, Undisturbed
  <1> QED  BY <1>2 DEF Undisturbed, Alone

-----------------------------------------------------------------------------
(* The tap in hand and the status of the rooms it may see.                 *)

Calm == PageInv /\ LanesSound /\ Table /\ OwnerSits /\ TapInHand /\ OneStatus /\ Opened /\ Alone

LEMMA ViewsAgree ==
  ASSUME Calm
  PROVE  /\ room \in fresh /\ Agrees(page.view)
         /\ \A i \in Slots : loads[i].at = "seen" => Agrees(loads[i].view)
         /\ tap.does \in Acts /\ tap.ok => Agrees(tap.view)
         /\ InRoom => page.view \in fresh
  BY DEF Calm, PageInv, PageKept, TapKept, Recent, OneStatus, Agrees, NoView, InRoom

LEMMA StatusLasts ==
  ASSUME Calm, Recall, UNCHANGED <<room, tap, repertoire>>
  PROVE  OneStatus'
  <1>1. ~Served /\ ~Told
    BY DEF Calm, PageInv, TapKept, Served, Told, NoTap, Acts
  <1>2. fresh' = fresh \cup {room} /\ room \in fresh
    BY <1>1, ViewsAgree DEF Recall, Opened, Calm
  <1>3. tap.does \in Acts /\ tap.ok => since' = since \cup {room}
    BY <1>1 DEF Recall, Calm, PageInv, TapKept, NoTap
  <1> QED  BY <1>2, <1>3 DEF Calm, OneStatus, Agrees

LEMMA TellsOneStatus ==
  ASSUME Calm, Recall, NEW does, tap' = [NoTap EXCEPT !.does = does], UNCHANGED <<room, repertoire>>,
         \/ tap = NoTap /\ ~Running(page) /\ InRoom /\ does \in {"pick", "choose", "mode"}
         \/ tap = NoTap /\ Running(page) /\ InRoom /\ does = "exit"
         \/ tap.does = "choose" /\ does = "start"
  PROVE  OneStatus'
  <1>1. tap' # NoTap /\ tap'.does = does /\ ~tap'.ok
    BY DEF NoTap
  <1>2. ~Told
    BY <1>1 DEF Told
  <1>3. fresh' = fresh \cup {room} /\ room \in fresh
    BY <1>2, ViewsAgree DEF Recall, Opened, Calm
  <1>4. InRoom => page.view \in fresh
    BY ViewsAgree
  <1>5. tap = NoTap => tap.does = "nothing"
    BY DEF NoTap
  <1> QED  BY <1>1, <1>3, <1>4, <1>5 DEF Calm, OneStatus, Agrees, Running

LEMMA ServedOneStatus ==
  ASSUME Calm, Recall, repertoire' = repertoire, tap # NoTap, tap.at = "asked",
         NEW r, r.does = RequestOf[tap.does], RequestMoves(r), serving'[Mine] = Idle,
         tap' = [tap EXCEPT !.at = "answered", !.ok = r.at \in {"set", "status", "put"}, !.view = room']
  PROVE  OneStatus'
  <1>1. /\ tap.does \in Acts \cup {"choose", "mode"} /\ ~tap.ok
        /\ tap' # NoTap /\ tap'.does = tap.does /\ tap'.ok = (r.at \in {"set", "status", "put"})
        /\ tap'.at = "answered"
    BY DEF Calm, PageInv, PageShape, TapFields, TapKept, NoTap
  <1>2. ~Told
    BY <1>1 DEF Told
  <1>3. fresh' = fresh \cup {room'} /\ room \in fresh
    BY <1>2, ViewsAgree DEF Recall, Opened, Calm
  <1>4. tap.does \in Acts /\ tap'.ok => since' = {room'}
    BY <1>1 DEF Recall, Served
  <1>5. r.does # "nothing" /\ Idle.does = "nothing"
    BY <1>1 DEF RequestOf, Acts, Idle
  <1>6. CASE tap.does \in {"pick", "choose"}
    <2>1. r.does = "select" /\ room'.status = room.status
      BY <1>5, <1>6 DEF RequestMoves, RequestOf, Steering
    <2> QED  BY <1>1, <1>3, <1>4, <1>6, <2>1 DEF Calm, OneStatus, Agrees, Acts
  <1>7. CASE tap.does = "start"
    <2>1. r.does = "start"
      BY <1>7 DEF RequestOf
    <2>2. CASE r.at = "status"
      <3>1. room'.status = "running" /\ room'.game = room.game /\ tap'.ok
        BY <1>1, <1>5, <2>1, <2>2 DEF RequestMoves, Steering
      <3> QED  BY <1>1, <1>3, <1>4, <1>7, <3>1 DEF Calm, OneStatus, Agrees
    <2>3. CASE r.at # "status"
      <3>1. room' = room /\ ~tap'.ok
        BY <1>1, <1>5, <2>1, <2>3 DEF RequestMoves, Steering
      <3> QED  BY <1>1, <1>3, <1>4, <1>7, <3>1 DEF Calm, OneStatus, Agrees
    <2> QED  BY <2>2, <2>3
  <1>8. CASE tap.does = "exit"
    <2>1. r.does = "exit"
      BY <1>8 DEF RequestOf
    <2>2. CASE r.at = "status"
      <3>1. room'.status = "lobby" /\ room'.game = room.game /\ tap'.ok
        BY <1>1, <1>5, <2>1, <2>2 DEF RequestMoves, Steering
      <3> QED  BY <1>1, <1>3, <1>4, <1>8, <3>1 DEF Calm, OneStatus, Agrees
    <2>3. CASE r.at # "status"
      <3>1. room' = room /\ ~tap'.ok
        BY <1>1, <1>5, <2>1, <2>3 DEF RequestMoves, Steering
      <3> QED  BY <1>1, <1>3, <1>4, <1>8, <3>1 DEF Calm, OneStatus, Agrees
    <2> QED  BY <2>2, <2>3
  <1>9. CASE tap.does = "mode"
    <2>1. room' = room
      BY <1>5, <1>9 DEF RequestMoves, RequestOf, Steering
    <2> QED  BY <1>1, <1>3, <1>9, <2>1 DEF Calm, OneStatus, Agrees, Acts
  <1> QED  BY <1>1, <1>6, <1>7, <1>8, <1>9 DEF Acts

LEMMA HearsOneStatus ==
  ASSUME Calm, Recall, UNCHANGED vars, Hears
  PROVE  OneStatus'
  <1>1. room' = room /\ Opened' = Opened /\ tap' = NoTap /\ tap'.does = "nothing" /\ mishaps' = mishaps
    BY DEF Hears, vars, store, Opened, NoTap
  <1>2. room \in fresh
    BY ViewsAgree
  <1>3. CASE Told
    <2>1. fresh' = since \cup {room} /\ tap.does \in Acts /\ tap.ok
      BY <1>1, <1>3 DEF Told, Recall, Calm
    <2>2. \A v \in fresh' : v.status = room.status /\ Agrees(v)
      BY <1>2, <2>1 DEF Calm, OneStatus
    <2>3. room.status \in {"lobby", "running"} /\ tap'.does \notin Acts
      BY <1>1, <1>2 DEF Calm, OneStatus, Acts
    <2> QED  BY <1>1, <2>2, <2>3 DEF OneStatus, Agrees
  <1>4. CASE ~Told
    <2>1. fresh' = fresh
      BY <1>1, <1>2, <1>4 DEF Recall, Calm
    <2>2. ~(tap.does \in Acts /\ tap.ok) /\ ~(tap.does = "choose" /\ tap.ok)
      BY <1>1, <1>4 DEF Told, Hears
    <2>3. \A v \in fresh : v.status = room.status
      <3>1. tap.does \in {"nothing", "mode", "pick", "choose", "start", "exit"}
        BY DEF Calm, PageInv, TapKept, Acts
      <3> QED  BY <1>2, <2>2, <3>1 DEF Calm, OneStatus, Acts
    <2> QED  BY <1>1, <2>1, <2>3 DEF Calm, OneStatus, Agrees, Acts
  <1> QED  BY <1>3, <1>4

-----------------------------------------------------------------------------
(* The token.                                                              *)

LEMMA MeIsOne == ASSUME NEW p, PageHeld(p) PROVE Me(p) = 1
  BY DEF PageHeld, Me

LEMMA HeldLasts ==
  ASSUME NEW p, NEW q, PageHeld(p), q.view = p.view, q.player = p.player, q.crowd.host \in {0, 1},
         q.token = p.token, q.fetch = p.fetch
  PROVE  PageHeld(q)
  <1>1. Me(q) = 1 /\ Me(p) = 1
    BY DEF PageHeld, Me
  <1> QED  BY <1>1 DEF PageHeld, WantsToken, Running

\* What the page is told brings it another game only from the lobby.
LEMMA RenderedHeld ==
  ASSUME PageHeld(page), NEW q, DOMAIN q = PageFields, q.player = 1, q.crowd.host \in {0, 1},
         q.token = page.token, q.fetch = page.fetch,
         Running(page) /\ Running(q) => q.view.game = page.view.game
  PROVE  PageHeld(Rendered(q))
  <1>1. Me(q) = 1 /\ Me(page) = 1
    BY DEF PageHeld, Me
  <1>2. CASE TokenKey(q) = TokenKey(page)
    <2>1. Running(q) = Running(page) /\ q.view.game = page.view.game
      BY <1>2 DEF TokenKey
    <2> QED  BY <1>1, <1>2, <2>1 DEF Rendered, PageHeld, WantsToken
  <1>3. CASE TokenKey(q) # TokenKey(page) /\ WantsToken(q)
    <2>1. PICK r : r = [q EXCEPT !.fetch = Asked]
      OBVIOUS
    <2>2. /\ Rendered(q) = r /\ r.view = q.view /\ r.player = 1 /\ r.crowd = q.crowd /\ r.token = q.token
          /\ r.fetch.at = "asked"
      BY <1>3, <2>1 DEF Rendered, PageFields, Asked, NoFetch
    <2>3. ~WantsToken(page)
      BY <1>1, <1>3 DEF TokenKey, WantsToken, Running
    <2>4. r.token = NoToken /\ WantsToken(r)
      BY <1>1, <1>3, <2>2, <2>3 DEF PageHeld, WantsToken, Running, Me
    <2> QED  BY <2>2, <2>4 DEF PageHeld
  <1>4. CASE TokenKey(q) # TokenKey(page) /\ ~WantsToken(q)
    <2>1. PICK r : r = [q EXCEPT !.fetch = NoFetch, !.token = NoToken]
      OBVIOUS
    <2>2. /\ Rendered(q) = r /\ r.view = q.view /\ r.player = 1 /\ r.crowd = q.crowd /\ r.token = NoToken
          /\ r.fetch = NoFetch /\ r.fetch.at = "idle"
      BY <1>4, <2>1 DEF Rendered, PageFields, NoFetch
    <2>3. ~WantsToken(r)
      BY <1>1, <1>4, <2>2 DEF WantsToken, Running, Me
    <2> QED  BY <2>2, <2>3 DEF PageHeld
  <1> QED  BY <1>2, <1>3, <1>4

\* A fetch moves: the page shows the room's game while it wants a token.
LEMMA TokenStepHeld ==
  ASSUME Calm, PageHeld(page), MintsToken \/ GetsToken \/ TokenFails \/ RefreshToken
  PROVE  PageHeld(page')
  <1>1. DOMAIN page = PageFields /\ seats[Owner].player = 1
    BY DEF Calm, PageInv, PageShape, OwnerSits
  <1>2. /\ page'.view = page.view /\ page'.player = page.player /\ page'.crowd = page.crowd
    BY <1>1 DEF MintsToken, GetsToken, TokenFails, RefreshToken, PageFields
  <1>3. WantsToken(page') = WantsToken(page)
    BY <1>2 DEF WantsToken, Running, Me
  <1>4. WantsToken(page)
    BY DEF PageHeld, NoFetch, MintsToken, GetsToken, TokenFails, RefreshToken
  <1>5. CASE MintsToken
    <2>1. /\ page'.fetch = [at |-> "minted", token |-> Token(room.game, 1)] /\ page'.token = page.token
      BY <1>1, <1>5 DEF MintsToken, PageFields
    <2>2. page.view.game = room.game
      BY <1>4, ViewsAgree DEF Agrees, WantsToken, Running
    <2> QED  BY <1>2, <1>3, <1>4, <2>1, <2>2 DEF PageHeld
  <1>6. CASE GetsToken
    <2>1. page'.fetch = NoFetch /\ page'.token = Token(page.view.game, 1)
      BY <1>1, <1>6 DEF GetsToken, PageFields, PageHeld
    <2> QED  BY <1>2, <1>3, <1>4, <2>1 DEF PageHeld, NoFetch
  <1>7. CASE TokenFails
    <2>1. page'.fetch.at = "failed" /\ page'.token = page.token
      BY <1>1, <1>7 DEF TokenFails, PageFields, NoFetch
    <2> QED  BY <1>2, <1>3, <1>4, <2>1 DEF PageHeld
  <1>8. CASE RefreshToken
    <2>1. page'.fetch.at = "asked" /\ page'.token = page.token
      BY <1>1, <1>8 DEF RefreshToken, PageFields, Asked, NoFetch
    <2> QED  BY <1>2, <1>3, <1>4, <2>1 DEF PageHeld
  <1> QED  BY <1>5, <1>6, <1>7, <1>8

LEMMA LoadsStepHeld ==
  ASSUME Calm, SoleHost, TokenHeld, NEW i \in Slots, Poll(i) \/ ServesLoad(i) \/ LoadFails(i)
  PROVE  TokenHeld'
  <1>1. DOMAIN loads = Slots /\ DOMAIN loads[i] = LoadFields
    BY DEF Calm, PageInv, PageShape
  <1>2. \A k \in Slots \ {i} : loads'[k] = loads[k]
    BY <1>1 DEF Poll, ServesLoad, LoadFails
  <1>3. loads[i].at # "resume" /\ loads[i].crowd.host \in {0, 1}
    BY DEF TokenHeld
  <1>4. loads'[i].at \notin {"resume", "resumed"} /\ loads'[i].crowd.host \in {0, 1}
    <2>1. CASE Poll(i) \/ LoadFails(i)
      BY <1>1, <1>3, <2>1 DEF Poll, LoadFails, NoLoad, NoCrowd, LoadFields
    <2>2. CASE ServesLoad(i) /\ loads[i].at = "room"
      BY <1>1, <1>3, <2>2 DEF ServesLoad, LoadFields
    <2>3. CASE ServesLoad(i) /\ loads[i].at = "members"
      <3>1. PICK h \in HostSessions : loads' = [loads EXCEPT ![i].at = "listed", ![i].crowd = Crowd(h)]
        BY <2>3 DEF ServesLoad
      <3>2. Crowd(h).host = 1
        BY DEF SoleHost, Crowd, Calm, OwnerSits
      <3> QED  BY <1>1, <3>1, <3>2 DEF LoadFields
    <2> QED  BY <1>3, <2>1, <2>2, <2>3 DEF ServesLoad
  <1>5. page' = page
    BY DEF Poll, ServesLoad, LoadFails
  <1> QED  BY <1>2, <1>4, <1>5 DEF TokenHeld

LEMMA FirstLoadIsAPoll ==
  \A i \in Slots : FirstLoad[i].at \notin {"resume", "resumed"} /\ FirstLoad[i].crowd.host \in {0, 1}
  <1>1. \A i \in Slots : FirstLoad[i].at \in {"none", "room"}
    BY LoadsHold
  <1>2. \A i \in Slots : FirstLoad[i].crowd.host = 0
    BY DEF FirstLoad, Silence, NoLoad, NoCrowd
  <1> QED  BY <1>1, <1>2

LEMMA AnswerHeld ==
  ASSUME Calm, TokenHeld, NEW i \in Slots, GetsRoom(i) \/ GetsMembers(i) \/ GetsSeat(i)
  PROVE  TokenHeld'
  <1>1. DOMAIN loads = Slots /\ DOMAIN page = PageFields
    BY DEF Calm, PageInv, PageShape
  <1>2. PageHeld(page) /\ loads[i].at # "resumed" /\ loads[i].crowd.host \in {0, 1} /\ page.crowd.host \in {0, 1}
    BY DEF TokenHeld, PageHeld
  <1>3. CASE GetsRoom(i)
    <2>1. PICK q : q = [page EXCEPT !.view = loads[i].view, !.stored = loads[i].view] /\ page' = Rendered(q)
      BY <1>3 DEF GetsRoom
    <2>2. /\ DOMAIN q = PageFields /\ q.player = page.player /\ q.crowd = page.crowd /\ q.token = page.token
          /\ q.fetch = page.fetch /\ q.view = loads[i].view
      BY <1>1, <2>1 DEF PageFields
    <2>3. Running(page) /\ Running(q) => q.view.game = page.view.game
      BY <1>3, <2>2, ViewsAgree DEF GetsRoom, Agrees, Running
    <2>4. PageHeld(page')
      BY <1>2, <2>1, <2>2, <2>3, RenderedHeld DEF PageHeld
    <2>5. \A k \in Slots : loads'[k].at \notin {"resume", "resumed"} /\ loads'[k].crowd.host \in {0, 1}
      BY <1>1, <1>3 DEF GetsRoom, TokenHeld, NoLoad, NoCrowd
    <2> QED  BY <2>4, <2>5 DEF TokenHeld
  <1>4. CASE GetsMembers(i)
    <2>1. PICK q : q = [page EXCEPT !.crowd = loads[i].crowd] /\ page' = Rendered(q)
      BY <1>4 DEF GetsMembers
    <2>2. /\ DOMAIN q = PageFields /\ q.player = page.player /\ q.crowd = loads[i].crowd
          /\ q.token = page.token /\ q.fetch = page.fetch /\ q.view = page.view
      BY <1>1, <2>1 DEF PageFields
    <2>3. PageHeld(page')
      BY <1>2, <2>1, <2>2, RenderedHeld DEF PageHeld
    <2>4. \A k \in Slots : loads'[k].at \notin {"resume", "resumed"} /\ loads'[k].crowd.host \in {0, 1}
      BY <1>1, <1>4 DEF GetsMembers, TokenHeld, NoLoad, NoCrowd
    <2> QED  BY <2>3, <2>4 DEF TokenHeld
  <1> QED  BY <1>2, <1>3, <1>4 DEF GetsSeat

LEMMA HearsHeld ==
  ASSUME Calm, TokenHeld, Hears
  PROVE  TokenHeld'
  <1>1. DOMAIN page = PageFields /\ PageHeld(page) /\ page.crowd.host \in {0, 1} /\ page.player = 1
    BY DEF Calm, PageInv, PageShape, TokenHeld, PageHeld
  <1>2. CASE tap.ok /\ tap.does # "mode"
    <2>1. tap.does \in Acts
      BY <1>2 DEF Hears, Calm, PageInv, TapKept, NoTap
    <2>2. PICK q : /\ q = [page EXCEPT !.view = tap.view, !.kept = tap.view, !.stored = tap.view]
                   /\ page' = Rendered(q) /\ loads' = FirstLoad
      BY <1>2 DEF Hears, Persist, Repolls
    <2>3. /\ DOMAIN q = PageFields /\ q.player = page.player /\ q.crowd = page.crowd /\ q.token = page.token
          /\ q.fetch = page.fetch /\ q.view = tap.view
      BY <1>1, <2>2 DEF PageFields
    <2>4. Running(page) /\ Running(q) => q.view.game = page.view.game
      BY <1>2, <2>1, <2>3, ViewsAgree DEF Agrees, Running
    <2>5. PageHeld(page')
      BY <1>1, <2>2, <2>3, <2>4, RenderedHeld
    <2> QED  BY <2>2, <2>5, FirstLoadIsAPoll DEF TokenHeld
  <1>3. CASE tap.ok /\ tap.does = "mode"
    <2>1. page' = [page EXCEPT !.stored = page.kept] /\ loads' = FirstLoad
      BY <1>3 DEF Hears, Repolls
    <2>2. /\ page'.player = page.player /\ page'.crowd = page.crowd /\ page'.token = page.token
          /\ page'.fetch = page.fetch /\ page'.view = page.view
      BY <1>1, <2>1 DEF PageFields
    <2>3. PageHeld(page')
      BY <1>1, <2>2, HeldLasts
    <2> QED  BY <2>1, <2>3, FirstLoadIsAPoll DEF TokenHeld
  <1>4. CASE ~tap.ok
    BY <1>4 DEF Hears, TokenHeld
  <1> QED  BY <1>2, <1>3, <1>4

-----------------------------------------------------------------------------
(* Every step.                                                             *)

\* The page moves, or hears of its tap: no request does.
LEMMA PageStepFits ==
  ASSUME Calm, TokenHeld, Recall, UNCHANGED <<vars, mishaps>>, mishaps \in Nat, PageStep
  PROVE  OwnerSits' /\ TapInHand' /\ OneStatus' /\ TokenHeld'
  <1>1. OwnerSits'
    BY DEF Calm, OwnerSits, OwnerLane, vars, store
  <1>2. ~AnswerLost /\ ~Reload
    BY DEF AnswerLost, Reload
  <1>3. room' = room /\ repertoire' = repertoire /\ serving' = serving
    BY DEF vars, store
  <1>4. ASSUME tap' = tap PROVE TapInHand' /\ OneStatus'
    BY <1>3, <1>4, StatusLasts DEF Calm, TapInHand
  <1>5. ASSUME NEW i \in Slots, Poll(i) \/ ServesLoad(i) \/ LoadFails(i)
        PROVE  TokenHeld' /\ tap' = tap
    BY <1>5, LoadsStepHeld DEF Alone, SoleHost, Calm, Poll, ServesLoad, LoadFails
  <1>6. ASSUME NEW i \in Slots, GetsRoom(i) \/ GetsMembers(i) \/ GetsSeat(i)
        PROVE  TokenHeld' /\ tap' = tap
    BY <1>6, AnswerHeld DEF GetsRoom, GetsMembers, GetsSeat
  <1>7. ASSUME MintsToken \/ GetsToken \/ TokenFails \/ RefreshToken
        PROVE  TokenHeld' /\ tap' = tap
    <2>1. tap' = tap /\ loads' = loads
      BY <1>7 DEF MintsToken, GetsToken, TokenFails, RefreshToken
    <2>2. PageHeld(page')
      BY <1>7, TokenStepHeld DEF TokenHeld
    <2> QED  BY <2>1, <2>2 DEF TokenHeld
  <1>8. ASSUME Hears PROVE TapInHand' /\ OneStatus' /\ TokenHeld'
    <2>1. serving'[Mine] = Idle
      BY <1>3, <1>8 DEF Hears, Calm, TapInHand
    <2> QED  BY <1>8, <2>1, HearsOneStatus, HearsHeld DEF TapInHand
  <1> QED  BY <1>1, <1>2, <1>4, <1>5, <1>6, <1>7, <1>8 DEF PageStep

LEMMA TellsFits ==
  ASSUME Calm, TokenHeld, Recall, repertoire' = repertoire,
         Picks \/ Chooses \/ Starts \/ Exits \/ ChangesMode
  PROVE  TapInHand' /\ OneStatus' /\ TokenHeld'
  <1>1. DOMAIN page = PageFields /\ PageHeld(page) /\ DOMAIN serving = Lanes /\ Mine \in Lanes
    BY PagesAssumption DEF Calm, PageInv, PageShape, TokenHeld, LanesSound, Shape
  <1>2. PICK does, request, first, arg :
          /\ Tells(does, request, first, arg)
          /\ does \in Acts \cup {"choose", "mode"} /\ request = RequestOf[does]
          /\ \/ tap = NoTap /\ ~Running(page) /\ does \in {"pick", "choose", "mode"}
             \/ tap = NoTap /\ Running(page) /\ does = "exit"
             \/ tap.does = "choose" /\ does = "start"
    BY DEF Picks, Chooses, Starts, Exits, ChangesMode, CanStart, RequestOf, Acts
  <1>3. tap' = [NoTap EXCEPT !.does = does] /\ loads' = loads /\ InRoom /\ Arrives(Mine, request, first, arg)
    BY <1>2 DEF Tells
  <1>4. room' = room /\ serving'[Mine].does = request
    BY <1>1, <1>3 DEF Arrives, store
  <1>5. OneStatus'
    BY <1>2, <1>3, <1>4, TellsOneStatus
  <1>6. TapInHand'
    <2>1. tap' # NoTap /\ tap'.at = "asked" /\ tap'.does = does
      BY <1>2, <1>3 DEF NoTap, Acts
    <2> QED  BY <1>2, <1>4, <2>1 DEF TapInHand
  <1>7. PageHeld(page')
    <2>1. /\ page'.player = page.player /\ page'.crowd = page.crowd /\ page'.token = page.token
          /\ page'.fetch = page.fetch /\ page'.view = page.view
      BY <1>1 DEF PageFields, Picks, Chooses, Starts, Exits, ChangesMode
    <2>2. page.crowd.host \in {0, 1}
      BY <1>1 DEF PageHeld
    <2> QED  BY <1>1, <2>1, <2>2, HeldLasts
  <1> QED  BY <1>3, <1>5, <1>6, <1>7 DEF TokenHeld

LEMMA ServesTapFits ==
  ASSUME Calm, TokenHeld, Recall, repertoire' = repertoire, faults \in Nat, faults' = faults, ServesTap
  PROVE  TapInHand' /\ OneStatus' /\ TokenHeld'
  <1>1. ~CallFails(Mine)
    BY DEF CallFails
  <1>2. serving[Mine] # Idle /\ RequestMoves(serving[Mine])
    BY <1>1, TapMoves DEF ServesTap, Calm, Table
  <1>3. tap # NoTap /\ tap.at = "asked" /\ serving[Mine].does = RequestOf[tap.does]
    BY <1>2 DEF Calm, TapInHand
  <1>4. TokenHeld'
    BY DEF ServesTap, TokenHeld
  <1>5. CASE serving'[Mine] = Idle
    <2>1. tap' = [tap EXCEPT !.at = "answered", !.ok = serving[Mine].at \in {"set", "status", "put"},
                            !.view = room']
      BY <1>3, <1>5 DEF ServesTap
    <2> QED  BY <1>2, <1>3, <1>4, <1>5, <2>1, ServedOneStatus DEF TapInHand
  <1>6. CASE serving'[Mine] # Idle
    <2>1. tap' = tap /\ room' = room /\ serving'[Mine].does = serving[Mine].does
      BY <1>2, <1>6 DEF ServesTap, RequestMoves
    <2> QED  BY <1>3, <1>4, <1>6, <2>1, StatusLasts DEF TapInHand
  <1> QED  BY <1>5, <1>6

LEMMA ElsewhereFits ==
  ASSUME Calm, TokenHeld, Recall, repertoire' = repertoire, faults \in Nat, faults' = faults, Elsewhere
  PROVE  TapInHand' /\ OneStatus' /\ TokenHeld'
  <1>1. UNCHANGED <<page, loads, tap>>
    BY DEF Elsewhere, pages
  <1>2. room' = room /\ serving'[Mine] = serving[Mine]
    <2>1. ASSUME NEW l \in Lanes \ {Mine}, Ask(l) \/ AskExit(l) \/ Seat(l) \/ Orchestrate(l)
          PROVE  room' = room /\ serving'[Mine] = serving[Mine]
      <3>1. room' = room
        BY <2>1, OthersLeaveTheRoom DEF Calm
      <3>2. serving'[Mine] = serving[Mine]
        BY <2>1, LanesApart, PagesAssumption DEF Calm
      <3> QED  BY <3>1, <3>2
    <2>2. ASSUME GameEnds \/ SessionLapses PROVE room' = room /\ serving'[Mine] = serving[Mine]
      BY <2>2 DEF GameEnds, SessionLapses
    <2> QED  BY <2>1, <2>2 DEF Elsewhere, CallFails, SeatsLapse, Calm
  <1> QED  BY <1>1, <1>2, StatusLasts DEF TapInHand, TokenHeld, Calm

\* Where there is no page nothing is shown.
LEMMA NoPageMoves ==
  ASSUME PageInv, ~Opened, NextPages
  PROVE  page' = page
  <1>1. loads = Silence /\ tap = NoTap
    BY DEF PageInv, PageKept
  <1>2. \A i \in Slots : loads[i].at = "none"
    BY <1>1, LoadsHold
  <1>3. ~(Picks \/ Chooses \/ Starts \/ Exits \/ ChangesMode) /\ ~Hears /\ ~Reload
    BY <1>1 DEF Picks, Chooses, Starts, Exits, ChangesMode, Tells, Hears, NoTap, Reload
  <1>4. \A i \in Slots : ~GetsRoom(i) /\ ~GetsMembers(i) /\ ~GetsSeat(i)
    BY <1>2 DEF GetsRoom, GetsMembers, GetsSeat
  <1> QED  BY <1>3, <1>4 DEF NextPages, PageStep, Poll, ServesLoad, LoadFails, AnswerLost, ServesTap,
                             Elsewhere, pages, Crashes

LEMMA TokenInvInit == PagesInit => TokenInv
  <1> SUFFICES ASSUME PagesInit, Undisturbed
               PROVE  IF Opened THEN OwnerSits /\ TapInHand /\ OneStatus /\ TokenHeld ELSE ~Running(page)
    BY DEF TokenInv
  <1>1. /\ room = [status |-> "lobby", game |-> "none"] /\ serving = [l \in Lanes |-> Idle]
        /\ fresh = {room} /\ tap = NoTap
    BY DEF PagesInit, Init
  <1>2. seats[Owner].player = 1
    BY OwnerIsSomebody DEF PagesInit, Init, Undisturbed, Alone
  <1>3. page = [view |-> room, kept |-> room, stored |-> room, player |-> 1, crowd |-> NoCrowd,
                game |-> SeedGame(room), token |-> NoToken, fetch |-> NoFetch]
    BY <1>1, <1>2 DEF PagesInit, Hydrated, WantsToken, Running
  <1>4. ~Running(page) /\ PageHeld(page)
    BY <1>1, <1>3 DEF Running, PageHeld, WantsToken, NoCrowd, NoFetch
  <1>5. OwnerSits /\ TapInHand
    BY <1>1, <1>2, OwnerIsSomebody DEF OwnerSits, OwnerLane, TapInHand, Idle
  <1>6. OneStatus
    BY <1>1 DEF OneStatus, Agrees, NoTap, Acts
  <1>7. Opened => TokenHeld
    BY <1>4, FirstLoadIsAPoll DEF TokenHeld, PagesInit
  <1> QED  BY <1>4, <1>5, <1>6, <1>7

LEMMA TokenInvKeeps ==
  ASSUME PageInv, Counted, SeatInv, Table, TokenInv, NextPages, Step \/ UNCHANGED vars
  PROVE  TokenInv'
  <1>1. Recall /\ repertoire' = repertoire /\ Opened' = Opened
    BY DEF NextPages, Remember, vars, Opened
  <1> SUFFICES ASSUME Undisturbed'
               PROVE  IF Opened THEN (OwnerSits /\ TapInHand /\ OneStatus /\ TokenHeld)' ELSE ~Running(page)'
    BY <1>1 DEF TokenInv
  <1>2. Undisturbed /\ mishaps' = mishaps /\ faults' = faults /\ faults = 0 /\ mishaps = 0
    <2>1. mishaps' = mishaps \/ mishaps' = mishaps + 1
      BY MishapsGrow
    <2> QED  BY <1>1, <2>1, CalmBefore
  <1>3. CASE ~Opened
    BY <1>2, <1>3, NoPageMoves DEF TokenInv, Running
  <1>4. CASE Opened
    <2>1. Calm /\ TokenHeld /\ SoleHost
      BY <1>2, <1>4 DEF TokenInv, Calm, Undisturbed, Alone, SoleHost, SeatInv, LanesSound
    <2>2. OwnerSits'
      <3>1. CASE UNCHANGED vars
        BY <2>1, <3>1 DEF Calm, OwnerSits, OwnerLane, vars, store
      <3>2. CASE Step
        BY <1>1, <1>2, <2>1, <3>2, OwnerStays DEF Calm
      <3> QED  BY <3>1, <3>2
    <2>3. CASE PageStep /\ UNCHANGED vars
      BY <1>1, <1>2, <1>4, <2>1, <2>3, PageStepFits
    <2>4. CASE Picks \/ Chooses \/ Starts \/ Exits \/ ChangesMode
      BY <1>1, <1>4, <2>1, <2>2, <2>4, TellsFits
    <2>5. CASE ServesTap
      BY <1>1, <1>2, <1>4, <2>1, <2>2, <2>5, ServesTapFits
    <2>6. CASE Elsewhere
      BY <1>1, <1>2, <1>4, <2>1, <2>2, <2>6, ElsewhereFits
    <2>7. ~Crashes
      BY <1>2 DEF Crashes, Crash
    <2> QED  BY <2>3, <2>4, <2>5, <2>6, <2>7 DEF NextPages
  <1> QED  BY <1>3, <1>4

\* RoomClient.tsx:225-261 and socket.ts:69-93: a page that alone steers its room, and of
\* which nothing was lost, holds the token the engine asks for.
THEOREM TokensFit == SpecPages => []TokenFits
  <1>1. SpecPages => [](SeatInv /\ RoomInv)
    BY PagesServeTheRoom, RoomInvHolds, PTL
  <1>2. SpecPages => [][Next]_vars
    BY PagesServeTheRoom, PTL DEF Spec
  <1>3. ASSUME PageInv, Counted, SeatInv, RoomInv, TokenInv, [NextPages]_allVars, [Next]_vars
        PROVE  TokenInv'
    <2>1. CASE UNCHANGED allVars
      <3>1. UNCHANGED <<page, loads, tap, mishaps, room, seats, serving, faults, repertoire, fresh, since>>
        BY <2>1 DEF allVars, pages, vars, store
      <3> QED  BY <1>3, <3>1 DEF TokenInv, Undisturbed, Alone, Opened, OwnerSits, OwnerLane, TapInHand,
                                 OneStatus, Agrees, TokenHeld, PageHeld, WantsToken, Running, Me
    <2>2. CASE NextPages
      BY <1>3, <2>2, TokenInvKeeps DEF RoomInv, Next
    <2> QED  BY <1>3, <2>1, <2>2
  <1>4. PageInv /\ TokenInv => TokenFits
    <2> SUFFICES ASSUME PageInv, TokenInv, WantsToken(page), page.fetch.at = "idle", Undisturbed
                 PROVE  Admitted(page)
      BY DEF TokenFits, Undisturbed
    <2>1. TokenHeld
      BY DEF TokenInv, WantsToken
    <2>2. Me(page) = 1
      BY <2>1, MeIsOne DEF TokenHeld
    <2> QED  BY <2>1, <2>2 DEF TokenHeld, PageHeld, Admitted
  <1> QED  BY <1>1, <1>2, <1>3, <1>4, TokenInvInit, PageInvHolds, MishapsCounted, PTL DEF SpecPages

===============================================================================
