------------------------------- MODULE LiveGames -------------------------------
(***************************************************************************)
(* A live game: one open phase in which every submission and every frame   *)
(* of the simulation loop (engine.ts, submitMove and startSimLoop) goes    *)
(* through the game module its session names, until a frame reports that   *)
(* the game is over.  No live game asks who is connected.                  *)
(***************************************************************************)
EXTENDS Integers, SequencesExt

CONSTANTS
    Games,              \* which of the registered games are played
    Tables,             \* game -> its roster; at a board a player is their side
    Empty,              \* a cell with nothing on it
    ReversiSize, CheckersSize, HomeRows,
    CheckersOpenings,   \* positions play starts from: Checkers!Opening in the code
    ChessOpenings,      \* positions play starts from: Chess!StartingPosition in the code
    MaxLeaf, FinalTier, MaxBuds, Fireflies, BannerTicks,
    Cards, Sprints, SprintTicks,
    StartLeaves, OtherLeaves, SaplingLeaves, DeadwoodLeaves,
    Levels, Goal, Par, BeatTicks, MaxSettleTicks, MaxPlaced,
    MaxPlies            \* bound: game of turns -> moves made in it

\* Each game with what its screens offer of it.
Reversi      == INSTANCE Reversi WITH Size <- ReversiSize
Checkers     == INSTANCE Checkers WITH Size <- CheckersSize
Chess        == INSTANCE Chess
Teeter       == INSTANCE TeeterTower WITH Seats <- Tables["teeter-tower"]
Nightleaf    == INSTANCE Nightleaf WITH Seats <- Tables["nightleaf"]
Brambles     == INSTANCE Brambles WITH Seats <- Tables["brambles"]
Whispergrove == INSTANCE Whispergrove WITH Seats <- Tables["whispergrove"]

ASSUME GamesAssumption ==
    Games \subseteq {"reversi", "checkers", "chess", "teeter-tower", "nightleaf", "brambles", "whispergrove"}

ASSUME SeatsAssumption ==
    /\ Empty \notin {"violet", "amber"}
    /\ \A g \in {"reversi", "checkers"} : Range(Tables[g]) = {"violet", "amber"}
    /\ Range(Tables["chess"]) = {"white", "black"}
    /\ Tables["teeter-tower"] \in Seq(Range(Tables["teeter-tower"])) \ {<<>>}
    /\ Tables["nightleaf"] \in Seq(Range(Tables["nightleaf"])) \ {<<>>}
    /\ Tables["whispergrove"] \in Seq(Range(Tables["whispergrove"]))
    /\ Len(Tables["whispergrove"]) >= 4
    /\ \A i, j \in DOMAIN Tables["whispergrove"] : Tables["whispergrove"][i] = Tables["whispergrove"][j] => i = j

ASSUME BanksAssumption ==
    /\ "none" \notin Cards                                             \* Brambles!NoCard
    /\ MaxBuds \in Nat \ {0} /\ FinalTier \in Nat /\ BannerTicks \in Nat
    /\ StartLeaves \in Nat \ {0} /\ OtherLeaves \in Nat \ {0} /\ SaplingLeaves \in Nat /\ DeadwoodLeaves = 1

ASSUME TowerAssumption ==
    /\ Levels \in Nat \ {0} /\ Goal \in Nat /\ Par \in Nat
    /\ BeatTicks \in Nat /\ MaxSettleTicks \in Nat /\ MaxPlaced \in Nat

VARIABLES
    game,           \* the module of the session
    phase,          \* "collecting" until the session is complete
    scratch,        \* the module's own state
    plies           \* history: moves made at a board

vars == <<game, phase, scratch, plies>>

Players == Range(Tables[game])

-----------------------------------------------------------------------------
(* The registry: each callback of the module under its game's id.           *)

Openings(g) ==
    CASE g = "reversi"      -> Reversi!Opening
      [] g = "checkers"     -> CheckersOpenings
      [] g = "chess"        -> ChessOpenings
      [] g = "teeter-tower" -> Teeter!Opening
      [] g = "nightleaf"    -> Nightleaf!Opening
      [] g = "brambles"     -> Brambles!Opening
      [] g = "whispergrove" -> Whispergrove!Opening

Moves(p) ==
    CASE game = "reversi"      -> Reversi!Moves(scratch, p)
      [] game = "checkers"     -> Checkers!Moves(scratch, p)
      [] game = "chess"        -> Chess!Moves(scratch, p)
      [] game = "teeter-tower" -> Teeter!Moves(scratch, p)
      [] game = "nightleaf"    -> Nightleaf!Moves(scratch, p)
      [] game = "brambles"     -> Brambles!Moves(scratch, p)
      [] game = "whispergrove" -> Whispergrove!Moves(scratch, p)

CollectMove(p, m) ==
    CASE game = "reversi"      -> {Reversi!CollectMove(scratch, p, m)}
      [] game = "checkers"     -> {Checkers!CollectMove(scratch, p, m)}
      [] game = "chess"        -> {Chess!CollectMove(scratch, p, m)}
      [] game = "teeter-tower" -> {Teeter!CollectMove(scratch, p, m)}
      [] game = "nightleaf"    -> {Nightleaf!CollectMove(scratch, p, m)}
      [] game = "brambles"     -> Brambles!CollectMove(scratch, p, m)
      [] game = "whispergrove" -> {Whispergrove!CollectMove(scratch, p, m)}

\* Refused with a reason; every other game returns its scratch as it was then.
Refused(p, m) ==
    \/ game = "brambles" /\ Brambles!Refused(scratch, p, m)
    \/ game = "teeter-tower" /\ Teeter!Refused(scratch, p, m)

Ticked ==
    CASE game = "teeter-tower" -> Teeter!Tick(scratch)
      [] game = "nightleaf"    -> Nightleaf!Tick(scratch)
      [] game = "brambles"     -> Brambles!Tick(scratch)
      [] OTHER                 -> {scratch}

Over(s) == IF game = "whispergrove" THEN s.phase = "over" ELSE s.over

-----------------------------------------------------------------------------
Init ==
    /\ game \in Games
    /\ phase = "collecting" /\ plies = 0
    /\ scratch \in Openings(game)

\* A refused submission writes nothing, whatever the module returned with it.
Accepted(p, m) == IF Refused(p, m) THEN {scratch} ELSE CollectMove(p, m)

\* A submission reaches the module while the session is open.
Submitted(p, m) ==
    /\ phase = "collecting"
    /\ game \in DOMAIN MaxPlies => plies < MaxPlies[game]
    /\ scratch' \in Accepted(p, m)
    /\ plies' = IF game \in DOMAIN MaxPlies /\ scratch' # scratch THEN plies + 1 ELSE plies
    /\ UNCHANGED <<game, phase>>

SubmitMove(p) == \E m \in Moves(p) : Submitted(p, m)

\* A frame: the world is stepped and saved; the last one ends the session.
SimTick ==
    /\ phase = "collecting"
    /\ scratch' \in Ticked
    /\ phase' = IF Over(scratch') THEN "complete" ELSE phase
    /\ UNCHANGED <<game, plies>>

\* A host's advance ends a live game at once (advanceLocked).
HostAdvance == phase = "collecting" /\ phase' = "complete" /\ UNCHANGED <<game, scratch, plies>>

Next == (\E p \in Players : SubmitMove(p)) \/ SimTick \/ HostAdvance

Spec == Init /\ [][Next]_vars

\* The interval fires for as long as the session is open.
FairSpec == Spec /\ WF_vars(SimTick)

-----------------------------------------------------------------------------
(* Properties.                                                              *)

\* Leaves that landed above one that came later: what the table did wrong.
Falls(trunk) == Cardinality({i \in DOMAIN trunk : \E j \in DOMAIN trunk : j > i /\ trunk[j] < trunk[i]})

\* A chess position its rules could not get wrong later: a king each, the side
\* that moved out of check, a castling right only with king and rook at home, an
\* en-passant target only behind the pawn that leapt.
SoundPosition(s) ==
    /\ \A color \in {Chess!White, Chess!Black} : Cardinality(Chess!Kings(s.cells, color)) = 1
    /\ ~Chess!IsInCheck(s.cells, Chess!OtherColor(s.turn))
    /\ \A right \in s.castling :
          /\ s.cells[<<Chess!BackRow(right[1]), 4>>] = <<right[1], "K">>
          /\ s.cells[Chess!RookHome(right)] = <<right[1], "R">>
    /\ s.enPassant # Chess!Nowhere =>
          LET leaper == Chess!OtherColor(s.turn)
          IN  /\ s.enPassant[1] = Chess!PawnStartRow(leaper) + Chess!PawnDir(leaper)
              /\ s.cells[s.enPassant] = Empty
              /\ Chess!Holds(s.cells, Chess!Step(s.enPassant, <<Chess!PawnDir(leaper), 0>>, 1), <<leaper, "P">>)

\* Positions a game of checkers or chess may start from.
DraughtsPosition(s) ==
    /\ DOMAIN s.cells = Checkers!Squares(CheckersSize)
    /\ \A sq \in DOMAIN s.cells : s.cells[sq] # Empty => Checkers!IsDark(sq) /\ ~Checkers!Crowns(s.cells[sq], sq[1])

ChessMen == {Chess!White, Chess!Black} \X {"K", "Q", "R", "B", "N", "P"}
ChessPosition(s) ==
    /\ DOMAIN s = {"cells", "turn", "castling", "enPassant", "over", "outcome", "endReason"}
    /\ s.cells \in [Chess!Squares(8) -> ChessMen \cup {Empty}]
    /\ s.turn \in {Chess!White, Chess!Black} /\ s.castling \subseteq Chess!FullCastling
    /\ s.enPassant \in Chess!Squares(8) \cup {Chess!Nowhere}
    /\ s.over \/ s.endReason = "none"
    /\ SoundPosition(s)

ASSUME OpeningsAssumption ==
    /\ ReversiSize \in Nat /\ ReversiSize >= 4
    /\ CheckersSize \in Nat
    /\ \A s \in CheckersOpenings :
          DraughtsPosition(s) /\ s.turn \in {"violet", "amber"} /\ Checkers!LegalMoves(s.cells, s.turn) # {}
    /\ Empty \notin ChessMen
    /\ \A s \in ChessOpenings : ChessPosition(s) /\ ~s.over /\ Chess!HasLegalMove(s)

\* The state every sequence of submissions and frames leaves a game in agrees
\* with itself: the position of a chess game is sound, and one that ended for
\* want of a move ended as it says; no man is left uncrowned on the far row and no
\* piece off the dark squares; the notice of a passed turn or of a jump that must be
\* made is true; every bud spent is a leaf played too soon; one card of the bank per
\* point; the grove that won is the one whose leaves all show, or whose rival met the
\* deadwood; no piece is held out over a tower that is done or between two levels.
PositionsSound ==
    CASE game = "chess" ->
           /\ SoundPosition(scratch)
           /\ scratch.endReason = "checkmate" => Chess!CheckSquare(scratch) # {}
           /\ scratch.endReason = "stalemate" => Chess!CheckSquare(scratch) = {}
      [] game = "checkers" ->
           /\ \A sq \in DOMAIN scratch.cells : scratch.cells[sq] # Empty =>
                 Checkers!IsDark(sq) /\ ~Checkers!Crowns(scratch.cells[sq], sq[1])
           /\ Checkers!TurnPopup(scratch, Checkers!Legal(scratch), scratch.turn) = "your turn - you must jump"
                 => Checkers!Captures(scratch.cells, scratch.turn) # {}
      [] game = "reversi" ->
           \A side \in Players :
               LET notice == Reversi!TurnPopup(scratch, side)
                   stuck(other) == Reversi!LegalMoves(scratch.cells, other) = {}
               IN  /\ notice = "you have no moves, turn skipped" => stuck(side)
                   /\ notice = "the other has no moves, your turn" => ~stuck(side) /\ stuck(Reversi!OtherSide(side))
      [] game = "teeter-tower" ->
           /\ scratch.phase # "playing" \/ scratch.over => ~scratch.next
           /\ scratch.over => scratch.level = Levels /\ scratch.best >= Goal
           /\ scratch.phase = "intro" => scratch.placed = 0 /\ scratch.best = 0
           /\ scratch.placed <= MaxPlaced
      [] game = "nightleaf" ->
           /\ MaxBuds - scratch.buds >= Falls(scratch.trunk)
           /\ scratch.over => (scratch.won <=> scratch.buds > 0)
      [] game = "brambles" ->
           scratch.scores[0] + scratch.scores[1] <= Cardinality(scratch.used \ {scratch.card})
      [] game = "whispergrove" ->
           LET shown(role) == \A i \in DOMAIN scratch.key : scratch.key[i] = role => i \in scratch.revealed
               won(team)   == \/ scratch.endReason = "cleared" /\ shown(team)
                              \/ scratch.endReason = "deadwood" /\ shown("deadwood") /\ ~shown(team)
           IN  IF scratch.phase = "over" THEN won(scratch.winner)
               ELSE /\ \A role \in {"violet", "amber"} : ~shown(role)
                    /\ scratch.phase = "guessing" => scratch.guessesLeft \in 1 .. scratch.count + 1

\* What one move may do to the pieces: a disc is placed and turns at least one
\* over, all of which the board turns over on show; a side never loses its own
\* man, loses as many as it was jumped, and passes up no jump, and the slide that
\* is shown for it is one of its moves; in chess one piece at most is taken, and
\* one is whenever a pawn leaves its file, en passant too.
MoveAccounts ==
    CASE game = "reversi" ->
           LET mover == scratch.turn
               other == Reversi!OtherSide(mover)
               turned == Reversi!Discs(scratch, other) - Reversi!Discs(scratch', other)
           IN  /\ turned >= 1
               /\ Reversi!Discs(scratch', mover) = Reversi!Discs(scratch, mover) + turned + 1
               /\ Cardinality(Reversi!DetectFlips(scratch.cells, scratch'.cells)) = turned
      [] game = "checkers" ->
           LET mover == scratch.turn
               men(s, side) == Cardinality(Checkers!Mine(s.cells, side))
               lost == men(scratch, Checkers!OtherSide(mover)) - men(scratch', Checkers!OtherSide(mover))
               anim == Checkers!DiffMove(scratch.cells, scratch'.cells)
               path == Checkers!JumpPath(anim)         \* of an animated move
           IN  /\ men(scratch', mover) = men(scratch, mover)
               /\ lost = 0 <=> Checkers!Captures(scratch.cells, mover) = {}
               /\ anim # Checkers!NoAnim /\ Len(path) > 2 =>
                     [from |-> anim.from, path |-> Tail(path)] \in Checkers!LegalMoves(scratch.cells, mover)
               /\ Cardinality({sq \in DOMAIN scratch.cells : scratch.cells[sq] # scratch'.cells[sq]}) <= 2 + lost
      [] game = "chess" ->
           LET mover == scratch.turn
               men(s, color) == Cardinality(Chess!Army(s.cells, color))
               pawns(s, col) == Cardinality({sq \in DOMAIN s.cells : sq[2] = col /\ s.cells[sq] = <<mover, "P">>})
               lost == men(scratch, Chess!OtherColor(mover)) - men(scratch', Chess!OtherColor(mover))
           IN  /\ men(scratch', mover) = men(scratch, mover) /\ lost \in {0, 1}
               /\ \A col \in 0 .. 7 : pawns(scratch', col) > pawns(scratch, col) => lost = 1
      [] OTHER -> TRUE

SomeoneHasALeafToPlay == game = "nightleaf" /\ \E p \in Players : Nightleaf!MayPlay(scratch, p)

\* The frames alone carry a game on: a sprint ends without a word said, a banner
\* passes and leaves somebody a leaf to play, a tower comes to a next piece or to
\* its end, and a game decided by a move is closed by the next frame.
ClockRunsOut ==
    /\ game = "brambles" ~> phase = "complete"
    /\ game = "nightleaf" ~> (phase = "complete" \/ SomeoneHasALeafToPlay)
    /\ game = "teeter-tower" ~> (phase = "complete" \/ (game = "teeter-tower" /\ scratch.next))
    /\ phase = "collecting" /\ Over(scratch) ~> (phase = "complete" \/ ~Over(scratch))
================================================================================
