------------------------------ MODULE Reversi ------------------------------
(* packages/games/reversi.  A player is the color of their seat.            *)
EXTENDS Boards, Sequences

CONSTANT Size       \* BOARD_SIZE, 8 in the code

StartingBoard ==
    LET mid == Size \div 2
    IN  Placed(Placed([sq \in Squares(Size) |-> Empty],
                      {<<mid - 1, mid - 1>>, <<mid, mid>>}, "amber"),
               {<<mid - 1, mid>>, <<mid, mid - 1>>}, "violet")

\* configure and startRound.
Opening == {[cells |-> StartingBoard, turn |-> "violet", passed |-> FALSE, over |-> FALSE]}

\* How far a line of the other side's discs runs before one's own closes it.
Brackets(board, side, sq, d) ==
    {k \in 1 .. Size :
        /\ \A j \in 1 .. k : Holds(board, Step(sq, d, j), OtherSide(side))
        /\ Holds(board, Step(sq, d, k + 1), side)}

FlipsFor(board, side, sq) ==
    IF ~Holds(board, sq, Empty) THEN {}
    ELSE UNION {UNION {{Step(sq, d, j) : j \in 1 .. k} : k \in Brackets(board, side, sq, d)} : d \in AllDirections}

LegalMoves(board, side) == {sq \in DOMAIN board : FlipsFor(board, side, sq) # {}}

ApplyMove(board, side, sq) == Placed(board, {sq} \cup FlipsFor(board, side, sq), side)

ResolveTurn_NoPass(board, next) ==                                      \* mutant
    [turn |-> next, passed |-> FALSE, over |-> LegalMoves(board, next) = {} /\ LegalMoves(board, OtherSide(next)) = {}]

\* The turn goes on, or is passed by a side that is stuck, or both are stuck.
ResolveTurn(board, next) ==
    LET stuck(side) == LegalMoves(board, side) = {}
    IN  [turn   |-> IF stuck(next) /\ ~stuck(OtherSide(next)) THEN OtherSide(next) ELSE next,
         passed |-> stuck(next) /\ ~stuck(OtherSide(next)),
         over   |-> stuck(next) /\ stuck(OtherSide(next))]

Moves(s, p) == DOMAIN s.cells

CollectMove(s, p, sq) ==
    IF s.over \/ p # s.turn \/ sq \notin LegalMoves(s.cells, s.turn) THEN s
    ELSE LET next == ApplyMove(s.cells, s.turn, sq)
             to   == ResolveTurn(next, OtherSide(s.turn))
         IN  [cells |-> next, turn |-> to.turn, passed |-> to.passed, over |-> to.over]

Discs(s, side) == Cardinality({sq \in DOMAIN s.cells : s.cells[sq] = side})

\* The board only changes on a move: a tick streams it.
Standing(s, side) == Discs(s, side)

-----------------------------------------------------------------------------
(* apps/web/lib/games/reversi: the board as one surface, tapped once a turn.*)

Blank == [selected |-> {}]

\* The snapshot carries the squares the side to move may take.
Legal(s) == IF s.over THEN {} ELSE LegalMoves(s.cells, s.turn)

IsActive(s, me) == ~s.over /\ s.turn = me

OnFrame(d, s, me) == d

Taps(s, legal, d, me) ==
    IF IsActive(s, me) THEN {[device |-> d, sends |-> <<sq>>] : sq \in legal} ELSE {}

\* Discs that changed hands between two snapshots; a placed one is not turned.
DetectFlips(before, after) ==
    {sq \in DOMAIN after : before[sq] # after[sq] /\ Empty \notin {before[sq], after[sq]}}

\* The notice a new board pops up.
TurnPopup(s, me) ==
    CASE IsActive(s, me) /\ s.passed   -> "the other has no moves, your turn"
      [] IsActive(s, me) /\ ~s.passed  -> "your turn"
      [] ~IsActive(s, me) /\ s.passed  -> "you have no moves, turn skipped"
      [] OTHER -> "none"
==============================================================================
