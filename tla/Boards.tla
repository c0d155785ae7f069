------------------------------- MODULE Boards -------------------------------
(***************************************************************************)
(* packages/game-board: square boards and the two seats.  A board is a     *)
(* function from its squares <<row, col>>, row 0 at the top; an off-board  *)
(* square is one outside the function's domain.                            *)
(***************************************************************************)
EXTENDS Integers, FiniteSets, Functions

CONSTANT Empty      \* a cell with nothing on it

Squares(size) == (0 .. size - 1) \X (0 .. size - 1)

Orthogonal == {<<-1, 0>>, <<1, 0>>, <<0, -1>>, <<0, 1>>}
Diagonal   == {<<-1, 1>>, <<-1, -1>>, <<1, 1>>, <<1, -1>>}
AllDirections == Orthogonal \cup Diagonal

\* The square k steps away.
Step(sq, d, k) == <<sq[1] + k * d[1], sq[2] + k * d[2]>>

\* Whether a square is on the board and holds the cell.
Holds(board, sq, cell) == sq \in DOMAIN board /\ board[sq] = cell

\* Grid.set for several squares at once.
Placed(board, sqs, cell) == [sq \in DOMAIN board |-> IF sq \in sqs THEN cell ELSE board[sq]]

EmptyBetween(board, sq, d, k) == \A j \in 1 .. k - 1 : Holds(board, Step(sq, d, j), Empty)

\* Turns: seat 0 is violet (chess: white) and moves first, seat 1 is amber.
Sides == {"violet", "amber"}
OtherSide(side) == IF side = "violet" THEN "amber" ELSE "violet"
==============================================================================
