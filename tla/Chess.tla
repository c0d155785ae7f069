------------------------------- MODULE Chess -------------------------------
(***************************************************************************)
(* packages/games/chess.  A piece is <<color, type>>; row 7 is White's     *)
(* back rank.  The castling rights are the set of <<color, side>> still    *)
(* possible.  The move counters are left out: no rule reads them.          *)
(***************************************************************************)
EXTENDS Boards, Sequences

BoardSize == 8
White == "white"
Black == "black"
OtherColor(color) == IF color = White THEN Black ELSE White
Nowhere == <<>>         \* no en-passant target

KnightSteps == {d \in (-2 .. 2) \X (-2 .. 2) : d[1] * d[1] + d[2] * d[2] = 5}
PawnDir(color)      == IF color = White THEN -1 ELSE 1
PawnStartRow(color) == IF color = White THEN 6 ELSE 1
PromotionRow(color) == IF color = White THEN 0 ELSE 7
BackRow(color)      == IF color = White THEN 7 ELSE 0
FullCastling == {White, Black} \X {"K", "Q"}

StartingPosition ==
    LET back == <<"R", "N", "B", "Q", "K", "B", "N", "R">>
    IN  [cells |-> [sq \in Squares(BoardSize) |->
            CASE sq[1] = 0 -> <<Black, back[sq[2] + 1]>>
              [] sq[1] = 1 -> <<Black, "P">>
              [] sq[1] = 6 -> <<White, "P">>
              [] sq[1] = 7 -> <<White, back[sq[2] + 1]>>
              [] OTHER -> Empty],
         turn |-> White, castling |-> FullCastling, enPassant |-> Nowhere,
         over |-> FALSE, outcome |-> "none", endReason |-> "none"]

ColorAt(board, sq, color) == sq \in DOMAIN board /\ board[sq] # Empty /\ board[sq][1] = color
Army(board, color) == {sq \in DOMAIN board : ColorAt(board, sq, color)}

-----------------------------------------------------------------------------
(* Attacks and checks.                                                      *)

RayAttacks(board, sq, d, by, types) ==
    \E k \in 1 .. BoardSize - 1 :
        /\ \E t \in types : Holds(board, Step(sq, d, k), <<by, t>>)
        /\ EmptyBetween(board, sq, d, k)

IsSquareAttacked(board, sq, by) ==
    \/ \E dc \in {-1, 1} : Holds(board, <<sq[1] - PawnDir(by), sq[2] + dc>>, <<by, "P">>)
    \/ \E d \in KnightSteps : Holds(board, Step(sq, d, 1), <<by, "N">>)
    \/ \E d \in AllDirections : Holds(board, Step(sq, d, 1), <<by, "K">>)
    \/ \E d \in Orthogonal : RayAttacks(board, sq, d, by, {"R", "Q"})
    \/ \E d \in Diagonal : RayAttacks(board, sq, d, by, {"B", "Q"})

Kings(board, color) == {sq \in DOMAIN board : board[sq] = <<color, "K">>}
IsInCheck(board, color) == \E sq \in Kings(board, color) : IsSquareAttacked(board, sq, OtherColor(color))

-----------------------------------------------------------------------------
(* Moves by their geometry.  A promotion names its piece, another move none.*)

Quiet(from, tos) == [from : {from}, to : tos, promotion : {"none"}]

\* A pawn that reaches the far rank must name what it becomes.
PawnArrives(from, tos, color) ==
    Quiet(from, {to \in tos : to[1] # PromotionRow(color)})
        \cup [from : {from}, to : {to \in tos : to[1] = PromotionRow(color)}, promotion : {"Q", "R", "B", "N"}]

StepMoves(board, from, color, steps) ==
    Quiet(from, {to \in {Step(from, d, 1) : d \in steps} : to \in DOMAIN board /\ ~ColorAt(board, to, color)})

SlideMoves(board, from, color, dirs) ==
    Quiet(from, UNION {{Step(from, d, k) : k \in {j \in 1 .. BoardSize - 1 :
                            /\ Step(from, d, j) \in DOMAIN board
                            /\ ~ColorAt(board, Step(from, d, j), color)
                            /\ EmptyBetween(board, from, d, j)}} : d \in dirs})

PawnMoves(pos, from, color) ==
    LET ahead(k) == Step(from, <<PawnDir(color), 0>>, k)
        sides == {Step(from, <<PawnDir(color), dc>>, 1) : dc \in {-1, 1}}
        advances == {ahead(1)} \cap {sq \in DOMAIN pos.cells : pos.cells[sq] = Empty}
        takes == {sq \in sides : ColorAt(pos.cells, sq, OtherColor(color))}
        passes == {sq \in sides : sq = pos.enPassant /\ Holds(pos.cells, sq, Empty)}
        leaps == {sq \in {ahead(2)} : /\ advances # {} /\ from[1] = PawnStartRow(color)
                                      /\ Holds(pos.cells, sq, Empty)}
    IN  PawnArrives(from, advances \cup takes, color) \cup Quiet(from, leaps \cup passes)

\* Out of check, through no attacked square, with the path to the rook empty.
Castles(pos, from, color) ==
    LET row == BackRow(color)
        safe(cols) == \A c \in cols : ~IsSquareAttacked(pos.cells, <<row, c>>, OtherColor(color))
        free(cols) == \A c \in cols : pos.cells[<<row, c>>] = Empty
        may(side, rookCol) == <<color, side>> \in pos.castling /\ pos.cells[<<row, rookCol>>] = <<color, "R">>
    IN  IF from # <<row, 4>> \/ IsInCheck(pos.cells, color) THEN {}
        ELSE Quiet(from, (IF may("K", 7) /\ free({5, 6}) /\ safe({5, 6}) THEN {<<row, 6>>} ELSE {})
                    \cup (IF may("Q", 0) /\ free({1, 2, 3}) /\ safe({2, 3}) THEN {<<row, 2>>} ELSE {}))

PseudoMovesFrom(pos, from) ==
    LET color == pos.cells[from][1]
        type  == pos.cells[from][2]
    IN  CASE type = "P" -> PawnMoves(pos, from, color)
          [] type = "N" -> StepMoves(pos.cells, from, color, KnightSteps)
          [] type = "B" -> SlideMoves(pos.cells, from, color, Diagonal)
          [] type = "R" -> SlideMoves(pos.cells, from, color, Orthogonal)
          [] type = "Q" -> SlideMoves(pos.cells, from, color, AllDirections)
          [] type = "K" -> StepMoves(pos.cells, from, color, AllDirections) \cup Castles(pos, from, color)

-----------------------------------------------------------------------------
(* The next position.                                                       *)

Type(pos, m) == pos.cells[m.from][2]
IsEnPassant(pos, m) ==
    Type(pos, m) = "P" /\ m.from[2] # m.to[2] /\ pos.cells[m.to] = Empty /\ m.to = pos.enPassant
IsCastle(pos, m) == Type(pos, m) = "K" /\ m.to[2] - m.from[2] \in {-2, 2}

BoardAfter_KeepsPassed(pos, m) ==                                       \* mutant
    [pos.cells EXCEPT ![m.from] = Empty,
                      ![m.to] = IF Type(pos, m) = "P" /\ m.to[1] = PromotionRow(pos.turn) THEN <<pos.turn, m.promotion>>
                                ELSE pos.cells[m.from]]

BoardAfter(pos, m) ==
    LET color  == pos.turn
        lifted == {m.from} \cup (IF IsEnPassant(pos, m) THEN {<<m.from[1], m.to[2]>>} ELSE {})
        placed == IF Type(pos, m) = "P" /\ m.to[1] = PromotionRow(color) THEN <<color, m.promotion>>
                  ELSE pos.cells[m.from]
        moved  == [Placed(pos.cells, lifted, Empty) EXCEPT ![m.to] = placed]
        rook   == IF m.to[2] = 6 THEN <<7, 5>> ELSE <<0, 3>>
    IN  IF ~IsCastle(pos, m) THEN moved
        ELSE [moved EXCEPT ![<<m.from[1], rook[1]>>] = Empty, ![<<m.from[1], rook[2]>>] = <<color, "R">>]

RookHome(right) == <<BackRow(right[1]), IF right[2] = "K" THEN 7 ELSE 0>>

CastlingAfter_KeepsCaptured(pos, m) ==                                  \* mutant
    {right \in pos.castling :
        ~(right[1] = pos.turn /\ (Type(pos, m) = "K" \/ (Type(pos, m) = "R" /\ m.from = RookHome(right))))}

\* The king's move loses both rights, a rook's move or its capture at home one.
CastlingAfter(pos, m) ==
    {right \in pos.castling :
        /\ ~(right[1] = pos.turn /\ (Type(pos, m) = "K" \/ (Type(pos, m) = "R" /\ m.from = RookHome(right))))
        /\ ~(pos.cells[m.to] = <<right[1], "R">> /\ m.to = RookHome(right))}

ApplyMove(pos, m) ==
    [pos EXCEPT
        !.cells = BoardAfter(pos, m),
        !.turn = OtherColor(pos.turn),
        !.castling = CastlingAfter(pos, m),
        !.enPassant = IF Type(pos, m) = "P" /\ m.to[1] - m.from[1] \in {-2, 2}
                      THEN <<(m.from[1] + m.to[1]) \div 2, m.from[2]>> ELSE Nowhere]

LegalMovesFrom(pos, from) ==
    IF ~ColorAt(pos.cells, from, pos.turn) THEN {}
    ELSE {m \in PseudoMovesFrom(pos, from) : ~IsInCheck(BoardAfter(pos, m), pos.turn)}

HasLegalMove(pos) ==
    \E from \in Army(pos.cells, pos.turn) : \E m \in PseudoMovesFrom(pos, from) : ~IsInCheck(BoardAfter(pos, m), pos.turn)

-----------------------------------------------------------------------------
(* The end.                                                                 *)

\* Bare kings, one minor piece, or a bishop each on squares of one shade.
IsInsufficientMaterial(board) ==
    LET men == {sq \in DOMAIN board : board[sq] # Empty /\ board[sq][2] # "K"}
    IN  /\ \A sq \in men : board[sq][2] \in {"B", "N"}
        /\ \/ Cardinality(men) <= 1
           \/ /\ Cardinality(men) = 2
              /\ \A sq \in men : board[sq][2] = "B"
              /\ \A a, b \in men : a # b =>
                    board[a][1] # board[b][1] /\ (a[1] + a[2]) % 2 = (b[1] + b[2]) % 2

Ended(pos, outcome, reason) == [pos EXCEPT !.over = TRUE, !.outcome = outcome, !.endReason = reason]

ResolveEnd(pos) ==
    LET stuck == ~HasLegalMove(pos)
        check == IsInCheck(pos.cells, pos.turn)
    IN  CASE stuck /\ check  -> Ended(pos, OtherColor(pos.turn), "checkmate")
          [] stuck /\ ~check -> Ended(pos, "draw", "stalemate")
          [] ~stuck /\ IsInsufficientMaterial(pos.cells) -> Ended(pos, "draw", "insufficient")
          [] OTHER -> pos

\* What a device may send: any move by geometry of either side, or a resignation.
Resign == [resign |-> TRUE]
Moves(s, p) ==
    {Resign} \cup UNION {PseudoMovesFrom(s, from) : from \in {sq \in DOMAIN s.cells : s.cells[sq] # Empty}}

CollectMove(s, p, m) ==
    CASE s.over \/ p # s.turn -> s
      [] ~s.over /\ p = s.turn /\ m = Resign -> Ended(s, OtherColor(s.turn), "resign")
      [] ~s.over /\ p = s.turn /\ m # Resign ->
             IF m \in LegalMovesFrom(s, m.from) THEN ResolveEnd(ApplyMove(s, m)) ELSE s

Standing(s, color) ==
    CASE s.over /\ s.outcome = color  -> 2
      [] s.over /\ s.outcome = "draw" -> 1
      [] OTHER -> 0

-----------------------------------------------------------------------------
(* apps/web/lib/games/chess: the board as one surface.  A piece is tapped  *)
(* and then a square; a pawn that reaches the last rank raises a dialog    *)
(* for what it becomes, and nothing else is tapped until one is chosen.    *)

\* What was tapped: sets of at most one square, and of at most one move.
Blank == [selected |-> {}, pendingPromo |-> {}]

Legal(s) == IF s.over THEN {} ELSE {m : m \in UNION {LegalMovesFrom(s, from) : from \in Army(s.cells, s.turn)}}

IsActive(s, me) == ~s.over /\ s.turn = me

OnFrame_KeepsDialog(d, s, me) == IF IsActive(s, me) THEN d ELSE [d EXCEPT !.selected = {}]     \* mutant

\* Both are cleared when the turn is not, or no longer, ours.
OnFrame(d, s, me) == IF IsActive(s, me) THEN d ELSE Blank

MovesFrom(legal, selected) == {m \in legal : m.from \in selected}
IsPromotion(m) == m.promotion # "none"
Untyped(m) == [from |-> m.from, to |-> m.to]


\* What the buttons of the dialog send.
Choices(d) == {[from |-> m.from, to |-> m.to, promotion |-> type] : m \in d.pendingPromo, type \in {"Q", "R", "B", "N"}}

Submit(m) == [device |-> Blank, sends |-> <<m>>]
Hold(d)   == [device |-> d, sends |-> <<>>]

Taps(s, legal, d, me) ==
    CASE ~IsActive(s, me) -> {}
      [] IsActive(s, me) /\ d.pendingPromo # {} ->
             {Submit(m) : m \in Choices(d)}
                 \cup {[device |-> d, sends |-> <<Resign>>]}
      [] IsActive(s, me) /\ d.pendingPromo = {} ->
             {Submit(m) : m \in {n \in MovesFrom(legal, d.selected) : ~IsPromotion(n)}}
                 \cup {Hold([d EXCEPT !.pendingPromo = {Untyped(m)}]) : m \in {n \in MovesFrom(legal, d.selected) : IsPromotion(n)}}
                 \cup {Hold([d EXCEPT !.selected = {m.from}]) : m \in {n \in legal : n.from \notin d.selected}}
                 \cup {Hold(Blank), [device |-> d, sends |-> <<Resign>>]}

\* The square washed red.
CheckSquare(s) == IF IsInCheck(s.cells, s.turn) THEN Kings(s.cells, s.turn) ELSE {}
==============================================================================
