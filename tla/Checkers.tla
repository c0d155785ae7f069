------------------------------ MODULE Checkers ------------------------------
(***************************************************************************)
(* packages/games/checkers: English draughts with mandatory captures.      *)
(* Violet sits at the bottom and moves up the board.                       *)
(***************************************************************************)
EXTENDS Boards, Sequences

CONSTANTS Size,         \* BOARD_SIZE, 8 in the code
          HomeRows      \* rows of men each side starts with, 3 in the code

Man(side)  == [side |-> side, king |-> FALSE]
King(side) == [side |-> side, king |-> TRUE]

IsDark(sq) == (sq[1] + sq[2]) % 2 = 1

StartingBoard ==
    [sq \in Squares(Size) |->
        CASE IsDark(sq) /\ sq[1] < HomeRows         -> Man("amber")
          [] IsDark(sq) /\ sq[1] >= Size - HomeRows -> Man("violet")
          [] OTHER -> Empty]

Opening == {[cells |-> StartingBoard, turn |-> "violet", over |-> FALSE]}

ForwardSteps(side) == {d \in Diagonal : d[1] = IF side = "violet" THEN -1 ELSE 1}
StepsFor(piece) == IF piece.king THEN Diagonal ELSE ForwardSteps(piece.side)
CrownRow(side) == IF side = "violet" THEN 0 ELSE Size - 1
Crowns(piece, row) == ~piece.king /\ row = CrownRow(piece.side)

Belongs(board, sq, side) == sq \in DOMAIN board /\ board[sq] # Empty /\ board[sq].side = side
Mine(board, side) == {sq \in DOMAIN board : Belongs(board, sq, side)}

\* The directions in which a piece standing on a square can jump.
HopsFrom(board, at, piece) ==
    {d \in StepsFor(piece) :
        Belongs(board, Step(at, d, 1), OtherSide(piece.side)) /\ Holds(board, Step(at, d, 2), Empty)}

\* One hop of a chain: the jumped piece is gone before the next is looked for.
Hopped(board, at, d, piece) ==
    [Placed(board, {at, Step(at, d, 1)}, Empty) EXCEPT ![Step(at, d, 2)] = piece]

\* A chain may go on, but a man crowned on the way stops there.
Onward(chain, piece) ==
    IF chain.path # <<>> /\ Crowns(piece, chain.at[1]) THEN {} ELSE HopsFrom(chain.board, chain.at, piece)
Hop(chain, d, piece) ==
    LET to == Step(chain.at, d, 2)
    IN  [board |-> Hopped(chain.board, chain.at, d, piece), at |-> to, path |-> Append(chain.path, to)]
Extended(chains, piece) ==
    UNION {IF Onward(c, piece) = {} THEN {c} ELSE {Hop(c, d, piece) : d \in Onward(c, piece)} : c \in chains}

\* Every maximal chain of landing squares: each hop takes a piece of the other side.
JumpPaths(board, at, piece) ==
    LET last == Cardinality(Mine(board, OtherSide(piece.side)))
        chains[n \in 0 .. last] ==
            IF n = 0 THEN {[board |-> board, at |-> at, path |-> <<>>]} ELSE Extended(chains[n - 1], piece)
    IN  {c.path : c \in chains[last]}

Captures(board, side) ==
    UNION {{[from |-> sq, path |-> path] : path \in JumpPaths(board, sq, board[sq]) \ {<<>>}} : sq \in Mine(board, side)}

Walks(board, side) ==
    UNION {{[from |-> sq, path |-> <<Step(sq, d, 1)>>] :
              d \in {e \in StepsFor(board[sq]) : Holds(board, Step(sq, e, 1), Empty)}} : sq \in Mine(board, side)}

\* Mandatory capture: while a side can jump it may do nothing else.
LegalMoves(board, side) ==
    IF Captures(board, side) # {} THEN Captures(board, side) ELSE Walks(board, side)

\* The squares a move goes through, and those it jumps over.
Trail(m) == <<m.from>> \o m.path
Jumped(m) ==
    {<<(Trail(m)[i][1] + Trail(m)[i + 1][1]) \div 2, (Trail(m)[i][2] + Trail(m)[i + 1][2]) \div 2>> :
        i \in {j \in 1 .. Len(m.path) : Trail(m)[j + 1][1] - Trail(m)[j][1] \in {-2, 2}}}

ApplyMove(board, side, m) ==
    LET piece  == board[m.from]
        crowned == piece.king \/ \E i \in 1 .. Len(m.path) : m.path[i][1] = CrownRow(side)
    IN  [Placed(board, {m.from} \cup Jumped(m), Empty)
            EXCEPT ![m.path[Len(m.path)]] = [side |-> side, king |-> crowned]]

\* What a device may send: any step or chain of either side, and the first hop alone.
Moves(s, p) ==
    LET known == UNION {Captures(s.cells, side) \cup Walks(s.cells, side) : side \in Sides}
    IN  known \cup {[m EXCEPT !.path = <<Head(m.path)>>] : m \in known}

\* A side that cannot move when its turn comes has lost.
CollectMove(s, p, m) ==
    IF s.over \/ p # s.turn \/ m \notin LegalMoves(s.cells, s.turn) THEN s
    ELSE LET next == ApplyMove(s.cells, s.turn, m)
         IN  [cells |-> next, turn |-> OtherSide(s.turn), over |-> LegalMoves(next, OtherSide(s.turn)) = {}]

WinBonus == 1000
Standing(s, side) ==
    Cardinality(Mine(s.cells, side)) + (IF s.over /\ side = OtherSide(s.turn) THEN WinBonus ELSE 0)

-----------------------------------------------------------------------------
(* apps/web/lib/games/checkers: the board as one surface.  A piece is      *)
(* tapped and then a square; the board shows the move it was told of by    *)
(* comparing two snapshots.                                                *)

\* The piece tapped first, or none: a set of at most one square.
Blank == [selected |-> {}]

Legal(s) == IF s.over THEN {} ELSE LegalMoves(s.cells, s.turn)

IsActive(s, me) == ~s.over /\ s.turn = me
Last(m) == m.path[Len(m.path)]

MovableSources(legal) == {m.from : m \in legal}
DestinationsFor(legal, selected) == {Last(m) : m \in {n \in legal : n.from \in selected}}

\* A selection does not outlive the turn.
OnFrame(d, s, me) == IF IsActive(s, me) THEN d ELSE Blank

\* A square the selected piece may reach sends the move; two chains that end on
\* one square are told apart by their order in the list, which is left out.  Any
\* other square selects a movable piece or clears the selection.
Taps(s, legal, d, me) ==
    IF ~IsActive(s, me) THEN {}
    ELSE {[device |-> Blank, sends |-> <<m>>] : m \in {n \in legal : n.from \in d.selected}}
            \cup {[device |-> [selected |-> {sq}], sends |-> <<>>] :
                    sq \in MovableSources(legal) \ (d.selected \cup DestinationsFor(legal, d.selected))}
            \cup {[device |-> Blank, sends |-> <<>>]}

HasMandatoryCapture(legal) == \E m \in legal : Head(m.path)[1] - m.from[1] \in {-2, 2}

TurnPopup(s, legal, me) ==
    CASE IsActive(s, me) /\ HasMandatoryCapture(legal)  -> "your turn - you must jump"
      [] IsActive(s, me) /\ ~HasMandatoryCapture(legal) -> "your turn"
      [] OTHER -> "none"

-----------------------------------------------------------------------------
(* The slide between two snapshots.                                         *)

NoAnim == [from |-> <<>>]

\* One square gained a piece; of those that lost one, the mover's own is where
\* it came from and the others were jumped.  Anything else is not animated.
DiffMove(before, after) ==
    LET added   == {sq \in DOMAIN after : before[sq] = Empty /\ after[sq] # Empty}
        removed == {sq \in DOMAIN after : before[sq] # Empty /\ after[sq] = Empty}
        to      == CHOOSE sq \in added : TRUE
        own     == {sq \in removed : before[sq].side = after[to].side}
        from    == CHOOSE sq \in own : \A other \in own : Size * sq[1] + sq[2] <= Size * other[1] + other[2]
    IN  IF Cardinality(added) # 1 \/ own = {} THEN NoAnim
        ELSE [from |-> from, to |-> to, captures |-> removed \ {from},
              crowned |-> after[to].king /\ ~before[from].king]

\* Hop over whichever captured piece is next to the mover, the first one of the
\* board if several are, until none is.
HopOn(slide) ==
    LET at   == slide.points[Len(slide.points)]
        near == {sq \in slide.left : <<sq[1] - at[1], sq[2] - at[2]>> \in Diagonal}
        over == CHOOSE sq \in near : \A other \in near : Size * sq[1] + sq[2] <= Size * other[1] + other[2]
    IN  IF near = {} THEN slide
        ELSE [points |-> Append(slide.points, Step(at, <<over[1] - at[1], over[2] - at[2]>>, 2)), left |-> slide.left \ {over}]
Hops(at, captures) ==
    LET slides[n \in 0 .. Cardinality(captures)] ==
            IF n = 0 THEN [points |-> <<at>>, left |-> captures] ELSE HopOn(slides[n - 1])
    IN  slides[Cardinality(captures)]

\* The squares the piece glides through; straight where the chain cannot be told.
JumpPath(anim) ==
    LET hops == Hops(anim.from, anim.captures)
    IN  IF Cardinality(anim.captures) <= 1 \/ hops.left # {} \/ hops.points[Len(hops.points)] # anim.to
        THEN <<anim.from, anim.to>> ELSE hops.points
==============================================================================
