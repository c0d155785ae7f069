----------------------------- MODULE MCLiveGames -----------------------------
(* Small boards, groves and decks.  Chess and checkers also start from        *)
(* positions a game reaches, where their rarer rules are next.                *)
EXTENDS LiveScreens, TLC

CONSTANTS ann, bob, cat, dan

MCTables ==
    ("teeter-tower" :> <<ann, bob>>) @@
    [reversi |-> <<"violet", "amber">>, checkers |-> <<"violet", "amber">>, chess |-> <<"white", "black">>,
     nightleaf |-> <<ann, bob>>, brambles |-> <<ann, bob, cat, dan>>, whispergrove |-> <<ann, bob, cat, dan>>]

\* A position with these pieces, by square.
Set(pieces, turn, castling, enPassant) ==
    [Chess!StartingPosition EXCEPT
        !.cells = [sq \in DOMAIN @ |-> IF sq \in DOMAIN pieces THEN pieces[sq] ELSE Empty],
        !.turn = turn, !.castling = castling, !.enPassant = enPassant]

W(type) == <<"white", type>>
B(type) == <<"black", type>>

\* Every right still there and a file on which the rooks may take each other at home.
Castling ==
    Set(<<7, 4>> :> W("K") @@ <<7, 0>> :> W("R") @@ <<7, 7>> :> W("R") @@ <<0, 4>> :> B("K") @@ <<0, 0>> :> B("R")
            @@ <<0, 7>> :> B("R") @@ <<6, 7>> :> W("P") @@ <<1, 7>> :> B("P"),
        "white", Chess!FullCastling, Chess!Nowhere)
\* Pawns about to leap past each other, and one about to promote.
Pawns ==
    Set(<<7, 7>> :> W("K") @@ <<0, 0>> :> B("K") @@ <<6, 4>> :> W("P") @@ <<4, 3>> :> B("P") @@ <<3, 6>> :> W("P")
            @@ <<1, 5>> :> B("P") @@ <<1, 7>> :> W("P"),
        "white", {}, Chess!Nowhere)
\* A king in the corner against king, queen and pawn.
Cornered ==
    Set(<<2, 1>> :> W("K") @@ <<2, 6>> :> W("Q") @@ <<0, 0>> :> B("K") @@ <<4, 5>> :> B("N"),
        "white", {}, Chess!Nowhere)

Draughts(pieces) ==
    [cells |-> [sq \in DOMAIN Checkers!StartingBoard |-> IF sq \in DOMAIN pieces THEN pieces[sq] ELSE Empty],
     turn |-> "violet", over |-> FALSE]

V == Checkers!Man("violet")
A == Checkers!Man("amber")

\* Two chains to one square, and an answer that is a chain over a king.
Chains ==
    Draughts(<<5, 2>> :> V @@ <<3, 2>> :> Checkers!King("violet") @@ <<4, 5>> :> V
                @@ <<4, 1>> :> A @@ <<2, 1>> :> A @@ <<4, 3>> :> A @@ <<2, 3>> :> A @@ <<0, 1>> :> A)
\* A man is crowned in the middle of what would be a chain for a king, and a king is about.
Crownings ==
    Draughts(<<2, 1>> :> V @@ <<4, 3>> :> V @@ <<1, 2>> :> A @@ <<1, 4>> :> A @@ <<3, 0>> :> A
                @@ <<5, 4>> :> Checkers!King("amber"))

MCCheckersOpenings == Checkers!Opening \cup {Chains, Crownings}

MCMaxPlies == ("teeter-tower" :> 3) @@ [reversi |-> 6, checkers |-> 4, chess |-> 2]

MCChessOpenings == {Castling, Pawns, Cornered}
================================================================================
