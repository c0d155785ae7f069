----------------------------- MODULE Whispergrove -----------------------------
(***************************************************************************)
(* packages/games/whispergrove: two groves look for their own leaves on a  *)
(* shared grid.  A leaf is its index; a whispered word matters only by     *)
(* whether it is one fresh token.                                          *)
(***************************************************************************)
EXTENDS RoundContext

CONSTANTS StartLeaves, OtherLeaves, SaplingLeaves, DeadwoodLeaves   \* 9, 8, 7 and 1 in the code

GridSize == StartLeaves + OtherLeaves + SaplingLeaves + DeadwoodLeaves
Grid == 0 .. GridSize - 1

Teams == {"violet", "amber"}
Roles == Teams \cup {"sapling", "deadwood"}
OtherTeam(team) == IF team = "violet" THEN "amber" ELSE "violet"

\* Even seats (the first is 0) are violet; the first of a grove whispers.
SeatOf(p) == CHOOSE i \in 1 .. Len(Seats) : Seats[i] = p
TeamOf(p) == IF SeatOf(p) % 2 = 1 THEN "violet" ELSE "amber"
IsWhisperer(p) == SeatOf(p) <= 2

Dealt(role) ==
    CASE role = "violet"  -> StartLeaves
      [] role = "amber"   -> OtherLeaves
      [] role = "sapling" -> SaplingLeaves
      [] OTHER            -> DeadwoodLeaves

Keys == {k \in [Grid -> Roles] : \A role \in Roles : Cardinality({i \in Grid : k[i] = role}) = Dealt(role)}

Opening ==
    {[key |-> key, revealed |-> {}, turn |-> "violet", phase |-> "whispering", count |-> 0,
      guessesLeft |-> 0, winner |-> Nobody, endReason |-> Nobody] : key \in Keys}

Hidden(s, team) == {i \in Grid \ s.revealed : s.key[i] = team}

EndGameWith(s, winner, reason) ==
    [s EXCEPT !.winner = winner, !.endReason = reason, !.phase = "over", !.count = 0, !.guessesLeft = 0]

PassTurn(s) ==
    [s EXCEPT !.turn = OtherTeam(s.turn), !.phase = "whispering", !.count = 0, !.guessesLeft = 0]

-----------------------------------------------------------------------------
Moves(s, p) ==
    [kind : {"whisper"}, word : {"fresh", "on the grove", "two tokens"}, count : 0 .. GridSize]
        \cup [kind : {"tap"}, index : Grid \cup {-1, GridSize}]

\* A number between one and the leaves the grove still looks for.
MayWhisper(s, p, m) ==
    /\ s.phase = "whispering" /\ TeamOf(p) = s.turn /\ IsWhisperer(p)
    /\ m.word = "fresh"
    /\ m.count \in 1 .. Cardinality(Hidden(s, s.turn))

Whisper(s, m) == [s EXCEPT !.count = m.count, !.guessesLeft = m.count + 1, !.phase = "guessing"]

MayTap(s, p, m) ==
    /\ s.phase = "guessing" /\ TeamOf(p) = s.turn /\ ~IsWhisperer(p)
    /\ s.guessesLeft > 0
    /\ m.index \in Grid \ s.revealed

\* The deadwood loses at once; a grove whose last leaf shows has won, whoever
\* tapped it; anything but an own leaf, or the last tap, passes the turn.
Tap(s, i) ==
    LET shown == [s EXCEPT !.revealed = @ \cup {i}, !.guessesLeft = @ - 1]
        cleared(team) == Hidden(shown, team) = {}
    IN  CASE s.key[i] = "deadwood" -> EndGameWith(shown, OtherTeam(s.turn), "deadwood")
          [] s.key[i] # "deadwood" /\ cleared("violet") -> EndGameWith(shown, "violet", "cleared")
          [] s.key[i] # "deadwood" /\ ~cleared("violet") /\ cleared("amber") -> EndGameWith(shown, "amber", "cleared")
          [] OTHER -> IF s.key[i] # s.turn \/ shown.guessesLeft <= 0 THEN PassTurn(shown) ELSE shown

CollectMove(s, p, m) ==
    CASE m.kind = "whisper" -> IF MayWhisper(s, p, m) THEN Whisper(s, m) ELSE s
      [] m.kind = "tap"     -> IF MayTap(s, p, m) THEN Tap(s, m.index) ELSE s

\* A tick only streams the grove; standings share one outcome per grove.
Standing(s, p) == IF s.winner = TeamOf(p) THEN 1 ELSE 0

-----------------------------------------------------------------------------
(* apps/web/lib/games/whispergrove: the grove as everyone sees it, the key   *)
(* that only whisperers are sent, and the whisper box or the taps of a leaf. *)

\* A leaf shows its role once it is revealed.
Snapshot(s) ==
    [leaves |-> [i \in Grid |-> IF i \in s.revealed THEN s.key[i] ELSE Nobody],
     seats |-> [p \in Players |-> [team |-> TeamOf(p), whisperer |-> IsWhisperer(p)]],
     turn |-> s.turn, phase |-> s.phase, count |-> s.count, guessesLeft |-> s.guessesLeft,
     winner |-> s.winner, endReason |-> s.endReason]

\* A leaf that shows is not tapped; a whisper is typed, with its number.
Controls(sim, me) ==
    LET seat   == sim.seats[me]
        myTurn == sim.phase # "over" /\ seat.team = sim.turn
    IN  CASE myTurn /\ seat.whisperer /\ sim.phase = "whispering" ->
               [kind : {"whisper"}, word : {"fresh", "on the grove", "two tokens"}, count : 0 .. GridSize]
          [] myTurn /\ ~seat.whisperer /\ sim.phase = "guessing" /\ sim.guessesLeft > 0 ->
               {[kind |-> "tap", index |-> i] : i \in {j \in Grid : sim.leaves[j] = Nobody}}
          [] OTHER -> {}

Offers(s, me) == Controls(Snapshot(s), me)
==============================================================================
