----------------------------- MODULE TeeterTower -----------------------------
(***************************************************************************)
(* packages/games/teeter-tower: pieces are dropped in turn on a tower that *)
(* the physics engine keeps moving.  The physics (matter-js) is external:  *)
(* every step may leave the scene at rest at any height, or in motion, and *)
(* may cull pieces that fell.  Heights are counted in quarters of a        *)
(* level's target, which is what a height scores.                          *)
(***************************************************************************)
EXTENDS RoundContext

CONSTANTS Levels,           \* 3 in the code; the last one has a pendulum
          Goal,             \* quarters of the target, 4 in the code
          Par,              \* pieces of a level that cost nothing
          BeatTicks,        \* ticks of the beats between two levels
          MaxSettleTicks,   \* ticks the next piece is held back for a scene in motion
          MaxPlaced         \* MAX_PLACED_BODIES, 60 in the code

Max2(a, b) == IF a > b THEN a ELSE b

\* configure and startRound: an empty tower and the first piece.
Opening ==
    {[level |-> 1, best |-> 0, stable |-> 0, pieces |-> 0, score |-> 0, index |-> 0, placed |-> 0,
      next |-> TRUE, over |-> FALSE, phase |-> "playing", ticks |-> 0, wait |-> 0, scene |-> "settled"]}

ActivePlayer(s) == Seats[(s.index % Len(Seats)) + 1]

-----------------------------------------------------------------------------
\* A drop is clear of everything or it overlaps: the pendulum of the last
\* level, or a tower that leans into the way.  The code lifts a low one itself.
Moves(s, p) == {"clear", "overlaps", "malformed"}

Blocked(s, m) == m = "overlaps" /\ (s.scene # "settled" \/ s.level = Levels)

Refused(s, p, m) ==
    s.over \/ p # ActivePlayer(s) \/ m = "malformed" \/ ~s.next \/ s.placed >= MaxPlaced \/ Blocked(s, m)

\* The piece joins the scene in motion; past par it costs a penalty.
CollectMove(s, p, m) ==
    IF Refused(s, p, m) THEN s
    ELSE [s EXCEPT !.placed = @ + 1, !.index = @ + 1, !.pieces = @ + 1, !.next = FALSE, !.wait = 0,
                   !.scene = "falling", !.score = IF s.pieces + 1 > Par THEN @ - 1 ELSE @]

-----------------------------------------------------------------------------
(* A tick steps the scene, and then plays on or counts a beat down.         *)

\* A piece is seen to move on the step after its drop.
Stepped(s) ==
    {[s EXCEPT !.placed = to.placed, !.scene = to.scene, !.stable = IF to.scene = "settled" THEN to.height ELSE @] :
        to \in {x \in [placed : 0 .. s.placed, scene : {"settled", "moving"}, height : 0 .. Goal] :
                  /\ x.placed = 0 => x.scene = "settled" /\ x.height = 0
                  /\ s.scene = "falling" => x.scene = "moving" /\ x.placed = s.placed
                  /\ x.scene = "moving" => x.height = 0}}

AdvanceLevel(s) ==
    [s EXCEPT !.level = @ + 1, !.best = 0, !.stable = 0, !.pieces = 0, !.wait = 0, !.placed = 0, !.scene = "settled"]

BeatOver(s) ==
    CASE s.phase = "complete" /\ s.level < Levels -> [AdvanceLevel(s) EXCEPT !.phase = "intro", !.ticks = BeatTicks]
      [] s.phase = "complete" /\ s.level = Levels -> [s EXCEPT !.over = TRUE, !.next = FALSE]
      [] s.phase = "intro" -> [s EXCEPT !.phase = "playing", !.wait = 0]

Scored(s) == [s EXCEPT !.best = Max2(@, s.stable), !.score = @ + Max2(s.best, s.stable) - s.best]

\* The next piece waits for the tower to rest, but not for ever.
OfferNext(s) ==
    IF s.next THEN s
    ELSE [s EXCEPT !.wait = @ + 1, !.next = s.scene = "settled" \/ s.wait + 1 >= MaxSettleTicks]

Play(s) ==
    IF s.stable >= Goal THEN [Scored(s) EXCEPT !.phase = "complete", !.ticks = BeatTicks, !.next = FALSE]
    ELSE OfferNext(Scored(s))

TickOf(s) ==
    CASE s.phase = "playing" -> Play(s)
      [] s.phase # "playing" /\ s.ticks > 1  -> [s EXCEPT !.ticks = @ - 1]
      [] s.phase # "playing" /\ s.ticks <= 1 -> BeatOver([s EXCEPT !.ticks = 0])

Tick(s) == IF s.over THEN {s} ELSE {TickOf(stepped) : stepped \in Stepped(s)}

\* Whoever's turn it is carries the whole score.
Standing(s, p) == IF p = ActivePlayer(s) THEN s.score ELSE 0

-----------------------------------------------------------------------------
(* apps/web/lib/games/teeter-tower: the one surface of Teeter Tower.  The  *)
(* active player stops the spin of the piece and drops it.                 *)

\* aimed: the piece being aimed, a set of at most one.
Blank == [aimed |-> {}, aim |-> "spinning", dropped |-> FALSE]

NextId(s) == IF s.next THEN {s.index} ELSE {}
IsActive(s, me) == ~s.over /\ s.next /\ ActivePlayer(s) = me

\* Another piece, or none, resets the aim.
OnFrame(d, s, me) == IF NextId(s) # d.aimed THEN [Blank EXCEPT !.aimed = NextId(s)] ELSE d

\* The button and the double tap; nothing more once the piece is on its way.
Taps(s, d, me) ==
    IF ~IsActive(s, me) \/ d.dropped THEN {}
    ELSE IF d.aim = "spinning" THEN {[device |-> [d EXCEPT !.aim = "placing"], sends |-> <<>>]}
    ELSE {[device |-> [d EXCEPT !.dropped = TRUE], sends |-> <<m>>] : m \in {"clear", "overlaps"}}
==============================================================================
