------------------------------ MODULE Brambles ------------------------------
(***************************************************************************)
(* packages/games/brambles: two groves take turns at sprints in which a    *)
(* Guide clues cards.  A clue is clean or touches the card (a prick), a    *)
(* guess is right or wrong; the log and the counters of the screen are     *)
(* left out.                                                               *)
(***************************************************************************)
EXTENDS RoundContext

CONSTANTS Cards,            \* the ids of the bank
          Sprints,          \* sprints of a game
          SprintTicks       \* ticks of a sprint

NoCard == "none"

\* assignTeams: Seats is sorted by id here, and dealt to the groves in turn.
TeamOf(p) == (CHOOSE i \in 1 .. Len(Seats) : Seats[i] = p) % 2
GuideOf(team) == IF team = 1 THEN Seats[1] ELSE Seats[2]
ActiveTeam(s) == s.sprint % 2

\* A card not yet drawn, or none when the bank is dry.
NextCard(s) ==
    IF Cards \subseteq s.used THEN {[s EXCEPT !.card = NoCard]}
    ELSE {[s EXCEPT !.card = card, !.used = @ \cup {card}] : card \in Unused(Cards, s)}

OpenSprint(s) == NextCard([s EXCEPT !.sprint = @ + 1, !.ticks = 0])

\* Both groves get as many turns.
ValidConfig == Sprints \in 2 .. 20 /\ Sprints % 2 = 0

Opening ==
    IF ~ValidConfig \/ Len(Seats) < 2 THEN {}
    ELSE OpenSprint([sprint |-> 0, ticks |-> 0, used |-> {}, card |-> NoCard, scores |-> [team \in {0, 1} |-> 0], over |-> FALSE])

Clues   == {"clean clue", "prick"}      \* a prick shares a stem with the card or a thorn
Guesses == {"right", "wrong"}           \* right within an edit or two
Moves(s, p) == Clues \cup Guesses \cup {"skip", "blank"}

MayAct(s, p) == ~s.over /\ s.card # NoCard /\ TeamOf(p) = ActiveTeam(s)
IsGuide(s, p) == p = GuideOf(ActiveTeam(s))

\* A prick draws the next card and is answered as a refusal, which the engine
\* (submitMove) takes as: nothing happened.
Refused(s, p, m) ==
    \/ m = "blank" \/ ~MayAct(s, p)
    \/ m \in {"skip", "clean clue", "prick"} /\ ~IsGuide(s, p)
    \/ m \in {"right", "wrong"} /\ IsGuide(s, p)
    \/ m = "prick"

CollectMove(s, p, m) ==
    CASE MayAct(s, p) /\ IsGuide(s, p) /\ m \in {"skip", "prick"} -> NextCard(s)
      [] MayAct(s, p) /\ ~IsGuide(s, p) /\ m = "right" ->
             NextCard([s EXCEPT !.scores[ActiveTeam(s)] = @ + 1])
      [] OTHER -> {s}

Ticked(s) == [s EXCEPT !.ticks = @ + 1]
SprintIsUp(s) == s.ticks >= SprintTicks \/ s.card = NoCard

\* The clock, or a dry bank, ends the sprint; the last sprint ends the game.
Tick(s) ==
    CASE s.over -> {s}
      [] ~s.over /\ ~SprintIsUp(Ticked(s)) -> {Ticked(s)}
      [] ~s.over /\ SprintIsUp(Ticked(s)) /\ s.sprint >= Sprints -> {[Ticked(s) EXCEPT !.over = TRUE, !.card = NoCard]}
      [] OTHER -> OpenSprint(Ticked(s))

Standing(s, p) == s.scores[TeamOf(p)]

-----------------------------------------------------------------------------
(* apps/web/lib/games/brambles: the public sprint, the Guide's card, and the *)
(* boxes of the remote.                                                      *)

\* Neither the card nor who is in which grove.
Snapshot(s) == [sprint |-> s.sprint, guide |-> GuideOf(ActiveTeam(s)), scores |-> s.scores, over |-> s.over]

\* Only the Guide of the sprint is told the card, with every frame.
Secret(s, me) == IF me = GuideOf(ActiveTeam(s)) THEN s.card ELSE NoCard

\* Everyone who is not the Guide may type a guess: the engine refuses the others.
Controls(sim, card, me) ==
    CASE sim.over -> {}
      [] ~sim.over /\ sim.guide = me /\ card # NoCard -> Clues \cup {"skip"}
      [] OTHER -> Guesses

Offers(s, me) == Controls(Snapshot(s), Secret(s, me), me)
==============================================================================
