------------------------------ MODULE SameBranch ------------------------------
(***************************************************************************)
(* packages/games/same-branch: a Reader hints at a spot, the others guess. *)
(***************************************************************************)
EXTENDS RoundContext, GameScreen

CONSTANTS Spectrums,    \* the ids of the chosen categories' spectrums
          Buds,         \* where the hidden spot may be drawn
          Sliders       \* numbers a device may send for the sap line

Fresh(rounds) == [rounds |-> rounds, used |-> {}, bud |-> Nobody, reader |-> Nobody,
                  hunch |-> FALSE, guesses |-> [p \in Players |-> -1]]

ValidConfig(rounds) == rounds \in 1 .. 100

Configured(rounds) == IF ~ValidConfig(rounds) \/ Cardinality(Spectrums) < rounds THEN {} ELSE {Fresh(rounds)}

\* The seats take turns to read, whoever is connected.
ReaderFor(round) == Seats[((round - 1) % Len(Seats)) + 1]

StartRound(c) ==
    UNION {{[c.scratch EXCEPT !.used = @ \cup {spectrum}, !.bud = bud, !.reader = ReaderFor(c.round),
                              !.hunch = FALSE, !.guesses = [p \in Players |-> -1]] : bud \in Buds} :
           spectrum \in Unused(Spectrums, c.scratch)}

-----------------------------------------------------------------------------
Moves(c, p) == [text : {"blank", "words"}] \cup [number : Sliders]

ClampToBranch(v) == IF v < 0 THEN 0 ELSE IF v > 100 THEN 100 ELSE v

Refused(c, p, m) == m = [text |-> IF p = c.scratch.reader THEN "blank" ELSE "words"]

\* Number("") is 0: a guesser's blank is a guess at the left end.
CollectMove(c, p, m) ==
    IF Refused(c, p, m) THEN c.scratch
    ELSE IF p = c.scratch.reader THEN [c.scratch EXCEPT !.hunch = TRUE]
    ELSE [c.scratch EXCEPT !.guesses[p] = IF "text" \in DOMAIN m THEN 0 ELSE ClampToBranch(m.number)]

Guessers(s) == {p \in Players : s.guesses[p] >= 0}

\* Only the connected are waited for, the Reader included.
AllSubmitted(c) ==
    /\ c.present # {}
    /\ c.scratch.reader \in c.present => c.scratch.hunch
    /\ c.present \ {c.scratch.reader} \subseteq Guessers(c.scratch)

Apart(a, b) == IF a < b THEN b - a ELSE a - b

ScoreGuess(bud, guess) ==
    LET d == Apart(ClampToBranch(bud), ClampToBranch(guess))
    IN  CASE d <= 4 -> 4 [] d \in 5..10 -> 3 [] d \in 11..18 -> 2 [] OTHER -> 0

Reveal(c) ==
    {Revealed(c.scratch, [p \in Players |->
        IF p \in Guessers(c.scratch) THEN ScoreGuess(c.scratch.bud, c.scratch.guesses[p]) ELSE 0], FALSE)}

-----------------------------------------------------------------------------
(* Same Branch on the wire and on the devices (apps/web/lib/games/            *)
(* same-branch).  The hunch itself is said aloud until the reveal.            *)

Prompt(c) == [branch |-> c.scratch.used, reader |-> c.scratch.reader]
Private(c, p) == IF p = c.scratch.reader THEN <<[bud |-> c.scratch.bud]>> ELSE None
RevealFrame(c) == [bud |-> c.scratch.bud, hunch |-> c.scratch.hunch, guesses |-> c.scratch.guesses]

PickReveal(d) == Latest(d.reveals, LAMBDA r : "bud" \in DOMAIN r)

IsReader(d, p) == \E prompt \in Range(d.prompt) : prompt.reader = p

Dial(d) ==
    IF d.sent # None /\ ~d.rejected THEN {} ELSE {Say([number |-> v]) : v \in Sliders \cap 0 .. 100}

\* The Reader may send another hunch; a guess is locked unless it was refused.
Controls(d, p) ==
    IF d.phase # "collecting" \/ d.prompt = None THEN {}
    ELSE IF IsReader(d, p) THEN {Say([text |-> "words"])} ELSE Dial(d)

Tapped(d, m) == [d EXCEPT !.sent = <<m.body>>]

Painted(d) ==
    CASE d.phase = "complete"    -> Standings
      [] d.phase = "leaderboard" -> Paint("reveal", PickReveal(d))
      [] d.phase = "collecting"  -> Paint("branch", d.prompt \o d.private)
      [] OTHER                   -> Paint("get ready", <<>>)      \* while disputing too

Held(c, p) ==
    IF p = c.scratch.reader THEN (IF c.scratch.hunch THEN <<[text |-> "words"]>> ELSE None)
    ELSE IF c.scratch.guesses[p] >= 0 THEN <<[number |-> c.scratch.guesses[p]]>> ELSE None

\* Only the Reader sees the bud before the reveal.
Leaks(c, d, p) ==
    c.phase = "collecting" /\ (PickReveal(d) # None \/ (p # c.scratch.reader /\ d.private # None))
==============================================================================
