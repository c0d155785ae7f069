------------------------------- MODULE Sketchy -------------------------------
(***************************************************************************)
(* packages/games/sketchy: a draw round, then one round per player in      *)
(* which the others describe and guess that player's drawing.  A seed is   *)
(* its text; two texts are the same member when sameAnswer says so.        *)
(***************************************************************************)
EXTENDS RoundContext, GameScreen

CONSTANTS Seeds,        \* the bank
          Decoys        \* the wrong descriptions a player may write

Truth == "truth"

Fresh(rounds) == [rounds |-> rounds, used |-> {}, stage |-> "draw", assignments |-> Unset,
                  sketches |-> {}, featured |-> Nobody, decoys |-> Unset, options |-> {}, guesses |-> Unset]

ValidConfig(cycles) == cycles \in 1 .. 15

\* A cycle is a round of drawing and one of guessing for each seat.
Configured(cycles) ==
    IF ~ValidConfig(cycles) \/ Cardinality(Seeds) < cycles * Len(Seats) THEN {} ELSE {Fresh(cycles * (1 + Len(Seats)))}

\* stageForRound: 0 for a draw round, otherwise the seat that is featured.
FeatureIndex(round) == (round - 1) % (1 + Len(Seats))

Cleared(s) == [s EXCEPT !.featured = Nobody, !.decoys = Unset, !.options = {}, !.guesses = Unset]

StartRound(c) ==
    LET s == Cleared(c.scratch)
        i == FeatureIndex(c.round)
    IN  IF i = 0
        THEN {[s EXCEPT !.stage = "draw", !.assignments = a, !.used = @ \cup Range(a), !.sketches = {}] :
                a \in {b \in [Players -> Unused(Seeds, s)] : IsInjective(b)}}
        ELSE {[s EXCEPT !.stage = "sketch", !.featured = Seats[i]]}

-----------------------------------------------------------------------------
Drawings == {"strokes", "empty"}        \* a sketch is kept if a stroke of it is in the player's palette
Descriptions == Seeds \cup Decoys \cup {"blank"}

Moves(c, p) == IF c.scratch.stage = "draw" THEN Drawings ELSE Descriptions

TrueSeed(s) == s.assignments[s.featured]

Taken_ByOthers(s, p, m) == \E q \in Players \ {p} : s.decoys[q] = m     \* mutant
Taken(s, p, m) == m = TrueSeed(s) \/ \E q \in Players \ {p} : s.decoys[q] = m

\* The featured player is left aside without a word.
Refused(c, p, m) ==
    IF c.scratch.stage = "draw" THEN m = "empty"
    ELSE p # c.scratch.featured /\ (m = "blank" \/ Taken(c.scratch, p, m))

CollectMove(c, p, m) ==
    LET s == c.scratch
    IN  IF Refused(c, p, m) \/ (s.stage = "sketch" /\ p = s.featured) THEN s
        ELSE IF s.stage = "draw" THEN [s EXCEPT !.sketches = @ \cup {p}]
        ELSE [s EXCEPT !.decoys[p] = m]

Writers(c) == c.present \ {c.scratch.featured}

AllSubmitted(c) ==
    IF c.scratch.stage = "draw" THEN Everyone(c, c.scratch.sketches)
    ELSE Writers(c) # {} /\ Writers(c) \subseteq Having(c.scratch.decoys)

\* The gallery takes the dispute path.  A seed was dealt to every seat, so a
\* featured player who drew nothing is guessed at all the same.
Reveal(c) ==
    IF c.scratch.stage = "draw" THEN {Revealed(c.scratch, NoPoints, FALSE)}
    ELSE {Revealed([c.scratch EXCEPT !.options = {Truth} \cup Having(c.scratch.decoys), !.guesses = Unset],
                   NoPoints, TRUE)}

-----------------------------------------------------------------------------
Votes(c, p) == c.scratch.options

CollectVote(c, p, option) ==
    IF option \notin c.scratch.options \/ option = p \/ p = c.scratch.featured THEN c.scratch
    ELSE [c.scratch EXCEPT !.guesses[p] = option]

AllDecided(c) == Writers(c) # {} /\ Writers(c) \subseteq Having(c.scratch.guesses)

ResolveDecision(c) ==
    LET pickedBy(option) == {p \in Players : c.scratch.guesses[p] = option}
    IN  Resolved(c.scratch, [p \in Players |->
            (IF p \in pickedBy(Truth) THEN 100 ELSE 0) + 50 * Cardinality(pickedBy(p))])

Text(s, option) == IF option = Truth THEN TrueSeed(s) ELSE s.decoys[option]

-----------------------------------------------------------------------------
(* Sketchy on the wire and on the devices (apps/web/lib/games/sketchy).       *)

Shown(s, p) == p \in s.sketches         \* whether there is a sketch of p to show

Prompt(c) ==
    IF c.scratch.stage = "draw" THEN [stage |-> "draw"]
    ELSE [stage |-> "sketch", featured |-> c.scratch.featured, sketch |-> Shown(c.scratch, c.scratch.featured)]
Private(c, p) == IF c.scratch.stage = "draw" THEN <<[seed |-> c.scratch.assignments[p]]>> ELSE None
RevealFrame(c) ==
    IF c.scratch.stage = "draw" THEN [stage |-> "draw", gallery |-> c.scratch.sketches]
    ELSE [stage |-> "sketch", featured |-> c.scratch.featured,
          options |-> {[id |-> o, text |-> Text(c.scratch, o)] : o \in c.scratch.options}]
ResultFrame(c) == [stage |-> "result", trueSeed |-> TrueSeed(c.scratch), pickedBy |-> c.scratch.guesses]

PickGallery(d) == Latest(d.reveals, LAMBDA r : r.stage = "draw")
PickOptions(d) == Latest(d.reveals, LAMBDA r : r.stage = "sketch")
PickResult(d)  == Latest(d.reveals, LAMBDA r : r.stage = "result")

OwnDecoy(d) == IF d.rejected THEN {} ELSE Range(d.sent)

\* A sketch with nothing on it cannot be sent; the featured player waits and watches.
Form(d, p) ==
    IF d.prompt = None THEN {}
    ELSE IF d.prompt[1].stage = "draw" THEN {Say("strokes")}
    ELSE IF d.prompt[1].featured = p THEN {}
    ELSE {Say(m) : m \in Descriptions \ {"blank"}}

GuessButtons(d, p) ==
    LET offered == UNION {r.options : r \in {x \in Range(PickOptions(d)) : x.featured # p}}
    IN  IF d.voted THEN {} ELSE {Vote(o.id) : o \in {x \in offered : x.text \notin OwnDecoy(d)}}

Controls(d, p) ==
    CASE d.phase = "collecting" -> Form(d, p)
      [] d.phase = "guessing"   -> GuessButtons(d, p)
      [] OTHER -> {}

Tapped(d, m) == IF m.kind = "move" THEN [d EXCEPT !.sent = <<m.body>>] ELSE [d EXCEPT !.voted = TRUE]

Recap(d) == Paint("recap", IF PickResult(d) # None THEN PickResult(d) ELSE PickGallery(d))

Painted(d) ==
    CASE d.phase = "complete"    -> Standings
      [] d.phase = "leaderboard" -> Recap(d)
      [] d.phase = "guessing"    -> Paint("options", PickOptions(d))
      [] d.phase = "collecting"  -> Paint("sketch", d.prompt \o d.private)
      [] OTHER                   -> Paint("get ready", <<>>)

Held(c, p) ==
    IF c.scratch.stage = "draw" THEN (IF p \in c.scratch.sketches THEN <<"strokes">> ELSE None)
    ELSE IF c.scratch.decoys[p] = Nobody THEN None ELSE <<c.scratch.decoys[p]>>

\* A seed is known to the one who draws it, until its round is over.
Leaks(c, d, p) ==
    /\ c.phase \in {"collecting", "guessing"}
    /\ PickResult(d) # None \/ d.private \notin {None, Private(c, p)}
==============================================================================
