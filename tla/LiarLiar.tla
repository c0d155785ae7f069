------------------------------ MODULE LiarLiar ------------------------------
(***************************************************************************)
(* packages/games/liar-liar.  Two answers are the same member of Answers   *)
(* when sameAnswer says so; Truths are the clue's answer and its aliases,  *)
(* "blank" is whatever normalizes to nothing.  An option is named by what  *)
(* it is, the truth or a player's fake: the ids on the wire hide that.     *)
(***************************************************************************)
EXTENDS RoundContext, GameScreen

CONSTANTS Clues,        \* the ids of the chosen categories' clues
          Fakes         \* the answers a player may invent

Truths == {"answer", "alias"}
Answers == Fakes \cup Truths \cup {"blank"}
Truth == "truth"

Fresh(rounds) == [rounds |-> rounds, used |-> {}, submissions |-> Unset, options |-> {}, guesses |-> Unset]

ValidConfig(rounds) == rounds \in 1 .. 100

Configured(rounds) == IF ~ValidConfig(rounds) \/ Cardinality(Clues) < rounds THEN {} ELSE {Fresh(rounds)}

StartRound(c) ==
    {[c.scratch EXCEPT !.used = @ \cup {clue}, !.submissions = Unset, !.options = {}, !.guesses = Unset] :
        clue \in Unused(Clues, c.scratch)}

-----------------------------------------------------------------------------
Moves(c, p) == Answers

Taken(s, p, m) == m \in Truths \/ \E q \in Players \ {p} : s.submissions[q] = m

Refused(c, p, m) == m = "blank" \/ Taken(c.scratch, p, m)

\* A fake may be replaced by its author until the round closes.
CollectMove(c, p, m) ==
    IF Refused(c, p, m) THEN c.scratch ELSE [c.scratch EXCEPT !.submissions[p] = m]

AllSubmitted(c) == Everyone(c, Having(c.scratch.submissions))

Reveal(c) ==
    {Revealed([c.scratch EXCEPT !.options = {Truth} \cup Having(c.scratch.submissions), !.guesses = Unset],
              NoPoints, TRUE)}

-----------------------------------------------------------------------------
Votes(c, p) == c.scratch.options

\* A guess at one's own fake, or at what is not on offer, is ignored; any other may be changed.
CollectVote(c, p, option) ==
    IF option = p \/ option \notin c.scratch.options THEN c.scratch
    ELSE [c.scratch EXCEPT !.guesses[p] = option]

AllDecided(c) == Everyone(c, Having(c.scratch.guesses))

\* 100 for the truth; 50 to an author for each player the fake fooled.
ResolveDecision(c) ==
    LET pickedBy(option) == {p \in Players : c.scratch.guesses[p] = option}
    IN  Resolved(c.scratch, [p \in Players |->
            (IF p \in pickedBy(Truth) THEN 100 ELSE 0) + 50 * Cardinality(pickedBy(p))])

\* What the table reads: the text of an option.
Text(s, option) == IF option = Truth THEN "answer" ELSE s.submissions[option]

-----------------------------------------------------------------------------
(* Liar Liar on the wire and on the devices (apps/web/lib/games/liar-liar).   *)

Prompt(c) == [clue |-> c.scratch.used]
RevealFrame(c) == [options |-> {[id |-> o, text |-> Text(c.scratch, o)] : o \in c.scratch.options}]
ResultFrame(c) == [truth |-> "answer", pickedBy |-> c.scratch.guesses]

PickOptions(d) == Latest(d.reveals, LAMBDA r : "truth" \notin DOMAIN r)
PickResult(d)  == Latest(d.reveals, LAMBDA r : "truth" \in DOMAIN r)

\* One's own lie is hidden by its text, and only if it was not refused.
OwnLie(d) == IF d.rejected THEN {} ELSE Range(d.sent)

Controls(d, p) ==
    CASE d.phase = "collecting" -> {Say(m) : m \in Answers \ {"blank"}}
      [] d.phase = "guessing" /\ ~d.voted ->
            {Vote(o.id) : o \in {x \in UNION {r.options : r \in Range(PickOptions(d))} : x.text \notin OwnLie(d)}}
      [] OTHER -> {}

Tapped(d, m) == IF m.kind = "move" THEN [d EXCEPT !.sent = <<m.body>>] ELSE [d EXCEPT !.voted = TRUE]

Painted(d) ==
    CASE d.phase = "complete"    -> Standings
      [] d.phase = "leaderboard" -> Paint("truth", PickResult(d))
      [] d.phase = "guessing"    -> Paint("options", PickOptions(d))
      [] d.phase = "collecting"  -> Paint("clue", d.prompt)
      [] OTHER                   -> Paint("get ready", <<>>)

Held(c, p) == IF c.scratch.submissions[p] = Nobody THEN None ELSE <<c.scratch.submissions[p]>>

Leaks(c, d, p) == c.phase \in {"collecting", "guessing"} /\ PickResult(d) # None
==============================================================================
