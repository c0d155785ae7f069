----------------------------- MODULE DeciderGame -----------------------------
(***************************************************************************)
(* The SDK's decider game, with which the engine's tests cover refused     *)
(* answers and the guess.  Texts are equal when norm makes them alike; an  *)
(* option is named by what it is, the truth or a player's fake.            *)
(***************************************************************************)
EXTENDS RoundContext

CONSTANT Fakes      \* the answers a player may invent

Truth == "truth"

Fresh(truths) == [rounds |-> truths, submitted |-> Unset, guesses |-> Unset]

Configured(truths) == IF truths < 1 THEN {} ELSE {Fresh(truths)}

StartRound(c) == {[c.scratch EXCEPT !.submitted = Unset, !.guesses = Unset]}

-----------------------------------------------------------------------------
Moves(c, p) == Fakes \cup {Truth}

Taken(s, p, m) == m = Truth \/ \E q \in Players \ {p} : s.submitted[q] = m

CollectMove(c, p, m) ==
    IF Taken(c.scratch, p, m) THEN c.scratch ELSE [c.scratch EXCEPT !.submitted[p] = m]

AllSubmitted(c) == Everyone(c, Having(c.scratch.submitted))

Options(s) == {Truth} \cup Having(s.submitted)
Text(s, option) == IF option = Truth THEN Truth ELSE s.submitted[option]

Reveal(c) == {Revealed(c.scratch, NoPoints, TRUE)}

-----------------------------------------------------------------------------
Votes(c, p) == Options(c.scratch)

\* A guess at one's own fake is ignored.
CollectVote(c, p, option) ==
    IF c.phase # "guessing" \/ option = p THEN c.scratch ELSE [c.scratch EXCEPT !.guesses[p] = option]

AllDecided(c) == Everyone(c, Having(c.scratch.guesses))

\* 100 for the truth; 50 to each author of the fake that was picked instead.
Fooled(s, p) == {q \in Players \ {p} : s.guesses[q] \notin {Nobody, Truth} /\ Text(s, s.guesses[q]) = s.submitted[p]}

ResolveDecision(c) ==
    Resolved(c.scratch, [p \in Players |->
        (IF c.scratch.guesses[p] = Truth THEN 100 ELSE 0) + 50 * Cardinality(Fooled(c.scratch, p))])
==============================================================================
