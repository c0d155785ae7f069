------------------------------ MODULE StubGame ------------------------------
(***************************************************************************)
(* The SDK's stub game, which the engine's own tests drive through every   *)
(* phase.  A round has a secret; an answer is right or wrong under the     *)
(* trimmed, case-blind comparison of reveal.  A round's own move window    *)
(* and the private payloads belong to GameEngine and Remotes.              *)
(***************************************************************************)
EXTENDS RoundContext

Answers == {"right", "wrong"}

NoBallots == [p \in Players |-> [q \in Players |-> Nobody]]     \* target -> voter -> verdict

Fresh(secrets) ==
    [rounds |-> secrets, submitted |-> Unset, correct |-> {}, disputers |-> {}, ballots |-> NoBallots]

\* advance ends a game after its last secret, however many rounds were announced.
Configured(secrets) == IF secrets < 1 THEN {} ELSE {Fresh(secrets)}

StartRound(c) ==
    {[c.scratch EXCEPT !.submitted = Unset, !.correct = {}, !.disputers = {}, !.ballots = NoBallots]}

-----------------------------------------------------------------------------
Moves(c, p) == Answers

CollectMove(c, p, m) == [c.scratch EXCEPT !.submitted[p] = m]

AllSubmitted(c) == Everyone(c, Having(c.scratch.submitted))

Correct(s) == {p \in Players : s.submitted[p] = "right"}

Reveal(c) ==
    {Revealed([c.scratch EXCEPT !.correct = Correct(c.scratch)],
              [p \in Players |-> IF p \in Correct(c.scratch) THEN 100 ELSE 0], FALSE)}

-----------------------------------------------------------------------------
\* A device names whom its vote is about, and its verdict.
Votes(c, p) == [target : Players, verdict : {"agree", "disagree"}]

\* First one may dispute one's own result, whoever the vote names: a player who
\* sent nothing may too.
Disputes(c, p) ==
    IF p \in c.scratch.correct THEN c.scratch ELSE [c.scratch EXCEPT !.disputers = @ \cup {p}]

\* Then one may judge anybody else, and change one's mind.
Judges(c, p, v) ==
    IF v.target = p THEN c.scratch ELSE [c.scratch EXCEPT !.ballots[v.target][p] = v.verdict]

CollectVote(c, p, v) ==
    CASE c.phase = "disputing" -> Disputes(c, p)
      [] c.phase = "voting"    -> Judges(c, p, v)
      [] OTHER                 -> c.scratch

DisputeWindow(c) == c.scratch.disputers

\* A strict majority of the others, the ones who left included.
Agrees(s, p) == Cardinality({q \in Players : s.ballots[p][q] = "agree"})
Upheld(s) == {p \in s.disputers : 2 * Agrees(s, p) > Cardinality(Players \ {p})}

DisputeVote(c) ==
    Resolved(c.scratch, [p \in Players |-> IF p \in Upheld(c.scratch) THEN 50 ELSE 0])
==============================================================================
