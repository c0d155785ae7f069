------------------------------- MODULE Trivia -------------------------------
(***************************************************************************)
(* packages/games/trivia.  An answer is its verdict under matching.ts:     *)
(* right, wrong, or the blank of a player who gave up.                     *)
(***************************************************************************)
EXTENDS RoundContext, GameScreen

CONSTANTS
    Bank,           \* the chosen categories' pool: question -> [kind, difficulty]
    Compositions,   \* [mc, tf, open]: the counts of a preset or a custom game
    Range0          \* the difficulty range <<min, max>>

Recall == {"open-only", "choices"}
Answers == {"right", "wrong", "blank"}

Stock(bank, kinds) == Cardinality({q \in DOMAIN bank : bank[q].kind \in kinds})

\* The guard of configure: enough of each kind, and enough recall for both uses.
Supplied(bank, n) ==
    /\ Stock(bank, {"true-false"}) >= n.tf
    /\ Stock(bank, {"choices"}) >= n.mc
    /\ Stock(bank, Recall) >= n.mc + n.open

\* buildRoundPlan: the open rounds evenly spaced, the last of them last; the
\* others a shuffle of multiple choice and true/false.
OpenSlots(n) ==
    LET total == n.mc + n.tf + n.open
    IN  {(i * total + n.open - 1) \div n.open : i \in 1..n.open}

Plans(n) ==
    LET total == n.mc + n.tf + n.open
    IN  {p \in [1..total -> {"multiple-choice", "true-false", "open"}] :
            /\ {i \in 1..total : p[i] = "open"} = OpenSlots(n)
            /\ Cardinality({i \in 1..total : p[i] = "true-false"}) = n.tf}

NoBallots == [p \in Players |-> Unset]

Fresh(plan) == [plan |-> plan, used |-> {}, question |-> Nobody, submitted |-> Unset,
                wrong |-> {}, disputers |-> {}, ballots |-> NoBallots]

MaxCustomCount == 30
MaxCustomTotal == 60
ValidConfig(n) ==
    /\ n.mc \in 0 .. MaxCustomCount /\ n.tf \in 0 .. MaxCustomCount /\ n.open \in 0 .. MaxCustomCount
    /\ n.mc + n.tf + n.open \in 1 .. MaxCustomTotal

Configured == UNION {{Fresh(p) : p \in Plans(n)} : n \in {m \in Compositions : ValidConfig(m) /\ Supplied(Bank, m)}}

-----------------------------------------------------------------------------
(* startRound: the accept chain of the round's type, then the rating        *)
(* nearest the range, a tie going to the easier side.                       *)

Distance(d) == IF d < Range0[1] THEN Range0[1] - d ELSE IF d > Range0[2] THEN d - Range0[2] ELSE 0

Nearest(qs) ==
    LET close  == {q \in qs : \A r \in qs : Distance(Bank[q].difficulty) <= Distance(Bank[r].difficulty)}
        easier == {q \in close : Bank[q].difficulty < Range0[1]}
    IN  IF easier # {} THEN easier ELSE close

Accepted_AnyRecall(free, type) ==                                       \* mutant
    LET of(kinds) == {q \in free : Bank[q].kind \in kinds}
    IN  CASE type = "true-false"      -> of({"true-false"})
          [] type = "multiple-choice" -> of({"choices"})
          [] OTHER                    -> of(Recall)

Accepted(free, type) ==
    LET of(kinds) == {q \in free : Bank[q].kind \in kinds}
    IN  CASE type = "true-false"      -> of({"true-false"})
          [] type = "multiple-choice" -> of({"choices"})
          [] OTHER -> IF of({"open-only"}) # {} THEN of({"open-only"}) ELSE of(Recall)

StartRound(c) ==
    {[c.scratch EXCEPT !.question = q, !.used = @ \cup {q}, !.submitted = Unset,
                       !.wrong = {}, !.disputers = {}, !.ballots = NoBallots] :
        q \in Nearest(Accepted(DOMAIN Bank \ c.scratch.used, c.scratch.plan[c.round]))}

-----------------------------------------------------------------------------
Moves(c, p) == Answers

\* Submit once: a second answer is refused, a give-up included.
Refused(c, p, m) == c.scratch.submitted[p] # Nobody

CollectMove(c, p, m) ==
    IF Refused(c, p, m) THEN c.scratch ELSE [c.scratch EXCEPT !.submitted[p] = m]

AllSubmitted(c)  == Everyone(c, Having(c.scratch.submitted))
AnsweredCount(c) == Cardinality(c.present \cap Having(c.scratch.submitted))

Points(type) == CASE type = "multiple-choice" -> 100 [] type = "true-false" -> 75 [] OTHER -> 150
DisputePoints == 50

Reveal(c) ==
    LET s    == c.scratch
        type == s.plan[c.round]
        said(a) == {p \in Players : s.submitted[p] = a}
        wrong == IF type = "open" THEN said("wrong") ELSE {}
    IN  {Revealed([s EXCEPT !.wrong = wrong],
                  [p \in Players |-> IF p \in said("right") THEN Points(type) ELSE 0], FALSE)}

Votes(c, p) == [target : Players, agree : {"agree", "disagree"}]

MayDispute_Anyone(s, p) == TRUE                                         \* mutant
MayDispute(s, p) == p \in s.wrong

CollectVote(c, p, v) ==
    LET s == c.scratch
    IN  CASE c.phase = "disputing" /\ MayDispute(s, p) -> [s EXCEPT !.disputers = @ \cup {p}]
          [] c.phase = "voting" /\ v.target # p /\ v.target \in s.disputers ->
                 [s EXCEPT !.ballots[v.target][p] = v.agree]
          [] OTHER -> s

DisputeWindow(c) == c.scratch.disputers

\* The ballots counted are all of those cast; the others are the connected ones.
Upheld(c, p) ==
    LET others == Cardinality(c.present \ {p})
        agrees == Cardinality({v \in Players : c.scratch.ballots[p][v] = "agree"})
    IN  others > 0 /\ 2 * agrees > others

DisputeVote(c) ==
    Resolved(c.scratch, [p \in Players |->
        IF p \in c.scratch.disputers /\ Upheld(c, p) THEN DisputePoints ELSE 0])

-----------------------------------------------------------------------------
(* Trivia on the wire and on the devices (apps/web/lib/games/trivia).         *)

Prompt(c) == [type |-> c.scratch.plan[c.round], question |-> c.scratch.question]
RevealFrame(c) == [type |-> c.scratch.plan[c.round], answers |-> c.scratch.question,
                   wrong |-> c.scratch.wrong, submissions |-> c.scratch.submitted]
ResultFrame(c) == [upheld |-> {p \in c.scratch.disputers : Upheld(c, p)}]

\* The answers tell the round's reveal from the outcome of its disputes.
RoundReveal(d)   == Latest(d.reveals, LAMBDA r : "answers" \in DOMAIN r)
DisputeReveal(d) == Latest(d.reveals, LAMBDA r : "upheld" \in DOMAIN r)

MarkedWrong(d, p) == \E r \in Range(RoundReveal(d)) : r.type = "open" /\ p \in r.wrong

\* Trivia refuses only a second answer, so a refusal locks the form as well.
AnswerForm(d) ==
    IF d.sent # None \/ d.rejected \/ d.prompt = None THEN {}
    ELSE {Say(m) : m \in IF d.prompt[1].type = "open" THEN Answers ELSE {"right", "wrong"}}

DisputeButton(d, p) ==
    IF MarkedWrong(d, p) /\ d.company /\ ~d.voted THEN {Vote([target |-> p, agree |-> "agree"])} ELSE {}

Ballots(d, p) == {Vote(v) : v \in [target : d.disputes \ {p}, agree : {"agree", "disagree"}]}

Controls(d, p) ==
    CASE d.phase = "collecting" -> AnswerForm(d)
      [] d.phase = "disputing"  -> DisputeButton(d, p)
      [] d.phase = "voting"     -> Ballots(d, p)
      [] OTHER -> {}

\* A ballot may be cast again; a dispute is raised once.
Tapped(d, m) ==
    IF m.kind = "move" THEN [d EXCEPT !.sent = <<m.body>>] ELSE [d EXCEPT !.voted = @ \/ d.phase = "disputing"]

QuestionCard(d) == Paint("question", d.prompt)
AnswerReveal(d) == Paint("answers", RoundReveal(d) \o DisputeReveal(d))

Painted(d) ==
    CASE d.phase \in {"leaderboard", "complete"} -> Standings
      [] d.phase = "collecting"                  -> QuestionCard(d)
      [] d.phase \in {"disputing", "voting"} /\ RoundReveal(d) # None -> AnswerReveal(d)
      [] OTHER                                   -> Paint("get ready", <<>>)

Held(c, p) == IF c.scratch.submitted[p] = Nobody THEN None ELSE <<c.scratch.submitted[p]>>

\* The answers are not on a device before the round is closed.
Leaks(c, d, p) == c.phase = "collecting" /\ RoundReveal(d) # None
==============================================================================
