------------------------------- MODULE Zinger -------------------------------
(***************************************************************************)
(* packages/games/zinger.  Only whether a player wrote a zinger matters;   *)
(* an option of the face-off is named by its author.                       *)
(***************************************************************************)
EXTENDS RoundContext, GameScreen

CONSTANT Setups         \* the ids of the bank

MinSweepVoters == 2
CleanSweepBonus == 3

Fresh(rounds) == [rounds |-> rounds, used |-> {}, submissions |-> {}, authors |-> {}, votes |-> Unset]

ValidConfig(rounds) == rounds \in 1 .. 100

Configured(rounds) == IF ~ValidConfig(rounds) \/ Cardinality(Setups) < rounds THEN {} ELSE {Fresh(rounds)}

StartRound(c) ==
    {[c.scratch EXCEPT !.used = @ \cup {setup}, !.submissions = {}, !.authors = {}, !.votes = Unset] :
        setup \in Unused(Setups, c.scratch)}

-----------------------------------------------------------------------------
Moves(c, p) == {"zinger", "blank"}

Refused(c, p, m) == m = "blank"

CollectMove(c, p, m) ==
    IF Refused(c, p, m) THEN c.scratch ELSE [c.scratch EXCEPT !.submissions = @ \cup {p}]

AllSubmitted(c) == Everyone(c, c.scratch.submissions)

\* Fewer than two zingers make no face-off: the round takes the dispute path.
Reveal(c) ==
    LET wrote == c.scratch.submissions
        shown(pair) == [c.scratch EXCEPT !.authors = pair, !.votes = Unset]
    IN  IF Cardinality(wrote) < 2 THEN {Revealed(shown({}), NoPoints, FALSE)}
        ELSE {Revealed(shown(pair), NoPoints, TRUE) : pair \in {q \in SUBSET wrote : Cardinality(q) = 2}}

-----------------------------------------------------------------------------
Votes(c, p) == c.scratch.authors

CollectVote(c, p, author) ==
    IF p \in c.scratch.authors \/ author \notin c.scratch.authors THEN c.scratch
    ELSE [c.scratch EXCEPT !.votes[p] = author]

Eligible_Authors(c) == c.present                                       \* mutant

Eligible(c) == c.present \ c.scratch.authors

AllDecided(c) == Eligible(c) # {} /\ Eligible(c) \subseteq Having(c.scratch.votes)

Tally(s, author) == Cardinality({p \in Players : s.votes[p] = author})

\* The author with strictly more votes, or nobody on a tie.
Winner(s) == {a \in s.authors : \A b \in s.authors \ {a} : Tally(s, a) > Tally(s, b)}

Swept(c) ==
    /\ \A a \in Winner(c.scratch) : Tally(c.scratch, a) = Cardinality(Eligible(c))
    /\ Cardinality(Eligible(c)) >= MinSweepVoters

ResolveDecision(c) ==
    Resolved(c.scratch, [p \in Players |->
        IF p \notin Winner(c.scratch) THEN 0
        ELSE Tally(c.scratch, p) + (IF Swept(c) THEN CleanSweepBonus ELSE 0)])

-----------------------------------------------------------------------------
(* Zinger on the wire and on the devices (apps/web/lib/games/zinger).         *)

Prompt(c) == [setup |-> c.scratch.used]
\* With no face-off the reveal names no authors.
RevealFrame(c) == [options |-> c.scratch.authors, authorIds |-> c.scratch.authors]
ResultFrame(c) == [winner |-> Winner(c.scratch), votes |-> c.scratch.votes]

PickFaceOff(d) == Latest(d.reveals, LAMBDA r : "winner" \notin DOMAIN r)
PickResult(d)  == Latest(d.reveals, LAMBDA r : "winner" \in DOMAIN r)

\* The authors sit out by who they are, not by what they wrote.
VoteButtons(d, p) ==
    IF d.voted THEN {}
    ELSE {Vote(o) : o \in UNION {r.options : r \in {x \in Range(PickFaceOff(d)) : p \notin x.authorIds}}}

Controls(d, p) ==
    CASE d.phase = "collecting" -> {Say("zinger")}
      [] d.phase = "guessing"   -> VoteButtons(d, p)
      [] OTHER -> {}

Tapped(d, m) == IF m.kind = "move" THEN [d EXCEPT !.sent = <<m.body>>] ELSE [d EXCEPT !.voted = TRUE]

Painted(d) ==
    CASE d.phase = "complete"    -> Standings
      [] d.phase = "leaderboard" -> Paint("face-off result", PickResult(d))
      [] d.phase = "guessing"    -> Paint("face-off", PickFaceOff(d))
      [] d.phase = "collecting"  -> Paint("setup", d.prompt)
      [] OTHER                   -> Paint("get ready", <<>>)

Held(c, p) == IF p \in c.scratch.submissions THEN <<"zinger">> ELSE None

Leaks(c, d, p) == c.phase \in {"collecting", "guessing"} /\ PickResult(d) # None
==============================================================================
