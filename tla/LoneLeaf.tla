------------------------------- MODULE LoneLeaf -------------------------------
(***************************************************************************)
(* packages/games/lone-leaf.  A leaf is its stem (leafKey): "seed" and     *)
(* "token" stand for the seed's own word and one word of a longer seed,    *)
(* "alias" for another accepted answer, "blank" and "two words" for what   *)
(* is no leaf.                                                             *)
(***************************************************************************)
EXTENDS RoundContext, GameScreen

CONSTANTS SeedBank,     \* seed -> its difficulty
          Band,         \* the difficulty band <<min, max>>
          Words         \* innocent leaves

Leaves == Words \cup {"seed", "token", "alias", "blank", "two words"}

Fresh(rounds) == [rounds |-> rounds, used |-> {}, seeker |-> Nobody, leaves |-> Unset,
                  survivors |-> {}, guess |-> Nobody]

ValidConfig(rounds) == rounds \in 1 .. 100 /\ Band[1] <= Band[2]

Configured(rounds) ==
    IF ~ValidConfig(rounds) \/ Cardinality(DOMAIN SeedBank) < rounds THEN {} ELSE {Fresh(rounds)}

SeekerForRound(round) == Seats[((round - 1) % Len(Seats)) + 1]

\* pickSeedInBand: the nearest rating, a tie going to the easier side.
Gap(d) == IF d < Band[1] THEN Band[1] - d ELSE IF d > Band[2] THEN d - Band[2] ELSE 0
InBand(seeds) ==
    LET close  == {x \in seeds : \A y \in seeds : Gap(SeedBank[x]) <= Gap(SeedBank[y])}
        easier == {x \in close : SeedBank[x] < Band[1]}
    IN  IF easier # {} THEN easier ELSE close

StartRound(c) ==
    {[c.scratch EXCEPT !.used = @ \cup {seed}, !.seeker = SeekerForRound(c.round), !.leaves = Unset,
                       !.survivors = {}, !.guess = Nobody] :
        seed \in InBand(Unused(DOMAIN SeedBank, c.scratch))}

-----------------------------------------------------------------------------
Moves(c, p) == Leaves

Refused(c, p, m) == p = c.scratch.seeker \/ m \in {"blank", "two words"}

CollectMove(c, p, m) ==
    IF Refused(c, p, m) THEN c.scratch ELSE [c.scratch EXCEPT !.leaves[p] = m]

Writers(c) == c.present \ {c.scratch.seeker}

AllSubmitted(c) == Writers(c) # {} /\ Writers(c) \subseteq Having(c.scratch.leaves)

\* wiltLeaves: a leaf goes when it gives the seed away or someone else wrote it.
\* The aliases are not looked at.
Survivors(leaves) ==
    {p \in Having(leaves) :
        /\ leaves[p] \notin {"seed", "token"}
        /\ \A q \in Players \ {p} : leaves[q] # leaves[p]}

Reveal(c) ==
    {Revealed([c.scratch EXCEPT !.survivors = Survivors(c.scratch.leaves), !.guess = Nobody], NoPoints, TRUE)}

-----------------------------------------------------------------------------
Votes(c, p) == Leaves

CollectVote(c, p, m) ==
    IF p # c.scratch.seeker \/ m = "blank" THEN c.scratch ELSE [c.scratch EXCEPT !.guess = m]

AllDecided(c) == c.scratch.guess # Nobody

\* The grove banks together: everyone on the roster, or nobody.
ResolveDecision(c) ==
    Resolved(c.scratch, [p \in Players |-> IF c.scratch.guess \in {"seed", "alias"} THEN 1 ELSE 0])

-----------------------------------------------------------------------------
(* Lone Leaf on the wire and on the devices (apps/web/lib/games/lone-leaf).   *)

Prompt(c) == [seeker |-> c.scratch.seeker]
\* The Seeker is left out of the round's private payloads.
Private_Everyone(c, p) == <<[seed |-> c.scratch.used]>>                 \* mutant
Private(c, p) == IF p = c.scratch.seeker THEN None ELSE <<[seed |-> c.scratch.used]>>
RevealFrame(c) == [survivors |-> {c.scratch.leaves[p] : p \in c.scratch.survivors}]
ResultFrame(c) == [seed |-> c.scratch.used, guess |-> c.scratch.guess, leaves |-> c.scratch.leaves]

PickSurvivors(d) == Latest(d.reveals, LAMBDA r : "seed" \notin DOMAIN r)
PickResult(d)    == Latest(d.reveals, LAMBDA r : "seed" \in DOMAIN r)

IsSeeker(d, p) == \E prompt \in Range(d.prompt) : prompt.seeker = p

\* The Seeker waits for the leaves and then guesses once, in their own words.
LeafForm(d, p)  == IF IsSeeker(d, p) THEN {} ELSE {Say(m) : m \in Leaves \ {"blank"}}
GuessForm(d, p) == IF IsSeeker(d, p) /\ ~d.voted THEN {Vote(m) : m \in Leaves \ {"blank"}} ELSE {}

Controls(d, p) ==
    CASE d.phase = "collecting" -> LeafForm(d, p)
      [] d.phase = "guessing"   -> GuessForm(d, p)
      [] OTHER -> {}

Tapped(d, m) == IF m.kind = "move" THEN [d EXCEPT !.sent = <<m.body>>] ELSE [d EXCEPT !.voted = TRUE]

PromptCard(d)   == Paint("word", d.prompt \o d.private)
ResultReveal(d) == Paint("result", PickResult(d))

Painted(d) ==
    CASE d.phase = "complete"    -> Standings
      [] d.phase = "leaderboard" -> ResultReveal(d)
      [] d.phase = "guessing"    -> Paint("leaves", d.prompt \o PickSurvivors(d))
      [] d.phase = "collecting"  -> PromptCard(d)
      [] OTHER                   -> Paint("get ready", <<>>)

Held(c, p) == IF c.scratch.leaves[p] = Nobody THEN None ELSE <<c.scratch.leaves[p]>>

\* The Seeker sees neither the word nor a leaf that gives it away.
Leaks(c, d, p) ==
    /\ p = c.scratch.seeker /\ c.phase \in {"collecting", "guessing"}
    /\ \/ d.private # None \/ PickResult(d) # None
       \/ \E r \in Range(PickSurvivors(d)) : r.survivors \cap {"seed", "token"} # {}
==============================================================================
