----------------------------- MODULE MCRoundGames -----------------------------
(* Three players, or the four a clean sweep takes, at the smallest banks.     *)
EXTENDS RoundGames, GameOptions, TLC

CONSTANTS ann, bob, cat, dan

MCTables == [g \in Games |-> IF g = "zinger" THEN <<ann, bob, cat, dan>> ELSE <<ann, bob, cat>>]
\* As many of each kind as the longest composition takes: one question spent on
\* the wrong use starves a later round.
MCTriviaBank ==
    [q1 |-> [kind |-> "choices", difficulty |-> 3], q2 |-> [kind |-> "open-only", difficulty |-> 9],
     q3 |-> [kind |-> "true-false", difficulty |-> 1], q4 |-> [kind |-> "true-false", difficulty |-> 8],
     q5 |-> [kind |-> "open-only", difficulty |-> 5], q6 |-> [kind |-> "choices", difficulty |-> 4]]
MCCompositions == {[mc |-> 1, tf |-> 0, open |-> 1], [mc |-> 0, tf |-> 1, open |-> 1],
                   [mc |-> 1, tf |-> 1, open |-> 0], [mc |-> 2, tf |-> 0, open |-> 2]}
MCLeafBank == [l1 |-> 2, l2 |-> 7]
\* Two rounds where a second differs from the first only by what it remembers.
MCRounds == [g \in {"liar-liar", "zinger", "same-branch", "lone-leaf", "decider"} |-> 2]
            @@ ("sketchy" :> 1) @@ ("stub" :> 1)
MCBand == <<3, 6>>
MCBuds == {8, 50}
MCSliders == {-5, 18, 46, 104}

\* An empty field, a fraction, and whole numbers at and past the edges of the ranges.
MCTyped == {<<>>, <<1, 2>>, <<0>>, <<1>>, <<2>>, <<5>>, <<15>>, <<16>>, <<30>>, <<31>>, <<60>>,
            <<61>>, <<100>>, <<101>>, <<180>>, <<181>>}
OneEdit(g)  == EditsOf(g, DefaultOf(g))
TwoEdits(g) == UNION {EditsOf(g, d) : d \in OneEdit(g)}

\* What a host can set up in two edits of the default: the draft is sound, what
\* the page lets through the game takes, and all but Sketchy and Brambles plan
\* the rounds that were asked for.
ASSUME \A g \in OptionGames : Accepts(g, DefaultOf(g)) /\ DefaultOf(g) \in DraftsOf(g)
ASSUME \A g \in OptionGames : \A d \in TwoEdits(g) :
          /\ d \in DraftsOf(g)
          /\ Accepts(g, d) => Takes(g, d)
          /\ Accepts(g, d) /\ g \notin {"sketchy", "brambles"} => PlannedOf(g, d, 4) = AskedOf(g, d)
          /\ Accepts(g, d) /\ g = "sketchy" => PlannedOf(g, d, 4) = 5 * AskedOf(g, d)
          /\ Accepts(g, d) /\ g = "brambles" => PlannedOf(g, d, 4) < AskedOf(g, d)

\* The rounds and compositions of these tables are such as a host can set up.
ASSUME \A g \in OptionGames \cap DOMAIN MCRounds :
          \E d \in OneEdit(g) : Accepts(g, d) /\ AskedOf(g, d) = MCRounds[g]
ASSUME \A m \in MCCompositions :
          LET d == [TriviaDefault EXCEPT !.duration = "custom",
                                         !.custom = <<Mix(<<m.mc>>, <<m.tf>>, <<m.open>>)>>]
          IN d \in DraftsOf("trivia") /\ Accepts("trivia", d)
===============================================================================
