----------------------------- MODULE MCRemotes -----------------------------
(* Three players, or the four a clean sweep takes, at the smallest banks.     *)
EXTENDS Remotes, TLC

CONSTANTS ann, bob, cat, dan

MCTables == [g \in Games |-> IF g \in {"trivia", "liar-liar", "sketchy"} THEN <<ann, bob>> ELSE <<ann, bob, cat>>]
\* As many of each kind as the longest composition takes: one question spent on
\* the wrong use starves a later round.
MCTriviaBank ==
    [q1 |-> [kind |-> "choices", difficulty |-> 3], q2 |-> [kind |-> "open-only", difficulty |-> 9],
     q3 |-> [kind |-> "true-false", difficulty |-> 1], q4 |-> [kind |-> "true-false", difficulty |-> 8],
     q5 |-> [kind |-> "open-only", difficulty |-> 5], q6 |-> [kind |-> "choices", difficulty |-> 4]]
MCCompositions == {[mc |-> 1, tf |-> 0, open |-> 1], [mc |-> 0, tf |-> 1, open |-> 1],
                   [mc |-> 1, tf |-> 1, open |-> 0], [mc |-> 2, tf |-> 0, open |-> 2]}
MCLeafBank == [l1 |-> 2, l2 |-> 7]
\* Two rounds where a second differs from the first only by what it remembers.
MCRounds == [g \in {"liar-liar", "zinger", "same-branch", "lone-leaf"} |-> 2] @@ ("sketchy" :> 1)
MCBand == <<3, 6>>
MCBuds == {8, 50}
MCSliders == {-5, 18, 46, 104}
\* A game looks the same from any seat but the subject's, which goes round.
MCOwners == [g \in Games |-> {ann}]
===============================================================================
