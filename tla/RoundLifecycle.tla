---------------------------- MODULE RoundLifecycle ----------------------------
(***************************************************************************)
(* What a game session promises the table, without timers, devices or      *)
(* workers: games follow one another, a game plays its rounds in order,    *)
(* a round is answered, reviewed and scored once each and in that order,   *)
(* and nothing moves while the table is held.                              *)
(***************************************************************************)
EXTENDS Naturals

CONSTANTS Rounds, Stages     \* the review stages a round may pass through

VARIABLES stage,             \* "none", "answering", a review stage, "scored", "over"
          round, run,        \* which round of which game of this session
          held               \* the table is paused

lifecycle == <<stage, round, run, held>>

Init == stage = "none" /\ round = 0 /\ run = 0 /\ held = FALSE

\* A first game in this room, or one started after the last was over.
Begin == stage \in {"none", "over"} /\ stage' = "answering" /\ round' = 1 /\ run' = 1 /\ held' = FALSE

\* The host starts the same game over: its reports must not be the last run's.
PlayAgain == stage # "none" /\ stage' = "answering" /\ round' = 1 /\ run' = run + 1 /\ held' = FALSE

Review(s) == stage = "answering" /\ stage' = s
Vote      == stage = "disputing" /\ stage' = "voting"
Score     == stage \in Stages /\ stage' = "scored"
Finish    == stage \in {"answering", "scored"} /\ stage' = "over"

NextRound == stage = "scored" /\ round < Rounds /\ stage' = "answering" /\ round' = round + 1

Play ==
    /\ ~held /\ held' = held /\ run' = run
    /\ \/ /\ Vote \/ Score \/ Finish \/ \E s \in Stages \ {"voting"} : Review(s)
          /\ round' = round
       \/ NextRound

Hold  == stage # "none" /\ held' # held /\ held' \in BOOLEAN /\ UNCHANGED <<stage, round, run>>
Leave == stage # "none" /\ stage' = "none" /\ round' = 0 /\ run' = 0 /\ held' = FALSE

Next == Begin \/ PlayAgain \/ Play \/ Hold \/ Leave

Spec == Init /\ [][Next]_lifecycle
===============================================================================
