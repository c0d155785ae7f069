---------------------------- MODULE RoundContext ----------------------------
(***************************************************************************)
(* What a game module is handed and what it hands back (game-sdk,          *)
(* lifecycle.ts).  A game is a set of pure callbacks over a context        *)
(*   c = [round, phase, present, scratch]                                  *)
(* where present are the connected players and scratch is the game's own   *)
(* record.  Random draws are sets of outcomes; a refused submission        *)
(* returns the scratch as it was.  Texts are members of small sets.        *)
(***************************************************************************)
EXTENDS Integers, Sequences, FiniteSets, Functions

CONSTANT Seats      \* the roster, in the order of the handoff

Players == Range(Seats)
Nobody  == "nobody"     \* the code's null or undefined, where a player, text or target could be

Unset == [p \in Players |-> Nobody]
NoPoints == [p \in Players |-> 0]

\* "Every connected player has", with the guard against an empty table.
Everyone(c, done) == c.present # {} /\ c.present \subseteq done

Having(f) == {p \in Players : f[p] # Nobody}

\* A draw without repeats: the unused members of a bank.
Unused(bank, s) == bank \ s.used

Revealed(s, points, guess) == [scratch |-> s, points |-> points, guess |-> guess]
Resolved(s, points) == [scratch |-> s, points |-> points]
==============================================================================
