------------------------------- MODULE OddBird -------------------------------
(***************************************************************************)
(* packages/games/odd-bird: one round, one secret bird.                    *)
(***************************************************************************)
EXTENDS RoundContext, GameScreen

CONSTANTS Roosts,       \* the roosts of the chosen categories
          Perches       \* the perches of any one roost

MaxDecoys == 7

Fresh == [roost |-> Nobody, oddBird |-> Nobody, perches |-> Unset, flushCalled |-> FALSE,
          roostOptions |-> {}, accusations |-> Unset, guess |-> Nobody]

Configured == IF Roosts = {} THEN {} ELSE {Fresh}

\* Each of the flock gets a perch of its own; the odd bird gets none.
Hands(bird) == {deal \in [Players \ {bird} -> Perches] : IsInjective(deal)}
Seated(s, roost, bird, deal) ==
    [s EXCEPT !.roost = roost, !.oddBird = bird, !.flushCalled = FALSE, !.roostOptions = {},
              !.accusations = Unset, !.guess = Nobody,
              !.perches = [p \in Players |-> IF p = bird THEN Nobody ELSE deal[p]]]

StartRound(c) ==
    UNION {{Seated(c.scratch, roost, bird, deal) : roost \in Roosts, deal \in Hands(bird)} : bird \in Players}

-----------------------------------------------------------------------------
Moves(c, p) == {"flush", "talk"}

\* Nothing is refused: what is not a call of the flush is left aside.
Refused(c, p, m) == FALSE

\* Any one player's call ends the questions for the table.
CollectMove(c, p, m) == IF m = "flush" THEN [c.scratch EXCEPT !.flushCalled = TRUE] ELSE c.scratch

AllSubmitted(c) == c.scratch.flushCalled

Reveal(c) ==
    LET decoys == Roosts \ {c.scratch.roost}
        room   == IF Cardinality(decoys) < MaxDecoys THEN Cardinality(decoys) ELSE MaxDecoys
    IN  {Revealed([c.scratch EXCEPT !.roostOptions = {c.scratch.roost} \cup d,
                                    !.accusations = Unset, !.guess = Nobody], NoPoints, TRUE) :
            d \in {e \in SUBSET decoys : Cardinality(e) = room}}

-----------------------------------------------------------------------------
Votes(c, p) == [kind : {"roost"}, target : Roosts] \cup [kind : {"accuse"}, target : Players]

\* The odd bird names a roost on offer; the flock accuses one another.
CollectVote(c, p, v) ==
    LET s == c.scratch
    IN  CASE v.kind = "roost" /\ p = s.oddBird /\ v.target \in s.roostOptions -> [s EXCEPT !.guess = v.target]
          [] v.kind = "accuse" /\ p # s.oddBird /\ v.target \in Players \ {p} ->
                 [s EXCEPT !.accusations[p] = v.target]
          [] OTHER -> s

Decided(s) == Having(s.accusations) \cup (IF s.guess = Nobody THEN {} ELSE {s.oddBird})

AllDecided(c) == Everyone(c, Decided(c.scratch))

Accusers(s, p) == Cardinality({q \in Players : s.accusations[q] = p})

\* A tie, or no accusation at all, flushes nobody.
Flushed(s) ==
    {p \in Players : Accusers(s, p) > 0 /\ \A q \in Players \ {p} : Accusers(s, p) > Accusers(s, q)}

ResolveDecision(c) ==
    LET s == c.scratch
        caught == Flushed(s) = {s.oddBird}
    IN  Resolved(s, [p \in Players |->
            IF p # s.oddBird THEN (IF caught THEN 100 ELSE 0)
            ELSE (IF caught THEN 0 ELSE 100) + (IF s.guess = s.roost THEN 150 ELSE 0)])

-----------------------------------------------------------------------------
(* Odd Bird on the wire and on the devices (apps/web/lib/games/odd-bird).     *)

Prompt(c) == [players |-> Cardinality(Players)]
\* privateCards: the roost and a perch for the flock, a card without either for
\* the odd bird.
Private(c, p) ==
    <<IF p = c.scratch.oddBird THEN [role |-> "odd-bird"]
      ELSE [role |-> "flock", roost |-> c.scratch.roost, perch |-> c.scratch.perches[p]]>>
RevealFrame(c) == [players |-> Players, roostOptions |-> c.scratch.roostOptions]
ResultFrame(c) == [roost |-> c.scratch.roost, oddBird |-> c.scratch.oddBird, flushed |-> Flushed(c.scratch)]

PickFlush(d)  == Latest(d.reveals, LAMBDA r : "roost" \notin DOMAIN r)
PickResult(d) == Latest(d.reveals, LAMBDA r : "roost" \in DOMAIN r)

IsOddBird(d) == \E card \in Range(d.private) : card.role = "odd-bird"

FlushPanel(d, p) ==
    IF d.voted THEN {}
    ELSE UNION {IF IsOddBird(d) THEN {Vote([kind |-> "roost", target |-> o]) : o \in flush.roostOptions}
                ELSE {Vote([kind |-> "accuse", target |-> q]) : q \in flush.players \ {p}} :
                flush \in Range(PickFlush(d))}

Controls(d, p) ==
    CASE d.phase = "collecting" -> IF d.sent = None THEN {Say("flush")} ELSE {}
      [] d.phase = "guessing"   -> FlushPanel(d, p)
      [] OTHER -> {}

Tapped(d, m) == IF m.kind = "move" THEN [d EXCEPT !.sent = <<m.body>>] ELSE [d EXCEPT !.voted = TRUE]

Painted(d) ==
    CASE d.phase \in {"leaderboard", "complete"} -> Paint("the roost", PickResult(d))
      [] d.phase = "guessing"   -> Paint("the flush", d.private \o PickFlush(d))
      [] d.phase = "collecting" -> Paint("the card", d.private)
      [] OTHER                  -> Paint("get ready", <<>>)

Held(c, p) == IF c.scratch.flushCalled THEN <<"flush">> ELSE None

\* The odd bird is not told the roost, nor anybody who the odd bird is.
Leaks(c, d, p) ==
    /\ c.phase \in {"collecting", "guessing"}
    /\ \/ PickResult(d) # None
       \/ d.private \notin {None, Private(c, p)}
==============================================================================
