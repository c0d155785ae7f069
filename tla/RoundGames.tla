------------------------------ MODULE RoundGames ------------------------------
(***************************************************************************)
(* A game of questions or stories, played round by round: the engine's     *)
(* advanceLocked (engine.ts) driving the callbacks of the game module its  *)
(* session names.  Timers and the host are one thing here, an Advance that *)
(* may come at any time; GameEngine has them in full.                      *)
(***************************************************************************)
EXTENDS Integers, SequencesExt

CONSTANTS
    Games,                      \* which of the registered games are played
    Tables,                     \* game -> its roster, in the order of the handoff
    Rounds,                     \* configured rounds of each game (Sketchy: cycles)
    TriviaBank, TriviaCompositions, Clues, Fakes, Setups, Roosts, Perches,
    Spectrums, Buds, Sliders, Seeds, Decoys, LeafBank, Words, Band,
    MaxDrops                    \* bound: connections lost during a game

Trivia     == INSTANCE Trivia WITH Seats <- Tables["trivia"], Bank <- TriviaBank,
                                   Compositions <- TriviaCompositions, Range0 <- Band
LiarLiar   == INSTANCE LiarLiar   WITH Seats <- Tables["liar-liar"]
Zinger     == INSTANCE Zinger     WITH Seats <- Tables["zinger"]
OddBird    == INSTANCE OddBird    WITH Seats <- Tables["odd-bird"]
SameBranch == INSTANCE SameBranch WITH Seats <- Tables["same-branch"]
Sketchy    == INSTANCE Sketchy    WITH Seats <- Tables["sketchy"]
LoneLeaf   == INSTANCE LoneLeaf   WITH Seats <- Tables["lone-leaf"], SeedBank <- LeafBank
StubGame    == INSTANCE StubGame    WITH Seats <- Tables["stub"]
DeciderGame == INSTANCE DeciderGame WITH Seats <- Tables["decider"]

\* The banks are JSON files of rated entries; a hidden spot is drawn from 0..100.
\* A roster names somebody, and nobody twice.
ASSUME RoundGamesAssumption ==
    /\ Games \subseteq {"trivia", "liar-liar", "zinger", "odd-bird", "same-branch", "sketchy", "lone-leaf",
                       "stub", "decider"}
    /\ \A g \in Games : Tables[g] # <<>> /\ IsInjective(Tables[g])
    /\ \A bank \in {DOMAIN TriviaBank, Clues, Setups, Spectrums, Seeds, DOMAIN LeafBank} : IsFiniteSet(bank)
    /\ Band[1] \in Int /\ Band[2] \in Int
    /\ \A q \in DOMAIN TriviaBank : TriviaBank[q].difficulty \in Int
    /\ \A s \in DOMAIN LeafBank : LeafBank[s] \in Int
    /\ Buds # {}
    /\ "sketchy" \in Games => Tables["sketchy"] \in Seq(Range(Tables["sketchy"]))
    /\ \A g \in Games \cap {"stub", "decider"} : Tables[g] \in Seq(Range(Tables[g]) \ {"nobody", "truth"})
    /\ "decider" \in Games => /\ IsFiniteSet(Fakes) /\ Cardinality(Fakes) >= Cardinality(Range(Tables["decider"]))
                              /\ Fakes \cap {"nobody", "truth"} = {}

VARIABLES
    game,           \* the module of the session
    phase, round,   \* the session's
    present,        \* the connected players
    scratch,        \* the module's own state
    roundScores,    \* points paid in the round so far
    drops           \* history: connections lost

Players == Range(Tables[game])
Nobody == Trivia!Nobody
Having(f) == {p \in DOMAIN f : f[p] # Nobody}

vars == <<game, phase, round, present, scratch, roundScores, drops>>

Ctx == [phase |-> phase, round |-> round, present |-> present, scratch |-> scratch]

-----------------------------------------------------------------------------
(* The registry: each callback of the module under its game's id.           *)

Configured ==
    CASE game = "trivia"      -> Trivia!Configured
      [] game = "liar-liar"   -> LiarLiar!Configured(Rounds[game])
      [] game = "zinger"      -> Zinger!Configured(Rounds[game])
      [] game = "odd-bird"    -> OddBird!Configured
      [] game = "same-branch" -> SameBranch!Configured(Rounds[game])
      [] game = "sketchy"     -> Sketchy!Configured(Rounds[game])
      [] game = "lone-leaf"   -> LoneLeaf!Configured(Rounds[game])
      [] game = "stub"        -> StubGame!Configured(Rounds[game])
      [] game = "decider"     -> DeciderGame!Configured(Rounds[game])

StartRound(c) ==
    CASE game = "trivia"      -> Trivia!StartRound(c)
      [] game = "liar-liar"   -> LiarLiar!StartRound(c)
      [] game = "zinger"      -> Zinger!StartRound(c)
      [] game = "odd-bird"    -> OddBird!StartRound(c)
      [] game = "same-branch" -> SameBranch!StartRound(c)
      [] game = "sketchy"     -> Sketchy!StartRound(c)
      [] game = "lone-leaf"   -> LoneLeaf!StartRound(c)
      [] game = "stub"        -> StubGame!StartRound(c)
      [] game = "decider"     -> DeciderGame!StartRound(c)

\* What a device may send, and what the module makes of it.
Moves(c, p) ==
    CASE game = "trivia"      -> Trivia!Moves(c, p)
      [] game = "liar-liar"   -> LiarLiar!Moves(c, p)
      [] game = "zinger"      -> Zinger!Moves(c, p)
      [] game = "odd-bird"    -> OddBird!Moves(c, p)
      [] game = "same-branch" -> SameBranch!Moves(c, p)
      [] game = "sketchy"     -> Sketchy!Moves(c, p)
      [] game = "lone-leaf"   -> LoneLeaf!Moves(c, p)
      [] game = "stub"        -> StubGame!Moves(c, p)
      [] game = "decider"     -> DeciderGame!Moves(c, p)

CollectMove(c, p, m) ==
    CASE game = "trivia"      -> Trivia!CollectMove(c, p, m)
      [] game = "liar-liar"   -> LiarLiar!CollectMove(c, p, m)
      [] game = "zinger"      -> Zinger!CollectMove(c, p, m)
      [] game = "odd-bird"    -> OddBird!CollectMove(c, p, m)
      [] game = "same-branch" -> SameBranch!CollectMove(c, p, m)
      [] game = "sketchy"     -> Sketchy!CollectMove(c, p, m)
      [] game = "lone-leaf"   -> LoneLeaf!CollectMove(c, p, m)
      [] game = "stub"        -> StubGame!CollectMove(c, p, m)
      [] game = "decider"     -> DeciderGame!CollectMove(c, p, m)

AllSubmitted(c) ==
    CASE game = "trivia"      -> Trivia!AllSubmitted(c)
      [] game = "liar-liar"   -> LiarLiar!AllSubmitted(c)
      [] game = "zinger"      -> Zinger!AllSubmitted(c)
      [] game = "odd-bird"    -> OddBird!AllSubmitted(c)
      [] game = "same-branch" -> SameBranch!AllSubmitted(c)
      [] game = "sketchy"     -> Sketchy!AllSubmitted(c)
      [] game = "lone-leaf"   -> LoneLeaf!AllSubmitted(c)
      [] game = "stub"        -> StubGame!AllSubmitted(c)
      [] game = "decider"     -> DeciderGame!AllSubmitted(c)

Reveal(c) ==
    CASE game = "trivia"      -> Trivia!Reveal(c)
      [] game = "liar-liar"   -> LiarLiar!Reveal(c)
      [] game = "zinger"      -> Zinger!Reveal(c)
      [] game = "odd-bird"    -> OddBird!Reveal(c)
      [] game = "same-branch" -> SameBranch!Reveal(c)
      [] game = "sketchy"     -> Sketchy!Reveal(c)
      [] game = "lone-leaf"   -> LoneLeaf!Reveal(c)
      [] game = "stub"        -> StubGame!Reveal(c)
      [] game = "decider"     -> DeciderGame!Reveal(c)

Votes(c, p) ==
    CASE game = "trivia"    -> Trivia!Votes(c, p)
      [] game = "liar-liar" -> LiarLiar!Votes(c, p)
      [] game = "zinger"    -> Zinger!Votes(c, p)
      [] game = "odd-bird"  -> OddBird!Votes(c, p)
      [] game = "sketchy"   -> Sketchy!Votes(c, p)
      [] game = "lone-leaf" -> LoneLeaf!Votes(c, p)
      [] game = "stub"      -> StubGame!Votes(c, p)
      [] game = "decider"   -> DeciderGame!Votes(c, p)
      [] OTHER              -> {}

CollectVote(c, p, v) ==
    CASE game = "trivia"    -> Trivia!CollectVote(c, p, v)
      [] game = "liar-liar" -> LiarLiar!CollectVote(c, p, v)
      [] game = "zinger"    -> Zinger!CollectVote(c, p, v)
      [] game = "odd-bird"  -> OddBird!CollectVote(c, p, v)
      [] game = "sketchy"   -> Sketchy!CollectVote(c, p, v)
      [] game = "lone-leaf" -> LoneLeaf!CollectVote(c, p, v)
      [] game = "stub"      -> StubGame!CollectVote(c, p, v)
      [] game = "decider"   -> DeciderGame!CollectVote(c, p, v)
      [] OTHER              -> c.scratch

AllDecided(c) ==
    CASE game = "liar-liar" -> LiarLiar!AllDecided(c)
      [] game = "zinger"    -> Zinger!AllDecided(c)
      [] game = "odd-bird"  -> OddBird!AllDecided(c)
      [] game = "sketchy"   -> Sketchy!AllDecided(c)
      [] game = "lone-leaf" -> LoneLeaf!AllDecided(c)
      [] game = "decider"   -> DeciderGame!AllDecided(c)

ResolveDecision(c) ==
    CASE game = "liar-liar" -> LiarLiar!ResolveDecision(c)
      [] game = "zinger"    -> Zinger!ResolveDecision(c)
      [] game = "odd-bird"  -> OddBird!ResolveDecision(c)
      [] game = "sketchy"   -> Sketchy!ResolveDecision(c)
      [] game = "lone-leaf" -> LoneLeaf!ResolveDecision(c)
      [] game = "decider"   -> DeciderGame!ResolveDecision(c)

\* Only Trivia and the stub have disputes.
Disputes(c) ==
    CASE game = "trivia" -> Trivia!DisputeWindow(c)
      [] game = "stub"   -> StubGame!DisputeWindow(c)
      [] OTHER           -> {}

DisputeVote(c) == IF game = "stub" THEN StubGame!DisputeVote(c) ELSE Trivia!DisputeVote(c)

LastRound ==
    CASE game = "trivia"   -> Len(scratch.plan)
      [] game = "odd-bird" -> 1
      [] OTHER             -> scratch.rounds

-----------------------------------------------------------------------------
(* The engine.                                                              *)

Paid(points) == [p \in Players |-> roundScores[p] + points[p]]

\* start: the session is created and its first round opened.
Init ==
    /\ game \in Games
    /\ phase = "collecting" /\ round = 1 /\ present = Players
    /\ roundScores = [p \in Players |-> 0] /\ drops = 0
    /\ \E s \in Configured :
          scratch \in StartRound([phase |-> "collecting", round |-> 1, present |-> Players, scratch |-> s])

SubmitMove(p) ==
    /\ phase = "collecting" /\ p \in present
    /\ \E m \in Moves(Ctx, p) : scratch' = CollectMove(Ctx, p, m)
    /\ UNCHANGED <<game, phase, round, present, roundScores, drops>>

SubmitVote(p) ==
    /\ phase \in {"disputing", "voting", "guessing"} /\ p \in present
    /\ \E v \in Votes(Ctx, p) : scratch' = CollectVote(Ctx, p, v)
    /\ UNCHANGED <<game, phase, round, present, roundScores, drops>>

\* The answers close: by the grace after the last one, the window or the host.
AdvanceCollecting ==
    /\ phase = "collecting"
    /\ \E r \in Reveal(Ctx) :
         /\ scratch' = r.scratch
         /\ roundScores' = Paid(r.points)
         /\ phase' = IF r.guess THEN "guessing" ELSE "disputing"
    /\ UNCHANGED <<game, round, present, drops>>

AdvanceDisputing ==
    /\ phase = "disputing"
    /\ phase' = IF Disputes(Ctx) = {} THEN "leaderboard" ELSE "voting"
    /\ UNCHANGED <<game, round, present, scratch, roundScores, drops>>

AdvanceScoring(from, result) ==
    /\ phase = from
    /\ scratch' = result.scratch
    /\ roundScores' = Paid(result.points)
    /\ phase' = "leaderboard"
    /\ UNCHANGED <<game, round, present, drops>>

AdvanceVoting   == AdvanceScoring("voting", DisputeVote(Ctx))
AdvanceGuessing == AdvanceScoring("guessing", ResolveDecision(Ctx))

AdvanceLeaderboard ==
    /\ phase = "leaderboard"
    /\ IF round >= LastRound
       THEN phase' = "complete" /\ UNCHANGED <<round, scratch, roundScores>>
       ELSE /\ phase' = "collecting" /\ round' = round + 1 /\ roundScores' = [p \in Players |-> 0]
            /\ scratch' \in StartRound([Ctx EXCEPT !.round = round + 1])
    /\ UNCHANGED <<game, present, drops>>

Disconnect(p) ==
    /\ phase # "complete" /\ p \in present /\ drops < MaxDrops
    /\ present' = present \ {p} /\ drops' = drops + 1
    /\ UNCHANGED <<game, phase, round, scratch, roundScores>>

Join(p) ==
    /\ phase # "complete" /\ p \in Players \ present
    /\ present' = present \cup {p}
    /\ UNCHANGED <<game, phase, round, scratch, roundScores, drops>>

Next ==
    \/ \E p \in Players : SubmitMove(p) \/ SubmitVote(p) \/ Disconnect(p) \/ Join(p)
    \/ AdvanceCollecting \/ AdvanceDisputing \/ AdvanceVoting \/ AdvanceGuessing \/ AdvanceLeaderboard

Spec == Init /\ [][Next]_vars

-----------------------------------------------------------------------------
(* Properties.                                                              *)

\* The player the round is about, who has nothing to answer or to guess.
Subject ==
    CASE game = "sketchy" -> {scratch.featured}
      [] game = "lone-leaf" /\ phase = "collecting" -> {scratch.seeker}
      [] game = "lone-leaf" /\ phase # "collecting" -> Players \ {scratch.seeker}      \* only the Seeker guesses
      [] game = "zinger" /\ phase = "guessing" -> scratch.authors
      [] OTHER -> {}

\* The scratch after each connected player has done one thing more, in turn.
After(apply(_, _, _), choice) ==
    FoldLeft(LAMBDA s, p : IF p \in present THEN apply([Ctx EXCEPT !.scratch = s], p, choice[p]) ELSE s,
             scratch, Tables[game])

\* Whatever was sent, refused, replaced or lost so far, the players who are
\* connected can still close the phase themselves, with one message each: only
\* a table with nobody but the round's subject has to wait for a timer or the
\* host (allSubmitted and allDecided of every game).
TableCanClose ==
    /\ (phase = "collecting" /\ present \ Subject # {}) =>
          \E choice \in [present -> UNION {Moves(Ctx, p) : p \in present}] :
              AllSubmitted([Ctx EXCEPT !.scratch = After(CollectMove, choice)])
    /\ (phase = "guessing" /\ present \ Subject # {}) =>
          \E choice \in [present -> UNION {Votes(Ctx, p) : p \in present}] :
              AllDecided([Ctx EXCEPT !.scratch = After(CollectVote, choice)])

\* A game that passed configure never runs out of questions mid-play, whatever
\* order its rounds came in and whatever was drawn (trivia.ts acceptChainFor).
BankLasts ==
    (phase = "leaderboard" /\ round < LastRound) =>
        StartRound([Ctx EXCEPT !.round = round + 1]) # {}

\* No two options read the same and the truth is on offer once, whatever was
\* replaced, refused or left over from a player who dropped (the duplicate checks
\* of liar-liar.ts, sketchy.ts and decider-game.ts, which run when a text is sent, not at the reveal).
OptionsTellApart ==
    LET differ(options, text(_)) == \A a, b \in options : a # b => text(a) # text(b)
    IN CASE game = "sketchy"   -> differ(scratch.options, LAMBDA a : Sketchy!Text(scratch, a))
         [] game = "liar-liar" -> differ(scratch.options, LAMBDA a : LiarLiar!Text(scratch, a))
         [] game = "decider"   -> differ(DeciderGame!Options(scratch), LAMBDA a : DeciderGame!Text(scratch, a))
         [] OTHER              -> TRUE

Total == FoldLeft(LAMBDA sum, p : sum + roundScores[p], 0, Tables[game])
Guessed(option) == {p \in Players : scratch.guesses[p] = option}

\* What a finished round paid, against what was done in it: an answer is paid
\* once, by the reveal or by the table but not by both; every guess pays exactly
\* one player; one side of the flush wins; a grove shares; nobody is paid for
\* work on their own round.
PointsAddUp ==
    phase \in {"leaderboard", "complete"} =>
        CASE game = "trivia" ->
               \A p \in Players :
                   CASE scratch.submitted[p] = "right" -> roundScores[p] = Trivia!Points(scratch.plan[round])
                     [] scratch.submitted[p] = "wrong" /\ scratch.plan[round] = "open" -> roundScores[p] \in {0, 50}
                     [] OTHER -> roundScores[p] = 0
          [] game = "stub" ->
               \A p \in Players :
                   roundScores[p] \in (IF scratch.submitted[p] = "right" THEN {100}
                                      ELSE IF p \in scratch.disputers THEN {0, 50} ELSE {0})
          [] game \in {"liar-liar", "sketchy", "decider"} ->
               /\ Total = 50 * Cardinality(Having(scratch.guesses)) + 50 * Cardinality(Guessed("truth"))
               /\ game = "sketchy" /\ scratch.featured # Nobody => roundScores[scratch.featured] = 0
          [] game = "zinger" ->
               /\ Cardinality({p \in Players : roundScores[p] > 0}) <= 1
               /\ Total <= Cardinality(Having(scratch.votes)) + Zinger!CleanSweepBonus
          [] game = "odd-bird" ->
               \E caught \in BOOLEAN : \A p \in Players :
                   IF p = scratch.oddBird THEN roundScores[p] \in (IF caught THEN {0, 150} ELSE {100, 250})
                   ELSE roundScores[p] = (IF caught THEN 100 ELSE 0)
          [] game = "same-branch" -> roundScores[scratch.reader] = 0
          [] game = "lone-leaf" -> \A p, q \in Players : roundScores[p] = roundScores[q]
===============================================================================
