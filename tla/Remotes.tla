------------------------------- MODULE Remotes -------------------------------
(***************************************************************************)
(* One player's device at a table of RoundGames: the client that folds the *)
(* engine's frames (game-client.ts, game-state.ts), the controller and the *)
(* viewer of the game on it (GameStage.tsx), and the line between them.    *)
(* The other players submit what they like.  With nobody on a device this  *)
(* is RoundGames.                                                          *)
(***************************************************************************)
EXTENDS RoundGames, GameScreen

CONSTANTS Owners,           \* game -> the players whose device is looked at, Nobody for none
          MaxFresh          \* bound: reloads and restarts

VARIABLES
    me,             \* whose device
    device,         \* what it holds (GameScreen)
    mail,           \* what it sent that the engine has yet to take: a message and its round, or None
    reveal,         \* the session's latest reveal, kept for those who join
    excused,        \* history: since the round began, a message was lost or ignored, a refusal
                    \* was forgotten or outlived, or the game began again under the same round
    fresh           \* history: reloads and restarts

mine == <<me, device, mail, reveal, excused, fresh>>

-----------------------------------------------------------------------------
(* The registry of the web app (lib/games/registry.ts).                     *)

\* Of the games played round by round, those with panels: not the two test games.
Registered == {"trivia", "liar-liar", "zinger", "odd-bird", "same-branch", "sketchy", "lone-leaf"}

\* Players, roosts and texts are told from the null of the code, and a player from
\* the id of the truth; there is more to invent, besides the truth, than there are
\* players to invent it; and the sap line has numbers on the branch.
ASSUME RemotesAssumption ==
    /\ \A g \in Registered : Tables[g] \in Seq(Range(Tables[g]) \ {Nobody, "truth"})
    /\ Nobody \notin Roosts \cup Fakes \cup Seeds \cup Decoys \cup Words
    /\ Fakes \cap (LiarLiar!Truths \cup {"blank"}) = {} /\ Decoys \cap (Seeds \cup {"blank"}) = {}
    /\ IsFiniteSet(Fakes) /\ Cardinality(Fakes) >= Cardinality(Range(Tables["liar-liar"]))
    /\ IsFiniteSet(Decoys) /\ Cardinality(Decoys) >= Cardinality(Range(Tables["sketchy"]))
    /\ Sliders \subseteq Int /\ Sliders \cap 0 .. 100 # {}

Prompt(c) ==
    CASE game = "trivia"      -> Trivia!Prompt(c)
      [] game = "liar-liar"   -> LiarLiar!Prompt(c)
      [] game = "zinger"      -> Zinger!Prompt(c)
      [] game = "odd-bird"    -> OddBird!Prompt(c)
      [] game = "same-branch" -> SameBranch!Prompt(c)
      [] game = "sketchy"     -> Sketchy!Prompt(c)
      [] game = "lone-leaf"   -> LoneLeaf!Prompt(c)

Private(c) ==
    CASE game = "odd-bird"    -> OddBird!Private(c, me)
      [] game = "same-branch" -> SameBranch!Private(c, me)
      [] game = "sketchy"     -> Sketchy!Private(c, me)
      [] game = "lone-leaf"   -> LoneLeaf!Private(c, me)
      [] OTHER                -> None

RevealFrame(c) ==
    CASE game = "trivia"      -> Trivia!RevealFrame(c)
      [] game = "liar-liar"   -> LiarLiar!RevealFrame(c)
      [] game = "zinger"      -> Zinger!RevealFrame(c)
      [] game = "odd-bird"    -> OddBird!RevealFrame(c)
      [] game = "same-branch" -> SameBranch!RevealFrame(c)
      [] game = "sketchy"     -> Sketchy!RevealFrame(c)
      [] game = "lone-leaf"   -> LoneLeaf!RevealFrame(c)

ResultFrame(c) ==
    CASE game = "trivia"      -> Trivia!ResultFrame(c)
      [] game = "liar-liar"   -> LiarLiar!ResultFrame(c)
      [] game = "zinger"      -> Zinger!ResultFrame(c)
      [] game = "odd-bird"    -> OddBird!ResultFrame(c)
      [] game = "sketchy"     -> Sketchy!ResultFrame(c)
      [] game = "lone-leaf"   -> LoneLeaf!ResultFrame(c)

Controls(d) ==
    CASE game = "trivia"      -> Trivia!Controls(d, me)
      [] game = "liar-liar"   -> LiarLiar!Controls(d, me)
      [] game = "zinger"      -> Zinger!Controls(d, me)
      [] game = "odd-bird"    -> OddBird!Controls(d, me)
      [] game = "same-branch" -> SameBranch!Controls(d, me)
      [] game = "sketchy"     -> Sketchy!Controls(d, me)
      [] game = "lone-leaf"   -> LoneLeaf!Controls(d, me)

Tapped(d, m) ==
    CASE game = "trivia"      -> Trivia!Tapped(d, m)
      [] game = "liar-liar"   -> LiarLiar!Tapped(d, m)
      [] game = "zinger"      -> Zinger!Tapped(d, m)
      [] game = "odd-bird"    -> OddBird!Tapped(d, m)
      [] game = "same-branch" -> SameBranch!Tapped(d, m)
      [] game = "sketchy"     -> Sketchy!Tapped(d, m)
      [] game = "lone-leaf"   -> LoneLeaf!Tapped(d, m)

Painted(d) ==
    CASE game = "trivia"      -> Trivia!Painted(d)
      [] game = "liar-liar"   -> LiarLiar!Painted(d)
      [] game = "zinger"      -> Zinger!Painted(d)
      [] game = "odd-bird"    -> OddBird!Painted(d)
      [] game = "same-branch" -> SameBranch!Painted(d)
      [] game = "sketchy"     -> Sketchy!Painted(d)
      [] game = "lone-leaf"   -> LoneLeaf!Painted(d)

Held(c) ==
    CASE game = "trivia"      -> Trivia!Held(c, me)
      [] game = "liar-liar"   -> LiarLiar!Held(c, me)
      [] game = "zinger"      -> Zinger!Held(c, me)
      [] game = "odd-bird"    -> OddBird!Held(c, me)
      [] game = "same-branch" -> SameBranch!Held(c, me)
      [] game = "sketchy"     -> Sketchy!Held(c, me)
      [] game = "lone-leaf"   -> LoneLeaf!Held(c, me)

Leaks(c, d) ==
    CASE game = "trivia"      -> Trivia!Leaks(c, d, me)
      [] game = "liar-liar"   -> LiarLiar!Leaks(c, d, me)
      [] game = "zinger"      -> Zinger!Leaks(c, d, me)
      [] game = "odd-bird"    -> OddBird!Leaks(c, d, me)
      [] game = "same-branch" -> SameBranch!Leaks(c, d, me)
      [] game = "sketchy"     -> Sketchy!Leaks(c, d, me)
      [] game = "lone-leaf"   -> LoneLeaf!Leaks(c, d, me)

Refused(c, p, m) ==
    CASE game = "trivia"      -> Trivia!Refused(c, p, m)
      [] game = "liar-liar"   -> LiarLiar!Refused(c, p, m)
      [] game = "zinger"      -> Zinger!Refused(c, p, m)
      [] game = "odd-bird"    -> OddBird!Refused(c, p, m)
      [] game = "same-branch" -> SameBranch!Refused(c, p, m)
      [] game = "sketchy"     -> Sketchy!Refused(c, p, m)
      [] game = "lone-leaf"   -> LoneLeaf!Refused(c, p, m)

-----------------------------------------------------------------------------
(* What the engine sends, and to whom.                                      *)

Disputers(c) == IF c.phase \in {"voting", "leaderboard", "complete"} THEN Disputes(c) ELSE {}
Seen(d, c)   == OnState(d, c, me, Disputers(c))
Dealt(d, c)  == IF Private(c) = None THEN d ELSE OnPrivate(d, Private(c))

\* A round opens: prompt, state, then the secret of this player (startRoundInto).
Opened(d, c) == Dealt(Seen(OnPrompt(d, c, Prompt(c)), c), c)

\* The frames a join is answered with: the latest of everything (catchUpFrames).
Replayed(d) == IF reveal = None THEN d ELSE OnReveal(d, reveal[1])
CatchUp_NoSecret(d, c) == Seen(Replayed(OnPrompt(d, c, Prompt(c))), c)     \* mutant
CatchUp(d, c) == Dealt(Seen(Replayed(OnPrompt(d, c, Prompt(c))), c), c)

\* A frame reaches the device while it is connected.
Receives(d) == device' = IF me \in present THEN d ELSE device

\* The flags of a round say nothing of another, so the excuse goes with them.
Excused(now) == excused' = (now \/ (excused /\ device'.round = device.round))

InitRemote ==
    /\ Init /\ game \in Registered
    /\ me \in Owners[game] /\ device = (IF me \in Players THEN Opened(Blank, Ctx) ELSE Blank)
    /\ mail = None /\ reveal = None /\ excused = FALSE /\ fresh = 0

-----------------------------------------------------------------------------
(* The device.                                                              *)

\* The socket is null while the client reconnects, and a message then goes nowhere
\* (GameClient.send); the control locks all the same.
Tap ==
    /\ phase # "complete" /\ mail = None
    /\ \E m \in Controls(device) :
          /\ device' = Tapped(device, m)
          /\ mail' = IF me \in present THEN <<m, device.round>> ELSE None
    /\ excused' = (excused \/ me \notin present)
    /\ UNCHANGED <<vars, me, reveal, fresh>>

Body == mail[1].body
Wanted ==
    /\ mail # None /\ mail[2] = round
    /\ IF mail[1].kind = "move" THEN phase = "collecting" ELSE phase \in {"disputing", "voting", "guessing"}

\* submitMove, submitVote: a refusal comes back to the sender alone.
Deliver_Silent ==                                                       \* mutant
    /\ Wanted
    /\ scratch' = IF mail[1].kind = "move" THEN CollectMove(Ctx, me, Body) ELSE CollectVote(Ctx, me, Body)
    /\ mail' = None /\ excused' = (excused \/ (mail[1].kind = "move" /\ device.rejected))
    /\ UNCHANGED <<game, phase, round, present, roundScores, drops, me, device, reveal, fresh>>

Deliver ==
    /\ Wanted
    /\ LET moved   == mail[1].kind = "move"
           refused == moved /\ Refused(Ctx, me, Body)
       IN  /\ scratch' = IF moved THEN CollectMove(Ctx, me, Body) ELSE CollectVote(Ctx, me, Body)
           /\ device' = IF refused THEN OnRejected(device) ELSE device
           \* Taken at last, on a device that still says it was refused; or a pick of
           \* one's own text, offered after a reload and ignored without a word.
           /\ excused' = (excused \/ IF moved THEN ~refused /\ device.rejected ELSE scratch' = scratch)
    /\ mail' = None
    /\ UNCHANGED <<game, phase, round, present, roundScores, drops, me, reveal, fresh>>

\* A stale message, or any while the session is paused, is ignored without a word.
Ignored ==
    /\ mail # None
    /\ mail' = None /\ excused' = TRUE
    /\ UNCHANGED <<vars, me, device, reveal, fresh>>

\* The page is loaded again, or the app comes back, with nothing remembered.
Reload ==
    /\ phase # "complete" /\ me \in present /\ fresh < MaxFresh /\ mail = None
    /\ device' = CatchUp(Blank, Ctx) /\ fresh' = fresh + 1 /\ excused' = FALSE
    /\ UNCHANGED <<vars, me, mail, reveal>>

-----------------------------------------------------------------------------
(* The others, and the engine.                                              *)

AnotherPlays(p) ==
    /\ p # me
    /\ SubmitMove(p) \/ SubmitVote(p)
    /\ UNCHANGED mine

Comings(p) ==
    \/ /\ Disconnect(p)
       /\ IF p = me THEN UNCHANGED device /\ mail' = None /\ Excused(mail # None)
                    ELSE Receives(Seen(device, Ctx')) /\ mail' = mail /\ Excused(FALSE)
       /\ UNCHANGED <<me, reveal, fresh>>
    \/ /\ Join(p)
       /\ IF p = me THEN /\ device' = CatchUp(device, Ctx')
                         /\ Excused(device.rejected /\ device'.sent # None)
                    ELSE Receives(Seen(device, Ctx')) /\ Excused(FALSE)
       /\ UNCHANGED <<me, mail, reveal, fresh>>

\* The engine's own steps, each with the frames it publishes.
Closes ==
    \/ /\ AdvanceCollecting
       /\ reveal' = <<RevealFrame(Ctx')>>
       /\ Receives(Dealt(Seen(OnReveal(device, reveal'[1]), Ctx'), Ctx'))
    \/ /\ AdvanceDisputing
       /\ reveal' = reveal
       /\ Receives(Seen(device, Ctx'))
    \/ /\ AdvanceVoting \/ AdvanceGuessing
       /\ reveal' = <<ResultFrame(Ctx')>>
       /\ Receives(Seen(OnReveal(device, reveal'[1]), Ctx'))

Opens ==
    /\ AdvanceLeaderboard
    /\ reveal' = IF phase' = "complete" THEN reveal ELSE None
    /\ Receives(IF phase' = "complete" THEN Seen(device, Ctx') ELSE Opened(device, Ctx'))

EngineSteps ==
    /\ Closes \/ Opens
    /\ Excused(FALSE)
    /\ UNCHANGED <<me, mail, fresh>>

\* The host's Restart: the game is configured anew, and its first round opened
\* over whatever was on the screens.
Restart ==
    /\ phase # "complete" /\ fresh < MaxFresh
    /\ \E s \in Configured :
          scratch' \in StartRound([phase |-> "collecting", round |-> 1, present |-> present, scratch |-> s])
    /\ phase' = "collecting" /\ round' = 1 /\ roundScores' = [p \in Players |-> 0]
    /\ reveal' = None /\ fresh' = fresh + 1
    /\ UNCHANGED <<game, present, drops, me, mail>>
    /\ Receives(Opened(device, Ctx'))
    /\ Excused(device'.round = device.round /\ (device'.sent # None \/ device'.voted \/ mail # None))

NextRemote ==
    \/ Tap \/ Deliver \/ Ignored \/ Reload \/ Restart \/ EngineSteps
    \/ \E p \in Players : AnotherPlays(p) \/ Comings(p)

SpecRemote == InitRemote /\ [][NextRemote]_<<vars, mine>>

-----------------------------------------------------------------------------
(* Properties.                                                              *)

Watching == me \in present /\ mail = None
Alone == [Ctx EXCEPT !.present = {me}]

\* While the engine waits for this player's move or vote, the controller on the
\* device offers one that ends the wait: no order of frames, refusals, reconnects
\* and rounds leaves a player locked out of a round that waits for them (the
\* "locked in" flags of every Remote).  It says nothing of the rest of a round,
\* up to a reload of the page, in which (excused)
\*   - a message was tapped while the socket was down, or lost with it;
\*   - a message was ignored as stale or while the game was paused, or a vote was
\*     not counted;
\*   - a refusal was forgotten by a reconnect, or still shown when a later move was
\*     taken;
\*   - the host began the game again under the same round number, over what the
\*     device had sent.
\* In these the controllers do say Locked in wrongly (game-client.ts:229).
NobodyLockedOut ==
    Watching /\ ~excused =>
        /\ (phase = "collecting" /\ me \notin Subject /\ ~AllSubmitted(Alone)) =>
              \E m \in Controls(device) :
                  AllSubmitted([Alone EXCEPT !.scratch = CollectMove(Ctx, me, m.body)])
        /\ (phase = "guessing" /\ me \notin Subject /\ ~AllDecided(Alone)) =>
              \E m \in Controls(device) :
                  AllDecided([Alone EXCEPT !.scratch = CollectVote(Ctx, me, m.body)])

\* What the device says it has locked in is what the engine holds for the player,
\* unless the device says that it was refused, or the round is excused as above: a
\* message lost, ignored or not counted, a refusal forgotten or outlived, or the
\* game begun again under the same round number.
LockedInMeansHeld ==
    (Watching /\ ~excused /\ phase = "collecting" /\ device.sent # None /\ ~device.rejected) =>
        Held(Ctx) = device.sent

\* A device that was there all along, in and out or reloaded, paints what one that
\* joins now would paint (GameEngine.join: "catch-up frames").
CatchUpIsComplete == me \in present => Painted(device) = Painted(CatchUp(Blank, Ctx))

\* No connected device holds what its player is not to know yet: the frames are kept
\* from it, not merely left unpainted (the private payloads and the reveals).
SecretsKept == me \in present => ~Leaks(Ctx, device)
===============================================================================
