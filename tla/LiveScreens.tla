----------------------------- MODULE LiveScreens -----------------------------
(***************************************************************************)
(* The live games as they are played: through screens, which show the last *)
(* frame the loop published and turn taps into submissions.  The screens   *)
(* of boards and of the tower keep what was tapped; the remotes of hands   *)
(* and groves keep nothing, and what they offer is judged on the state     *)
(* itself.  Bound: one submission changes a drawn game between two frames, *)
(* which come twenty-five times a second.                                  *)
(***************************************************************************)
EXTENDS LiveGames

CONSTANT MaxRestarts    \* bound: restarts of one session by its host

VARIABLES
    frame,      \* the scratch of the last frame
    legal,      \* the moves of the side to move, which the frame of a board carries
    device,     \* player -> what their screen keeps
    restarts    \* history: restarts so far

screenVars == <<vars, frame, legal, device, restarts>>

Drawn == {"reversi", "checkers", "chess", "teeter-tower"}
Shown == IF game \in Drawn THEN frame ELSE scratch
Kept(s) == IF game \in Drawn THEN s ELSE {}

-----------------------------------------------------------------------------
(* The screens by game.                                                     *)

Blank(g) ==
    CASE g = "checkers"     -> Checkers!Blank
      [] g = "chess"        -> Chess!Blank
      [] g = "teeter-tower" -> Teeter!Blank
      [] OTHER              -> Reversi!Blank

OnFrame(d, s, p) ==
    CASE game = "checkers"     -> Checkers!OnFrame(d, s, p)
      [] game = "chess"        -> Chess!OnFrame(d, s, p)
      [] game = "teeter-tower" -> Teeter!OnFrame(d, s, p)
      [] OTHER                 -> d

Legal(s) ==
    CASE game = "reversi"  -> Reversi!Legal(s)
      [] game = "checkers" -> Checkers!Legal(s)
      [] game = "chess"    -> Chess!Legal(s)
      [] OTHER             -> {}

Offered(p) ==
    CASE game = "nightleaf"    -> Nightleaf!Offers(Shown, p)
      [] game = "brambles"     -> Brambles!Offers(Shown, p)
      [] game = "whispergrove" -> Whispergrove!Offers(Shown, p)

\* What a tap may do: leave the screen as device, having sent nothing or a move.
Taps(d, p) ==
    CASE game = "reversi"      -> Reversi!Taps(Shown, legal, d, p)
      [] game = "checkers"     -> Checkers!Taps(Shown, legal, d, p)
      [] game = "chess"        -> Chess!Taps(Shown, legal, d, p)
      [] game = "teeter-tower" -> Teeter!Taps(Shown, d, p)
      [] OTHER                 -> {[device |-> d, sends |-> <<m>>] : m \in Offered(p)}

-----------------------------------------------------------------------------
ScreensInit ==
    /\ Init
    /\ frame = Kept(scratch) /\ legal = Legal(scratch) /\ restarts = 0
    /\ device = [p \in Players |-> OnFrame(Blank(game), scratch, p)]

Tap(p) ==
    \E t \in Taps(device[p], p) :
        /\ device' = [device EXCEPT ![p] = t.device]
        /\ \/ (t.sends = <<>> /\ phase = "collecting" /\ UNCHANGED vars)
           \/ \E m \in Range(t.sends) : Submitted(p, m)
        /\ UNCHANGED <<frame, legal, restarts>>

\* Every frame reaches every screen.
Publish ==
    /\ SimTick
    /\ frame' = Kept(scratch')
    /\ legal' = IF frame' = frame THEN legal ELSE Legal(scratch')
    /\ device' = [p \in Players |-> OnFrame(device[p], scratch', p)]
    /\ UNCHANGED restarts

\* The host plays the same game again: a fresh scratch, and the loop starts over.
Restart ==
    /\ game \in Drawn /\ restarts < MaxRestarts /\ Shown = scratch
    /\ scratch' \in IF game = "chess" THEN {Chess!StartingPosition} ELSE Openings(game)
    /\ phase' = "collecting" /\ restarts' = restarts + 1
    /\ plies' = plies + 1                \* counts as a move
    /\ UNCHANGED <<game, frame, legal, device>>

\* What other clients of the same players send, legal or not.
Elsewhere ==
    /\ Shown = scratch
    /\ \E p \in Players : SubmitMove(p)
    /\ UNCHANGED <<frame, legal, device, restarts>>

Closed == HostAdvance /\ UNCHANGED <<frame, legal, device, restarts>>

ScreensNext == (\E p \in Players : Tap(p)) \/ Publish \/ Restart \/ Elsewhere \/ Closed

ScreensSpec == ScreensInit /\ [][ScreensNext]_screenVars /\ WF_vars(SimTick)

-----------------------------------------------------------------------------
(* Properties.                                                              *)

Playing == phase = "collecting" /\ ~Over(scratch) /\ Shown = scratch

PiecesAccountedFor == [][plies' > plies /\ restarts' = restarts => MoveAccounts]_screenVars

\* A tap that sends a move, other than to resign, which changes the game.
Carries(t, p) ==
    \E m \in Range(t.sends) : (game = "chess" => m # Chess!Resign) /\ Accepted(p, m) # {scratch}

CanCarryOn(p) ==
    \E t1 \in Taps(device[p], p) :
        \/ Carries(t1, p)
        \/ \E t2 \in Taps(t1.device, p) : Carries(t2, p) \/ \E t3 \in Taps(t2.device, p) : Carries(t3, p)

\* A tower that is full stays so, and a screen that believes its piece dropped
\* offers no second drop: the game knows no way out of the first, and only a
\* reload gets out of the second.
Stuck ==
    /\ game = "teeter-tower"
    /\ \/ scratch.placed >= MaxPlaced
       \/ device[Teeter!ActivePlayer(scratch)].dropped

\* While a game is not over and its last frame is on every screen, the frames
\* carry it on, or a few taps from what somebody has on their screen now send a
\* move that does: nobody waits at a board whose side to move is stuck.
TurnCanBeTaken ==
    Playing =>
        \/ IF game = "teeter-tower" THEN ~scratch.next ELSE Ticked # {scratch}
        \/ \E p \in Players : CanCarryOn(p)
        \/ Stuck

\* A dialog that a restart left open still offers a promotion of the old game.
LeftOpen(p) == game = "chess" /\ restarts > 0 /\ device[p].pendingPromo # {}

\* What a screen offers as sure (a square of a board, a button of a hand, a leaf
\* of a grove: not a typed guess, nor where a piece is dropped) is accepted when
\* it shows the state as it is, however the taps that led there interleaved with
\* frames, restarts and the other devices of the same players.
OffersAreGood ==
    Playing /\ game \notin {"brambles", "teeter-tower"} =>
        \A p \in Players : ~LeftOpen(p) =>
            \A t \in Taps(device[p], p) : \A m \in Range(t.sends) :
                (game = "whispergrove" /\ m.kind = "whisper") \/ Accepted(p, m) # {scratch}
==============================================================================
