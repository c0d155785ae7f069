------------------------------ MODULE GameEngine ------------------------------
(***************************************************************************)
(* One game session of apps/game-engine: the round lifecycle, its timers,  *)
(* and the pause, reconnect and restart handling of engine.ts.             *)
(*                                                                         *)
(* GameEngine.run() chains every operation of a session onto one promise,  *)
(* timer callbacks included, so an operation is one action here.  A timer  *)
(* is scheduled by one operation and runs as a later one: `timers' holds   *)
(* the callbacks nobody can cancel, `windowTimer' the one cancellable      *)
(* handle, `simTimer' the live game's interval.  All three live in memory  *)
(* only and are lost by a crash; `session' is the Redis blob.              *)
(*                                                                         *)
(* The code stores absolute deadlines and only ever uses deadline - clock, *)
(* clipped at zero.  The model stores that difference and lets Tick lower  *)
(* it, so no clock variable needs a bound.  None is the code's undefined.  *)
(***************************************************************************)
EXTENDS Integers, FiniteSets

CONSTANTS
    Players,            \* the roster of the handoff
    Host,               \* the roster player with isHost, or a value outside Players
    Live,               \* the module implements tick (spec 0044)
    Reveals,            \* the phases its reveal may open: "guessing", "disputing"
    HasAllSubmitted,    \* the module implements allSubmitted / allDecided
    Rounds,             \* cfg.rounds
    MoveWindow,         \* cfg.moveWindowMs, in ticks; 0 is "no timer"
    Overrides,          \* windows a round may set for itself (spec 0074)
    DisputeWindow, DecisionWindow, LeaderboardWindow,
    Grace,              \* AUTO_ADVANCE_MS, in ticks
    MaxTickFailures,    \* MAX_SIM_TICK_FAILURES
    Faults,             \* which of "crash", "worker", "redis" may happen
    StartAgain,         \* may a finished or exited session be started again
    MaxRuns,            \* bound: games started or restarted
    MaxTimers           \* bound: pending callbacks

ASSUME PlayersAssumption == IsFiniteSet(Players)
ASSUME WindowAssumption ==
    /\ {MoveWindow, DisputeWindow, DecisionWindow, LeaderboardWindow} \subseteq Nat
    /\ Overrides \subseteq Nat
    /\ Grace \in Nat \ {0}
ASSUME GameAssumption ==
    /\ Live \in BOOLEAN /\ HasAllSubmitted \in BOOLEAN /\ StartAgain \in BOOLEAN
    /\ Reveals \subseteq {"guessing", "disputing"} /\ Reveals # {}
    /\ Rounds \in Nat \ {0} /\ MaxRuns \in Nat /\ MaxTimers \in Nat
    /\ MaxTickFailures \in Nat \ {0}
    \* Every live game of the repository configures moveWindowMs: 0.
    /\ Live => MoveWindow = 0 /\ Overrides = {}

VARIABLES
    session,        \* the stored SessionState
    timers,         \* scheduled callbacks that cannot be cancelled
    windowTimer,    \* windowTimers.get(key)
    simTimer,       \* simTimers.has(key)
    simFailures,    \* simFailures.get(key) ?? 0
    worker,         \* the session's runtime holds a worker
    runs,           \* history: games started or restarted so far
    owed,           \* history: time the phase in play still owes the table
    lapses,         \* history: what has gone wrong in the phase in play
    manual,         \* history: a host's own pause is in force
    halted          \* history: a fault stopped the live world

memory  == <<timers, windowTimer, simTimer, simFailures>>
history == <<runs, owed, lapses, manual, halted>>
vars    == <<session, memory, worker, history>>

None == -1
WindowPhases == {"guessing", "disputing", "voting", "leaderboard"}
Phases == WindowPhases \cup {"collecting", "complete"}
MoveWindows == Overrides \cup {MoveWindow}
Default(x, d) == IF x = None THEN d ELSE x

(* The lapses of a phase.  "cut": a window was armed anew with less than it   *)
(* owes, the time left of an earlier one.  "untimed": a fault may have left a  *)
(* countdown without its timer.  "unnoticed": the table may be complete with   *)
(* no grace timer armed for it.  Entering a phase forgets them.                *)
Lapses == {"cut", "untimed", "unnoticed"}

NoSession ==
    [phase |-> "absent", runId |-> 0, round |-> 0, paused |-> FALSE, hostPaused |-> FALSE,
     moveWindow |-> 0, moveDeadline |-> None, moveRemaining |-> None,
     windowDeadline |-> None, windowRemaining |-> None, connected |-> {}, acted |-> {}]

NoTimer == [kind |-> "none"]

WindowMsFor(phase) ==
    CASE phase = "guessing"    -> DecisionWindow
      [] phase = "leaderboard" -> LeaderboardWindow
      [] OTHER                 -> DisputeWindow

-----------------------------------------------------------------------------
(* Timers.  A callback captures round, runId and the phase it is armed for. *)

Timer(kind, s, left) ==
    [kind |-> kind, phase |-> s.phase, round |-> s.round, runId |-> s.runId,
     run |-> runs, left |-> left]

ArmMoveWindow(s, delay) ==
    IF s.paused \/ s.moveWindow <= 0 THEN {} ELSE {Timer("move", s, delay)}

ArmAutoAdvance(s) == IF s.paused THEN {} ELSE {Timer("auto", s, Grace)}

\* The module's allSubmitted and allDecided: every connected player has acted.
AllActed(s) ==
    HasAllSubmitted /\ s.connected # {} /\ s.connected \subseteq s.acted

AutoAdvanceIfAllActed(s) == IF AllActed(s) THEN ArmAutoAdvance(s) ELSE {}

\* armWindow writes the deadline; the timer it schedules is the deadline's.
ArmWindow(s, ms) ==
    [s EXCEPT !.windowDeadline = IF ms <= 0 \/ s.paused THEN None ELSE ms]
WindowTimerFor(s) ==
    IF s.windowDeadline = None THEN NoTimer ELSE Timer("window", s, s.windowDeadline)

\* Mutants: the deadline is not dropped; the subtraction is the wrong way round.
FreezeMoveWindow_Ticks(s) ==
    IF s.phase # "collecting" \/ s.moveDeadline = None THEN s
    ELSE [s EXCEPT !.moveRemaining = s.moveDeadline]
FreezeMoveWindow_Swapped(s) ==
    IF s.phase # "collecting" \/ s.moveDeadline = None THEN s
    ELSE [s EXCEPT !.moveRemaining = 0, !.moveDeadline = None]

FreezeMoveWindow(s) ==
    IF s.phase # "collecting" \/ s.moveDeadline = None THEN s
    ELSE [s EXCEPT !.moveRemaining = s.moveDeadline, !.moveDeadline = None]

FreezeWindow(s) ==
    IF s.windowDeadline = None THEN s
    ELSE [s EXCEPT !.windowRemaining = s.windowDeadline, !.windowDeadline = None]

ResumeMoveWindow(s) ==
    IF s.phase # "collecting" \/ s.moveWindow <= 0 THEN s
    ELSE [s EXCEPT !.moveDeadline = Default(s.moveRemaining, s.moveWindow),
                   !.moveRemaining = None]

ResumeMoveTimers_GraceOnly(s) ==                                      \* mutant
    IF s.phase # "collecting" THEN {} ELSE AutoAdvanceIfAllActed(s)

ResumeMoveTimers_WindowOnly(s) ==                                     \* mutant
    IF s.phase # "collecting" THEN {} ELSE ArmMoveWindow(s, s.moveDeadline)

ResumeMoveTimers(s) ==
    IF s.phase # "collecting" THEN {}
    ELSE ArmMoveWindow(s, s.moveDeadline) \cup AutoAdvanceIfAllActed(s)

ResumeWindow(s) ==
    ArmWindow([s EXCEPT !.windowRemaining = None],
              Default(s.windowRemaining, WindowMsFor(s.phase)))

ResumeDecisionTimers(s) == IF s.phase = "guessing" THEN AutoAdvanceIfAllActed(s) ELSE {}

StopSimLoop == simTimer' = FALSE /\ simFailures' = 0

StartSimLoop_Never == UNCHANGED simTimer /\ halted' = FALSE         \* mutant
StartSimLoop == simTimer' = (simTimer \/ Live) /\ halted' = FALSE

-----------------------------------------------------------------------------
(* The round lifecycle, as functions of the session.                        *)

StartRoundInto(s, window) ==
    [s EXCEPT !.phase = "collecting", !.acted = {},
              !.windowDeadline = None, !.windowRemaining = None, !.moveRemaining = None,
              !.moveWindow = window,
              !.moveDeadline = IF ~Live /\ window > 0 THEN window ELSE None]

Enter(s, phase) == ArmWindow([s EXCEPT !.phase = phase], WindowMsFor(phase))

Reveal(s) ==
    {Enter([s EXCEPT !.moveDeadline = None, !.moveRemaining = None, !.acted = {}], phase) :
        phase \in Reveals}

FinalizeRound(s) == Enter(s, "leaderboard")
EndGame(s)       == [s EXCEPT !.phase = "complete"]
NextRound(s)     == {StartRoundInto([s EXCEPT !.round = @ + 1], w) : w \in MoveWindows}

\* Where one advanceLocked may take the session.  The module decides whether
\* there are disputes and whether the game is done before its last round.
Advanced(s) ==
    CASE s.phase = "collecting"  -> IF Live THEN {EndGame(s)} ELSE Reveal(s)
      [] s.phase = "disputing"   -> {FinalizeRound(s), Enter(s, "voting")}
      [] s.phase = "leaderboard" -> {EndGame(s)} \cup (IF s.round < Rounds THEN NextRound(s) ELSE {})
      [] s.phase = "complete"    -> {s}
      [] OTHER                   -> {FinalizeRound(s)}

TimersOf(s) == IF s.moveDeadline = None THEN {} ELSE ArmMoveWindow(s, s.moveWindow)

\* The time a phase gives the table when it is entered.
Allotted(s) ==
    CASE s.phase = "collecting"  -> Default(s.moveDeadline, 0)
      [] s.phase \in WindowPhases -> Default(s.windowDeadline, 0)
      [] OTHER                   -> 0

\* advanceLocked, run with `pending' the callbacks still scheduled.
AdvanceLocked(pending) ==
    \E s \in Advanced(session) :
        /\ session' = s
        /\ timers' = pending \cup (IF s.phase = "collecting" THEN TimersOf(s) ELSE {})
        /\ windowTimer' = IF s.phase \in WindowPhases THEN WindowTimerFor(s)
                          ELSE IF s.phase = "collecting" THEN NoTimer ELSE windowTimer
        /\ IF s.phase = "complete" /\ session.phase # "complete"
           THEN StopSimLoop /\ worker' = FALSE
           ELSE UNCHANGED <<simTimer, simFailures>> /\ worker' = TRUE
        /\ owed' = Allotted(s) /\ lapses' = {}
        /\ UNCHANGED <<runs, manual, halted>>

-----------------------------------------------------------------------------
(* Operations.                                                              *)

Init ==
    /\ session = NoSession
    /\ timers = {} /\ windowTimer = NoTimer /\ simTimer = FALSE /\ simFailures = 0
    /\ worker = FALSE
    /\ runs = 0 /\ owed = 0 /\ lapses = {} /\ manual = FALSE /\ halted = FALSE

\* The tail of start and restart: a first round opened into the given session.
OpenFirstRound(s) ==
    /\ runs < MaxRuns
    /\ runs' = runs + 1
    /\ \E w \in MoveWindows :
         LET opened == StartRoundInto(s, w)
         IN  /\ session' = opened
             /\ timers' = timers \cup {[t EXCEPT !.run = runs + 1] : t \in TimersOf(opened)}
             /\ owed' = Allotted(opened)
    /\ windowTimer' = NoTimer
    /\ worker' = TRUE
    /\ lapses' = {} /\ manual' = FALSE

Start ==
    /\ session.phase \in {"absent", "complete"}
    /\ StartAgain \/ runs = 0
    /\ OpenFirstRound([NoSession EXCEPT !.runId = 1, !.round = 1])
    /\ StartSimLoop
    /\ UNCHANGED simFailures

NextRun(s) ==
    [s EXCEPT !.runId = @ + 1, !.round = 1, !.paused = FALSE, !.hostPaused = FALSE]

Restart ==
    /\ session.phase # "absent"
    /\ OpenFirstRound(NextRun(session))
    /\ simTimer' = Live /\ simFailures' = 0 /\ halted' = FALSE

\* What is left after a check for a complete table, and after a pause or its end:
\* whatever ends a pause arms every timer anew.
Noticed == lapses \ {"unnoticed"}
Retimed == lapses \ {"untimed", "unnoticed"}

\* One that completes the table of a phase it could close, without checking.
Closable(s) == s.phase \in {"collecting", "guessing"} /\ ~s.paused /\ AllActed(s)

Unchecked(s) ==
    IF ~Closable(s) THEN Noticed
    ELSE lapses \cup (IF Closable(session) THEN {} ELSE {"unnoticed"})

\* A roster player (re)joins and there is no auto-pause of its own to lift.  A
\* player who had acted and comes back to an empty table completes it.
Join(p) ==
    /\ session.phase # "absent"
    /\ ~(p = Host /\ session.hostPaused)
    /\ session' = [session EXCEPT !.connected = @ \cup {p}]
    /\ lapses' = Unchecked(session')
    /\ UNCHANGED <<memory, worker, runs, owed, manual, halted>>

\* The host's own join lifts the auto-pause its disconnect set.  Somebody may have
\* lifted it already: then a window in progress is armed anew, with what the last
\* freeze left behind, which may be less than the window owes.
Cut(r) == r.phase \in WindowPhases /\ ~session.paused /\ Allotted(r) < owed

HostReturns ==
    /\ session.phase # "absent" /\ Host \in Players /\ session.hostPaused
    /\ LET s == [session EXCEPT !.connected = @ \cup {Host},
                                !.paused = FALSE, !.hostPaused = FALSE]
           r == IF s.phase \in WindowPhases THEN ResumeWindow(s) ELSE ResumeMoveWindow(s)
       IN  /\ session' = r
           /\ timers' = timers \cup ResumeMoveTimers(r) \cup ResumeDecisionTimers(r)
           /\ windowTimer' = IF r.phase \in WindowPhases THEN WindowTimerFor(r) ELSE windowTimer
           /\ IF r.phase \in WindowPhases THEN UNCHANGED <<simTimer, halted>> ELSE StartSimLoop
           /\ lapses' = Retimed \cup (IF Cut(r) THEN {"cut"} ELSE {})
    /\ worker' = TRUE
    /\ UNCHANGED <<simFailures, runs, owed, manual>>

Disconnect(p) ==
    /\ session.phase # "absent" /\ p \in session.connected
    /\ LET s == [session EXCEPT !.connected = @ \ {p}]
           hostDrop == p = Host /\ ~s.paused /\ s.phase # "complete"
       IN  IF hostDrop
           THEN /\ session' = FreezeWindow(FreezeMoveWindow(
                                  [s EXCEPT !.paused = TRUE, !.hostPaused = TRUE]))
                /\ windowTimer' = NoTimer
                /\ StopSimLoop
                /\ lapses' = Retimed
                /\ UNCHANGED <<timers, worker>>
           ELSE /\ session' = s
                /\ IF s.phase = "collecting" /\ ~s.paused
                   THEN /\ timers' = timers \cup AutoAdvanceIfAllActed(s)
                        /\ worker' = TRUE /\ lapses' = Noticed
                   ELSE UNCHANGED <<timers, worker>> /\ lapses' = Unchecked(s)
                /\ UNCHANGED <<windowTimer, simTimer, simFailures>>
    /\ UNCHANGED <<runs, owed, manual, halted>>

SubmitMove(p) ==
    /\ session.phase = "collecting" /\ ~session.paused /\ p \in session.connected
    /\ worker' = TRUE
    /\ LET s == [session EXCEPT !.acted = @ \cup {p}]
       IN  \/ /\ session' = s
              /\ timers' = timers \cup AutoAdvanceIfAllActed(s)
                    \cup (IF s.moveDeadline = None THEN {} ELSE ArmMoveWindow(s, s.moveDeadline))
              /\ lapses' = Retimed
           \/ UNCHANGED <<session, timers, lapses>>         \* the module rejected it
    /\ UNCHANGED <<windowTimer, simTimer, simFailures, runs, owed, manual, halted>>

\* A dispute vote changes only scratch; a guess may be the last one missing.
SubmitVote(p) ==
    /\ session.phase \in {"disputing", "voting", "guessing"} /\ ~session.paused
    /\ p \in session.connected
    /\ worker' = TRUE
    /\ IF session.phase = "guessing"
       THEN /\ session' = [session EXCEPT !.acted = @ \cup {p}]
            /\ timers' = timers \cup AutoAdvanceIfAllActed(session')
            /\ lapses' = Noticed
       ELSE UNCHANGED <<session, timers, lapses>>
    /\ UNCHANGED <<windowTimer, simTimer, simFailures, runs, owed, manual, halted>>

Pause ==
    /\ session.phase # "absent" /\ ~session.paused
    /\ session' = FreezeWindow(FreezeMoveWindow([session EXCEPT !.paused = TRUE]))
    /\ windowTimer' = NoTimer
    /\ StopSimLoop
    /\ worker' = TRUE
    /\ lapses' = Retimed /\ manual' = TRUE
    /\ UNCHANGED <<timers, runs, owed, halted>>

\* The session is saved before resumeWindow runs: the re-armed window is in
\* memory only, the stored deadline stays absent and the frozen time stays.
Unpause ==
    /\ session.phase # "absent" /\ session.paused
    /\ LET saved == ResumeMoveWindow([session EXCEPT !.paused = FALSE])
       IN  /\ session' = saved
           /\ timers' = timers \cup ResumeMoveTimers(saved) \cup ResumeDecisionTimers(saved)
           /\ windowTimer' = IF saved.phase \in WindowPhases
                             THEN WindowTimerFor(ResumeWindow(saved)) ELSE windowTimer
    /\ StartSimLoop
    /\ worker' = TRUE
    /\ lapses' = Retimed /\ manual' = FALSE
    /\ UNCHANGED <<simFailures, runs, owed>>

HostAdvance_WhilePaused == session.phase # "absent" /\ AdvanceLocked(timers)   \* mutant

HostAdvance ==
    /\ session.phase # "absent" /\ ~session.paused
    /\ AdvanceLocked(timers)

Exit ==
    /\ session.phase # "absent"
    /\ session' = NoSession
    /\ StopSimLoop
    /\ worker' = FALSE
    /\ owed' = 0 /\ lapses' = {} /\ manual' = FALSE
    /\ UNCHANGED <<timers, windowTimer, runs, halted>>

-----------------------------------------------------------------------------
(* Timer callbacks, the simulation loop and the clock.                      *)

\* A due window timer drops its handle and queues its callback: from here on
\* a cancel no longer reaches it.
FireWindow ==
    /\ windowTimer # NoTimer /\ windowTimer.left = 0
    /\ timers' = timers \cup {windowTimer}
    /\ windowTimer' = NoTimer
    /\ UNCHANGED <<session, simTimer, simFailures, worker, history>>

\* The fire-time guard shared by every callback.
StillCurrent(t) ==
    /\ session.phase = t.phase /\ ~session.paused
    /\ session.round = t.round /\ session.runId = t.runId

\* A move callback also honors the deadline as it stands now.
Early_Never(t) == FALSE                                              \* mutant
Early(t) == t.kind = "move" /\ session.moveDeadline > 0
Void(t)  == ~StillCurrent(t) \/ (t.kind = "move" /\ session.moveDeadline = None)

RunTimer(t) ==
    /\ t.left = 0
    /\ \/ /\ Void(t)
          /\ timers' = timers \ {t}
          /\ UNCHANGED <<session, windowTimer, simTimer, simFailures, worker, history>>
       \/ /\ ~Void(t) /\ Early(t)
          /\ timers' = (timers \ {t}) \cup ArmMoveWindow(session, session.moveDeadline)
          /\ UNCHANGED <<session, windowTimer, simTimer, simFailures, worker, history>>
       \/ /\ ~Void(t) /\ ~Early(t)
          /\ AdvanceLocked(timers \ {t})

Simulating == simTimer /\ session.phase \notin {"absent", "complete"} /\ ~session.paused

\* A tick that steps the world; only its failure count is control state.
SimTick ==
    /\ Simulating
    /\ simFailures' = 0 /\ worker' = TRUE
    /\ UNCHANGED <<session, timers, windowTimer, simTimer, history>>

SimOver ==
    /\ Simulating
    /\ session' = EndGame(session)
    /\ StopSimLoop /\ worker' = FALSE
    /\ owed' = 0 /\ lapses' = {}
    /\ UNCHANGED <<timers, windowTimer, runs, manual, halted>>

Less(x) == IF x > 0 THEN x - 1 ELSE x

Pass(t) == IF t = NoTimer THEN t ELSE [t EXCEPT !.left = Less(@)]

Tick ==
    /\ \/ \E t \in timers \cup ({windowTimer} \ {NoTimer}) : t.left > 0
       \/ session.moveDeadline > 0 \/ session.windowDeadline > 0
    /\ timers' = {Pass(t) : t \in timers}
    /\ windowTimer' = Pass(windowTimer)
    /\ session' = [session EXCEPT !.moveDeadline = Less(@), !.windowDeadline = Less(@)]
    /\ owed' = IF session.paused THEN owed ELSE Less(owed)
    /\ UNCHANGED <<simTimer, simFailures, worker, runs, lapses, manual, halted>>

\* Redis drops a finished session an hour after its last save; every timer
\* of the session is long gone by then.
Expire ==
    /\ session.phase = "complete" /\ timers = {} /\ windowTimer = NoTimer
    /\ session' = NoSession
    /\ owed' = 0 /\ lapses' = {} /\ manual' = FALSE
    /\ UNCHANGED <<memory, worker, runs, halted>>

-----------------------------------------------------------------------------
(* Faults.                                                                  *)

Untimed  == lapses \cup (IF session.paused THEN {} ELSE {"untimed"})
TimersGo == Untimed \cup (IF Closable(session) THEN {"unnoticed"} ELSE {})

\* The engine process dies and comes back: memory is gone, Redis is not.
Crash ==
    /\ "crash" \in Faults
    /\ timers' = {} /\ windowTimer' = NoTimer /\ simTimer' = FALSE /\ simFailures' = 0
    /\ worker' = FALSE /\ halted' = Live
    /\ lapses' = TimersGo
    /\ UNCHANGED <<session, runs, owed, manual>>

\* A tick rejects because its worker crashed or hung; thrash stops the loop.
SimTickFails ==
    /\ "worker" \in Faults /\ Simulating
    /\ worker' = FALSE
    /\ IF simFailures + 1 >= MaxTickFailures
       THEN StopSimLoop /\ halted' = Live
       ELSE simFailures' = simFailures + 1 /\ UNCHANGED <<simTimer, halted>>
    /\ UNCHANGED <<session, timers, windowTimer, runs, owed, lapses, manual>>

\* An advance rejects part way: nothing is saved, but the loop of a live game
\* is stopped already.  A worker that dies under answeredCount leaves the window
\* timer cancelled; a Redis that dies under publish or save leaves the window
\* of the phase that was never entered armed.
AdvanceFails(pending) ==
    /\ {"worker", "redis"} \cap Faults # {}
    /\ timers' = pending
    /\ worker' \in {TRUE} \cup (IF "worker" \in Faults THEN {FALSE} ELSE {})
    /\ \E s \in Advanced(session) :
         /\ simTimer' = (simTimer /\ s.phase # "complete")
         /\ windowTimer' \in {windowTimer} \cup
                (IF s.phase = "collecting" THEN {NoTimer} ELSE {}) \cup
                (IF s.phase \in WindowPhases /\ "redis" \in Faults THEN {WindowTimerFor(s)} ELSE {})
    /\ simFailures' = IF simTimer' THEN simFailures ELSE 0
    /\ halted' = (halted \/ simTimer' # simTimer)
    /\ lapses' = TimersGo
    /\ UNCHANGED <<session, runs, owed, manual>>

HostAdvanceFails ==
    session.phase \notin {"absent", "complete"} /\ ~session.paused /\ AdvanceFails(timers)

RunTimerFails(t) == t.left = 0 /\ ~Void(t) /\ ~Early(t) /\ AdvanceFails(timers \ {t})

\* The last tick stops the loop before endGame rejects; the failure is still
\* counted, against a loop that no longer runs.
SimOverFails ==
    /\ "worker" \in Faults /\ Simulating
    /\ simTimer' = FALSE
    /\ simFailures' = IF MaxTickFailures = 1 THEN 0 ELSE 1
    /\ worker' = FALSE /\ halted' = Live
    /\ UNCHANGED <<session, timers, windowTimer, runs, owed, lapses, manual>>

\* restart and exit stop the loop first; restart may also reach the line that
\* drops the window timer.  Neither has saved anything when it rejects.
RestartOrExitFails ==
    /\ "worker" \in Faults /\ session.phase # "absent"
    /\ StopSimLoop
    /\ windowTimer' \in {windowTimer, NoTimer}
    /\ worker' \in BOOLEAN
    /\ halted' = Live
    /\ lapses' = Untimed
    /\ UNCHANGED <<session, timers, runs, owed, manual>>

\* The host's join re-arms the guess window, then allDecided rejects: the
\* stored session is still paused, the timer is not.
HostReturnsFails ==
    /\ "worker" \in Faults /\ Host \in Players
    /\ session.hostPaused /\ session.phase = "guessing"
    /\ windowTimer' = WindowTimerFor(ResumeWindow([session EXCEPT !.paused = FALSE]))
    /\ worker' = FALSE
    /\ lapses' = Untimed
    /\ UNCHANGED <<session, timers, simTimer, simFailures, runs, owed, manual, halted>>

-----------------------------------------------------------------------------
Controls ==
    Start \/ Restart \/ Pause \/ Unpause \/ HostAdvance \/ Exit

Devices ==
    HostReturns \/ \E p \in Players : Join(p) \/ Disconnect(p) \/ SubmitMove(p) \/ SubmitVote(p)

Clockwork ==
    FireWindow \/ SimTick \/ SimOver \/ Tick \/ Expire \/ \E t \in timers : RunTimer(t)

Failures ==
    \/ Crash
    \/ SimTickFails \/ SimOverFails
    \/ HostAdvanceFails \/ RestartOrExitFails \/ HostReturnsFails
    \/ \E t \in timers : RunTimerFails(t)

\* MaxTimers holds people back, never the clock or a callback that is due.
Next ==
    \/ (Controls \/ Devices) /\ Cardinality(timers') <= MaxTimers
    \/ Clockwork
    \/ Failures

Spec == Init /\ [][Next]_vars

\* The event loop runs what is due and time passes; what people press is free.
Fairness ==
    /\ WF_vars(Tick) /\ WF_vars(FireWindow)
    /\ WF_vars(\E t \in timers : RunTimer(t))

FairSpec == Spec /\ Fairness

-----------------------------------------------------------------------------
(* Properties.                                                              *)

TimeLeft == Nat \cup {None}

SessionType ==
    [phase : Phases \cup {"absent"}, runId : Nat, round : Nat,
     paused : BOOLEAN, hostPaused : BOOLEAN, moveWindow : Nat,
     moveDeadline : TimeLeft, moveRemaining : TimeLeft,
     windowDeadline : TimeLeft, windowRemaining : TimeLeft,
     connected : SUBSET Players, acted : SUBSET Players]

TimerType ==
    [kind : {"move", "auto", "window"}, phase : Phases, round : Nat, runId : Nat,
     run : Nat, left : Nat]

\* Every variable keeps the shape the code gives it, at every step of engine.ts.
TypeOK ==
    /\ session \in SessionType
    /\ timers \subseteq TimerType
    /\ windowTimer \in TimerType \cup {NoTimer}
    /\ simTimer \in BOOLEAN /\ worker \in BOOLEAN /\ manual \in BOOLEAN /\ halted \in BOOLEAN
    /\ simFailures \in Nat /\ runs \in Nat /\ owed \in Nat /\ lapses \subseteq Lapses

Answering == session.phase = "collecting" /\ session.moveWindow > 0 /\ ~Live

\* A pause holds everything: while the stored session is paused no countdown
\* runs, no window timer is pending and the live world stands still, however
\* the pause came about (Pause, or the host's drop in Disconnect).
PausedMeansFrozen ==
    session.paused =>
        /\ session.moveDeadline = None /\ session.windowDeadline = None
        /\ windowTimer = NoTimer /\ ~simTimer

\* Pause, resume, reconnect and late timers never cost the table answer time:
\* what the session still grants is at least what the round owes.
AnswerTimeKept ==
    Answering =>
        IF session.paused THEN session.moveRemaining >= owed ELSE session.moveDeadline >= owed

\* A timed force-close acts only when the phase has run its full time: of all
\* pending callbacks, one about to advance the session without everyone having
\* acted (armAutoAdvance) finds nothing owed.  The one exception is a defect of the
\* code, and this property does not show it absent: a window that a returning host
\* armed anew with the time left of an earlier one, though engine.ts:278 promises
\* the time its own drop froze.  Such a window is cut short until it ends.
NoEarlyClose ==
    \A t \in timers :
        t.kind # "auto" /\ t.left = 0 /\ ~Void(t) /\ ~Early(t) =>
            owed = 0 \/ (t.kind = "window" /\ "cut" \in lapses)

\* A countdown the devices are shown has a callback behind it that ends the phase
\* no later than the countdown does, and a complete table has a grace timer.
\*   A fault that takes timers away is made good by whatever arms them next: the
\* next answer that is accepted, a resume, the host's return, the next phase.
\*   The grace timer is missed in three ways that the code does not make good: a
\* player who had acted rejoins an empty table, somebody drops from a guess that the
\* others have finished (engine.ts:371 checks answers only), a fault.  Then it takes
\* the next answer or guess, drop from an answer round, resume or return.
CountdownsAreBacked ==
    ~session.paused =>
        /\ Answering /\ "untimed" \notin lapses =>
            \E t \in timers : t.kind = "move" /\ StillCurrent(t) /\ t.left <= session.moveDeadline
        /\ session.phase \in WindowPhases /\ session.windowDeadline # None /\ "untimed" \notin lapses =>
            \E t \in timers \cup {windowTimer} :
                t # NoTimer /\ t.kind = "window" /\ StillCurrent(t)
                    /\ t.left <= session.windowDeadline
        /\ Closable(session) /\ "unnoticed" \notin lapses =>
            \E t \in timers : t.kind = "auto" /\ StillCurrent(t)

\* The world of an open, unpaused live game is being stepped (spec 0044): only
\* a fault stands it still, and then only until the loop is started again.
LiveWorldRuns ==
    Live /\ session.phase = "collecting" /\ ~session.paused => simTimer \/ halted

\* The session keeps the promise of RoundLifecycle: every operation and callback
\* is a step of it or leaves it alone.
Stage ==
    CASE session.phase = "absent"      -> "none"
      [] session.phase = "collecting"  -> "answering"
      [] session.phase = "leaderboard" -> "scored"
      [] session.phase = "complete"    -> "over"
      [] OTHER                         -> session.phase

Lifecycle ==
    INSTANCE RoundLifecycle WITH
        Stages <- {"guessing", "disputing", "voting"}, stage <- Stage,
        round <- session.round, run <- session.runId, held <- session.paused

PlaysTheLifecycle == Lifecycle!Spec

\* If the host finally leaves the table unpaused, no timed answer round lasts
\* for ever, whoever answers or drops (armMoveWindow).
AnswerRoundCloses == <>[](~session.paused) => []<>(~Answering)
===============================================================================
