--------------------------- MODULE GameEngine_proof ---------------------------
(***************************************************************************)
(* Proofs about GameEngine, for every roster, every choice of windows and  *)
(* every number of rounds, runs and timers.                                *)
(***************************************************************************)
EXTENDS GameEngine, TLAPS

USE WindowAssumption, GameAssumption

Windows == MoveWindows \cup {DisputeWindow, DecisionWindow, LeaderboardWindow}

-----------------------------------------------------------------------------
(* What the session transformers return.                                    *)

LEMMA WindowMsIsNat == \A phase : WindowMsFor(phase) \in Nat
  BY DEF WindowMsFor

LEMMA ArmWindowType ==
  ASSUME NEW s \in SessionType, NEW ms \in Nat
  PROVE  ArmWindow(s, ms) \in SessionType
  BY DEF ArmWindow, SessionType, TimeLeft, None

LEMMA EnterType ==
  ASSUME NEW s \in SessionType, NEW phase \in WindowPhases
  PROVE  Enter(s, phase) \in SessionType /\ Enter(s, phase).phase = phase
  <1>1. [s EXCEPT !.phase = phase] \in SessionType
    BY DEF SessionType, Phases
  <1>2. WindowMsFor(phase) \in Nat
    BY WindowMsIsNat
  <1> QED  BY ZenonT(30), <1>1, <1>2, ArmWindowType DEF Enter, ArmWindow, SessionType

LEMMA FreezeType ==
  ASSUME NEW s \in SessionType
  PROVE  FreezeWindow(FreezeMoveWindow(s)) \in SessionType
  <1>1. FreezeMoveWindow(s) \in SessionType
    BY DEF FreezeMoveWindow, SessionType, TimeLeft, None
  <1> QED  BY <1>1 DEF FreezeWindow, SessionType, TimeLeft, None

LEMMA ResumeMoveType ==
  ASSUME NEW s \in SessionType
  PROVE  /\ ResumeMoveWindow(s) \in SessionType
         /\ ResumeMoveWindow(s).phase = s.phase
         /\ ResumeMoveWindow(s).moveWindow = s.moveWindow
         /\ s.phase = "collecting" /\ s.moveWindow > 0 =>
                ResumeMoveWindow(s).moveDeadline \in Nat
  <1> DEFINE left == Default(s.moveRemaining, s.moveWindow)
  <1>1. left \in Nat
    BY DEF Default, SessionType, TimeLeft, None
  <1>2. [s EXCEPT !.moveDeadline = left, !.moveRemaining = None] \in SessionType
    <2> HIDE DEF left
    <2> QED  BY <1>1 DEF SessionType, TimeLeft
  <1> QED  BY <1>1, <1>2 DEF ResumeMoveWindow, SessionType

LEMMA ResumeWindowType ==
  ASSUME NEW s \in SessionType
  PROVE  ResumeWindow(s) \in SessionType /\ ResumeWindow(s).phase = s.phase
  <1> DEFINE cleared == [s EXCEPT !.windowRemaining = None]
             ms == Default(s.windowRemaining, WindowMsFor(s.phase))
  <1>1. cleared \in SessionType /\ ms \in Nat
    BY WindowMsIsNat DEF SessionType, TimeLeft, None, Default
  <1> QED  BY <1>1, ArmWindowType DEF ResumeWindow, ArmWindow, SessionType

LEMMA StartRoundType ==
  ASSUME NEW s \in SessionType, NEW w \in MoveWindows
  PROVE  /\ StartRoundInto(s, w) \in SessionType
         /\ StartRoundInto(s, w).phase = "collecting"
  BY ZenonT(30) DEF StartRoundInto, SessionType, TimeLeft, None, Phases, MoveWindows

LEMMA NextRunType ==
  ASSUME NEW s \in SessionType
  PROVE  NextRun(s) \in SessionType
  <1>1. s.runId + 1 \in Nat
    BY DEF SessionType
  <1> QED  BY <1>1 DEF NextRun, SessionType

LEMMA AdvancedType ==
  ASSUME session \in SessionType, session.phase # "absent", NEW s \in Advanced(session)
  PROVE  s \in SessionType /\ s.phase \in Phases
  <1>1. CASE session.phase = "collecting" /\ ~Live
    <2> DEFINE closed == [session EXCEPT !.moveDeadline = None, !.moveRemaining = None, !.acted = {}]
    <2>1. closed \in SessionType
      BY DEF SessionType, TimeLeft
    <2>2. PICK phase \in Reveals : s = Enter(closed, phase)
      BY <1>1 DEF Advanced, Reveal
    <2> QED  BY <2>1, <2>2, EnterType DEF WindowPhases, Phases
  <1>2. CASE s = EndGame(session)
    BY <1>2 DEF EndGame, SessionType, Phases
  <1>3. CASE session.phase = "leaderboard" /\ s \in NextRound(session)
    <2> DEFINE next == [session EXCEPT !.round = @ + 1]
    <2>1. next \in SessionType
      BY DEF SessionType
    <2>2. PICK w \in MoveWindows : s = StartRoundInto(next, w)
      BY <1>3 DEF NextRound
    <2> QED  BY <2>1, <2>2, StartRoundType DEF Phases
  <1>4. CASE session.phase = "complete"
    BY <1>4 DEF Advanced, Phases
  <1>5. CASE s = FinalizeRound(session) \/ s = Enter(session, "voting")
    BY <1>5, EnterType DEF FinalizeRound, WindowPhases, Phases
  <1> QED
    BY <1>1, <1>2, <1>3, <1>4, <1>5 DEF Advanced

-----------------------------------------------------------------------------
(* Timers armed for a typed session are typed.                              *)

LEMMA ArmedType ==
  ASSUME runs \in Nat, NEW s \in SessionType, s.phase \in Phases
  PROVE  /\ \A d \in Nat : ArmMoveWindow(s, d) \subseteq TimerType
         /\ ArmAutoAdvance(s) \subseteq TimerType
         /\ AutoAdvanceIfAllActed(s) \subseteq TimerType
         /\ ResumeDecisionTimers(s) \subseteq TimerType
         /\ TimersOf(s) \subseteq TimerType
         /\ WindowTimerFor(s) \in TimerType \cup {NoTimer}
  <1>1. \A kind \in {"move", "auto", "window"}, left \in Nat : Timer(kind, s, left) \in TimerType
    BY DEF Timer, TimerType, SessionType
  <1>2. \A d \in Nat : ArmMoveWindow(s, d) \subseteq TimerType
    BY <1>1 DEF ArmMoveWindow
  <1>3. ArmAutoAdvance(s) \subseteq TimerType
    BY <1>1 DEF ArmAutoAdvance
  <1>4. AutoAdvanceIfAllActed(s) \subseteq TimerType
    BY <1>3 DEF AutoAdvanceIfAllActed
  <1>5. ResumeDecisionTimers(s) \subseteq TimerType
    BY <1>4 DEF ResumeDecisionTimers
  <1>6. TimersOf(s) \subseteq TimerType
    BY <1>2 DEF TimersOf, SessionType
  <1>7. WindowTimerFor(s) \in TimerType \cup {NoTimer}
    BY <1>1 DEF WindowTimerFor, SessionType, TimeLeft
  <1> QED  BY <1>2, <1>3, <1>4, <1>5, <1>6, <1>7

LEMMA ResumeTimersType ==
  ASSUME runs \in Nat, NEW s \in SessionType, s.phase \in Phases
  PROVE  ResumeMoveTimers(ResumeMoveWindow(s)) \subseteq TimerType
  <1> DEFINE r == ResumeMoveWindow(s)
  <1>1. r \in SessionType /\ r.phase = s.phase /\ r.moveWindow = s.moveWindow
    BY ResumeMoveType
  <1>2. CASE r.phase = "collecting" /\ r.moveWindow > 0
    <2>1. r.moveDeadline \in Nat
      BY <1>1, <1>2, ResumeMoveType
    <2> QED  BY <1>1, <2>1, ArmedType DEF ResumeMoveTimers
  <1>3. CASE r.phase = "collecting" /\ ~(r.moveWindow > 0)
    <2>1. ArmMoveWindow(r, r.moveDeadline) = {}
      BY <1>1, <1>3 DEF ArmMoveWindow, SessionType
    <2> QED  BY <1>1, <2>1, ArmedType DEF ResumeMoveTimers
  <1>4. CASE r.phase # "collecting"
    BY <1>4 DEF ResumeMoveTimers
  <1> QED  BY <1>1, <1>2, <1>3, <1>4 DEF SessionType

LEMMA AllottedType ==
  ASSUME NEW s \in SessionType
  PROVE  Allotted(s) \in Nat
  BY DEF Allotted, Default, SessionType, TimeLeft, None

LEMMA NoSessionType == NoSession \in SessionType
  BY DEF NoSession, SessionType, TimeLeft, None

-----------------------------------------------------------------------------
(* Type correctness, one lemma per kind of step.                            *)

LEMMA AdvanceForgets ==
  ASSUME NEW pending, AdvanceLocked(pending)
  PROVE  lapses' = {}
  BY DEF AdvanceLocked

LEMMA LapsesType ==
  ASSUME lapses \subseteq Lapses, Controls \/ Devices \/ Clockwork \/ Failures
  PROVE  lapses' \subseteq Lapses
  <1>1. /\ Noticed \subseteq Lapses /\ Retimed \subseteq Lapses
        /\ Untimed \subseteq Lapses /\ TimersGo \subseteq Lapses
        /\ \A s : Unchecked(s) \subseteq Lapses
    BY DEF Noticed, Retimed, Untimed, TimersGo, Unchecked, Lapses
  <1>2. CASE Controls
    <2>1. \A s : OpenFirstRound(s) => lapses' = {}
      BY Zenon DEF OpenFirstRound
    <2>2. lapses' = {} \/ lapses' = Retimed
      BY <1>2, <2>1, AdvanceForgets, Zenon
         DEF Controls, Start, Restart, Pause, Unpause, HostAdvance, Exit
    <2> QED  BY <1>1, <2>2
  <1>3. CASE HostReturns
    <2>1. lapses' = Retimed \/ lapses' = Retimed \cup {"cut"}
      BY <1>3, Zenon DEF HostReturns
    <2> QED  BY <1>1, <2>1 DEF Lapses
  <1>4. ASSUME NEW p \in Players, Join(p) \/ Disconnect(p) \/ SubmitMove(p) \/ SubmitVote(p)
        PROVE  lapses' \subseteq Lapses
    <2>1. \/ lapses' = lapses \/ lapses' = Noticed \/ lapses' = Retimed
          \/ \E s : lapses' = Unchecked(s)
      BY <1>4, Zenon DEF Join, Disconnect, SubmitMove, SubmitVote
    <2> QED  BY <1>1, <2>1
  <1>5. CASE Clockwork
    <2>1. lapses' = lapses \/ lapses' = {}
      BY <1>5, AdvanceForgets, Zenon
         DEF Clockwork, FireWindow, SimTick, SimOver, Tick, Expire, RunTimer, history
    <2> QED  BY <2>1
  <1>6. CASE Failures
    <2>1. lapses' = lapses \/ lapses' = Untimed \/ lapses' = TimersGo
      BY <1>6, Zenon
         DEF Failures, Crash, SimTickFails, SimOverFails, HostAdvanceFails, RestartOrExitFails,
             HostReturnsFails, RunTimerFails, AdvanceFails
    <2> QED  BY <1>1, <2>1
  <1> QED  BY <1>2, <1>3, <1>4, <1>5, <1>6 DEF Devices

LEMMA AdvanceLockedType ==
  ASSUME TypeOK, NEW pending \in SUBSET TimerType, session.phase # "absent",
         AdvanceLocked(pending)
  PROVE  TypeOK'
  <1> USE DEF TypeOK
  <1>1. PICK s \in Advanced(session) :
          /\ session' = s
          /\ timers' = pending \cup (IF s.phase = "collecting" THEN TimersOf(s) ELSE {})
          /\ windowTimer' = IF s.phase \in WindowPhases THEN WindowTimerFor(s)
                            ELSE IF s.phase = "collecting" THEN NoTimer ELSE windowTimer
          /\ IF s.phase = "complete" /\ session.phase # "complete"
             THEN StopSimLoop /\ worker' = FALSE
             ELSE UNCHANGED <<simTimer, simFailures>> /\ worker' = TRUE
          /\ owed' = Allotted(s) /\ lapses' = {}
          /\ UNCHANGED <<runs, manual, halted>>
    BY Zenon DEF AdvanceLocked
  <1>2. s \in SessionType /\ s.phase \in Phases
    BY AdvancedType
  <1>3. timers' \subseteq TimerType
    BY <1>1, <1>2, ArmedType
  <1>4. windowTimer' \in TimerType \cup {NoTimer}
    BY <1>1, <1>2, ArmedType
  <1>5. owed' \in Nat
    BY <1>1, <1>2, AllottedType
  <1>6. simTimer' \in BOOLEAN /\ worker' \in BOOLEAN /\ simFailures' \in Nat
    <2>1. CASE s.phase = "complete" /\ session.phase # "complete"
      <3>1. simTimer' = FALSE /\ simFailures' = 0 /\ worker' = FALSE
        BY <1>1, <2>1, Zenon DEF StopSimLoop
      <3> QED  BY <3>1
    <2>2. CASE ~(s.phase = "complete" /\ session.phase # "complete")
      <3>1. simTimer' = simTimer /\ simFailures' = simFailures /\ worker' = TRUE
        BY <1>1, <2>2, Zenon
      <3> QED  BY <3>1
    <2> QED  BY <2>1, <2>2
  <1> QED  BY <1>1, <1>2, <1>3, <1>4, <1>5, <1>6 DEF SessionType

LEMMA OpenFirstRoundType ==
  ASSUME TypeOK, NEW s \in SessionType, OpenFirstRound(s)
  PROVE  /\ session' \in SessionType /\ timers' \subseteq TimerType /\ windowTimer' = NoTimer
         /\ owed' \in Nat /\ runs' \in Nat /\ worker' = TRUE /\ manual' = FALSE
  <1> USE DEF TypeOK
  <1>1. PICK w \in MoveWindows :
          /\ session' = StartRoundInto(s, w)
          /\ timers' = timers \cup {[t EXCEPT !.run = runs + 1] : t \in TimersOf(StartRoundInto(s, w))}
          /\ owed' = Allotted(StartRoundInto(s, w))
    BY DEF OpenFirstRound
  <1>2. StartRoundInto(s, w) \in SessionType /\ StartRoundInto(s, w).phase \in Phases
    BY StartRoundType DEF Phases
  <1>3. TimersOf(StartRoundInto(s, w)) \subseteq TimerType
    BY <1>2, ArmedType
  <1>4. \A t \in TimerType : [t EXCEPT !.run = runs + 1] \in TimerType
    BY DEF TimerType
  <1> QED  BY <1>1, <1>2, <1>3, <1>4, AllottedType DEF OpenFirstRound

LEMMA ControlsType ==
  ASSUME TypeOK, Controls
  PROVE  TypeOK'
  <1> USE DEF TypeOK
  <1>0. lapses' \subseteq Lapses
    BY LapsesType
  <1>1. CASE Start
    <2>1. [NoSession EXCEPT !.runId = 1, !.round = 1] \in SessionType
      BY NoSessionType DEF SessionType
    <2>2. simTimer' \in BOOLEAN /\ halted' \in BOOLEAN /\ simFailures' \in Nat
      BY <1>1 DEF Start, StartSimLoop
    <2> QED  BY <1>0, <1>1, <2>1, <2>2, OpenFirstRoundType DEF Start
  <1>2. CASE Restart
    <2>1. NextRun(session) \in SessionType
      BY NextRunType
    <2> QED  BY <1>0, <1>2, <2>1, OpenFirstRoundType DEF Restart
  <1>3. CASE Pause
    <2>1. [session EXCEPT !.paused = TRUE] \in SessionType
      BY DEF SessionType
    <2> QED  BY <1>0, <1>3, <2>1, FreezeType DEF Pause, StopSimLoop
  <1>4. CASE Unpause
    <2> DEFINE u == [session EXCEPT !.paused = FALSE]
               saved == ResumeMoveWindow(u)
    <2>1. u \in SessionType /\ u.phase \in Phases
      BY <1>4 DEF Unpause, SessionType
    <2>2. saved \in SessionType /\ saved.phase \in Phases
      BY <2>1, ResumeMoveType
    <2>3. timers' \subseteq TimerType
      BY <1>4, <2>1, <2>2, ResumeTimersType, ArmedType DEF Unpause
    <2>4. windowTimer' \in TimerType \cup {NoTimer}
      <3>1. ResumeWindow(saved) \in SessionType /\ ResumeWindow(saved).phase \in Phases
        BY <2>2, ResumeWindowType
      <3> QED  BY <1>4, <3>1, ArmedType DEF Unpause
    <2> QED  BY <1>0, <1>4, <2>2, <2>3, <2>4 DEF Unpause, StartSimLoop
  <1>5. CASE HostAdvance
    BY <1>5, AdvanceLockedType DEF HostAdvance
  <1>6. CASE Exit
    BY <1>0, <1>6, NoSessionType DEF Exit, StopSimLoop
  <1> QED  BY <1>1, <1>2, <1>3, <1>4, <1>5, <1>6 DEF Controls

LEMMA DevicesType ==
  ASSUME TypeOK, Devices
  PROVE  TypeOK'
  <1> USE DEF TypeOK
  <1>0. lapses' \subseteq Lapses
    BY LapsesType
  <1>1. CASE HostReturns
    <2> DEFINE s == [session EXCEPT !.connected = @ \cup {Host}, !.paused = FALSE, !.hostPaused = FALSE]
               r == IF s.phase \in WindowPhases THEN ResumeWindow(s) ELSE ResumeMoveWindow(s)
    <2>1. s \in SessionType /\ s.phase \in Phases
      BY <1>1 DEF HostReturns, SessionType
    <2>2. r \in SessionType /\ r.phase = s.phase
      BY <2>1, ResumeWindowType, ResumeMoveType
    <2>3. ResumeMoveTimers(r) \subseteq TimerType
      <3>1. CASE s.phase \in WindowPhases
        BY <2>2, <3>1 DEF ResumeMoveTimers, WindowPhases
      <3>2. CASE s.phase \notin WindowPhases
        BY <2>1, <3>2, ResumeTimersType
      <3> QED  BY <3>1, <3>2
    <2>4. timers' \subseteq TimerType /\ windowTimer' \in TimerType \cup {NoTimer}
      BY <1>1, <2>1, <2>2, <2>3, ArmedType DEF HostReturns
    <2> QED  BY <1>0, <1>1, <2>2, <2>4 DEF HostReturns, StartSimLoop
  <1> SUFFICES ASSUME NEW p \in Players,
                      Join(p) \/ Disconnect(p) \/ SubmitMove(p) \/ SubmitVote(p)
               PROVE  TypeOK'
    BY <1>1 DEF Devices
  <1>2. CASE Join(p)
    BY <1>0, <1>2 DEF Join, memory, SessionType
  <1>3. CASE Disconnect(p)
    <2> DEFINE s == [session EXCEPT !.connected = @ \ {p}]
    <2>1. s \in SessionType /\ s.phase \in Phases
      BY <1>3 DEF Disconnect, SessionType
    <2>2. CASE p = Host /\ ~s.paused /\ s.phase # "complete"
      <3>1. [s EXCEPT !.paused = TRUE, !.hostPaused = TRUE] \in SessionType
        BY <2>1 DEF SessionType
      <3>2. /\ session' = FreezeWindow(FreezeMoveWindow([s EXCEPT !.paused = TRUE, !.hostPaused = TRUE]))
            /\ windowTimer' = NoTimer /\ simTimer' = FALSE /\ simFailures' = 0
            /\ UNCHANGED <<timers, worker, runs, owed, manual, halted>>
        BY <1>3, <2>2 DEF Disconnect, StopSimLoop
      <3> QED  BY <1>0, <3>1, <3>2, FreezeType
    <2>3. CASE ~(p = Host /\ ~s.paused /\ s.phase # "complete")
      BY <1>0, <1>3, <2>1, <2>3, ArmedType DEF Disconnect
    <2> QED  BY <2>2, <2>3
  <1>4. CASE SubmitMove(p)
    <2> DEFINE s == [session EXCEPT !.acted = @ \cup {p}]
    <2>1. s \in SessionType /\ s.phase \in Phases
      BY <1>4 DEF SubmitMove, SessionType
    <2>2. AutoAdvanceIfAllActed(s) \cup
            (IF s.moveDeadline = None THEN {} ELSE ArmMoveWindow(s, s.moveDeadline)) \subseteq TimerType
      BY <2>1, ArmedType DEF SessionType, TimeLeft
    <2> QED  BY <1>0, <1>4, <2>1, <2>2 DEF SubmitMove
  <1>5. CASE SubmitVote(p)
    <2> DEFINE s == [session EXCEPT !.acted = @ \cup {p}]
    <2>1. s \in SessionType /\ s.phase \in Phases
      BY <1>5 DEF SubmitVote, SessionType
    <2> QED  BY <1>0, <1>5, <2>1, ArmedType DEF SubmitVote
  <1> QED  BY <1>2, <1>3, <1>4, <1>5

LEMMA ClockworkType ==
  ASSUME TypeOK, Clockwork
  PROVE  TypeOK'
  <1> USE DEF TypeOK
  <1>0. lapses' \subseteq Lapses
    BY LapsesType
  <1>1. CASE FireWindow
    BY <1>1 DEF FireWindow, history
  <1>2. CASE SimTick
    BY <1>2 DEF SimTick, history
  <1>3. CASE SimOver
    <2>1. EndGame(session) \in SessionType
      BY DEF EndGame, SessionType, Phases
    <2> QED  BY <1>3, <2>1 DEF SimOver, StopSimLoop
  <1>4. CASE Tick
    <2>1. \A x \in TimeLeft : Less(x) \in TimeLeft
      BY DEF Less, TimeLeft, None
    <2>2. \A x \in Nat : Less(x) \in Nat
      BY DEF Less
    <2>3. session' \in SessionType
      BY <1>4, <2>1 DEF Tick, SessionType
    <2>4. \A t \in TimerType : Pass(t) \in TimerType
      BY <2>2 DEF Pass, TimerType
    <2>5. Pass(NoTimer) = NoTimer
      BY DEF Pass
    <2> QED  BY <1>4, <2>2, <2>3, <2>4, <2>5 DEF Tick
  <1>5. CASE Expire
    BY <1>5, NoSessionType DEF Expire, memory
  <1>6. ASSUME NEW t \in timers, RunTimer(t)
        PROVE  TypeOK'
    <2>1. CASE Void(t)  /\ timers' = timers \ {t}
                /\ UNCHANGED <<session, windowTimer, simTimer, simFailures, worker, history>>
      BY <2>1 DEF history
    <2>2. CASE ~Void(t) /\ timers' = (timers \ {t}) \cup ArmMoveWindow(session, session.moveDeadline)
                /\ Early(t) /\ UNCHANGED <<session, windowTimer, simTimer, simFailures, worker, history>>
      <3>1. session.phase \in Phases /\ session.moveDeadline \in Nat
        BY <2>2 DEF Void, Early, StillCurrent, SessionType, TimerType, TimeLeft
      <3> QED  BY <2>2, <3>1, ArmedType DEF history
    <2>3. CASE ~Void(t) /\ AdvanceLocked(timers \ {t})
      <3>1. session.phase # "absent"
        BY <2>3 DEF Void, StillCurrent, TimerType, Phases, WindowPhases
      <3> QED  BY <2>3, <3>1, AdvanceLockedType
    <2> QED  BY <1>6, <2>1, <2>2, <2>3 DEF RunTimer
  <1> QED  BY <1>1, <1>2, <1>3, <1>4, <1>5, <1>6 DEF Clockwork

LEMMA AdvanceFailsType ==
  ASSUME TypeOK, NEW pending \in SUBSET TimerType, session.phase # "absent",
         AdvanceFails(pending)
  PROVE  TypeOK'
  <1> USE DEF TypeOK
  <1>1. PICK s \in Advanced(session) :
          /\ simTimer' = (simTimer /\ s.phase # "complete")
          /\ windowTimer' \in {windowTimer} \cup
                (IF s.phase = "collecting" THEN {NoTimer} ELSE {}) \cup
                (IF s.phase \in WindowPhases /\ "redis" \in Faults THEN {WindowTimerFor(s)} ELSE {})
    BY DEF AdvanceFails
  <1>2. s \in SessionType /\ s.phase \in Phases
    BY AdvancedType
  <1>3. windowTimer' \in TimerType \cup {NoTimer}
    BY <1>1, <1>2, ArmedType
  <1>4. lapses' \subseteq Lapses
    BY DEF AdvanceFails, TimersGo, Untimed, Lapses
  <1> QED  BY <1>1, <1>3, <1>4 DEF AdvanceFails

LEMMA FailuresType ==
  ASSUME TypeOK, Failures
  PROVE  TypeOK'
  <1> USE DEF TypeOK
  <1>0. lapses' \subseteq Lapses
    BY LapsesType
  <1>1. CASE Crash
    BY <1>0, <1>1 DEF Crash
  <1>2. CASE SimTickFails
    <2>1. worker' = FALSE /\ UNCHANGED <<session, timers, windowTimer, runs, owed, manual>>
      BY <1>2, Zenon DEF SimTickFails
    <2>2. \/ simTimer' = FALSE /\ simFailures' = 0 /\ halted' = Live
          \/ simTimer' = simTimer /\ halted' = halted /\ simFailures' = simFailures + 1
      BY <1>2, Zenon DEF SimTickFails, StopSimLoop
    <2>3. simTimer' \in BOOLEAN /\ halted' \in BOOLEAN
      BY <2>2, Zenon
    <2>4. simFailures' = 0 \/ simFailures' = simFailures + 1
      BY <2>2, Zenon
    <2>5. simFailures' \in Nat
      BY <2>4
    <2> QED  BY <1>0, <2>1, <2>3, <2>5
  <1>3. CASE SimOverFails
    BY <1>0, <1>3 DEF SimOverFails
  <1>4. CASE HostAdvanceFails
    BY <1>4, AdvanceFailsType DEF HostAdvanceFails
  <1>5. CASE RestartOrExitFails
    BY <1>0, <1>5 DEF RestartOrExitFails, StopSimLoop
  <1>6. CASE HostReturnsFails
    <2> DEFINE u == [session EXCEPT !.paused = FALSE]
    <2>1. u \in SessionType /\ u.phase \in Phases
      BY <1>6 DEF HostReturnsFails, SessionType, Phases, WindowPhases
    <2>2. WindowTimerFor(ResumeWindow(u)) \in TimerType \cup {NoTimer}
      BY <2>1, ResumeWindowType, ArmedType
    <2> QED  BY <1>0, <1>6, <2>2 DEF HostReturnsFails
  <1>7. ASSUME NEW t \in timers, RunTimerFails(t)
        PROVE  TypeOK'
    <2>1. session.phase # "absent"
      BY <1>7 DEF RunTimerFails, Void, StillCurrent, TimerType, Phases, WindowPhases
    <2> QED  BY <1>7, <2>1, AdvanceFailsType DEF RunTimerFails
  <1> QED  BY <1>1, <1>2, <1>3, <1>4, <1>5, <1>6, <1>7 DEF Failures

LEMMA InitType == Init => TypeOK
  <1> SUFFICES ASSUME Init PROVE TypeOK
    OBVIOUS
  <1>1. simTimer \in BOOLEAN /\ worker \in BOOLEAN /\ manual \in BOOLEAN /\ halted \in BOOLEAN
    BY Zenon DEF Init
  <1>2. session \in SessionType
    BY NoSessionType DEF Init
  <1> QED  BY <1>1, <1>2 DEF Init, TypeOK

LEMMA NextType ==
  ASSUME TypeOK, Next
  PROVE  TypeOK'
  BY ControlsType, DevicesType, ClockworkType, FailuresType DEF Next

\* Every variable keeps its shape whatever the devices, the host, the clock and
\* the faults do (engine.ts, session.ts).
THEOREM TypeCorrect == Spec => []TypeOK
  <1>1. TypeOK /\ [Next]_vars => TypeOK'
    <2>1. ASSUME TypeOK, UNCHANGED vars
          PROVE  TypeOK'
      BY <2>1 DEF TypeOK, vars, memory, history
    <2> QED  BY <2>1, NextType
  <1> QED  BY <1>1, InitType, PTL DEF Spec

-----------------------------------------------------------------------------
(* Answer time.  AnswerTimeKept is not inductive: a host whose return finds  *)
(* the table unpaused is given a fresh window, which is enough only because  *)
(* a round never owes more than its window, and an unpaused round has no     *)
(* frozen time for a later resume to bring back.                             *)

Grants(s, due) ==
    s.phase = "collecting" /\ s.moveWindow > 0 /\ ~Live =>
        /\ due <= s.moveWindow
        /\ IF s.paused THEN s.moveRemaining >= due
           ELSE s.moveRemaining = None /\ s.moveDeadline >= due

GrantsInv == TypeOK /\ Grants(session, owed)

LEMMA FreezeGrants ==
  ASSUME NEW s \in SessionType, NEW due \in Nat, Grants(s, due), ~s.paused,
         NEW t \in SessionType, t.paused,
         t.phase = s.phase, t.moveWindow = s.moveWindow,
         t.moveDeadline = s.moveDeadline, t.moveRemaining = s.moveRemaining
  PROVE  Grants(FreezeWindow(FreezeMoveWindow(t)), due)
  <1> DEFINE f == FreezeMoveWindow(t)
             g == FreezeWindow(f)
  <1>1. /\ f \in SessionType /\ f.phase = t.phase /\ f.moveWindow = t.moveWindow /\ f.paused = t.paused
        /\ t.phase = "collecting" /\ t.moveDeadline # None => f.moveRemaining = t.moveDeadline
    BY DEF FreezeMoveWindow, SessionType, TimeLeft, None
  <1>2. /\ g.phase = f.phase /\ g.moveWindow = f.moveWindow /\ g.paused = f.paused
        /\ g.moveRemaining = f.moveRemaining
    <2> HIDE DEF f
    <2> QED  BY <1>1 DEF FreezeWindow, SessionType
  <1>3. s.phase = "collecting" /\ s.moveWindow > 0 /\ ~Live =>
            s.moveDeadline # None /\ s.moveDeadline >= due /\ due <= s.moveWindow
    BY DEF Grants, None
  <1> HIDE DEF f, g
  <1> QED  BY <1>1, <1>2, <1>3 DEF Grants, f, g

LEMMA ResumeGrants ==
  ASSUME NEW s \in SessionType, NEW due \in Nat, Grants(s, due),
         NEW t \in SessionType, ~t.paused,
         t.phase = s.phase, t.moveWindow = s.moveWindow, t.moveRemaining = s.moveRemaining
  PROVE  Grants(ResumeMoveWindow(t), due)
  <1> DEFINE r == ResumeMoveWindow(t)
             left == Default(t.moveRemaining, t.moveWindow)
  <1> SUFFICES ASSUME t.phase = "collecting", t.moveWindow > 0, ~Live
               PROVE  Grants(r, due)
    <2>1. r.phase = t.phase /\ r.moveWindow = t.moveWindow
      BY ResumeMoveType
    <2> QED  BY <2>1 DEF Grants
  <1>1. due <= t.moveWindow /\ (t.moveRemaining # None => t.moveRemaining >= due)
    BY DEF Grants
  <1>2. left >= due
    BY <1>1 DEF Default
  <1>3. r = [t EXCEPT !.moveDeadline = left, !.moveRemaining = None]
    BY DEF ResumeMoveWindow, SessionType
  <1>4. /\ r.moveWindow = t.moveWindow /\ r.paused = t.paused
        /\ r.moveDeadline = left /\ r.moveRemaining = None
    <2> HIDE DEF left, r
    <2> QED  BY <1>3 DEF SessionType
  <1> HIDE DEF left, r
  <1> QED  BY <1>1, <1>2, <1>4 DEF Grants

LEMMA FreshGrants ==
  ASSUME NEW s \in SessionType, ~s.paused, NEW w \in MoveWindows
  PROVE  Grants(StartRoundInto(s, w), Allotted(StartRoundInto(s, w)))
  <1> DEFINE r == StartRoundInto(s, w)
  <1>1. w \in Nat
    BY DEF MoveWindows
  <1>2. /\ r.phase = "collecting" /\ r.moveWindow = w /\ ~r.paused /\ r.moveRemaining = None
        /\ ~Live /\ w > 0 => r.moveDeadline = w
    <2> DEFINE due == IF ~Live /\ w > 0 THEN w ELSE None
    <2>1. ~Live /\ w > 0 => due = w
      BY Zenon
    <2>2. r = [s EXCEPT !.phase = "collecting", !.acted = {},
                  !.windowDeadline = None, !.windowRemaining = None, !.moveRemaining = None,
                  !.moveWindow = w, !.moveDeadline = due]
      BY Zenon DEF StartRoundInto
    <2> HIDE DEF r, due
    <2>3. /\ r.phase = "collecting" /\ r.moveWindow = w /\ ~r.paused /\ r.moveRemaining = None
          /\ r.moveDeadline = due
      BY <2>2 DEF SessionType
    <2> QED  BY <2>1, <2>3
  <1>3. ASSUME ~Live, w > 0
        PROVE  Allotted(r) = w
    <2>1. r.phase = "collecting" /\ r.moveDeadline = w
      BY <1>2, <1>3
    <2> HIDE DEF r
    <2>2. Allotted(r) = Default(w, 0)
      BY <2>1 DEF Allotted, WindowPhases
    <2> QED  BY <1>1, <2>2 DEF Default, None
  <1> HIDE DEF r
  <1> QED  BY <1>1, <1>2, <1>3 DEF Grants, r

LEMMA AdvanceLockedGrants ==
  ASSUME TypeOK, session.phase # "absent", ~session.paused, Grants(session, owed),
         NEW pending, AdvanceLocked(pending)
  PROVE  Grants(session, owed)'
  <1>1. PICK s \in Advanced(session) : session' = s /\ owed' = Allotted(s)
    BY Zenon DEF AdvanceLocked
  <1>2. CASE s.phase # "collecting"
    BY <1>1, <1>2 DEF Grants
  <1>3. CASE session.phase = "leaderboard" /\ s \in NextRound(session)
    <2> DEFINE next == [session EXCEPT !.round = @ + 1]
    <2>1. next \in SessionType /\ ~next.paused
      BY DEF SessionType, TypeOK
    <2>2. PICK w \in MoveWindows : s = StartRoundInto(next, w)
      BY <1>3 DEF NextRound
    <2> HIDE DEF next
    <2> QED  BY <1>1, <2>1, <2>2, FreshGrants DEF Grants
  <1>4. s.phase # "collecting" \/ (session.phase = "leaderboard" /\ s \in NextRound(session))
    <2>1. \A phase \in WindowPhases, t \in SessionType : Enter(t, phase).phase # "collecting"
      BY EnterType DEF WindowPhases
    <2>2. \A t \in SessionType : EndGame(t).phase # "collecting"
      BY DEF EndGame, SessionType
    <2>3. session \in SessionType
      BY DEF TypeOK
    <2>4. CASE session.phase = "collecting"
      <3> DEFINE closed == [session EXCEPT !.moveDeadline = None, !.moveRemaining = None, !.acted = {}]
      <3>1. closed \in SessionType
        BY <2>3 DEF SessionType, TimeLeft
      <3>2. s = EndGame(session) \/ \E phase \in Reveals : s = Enter(closed, phase)
        <4>1. CASE Live
          BY <2>4, <4>1, Zenon DEF Advanced
        <4>2. CASE ~Live
          BY <2>4, <4>2, Zenon DEF Advanced, Reveal
        <4> QED  BY <4>1, <4>2
      <3> HIDE DEF closed
      <3> QED  BY <2>1, <2>2, <2>3, <3>1, <3>2 DEF WindowPhases
    <2>5. CASE session.phase = "complete"
      BY <2>5 DEF Advanced
    <2>6. CASE session.phase \notin {"collecting", "complete"}
      <3>1. s \in {FinalizeRound(session), Enter(session, "voting"), EndGame(session)}
              \/ (session.phase = "leaderboard" /\ s \in NextRound(session))
        <4>1. CASE session.phase = "disputing"
          <5>1. Advanced(session) = {FinalizeRound(session), Enter(session, "voting")}
            BY <4>1, SMTT(20) DEF Advanced
          <5> QED  BY <5>1
        <4>2. CASE session.phase = "leaderboard"
          <5>1. s \in {EndGame(session)} \cup (IF session.round < Rounds THEN NextRound(session) ELSE {})
            BY <4>2, SMTT(20) DEF Advanced
          <5> QED  BY <4>2, <5>1
        <4>3. CASE session.phase \notin {"collecting", "disputing", "leaderboard", "complete"}
          <5>1. s \in {FinalizeRound(session)}
            BY <4>3, SMTT(20) DEF Advanced
          <5> QED  BY <5>1
        <4> QED  BY <2>6, <4>1, <4>2, <4>3
      <3> QED  BY <2>1, <2>2, <2>3, <3>1 DEF FinalizeRound, WindowPhases
    <2> QED  BY <2>4, <2>5, <2>6
  <1> QED  BY <1>2, <1>3, <1>4

LEMMA ControlsGrant ==
  ASSUME TypeOK, Grants(session, owed), Controls
  PROVE  Grants(session, owed)'
  <1> USE DEF TypeOK
  <1>1. ASSUME NEW s \in SessionType, ~s.paused, OpenFirstRound(s)
        PROVE  Grants(session, owed)'
    <2>1. PICK w \in MoveWindows :
            session' = StartRoundInto(s, w) /\ owed' = Allotted(StartRoundInto(s, w))
      BY <1>1 DEF OpenFirstRound
    <2> QED  BY <1>1, <2>1, FreshGrants DEF Grants
  <1>2. CASE Start
    <2> DEFINE s == [NoSession EXCEPT !.runId = 1, !.round = 1]
    <2>1. s \in SessionType /\ ~s.paused
      BY NoSessionType DEF SessionType, NoSession
    <2> HIDE DEF s
    <2> QED  BY <1>1, <1>2, <2>1 DEF Start, s
  <1>3. CASE Restart
    <2>1. NextRun(session) \in SessionType /\ ~NextRun(session).paused
      BY NextRunType DEF NextRun, SessionType
    <2> QED  BY <1>1, <1>3, <2>1 DEF Restart
  <1>4. CASE Pause
    <2> DEFINE t == [session EXCEPT !.paused = TRUE]
    <2>1. /\ t \in SessionType /\ t.paused
          /\ t.phase = session.phase /\ t.moveWindow = session.moveWindow
          /\ t.moveDeadline = session.moveDeadline /\ t.moveRemaining = session.moveRemaining
      BY DEF SessionType
    <2>2. ~session.paused /\ session' = FreezeWindow(FreezeMoveWindow(t)) /\ owed' = owed
      BY <1>4 DEF Pause
    <2> HIDE DEF t
    <2>3. Grants(session', owed)
      BY <2>1, <2>2, FreezeGrants
    <2> QED  BY <2>2, <2>3 DEF Grants
  <1>5. CASE Unpause
    <2> DEFINE t == [session EXCEPT !.paused = FALSE]
    <2>1. /\ t \in SessionType /\ ~t.paused /\ t.phase = session.phase
          /\ t.moveWindow = session.moveWindow /\ t.moveRemaining = session.moveRemaining
      BY DEF SessionType
    <2>2. session' = ResumeMoveWindow(t) /\ owed' = owed
      BY <1>5 DEF Unpause
    <2> HIDE DEF t
    <2>3. Grants(session', owed)
      BY <2>1, <2>2, ResumeGrants
    <2> QED  BY <2>2, <2>3 DEF Grants
  <1>6. CASE HostAdvance
    BY <1>6, AdvanceLockedGrants DEF HostAdvance
  <1>7. CASE Exit
    BY <1>7 DEF Exit, NoSession, Grants
  <1> QED  BY <1>2, <1>3, <1>4, <1>5, <1>6, <1>7 DEF Controls

LEMMA DevicesGrant ==
  ASSUME TypeOK, Grants(session, owed), Devices
  PROVE  Grants(session, owed)'
  <1> USE DEF TypeOK
  <1> DEFINE Alike(t) == /\ t.phase = session.phase /\ t.moveWindow = session.moveWindow
                         /\ t.moveDeadline = session.moveDeadline
                         /\ t.moveRemaining = session.moveRemaining
  <1>1. CASE HostReturns
    <2> DEFINE t == [session EXCEPT !.connected = @ \cup {Host}, !.paused = FALSE, !.hostPaused = FALSE]
    <2>1. t \in SessionType /\ ~t.paused /\ Alike(t)
      BY <1>1 DEF HostReturns, SessionType
    <2>2. /\ session' = IF t.phase \in WindowPhases THEN ResumeWindow(t) ELSE ResumeMoveWindow(t)
          /\ session'.phase \notin WindowPhases => owed' = owed
      BY <1>1, Zenon DEF HostReturns
    <2> HIDE DEF t
    <2>3. CASE t.phase \in WindowPhases
      <3>1. session'.phase # "collecting"
        BY <2>1, <2>2, <2>3, ResumeWindowType DEF WindowPhases
      <3> QED  BY <3>1 DEF Grants
    <2>4. CASE t.phase \notin WindowPhases
      <3>1. Grants(session', owed)
        BY <2>1, <2>2, <2>4, ResumeGrants
      <3>2. owed' = owed
        BY <2>1, <2>2, <2>4, ResumeMoveType
      <3> QED  BY <3>1, <3>2 DEF Grants
    <2> QED  BY <2>3, <2>4
  <1>2. ASSUME Alike(session'), session'.paused = session.paused, owed' = owed
        PROVE  Grants(session, owed)'
    BY <1>2 DEF Grants
  <1>3. ASSUME NEW p \in Players, Join(p) \/ SubmitMove(p) \/ SubmitVote(p)
        PROVE  Grants(session, owed)'
    <2>1. \/ session' = session
          \/ session' = [session EXCEPT !.connected = @ \cup {p}]
          \/ session' = [session EXCEPT !.acted = @ \cup {p}]
      BY <1>3, Zenon DEF Join, SubmitMove, SubmitVote
    <2>2. owed' = owed
      BY <1>3 DEF Join, SubmitMove, SubmitVote, history
    <2>3. Alike(session') /\ session'.paused = session.paused
      BY <2>1 DEF SessionType
    <2> QED  BY <1>2, <2>2, <2>3
  <1>4. ASSUME NEW p \in Players, Disconnect(p)
        PROVE  Grants(session, owed)'
    <2> DEFINE s == [session EXCEPT !.connected = @ \ {p}]
               t == [s EXCEPT !.paused = TRUE, !.hostPaused = TRUE]
    <2>1. /\ s \in SessionType /\ Alike(s) /\ s.paused = session.paused
          /\ t \in SessionType /\ Alike(t) /\ t.paused
      BY DEF SessionType
    <2>2. owed' = owed
      BY <1>4 DEF Disconnect, history
    <2>3. \/ ~s.paused /\ session' = FreezeWindow(FreezeMoveWindow(t))
          \/ session' = s
      BY <1>4, Zenon DEF Disconnect
    <2> HIDE DEF s, t
    <2>4. CASE session' = s
      BY <1>2, <2>1, <2>2, <2>4
    <2>5. CASE ~s.paused /\ session' = FreezeWindow(FreezeMoveWindow(t))
      <3>1. Grants(session', owed)
        BY <2>1, <2>5, FreezeGrants
      <3> QED  BY <2>2, <3>1 DEF Grants
    <2> QED  BY <2>3, <2>4, <2>5
  <1> QED  BY <1>1, <1>3, <1>4 DEF Devices

LEMMA ClockworkGrant ==
  ASSUME TypeOK, Grants(session, owed), Clockwork
  PROVE  Grants(session, owed)'
  <1> USE DEF TypeOK
  <1>1. ASSUME UNCHANGED <<session, owed>>
        PROVE  Grants(session, owed)'
    BY <1>1 DEF Grants
  <1>2. CASE FireWindow \/ SimTick
    BY <1>1, <1>2 DEF FireWindow, SimTick, history
  <1>3. CASE SimOver
    <2>1. session'.phase = "complete"
      BY <1>3 DEF SimOver, EndGame, SessionType
    <2> QED  BY <2>1 DEF Grants
  <1>4. CASE Expire
    BY <1>4 DEF Expire, NoSession, Grants
  <1>5. CASE Tick
    <2>1. /\ session'.phase = session.phase /\ session'.moveWindow = session.moveWindow
          /\ session'.paused = session.paused /\ session'.moveRemaining = session.moveRemaining
          /\ session'.moveDeadline = Less(session.moveDeadline)
      BY <1>5 DEF Tick, SessionType
    <2>2. owed' = owed \/ owed' = Less(owed)
      BY <1>5, Zenon DEF Tick
    <2>3. session.paused => owed' = owed
      BY <1>5, Zenon DEF Tick
    <2>4. ~session.paused => owed' = Less(owed)
      BY <1>5, Zenon DEF Tick
    <2>5. CASE session.paused
      BY <2>1, <2>3, <2>5 DEF Grants
    <2>6. CASE ~session.paused
      <3>1. owed' <= owed
        BY <2>4, <2>6 DEF Less
      <3>2. session.moveDeadline >= owed => Less(session.moveDeadline) >= Less(owed)
        BY DEF Less, SessionType, TimeLeft, None
      <3>3. ASSUME session.phase = "collecting", session.moveWindow > 0, ~Live
            PROVE  owed' <= session.moveWindow /\ session.moveRemaining = None
                     /\ Less(session.moveDeadline) >= owed'
        <4>1. owed <= session.moveWindow /\ session.moveRemaining = None /\ session.moveDeadline >= owed
          BY <2>6, <3>3 DEF Grants
        <4> QED  BY <2>4, <2>6, <3>1, <3>2, <4>1 DEF Less, SessionType
      <3> QED  BY <2>1, <2>6, <3>3 DEF Grants
    <2> QED  BY <2>5, <2>6
  <1>6. ASSUME NEW t \in timers, RunTimer(t)
        PROVE  Grants(session, owed)'
    <2>1. CASE UNCHANGED <<session, windowTimer, simTimer, simFailures, worker, history>>
      BY <1>1, <2>1 DEF history
    <2>2. CASE ~Void(t) /\ AdvanceLocked(timers \ {t})
      <3>1. session.phase # "absent" /\ ~session.paused
        BY <2>2 DEF Void, StillCurrent, TimerType, Phases, WindowPhases
      <3> QED  BY <2>2, <3>1, AdvanceLockedGrants
    <2> QED  BY <1>6, <2>1, <2>2 DEF RunTimer
  <1> QED  BY <1>2, <1>3, <1>4, <1>5, <1>6 DEF Clockwork

LEMMA FailuresGrant ==
  ASSUME Grants(session, owed), Failures
  PROVE  Grants(session, owed)'
  <1>1. UNCHANGED <<session, owed>>
    BY DEF Failures, Crash, SimTickFails, SimOverFails, HostAdvanceFails, RestartOrExitFails,
           HostReturnsFails, RunTimerFails, AdvanceFails, history
  <1> QED  BY <1>1 DEF Grants

\* Whatever the devices, the host, the clock and the faults do, the round the table
\* is answering has at least the time it was promised (engine.ts:566, 890, 1003).
THEOREM AnswerTimeIsKept == Spec => []AnswerTimeKept
  <1>1. Init => GrantsInv
    <2> SUFFICES ASSUME Init PROVE GrantsInv
      OBVIOUS
    <2>1. Grants(session, owed)
      BY DEF Init, NoSession, Grants
    <2> QED  BY <2>1, InitType DEF GrantsInv
  <1>2. GrantsInv /\ [Next]_vars => GrantsInv'
    <2>1. ASSUME GrantsInv, UNCHANGED vars
          PROVE  GrantsInv'
      BY <2>1 DEF GrantsInv, Grants, TypeOK, vars, memory, history
    <2>2. ASSUME GrantsInv, Next
          PROVE  GrantsInv'
      BY <2>2, NextType, ControlsGrant, DevicesGrant, ClockworkGrant, FailuresGrant
         DEF GrantsInv, Next
    <2> QED  BY <2>1, <2>2
  <1>3. GrantsInv => AnswerTimeKept
    BY DEF GrantsInv, Grants, AnswerTimeKept, Answering
  <1> QED  BY <1>1, <1>2, <1>3, PTL DEF Spec

-----------------------------------------------------------------------------
(* A pause holds.  PausedMeansFrozen is not inductive: a pause freezes the    *)
(* move deadline of an answer round only, so there must be none outside of    *)
(* one, nor in a live game, which has no answer rounds; and a join resumes a   *)
(* loop only where there is one, in a live game.                              *)

Clean(s) ==
    /\ s.phase # "collecting" => s.moveDeadline = None
    /\ Live => s.moveDeadline = None /\ s.moveWindow = 0

OnlyLiveLoops == simTimer => Live

PauseInv == TypeOK /\ Clean(session) /\ OnlyLiveLoops /\ PausedMeansFrozen

LEMMA FreezeStops ==
  ASSUME NEW s \in SessionType, Clean(s)
  PROVE  /\ FreezeWindow(FreezeMoveWindow(s)).moveDeadline = None
         /\ FreezeWindow(FreezeMoveWindow(s)).windowDeadline = None
         /\ Clean(FreezeWindow(FreezeMoveWindow(s)))
  <1> DEFINE f == FreezeMoveWindow(s)
             g == FreezeWindow(f)
  <1>1. f \in SessionType /\ f.phase = s.phase /\ f.moveWindow = s.moveWindow /\ f.moveDeadline = None
    BY DEF FreezeMoveWindow, SessionType, TimeLeft, None, Clean
  <1> HIDE DEF f
  <1>2. g.phase = f.phase /\ g.moveWindow = f.moveWindow /\ g.moveDeadline = f.moveDeadline /\ g.windowDeadline = None
    BY <1>1 DEF FreezeWindow, SessionType
  <1> HIDE DEF g
  <1>3. Clean(g)
    BY <1>1, <1>2 DEF Clean
  <1> QED  BY <1>1, <1>2, <1>3 DEF f, g

LEMMA ResumeClean ==
  ASSUME NEW s \in SessionType, Clean(s)
  PROVE  /\ Clean(ResumeMoveWindow(s)) /\ ResumeMoveWindow(s).paused = s.paused
         /\ Clean(ResumeWindow(s)) /\ ResumeWindow(s).paused = s.paused
  <1>1. Clean(ResumeMoveWindow(s)) /\ ResumeMoveWindow(s).paused = s.paused
    <2> DEFINE left == Default(s.moveRemaining, s.moveWindow)
    <2>1. CASE s.phase # "collecting" \/ s.moveWindow <= 0
      BY <2>1 DEF ResumeMoveWindow
    <2>2. CASE ~(s.phase # "collecting" \/ s.moveWindow <= 0)
      <3>1. ~Live
        BY <2>2 DEF Clean
      <3>2. ResumeMoveWindow(s) = [s EXCEPT !.moveDeadline = left, !.moveRemaining = None]
        BY <2>2 DEF ResumeMoveWindow
      <3> HIDE DEF left
      <3>3. ResumeMoveWindow(s).phase = s.phase /\ ResumeMoveWindow(s).paused = s.paused
        BY <3>2 DEF SessionType
      <3> QED  BY <2>2, <3>1, <3>3 DEF Clean
    <2> QED  BY <2>1, <2>2
  <1>2. /\ ResumeWindow(s).phase = s.phase /\ ResumeWindow(s).moveWindow = s.moveWindow
        /\ ResumeWindow(s).moveDeadline = s.moveDeadline /\ ResumeWindow(s).paused = s.paused
    BY DEF ResumeWindow, ArmWindow, SessionType
  <1> QED  BY <1>1, <1>2 DEF Clean

LEMMA FreshClean ==
  ASSUME NEW s \in SessionType, NEW w \in MoveWindows
  PROVE  Clean(StartRoundInto(s, w)) /\ StartRoundInto(s, w).paused = s.paused
  <1> DEFINE due == IF ~Live /\ w > 0 THEN w ELSE None
             r == StartRoundInto(s, w)
  <1>1. Live => due = None /\ w = 0
    BY DEF MoveWindows
  <1>2. r = [s EXCEPT !.phase = "collecting", !.acted = {},
                !.windowDeadline = None, !.windowRemaining = None, !.moveRemaining = None,
                !.moveWindow = w, !.moveDeadline = due]
    BY Zenon DEF StartRoundInto
  <1> HIDE DEF r, due
  <1>3. r.phase = "collecting" /\ r.moveWindow = w /\ r.moveDeadline = due /\ r.paused = s.paused
    BY <1>2 DEF SessionType
  <1>4. Clean(r)
    BY <1>1, <1>3 DEF Clean
  <1> QED  BY <1>3, <1>4 DEF r

LEMMA AdvancedClean ==
  ASSUME session \in SessionType, Clean(session), NEW s \in Advanced(session)
  PROVE  Clean(s) /\ s.paused = session.paused
  <1>1. \A t \in SessionType, phase \in WindowPhases :
           /\ t.moveDeadline = None /\ (Live => t.moveWindow = 0) => Clean(Enter(t, phase))
           /\ Enter(t, phase).paused = t.paused
    BY DEF Enter, ArmWindow, SessionType, WindowPhases, Clean
  <1>2. CASE session.phase = "collecting" /\ ~Live
    <2> DEFINE closed == [session EXCEPT !.moveDeadline = None, !.moveRemaining = None, !.acted = {}]
    <2>1. closed \in SessionType /\ closed.moveDeadline = None /\ closed.paused = session.paused
      BY DEF SessionType, TimeLeft
    <2>2. PICK phase \in Reveals : s = Enter(closed, phase)
      BY <1>2 DEF Advanced, Reveal
    <2>3. phase \in WindowPhases
      BY DEF WindowPhases
    <2> HIDE DEF closed
    <2> QED  BY <1>1, <1>2, <2>1, <2>2, <2>3
  <1>3. CASE s = EndGame(session) /\ (session.phase = "collecting" => Live)
    <2>1. /\ s.moveDeadline = session.moveDeadline /\ s.moveWindow = session.moveWindow
          /\ s.paused = session.paused
      BY <1>3 DEF EndGame, SessionType
    <2> QED  BY <1>3, <2>1 DEF Clean
  <1>4. CASE session.phase = "leaderboard" /\ s \in NextRound(session)
    <2> DEFINE next == [session EXCEPT !.round = @ + 1]
    <2>1. next \in SessionType /\ next.paused = session.paused
      BY DEF SessionType
    <2>2. PICK w \in MoveWindows : s = StartRoundInto(next, w)
      BY <1>4 DEF NextRound
    <2> HIDE DEF next
    <2> QED  BY <2>1, <2>2, FreshClean
  <1>5. CASE session.phase = "complete"
    BY <1>5 DEF Advanced
  <1>6. CASE session.phase # "collecting" /\ s \in {FinalizeRound(session), Enter(session, "voting")}
    <2>1. session.moveDeadline = None /\ (Live => session.moveWindow = 0)
      BY <1>6 DEF Clean
    <2> QED  BY <1>1, <1>6, <2>1 DEF FinalizeRound, WindowPhases
  <1> QED
    BY <1>2, <1>3, <1>4, <1>5, <1>6 DEF Advanced

LEMMA LoopsStayLive ==
  ASSUME OnlyLiveLoops, Next
  PROVE  OnlyLiveLoops'
  <1> USE DEF OnlyLiveLoops, StopSimLoop, StartSimLoop
  <1>1. ASSUME NEW pending, AdvanceLocked(pending) \/ AdvanceFails(pending)
        PROVE  OnlyLiveLoops'
    BY <1>1 DEF AdvanceLocked, AdvanceFails
  <1>2. CASE Controls
    BY <1>1, <1>2 DEF Controls, Start, Restart, Pause, Unpause, HostAdvance, Exit
  <1>3. CASE Devices
    BY <1>3 DEF Devices, HostReturns, Join, Disconnect, SubmitMove, SubmitVote, memory
  <1>4. CASE Clockwork
    BY <1>1, <1>4 DEF Clockwork, FireWindow, SimTick, SimOver, Tick, Expire, RunTimer, memory
  <1>5. CASE Failures
    BY <1>1, <1>5 DEF Failures, Crash, SimTickFails, SimOverFails, HostAdvanceFails, RestartOrExitFails,
                      HostReturnsFails, RunTimerFails
  <1> QED  BY <1>2, <1>3, <1>4, <1>5 DEF Next

LEMMA OpenFirstRoundPause ==
  ASSUME NEW s \in SessionType, ~s.paused, OpenFirstRound(s)
  PROVE  (Clean(session) /\ PausedMeansFrozen)'
  <1>1. PICK w \in MoveWindows : session' = StartRoundInto(s, w)
    BY DEF OpenFirstRound
  <1>2. Clean(session') /\ ~session'.paused
    BY <1>1, FreshClean
  <1> QED  BY <1>2 DEF Clean, PausedMeansFrozen

LEMMA AdvanceLockedPause ==
  ASSUME PauseInv, ~session.paused, NEW pending, AdvanceLocked(pending)
  PROVE  (Clean(session) /\ PausedMeansFrozen)'
  <1>1. PICK s \in Advanced(session) : session' = s
    BY Zenon DEF AdvanceLocked
  <1>2. Clean(session') /\ ~session'.paused
    BY <1>1, AdvancedClean DEF PauseInv, TypeOK
  <1> QED  BY <1>2 DEF Clean, PausedMeansFrozen

LEMMA ControlsPause ==
  ASSUME PauseInv, Controls
  PROVE  (Clean(session) /\ PausedMeansFrozen)'
  <1> USE DEF PauseInv, TypeOK
  <1>1. CASE Start
    <2> DEFINE s == [NoSession EXCEPT !.runId = 1, !.round = 1]
    <2>1. s \in SessionType /\ ~s.paused
      BY NoSessionType DEF SessionType, NoSession
    <2> HIDE DEF s
    <2> QED  BY <1>1, <2>1, OpenFirstRoundPause DEF Start, s
  <1>2. CASE Restart
    <2>1. NextRun(session) \in SessionType /\ ~NextRun(session).paused
      BY NextRunType DEF NextRun, SessionType
    <2> QED  BY <1>2, <2>1, OpenFirstRoundPause DEF Restart
  <1>3. CASE Pause
    <2> DEFINE t == [session EXCEPT !.paused = TRUE]
    <2>1. /\ t \in SessionType /\ t.phase = session.phase /\ t.moveWindow = session.moveWindow
          /\ t.moveDeadline = session.moveDeadline
      BY DEF SessionType
    <2>2. /\ session' = FreezeWindow(FreezeMoveWindow(t))
          /\ windowTimer' = NoTimer /\ simTimer' = FALSE
      BY <1>3 DEF Pause, StopSimLoop
    <2> HIDE DEF t
    <2>3. Clean(t)
      BY <2>1 DEF Clean
    <2>4. Clean(session') /\ session'.moveDeadline = None /\ session'.windowDeadline = None
      BY <2>1, <2>2, <2>3, FreezeStops
    <2> QED  BY <2>2, <2>4 DEF Clean, PausedMeansFrozen
  <1>4. CASE Unpause
    <2> DEFINE t == [session EXCEPT !.paused = FALSE]
    <2>1. /\ t \in SessionType /\ ~t.paused /\ t.phase = session.phase
          /\ t.moveWindow = session.moveWindow /\ t.moveDeadline = session.moveDeadline
      BY DEF SessionType
    <2>2. session' = ResumeMoveWindow(t)
      BY <1>4 DEF Unpause
    <2> HIDE DEF t
    <2>3. Clean(t)
      BY <2>1 DEF Clean
    <2>4. Clean(session') /\ ~session'.paused
      BY <2>1, <2>2, <2>3, ResumeClean
    <2> QED  BY <2>4 DEF Clean, PausedMeansFrozen
  <1>5. CASE HostAdvance
    BY <1>5, AdvanceLockedPause DEF HostAdvance
  <1>6. CASE Exit
    BY <1>6 DEF Exit, NoSession, Clean, PausedMeansFrozen
  <1> QED  BY <1>1, <1>2, <1>3, <1>4, <1>5, <1>6 DEF Controls

LEMMA DevicesPause ==
  ASSUME PauseInv, Devices
  PROVE  (Clean(session) /\ PausedMeansFrozen)'
  <1> USE DEF PauseInv, TypeOK
  <1> DEFINE Alike(t) == /\ t.phase = session.phase /\ t.moveWindow = session.moveWindow
                         /\ t.moveDeadline = session.moveDeadline
  <1>1. CASE HostReturns
    <2> DEFINE t == [session EXCEPT !.connected = @ \cup {Host}, !.paused = FALSE, !.hostPaused = FALSE]
    <2>1. t \in SessionType /\ ~t.paused /\ Alike(t)
      BY <1>1 DEF HostReturns, SessionType
    <2>2. session' = IF t.phase \in WindowPhases THEN ResumeWindow(t) ELSE ResumeMoveWindow(t)
      BY <1>1 DEF HostReturns
    <2> HIDE DEF t
    <2>3. Clean(t)
      BY <2>1 DEF Clean
    <2>4. Clean(session') /\ ~session'.paused
      BY <2>1, <2>2, <2>3, ResumeClean
    <2> QED  BY <2>4 DEF Clean, PausedMeansFrozen
  <1>2. ASSUME Alike(session'), session'.paused = session.paused,
               session'.windowDeadline = session.windowDeadline, UNCHANGED <<windowTimer, simTimer>>
        PROVE  (Clean(session) /\ PausedMeansFrozen)'
    BY <1>2 DEF Clean, PausedMeansFrozen
  <1>3. ASSUME NEW p \in Players, Join(p) \/ SubmitMove(p) \/ SubmitVote(p)
        PROVE  (Clean(session) /\ PausedMeansFrozen)'
    <2>1. \/ session' = session
          \/ session' = [session EXCEPT !.connected = @ \cup {p}]
          \/ session' = [session EXCEPT !.acted = @ \cup {p}]
      BY <1>3, Zenon DEF Join, SubmitMove, SubmitVote
    <2>2. UNCHANGED <<windowTimer, simTimer>>
      BY <1>3 DEF Join, SubmitMove, SubmitVote, memory
    <2>3. Alike(session') /\ session'.paused = session.paused /\ session'.windowDeadline = session.windowDeadline
      BY <2>1 DEF SessionType
    <2> QED  BY <1>2, <2>2, <2>3
  <1>4. ASSUME NEW p \in Players, Disconnect(p)
        PROVE  (Clean(session) /\ PausedMeansFrozen)'
    <2> DEFINE s == [session EXCEPT !.connected = @ \ {p}]
               t == [s EXCEPT !.paused = TRUE, !.hostPaused = TRUE]
    <2>1. /\ s \in SessionType /\ Alike(s) /\ s.paused = session.paused
          /\ s.windowDeadline = session.windowDeadline
          /\ t \in SessionType /\ Alike(t)
      BY DEF SessionType
    <2>2. \/ /\ session' = FreezeWindow(FreezeMoveWindow(t))
             /\ windowTimer' = NoTimer /\ simTimer' = FALSE
          \/ session' = s /\ UNCHANGED <<windowTimer, simTimer>>
      BY <1>4, Zenon DEF Disconnect, StopSimLoop
    <2> HIDE DEF s, t
    <2>3. CASE session' = s /\ UNCHANGED <<windowTimer, simTimer>>
      BY <1>2, <2>1, <2>3
    <2>4. CASE session' = FreezeWindow(FreezeMoveWindow(t)) /\ windowTimer' = NoTimer /\ simTimer' = FALSE
      <3>1. Clean(t)
        BY <2>1 DEF Clean
      <3>2. Clean(session') /\ session'.moveDeadline = None /\ session'.windowDeadline = None
        BY <2>1, <2>4, <3>1, FreezeStops
      <3> QED  BY <2>4, <3>2 DEF Clean, PausedMeansFrozen
    <2> QED  BY <2>2, <2>3, <2>4
  <1> QED  BY <1>1, <1>3, <1>4 DEF Devices

LEMMA ClockworkPause ==
  ASSUME PauseInv, Clockwork
  PROVE  (Clean(session) /\ PausedMeansFrozen)'
  <1> USE DEF PauseInv, TypeOK
  <1>1. CASE FireWindow
    BY <1>1 DEF FireWindow, Clean, PausedMeansFrozen
  <1>2. CASE SimTick
    BY <1>2 DEF SimTick, Clean, PausedMeansFrozen
  <1>3. CASE SimOver
    <2>1. /\ session'.paused = session.paused /\ session'.moveDeadline = session.moveDeadline
          /\ session'.moveWindow = session.moveWindow /\ session'.phase = "complete"
      BY <1>3 DEF SimOver, EndGame, SessionType
    <2>2. ~session.paused /\ Live
      BY <1>3 DEF SimOver, Simulating, OnlyLiveLoops
    <2> QED  BY <2>1, <2>2 DEF Clean, PausedMeansFrozen
  <1>4. CASE Expire
    BY <1>4 DEF Expire, NoSession, Clean, PausedMeansFrozen
  <1>5. CASE Tick
    <2>1. /\ session'.phase = session.phase /\ session'.moveWindow = session.moveWindow
          /\ session'.paused = session.paused
          /\ session'.moveDeadline = Less(session.moveDeadline)
          /\ session'.windowDeadline = Less(session.windowDeadline)
      BY <1>5 DEF Tick, SessionType
    <2>2. Less(None) = None
      BY DEF Less, None
    <2>3. simTimer' = simTimer /\ (windowTimer = NoTimer => windowTimer' = NoTimer)
      BY <1>5 DEF Tick, Pass
    <2> QED  BY <2>1, <2>2, <2>3 DEF Clean, PausedMeansFrozen
  <1>6. ASSUME NEW t \in timers, RunTimer(t)
        PROVE  (Clean(session) /\ PausedMeansFrozen)'
    <2>1. CASE UNCHANGED <<session, windowTimer, simTimer, simFailures, worker, history>>
      BY <2>1 DEF Clean, PausedMeansFrozen
    <2>2. CASE ~Void(t) /\ AdvanceLocked(timers \ {t})
      <3>1. ~session.paused
        BY <2>2 DEF Void, StillCurrent
      <3> QED  BY <2>2, <3>1, AdvanceLockedPause
    <2> QED  BY <1>6, <2>1, <2>2 DEF RunTimer
  <1> QED  BY <1>1, <1>2, <1>3, <1>4, <1>5, <1>6 DEF Clockwork

LEMMA FailuresPause ==
  ASSUME PauseInv, Failures, "worker" \notin Faults
  PROVE  (Clean(session) /\ PausedMeansFrozen)'
  <1>1. CASE Crash
    BY <1>1 DEF Crash, PauseInv, Clean, PausedMeansFrozen
  <1>2. CASE HostAdvanceFails \/ \E t \in timers : RunTimerFails(t)
    <2>1. session' = session /\ ~session.paused
      BY <1>2 DEF HostAdvanceFails, RunTimerFails, AdvanceFails, Void, StillCurrent
    <2> QED  BY <2>1 DEF PauseInv, Clean, PausedMeansFrozen
  <1> QED  BY <1>1, <1>2 DEF Failures, SimTickFails, SimOverFails, RestartOrExitFails, HostReturnsFails

\* A pause holds, however it came about: nothing counts down, no window timer is
\* armed and no loop runs until somebody lifts it, though the engine may crash and
\* Redis fail under any advance (engine.ts, control and disconnect).  A worker that
\* dies under the host's return does leave a timer behind.
THEOREM PauseHolds ==
  ASSUME "worker" \notin Faults
  PROVE  Spec => []PausedMeansFrozen
  <1>1. Init => PauseInv
    BY InitType DEF Init, NoSession, PauseInv, OnlyLiveLoops, Clean, PausedMeansFrozen
  <1>2. PauseInv /\ [Next]_vars => PauseInv'
    <2>1. ASSUME PauseInv, UNCHANGED vars
          PROVE  PauseInv'
      BY <2>1 DEF PauseInv, OnlyLiveLoops, Clean, PausedMeansFrozen, TypeOK, vars, memory, history
    <2>2. ASSUME PauseInv, Next
          PROVE  PauseInv'
      BY <2>2, NextType, LoopsStayLive, ControlsPause, DevicesPause, ClockworkPause, FailuresPause
         DEF PauseInv, Next
    <2> QED  BY <2>1, <2>2
  <1>3. PauseInv => PausedMeansFrozen
    BY DEF PauseInv
  <1> QED  BY <1>1, <1>2, <1>3, PTL DEF Spec

-----------------------------------------------------------------------------
(* The session implements RoundLifecycle.  That takes two facts the type    *)
(* does not give: a live game opens no review of a round, and nothing else  *)
(* has a loop, so the end a tick finds comes out of an open round.          *)

NoReviews == Live => session.phase \notin WindowPhases

RefineInv == TypeOK /\ OnlyLiveLoops /\ NoReviews

\* Another session in the same round of the same game, in the same phase.
Alongside(s, t) == t.phase = s.phase /\ t.round = s.round /\ t.runId = s.runId

Step == [Lifecycle!Next]_(Lifecycle!lifecycle)

LEMMA StageOf ==
  ASSUME session.phase \in Phases \cup {"absent"}
  PROVE  /\ session.phase = "absent" => Stage = "none"
         /\ session.phase = "collecting" => Stage = "answering"
         /\ session.phase = "leaderboard" => Stage = "scored"
         /\ session.phase = "complete" => Stage = "over"
         /\ session.phase \in {"guessing", "disputing", "voting"} => Stage = session.phase
         /\ session.phase # "absent" => Stage # "none"
  BY DEF Stage, Phases, WindowPhases

LEMMA StageThen ==
  ASSUME session'.phase \in Phases \cup {"absent"}
  PROVE  /\ session'.phase = "absent" => Stage' = "none"
         /\ session'.phase = "collecting" => Stage' = "answering"
         /\ session'.phase = "leaderboard" => Stage' = "scored"
         /\ session'.phase = "complete" => Stage' = "over"
         /\ session'.phase \in {"guessing", "disputing", "voting"} => Stage' = session'.phase
  BY DEF Stage, Phases, WindowPhases

\* What leaves the round alone may at most hold the table or let it go.
LEMMA AlongsideHolds ==
  ASSUME Alongside(session, session'), session.phase # "absent",
         session.phase \in Phases \cup {"absent"}, session'.paused \in BOOLEAN
  PROVE  Step
  <1>1. Stage' = Stage /\ Stage # "none"
    BY StageOf DEF Alongside, Stage
  <1>2. CASE session'.paused = session.paused
    BY <1>1, <1>2 DEF Step, Alongside, Lifecycle!lifecycle
  <1>3. CASE session'.paused # session.paused
    <2>1. Lifecycle!Hold
      BY <1>1, <1>3 DEF Alongside, Lifecycle!Hold
    <2> QED  BY <2>1 DEF Step, Lifecycle!Next
  <1> QED  BY <1>2, <1>3

LEMMA StaysStep ==
  ASSUME session' = session
  PROVE  Step
  BY DEF Step, Lifecycle!lifecycle, Stage

-----------------------------------------------------------------------------
(* What the helpers do to the round.                                        *)

LEMMA FreezeAlongside ==
  ASSUME NEW s \in SessionType
  PROVE  LET t == FreezeWindow(FreezeMoveWindow(s)) IN Alongside(s, t) /\ t.paused = s.paused
  <1> DEFINE f == FreezeMoveWindow(s)
             g == FreezeWindow(f)
  <1>1. f \in SessionType /\ Alongside(s, f) /\ f.paused = s.paused
    BY DEF FreezeMoveWindow, SessionType, TimeLeft, None, Alongside
  <1> HIDE DEF f
  <1>2. Alongside(f, g) /\ g.paused = f.paused
    BY <1>1 DEF FreezeWindow, SessionType, Alongside
  <1>3. Alongside(s, g) /\ g.paused = s.paused
    BY <1>1, <1>2 DEF Alongside
  <1> QED  BY <1>3 DEF f

LEMMA ResumeAlongside ==
  ASSUME NEW s \in SessionType
  PROVE  /\ Alongside(s, ResumeMoveWindow(s)) /\ ResumeMoveWindow(s).paused = s.paused
         /\ Alongside(s, ResumeWindow(s)) /\ ResumeWindow(s).paused = s.paused
  <1>1. Alongside(s, ResumeMoveWindow(s)) /\ ResumeMoveWindow(s).paused = s.paused
    BY DEF ResumeMoveWindow, SessionType, Alongside
  <1> DEFINE cleared == [s EXCEPT !.windowRemaining = None]
             ms == Default(s.windowRemaining, WindowMsFor(s.phase))
  <1>2. cleared \in SessionType /\ Alongside(s, cleared) /\ cleared.paused = s.paused
    BY DEF SessionType, TimeLeft, None, Alongside
  <1> HIDE DEF cleared, ms
  <1>3. Alongside(cleared, ArmWindow(cleared, ms)) /\ ArmWindow(cleared, ms).paused = cleared.paused
    BY <1>2 DEF ArmWindow, SessionType, Alongside
  <1>4. ResumeWindow(s) = ArmWindow(cleared, ms)
    BY DEF ResumeWindow, cleared, ms
  <1> QED  BY <1>1, <1>2, <1>3, <1>4 DEF Alongside

LEMMA FreshRound ==
  ASSUME NEW s \in SessionType, NEW w \in MoveWindows
  PROVE  LET t == StartRoundInto(s, w)
         IN  t.phase = "collecting" /\ t.round = s.round /\ t.runId = s.runId /\ t.paused = s.paused
  BY DEF StartRoundInto, SessionType

LEMMA EnterRound ==
  ASSUME NEW s \in SessionType, NEW phase \in WindowPhases
  PROVE  LET t == Enter(s, phase)
         IN  t.phase = phase /\ t.round = s.round /\ t.runId = s.runId /\ t.paused = s.paused
  <1> DEFINE e == [s EXCEPT !.phase = phase]
  <1>1. e \in SessionType /\ e.phase = phase /\ e.round = s.round /\ e.runId = s.runId /\ e.paused = s.paused
    BY DEF SessionType, Phases
  <1> HIDE DEF e
  <1>2. LET t == ArmWindow(e, WindowMsFor(phase))
        IN  t.phase = e.phase /\ t.round = e.round /\ t.runId = e.runId /\ t.paused = e.paused
    BY <1>1 DEF ArmWindow, SessionType
  <1>3. Enter(s, phase) = ArmWindow(e, WindowMsFor(phase))
    BY DEF Enter, e
  <1> QED  BY <1>1, <1>2, <1>3

-----------------------------------------------------------------------------
(* An advance takes a round one stage on.                                   *)

LEMMA PlayStep ==
  ASSUME ~session.paused, session'.paused = session.paused, session'.runId = session.runId,
         \/ /\ Lifecycle!Vote \/ Lifecycle!Score \/ Lifecycle!Finish
               \/ \E s \in {"guessing", "disputing"} : Lifecycle!Review(s)
            /\ session'.round = session.round
         \/ Lifecycle!NextRound
  PROVE  Step
  <1>1. Lifecycle!Play
    BY DEF Lifecycle!Play
  <1> QED  BY <1>1 DEF Step, Lifecycle!Next

LEMMA AdvanceStep ==
  ASSUME RefineInv, session.phase # "absent", ~session.paused, NEW s \in Advanced(session), session' = s
  PROVE  Step /\ NoReviews'
  <1>0. session \in SessionType /\ session' \in SessionType
    BY AdvancedType DEF RefineInv, TypeOK
  <1> DEFINE Within == /\ session'.round = session.round /\ session'.runId = session.runId
                       /\ session'.paused = session.paused
  <1>1. CASE session.phase = "collecting" /\ Live
    <2>1. session' = [session EXCEPT !.phase = "complete"]
      BY <1>1 DEF Advanced, EndGame
    <2>2. Within /\ session'.phase = "complete"
      BY <1>0, <2>1 DEF SessionType
    <2>3. Lifecycle!Finish
      BY <1>0, <1>1, <2>2, StageOf, StageThen DEF SessionType, Lifecycle!Finish
    <2> QED  BY <2>2, <2>3, PlayStep DEF NoReviews, WindowPhases
  <1>2. CASE session.phase = "collecting" /\ ~Live
    <2> DEFINE q == [session EXCEPT !.moveDeadline = None, !.moveRemaining = None, !.acted = {}]
    <2>1. /\ q \in SessionType
          /\ q.round = session.round /\ q.runId = session.runId /\ q.paused = session.paused
      BY <1>0 DEF SessionType, TimeLeft, None
    <2>2. PICK phase \in Reveals : session' = Enter(q, phase)
      BY <1>2 DEF Advanced, Reveal
    <2> HIDE DEF q
    <2>3. phase \in {"guessing", "disputing"} /\ phase \in WindowPhases
      BY DEF WindowPhases
    <2>4. Within /\ session'.phase = phase
      BY <2>1, <2>2, <2>3, EnterRound
    <2>5. Lifecycle!Review(phase)
      BY <1>0, <1>2, <2>3, <2>4, StageOf, StageThen DEF SessionType, Lifecycle!Review
    <2> QED  BY <1>2, <2>3, <2>4, <2>5, PlayStep DEF NoReviews
  <1>3. CASE session.phase \in {"guessing", "disputing", "voting"} /\ s = FinalizeRound(session)
    <2>1. Within /\ session'.phase = "leaderboard"
      BY <1>0, <1>3, EnterRound DEF FinalizeRound, WindowPhases
    <2>2. Lifecycle!Score
      BY <1>0, <1>3, <2>1, StageOf, StageThen DEF SessionType, Lifecycle!Score
    <2> QED  BY <1>3, <2>1, <2>2, PlayStep DEF NoReviews, RefineInv, WindowPhases
  <1>4. CASE session.phase = "disputing" /\ s = Enter(session, "voting")
    <2>1. Within /\ session'.phase = "voting"
      BY <1>0, <1>4, EnterRound DEF WindowPhases
    <2>2. Lifecycle!Vote
      BY <1>0, <1>4, <2>1, StageOf, StageThen DEF SessionType, Lifecycle!Vote
    <2> QED  BY <1>4, <2>1, <2>2, PlayStep DEF NoReviews, RefineInv, WindowPhases
  <1>5. CASE session.phase = "leaderboard" /\ s = EndGame(session)
    <2>1. Within /\ session'.phase = "complete"
      BY <1>0, <1>5 DEF EndGame, SessionType
    <2>2. Lifecycle!Finish
      BY <1>0, <1>5, <2>1, StageOf, StageThen DEF SessionType, Lifecycle!Finish
    <2> QED  BY <2>1, <2>2, PlayStep DEF NoReviews, WindowPhases
  <1>6. CASE session.phase = "leaderboard" /\ session.round < Rounds /\ s \in NextRound(session)
    <2> DEFINE q == [session EXCEPT !.round = @ + 1]
    <2>1. /\ q \in SessionType
          /\ q.round = session.round + 1 /\ q.runId = session.runId /\ q.paused = session.paused
      BY <1>0 DEF SessionType
    <2>2. PICK w \in MoveWindows : session' = StartRoundInto(q, w)
      BY <1>6 DEF NextRound
    <2> HIDE DEF q
    <2>3. /\ session'.round = session.round + 1 /\ session'.runId = session.runId
          /\ session'.paused = session.paused /\ session'.phase = "collecting"
      BY <2>1, <2>2, FreshRound
    <2>4. Lifecycle!NextRound
      BY <1>0, <1>6, <2>3, StageOf, StageThen DEF SessionType, Lifecycle!NextRound
    <2> QED  BY <2>3, <2>4, PlayStep DEF NoReviews, WindowPhases
  <1>7. CASE session.phase = "complete"
    <2>1. session' = session
      BY <1>7 DEF Advanced
    <2> QED  BY <2>1, StaysStep DEF NoReviews, RefineInv
  <1>8. CASE session.phase = "disputing"
    <2>1. s \in {FinalizeRound(session), Enter(session, "voting")}
      BY <1>8, SMTT(20) DEF Advanced
    <2> QED  BY <1>3, <1>4, <1>8, <2>1
  <1>9. CASE session.phase = "leaderboard"
    <2>1. s \in {EndGame(session)} \cup (IF session.round < Rounds THEN NextRound(session) ELSE {})
      BY <1>9, SMTT(20) DEF Advanced
    <2> QED  BY <1>5, <1>6, <1>9, <2>1
  <1>10. CASE session.phase \in {"guessing", "voting"}
    <2>1. s \in {FinalizeRound(session)}
      BY <1>10, SMTT(20) DEF Advanced
    <2> QED  BY <1>3, <1>10, <2>1
  <1> QED  BY <1>0, <1>1, <1>2, <1>7, <1>8, <1>9, <1>10 DEF SessionType, Phases, WindowPhases

LEMMA AdvanceLockedStep ==
  ASSUME RefineInv, session.phase # "absent", ~session.paused, NEW pending, AdvanceLocked(pending)
  PROVE  Step /\ NoReviews'
  <1>1. PICK s \in Advanced(session) : session' = s
    BY Zenon DEF AdvanceLocked
  <1> QED  BY <1>1, AdvanceStep

-----------------------------------------------------------------------------
(* Every step of the engine is one of the lifecycle, or none.               *)

\* Most operations leave the round where it is.
LEMMA AlongsideStep ==
  ASSUME RefineInv, TypeOK', session.phase # "absent", Alongside(session, session')
  PROVE  Step /\ NoReviews'
  <1>1. Step
    BY AlongsideHolds DEF RefineInv, TypeOK, SessionType
  <1> QED  BY <1>1 DEF RefineInv, NoReviews, Alongside

LEMMA StaysPut ==
  ASSUME RefineInv, session' = session
  PROVE  Step /\ NoReviews'
  BY StaysStep DEF RefineInv, NoReviews

LEMMA LeavesStep ==
  ASSUME RefineInv, session.phase # "absent", session' = NoSession
  PROVE  Step /\ NoReviews'
  <1>1. /\ session'.phase = "absent" /\ session'.round = 0 /\ session'.runId = 0
        /\ session'.paused = FALSE
    BY DEF NoSession
  <1>2. Lifecycle!Leave
    BY <1>1, StageOf, StageThen DEF RefineInv, TypeOK, SessionType, Lifecycle!Leave
  <1> QED  BY <1>1, <1>2 DEF Step, Lifecycle!Next, NoReviews, WindowPhases

LEMMA OpensAt ==
  ASSUME NEW s \in SessionType, OpenFirstRound(s)
  PROVE  /\ session'.phase = "collecting" /\ session'.round = s.round
         /\ session'.runId = s.runId /\ session'.paused = s.paused
  <1>1. PICK w \in MoveWindows : session' = StartRoundInto(s, w)
    BY DEF OpenFirstRound
  <1> QED  BY <1>1, FreshRound

LEMMA ControlsStep ==
  ASSUME RefineInv, TypeOK', Controls
  PROVE  Step /\ NoReviews'
  <1>0. session \in SessionType /\ session.phase \in Phases \cup {"absent"}
    BY DEF RefineInv, TypeOK, SessionType
  <1>1. CASE Start
    <2> DEFINE s == [NoSession EXCEPT !.runId = 1, !.round = 1]
    <2>1. s \in SessionType /\ ~s.paused /\ s.runId = 1 /\ s.round = 1
      BY NoSessionType DEF SessionType, NoSession
    <2> HIDE DEF s
    <2>2. OpenFirstRound(s)
      BY <1>1 DEF Start, s
    <2>3. /\ session'.phase = "collecting" /\ session'.round = 1 /\ session'.runId = 1
          /\ session'.paused = FALSE
      BY <2>1, <2>2, OpensAt DEF SessionType
    <2>4. Stage \in {"none", "over"}
      BY <1>0, <1>1, StageOf DEF Start
    <2>5. Lifecycle!Begin
      BY <2>3, <2>4, StageThen DEF Lifecycle!Begin, Phases
    <2> QED  BY <2>3, <2>5 DEF Step, Lifecycle!Next, NoReviews, WindowPhases
  <1>2. CASE Restart
    <2> DEFINE s == NextRun(session)
    <2>1. s \in SessionType /\ s.paused = FALSE /\ s.runId = session.runId + 1 /\ s.round = 1
      BY <1>0, NextRunType DEF NextRun, SessionType
    <2> HIDE DEF s
    <2>2. OpenFirstRound(s)
      BY <1>2 DEF Restart, s
    <2>3. /\ session'.phase = "collecting" /\ session'.round = 1
          /\ session'.runId = session.runId + 1 /\ session'.paused = FALSE
      BY <2>1, <2>2, OpensAt
    <2>4. Stage # "none"
      BY <1>0, <1>2, StageOf DEF Restart
    <2>5. Lifecycle!PlayAgain
      BY <2>3, <2>4, StageThen DEF Lifecycle!PlayAgain, Phases
    <2> QED  BY <2>3, <2>5 DEF Step, Lifecycle!Next, NoReviews, WindowPhases
  <1>3. CASE Pause
    <2> DEFINE t == [session EXCEPT !.paused = TRUE]
    <2>1. t \in SessionType /\ Alongside(session, t)
      BY <1>0 DEF SessionType, Alongside
    <2>2. session.phase # "absent" /\ session' = FreezeWindow(FreezeMoveWindow(t))
      BY <1>3 DEF Pause
    <2> HIDE DEF t
    <2>3. Alongside(session, session')
      BY <2>1, <2>2, FreezeAlongside DEF Alongside
    <2> QED  BY <2>2, <2>3, AlongsideStep
  <1>4. CASE Unpause
    <2> DEFINE t == [session EXCEPT !.paused = FALSE]
    <2>1. t \in SessionType /\ Alongside(session, t)
      BY <1>0 DEF SessionType, Alongside
    <2>2. session.phase # "absent" /\ session' = ResumeMoveWindow(t)
      BY <1>4 DEF Unpause
    <2> HIDE DEF t
    <2>3. Alongside(session, session')
      BY <2>1, <2>2, ResumeAlongside DEF Alongside
    <2> QED  BY <2>2, <2>3, AlongsideStep
  <1>5. CASE HostAdvance
    BY <1>5, AdvanceLockedStep DEF HostAdvance
  <1>6. CASE Exit
    BY <1>6, LeavesStep DEF Exit
  <1> QED  BY <1>1, <1>2, <1>3, <1>4, <1>5, <1>6 DEF Controls

LEMMA DevicesStep ==
  ASSUME RefineInv, TypeOK', Devices
  PROVE  Step /\ NoReviews'
  <1>0. session \in SessionType
    BY DEF RefineInv, TypeOK
  <1>1. CASE HostReturns
    <2> DEFINE t == [session EXCEPT !.connected = @ \cup {Host}, !.paused = FALSE, !.hostPaused = FALSE]
    <2>1. t \in SessionType /\ Alongside(session, t)
      BY <1>0, <1>1 DEF HostReturns, SessionType, Alongside
    <2>2. /\ session.phase # "absent"
          /\ session' = IF t.phase \in WindowPhases THEN ResumeWindow(t) ELSE ResumeMoveWindow(t)
      BY <1>1 DEF HostReturns
    <2> HIDE DEF t
    <2>3. Alongside(session, session')
      BY <2>1, <2>2, ResumeAlongside DEF Alongside
    <2> QED  BY <2>2, <2>3, AlongsideStep
  <1>2. ASSUME NEW p \in Players, Join(p) \/ SubmitMove(p) \/ SubmitVote(p)
        PROVE  Step /\ NoReviews'
    <2>1. \/ session' = session
          \/ session' = [session EXCEPT !.connected = @ \cup {p}]
          \/ session' = [session EXCEPT !.acted = @ \cup {p}]
      BY <1>2, Zenon DEF Join, SubmitMove, SubmitVote
    <2>2. session.phase # "absent"
      BY <1>2 DEF Join, SubmitMove, SubmitVote
    <2>3. Alongside(session, session')
      BY <1>0, <2>1 DEF SessionType, Alongside
    <2> QED  BY <2>2, <2>3, AlongsideStep
  <1>3. ASSUME NEW p \in Players, Disconnect(p)
        PROVE  Step /\ NoReviews'
    <2> DEFINE s == [session EXCEPT !.connected = @ \ {p}]
               t == [s EXCEPT !.paused = TRUE, !.hostPaused = TRUE]
    <2>1. s \in SessionType /\ t \in SessionType /\ Alongside(session, s) /\ Alongside(session, t)
      BY <1>0 DEF SessionType, Alongside
    <2>2. \/ session' = FreezeWindow(FreezeMoveWindow(t))
          \/ session' = s
      BY <1>3, Zenon DEF Disconnect
    <2> HIDE DEF s, t
    <2>3. Alongside(session, session')
      BY <2>1, <2>2, FreezeAlongside DEF Alongside
    <2>4. session.phase # "absent"
      BY <1>3 DEF Disconnect
    <2> QED  BY <2>3, <2>4, AlongsideStep
  <1> QED  BY <1>1, <1>2, <1>3 DEF Devices

LEMMA ClockworkStep ==
  ASSUME RefineInv, TypeOK', Clockwork
  PROVE  Step /\ NoReviews'
  <1>0. session \in SessionType
    BY DEF RefineInv, TypeOK
  <1>1. CASE FireWindow \/ SimTick
    BY <1>1, StaysPut DEF FireWindow, SimTick
  <1>2. CASE SimOver
    <2>1. Live /\ session.phase \notin {"absent", "complete"} /\ ~session.paused
      BY <1>2 DEF SimOver, Simulating, RefineInv, OnlyLiveLoops
    <2>2. session.phase = "collecting"
      BY <1>0, <2>1 DEF RefineInv, NoReviews, SessionType, Phases
    <2>3. EndGame(session) \in Advanced(session)
      BY <2>1, <2>2 DEF Advanced
    <2> QED  BY <1>2, <2>1, <2>3, AdvanceStep DEF SimOver
  <1>3. CASE Expire
    BY <1>3, LeavesStep DEF Expire
  <1>4. CASE Tick
    <2>1. CASE session.phase = "absent"
      <3>1. session' = [session EXCEPT !.moveDeadline = Less(@), !.windowDeadline = Less(@)]
        BY <1>4 DEF Tick
      <3>2. Alongside(session, session') /\ session'.paused = session.paused
        BY <1>0, <3>1 DEF SessionType, Alongside
      <3>3. Step
        BY <3>2 DEF Step, Alongside, Stage, Lifecycle!lifecycle
      <3> QED  BY <2>1, <3>2, <3>3 DEF NoReviews, Alongside, WindowPhases
    <2>2. CASE session.phase # "absent"
      <3>1. Alongside(session, session')
        BY <1>0, <1>4 DEF Tick, SessionType, Alongside
      <3> QED  BY <2>2, <3>1, AlongsideStep
    <2> QED  BY <2>1, <2>2
  <1>5. ASSUME NEW t \in timers, RunTimer(t)
        PROVE  Step /\ NoReviews'
    <2>1. CASE session' = session
      BY <2>1, StaysPut
    <2>2. CASE ~Void(t) /\ AdvanceLocked(timers \ {t})
      <3>1. session.phase # "absent" /\ ~session.paused
        BY <2>2 DEF Void, StillCurrent, RefineInv, TypeOK, TimerType, Phases, WindowPhases
      <3> QED  BY <2>2, <3>1, AdvanceLockedStep
    <2> QED  BY <1>5, <2>1, <2>2 DEF RunTimer
  <1> QED  BY <1>1, <1>2, <1>3, <1>4, <1>5 DEF Clockwork

LEMMA FailuresStep ==
  ASSUME RefineInv, Failures
  PROVE  Step /\ NoReviews'
  <1>1. session' = session
    BY DEF Failures, Crash, SimTickFails, SimOverFails, HostAdvanceFails, RestartOrExitFails,
           HostReturnsFails, RunTimerFails, AdvanceFails
  <1> QED  BY <1>1, StaysPut

\* Every operation, callback and fault of engine.ts is a step of the lifecycle a table
\* was promised or leaves it alone: no round is skipped, scored twice or reviewed
\* before it was answered, nothing moves while the table is held, and a restart's
\* run is never an earlier one's.
THEOREM EngineImplementsLifecycle == Spec => PlaysTheLifecycle
  <1>1. Init => RefineInv /\ Lifecycle!Init
    <2> SUFFICES ASSUME Init PROVE RefineInv /\ Lifecycle!Init
      OBVIOUS
    <2>1. /\ session.phase = "absent" /\ session.round = 0 /\ session.runId = 0
          /\ session.paused = FALSE /\ ~simTimer
      BY DEF Init, NoSession
    <2>2. RefineInv
      BY <2>1, InitType DEF RefineInv, OnlyLiveLoops, NoReviews, WindowPhases
    <2>3. Lifecycle!Init
      BY <2>1, StageOf DEF Lifecycle!Init
    <2> QED  BY <2>2, <2>3
  <1>2. RefineInv /\ [Next]_vars => RefineInv' /\ Step
    <2>1. ASSUME RefineInv, UNCHANGED vars
          PROVE  RefineInv' /\ Step
      <3>1. session' = session /\ OnlyLiveLoops' /\ TypeOK'
        BY <2>1 DEF RefineInv, OnlyLiveLoops, TypeOK, vars, memory, history
      <3> QED  BY <2>1, <3>1, StaysPut DEF RefineInv
    <2>2. ASSUME RefineInv, Next
          PROVE  RefineInv' /\ Step
      <3>1. TypeOK' /\ OnlyLiveLoops'
        BY <2>2, NextType, LoopsStayLive DEF RefineInv
      <3>2. NoReviews' /\ Step
        BY <2>2, <3>1, ControlsStep, DevicesStep, ClockworkStep, FailuresStep DEF Next
      <3> QED  BY <3>1, <3>2 DEF RefineInv
    <2> QED  BY <2>1, <2>2
  <1> QED  BY <1>1, <1>2, PTL DEF Spec, PlaysTheLifecycle, Lifecycle!Spec, Step

-----------------------------------------------------------------------------
(* The live world runs.  A fault that stops the loop of a live game is the    *)
(* only thing that leaves an open, unpaused world without one.                *)

LiveInv == RefineInv /\ LiveWorldRuns

LEMMA LiveAdvances ==
  ASSUME LiveInv, NEW s \in Advanced(session), Live, session.phase # "absent"
  PROVE  s.phase = "complete"
  <1>1. session \in SessionType /\ session.phase \notin WindowPhases
    BY DEF LiveInv, RefineInv, TypeOK, NoReviews
  <1>2. session.phase = "collecting" \/ session.phase = "complete"
    BY <1>1 DEF SessionType, Phases
  <1>3. CASE session.phase = "collecting"
    <2>1. s = EndGame(session)
      BY <1>3 DEF Advanced
    <2> QED  BY <1>1, <2>1 DEF EndGame, SessionType
  <1>4. CASE session.phase = "complete"
    BY <1>4 DEF Advanced
  <1> QED  BY <1>2, <1>3, <1>4

LEMMA AdvanceLockedLive ==
  ASSUME LiveInv, session.phase # "absent", NEW pending, AdvanceLocked(pending)
  PROVE  LiveWorldRuns'
  <1>1. PICK s \in Advanced(session) : session' = s
    BY Zenon DEF AdvanceLocked
  <1> QED  BY <1>1, LiveAdvances DEF LiveWorldRuns

LEMMA ControlsLive ==
  ASSUME LiveInv, Controls
  PROVE  LiveWorldRuns'
  <1> USE DEF LiveWorldRuns
  <1>1. CASE Start \/ Unpause
    <2>1. simTimer' = (simTimer \/ Live)
      BY <1>1 DEF Start, Unpause, StartSimLoop
    <2> QED  BY <2>1
  <1>2. CASE Restart
    BY <1>2 DEF Restart
  <1>3. CASE Pause
    <2> DEFINE t == [session EXCEPT !.paused = TRUE]
    <2>1. t \in SessionType /\ t.paused
      BY DEF LiveInv, RefineInv, TypeOK, SessionType
    <2>2. session' = FreezeWindow(FreezeMoveWindow(t))
      BY <1>3 DEF Pause
    <2> HIDE DEF t
    <2>3. session'.paused
      BY <2>1, <2>2, FreezeAlongside
    <2> QED  BY <2>3
  <1>4. CASE HostAdvance
    BY <1>4, AdvanceLockedLive DEF HostAdvance
  <1>5. CASE Exit
    BY <1>5 DEF Exit, NoSession
  <1> QED  BY <1>1, <1>2, <1>3, <1>4, <1>5 DEF Controls

LEMMA DevicesLive ==
  ASSUME LiveInv, Devices
  PROVE  LiveWorldRuns'
  <1> USE DEF LiveWorldRuns
  <1>0. session \in SessionType
    BY DEF LiveInv, RefineInv, TypeOK
  <1>1. CASE HostReturns
    <2> DEFINE t == [session EXCEPT !.connected = @ \cup {Host}, !.paused = FALSE, !.hostPaused = FALSE]
    <2>1. t \in SessionType /\ t.phase = session.phase
      BY <1>0, <1>1 DEF HostReturns, SessionType
    <2>2. session' = IF t.phase \in WindowPhases THEN ResumeWindow(t) ELSE ResumeMoveWindow(t)
      BY <1>1 DEF HostReturns
    <2>3. session'.phase \notin WindowPhases => simTimer' = (simTimer \/ Live)
      BY <1>1, Zenon DEF HostReturns, StartSimLoop
    <2> HIDE DEF t
    <2>4. session'.phase = session.phase
      BY <2>1, <2>2, ResumeAlongside DEF Alongside
    <2> QED  BY <2>3, <2>4 DEF LiveInv, RefineInv, NoReviews
  <1>2. ASSUME NEW p \in Players, Join(p) \/ SubmitMove(p) \/ SubmitVote(p)
        PROVE  LiveWorldRuns'
    <2>1. \/ session' = session
          \/ session' = [session EXCEPT !.connected = @ \cup {p}]
          \/ session' = [session EXCEPT !.acted = @ \cup {p}]
      BY <1>2, Zenon DEF Join, SubmitMove, SubmitVote
    <2>2. UNCHANGED <<simTimer, halted>>
      BY <1>2 DEF Join, SubmitMove, SubmitVote, memory, history
    <2>3. session'.phase = session.phase /\ session'.paused = session.paused
      BY <1>0, <2>1 DEF SessionType
    <2> QED  BY <2>2, <2>3 DEF LiveInv
  <1>3. ASSUME NEW p \in Players, Disconnect(p)
        PROVE  LiveWorldRuns'
    <2> DEFINE s == [session EXCEPT !.connected = @ \ {p}]
               t == [s EXCEPT !.paused = TRUE, !.hostPaused = TRUE]
    <2>1. t \in SessionType /\ t.paused /\ s.phase = session.phase /\ s.paused = session.paused
      BY <1>0 DEF SessionType
    <2>2. \/ session' = FreezeWindow(FreezeMoveWindow(t))
          \/ session' = s /\ UNCHANGED <<simTimer, halted>>
      BY <1>3, Zenon DEF Disconnect, history
    <2> HIDE DEF s, t
    <2>3. CASE session' = FreezeWindow(FreezeMoveWindow(t))
      BY <2>1, <2>3, FreezeAlongside
    <2>4. CASE session' = s /\ UNCHANGED <<simTimer, halted>>
      BY <2>1, <2>4 DEF LiveInv
    <2> QED  BY <2>2, <2>3, <2>4
  <1> QED  BY <1>1, <1>2, <1>3 DEF Devices

LEMMA ClockworkLive ==
  ASSUME LiveInv, Clockwork
  PROVE  LiveWorldRuns'
  <1> USE DEF LiveWorldRuns
  <1>0. session \in SessionType /\ timers \subseteq TimerType
    BY DEF LiveInv, RefineInv, TypeOK
  <1>1. ASSUME UNCHANGED <<session, simTimer, halted>>
        PROVE  LiveWorldRuns'
    BY <1>1 DEF LiveInv
  <1>2. CASE FireWindow \/ SimTick
    BY <1>1, <1>2 DEF FireWindow, SimTick, history
  <1>3. CASE SimOver
    BY <1>0, <1>3 DEF SimOver, EndGame, SessionType
  <1>4. CASE Expire
    BY <1>4 DEF Expire, NoSession
  <1>5. CASE Tick
    <2>1. session'.phase = session.phase /\ session'.paused = session.paused
      BY <1>0, <1>5 DEF Tick, SessionType
    <2> QED  BY <1>5, <2>1 DEF Tick, LiveInv
  <1>6. ASSUME NEW t \in timers, RunTimer(t)
        PROVE  LiveWorldRuns'
    <2>1. CASE UNCHANGED <<session, windowTimer, simTimer, simFailures, worker, history>>
      BY <1>1, <2>1 DEF history
    <2>2. CASE ~Void(t) /\ AdvanceLocked(timers \ {t})
      <3>1. session.phase # "absent"
        BY <1>0, <2>2 DEF Void, StillCurrent, TimerType, Phases, WindowPhases
      <3> QED  BY <2>2, <3>1, AdvanceLockedLive
    <2> QED  BY <1>6, <2>1, <2>2 DEF RunTimer
  <1> QED  BY <1>2, <1>3, <1>4, <1>5, <1>6 DEF Clockwork

LEMMA FailuresLive ==
  ASSUME LiveInv, Failures
  PROVE  LiveWorldRuns'
  <1>1. session' = session
    BY DEF Failures, Crash, SimTickFails, SimOverFails, HostAdvanceFails, RestartOrExitFails,
           HostReturnsFails, RunTimerFails, AdvanceFails
  <1>2. ASSUME NEW pending, AdvanceFails(pending)
        PROVE  simTimer /\ ~simTimer' => halted'
    BY <1>2 DEF AdvanceFails, LiveInv, RefineInv, TypeOK
  <1>3. Live /\ simTimer /\ ~simTimer' => halted'
    BY <1>2 DEF Failures, Crash, SimTickFails, SimOverFails, HostAdvanceFails, RestartOrExitFails,
                HostReturnsFails, RunTimerFails
  <1>4. ASSUME NEW pending, AdvanceFails(pending)
        PROVE  halted => halted'
    BY <1>4 DEF AdvanceFails
  <1>5. Live /\ halted => halted'
    BY <1>4 DEF Failures, Crash, SimTickFails, SimOverFails, HostAdvanceFails, RestartOrExitFails,
                HostReturnsFails, RunTimerFails, history
  <1> QED  BY <1>1, <1>3, <1>5 DEF LiveInv, LiveWorldRuns

\* Whoever drops, returns, pauses or restarts, the world of an open live game is
\* stepped: startSimLoop is called wherever stopSimLoop may have been, and only a
\* crash, a worker or an advance that rejects leaves it standing (engine.ts, spec 0044).
THEOREM LiveWorldsAreStepped == Spec => []LiveWorldRuns
  <1>1. Init => LiveInv
    <2> SUFFICES ASSUME Init PROVE LiveInv
      OBVIOUS
    <2>1. session.phase = "absent" /\ ~simTimer
      BY DEF Init, NoSession
    <2> QED  BY <2>1, InitType DEF LiveInv, RefineInv, OnlyLiveLoops, NoReviews, LiveWorldRuns, WindowPhases
  <1>2. LiveInv /\ [Next]_vars => LiveInv'
    <2>1. ASSUME LiveInv, UNCHANGED vars
          PROVE  LiveInv'
      BY <2>1 DEF LiveInv, RefineInv, LiveWorldRuns, OnlyLiveLoops, NoReviews, TypeOK, vars, memory, history
    <2>2. ASSUME LiveInv, Next
          PROVE  LiveInv'
      <3>1. TypeOK' /\ OnlyLiveLoops'
        BY <2>2, NextType, LoopsStayLive DEF LiveInv, RefineInv
      <3>2. NoReviews'
        BY <2>2, <3>1, ControlsStep, DevicesStep, ClockworkStep, FailuresStep DEF Next, LiveInv
      <3>3. LiveWorldRuns'
        BY <2>2, ControlsLive, DevicesLive, ClockworkLive, FailuresLive DEF Next
      <3> QED  BY <3>1, <3>2, <3>3 DEF LiveInv, RefineInv
    <2> QED  BY <2>1, <2>2
  <1>3. LiveInv => LiveWorldRuns
    BY DEF LiveInv
  <1> QED  BY <1>1, <1>2, <1>3, PTL DEF Spec

-----------------------------------------------------------------------------
(* Countdowns.  What the devices are shown is backed by a callback: each      *)
(* operation that moves a deadline arms one for it, and the only callback     *)
(* that is dropped without one of its own is a void one.  What makes this     *)
(* inductive is that a paused session has no deadline for a resume to bring   *)
(* back, and that no phase is entered with a complete table.                  *)

\* A callback for the answer round, or for the window, of session s.
Expires(t, s) == t.phase = s.phase /\ t.round = s.round /\ t.runId = s.runId
MoveBacked(s, pending) ==
    s.phase = "collecting" /\ s.moveWindow > 0 /\ ~Live =>
        \E t \in pending : t.kind = "move" /\ Expires(t, s) /\ t.left <= s.moveDeadline
WindowBacked(s, pending) ==
    s.phase \in WindowPhases /\ s.windowDeadline # None =>
        \E t \in pending :
            t # NoTimer /\ t.kind = "window" /\ Expires(t, s) /\ t.left <= s.windowDeadline

Backed(s, pending, window) ==
    s.paused \/ (MoveBacked(s, pending) /\ WindowBacked(s, pending \cup {window}))

\* The grace timer of a complete table.
GraceBacked(s, pending) ==
    Closable(s) => \E t \in pending : t.kind = "auto" /\ Expires(t, s)

LEMMA ArmedMoveBacks ==
  ASSUME NEW s \in SessionType, ~s.paused, NEW pending,
         s.moveDeadline \in Nat, ArmMoveWindow(s, s.moveDeadline) \subseteq pending
  PROVE  MoveBacked(s, pending)
  <1> SUFFICES ASSUME s.moveWindow > 0
               PROVE  MoveBacked(s, pending)
    BY DEF MoveBacked
  <1> DEFINE t == Timer("move", s, s.moveDeadline)
  <1>1. t \in pending
    <2>1. ~(s.paused \/ s.moveWindow <= 0)
      BY DEF SessionType
    <2> QED  BY <2>1 DEF ArmMoveWindow
  <1>2. t.kind = "move" /\ Expires(t, s) /\ t.left = s.moveDeadline
    BY DEF Timer, Expires
  <1> HIDE DEF t
  <1> QED  BY <1>1, <1>2 DEF MoveBacked

LEMMA ArmedWindowBacks ==
  ASSUME NEW s \in SessionType, NEW pending, WindowTimerFor(s) \in pending
  PROVE  WindowBacked(s, pending)
  <1> SUFFICES ASSUME s.windowDeadline # None
               PROVE  WindowBacked(s, pending)
    BY DEF WindowBacked
  <1> DEFINE t == Timer("window", s, s.windowDeadline)
  <1>1. t \in pending
    BY DEF WindowTimerFor
  <1>2. t.kind = "window" /\ Expires(t, s) /\ t.left = s.windowDeadline
    BY DEF Timer, Expires
  <1>3. t # NoTimer /\ s.windowDeadline \in Nat
    BY <1>2 DEF NoTimer, SessionType, TimeLeft
  <1> HIDE DEF t
  <1> QED  BY <1>1, <1>2, <1>3 DEF WindowBacked

\* More callbacks do no harm, nor does what else happens to the session.
LEMMA StaysBacked ==
  ASSUME NEW s, NEW t, NEW pending, NEW more, NEW window,
         Backed(s, pending, window), pending \subseteq more,
         t.phase = s.phase, t.round = s.round, t.runId = s.runId, t.paused = s.paused,
         t.moveWindow = s.moveWindow, t.moveDeadline = s.moveDeadline,
         t.windowDeadline = s.windowDeadline
  PROVE  Backed(t, more, window)
  <1>1. s.paused \/ MoveBacked(s, pending)
    BY DEF Backed
  <1>2. s.paused \/ MoveBacked(t, more)
    BY <1>1 DEF MoveBacked, Expires
  <1>3. s.paused \/ WindowBacked(s, pending \cup {window})
    BY DEF Backed
  <1>4. s.paused \/ WindowBacked(t, more \cup {window})
    BY <1>3 DEF WindowBacked, Expires
  <1> QED  BY <1>2, <1>4 DEF Backed

LEMMA FreshBacked ==
  ASSUME NEW s \in SessionType, NEW w \in MoveWindows, ~s.paused, NEW pending, NEW window, NEW n,
         \/ TimersOf(StartRoundInto(s, w)) \subseteq pending
         \/ {[t EXCEPT !.run = n] : t \in TimersOf(StartRoundInto(s, w))} \subseteq pending
  PROVE  Backed(StartRoundInto(s, w), pending, window)
  <1> DEFINE r == StartRoundInto(s, w)
             due == IF ~Live /\ w > 0 THEN w ELSE None
             t == Timer("move", r, r.moveWindow)
             u == [t EXCEPT !.run = n]
  <1>1. r \in SessionType /\ r.phase = "collecting"
    BY StartRoundType
  <1>2. r.moveWindow = w /\ ~r.paused /\ r.moveDeadline = due
    <2>1. r = [s EXCEPT !.phase = "collecting", !.acted = {},
                  !.windowDeadline = None, !.windowRemaining = None, !.moveRemaining = None,
                  !.moveWindow = w, !.moveDeadline = due]
      BY Zenon DEF StartRoundInto
    <2> HIDE DEF r, due
    <2> QED  BY <2>1 DEF SessionType
  <1>3. w \in Nat
    BY DEF MoveWindows
  <1>4. t.kind = "move" /\ Expires(t, r) /\ t.left = w
    BY <1>2 DEF Timer, Expires
  <1>5. u.kind = "move" /\ Expires(u, r) /\ u.left = w
    BY <1>2 DEF Timer, Expires
  <1>6. ASSUME w > 0, ~Live
        PROVE  (t \in pending \/ u \in pending) /\ r.moveDeadline = w
    <2>1. due = w
      BY <1>6
    <2>2. TimersOf(r) = {t}
      <3> HIDE DEF r
      <3> QED  BY <1>2, <1>3, <1>6, <2>1 DEF TimersOf, ArmMoveWindow, None
    <2> HIDE DEF t, r, due
    <2> QED  BY <1>2, <2>1, <2>2 DEF r
  <1> HIDE DEF r, due, t, u
  <1>7. MoveBacked(r, pending)
    BY <1>2, <1>3, <1>4, <1>5, <1>6 DEF MoveBacked
  <1>8. WindowBacked(r, pending \cup {window})
    BY <1>1 DEF WindowBacked, WindowPhases
  <1> QED  BY <1>7, <1>8 DEF Backed, r

\* Where an advance may take the session, by the phase it enters.
LEMMA Entered ==
  ASSUME session \in SessionType, session.phase # "absent", NEW s \in Advanced(session)
  PROVE  \/ s.phase \in WindowPhases
         \/ s.phase = "complete"
         \/ /\ session.phase = "leaderboard"
            /\ \E w \in MoveWindows : s = StartRoundInto([session EXCEPT !.round = @ + 1], w)
  <1>1. \A phase \in WindowPhases, t \in SessionType : Enter(t, phase).phase = phase
    BY EnterType
  <1>2. EndGame(session).phase = "complete"
    BY DEF EndGame, SessionType
  <1>3. CASE session.phase = "collecting"
    <2> DEFINE closed == [session EXCEPT !.moveDeadline = None, !.moveRemaining = None, !.acted = {}]
    <2>1. closed \in SessionType
      BY DEF SessionType, TimeLeft
    <2>2. s = EndGame(session) \/ \E phase \in Reveals : s = Enter(closed, phase)
      <3>1. CASE Live
        BY <1>3, <3>1, Zenon DEF Advanced
      <3>2. CASE ~Live
        BY <1>3, <3>2, Zenon DEF Advanced, Reveal
      <3> QED  BY <3>1, <3>2
    <2> HIDE DEF closed
    <2> QED  BY <1>1, <1>2, <2>1, <2>2 DEF WindowPhases
  <1>4. CASE session.phase = "complete"
    BY <1>4 DEF Advanced
  <1>5. CASE session.phase = "disputing"
    <2>1. Advanced(session) = {FinalizeRound(session), Enter(session, "voting")}
      BY <1>5, SMTT(20) DEF Advanced
    <2> QED  BY <1>1, <2>1 DEF FinalizeRound, WindowPhases
  <1>6. CASE session.phase = "leaderboard"
    <2>1. s \in {EndGame(session)} \cup (IF session.round < Rounds THEN NextRound(session) ELSE {})
      BY <1>6, SMTT(20) DEF Advanced
    <2>2. s = EndGame(session) \/ s \in NextRound(session)
      BY <2>1
    <2> QED  BY <1>2, <1>6, <2>2 DEF NextRound
  <1>7. CASE session.phase \in {"guessing", "voting"}
    <2>1. s \in {FinalizeRound(session)}
      BY <1>7, SMTT(20) DEF Advanced
    <2> QED  BY <1>1, <2>1 DEF FinalizeRound, WindowPhases
  <1> QED  BY <1>3, <1>4, <1>5, <1>6, <1>7 DEF SessionType, Phases, WindowPhases

LEMMA AdvanceLockedBacked ==
  ASSUME TypeOK, session.phase # "absent", ~session.paused, NEW pending, AdvanceLocked(pending)
  PROVE  Backed(session', timers', windowTimer')
  <1>1. PICK s \in Advanced(session) :
          /\ session' = s
          /\ timers' = pending \cup (IF s.phase = "collecting" THEN TimersOf(s) ELSE {})
          /\ windowTimer' = IF s.phase \in WindowPhases THEN WindowTimerFor(s)
                            ELSE IF s.phase = "collecting" THEN NoTimer ELSE windowTimer
    BY Zenon DEF AdvanceLocked
  <1>2. s \in SessionType
    BY AdvancedType DEF TypeOK
  <1>3. CASE s.phase \in WindowPhases
    <2>1. WindowBacked(s, timers' \cup {windowTimer'})
      BY <1>1, <1>2, <1>3, ArmedWindowBacks
    <2>2. MoveBacked(s, timers')
      BY <1>3 DEF MoveBacked, WindowPhases
    <2> QED  BY <1>1, <2>1, <2>2 DEF Backed
  <1>4. CASE s.phase = "complete"
    BY <1>1, <1>4 DEF Backed, MoveBacked, WindowBacked, WindowPhases
  <1>5. CASE session.phase = "leaderboard"
               /\ \E w \in MoveWindows : s = StartRoundInto([session EXCEPT !.round = @ + 1], w)
    <2> DEFINE next == [session EXCEPT !.round = @ + 1]
    <2>1. next \in SessionType /\ ~next.paused
      BY DEF SessionType, TypeOK
    <2>2. PICK w \in MoveWindows : s = StartRoundInto(next, w)
      BY <1>5
    <2> HIDE DEF next
    <2>3. s.phase = "collecting"
      BY <2>1, <2>2, StartRoundType
    <2>4. TimersOf(s) \subseteq timers'
      BY <1>1, <2>3
    <2> QED  BY <1>1, <2>1, <2>2, <2>4, FreshBacked
  <1> QED  BY <1>3, <1>4, <1>5, Entered DEF TypeOK

LEMMA OpenFirstRoundBacked ==
  ASSUME NEW s \in SessionType, ~s.paused, OpenFirstRound(s)
  PROVE  Backed(session', timers', windowTimer')
  <1>1. PICK w \in MoveWindows :
          /\ session' = StartRoundInto(s, w)
          /\ timers' = timers \cup {[t EXCEPT !.run = runs + 1] : t \in TimersOf(StartRoundInto(s, w))}
    BY DEF OpenFirstRound
  <1> QED  BY <1>1, FreshBacked

LEMMA ResumesBacked ==
  ASSUME NEW s \in SessionType, ~s.paused, s.phase \in Phases \ WindowPhases,
         NEW pending, ResumeMoveTimers(ResumeMoveWindow(s)) \subseteq pending, NEW window
  PROVE  Backed(ResumeMoveWindow(s), pending, window)
  <1> DEFINE r == ResumeMoveWindow(s)
  <1>1. r \in SessionType /\ r.phase = s.phase /\ r.moveWindow = s.moveWindow /\ ~r.paused
    BY ResumeMoveType, ResumeAlongside
  <1>2. WindowBacked(r, pending \cup {window})
    BY <1>1 DEF WindowBacked
  <1>3. MoveBacked(r, pending)
    <2>1. CASE s.phase = "collecting" /\ s.moveWindow > 0
      <3>1. r.moveDeadline \in Nat
        BY <2>1, ResumeMoveType
      <3>2. ArmMoveWindow(r, r.moveDeadline) \subseteq pending
        BY <1>1, <2>1 DEF ResumeMoveTimers
      <3> HIDE DEF r
      <3> QED  BY <1>1, <3>1, <3>2, ArmedMoveBacks
    <2>2. CASE ~(s.phase = "collecting" /\ s.moveWindow > 0)
      BY <1>1, <2>2 DEF MoveBacked
    <2> QED  BY <2>1, <2>2
  <1> QED  BY <1>2, <1>3 DEF Backed

NoFrozenWindow == session.paused => session.windowDeadline = None

CountInv ==
    /\ TypeOK /\ Grants(session, owed) /\ NoFrozenWindow
    /\ "untimed" \in lapses \/ Backed(session, timers, windowTimer)
    /\ "unnoticed" \in lapses \/ GraceBacked(session, timers)

LEMMA ControlsBacked ==
  ASSUME TypeOK, NoFrozenWindow, Controls
  PROVE  Backed(session', timers', windowTimer')
  <1> USE DEF TypeOK
  <1>1. CASE Start
    <2> DEFINE s == [NoSession EXCEPT !.runId = 1, !.round = 1]
    <2>1. s \in SessionType /\ ~s.paused
      BY NoSessionType DEF SessionType, NoSession
    <2> HIDE DEF s
    <2> QED  BY <1>1, <2>1, OpenFirstRoundBacked DEF Start, s
  <1>2. CASE Restart
    <2>1. NextRun(session) \in SessionType /\ ~NextRun(session).paused
      BY NextRunType DEF NextRun, SessionType
    <2> QED  BY <1>2, <2>1, OpenFirstRoundBacked DEF Restart
  <1>3. CASE Pause
    <2> DEFINE t == [session EXCEPT !.paused = TRUE]
    <2>1. t \in SessionType /\ t.paused
      BY DEF SessionType
    <2>2. session' = FreezeWindow(FreezeMoveWindow(t))
      BY <1>3 DEF Pause
    <2> HIDE DEF t
    <2>3. session'.paused
      BY <2>1, <2>2, FreezeAlongside
    <2> QED  BY <2>3 DEF Backed
  <1>4. CASE Unpause
    <2> DEFINE t == [session EXCEPT !.paused = FALSE]
    <2>1. /\ t \in SessionType /\ ~t.paused /\ t.phase \in Phases
          /\ t.windowDeadline = session.windowDeadline
      BY <1>4 DEF Unpause, SessionType
    <2>2. session' = ResumeMoveWindow(t) /\ ResumeMoveTimers(ResumeMoveWindow(t)) \subseteq timers'
      BY <1>4 DEF Unpause
    <2>3. t.windowDeadline = None
      BY <1>4, <2>1 DEF Unpause, NoFrozenWindow
    <2> HIDE DEF t
    <2>4. CASE t.phase \notin WindowPhases
      BY <2>1, <2>2, <2>4, ResumesBacked
    <2>5. CASE t.phase \in WindowPhases
      <3>1. session' = t
        BY <2>2, <2>5 DEF ResumeMoveWindow, WindowPhases
      <3> QED  BY <2>3, <2>5, <3>1 DEF Backed, MoveBacked, WindowBacked, WindowPhases
    <2> QED  BY <2>4, <2>5
  <1>5. CASE HostAdvance
    BY <1>5, AdvanceLockedBacked DEF HostAdvance
  <1>6. CASE Exit
    BY <1>6 DEF Exit, NoSession, Backed, MoveBacked, WindowBacked, WindowPhases
  <1> QED  BY <1>1, <1>2, <1>3, <1>4, <1>5, <1>6 DEF Controls

LEMMA HostReturnsBacked ==
  ASSUME TypeOK, HostReturns
  PROVE  Backed(session', timers', windowTimer')
  <1> USE DEF TypeOK
  <1> DEFINE t == [session EXCEPT !.connected = @ \cup {Host}, !.paused = FALSE, !.hostPaused = FALSE]
             r == IF t.phase \in WindowPhases THEN ResumeWindow(t) ELSE ResumeMoveWindow(t)
  <1>1. t \in SessionType /\ ~t.paused /\ t.phase \in Phases
    BY DEF HostReturns, SessionType
  <1>2. /\ session' = r
        /\ ResumeMoveTimers(r) \subseteq timers'
        /\ r.phase \in WindowPhases => windowTimer' = WindowTimerFor(r)
    BY Zenon DEF HostReturns
  <1> HIDE DEF t
  <1>3. CASE t.phase \in WindowPhases
    <2>1. r \in SessionType /\ r.phase = t.phase
      BY <1>1, <1>3, ResumeWindowType
    <2>2. WindowBacked(r, timers' \cup {windowTimer'})
      <3> HIDE DEF r
      <3> QED  BY <1>2, <1>3, <2>1, ArmedWindowBacks
    <2>3. MoveBacked(r, timers')
      <3> HIDE DEF r
      <3> QED  BY <1>3, <2>1 DEF MoveBacked, WindowPhases
    <2> QED  BY <1>2, <2>2, <2>3 DEF Backed
  <1>4. CASE t.phase \notin WindowPhases
    BY <1>1, <1>2, <1>4, ResumesBacked
  <1> QED  BY <1>3, <1>4

LEMMA DevicesBacked ==
  ASSUME TypeOK, Backed(session, timers, windowTimer), Devices
  PROVE  Backed(session', timers', windowTimer')
  <1> USE DEF TypeOK
  <1>1. CASE HostReturns
    BY <1>1, HostReturnsBacked
  <1>2. ASSUME NEW p \in Players, Join(p) \/ SubmitMove(p) \/ SubmitVote(p)
        PROVE  Backed(session', timers', windowTimer')
    <2>1. \/ session' = session
          \/ session' = [session EXCEPT !.connected = @ \cup {p}]
          \/ session' = [session EXCEPT !.acted = @ \cup {p}]
      BY <1>2, Zenon DEF Join, SubmitMove, SubmitVote
    <2>2. timers \subseteq timers' /\ windowTimer' = windowTimer
      <3>1. CASE Join(p)
        BY <3>1 DEF Join, memory
      <3>2. CASE SubmitMove(p)
        <4>1. windowTimer' = windowTimer
          BY <3>2 DEF SubmitMove
        <4>2. (\E x : timers' = timers \cup x) \/ timers' = timers
          BY <3>2 DEF SubmitMove
        <4> QED  BY <4>1, <4>2
      <3>3. CASE SubmitVote(p)
        <4>1. windowTimer' = windowTimer
          BY <3>3 DEF SubmitVote
        <4>2. (\E x : timers' = timers \cup x) \/ timers' = timers
          BY <3>3 DEF SubmitVote
        <4> QED  BY <4>1, <4>2
      <3> QED  BY <1>2, <3>1, <3>2, <3>3
    <2>3. /\ Alongside(session, session') /\ session'.paused = session.paused
          /\ session'.moveWindow = session.moveWindow /\ session'.moveDeadline = session.moveDeadline
          /\ session'.windowDeadline = session.windowDeadline
      BY <2>1 DEF SessionType, Alongside
    <2> QED  BY <2>2, <2>3, StaysBacked DEF Alongside
  <1>3. ASSUME NEW p \in Players, Disconnect(p)
        PROVE  Backed(session', timers', windowTimer')
    <2> DEFINE s == [session EXCEPT !.connected = @ \ {p}]
               t == [s EXCEPT !.paused = TRUE, !.hostPaused = TRUE]
    <2>1. /\ t \in SessionType /\ t.paused
          /\ Alongside(session, s) /\ s.paused = session.paused
          /\ s.moveWindow = session.moveWindow /\ s.moveDeadline = session.moveDeadline
          /\ s.windowDeadline = session.windowDeadline
      BY DEF SessionType, Alongside
    <2>2. CASE p = Host /\ ~s.paused /\ s.phase # "complete"
      <3>1. session' = FreezeWindow(FreezeMoveWindow(t))
        BY <1>3, <2>2, Zenon DEF Disconnect
      <3> HIDE DEF s, t
      <3>2. session'.paused
        BY <2>1, <3>1, FreezeAlongside
      <3> QED  BY <3>2 DEF Backed
    <2>3. CASE ~(p = Host /\ ~s.paused /\ s.phase # "complete")
      <3>1. session' = s /\ windowTimer' = windowTimer
        BY <1>3, <2>3, Zenon DEF Disconnect
      <3>2. (\E x : timers' = timers \cup x) \/ timers' = timers
        BY <1>3, <2>3, Zenon DEF Disconnect
      <3> HIDE DEF s, t
      <3> QED  BY <2>1, <3>1, <3>2, StaysBacked DEF Alongside
    <2> QED  BY <2>2, <2>3
  <1> QED  BY <1>1, <1>2, <1>3 DEF Devices

\* An accepted answer arms the answer round anew, whatever was lost before.
LEMMA DevicesRetime ==
  ASSUME TypeOK, Grants(session, owed), "untimed" \in lapses, Devices
  PROVE  "untimed" \in lapses' \/ Backed(session', timers', windowTimer')
  <1> USE DEF TypeOK
  <1>0. "untimed" \in Noticed /\ \A s : "untimed" \in Unchecked(s)
    BY DEF Noticed, Unchecked
  <1>1. CASE HostReturns
    BY <1>1, HostReturnsBacked
  <1>2. ASSUME NEW p \in Players, Join(p) \/ SubmitVote(p)
        PROVE  "untimed" \in lapses'
    BY <1>0, <1>2, Zenon DEF Join, SubmitVote
  <1>3. ASSUME NEW p \in Players, SubmitMove(p)
        PROVE  "untimed" \in lapses' \/ Backed(session', timers', windowTimer')
    <2> DEFINE s == [session EXCEPT !.acted = @ \cup {p}]
    <2>1. /\ s \in SessionType /\ s.phase = "collecting" /\ ~s.paused
          /\ s.moveDeadline = session.moveDeadline /\ s.moveWindow = session.moveWindow
      BY <1>3 DEF SubmitMove, SessionType
    <2>2. CASE lapses' = lapses
      BY <2>2
    <2>3. CASE /\ session' = s
               /\ timers' = timers \cup AutoAdvanceIfAllActed(s)
                     \cup (IF s.moveDeadline = None THEN {} ELSE ArmMoveWindow(s, s.moveDeadline))
      <3> HIDE DEF s
      <3>1. WindowBacked(s, timers' \cup {windowTimer'})
        BY <2>1 DEF WindowBacked, WindowPhases
      <3>2. MoveBacked(s, timers')
        <4>1. CASE s.moveWindow > 0 /\ ~Live
          <5>1. s.moveDeadline \in Nat
            BY <1>3, <2>1, <4>1 DEF Grants, SubmitMove, SessionType, TimeLeft, None
          <5>2. ArmMoveWindow(s, s.moveDeadline) \subseteq timers'
            BY <2>3, <5>1 DEF None
          <5> QED  BY <2>1, <5>1, <5>2, ArmedMoveBacks
        <4>2. CASE ~(s.moveWindow > 0 /\ ~Live)
          BY <4>2 DEF MoveBacked
        <4> QED  BY <4>1, <4>2
      <3> QED  BY <2>3, <3>1, <3>2 DEF Backed
    <2> QED  BY <1>3, <2>2, <2>3 DEF SubmitMove
  <1>4. ASSUME NEW p \in Players, Disconnect(p)
        PROVE  "untimed" \in lapses' \/ Backed(session', timers', windowTimer')
    <2> DEFINE s == [session EXCEPT !.connected = @ \ {p}]
               t == [s EXCEPT !.paused = TRUE, !.hostPaused = TRUE]
    <2>1. CASE p = Host /\ ~s.paused /\ s.phase # "complete"
      <3>1. t \in SessionType /\ t.paused
        BY DEF SessionType
      <3>2. session' = FreezeWindow(FreezeMoveWindow(t))
        BY <1>4, <2>1, Zenon DEF Disconnect
      <3> HIDE DEF t
      <3>3. session'.paused
        BY <3>1, <3>2, FreezeAlongside
      <3> QED  BY <3>3 DEF Backed
    <2>2. CASE ~(p = Host /\ ~s.paused /\ s.phase # "complete")
      <3>1. lapses' = Noticed \/ \E x : lapses' = Unchecked(x)
        BY <1>4, <2>2, Zenon DEF Disconnect
      <3> QED  BY <1>0, <3>1
    <2> QED  BY <2>1, <2>2
  <1> QED  BY <1>1, <1>2, <1>3, <1>4 DEF Devices

\* A clock tick lowers a deadline and the callback behind it alike.
LEMMA TickBacked ==
  ASSUME TypeOK, Backed(session, timers, windowTimer), Tick
  PROVE  Backed(session', timers', windowTimer')
  <1>0. session \in SessionType /\ timers \subseteq TimerType /\ windowTimer \in TimerType \cup {NoTimer}
    BY DEF TypeOK
  <1>1. /\ Alongside(session, session') /\ session'.paused = session.paused
        /\ session'.moveWindow = session.moveWindow
        /\ session'.moveDeadline = Less(session.moveDeadline)
        /\ session'.windowDeadline = Less(session.windowDeadline)
    BY <1>0 DEF Tick, SessionType, Alongside
  <1>2. timers' = {Pass(t) : t \in timers} /\ windowTimer' = Pass(windowTimer)
    BY DEF Tick
  <1>3. ASSUME NEW t \in TimerType, NEW d \in TimeLeft, t.left <= d, Expires(t, session)
        PROVE  /\ Pass(t).kind = t.kind /\ Expires(Pass(t), session') /\ Pass(t).left <= Less(d)
               /\ t # NoTimer => Pass(t) # NoTimer
    <2>1. CASE t = NoTimer
      BY <2>1 DEF NoTimer, TimerType
    <2>2. CASE t # NoTimer
      <3> DEFINE u == [t EXCEPT !.left = Less(@)]
      <3>1. Pass(t) = u
        BY <2>2 DEF Pass
      <3>2. /\ u.kind = t.kind /\ u.phase = t.phase /\ u.round = t.round /\ u.runId = t.runId
            /\ u.left = Less(t.left)
        BY DEF TimerType
      <3>3. u.left <= Less(d)
        BY <1>3, <3>2 DEF Less, TimerType, TimeLeft, None
      <3>4. u # NoTimer
        BY <3>2 DEF NoTimer, TimerType
      <3> HIDE DEF u
      <3> QED  BY <1>1, <1>3, <3>1, <3>2, <3>3, <3>4 DEF Expires, Alongside
    <2> QED  BY <2>1, <2>2
  <1>4. CASE session.paused
    BY <1>1, <1>4 DEF Backed
  <1>5. CASE ~session.paused
    <2>1. MoveBacked(session, timers) /\ WindowBacked(session, timers \cup {windowTimer})
      BY <1>5 DEF Backed
    <2>2. MoveBacked(session', timers')
      <3> SUFFICES ASSUME session.phase = "collecting", session.moveWindow > 0, ~Live
                   PROVE  MoveBacked(session', timers')
        BY <1>1 DEF MoveBacked, Alongside
      <3>1. PICK t \in timers : t.kind = "move" /\ Expires(t, session) /\ t.left <= session.moveDeadline
        BY <2>1 DEF MoveBacked
      <3>2. session.moveDeadline \in TimeLeft /\ t \in TimerType
        BY <1>0 DEF SessionType
      <3>3. /\ Pass(t).kind = "move" /\ Expires(Pass(t), session')
            /\ Pass(t).left <= session'.moveDeadline
        BY <1>1, <1>3, <3>1, <3>2
      <3> QED  BY <1>2, <3>3 DEF MoveBacked
    <2>3. WindowBacked(session', timers' \cup {windowTimer'})
      <3> SUFFICES ASSUME session.phase \in WindowPhases, session'.windowDeadline # None
                   PROVE  WindowBacked(session', timers' \cup {windowTimer'})
        BY <1>1 DEF WindowBacked, Alongside
      <3>1. session.windowDeadline # None
        BY <1>1 DEF Less, None
      <3>2. PICK t \in timers \cup {windowTimer} :
              t # NoTimer /\ t.kind = "window" /\ Expires(t, session) /\ t.left <= session.windowDeadline
        BY <2>1, <3>1 DEF WindowBacked
      <3>3. session.windowDeadline \in TimeLeft /\ t \in TimerType
        BY <1>0, <3>2 DEF SessionType
      <3>4. /\ Pass(t) # NoTimer /\ Pass(t).kind = "window" /\ Expires(Pass(t), session')
            /\ Pass(t).left <= session'.windowDeadline
        BY <1>1, <1>3, <3>2, <3>3
      <3>5. Pass(t) \in timers' \cup {windowTimer'}
        BY <1>2
      <3> QED  BY <3>4, <3>5 DEF WindowBacked
    <2> QED  BY <2>2, <2>3 DEF Backed
  <1> QED  BY <1>4, <1>5

\* The callback a countdown has behind it is not one that may be dropped.
LEMMA RunTimerBacked ==
  ASSUME TypeOK, Backed(session, timers, windowTimer), NEW t \in timers, RunTimer(t)
  PROVE  Backed(session', timers', windowTimer')
  <1>0. session \in SessionType /\ timers \subseteq TimerType
    BY DEF TypeOK
  <1>1. CASE Void(t) /\ timers' = timers \ {t} /\ UNCHANGED <<session, windowTimer>>
    <2>1. CASE session.paused
      BY <1>1, <2>1 DEF Backed
    <2>2. CASE ~session.paused
      <3>1. MoveBacked(session, timers) /\ WindowBacked(session, timers \cup {windowTimer})
        BY <2>2 DEF Backed
      <3>2. MoveBacked(session, timers \ {t})
        <4> SUFFICES ASSUME session.phase = "collecting", session.moveWindow > 0, ~Live
                     PROVE  MoveBacked(session, timers \ {t})
          BY DEF MoveBacked
        <4>1. PICK u \in timers : u.kind = "move" /\ Expires(u, session) /\ u.left <= session.moveDeadline
          BY <3>1 DEF MoveBacked
        <4>2. session.moveDeadline # None
          BY <1>0, <4>1 DEF TimerType, SessionType, TimeLeft, None
        <4>3. u # t
          BY <1>1, <2>2, <4>1, <4>2 DEF Void, StillCurrent, Expires
        <4> QED  BY <4>1, <4>3 DEF MoveBacked
      <3>3. WindowBacked(session, (timers \ {t}) \cup {windowTimer})
        <4> SUFFICES ASSUME session.phase \in WindowPhases, session.windowDeadline # None
                     PROVE  WindowBacked(session, (timers \ {t}) \cup {windowTimer})
          BY DEF WindowBacked
        <4>1. PICK u \in timers \cup {windowTimer} :
                u # NoTimer /\ u.kind = "window" /\ Expires(u, session) /\ u.left <= session.windowDeadline
          BY <3>1 DEF WindowBacked
        <4>2. u # t
          BY <1>1, <2>2, <4>1 DEF Void, StillCurrent, Expires
        <4> QED  BY <4>1, <4>2 DEF WindowBacked
      <3> QED  BY <1>1, <3>2, <3>3 DEF Backed
    <2> QED  BY <2>1, <2>2
  <1>2. CASE /\ ~Void(t) /\ Early(t)
             /\ timers' = (timers \ {t}) \cup ArmMoveWindow(session, session.moveDeadline)
             /\ UNCHANGED <<session, windowTimer>>
    <2>1. t.kind = "move" /\ session.moveDeadline \in Nat /\ ~session.paused
      BY <1>0, <1>2 DEF Early, Void, StillCurrent, SessionType, TimeLeft, None
    <2>2. MoveBacked(session', timers')
      BY <1>0, <1>2, <2>1, ArmedMoveBacks
    <2>3. WindowBacked(session', timers' \cup {windowTimer'})
      <3> SUFFICES ASSUME session.phase \in WindowPhases, session.windowDeadline # None
                   PROVE  WindowBacked(session', timers' \cup {windowTimer'})
        BY <1>2 DEF WindowBacked
      <3>1. WindowBacked(session, timers \cup {windowTimer})
        BY <2>1 DEF Backed
      <3>2. PICK u \in timers \cup {windowTimer} :
              u # NoTimer /\ u.kind = "window" /\ Expires(u, session) /\ u.left <= session.windowDeadline
        BY <3>1 DEF WindowBacked
      <3>3. u \in timers' \cup {windowTimer'}
        BY <1>2, <2>1, <3>2
      <3> QED  BY <1>2, <3>2, <3>3 DEF WindowBacked
    <2> QED  BY <2>2, <2>3 DEF Backed
  <1>3. CASE ~Void(t) /\ AdvanceLocked(timers \ {t})
    <2>1. session.phase # "absent" /\ ~session.paused
      BY <1>0, <1>3 DEF Void, StillCurrent, TimerType, Phases, WindowPhases
    <2> QED  BY <1>3, <2>1, AdvanceLockedBacked
  <1> QED  BY <1>1, <1>2, <1>3 DEF RunTimer

LEMMA ClockworkBacked ==
  ASSUME TypeOK, Backed(session, timers, windowTimer), Clockwork
  PROVE  Backed(session', timers', windowTimer')
  <1>0. session \in SessionType
    BY DEF TypeOK
  <1>1. CASE FireWindow
    <2>1. /\ session' = session /\ timers \subseteq timers'
          /\ timers' \cup {windowTimer'} = timers \cup {windowTimer} \cup {NoTimer}
      BY <1>1 DEF FireWindow
    <2>2. session.paused \/ MoveBacked(session, timers)
      BY DEF Backed
    <2>3. session.paused \/ MoveBacked(session', timers')
      BY <2>1, <2>2 DEF MoveBacked
    <2>4. session.paused \/ WindowBacked(session, timers \cup {windowTimer})
      BY DEF Backed
    <2>5. session.paused \/ WindowBacked(session', timers' \cup {windowTimer'})
      BY <2>1, <2>4 DEF WindowBacked
    <2> QED  BY <2>1, <2>3, <2>5 DEF Backed
  <1>2. CASE SimTick
    BY <1>2 DEF SimTick
  <1>3. CASE SimOver
    <2>1. session'.phase = "complete"
      BY <1>0, <1>3 DEF SimOver, EndGame, SessionType
    <2> QED  BY <2>1 DEF Backed, MoveBacked, WindowBacked, WindowPhases
  <1>4. CASE Tick
    BY <1>4, TickBacked
  <1>5. CASE Expire
    BY <1>5 DEF Expire, NoSession, Backed, MoveBacked, WindowBacked, WindowPhases
  <1>6. ASSUME NEW t \in timers, RunTimer(t)
        PROVE  Backed(session', timers', windowTimer')
    BY <1>6, RunTimerBacked
  <1> QED  BY <1>1, <1>2, <1>3, <1>4, <1>5, <1>6 DEF Clockwork

\* Until the next phase, what a fault took away stays unbacked.
LEMMA ClockworkRetimes ==
  ASSUME TypeOK, "untimed" \in lapses, Clockwork
  PROVE  "untimed" \in lapses' \/ Backed(session', timers', windowTimer')
  <1> USE DEF TypeOK
  <1>1. CASE FireWindow \/ SimTick \/ Tick
    BY <1>1 DEF FireWindow, SimTick, Tick, history
  <1>2. CASE SimOver
    <2>1. session'.phase = "complete"
      BY <1>2 DEF SimOver, EndGame, SessionType
    <2> QED  BY <2>1 DEF Backed, MoveBacked, WindowBacked, WindowPhases
  <1>3. CASE Expire
    BY <1>3 DEF Expire, NoSession, Backed, MoveBacked, WindowBacked, WindowPhases
  <1>4. ASSUME NEW t \in timers, RunTimer(t)
        PROVE  "untimed" \in lapses' \/ Backed(session', timers', windowTimer')
    <2>1. CASE lapses' = lapses
      BY <2>1
    <2>2. CASE ~Void(t) /\ AdvanceLocked(timers \ {t})
      <3>1. session.phase # "absent" /\ ~session.paused
        BY <2>2 DEF Void, StillCurrent, TimerType, Phases, WindowPhases
      <3> QED  BY <2>2, <3>1, AdvanceLockedBacked
    <2> QED  BY <1>4, <2>1, <2>2 DEF RunTimer, history
  <1> QED  BY <1>1, <1>2, <1>3, <1>4 DEF Clockwork

\* A fault leaves the timers alone, or is remembered, or strikes while a pause holds.
LEMMA FailuresBacked ==
  ASSUME "untimed" \in lapses \/ Backed(session, timers, windowTimer), Failures
  PROVE  "untimed" \in lapses' \/ Backed(session', timers', windowTimer')
  <1>1. session' = session
    BY DEF Failures, Crash, SimTickFails, SimOverFails, HostAdvanceFails, RestartOrExitFails,
           HostReturnsFails, RunTimerFails, AdvanceFails
  <1>2. \/ lapses' = lapses /\ timers' = timers /\ windowTimer' = windowTimer
        \/ lapses' = Untimed \/ lapses' = TimersGo
    BY Zenon DEF Failures, Crash, SimTickFails, SimOverFails, HostAdvanceFails, RestartOrExitFails,
                 HostReturnsFails, RunTimerFails, AdvanceFails
  <1>3. session.paused => Backed(session', timers', windowTimer')
    BY <1>1 DEF Backed
  <1> QED  BY <1>1, <1>2, <1>3 DEF Untimed, TimersGo

-----------------------------------------------------------------------------
(* The grace timer of a complete table.                                     *)

LEMMA ArmedGraceBacks ==
  ASSUME NEW s, NEW pending, AutoAdvanceIfAllActed(s) \subseteq pending
  PROVE  GraceBacked(s, pending)
  <1> SUFFICES ASSUME AllActed(s), ~s.paused
               PROVE  GraceBacked(s, pending)
    BY DEF GraceBacked, Closable
  <1> DEFINE t == Timer("auto", s, Grace)
  <1>1. t \in pending
    BY DEF AutoAdvanceIfAllActed, ArmAutoAdvance
  <1>2. t.kind = "auto" /\ Expires(t, s)
    BY DEF Timer, Expires
  <1> HIDE DEF t
  <1> QED  BY <1>1, <1>2 DEF GraceBacked

LEMMA StaysGraceBacked ==
  ASSUME NEW s, NEW t, NEW pending, NEW more, GraceBacked(s, pending), pending \subseteq more,
         Alongside(s, t), Closable(t) => Closable(s)
  PROVE  GraceBacked(t, more)
  BY DEF GraceBacked, Alongside, Expires

\* A phase is entered with nobody having acted, or is not one a table can complete.
LEMMA FreshOpen ==
  ASSUME NEW s \in SessionType, NEW w \in MoveWindows
  PROVE  ~Closable(StartRoundInto(s, w))
  <1> DEFINE r == StartRoundInto(s, w)
  <1>1. r.acted = {}
    BY DEF StartRoundInto, SessionType
  <1> QED  BY <1>1 DEF Closable, AllActed

LEMMA AdvancedOpen ==
  ASSUME session \in SessionType, session.phase # "absent", NEW s \in Advanced(session)
  PROVE  ~Closable(s) /\ s.paused = session.paused
  <1>1. \A t \in SessionType, phase \in WindowPhases :
          /\ Enter(t, phase).phase = phase /\ Enter(t, phase).paused = t.paused
          /\ Enter(t, phase).acted = t.acted
    BY DEF Enter, ArmWindow, SessionType, WindowPhases
  <1>2. CASE session.phase = "collecting" /\ ~Live
    <2> DEFINE closed == [session EXCEPT !.moveDeadline = None, !.moveRemaining = None, !.acted = {}]
    <2>1. closed \in SessionType /\ closed.acted = {} /\ closed.paused = session.paused
      BY DEF SessionType, TimeLeft
    <2>2. PICK phase \in Reveals : s = Enter(closed, phase)
      BY <1>2 DEF Advanced, Reveal
    <2>3. phase \in WindowPhases
      BY DEF WindowPhases
    <2> HIDE DEF closed
    <2>4. s.acted = {} /\ s.paused = session.paused
      BY <1>1, <2>1, <2>2, <2>3
    <2> QED  BY <2>4 DEF Closable, AllActed
  <1>3. CASE s = EndGame(session)
    <2>1. s.phase = "complete" /\ s.paused = session.paused
      BY <1>3 DEF EndGame, SessionType
    <2> QED  BY <2>1 DEF Closable
  <1>4. CASE session.phase = "leaderboard" /\ s \in NextRound(session)
    <2> DEFINE next == [session EXCEPT !.round = @ + 1]
    <2>1. next \in SessionType /\ next.paused = session.paused
      BY DEF SessionType
    <2>2. PICK w \in MoveWindows : s = StartRoundInto(next, w)
      BY <1>4 DEF NextRound
    <2> HIDE DEF next
    <2>3. s.paused = session.paused
      BY <2>1, <2>2, FreshClean
    <2> QED  BY <2>1, <2>2, <2>3, FreshOpen
  <1>5. CASE session.phase = "complete"
    <2>1. s = session
      BY <1>5 DEF Advanced
    <2> QED  BY <1>5, <2>1 DEF Closable
  <1>6. CASE s \in {FinalizeRound(session), Enter(session, "voting")}
    <2>1. s.phase \in {"leaderboard", "voting"} /\ s.paused = session.paused
      BY <1>1, <1>6 DEF FinalizeRound, WindowPhases
    <2> QED  BY <2>1 DEF Closable
  <1> QED
    BY <1>2, <1>3, <1>4, <1>5, <1>6 DEF Advanced

\* What a new phase has behind it, when it is entered.
LEMMA AdvanceLockedOpens ==
  ASSUME TypeOK, session.phase # "absent", ~session.paused, NEW pending, AdvanceLocked(pending)
  PROVE  GraceBacked(session', timers') /\ ~session'.paused
  <1>1. PICK s \in Advanced(session) : session' = s
    BY Zenon DEF AdvanceLocked
  <1> QED  BY <1>1, AdvancedOpen DEF TypeOK, GraceBacked

LEMMA OpenFirstRoundOpens ==
  ASSUME NEW s \in SessionType, ~s.paused, OpenFirstRound(s)
  PROVE  GraceBacked(session', timers') /\ ~session'.paused
  <1>1. PICK w \in MoveWindows : session' = StartRoundInto(s, w)
    BY DEF OpenFirstRound
  <1> QED  BY <1>1, FreshOpen, FreshClean DEF GraceBacked

LEMMA FreezeDrops ==
  ASSUME NEW s \in SessionType
  PROVE  FreezeWindow(FreezeMoveWindow(s)).windowDeadline = None
  <1>1. FreezeMoveWindow(s) \in SessionType
    BY DEF FreezeMoveWindow, SessionType, TimeLeft, None
  <1> QED  BY <1>1 DEF FreezeWindow, SessionType

\* A resume checks for a complete table in both phases that one may close.
LEMMA ResumedGrace ==
  ASSUME NEW s, NEW pending
  PROVE  GraceBacked(s, pending \cup ResumeMoveTimers(s) \cup ResumeDecisionTimers(s))
  <1> DEFINE more == pending \cup ResumeMoveTimers(s) \cup ResumeDecisionTimers(s)
  <1>1. CASE s.phase \in {"collecting", "guessing"}
    <2>1. AutoAdvanceIfAllActed(s) \subseteq more
      BY <1>1 DEF ResumeMoveTimers, ResumeDecisionTimers
    <2> HIDE DEF more
    <2> QED  BY <2>1, ArmedGraceBacks DEF more
  <1>2. CASE s.phase \notin {"collecting", "guessing"}
    BY <1>2 DEF GraceBacked, Closable
  <1> QED  BY <1>1, <1>2

LEMMA ControlsGrace ==
  ASSUME TypeOK, Controls
  PROVE  GraceBacked(session', timers') /\ NoFrozenWindow'
  <1> USE DEF TypeOK
  <1>1. CASE Start
    <2> DEFINE s == [NoSession EXCEPT !.runId = 1, !.round = 1]
    <2>1. s \in SessionType /\ ~s.paused
      BY NoSessionType DEF SessionType, NoSession
    <2> HIDE DEF s
    <2> QED  BY <1>1, <2>1, OpenFirstRoundOpens DEF Start, s, NoFrozenWindow
  <1>2. CASE Restart
    <2>1. NextRun(session) \in SessionType /\ ~NextRun(session).paused
      BY NextRunType DEF NextRun, SessionType
    <2> QED  BY <1>2, <2>1, OpenFirstRoundOpens DEF Restart, NoFrozenWindow
  <1>3. CASE Pause
    <2> DEFINE t == [session EXCEPT !.paused = TRUE]
    <2>1. t \in SessionType /\ t.paused
      BY DEF SessionType
    <2>2. session' = FreezeWindow(FreezeMoveWindow(t))
      BY <1>3 DEF Pause
    <2> HIDE DEF t
    <2>3. session'.paused /\ session'.windowDeadline = None
      BY <2>1, <2>2, FreezeAlongside, FreezeDrops
    <2> QED  BY <2>3 DEF GraceBacked, Closable, NoFrozenWindow
  <1>4. CASE Unpause
    <2> DEFINE t == [session EXCEPT !.paused = FALSE]
               saved == ResumeMoveWindow(t)
    <2>1. t \in SessionType /\ ~t.paused
      BY DEF SessionType
    <2>2. session' = saved /\ timers' = timers \cup ResumeMoveTimers(saved) \cup ResumeDecisionTimers(saved)
      BY <1>4 DEF Unpause
    <2>3. ~saved.paused
      BY <2>1, ResumeAlongside
    <2> HIDE DEF saved
    <2>4. GraceBacked(session', timers')
      BY <2>2, ResumedGrace
    <2> QED  BY <2>2, <2>3, <2>4 DEF NoFrozenWindow
  <1>5. CASE HostAdvance
    BY <1>5, AdvanceLockedOpens DEF HostAdvance, NoFrozenWindow
  <1>6. CASE Exit
    BY <1>6 DEF Exit, NoSession, GraceBacked, Closable, NoFrozenWindow
  <1> QED  BY <1>1, <1>2, <1>3, <1>4, <1>5, <1>6 DEF Controls

\* A drop or a join that completes the table without a check is remembered.
LEMMA UncheckedGrace ==
  ASSUME NEW s, NEW pending, NEW more, NEW left, pending \subseteq more, Alongside(session, s),
         "unnoticed" \in lapses \/ GraceBacked(session, pending), left = Unchecked(s)
  PROVE  "unnoticed" \in left \/ GraceBacked(s, more)
  <1>1. CASE ~Closable(s)
    BY <1>1 DEF GraceBacked
  <1>2. CASE Closable(s)
    <2>1. left = lapses \cup (IF Closable(session) THEN {} ELSE {"unnoticed"})
      BY <1>2 DEF Unchecked
    <2>2. CASE Closable(session) /\ "unnoticed" \notin lapses
      BY <2>2, StaysGraceBacked
    <2> QED  BY <2>1, <2>2
  <1> QED  BY <1>1, <1>2

LEMMA DevicesGrace ==
  ASSUME CountInv, Devices
  PROVE  ("unnoticed" \in lapses' \/ GraceBacked(session', timers')) /\ NoFrozenWindow'
  <1> USE DEF TypeOK, CountInv
  <1>1. CASE HostReturns
    <2> DEFINE t == [session EXCEPT !.connected = @ \cup {Host}, !.paused = FALSE, !.hostPaused = FALSE]
               r == IF t.phase \in WindowPhases THEN ResumeWindow(t) ELSE ResumeMoveWindow(t)
    <2>1. t \in SessionType /\ ~t.paused
      BY <1>1 DEF HostReturns, SessionType
    <2>2. session' = r /\ timers' = timers \cup ResumeMoveTimers(r) \cup ResumeDecisionTimers(r)
      BY <1>1, Zenon DEF HostReturns
    <2>3. ~r.paused
      <3> HIDE DEF t
      <3> QED  BY <2>1, ResumeAlongside
    <2> HIDE DEF r
    <2>4. GraceBacked(session', timers')
      BY <2>2, ResumedGrace
    <2> QED  BY <2>2, <2>3, <2>4 DEF NoFrozenWindow
  <1>2. ASSUME NEW p \in Players, Join(p)
        PROVE  ("unnoticed" \in lapses' \/ GraceBacked(session', timers')) /\ NoFrozenWindow'
    <2> DEFINE s == [session EXCEPT !.connected = @ \cup {p}]
    <2>1. Alongside(session, s) /\ s.paused = session.paused /\ s.windowDeadline = session.windowDeadline
      BY DEF SessionType, Alongside
    <2>2. session' = s /\ timers' = timers /\ lapses' = Unchecked(s)
      BY <1>2 DEF Join, memory
    <2> HIDE DEF s
    <2> QED  BY <2>1, <2>2, UncheckedGrace DEF NoFrozenWindow
  <1>3. ASSUME NEW p \in Players, SubmitMove(p) \/ SubmitVote(p)
        PROVE  ("unnoticed" \in lapses' \/ GraceBacked(session', timers')) /\ NoFrozenWindow'
    <2> DEFINE s == [session EXCEPT !.acted = @ \cup {p}]
    <2>1. s.paused = session.paused /\ s.windowDeadline = session.windowDeadline
      BY DEF SessionType
    <2>2. \/ session' = session /\ timers' = timers /\ lapses' = lapses
          \/ session' = s /\ AutoAdvanceIfAllActed(s) \subseteq timers'
      BY <1>3, Zenon DEF SubmitMove, SubmitVote
    <2> HIDE DEF s
    <2> QED  BY <2>1, <2>2, ArmedGraceBacks DEF NoFrozenWindow
  <1>4. ASSUME NEW p \in Players, Disconnect(p)
        PROVE  ("unnoticed" \in lapses' \/ GraceBacked(session', timers')) /\ NoFrozenWindow'
    <2> DEFINE s == [session EXCEPT !.connected = @ \ {p}]
               t == [s EXCEPT !.paused = TRUE, !.hostPaused = TRUE]
    <2>1. CASE p = Host /\ ~s.paused /\ s.phase # "complete"
      <3>1. t \in SessionType /\ t.paused
        BY DEF SessionType
      <3>2. session' = FreezeWindow(FreezeMoveWindow(t))
        BY <1>4, <2>1, Zenon DEF Disconnect
      <3> HIDE DEF t
      <3>3. session'.paused /\ session'.windowDeadline = None
        BY <3>1, <3>2, FreezeAlongside, FreezeDrops
      <3> QED  BY <3>3 DEF GraceBacked, Closable, NoFrozenWindow
    <2>2. CASE ~(p = Host /\ ~s.paused /\ s.phase # "complete")
      <3>1. Alongside(session, s) /\ s.paused = session.paused /\ s.windowDeadline = session.windowDeadline
        BY DEF SessionType, Alongside
      <3>2. session' = s
        BY <1>4, <2>2, Zenon DEF Disconnect
      <3>3. CASE s.phase = "collecting" /\ ~s.paused
        <4>1. timers' = timers \cup AutoAdvanceIfAllActed(s)
          BY <1>4, <2>2, <3>3, Zenon DEF Disconnect
        <4> HIDE DEF s
        <4>2. GraceBacked(s, timers')
          BY <4>1, ArmedGraceBacks
        <4> QED  BY <3>1, <3>2, <4>2 DEF NoFrozenWindow
      <3>4. CASE ~(s.phase = "collecting" /\ ~s.paused)
        <4>1. timers' = timers /\ lapses' = Unchecked(s)
          BY <1>4, <2>2, <3>4, Zenon DEF Disconnect
        <4> HIDE DEF s
        <4> QED  BY <3>1, <3>2, <4>1, UncheckedGrace DEF NoFrozenWindow
      <3> QED  BY <3>3, <3>4
    <2> QED  BY <2>1, <2>2
  <1> QED  BY <1>1, <1>2, <1>3, <1>4 DEF Devices

LEMMA ClockworkGrace ==
  ASSUME CountInv, Clockwork
  PROVE  ("unnoticed" \in lapses' \/ GraceBacked(session', timers')) /\ NoFrozenWindow'
  <1> USE DEF TypeOK, CountInv
  <1>1. CASE FireWindow \/ SimTick
    <2>1. session' = session /\ timers \subseteq timers' /\ lapses' = lapses
      BY <1>1 DEF FireWindow, SimTick, history
    <2> QED  BY <2>1, StaysGraceBacked DEF Alongside, NoFrozenWindow
  <1>2. CASE SimOver
    <2>1. session'.phase = "complete" /\ session'.paused = session.paused
          /\ session'.windowDeadline = session.windowDeadline
      BY <1>2 DEF SimOver, EndGame, SessionType
    <2> QED  BY <2>1 DEF GraceBacked, Closable, NoFrozenWindow
  <1>3. CASE Tick
    <2>1. /\ Alongside(session, session') /\ session'.paused = session.paused
          /\ session'.connected = session.connected /\ session'.acted = session.acted
          /\ session'.windowDeadline = Less(session.windowDeadline)
      BY <1>3 DEF Tick, SessionType, Alongside
    <2>2. timers' = {Pass(t) : t \in timers} /\ lapses' = lapses
      BY <1>3 DEF Tick
    <2>3. ASSUME NEW t \in timers, t.kind = "auto", Expires(t, session)
          PROVE  Pass(t).kind = "auto" /\ Expires(Pass(t), session')
      <3>1. Pass(t) = t \/ Pass(t) = [t EXCEPT !.left = Less(@)]
        BY DEF Pass
      <3>2. /\ Pass(t).kind = t.kind /\ Pass(t).phase = t.phase
            /\ Pass(t).round = t.round /\ Pass(t).runId = t.runId
        BY <3>1 DEF TimerType
      <3> QED  BY <2>1, <2>3, <3>2 DEF Expires, Alongside
    <2>4. GraceBacked(session, timers) => GraceBacked(session', timers')
      <3>1. Closable(session') => Closable(session)
        BY <2>1 DEF Closable, AllActed, Alongside
      <3> QED  BY <2>2, <2>3, <3>1 DEF GraceBacked
    <2>5. NoFrozenWindow'
      BY <2>1 DEF NoFrozenWindow, Less, None
    <2> QED  BY <2>2, <2>4, <2>5
  <1>4. CASE Expire
    BY <1>4 DEF Expire, NoSession, GraceBacked, Closable, NoFrozenWindow
  <1>5. ASSUME NEW t \in timers, RunTimer(t)
        PROVE  ("unnoticed" \in lapses' \/ GraceBacked(session', timers')) /\ NoFrozenWindow'
    <2>1. CASE Void(t) /\ timers' = timers \ {t} /\ session' = session /\ lapses' = lapses
      <3>1. GraceBacked(session, timers) => GraceBacked(session', timers')
        <4> SUFFICES ASSUME GraceBacked(session, timers), Closable(session)
                     PROVE  \E u \in timers \ {t} : u.kind = "auto" /\ Expires(u, session)
          BY <2>1 DEF GraceBacked
        <4>1. PICK u \in timers : u.kind = "auto" /\ Expires(u, session)
          BY DEF GraceBacked
        <4>2. ~session.paused
          BY DEF Closable
        <4>3. u # t
          BY <2>1, <4>1, <4>2 DEF Void, StillCurrent, Expires
        <4> QED  BY <4>1, <4>3
      <3> QED  BY <2>1, <3>1 DEF NoFrozenWindow
    <2>2. CASE /\ ~Void(t) /\ Early(t) /\ session' = session /\ lapses' = lapses
               /\ timers' = (timers \ {t}) \cup ArmMoveWindow(session, session.moveDeadline)
      <3>1. t.kind = "move"
        BY <2>2 DEF Early
      <3>2. GraceBacked(session, timers) => GraceBacked(session', timers')
        <4> SUFFICES ASSUME GraceBacked(session, timers), Closable(session)
                     PROVE  \E u \in timers' : u.kind = "auto" /\ Expires(u, session)
          BY <2>2 DEF GraceBacked
        <4>1. PICK u \in timers : u.kind = "auto" /\ Expires(u, session)
          BY DEF GraceBacked
        <4>2. u \in timers'
          BY <2>2, <3>1, <4>1
        <4> QED  BY <4>1, <4>2
      <3> QED  BY <2>2, <3>2 DEF NoFrozenWindow
    <2>3. CASE ~Void(t) /\ AdvanceLocked(timers \ {t})
      <3>1. session.phase # "absent" /\ ~session.paused
        BY <2>3 DEF Void, StillCurrent, TimerType, Phases, WindowPhases
      <3> QED  BY <2>3, <3>1, AdvanceLockedOpens DEF NoFrozenWindow
    <2> QED  BY <1>5, <2>1, <2>2, <2>3 DEF RunTimer, history
  <1> QED  BY <1>1, <1>2, <1>3, <1>4, <1>5 DEF Clockwork

LEMMA FailuresGrace ==
  ASSUME CountInv, Failures
  PROVE  ("unnoticed" \in lapses' \/ GraceBacked(session', timers')) /\ NoFrozenWindow'
  <1>1. session' = session
    BY DEF Failures, Crash, SimTickFails, SimOverFails, HostAdvanceFails, RestartOrExitFails,
           HostReturnsFails, RunTimerFails, AdvanceFails
  <1>2. \/ (lapses' = lapses \/ lapses' = Untimed) /\ timers' = timers
        \/ lapses' = TimersGo
    BY Zenon DEF Failures, Crash, SimTickFails, SimOverFails, HostAdvanceFails, RestartOrExitFails,
                 HostReturnsFails, RunTimerFails, AdvanceFails
  <1>3. ~Closable(session) => GraceBacked(session', timers')
    BY <1>1 DEF GraceBacked
  <1>4. NoFrozenWindow'
    BY <1>1 DEF CountInv, NoFrozenWindow
  <1>5. CASE lapses' = TimersGo
    <2>1. Closable(session) => "unnoticed" \in lapses'
      BY <1>5 DEF TimersGo
    <2> QED  BY <1>3, <1>4, <2>1
  <1>6. CASE (lapses' = lapses \/ lapses' = Untimed) /\ timers' = timers
    <2>1. lapses \subseteq lapses'
      BY <1>6 DEF Untimed
    <2>2. CASE "unnoticed" \in lapses
      BY <1>4, <2>1, <2>2
    <2>3. CASE GraceBacked(session, timers)
      BY <1>1, <1>4, <1>6, <2>3 DEF GraceBacked
    <2> QED  BY <2>2, <2>3 DEF CountInv
  <1> QED  BY <1>2, <1>4, <1>5, <1>6

\* Every countdown the devices are shown ends with a callback of the engine, and no
\* later than it says, and a complete table has its grace timer, whatever crashes or
\* rejects: what a fault or one of the three gaps of CountdownsAreBacked takes away,
\* the next operation that arms timers gives back (engine.ts, armMoveWindow, armWindow,
\* armAutoAdvance and their callers).
THEOREM CountdownsEnd == Spec => []CountdownsAreBacked
  <1>1. Init => CountInv
    <2> SUFFICES ASSUME Init PROVE CountInv
      OBVIOUS
    <2>1. session = NoSession
      BY DEF Init
    <2>2. NoFrozenWindow /\ Grants(session, owed)
      BY <2>1 DEF NoSession, NoFrozenWindow, Grants
    <2>3. Backed(session, timers, windowTimer) /\ GraceBacked(session, timers)
      BY <2>1 DEF NoSession, Backed, MoveBacked, WindowBacked, WindowPhases, GraceBacked, Closable
    <2> QED  BY <2>2, <2>3, InitType DEF CountInv
  <1>2. CountInv /\ [Next]_vars => CountInv'
    <2>1. ASSUME CountInv, UNCHANGED vars
          PROVE  CountInv'
      <3>1. UNCHANGED <<session, timers, windowTimer, lapses, owed>> /\ TypeOK'
        BY <2>1 DEF CountInv, TypeOK, vars, memory, history
      <3> QED  BY <2>1, <3>1 DEF CountInv, NoFrozenWindow, Grants
    <2>2. ASSUME CountInv, Next
          PROVE  CountInv'
      <3>1. TypeOK' /\ Grants(session, owed)'
        BY <2>2, NextType, ControlsGrant, DevicesGrant, ClockworkGrant, FailuresGrant
           DEF CountInv, Next
      <3>2. "untimed" \in lapses' \/ Backed(session', timers', windowTimer')
        BY <2>2, ControlsBacked, DevicesBacked, DevicesRetime, ClockworkBacked, ClockworkRetimes,
           FailuresBacked
           DEF CountInv, Next
      <3>3. ("unnoticed" \in lapses' \/ GraceBacked(session', timers')) /\ NoFrozenWindow'
        BY <2>2, ControlsGrace, DevicesGrace, ClockworkGrace, FailuresGrace DEF CountInv, Next
      <3> QED  BY <3>1, <3>2, <3>3 DEF CountInv
    <2> QED  BY <2>1, <2>2
  <1>3. CountInv => CountdownsAreBacked
    <2> SUFFICES ASSUME CountInv, ~session.paused
                 PROVE  CountdownsAreBacked
      BY DEF CountdownsAreBacked
    <2>1. "untimed" \notin lapses =>
            MoveBacked(session, timers) /\ WindowBacked(session, timers \cup {windowTimer})
      BY DEF CountInv, Backed
    <2>2. "unnoticed" \notin lapses => GraceBacked(session, timers)
      BY DEF CountInv
    <2>3. \A t : StillCurrent(t) <=> Expires(t, session)
      BY DEF StillCurrent, Expires
    <2> QED  BY <2>1, <2>2, <2>3
             DEF CountdownsAreBacked, MoveBacked, WindowBacked, GraceBacked, Answering
  <1> QED  BY <1>1, <1>2, <1>3, PTL DEF Spec

-----------------------------------------------------------------------------
(* No early close.  What makes a callback that is still good a due one is      *)
(* that no phase of a round is entered twice: a window's callback either was   *)
(* armed for a phase the session has left behind, or leaves the phase in play  *)
(* at least what it owes, unless a host cut it.  A frozen window does as well. *)

PhaseOrder == [collecting |-> 0, guessing |-> 1, disputing |-> 1, voting |-> 2, leaderboard |-> 3,
               complete |-> 4]

\* The phase of t lies behind that of s, in a game that numbers runs and rounds upwards.
Behind(t, s) ==
    \/ t.runId < s.runId
    \/ t.runId = s.runId /\ t.round < s.round
    \/ t.runId = s.runId /\ t.round = s.round /\ PhaseOrder[t.phase] < PhaseOrder[s.phase]

Allows(t, s, due) ==
    t.phase \in WindowPhases /\ (Behind(t, s) \/ (Expires(t, s) /\ t.left >= due))

\* What the windows of the phase in play still have to give: nothing more once a
\* returning host has cut one short.
Owing == IF "cut" \in lapses THEN 0 ELSE owed

NoneAhead ==
    session.phase # "absent" =>
        \A t \in timers \cup {windowTimer} : t.kind = "window" => Allows(t, session, Owing)

FiredIsDue == \A t \in timers : t.kind = "window" => t.left = 0

Unstarted == runs = 0 => session.phase = "absent" /\ timers = {} /\ windowTimer = NoTimer

WindowOwes(s, due) ==
    s.phase \in WindowPhases /\ due > 0 =>
        IF s.windowDeadline # None THEN s.windowDeadline >= due ELSE s.windowRemaining >= due

Timed(s) == s.moveDeadline # None => s.moveWindow > 0

CloseInv ==
    /\ PauseInv /\ Grants(session, owed)
    /\ NoneAhead /\ FiredIsDue /\ Unstarted /\ WindowOwes(session, Owing) /\ Timed(session)

LEMMA OwingType ==
  ASSUME TypeOK
  PROVE  Owing \in Nat /\ Owing <= owed
  BY DEF TypeOK, Owing

\* Within a phase only the host's return can cut a window short.
LEMMA SameOwing ==
  ASSUME owed' = owed,
         lapses' \in {lapses, Noticed, Retimed, TimersGo} \/ \E s : lapses' = Unchecked(s)
  PROVE  Owing' = Owing
  <1>1. "cut" \in lapses' <=> "cut" \in lapses
    <2>1. "cut" \in Noticed <=> "cut" \in lapses
      BY DEF Noticed
    <2>2. "cut" \in Retimed <=> "cut" \in lapses
      BY DEF Retimed
    <2>3. "cut" \in TimersGo <=> "cut" \in lapses
      BY DEF TimersGo, Untimed
    <2>4. ASSUME NEW s, lapses' = Unchecked(s)
          PROVE  "cut" \in lapses' <=> "cut" \in lapses
      <3>1. CASE ~Closable(s)
        BY <2>1, <2>4, <3>1 DEF Unchecked
      <3>2. CASE Closable(s)
        <4>1. lapses' = lapses \cup (IF Closable(session) THEN {} ELSE {"unnoticed"})
          BY <2>4, <3>2 DEF Unchecked
        <4> QED  BY <4>1
      <3> QED  BY <3>1, <3>2
    <2> QED  BY <2>1, <2>2, <2>3, <2>4
  <1> QED  BY <1>1 DEF Owing

LEMMA OrderType == PhaseOrder \in [Phases -> Nat]
  BY DEF PhaseOrder, Phases, WindowPhases

\* What an operation does to the callbacks of windows: it arms the cancellable one
\* for the phase in play, drops it, or leaves it.
KeepsWindows ==
    /\ \A t \in timers' : t.kind = "window" => t \in timers
    /\ \/ windowTimer' \in {windowTimer, NoTimer}
       \/ windowTimer'.kind = "window" => Allows(windowTimer', session', Owing')

LEMMA StaysInPhase ==
  ASSUME NoneAhead, FiredIsDue, TypeOK, TypeOK', KeepsWindows, Alongside(session, session'), Owing' <= Owing
  PROVE  NoneAhead' /\ FiredIsDue'
  <1>1. FiredIsDue'
    BY DEF KeepsWindows, FiredIsDue
  <1>2. ASSUME session'.phase # "absent", NEW t \in timers \cup {windowTimer}, t.kind = "window"
        PROVE  Allows(t, session', Owing')
    <2>1. Allows(t, session, Owing)
      BY <1>2 DEF NoneAhead, Alongside
    <2>2. t \in TimerType
      BY <1>2 DEF TypeOK, NoTimer
    <2>3. t.left >= Owing => t.left >= Owing'
      <3>1. Owing \in Nat /\ Owing' \in Nat
        BY DEF TypeOK, Owing
      <3> QED  BY <2>2, <3>1 DEF TimerType
    <2> QED  BY <2>1, <2>3 DEF Allows, Behind, Expires, Alongside
  <1>3. NoneAhead'
    BY <1>2 DEF NoneAhead, KeepsWindows, NoTimer
  <1> QED  BY <1>1, <1>3

\* Entering a phase leaves every window armed before behind.
LEMMA MovesOn ==
  ASSUME NoneAhead, FiredIsDue, TypeOK, TypeOK', KeepsWindows,
         session.phase # "absent", session'.phase # "absent", Behind(session, session')
  PROVE  NoneAhead' /\ FiredIsDue'
  <1>1. FiredIsDue'
    BY DEF KeepsWindows, FiredIsDue
  <1>2. ASSUME NEW t \in timers \cup {windowTimer}, t.kind = "window"
        PROVE  Allows(t, session', Owing')
    <2>1. Allows(t, session, Owing)
      BY <1>2 DEF NoneAhead
    <2>2. t \in TimerType
      BY <1>2 DEF TypeOK, NoTimer
    <2>3. /\ t.runId \in Nat /\ t.round \in Nat /\ PhaseOrder[t.phase] \in Nat
          /\ session.runId \in Nat /\ session.round \in Nat /\ PhaseOrder[session.phase] \in Nat
          /\ session'.runId \in Nat /\ session'.round \in Nat /\ PhaseOrder[session'.phase] \in Nat
      BY <2>2, OrderType DEF TimerType, TypeOK, SessionType
    <2>4. CASE Behind(t, session)
      <3>1. Behind(t, session')
        BY <2>3, <2>4 DEF Behind
      <3> QED  BY <2>1, <3>1 DEF Allows
    <2>5. CASE Expires(t, session)
      <3>1. Behind(t, session')
        BY <2>3, <2>5 DEF Behind, Expires
      <3> QED  BY <2>1, <3>1 DEF Allows
    <2> QED  BY <2>1, <2>4, <2>5 DEF Allows
  <1>3. NoneAhead'
    BY <1>2 DEF NoneAhead, KeepsWindows, NoTimer
  <1> QED  BY <1>1, <1>3

LEMMA NoWindowTimers ==
  ASSUME NEW s, NEW d
  PROVE  /\ \A t \in ArmMoveWindow(s, d) : t.kind # "window"
         /\ \A t \in TimersOf(s) : t.kind # "window"
         /\ \A t \in TimersOf(s), n \in Nat : [t EXCEPT !.run = n].kind # "window"
         /\ \A t \in AutoAdvanceIfAllActed(s) : t.kind # "window"
         /\ \A t \in ResumeMoveTimers(s) : t.kind # "window"
         /\ \A t \in ResumeDecisionTimers(s) : t.kind # "window"
  <1>1. \A e : \A t \in ArmMoveWindow(s, e) : t.kind # "window"
    BY DEF ArmMoveWindow, Timer
  <1>2. \A t \in TimersOf(s) : t.kind # "window"
    BY <1>1 DEF TimersOf
  <1>3. \A t \in TimersOf(s), n \in Nat : [t EXCEPT !.run = n].kind # "window"
    BY DEF TimersOf, ArmMoveWindow, Timer
  <1>4. \A t \in AutoAdvanceIfAllActed(s) : t.kind # "window"
    BY DEF AutoAdvanceIfAllActed, ArmAutoAdvance, Timer
  <1> QED  BY <1>1, <1>2, <1>3, <1>4 DEF ResumeMoveTimers, ResumeDecisionTimers

\* The timer armed for a window leaves its phase what the window does.
LEMMA ArmedAllows ==
  ASSUME NEW s \in SessionType, NEW due, s.phase \in WindowPhases,
         s.windowDeadline # None => s.windowDeadline >= due
  PROVE  WindowTimerFor(s).kind = "window" => Allows(WindowTimerFor(s), s, due)
  <1>1. CASE s.windowDeadline = None
    BY <1>1 DEF WindowTimerFor, NoTimer
  <1>2. CASE s.windowDeadline # None
    <2> DEFINE t == Timer("window", s, s.windowDeadline)
    <2>1. t.phase = s.phase /\ t.round = s.round /\ t.runId = s.runId /\ t.left = s.windowDeadline
      BY DEF Timer
    <2>2. WindowTimerFor(s) = t
      BY <1>2 DEF WindowTimerFor
    <2> HIDE DEF t
    <2> QED  BY <1>2, <2>1, <2>2 DEF Allows, Expires
  <1> QED  BY <1>1, <1>2

-----------------------------------------------------------------------------
(* What the helpers leave of a window.                                      *)

LEMMA FreezeOwes ==
  ASSUME NEW s \in SessionType, NEW due \in Nat, WindowOwes(s, due), Timed(s)
  PROVE  LET g == FreezeWindow(FreezeMoveWindow(s)) IN WindowOwes(g, due) /\ Timed(g)
  <1> DEFINE f == FreezeMoveWindow(s)
             g == FreezeWindow(f)
  <1>1. /\ f \in SessionType /\ f.phase = s.phase /\ f.moveWindow = s.moveWindow
        /\ f.moveDeadline \in {s.moveDeadline, None}
        /\ f.windowDeadline = s.windowDeadline /\ f.windowRemaining = s.windowRemaining
    BY DEF FreezeMoveWindow, SessionType, TimeLeft, None
  <1> HIDE DEF f
  <1>2. /\ g.phase = f.phase /\ g.moveWindow = f.moveWindow /\ g.moveDeadline = f.moveDeadline
        /\ g.windowDeadline = None
        /\ g.windowRemaining = IF f.windowDeadline = None THEN f.windowRemaining ELSE f.windowDeadline
    BY <1>1 DEF FreezeWindow, SessionType
  <1> HIDE DEF g
  <1>3. WindowOwes(g, due) /\ Timed(g)
    BY <1>1, <1>2 DEF WindowOwes, Timed
  <1> QED  BY <1>3 DEF f, g

LEMMA ResumeMoveOwes ==
  ASSUME NEW s \in SessionType, NEW due \in Nat, WindowOwes(s, due), Timed(s)
  PROVE  LET r == ResumeMoveWindow(s)
         IN  /\ WindowOwes(r, due) /\ Timed(r)
             /\ r.windowDeadline = s.windowDeadline /\ r.windowRemaining = s.windowRemaining
  <1> DEFINE r == ResumeMoveWindow(s)
             left == Default(s.moveRemaining, s.moveWindow)
  <1>1. CASE s.phase # "collecting" \/ s.moveWindow <= 0
    BY <1>1 DEF ResumeMoveWindow
  <1>2. CASE ~(s.phase # "collecting" \/ s.moveWindow <= 0)
    <2>1. r = [s EXCEPT !.moveDeadline = left, !.moveRemaining = None]
      BY <1>2 DEF ResumeMoveWindow
    <2> HIDE DEF r, left
    <2>2. /\ r.phase = s.phase /\ r.moveWindow = s.moveWindow
          /\ r.windowDeadline = s.windowDeadline /\ r.windowRemaining = s.windowRemaining
      BY <2>1 DEF SessionType
    <2>3. r.moveWindow > 0
      BY <1>2, <2>2 DEF SessionType
    <2>4. WindowOwes(r, due) /\ Timed(r)
      BY <2>2, <2>3 DEF WindowOwes, Timed
    <2> QED  BY <2>2, <2>4 DEF r
  <1> QED  BY <1>1, <1>2

\* A window armed anew is at least what was frozen of it.
LEMMA ResumeWindowOwes ==
  ASSUME NEW s \in SessionType, NEW due \in Nat, ~s.paused, Timed(s),
         s.phase \in WindowPhases /\ due > 0 => s.windowRemaining >= due
  PROVE  LET r == ResumeWindow(s)
         IN  /\ Timed(r)
             /\ s.phase \in WindowPhases /\ due > 0 => r.windowDeadline # None
             /\ s.phase \in WindowPhases /\ r.windowDeadline # None => r.windowDeadline >= due
  <1> DEFINE c == [s EXCEPT !.windowRemaining = None]
             ms == Default(s.windowRemaining, WindowMsFor(s.phase))
             left == IF ms <= 0 \/ c.paused THEN None ELSE ms
             r == ResumeWindow(s)
  <1>1. ms \in Nat
    BY WindowMsIsNat DEF SessionType, TimeLeft, None, Default
  <1>2. /\ c \in SessionType /\ c.paused = s.paused /\ c.phase = s.phase
        /\ c.moveWindow = s.moveWindow /\ c.moveDeadline = s.moveDeadline
    BY DEF SessionType, TimeLeft
  <1>3. r = [c EXCEPT !.windowDeadline = left]
    BY Zenon DEF ResumeWindow, ArmWindow
  <1>4. left = IF ms <= 0 THEN None ELSE ms
    BY <1>2
  <1>5. s.phase \in WindowPhases /\ due > 0 => ms = s.windowRemaining /\ ms >= due
    BY DEF Default, None
  <1> HIDE DEF c, ms, left, r
  <1>6. /\ r.windowDeadline = left /\ r.moveWindow = s.moveWindow /\ r.moveDeadline = s.moveDeadline
    BY <1>2, <1>3 DEF SessionType
  <1>7. s.phase \in WindowPhases /\ due > 0 => left = ms
    BY <1>1, <1>4, <1>5
  <1>8. s.phase \in WindowPhases /\ left # None => left >= due
    BY <1>1, <1>4, <1>5
  <1>9. ms # None
    BY <1>1 DEF None
  <1>10. s.phase \in WindowPhases /\ due > 0 => r.windowDeadline # None
    BY <1>6, <1>7, <1>9
  <1>11. s.phase \in WindowPhases /\ r.windowDeadline # None => r.windowDeadline >= due
    BY <1>6, <1>8
  <1> QED  BY <1>6, <1>10, <1>11 DEF Timed, r

\* A phase owes what it is entered with.
LEMMA AllottedOwes ==
  ASSUME NEW s \in SessionType
  PROVE  /\ WindowOwes(s, Allotted(s))
         /\ s.phase \in WindowPhases /\ s.windowDeadline # None => s.windowDeadline >= Allotted(s)
  <1> SUFFICES ASSUME s.phase \in WindowPhases
               PROVE  Allotted(s) = IF s.windowDeadline = None THEN 0 ELSE s.windowDeadline
    BY DEF WindowOwes, SessionType, TimeLeft, None
  <1> QED  BY DEF Allotted, Default, WindowPhases

LEMMA AdvancedTimed ==
  ASSUME session \in SessionType, session.phase # "absent", Timed(session), NEW s \in Advanced(session)
  PROVE  Timed(s)
  <1>1. \A t \in SessionType, phase \in WindowPhases : Timed(t) => Timed(Enter(t, phase))
    <2> SUFFICES ASSUME NEW t \in SessionType, NEW phase \in WindowPhases, Timed(t)
                 PROVE  Timed(Enter(t, phase))
      OBVIOUS
    <2> DEFINE e == [t EXCEPT !.phase = phase]
    <2>1. e \in SessionType /\ e.moveDeadline = t.moveDeadline /\ e.moveWindow = t.moveWindow
      BY DEF SessionType, Phases
    <2> HIDE DEF e
    <2>2. LET g == ArmWindow(e, WindowMsFor(phase))
          IN  g.moveDeadline = e.moveDeadline /\ g.moveWindow = e.moveWindow
      BY <2>1 DEF ArmWindow, SessionType
    <2>3. Enter(t, phase) = ArmWindow(e, WindowMsFor(phase))
      BY DEF Enter, e
    <2> QED  BY <2>1, <2>2, <2>3 DEF Timed
  <1>2. Timed(EndGame(session))
    BY DEF EndGame, Timed, SessionType
  <1>3. \A t \in SessionType, w \in MoveWindows : Timed(StartRoundInto(t, w))
    BY DEF StartRoundInto, Timed, SessionType
  <1>4. CASE session.phase = "collecting"
    <2> DEFINE closed == [session EXCEPT !.moveDeadline = None, !.moveRemaining = None, !.acted = {}]
    <2>1. closed \in SessionType /\ closed.moveDeadline = None
      BY DEF SessionType, TimeLeft
    <2>2. s = EndGame(session) \/ \E phase \in Reveals : s = Enter(closed, phase)
      <3>1. CASE Live
        BY <1>4, <3>1, Zenon DEF Advanced
      <3>2. CASE ~Live
        BY <1>4, <3>2, Zenon DEF Advanced, Reveal
      <3> QED  BY <3>1, <3>2
    <2> HIDE DEF closed
    <2> QED  BY <1>1, <1>2, <2>1, <2>2 DEF WindowPhases, Timed
  <1>5. CASE session.phase = "complete"
    BY <1>5 DEF Advanced
  <1>6. CASE session.phase = "disputing"
    <2>1. Advanced(session) = {FinalizeRound(session), Enter(session, "voting")}
      BY <1>6, SMTT(20) DEF Advanced
    <2> QED  BY <1>1, <2>1 DEF FinalizeRound, WindowPhases
  <1>7. CASE session.phase = "leaderboard"
    <2>1. s \in {EndGame(session)} \cup (IF session.round < Rounds THEN NextRound(session) ELSE {})
      BY <1>7, SMTT(20) DEF Advanced
    <2> DEFINE next == [session EXCEPT !.round = @ + 1]
    <2>2. next \in SessionType
      BY DEF SessionType
    <2>3. s = EndGame(session) \/ \E w \in MoveWindows : s = StartRoundInto(next, w)
      BY <2>1 DEF NextRound
    <2> HIDE DEF next
    <2> QED  BY <1>2, <1>3, <2>2, <2>3
  <1>8. CASE session.phase \in {"guessing", "voting"}
    <2>1. s \in {FinalizeRound(session)}
      BY <1>8, SMTT(20) DEF Advanced
    <2> QED  BY <1>1, <2>1 DEF FinalizeRound, WindowPhases
  <1> QED  BY <1>4, <1>5, <1>6, <1>7, <1>8 DEF SessionType, Phases, WindowPhases

\* An advance leaves the phase behind, unless the game is over already.
LEMMA AdvancedBehind ==
  ASSUME session \in SessionType, session.phase \notin {"absent", "complete"}, NEW s \in Advanced(session)
  PROVE  Behind(session, s)
  <1>1. \A t \in SessionType, phase \in WindowPhases :
          t.round = session.round /\ t.runId = session.runId
            /\ PhaseOrder[session.phase] < PhaseOrder[phase] => Behind(session, Enter(t, phase))
    BY EnterRound DEF Behind
  <1>2. Behind(session, EndGame(session))
    <2>1. /\ EndGame(session).phase = "complete" /\ EndGame(session).round = session.round
          /\ EndGame(session).runId = session.runId
      BY DEF EndGame, SessionType
    <2>2. PhaseOrder[session.phase] < PhaseOrder["complete"]
      BY DEF PhaseOrder, SessionType, Phases, WindowPhases
    <2> QED  BY <2>1, <2>2 DEF Behind
  <1>3. CASE session.phase = "collecting"
    <2> DEFINE closed == [session EXCEPT !.moveDeadline = None, !.moveRemaining = None, !.acted = {}]
    <2>1. closed \in SessionType /\ closed.round = session.round /\ closed.runId = session.runId
      BY DEF SessionType, TimeLeft
    <2>2. s = EndGame(session) \/ \E phase \in Reveals : s = Enter(closed, phase)
      <3>1. CASE Live
        BY <1>3, <3>1, Zenon DEF Advanced
      <3>2. CASE ~Live
        BY <1>3, <3>2, Zenon DEF Advanced, Reveal
      <3> QED  BY <3>1, <3>2
    <2>3. \A phase \in Reveals : phase \in WindowPhases /\ PhaseOrder[session.phase] < PhaseOrder[phase]
      BY <1>3 DEF PhaseOrder, WindowPhases
    <2> HIDE DEF closed
    <2> QED  BY <1>1, <1>2, <2>1, <2>2, <2>3
  <1>4. CASE session.phase = "disputing"
    <2>1. Advanced(session) = {FinalizeRound(session), Enter(session, "voting")}
      BY <1>4, SMTT(20) DEF Advanced
    <2>2. /\ PhaseOrder[session.phase] < PhaseOrder["leaderboard"]
          /\ PhaseOrder[session.phase] < PhaseOrder["voting"]
      BY <1>4 DEF PhaseOrder
    <2> QED  BY <1>1, <2>1, <2>2 DEF FinalizeRound, WindowPhases
  <1>5. CASE session.phase = "leaderboard"
    <2>1. s \in {EndGame(session)} \cup (IF session.round < Rounds THEN NextRound(session) ELSE {})
      BY <1>5, SMTT(20) DEF Advanced
    <2> DEFINE next == [session EXCEPT !.round = @ + 1]
    <2>2. /\ next \in SessionType /\ next.round = session.round + 1 /\ next.runId = session.runId
      BY DEF SessionType
    <2>3. s = EndGame(session) \/ \E w \in MoveWindows : s = StartRoundInto(next, w)
      BY <2>1 DEF NextRound
    <2> HIDE DEF next
    <2>4. \A w \in MoveWindows : Behind(session, StartRoundInto(next, w))
      BY <2>2, FreshRound DEF Behind, SessionType
    <2> QED  BY <1>2, <2>3, <2>4
  <1>6. CASE session.phase \in {"guessing", "voting"}
    <2>1. s \in {FinalizeRound(session)}
      BY <1>6, SMTT(20) DEF Advanced
    <2>2. PhaseOrder[session.phase] < PhaseOrder["leaderboard"]
      BY <1>6 DEF PhaseOrder
    <2> QED  BY <1>1, <2>1, <2>2 DEF FinalizeRound, WindowPhases
  <1> QED  BY <1>3, <1>4, <1>5, <1>6 DEF SessionType, Phases, WindowPhases

-----------------------------------------------------------------------------
(* Every step keeps it.                                                     *)

\* The parts of the invariant that no other lemma keeps.
Due == NoneAhead /\ FiredIsDue /\ Unstarted /\ WindowOwes(session, Owing) /\ Timed(session)

LEMMA AdvanceLockedDue ==
  ASSUME CloseInv, TypeOK', session.phase # "absent", ~session.paused,
         NEW pending \in SUBSET timers, AdvanceLocked(pending)
  PROVE  Due'
  <1> USE DEF CloseInv, PauseInv
  <1>1. PICK s \in Advanced(session) :
          /\ session' = s
          /\ timers' = pending \cup (IF s.phase = "collecting" THEN TimersOf(s) ELSE {})
          /\ windowTimer' = IF s.phase \in WindowPhases THEN WindowTimerFor(s)
                            ELSE IF s.phase = "collecting" THEN NoTimer ELSE windowTimer
          /\ owed' = Allotted(s) /\ lapses' = {}
          /\ runs' = runs
    BY Zenon DEF AdvanceLocked
  <1>0. Owing' = Allotted(s)
    BY <1>1 DEF Owing
  <1>2. s \in SessionType /\ s.phase \in Phases /\ session \in SessionType
    BY AdvancedType DEF TypeOK
  <1>3. WindowOwes(s, Allotted(s)) /\ Timed(s)
    BY <1>2, AllottedOwes, AdvancedTimed DEF TypeOK
  <1>4. KeepsWindows
    <2>1. \A t \in timers' : t.kind = "window" => t \in timers
      BY <1>1, NoWindowTimers
    <2>2. CASE s.phase \in WindowPhases
      <3>1. WindowTimerFor(s).kind = "window" => Allows(WindowTimerFor(s), s, Allotted(s))
        BY <1>2, <2>2, AllottedOwes, ArmedAllows
      <3> QED  BY <1>0, <1>1, <2>1, <2>2, <3>1 DEF KeepsWindows
    <2>3. CASE s.phase \notin WindowPhases
      BY <1>1, <2>1, <2>3 DEF KeepsWindows
    <2> QED  BY <2>2, <2>3
  <1>5. NoneAhead' /\ FiredIsDue'
    <2>1. CASE session.phase = "complete"
      <3>1. s = session
        BY <2>1 DEF Advanced
      <3>2. Owing' = 0
        BY <1>0, <2>1, <3>1 DEF Allotted, WindowPhases
      <3> QED  BY <1>1, <1>4, <3>1, <3>2, StaysInPhase, OwingType DEF Alongside
    <2>2. CASE session.phase # "complete"
      <3>1. Behind(session, s)
        BY <1>2, <2>2, AdvancedBehind
      <3>2. s.phase # "absent"
        BY <1>2 DEF Phases, WindowPhases
      <3> QED  BY <1>1, <1>4, <3>1, <3>2, MovesOn
    <2> QED  BY <2>1, <2>2
  <1>6. Unstarted'
    BY <1>1 DEF Unstarted
  <1> QED  BY <1>0, <1>1, <1>3, <1>5, <1>6 DEF Due

LEMMA OpenFirstRoundDue ==
  ASSUME CloseInv, TypeOK', NEW s \in SessionType, OpenFirstRound(s),
         session.phase # "absent" => session.runId < s.runId,
         session.phase = "absent" => timers = {}
  PROVE  Due'
  <1> USE DEF CloseInv, PauseInv
  <1>1. PICK w \in MoveWindows :
          /\ session' = StartRoundInto(s, w)
          /\ timers' = timers \cup {[t EXCEPT !.run = runs + 1] : t \in TimersOf(StartRoundInto(s, w))}
          /\ owed' = Allotted(StartRoundInto(s, w))
    BY DEF OpenFirstRound
  <1> DEFINE r == StartRoundInto(s, w)
  <1>2. r \in SessionType /\ r.phase = "collecting" /\ r.runId = s.runId
    BY StartRoundType, FreshRound
  <1>3. Timed(r)
    BY DEF StartRoundInto, Timed, SessionType
  <1> HIDE DEF r
  <1>4. windowTimer' = NoTimer /\ runs' = runs + 1 /\ runs \in Nat
    BY DEF OpenFirstRound, TypeOK
  <1>5. \A t \in timers' : t.kind = "window" => t \in timers
    <2>1. \A t \in TimersOf(r) : [t EXCEPT !.run = runs + 1].kind # "window"
      BY <1>4, NoWindowTimers
    <2> QED  BY <1>1, <2>1 DEF r
  <1>6. NoneAhead' /\ FiredIsDue'
    <2>1. CASE session.phase = "absent"
      BY <1>4, <1>5, <2>1 DEF NoneAhead, FiredIsDue, NoTimer
    <2>2. CASE session.phase # "absent"
      <3>1. Behind(session, session')
        BY <1>1, <1>2, <2>2 DEF Behind, r
      <3>2. KeepsWindows
        BY <1>4, <1>5 DEF KeepsWindows
      <3> QED  BY <1>1, <1>2, <2>2, <3>1, <3>2, MovesOn DEF r
    <2> QED  BY <2>1, <2>2
  <1>7. WindowOwes(r, Owing')
    BY <1>2 DEF WindowOwes, WindowPhases
  <1>8. Unstarted'
    BY <1>4 DEF Unstarted
  <1> QED  BY <1>1, <1>3, <1>6, <1>7, <1>8 DEF Due, r

LEMMA ControlsDue ==
  ASSUME CloseInv, TypeOK', Controls, ~StartAgain
  PROVE  Due'
  <1> USE DEF CloseInv, PauseInv
  <1>0. session \in SessionType /\ Owing \in Nat
    BY OwingType DEF TypeOK
  <1>1. CASE Start
    <2> DEFINE s == [NoSession EXCEPT !.runId = 1, !.round = 1]
    <2>1. s \in SessionType
      BY NoSessionType DEF SessionType
    <2> HIDE DEF s
    <2>2. session.phase = "absent" /\ timers = {}
      BY <1>1 DEF Start, Unstarted
    <2> QED  BY <1>1, <2>1, <2>2, OpenFirstRoundDue DEF Start, s
  <1>2. CASE Restart
    <2>1. NextRun(session) \in SessionType /\ session.runId < NextRun(session).runId
      <3>1. NextRun(session).runId = session.runId + 1
        BY <1>0 DEF NextRun, SessionType
      <3> QED  BY <1>0, <3>1, NextRunType DEF SessionType
    <2>2. session.phase # "absent"
      BY <1>2 DEF Restart
    <2> QED  BY <1>2, <2>1, <2>2, OpenFirstRoundDue DEF Restart
  <1>3. CASE Pause
    <2> DEFINE t == [session EXCEPT !.paused = TRUE]
    <2>1. t \in SessionType /\ Alongside(session, t)
      BY <1>0 DEF SessionType, Alongside
    <2>2. WindowOwes(t, Owing) /\ Timed(t)
      BY <1>0 DEF SessionType, WindowOwes, Timed
    <2>3. /\ session' = FreezeWindow(FreezeMoveWindow(t)) /\ session.phase # "absent"
          /\ windowTimer' = NoTimer /\ timers' = timers /\ runs' = runs /\ Owing' = Owing
      BY <1>3, SameOwing DEF Pause
    <2> HIDE DEF t
    <2>4. WindowOwes(session', Owing') /\ Timed(session')
      BY <1>0, <2>1, <2>2, <2>3, FreezeOwes
    <2>5. Alongside(session, session')
      BY <2>1, <2>3, FreezeAlongside DEF Alongside
    <2>6. KeepsWindows
      BY <2>3 DEF KeepsWindows
    <2>7. NoneAhead' /\ FiredIsDue'
      BY <1>0, <2>3, <2>5, <2>6, StaysInPhase
    <2>8. Unstarted'
      BY <2>3 DEF Unstarted
    <2> QED  BY <2>4, <2>7, <2>8 DEF Due
  <1>4. CASE Unpause
    <2> DEFINE t == [session EXCEPT !.paused = FALSE]
               saved == ResumeMoveWindow(t)
    <2>1. /\ t \in SessionType /\ Alongside(session, t) /\ ~t.paused
          /\ t.windowDeadline = session.windowDeadline /\ t.windowRemaining = session.windowRemaining
      BY <1>0 DEF SessionType, Alongside
    <2>2. WindowOwes(t, Owing) /\ Timed(t)
      BY <1>0, <2>1 DEF SessionType, WindowOwes, Timed, Alongside
    <2>3. /\ session' = saved /\ session.phase # "absent" /\ session.paused
          /\ timers' = timers \cup ResumeMoveTimers(saved) \cup ResumeDecisionTimers(saved)
          /\ windowTimer' = IF saved.phase \in WindowPhases
                            THEN WindowTimerFor(ResumeWindow(saved)) ELSE windowTimer
          /\ runs' = runs /\ Owing' = Owing
      BY <1>4, SameOwing DEF Unpause
    <2> HIDE DEF t
    <2>4. /\ saved \in SessionType /\ Alongside(session, saved) /\ ~saved.paused
          /\ WindowOwes(saved, Owing) /\ Timed(saved)
          /\ saved.windowDeadline = session.windowDeadline
          /\ saved.windowRemaining = session.windowRemaining
      BY <1>0, <2>1, <2>2, ResumeMoveType, ResumeAlongside, ResumeMoveOwes DEF Alongside
    <2> HIDE DEF saved
    <2>5. KeepsWindows
      <3>1. \A u \in timers' : u.kind = "window" => u \in timers
        BY <2>3, NoWindowTimers
      <3>2. CASE saved.phase \in WindowPhases
        <4> DEFINE r == ResumeWindow(saved)
        <4>1. saved.windowDeadline = None
          BY <2>3, <2>4 DEF PausedMeansFrozen
        <4>2. Owing > 0 => saved.windowRemaining >= Owing
          BY <2>4, <3>2, <4>1 DEF WindowOwes
        <4>3. /\ r \in SessionType /\ Alongside(saved, r)
              /\ r.windowDeadline # None => r.windowDeadline >= Owing
          BY <1>0, <2>4, <3>2, <4>2, ResumeWindowType, ResumeAlongside, ResumeWindowOwes
        <4> HIDE DEF r
        <4>4. WindowTimerFor(r).kind = "window" => Allows(WindowTimerFor(r), r, Owing)
          BY <3>2, <4>3, ArmedAllows DEF Alongside
        <4>5. windowTimer' = WindowTimerFor(r)
          BY <2>3, <3>2 DEF r
        <4>6. windowTimer'.kind = "window" => Allows(windowTimer', session', Owing')
          BY <2>3, <4>3, <4>4, <4>5 DEF Allows, Behind, Expires, Alongside
        <4> QED  BY <3>1, <4>6 DEF KeepsWindows
      <3>3. CASE saved.phase \notin WindowPhases
        BY <2>3, <3>1, <3>3 DEF KeepsWindows
      <3> QED  BY <3>2, <3>3
    <2>6. NoneAhead' /\ FiredIsDue'
      BY <1>0, <2>3, <2>4, <2>5, StaysInPhase
    <2>7. Unstarted'
      BY <2>3 DEF Unstarted
    <2> QED  BY <2>3, <2>4, <2>6, <2>7 DEF Due
  <1>5. CASE HostAdvance
    BY <1>5, AdvanceLockedDue DEF HostAdvance
  <1>6. CASE Exit
    <2>1. /\ session' = NoSession /\ timers' = timers /\ windowTimer' = windowTimer /\ runs' = runs
          /\ session.phase # "absent"
      BY <1>6 DEF Exit
    <2>2. FiredIsDue' /\ Unstarted' /\ NoneAhead'
      BY <2>1 DEF FiredIsDue, Unstarted, NoneAhead, NoSession
    <2>3. WindowOwes(session', Owing') /\ Timed(session')
      BY <2>1 DEF NoSession, WindowOwes, Timed, WindowPhases
    <2> QED  BY <2>2, <2>3 DEF Due
  <1> QED  BY <1>1, <1>2, <1>3, <1>4, <1>5, <1>6 DEF Controls

LEMMA DevicesDue ==
  ASSUME CloseInv, TypeOK', Devices
  PROVE  Due'
  <1> USE DEF CloseInv, PauseInv
  <1>0. session \in SessionType /\ Owing \in Nat /\ Owing <= owed
    BY OwingType DEF TypeOK
  <1>1. CASE HostReturns
    <2> DEFINE t == [session EXCEPT !.connected = @ \cup {Host}, !.paused = FALSE, !.hostPaused = FALSE]
               r == IF t.phase \in WindowPhases THEN ResumeWindow(t) ELSE ResumeMoveWindow(t)
    <2>1. /\ t \in SessionType /\ Alongside(session, t) /\ ~t.paused
          /\ t.windowDeadline = session.windowDeadline /\ t.windowRemaining = session.windowRemaining
      BY <1>0, <1>1 DEF HostReturns, SessionType, Alongside
    <2>2. WindowOwes(t, Owing) /\ Timed(t)
      BY <1>0, <1>1 DEF HostReturns, SessionType, WindowOwes, Timed
    <2>3. /\ session' = r /\ session.phase # "absent" /\ runs' = runs
          /\ timers' = timers \cup ResumeMoveTimers(r) \cup ResumeDecisionTimers(r)
          /\ windowTimer' = IF r.phase \in WindowPhases THEN WindowTimerFor(r) ELSE windowTimer
          /\ owed' = owed /\ lapses' = Retimed \cup (IF Cut(r) THEN {"cut"} ELSE {})
      BY <1>1, Zenon DEF HostReturns
    <2>31. Owing' = IF Cut(r) THEN 0 ELSE Owing
      <3>1. Cut(r) => "cut" \in lapses'
        BY <2>3
      <3>2. ~Cut(r) => lapses' = Retimed
        BY <2>3
      <3> QED  BY <2>3, <3>1, <3>2, SameOwing DEF Owing
    <2> HIDE DEF t
    <2>4. r \in SessionType /\ Alongside(session, r)
      BY <2>1, ResumeMoveType, ResumeWindowType, ResumeAlongside DEF Alongside
    <2>5. Owing' \in Nat /\ Owing' <= Owing
      BY <1>0, <2>31
    <2>6. Unstarted'
      BY <2>3 DEF Unstarted
    <2>7. \A u \in timers' : u.kind = "window" => u \in timers
      BY <2>3, NoWindowTimers
    <2>8. CASE t.phase \notin WindowPhases
      <3>1. r = ResumeMoveWindow(t) /\ r.phase \notin WindowPhases
        BY <2>1, <2>4, <2>8 DEF Alongside
      <3>2. WindowOwes(r, Owing) /\ Timed(r) /\ Owing' = Owing
        BY <1>0, <2>1, <2>2, <2>31, <3>1, ResumeMoveOwes DEF Cut
      <3>3. KeepsWindows
        BY <2>3, <2>7, <3>1 DEF KeepsWindows
      <3> HIDE DEF r
      <3>4. NoneAhead' /\ FiredIsDue'
        BY <2>3, <2>4, <2>5, <3>3, StaysInPhase
      <3> QED  BY <2>3, <2>6, <3>2, <3>4 DEF Due
    <2>9. CASE t.phase \in WindowPhases
      <3>1. r = ResumeWindow(t) /\ r.phase = t.phase
        BY <2>1, <2>4, <2>9 DEF Alongside
      <3>2. /\ Timed(r) /\ WindowOwes(r, Owing')
            /\ r.windowDeadline # None => r.windowDeadline >= Owing'
        <4>1. CASE session.paused
          <5>1. Owing' = Owing
            BY <2>31, <4>1 DEF Cut
          <5>2. Owing > 0 => t.windowRemaining >= Owing
            BY <2>1, <2>2, <2>9, <4>1 DEF PausedMeansFrozen, WindowOwes
          <5>3. /\ Timed(r)
                /\ Owing > 0 => r.windowDeadline # None
                /\ r.windowDeadline # None => r.windowDeadline >= Owing
            BY <1>0, <2>1, <2>2, <2>9, <3>1, <5>2, ResumeWindowOwes
          <5> HIDE DEF r
          <5> QED  BY <5>1, <5>3 DEF WindowOwes
        <4>2. CASE ~session.paused
          <5>1. Timed(r)
            <6>1. r.moveDeadline = t.moveDeadline /\ r.moveWindow = t.moveWindow
              <7> DEFINE c == [t EXCEPT !.windowRemaining = None]
                         left == IF Default(t.windowRemaining, WindowMsFor(t.phase)) <= 0 \/ c.paused
                                 THEN None ELSE Default(t.windowRemaining, WindowMsFor(t.phase))
              <7>1. r = [c EXCEPT !.windowDeadline = left]
                BY <3>1, Zenon DEF ResumeWindow, ArmWindow
              <7>2. c \in SessionType /\ c.moveDeadline = t.moveDeadline /\ c.moveWindow = t.moveWindow
                BY <2>1 DEF SessionType, TimeLeft
              <7> HIDE DEF c, left, r
              <7> QED  BY <7>1, <7>2 DEF SessionType
            <6> HIDE DEF r
            <6> QED  BY <2>2, <6>1 DEF Timed
          <5>2. Owing' <= Allotted(r)
            <6> HIDE DEF r
            <6>1. Allotted(r) \in Nat
              BY <2>4, AllottedType
            <6> QED  BY <1>0, <2>31, <2>9, <3>1, <4>2, <6>1 DEF Cut, TypeOK
          <5> HIDE DEF r
          <5>3. r.windowDeadline # None => r.windowDeadline >= Allotted(r)
            BY <2>4, <2>9, <3>1, AllottedOwes
          <5>4. r.windowDeadline = None => Allotted(r) = 0
            BY <2>9, <3>1 DEF Allotted, Default, WindowPhases
          <5>5. r.windowDeadline \in TimeLeft /\ Allotted(r) \in Nat
            BY <2>4, AllottedType DEF SessionType
          <5> QED  BY <2>5, <5>1, <5>2, <5>3, <5>4, <5>5 DEF WindowOwes, TimeLeft, None
        <4> QED  BY <4>1, <4>2
      <3> HIDE DEF r
      <3>3. WindowTimerFor(r).kind = "window" => Allows(WindowTimerFor(r), r, Owing')
        BY <2>4, <2>9, <3>1, <3>2, ArmedAllows
      <3>4. windowTimer' = WindowTimerFor(r)
        BY <2>3, <2>9, <3>1
      <3>5. KeepsWindows
        BY <2>3, <2>7, <3>3, <3>4 DEF KeepsWindows
      <3>6. NoneAhead' /\ FiredIsDue'
        BY <2>3, <2>4, <2>5, <3>5, StaysInPhase
      <3> QED  BY <2>3, <2>6, <3>2, <3>6 DEF Due
    <2> QED  BY <2>8, <2>9
  <1>2. ASSUME Alongside(session, session'), session'.windowDeadline = session.windowDeadline,
               session'.windowRemaining = session.windowRemaining,
               session'.moveDeadline = session.moveDeadline, session'.moveWindow = session.moveWindow,
               \A t \in timers' : t.kind = "window" => t \in timers,
               windowTimer' = windowTimer, runs' = runs, Owing' = Owing,
               session.phase # "absent"
        PROVE  Due'
    <2>1. NoneAhead' /\ FiredIsDue'
      BY <1>0, <1>2, StaysInPhase DEF KeepsWindows
    <2>2. Unstarted'
      BY <1>2 DEF Unstarted
    <2>3. WindowOwes(session', Owing') /\ Timed(session')
      BY <1>2 DEF WindowOwes, Timed, Alongside
    <2> QED  BY <2>1, <2>2, <2>3 DEF Due
  <1>3. ASSUME NEW p \in Players, Join(p) \/ SubmitMove(p) \/ SubmitVote(p)
        PROVE  Due'
    <2>1. \/ session' = session
          \/ session' = [session EXCEPT !.connected = @ \cup {p}]
          \/ session' = [session EXCEPT !.acted = @ \cup {p}]
      BY <1>3, Zenon DEF Join, SubmitMove, SubmitVote
    <2>2. /\ Alongside(session, session') /\ session'.windowDeadline = session.windowDeadline
          /\ session'.windowRemaining = session.windowRemaining
          /\ session'.moveDeadline = session.moveDeadline /\ session'.moveWindow = session.moveWindow
      BY <1>0, <2>1 DEF SessionType, Alongside
    <2>3. windowTimer' = windowTimer /\ runs' = runs /\ Owing' = Owing /\ session.phase # "absent"
      BY <1>3, SameOwing DEF Join, SubmitMove, SubmitVote, memory, history
    <2>4. \A t \in timers' : t.kind = "window" => t \in timers
      <3>1. CASE Join(p)
        BY <3>1 DEF Join, memory
      <3>2. CASE SubmitMove(p)
        <4> DEFINE s == [session EXCEPT !.acted = @ \cup {p}]
        <4>1. \/ timers' = timers
              \/ timers' = timers \cup AutoAdvanceIfAllActed(s)
                    \cup (IF s.moveDeadline = None THEN {} ELSE ArmMoveWindow(s, s.moveDeadline))
          BY <3>2 DEF SubmitMove
        <4> HIDE DEF s
        <4> QED  BY <4>1, NoWindowTimers
      <3>3. CASE SubmitVote(p)
        <4>1. timers' = timers \/ timers' = timers \cup AutoAdvanceIfAllActed(session')
          BY <3>3 DEF SubmitVote
        <4>2. PICK s : s = session'
          OBVIOUS
        <4> QED  BY <4>1, <4>2, NoWindowTimers
      <3> QED  BY <1>3, <3>1, <3>2, <3>3
    <2> QED  BY <1>2, <2>2, <2>3, <2>4
  <1>4. ASSUME NEW p \in Players, Disconnect(p)
        PROVE  Due'
    <2> DEFINE s == [session EXCEPT !.connected = @ \ {p}]
               t == [s EXCEPT !.paused = TRUE, !.hostPaused = TRUE]
    <2>1. /\ s \in SessionType /\ t \in SessionType
          /\ Alongside(session, s) /\ Alongside(session, t)
          /\ s.windowDeadline = session.windowDeadline /\ s.windowRemaining = session.windowRemaining
          /\ s.moveDeadline = session.moveDeadline /\ s.moveWindow = session.moveWindow
          /\ t.windowDeadline = session.windowDeadline /\ t.windowRemaining = session.windowRemaining
          /\ t.moveDeadline = session.moveDeadline /\ t.moveWindow = session.moveWindow
      BY <1>0 DEF SessionType, Alongside
    <2>2. session.phase # "absent" /\ runs' = runs /\ Owing' = Owing
      BY <1>4, SameOwing DEF Disconnect, history
    <2>3. CASE p = Host /\ ~s.paused /\ s.phase # "complete"
      <3>1. session' = FreezeWindow(FreezeMoveWindow(t)) /\ windowTimer' = NoTimer /\ timers' = timers
        BY <1>4, <2>3, Zenon DEF Disconnect
      <3> HIDE DEF s, t
      <3>2. WindowOwes(t, Owing) /\ Timed(t)
        BY <2>1 DEF WindowOwes, Timed, Alongside
      <3>3. WindowOwes(session', Owing') /\ Timed(session') /\ Alongside(session, session')
        BY <1>0, <2>1, <2>2, <3>1, <3>2, FreezeOwes, FreezeAlongside DEF Alongside
      <3>4. NoneAhead' /\ FiredIsDue'
        BY <1>0, <2>2, <3>1, <3>3, StaysInPhase DEF KeepsWindows
      <3>5. Unstarted'
        BY <2>2, <3>1 DEF Unstarted
      <3> QED  BY <3>3, <3>4, <3>5 DEF Due
    <2>4. CASE ~(p = Host /\ ~s.paused /\ s.phase # "complete")
      <3>1. session' = s /\ windowTimer' = windowTimer
        BY <1>4, <2>4, Zenon DEF Disconnect
      <3>2. timers' = timers \/ timers' = timers \cup AutoAdvanceIfAllActed(s)
        BY <1>4, <2>4, Zenon DEF Disconnect
      <3>3. \A u \in timers' : u.kind = "window" => u \in timers
        BY <3>2, NoWindowTimers
      <3> HIDE DEF s
      <3> QED  BY <1>2, <2>1, <2>2, <3>1, <3>3
    <2> QED  BY <2>3, <2>4
  <1> QED  BY <1>1, <1>3, <1>4 DEF Devices

LEMMA TickDue ==
  ASSUME CloseInv, TypeOK', Tick
  PROVE  Due'
  <1> USE DEF CloseInv, PauseInv
  <1>0. /\ session \in SessionType /\ Owing \in Nat
        /\ timers \subseteq TimerType /\ windowTimer \in TimerType \cup {NoTimer}
    BY OwingType DEF TypeOK
  <1>1. /\ Alongside(session, session')
        /\ session'.moveDeadline = Less(session.moveDeadline) /\ session'.moveWindow = session.moveWindow
        /\ session'.windowDeadline = Less(session.windowDeadline)
        /\ session'.windowRemaining = session.windowRemaining
    BY <1>0 DEF Tick, SessionType, Alongside
  <1>2. timers' = {Pass(t) : t \in timers} /\ windowTimer' = Pass(windowTimer) /\ runs' = runs
    BY DEF Tick
  <1>3. Owing' = IF session.paused THEN Owing ELSE Less(Owing)
    <2>1. lapses' = lapses /\ owed' = IF session.paused THEN owed ELSE Less(owed)
      BY Zenon DEF Tick
    <2> QED  BY <2>1 DEF Owing, Less
  <1>4. ASSUME NEW t \in TimerType, t.kind = "window"
        PROVE  /\ Pass(t).kind = "window" /\ Pass(t).left = Less(t.left) /\ Pass(t).phase = t.phase
               /\ Pass(t).round = t.round /\ Pass(t).runId = t.runId
    <2>1. t # NoTimer
      BY <1>4 DEF NoTimer
    <2>2. Pass(t) = [t EXCEPT !.left = Less(@)]
      BY <2>1 DEF Pass
    <2> QED  BY <1>4, <2>2 DEF TimerType
  <1>5. \A t \in TimerType \cup {NoTimer} : Pass(t).kind = "window" => t.kind = "window" /\ t \in TimerType
    <2> SUFFICES ASSUME NEW t \in TimerType \cup {NoTimer}, Pass(t).kind = "window"
                 PROVE  t.kind = "window" /\ t \in TimerType
      OBVIOUS
    <2>1. CASE t = NoTimer
      BY <2>1 DEF Pass, NoTimer
    <2>2. CASE t # NoTimer
      <3>1. Pass(t) = [t EXCEPT !.left = Less(@)]
        BY <2>2 DEF Pass
      <3> QED  BY <2>2, <3>1 DEF TimerType
    <2> QED  BY <2>1, <2>2
  <1>6. FiredIsDue'
    <2> SUFFICES ASSUME NEW t \in timers, Pass(t).kind = "window"
                 PROVE  Pass(t).left = 0
      BY <1>2 DEF FiredIsDue
    <2>1. t.kind = "window" /\ t \in TimerType /\ t.left = 0
      BY <1>0, <1>5 DEF FiredIsDue
    <2> QED  BY <1>4, <2>1 DEF Less
  <1>7. NoneAhead'
    <2> SUFFICES ASSUME session'.phase # "absent", NEW u \in timers' \cup {windowTimer'}, u.kind = "window"
                 PROVE  Allows(u, session', Owing')
      BY DEF NoneAhead
    <2>1. PICK t \in timers \cup {windowTimer} : u = Pass(t)
      BY <1>2
    <2>2. t.kind = "window" /\ t \in TimerType
      BY <1>0, <1>5, <2>1
    <2>3. Allows(t, session, Owing)
      BY <1>1, <2>2 DEF NoneAhead, Alongside
    <2>4. /\ u.left = Less(t.left) /\ u.phase = t.phase /\ u.round = t.round /\ u.runId = t.runId
      BY <1>4, <2>1, <2>2
    <2>5. CASE Behind(t, session)
      <3>1. Behind(u, session')
        BY <1>1, <2>4, <2>5 DEF Behind, Alongside
      <3> QED  BY <2>3, <2>4, <3>1 DEF Allows
    <2>6. CASE Expires(t, session) /\ t.left >= Owing
      <3>1. Less(t.left) >= Owing'
        <4>1. CASE session.paused
          <5>1. t \in timers
            BY <2>2, <4>1 DEF PausedMeansFrozen, NoTimer
          <5>2. t.left = 0
            BY <2>2, <5>1 DEF FiredIsDue
          <5> QED  BY <1>0, <1>3, <2>6, <4>1, <5>2 DEF Less
        <4>2. CASE ~session.paused
          BY <1>0, <1>3, <2>2, <2>6, <4>2 DEF Less, TimerType
        <4> QED  BY <4>1, <4>2
      <3>2. Expires(u, session')
        BY <1>1, <2>4, <2>6 DEF Expires, Alongside
      <3> QED  BY <2>3, <2>4, <3>1, <3>2 DEF Allows
    <2> QED  BY <2>3, <2>5, <2>6 DEF Allows
  <1>8. WindowOwes(session', Owing')
    <2> SUFFICES ASSUME session.phase \in WindowPhases, Owing' > 0
                 PROVE  IF session'.windowDeadline # None THEN session'.windowDeadline >= Owing'
                        ELSE session'.windowRemaining >= Owing'
      BY <1>1 DEF WindowOwes, Alongside
    <2>1. Owing > 0 /\ Owing' <= Owing
      BY <1>0, <1>3 DEF Less
    <2>2. IF session.windowDeadline # None THEN session.windowDeadline >= Owing
          ELSE session.windowRemaining >= Owing
      BY <2>1 DEF WindowOwes
    <2>3. CASE session.windowDeadline = None
      BY <1>0, <1>1, <1>3, <2>1, <2>2, <2>3 DEF Less, None, SessionType, TimeLeft
    <2>4. CASE session.windowDeadline # None
      <3>1. ~session.paused
        BY <2>4 DEF PausedMeansFrozen
      <3> QED  BY <1>0, <1>1, <1>3, <2>2, <2>4, <3>1 DEF Less, None, SessionType, TimeLeft
    <2> QED  BY <2>3, <2>4
  <1>9. Timed(session')
    BY <1>1 DEF Timed, Less, None
  <1>10. Unstarted'
    BY <1>1, <1>2 DEF Unstarted, Alongside, Pass
  <1> QED  BY <1>6, <1>7, <1>8, <1>9, <1>10 DEF Due

LEMMA ClockworkDue ==
  ASSUME CloseInv, TypeOK', Clockwork
  PROVE  Due'
  <1> USE DEF CloseInv, PauseInv
  <1>0. session \in SessionType /\ Owing \in Nat /\ timers \subseteq TimerType
    BY OwingType DEF TypeOK
  <1>1. CASE FireWindow
    <2>1. /\ session' = session /\ windowTimer # NoTimer /\ windowTimer.left = 0
          /\ timers' = timers \cup {windowTimer} /\ windowTimer' = NoTimer
          /\ runs' = runs /\ Owing' = Owing
      BY <1>1, SameOwing DEF FireWindow, history
    <2>2. NoneAhead' /\ FiredIsDue'
      BY <2>1 DEF NoneAhead, FiredIsDue, NoTimer
    <2>3. Unstarted'
      BY <2>1 DEF Unstarted
    <2> QED  BY <2>1, <2>2, <2>3 DEF Due, WindowOwes, Timed
  <1>2. ASSUME UNCHANGED <<session, windowTimer, runs, Owing>>, timers' \subseteq timers
        PROVE  Due'
    <2>1. NoneAhead' /\ FiredIsDue' /\ Unstarted'
      BY <1>2 DEF NoneAhead, FiredIsDue, Unstarted
    <2> QED  BY <1>2, <2>1 DEF Due, WindowOwes, Timed
  <1>3. CASE SimTick
    BY <1>2, <1>3, SameOwing DEF SimTick, history
  <1>4. CASE SimOver
    <2>1. /\ session' = EndGame(session) /\ Owing' = 0 /\ runs' = runs
          /\ timers' = timers /\ windowTimer' = windowTimer
          /\ session.phase \notin {"absent", "complete"}
      BY <1>4 DEF SimOver, Simulating, Owing
    <2>2. /\ session'.phase = "complete" /\ session'.round = session.round
          /\ session'.runId = session.runId
          /\ session'.moveDeadline = session.moveDeadline /\ session'.moveWindow = session.moveWindow
      BY <1>0, <2>1 DEF EndGame, SessionType
    <2>3. Behind(session, session')
      <3>1. PhaseOrder[session.phase] < PhaseOrder["complete"]
        BY <1>0, <2>1 DEF PhaseOrder, SessionType, Phases, WindowPhases
      <3> QED  BY <2>2, <3>1 DEF Behind
    <2>4. NoneAhead' /\ FiredIsDue'
      BY <2>1, <2>2, <2>3, MovesOn DEF KeepsWindows
    <2>5. Unstarted'
      BY <2>1 DEF Unstarted
    <2> QED  BY <2>1, <2>2, <2>4, <2>5 DEF Due, WindowOwes, WindowPhases, Timed
  <1>5. CASE Tick
    BY <1>5, TickDue
  <1>6. CASE Expire
    <2>1. session' = NoSession /\ timers' = timers /\ windowTimer' = windowTimer /\ runs' = runs
      BY <1>6 DEF Expire, memory
    <2> QED  BY <2>1 DEF Due, NoneAhead, FiredIsDue, Unstarted, WindowOwes, Timed, NoSession, WindowPhases
  <1>7. ASSUME NEW t \in timers, RunTimer(t)
        PROVE  Due'
    <2>1. CASE /\ timers' = timers \ {t}
               /\ UNCHANGED <<session, windowTimer, simTimer, simFailures, worker, history>>
      BY <1>2, <2>1, SameOwing DEF history
    <2>2. CASE /\ timers' = (timers \ {t}) \cup ArmMoveWindow(session, session.moveDeadline)
               /\ UNCHANGED <<session, windowTimer, simTimer, simFailures, worker, history>>
               /\ ~Void(t)
      <3>1. session.phase # "absent"
        BY <1>0, <2>2 DEF Void, StillCurrent, TimerType, Phases, WindowPhases
      <3>2. \A u \in timers' : u.kind = "window" => u \in timers
        BY <2>2, NoWindowTimers
      <3>3. session' = session /\ windowTimer' = windowTimer /\ runs' = runs /\ Owing' = Owing
        BY <2>2, SameOwing DEF history
      <3>4. NoneAhead' /\ FiredIsDue'
        BY <1>0, <3>2, <3>3, StaysInPhase DEF KeepsWindows, Alongside
      <3>5. Unstarted'
        BY <3>1, <3>3 DEF Unstarted
      <3> QED  BY <3>3, <3>4, <3>5 DEF Due, WindowOwes, Timed
    <2>3. CASE ~Void(t) /\ AdvanceLocked(timers \ {t})
      <3>1. session.phase # "absent" /\ ~session.paused
        BY <1>0, <2>3 DEF Void, StillCurrent, TimerType, Phases, WindowPhases
      <3> QED  BY <2>3, <3>1, AdvanceLockedDue
    <2> QED  BY <1>7, <2>1, <2>2, <2>3 DEF RunTimer
  <1> QED  BY <1>1, <1>3, <1>4, <1>5, <1>6, <1>7 DEF Clockwork

LEMMA CrashDue ==
  ASSUME CloseInv, Crash
  PROVE  Due'
  <1>1. session' = session /\ timers' = {} /\ windowTimer' = NoTimer /\ runs' = runs /\ Owing' = Owing
    BY SameOwing DEF Crash
  <1>2. NoneAhead' /\ FiredIsDue' /\ Unstarted'
    BY <1>1 DEF CloseInv, NoneAhead, FiredIsDue, Unstarted, NoTimer
  <1> QED  BY <1>1, <1>2 DEF CloseInv, Due, WindowOwes, Timed

LEMMA OnlyCrashes ==
  ASSUME {"worker", "redis"} \cap Faults = {}, Failures
  PROVE  Crash
  BY DEF Failures, SimTickFails, SimOverFails, HostAdvanceFails, RestartOrExitFails,
         HostReturnsFails, RunTimerFails, AdvanceFails

\* A timed phase is closed by the clock only when it owes nothing any more, or when a
\* returning host has cut its window short (engine.ts, resumeWindow).  Every other
\* callback finds its phase, its round, its run or the deadline moved on, however often
\* the table was paused, dropped out of and crashed in between (engine.ts, the guards of
\* armMoveWindow and armWindow).  A session begun again after an exit numbers its games
\* from one again, and an advance that rejects leaves the timer of a phase that was not
\* entered: with either, a callback can pass a guard meant for another.
THEOREM NothingClosesEarly ==
  ASSUME ~StartAgain, {"worker", "redis"} \cap Faults = {}
  PROVE  Spec => []NoEarlyClose
  <1>1. Init => CloseInv
    <2> SUFFICES ASSUME Init PROVE CloseInv
      OBVIOUS
    <2>1. PauseInv
      BY InitType DEF Init, NoSession, PauseInv, OnlyLiveLoops, Clean, PausedMeansFrozen
    <2>2. Grants(session, owed) /\ WindowOwes(session, Owing) /\ Timed(session)
      BY DEF Init, NoSession, Grants, Owing, WindowOwes, Timed, WindowPhases
    <2>3. NoneAhead /\ FiredIsDue /\ Unstarted
      BY DEF Init, NoSession, NoneAhead, FiredIsDue, Unstarted
    <2> QED  BY <2>1, <2>2, <2>3 DEF CloseInv
  <1>2. CloseInv /\ [Next]_vars => CloseInv'
    <2>1. ASSUME CloseInv, UNCHANGED vars
          PROVE  CloseInv'
      <3>1. /\ session' = session /\ timers' = timers /\ windowTimer' = windowTimer
            /\ simTimer' = simTimer /\ runs' = runs /\ Owing' = Owing
        BY <2>1, SameOwing DEF vars, memory, history
      <3>2. PauseInv'
        BY <2>1 DEF CloseInv, PauseInv, OnlyLiveLoops, Clean, PausedMeansFrozen, TypeOK, vars, memory, history
      <3>3. NoneAhead' /\ FiredIsDue' /\ Unstarted'
        BY <2>1, <3>1 DEF CloseInv, NoneAhead, FiredIsDue, Unstarted
      <3>4. owed' = owed
        BY <2>1 DEF vars, history
      <3> QED  BY <2>1, <3>1, <3>2, <3>3, <3>4 DEF CloseInv, Grants, WindowOwes, Timed
    <2>2. ASSUME CloseInv, Next
          PROVE  CloseInv'
      <3>1. Failures => Crash
        BY OnlyCrashes
      <3>2. "worker" \notin Faults
        OBVIOUS
      <3>3. PauseInv'
        BY <2>2, <3>2, NextType, LoopsStayLive, ControlsPause, DevicesPause, ClockworkPause, FailuresPause
           DEF CloseInv, PauseInv, Next
      <3>4. Grants(session, owed)'
        BY <2>2, ControlsGrant, DevicesGrant, ClockworkGrant, FailuresGrant DEF CloseInv, PauseInv, Next
      <3>5. Due'
        BY <2>2, <3>1, <3>3, ControlsDue, DevicesDue, ClockworkDue, CrashDue DEF PauseInv, Next
      <3> QED  BY <3>3, <3>4, <3>5 DEF CloseInv, Due
    <2> QED  BY <2>1, <2>2
  <1>3. CloseInv => NoEarlyClose
    <2> SUFFICES ASSUME CloseInv, NEW t \in timers, t.kind # "auto", t.left = 0, ~Void(t), ~Early(t)
                 PROVE  owed = 0 \/ (t.kind = "window" /\ "cut" \in lapses)
      BY DEF NoEarlyClose
    <2>0. session \in SessionType /\ Owing \in Nat /\ owed \in Nat /\ t \in TimerType
      BY OwingType DEF CloseInv, PauseInv, TypeOK
    <2>1. session.phase # "absent" /\ ~session.paused /\ Expires(t, session)
      BY <2>0 DEF Void, StillCurrent, Expires, TimerType, Phases, WindowPhases
    <2>2. CASE t.kind = "window"
      <3>1. Allows(t, session, Owing)
        BY <2>1, <2>2 DEF CloseInv, NoneAhead
      <3>2. ~Behind(t, session)
        <4>1. PhaseOrder[t.phase] \in Nat /\ t.round \in Nat /\ t.runId \in Nat
          BY <2>0, OrderType DEF TimerType
        <4> QED  BY <2>1, <4>1 DEF Behind, Expires
      <3> QED  BY <2>0, <2>2, <3>1, <3>2 DEF Allows, Owing
    <2>3. CASE t.kind = "move"
      <3>1. session.moveDeadline = 0
        BY <2>0, <2>3 DEF Void, Early, SessionType, TimeLeft, None
      <3>2. session.phase = "collecting" /\ ~Live /\ session.moveWindow > 0
        BY <3>1 DEF CloseInv, PauseInv, Clean, Timed, None
      <3> QED  BY <2>0, <2>1, <3>1, <3>2 DEF CloseInv, Grants
    <2> QED  BY <2>0, <2>2, <2>3 DEF TimerType
  <1> QED  BY <1>1, <1>2, <1>3, PTL DEF Spec
===============================================================================
