--------------------------- MODULE Reporting_proof ---------------------------
(***************************************************************************)
(* The ledger is right for any number of rounds, runs, games and faults: a *)
(* round is charged once and only after it was scored, and a round the     *)
(* engine will not send again has been billed.                             *)
(***************************************************************************)
EXTENDS Reporting, TLAPS

USE ReportingAssumption

-----------------------------------------------------------------------------
(* Sequences of reports, as far as the outbox looks at them.               *)

LEMMA InRange ==
  ASSUME NEW S, NEW s \in Seq(S)
  PROVE  \A x : x \in Range(s) <=> \E i \in 1..Len(s) : x = s[i]
  BY DEF Range

LEMMA RangeAppend ==
  ASSUME NEW S, NEW s \in Seq(S), NEW x \in S
  PROVE  Range(Append(s, x)) = Range(s) \cup {x}
  <1> DEFINE a == Append(s, x)
  <1>1. /\ a \in Seq(S) /\ Len(a) = Len(s) + 1 /\ a[Len(s) + 1] = x
        /\ \A i \in 1..Len(s) : a[i] = s[i]
    OBVIOUS
  <1> HIDE DEF a
  <1>2. \A y : y \in Range(s) => y \in Range(a)
    <2> TAKE y
    <2> SUFFICES ASSUME y \in Range(s) PROVE y \in Range(a)
      OBVIOUS
    <2>1. PICK i \in 1..Len(s) : y = s[i]
      BY InRange
    <2>2. i \in 1..Len(a) /\ y = a[i]
      BY <1>1, <2>1
    <2> QED  BY <1>1, <2>2, InRange
  <1>3. x \in Range(a)
    <2>1. Len(s) + 1 \in 1..Len(a)
      BY <1>1
    <2> QED  BY <1>1, <2>1, InRange
  <1>4. \A y : y \in Range(a) => y \in Range(s) \/ y = x
    <2> TAKE y
    <2> SUFFICES ASSUME y \in Range(a) PROVE y \in Range(s) \/ y = x
      OBVIOUS
    <2>1. PICK i \in 1..Len(a) : y = a[i]
      BY <1>1, InRange
    <2>2. i \in 1..Len(s) \/ i = Len(s) + 1
      BY <1>1
    <2> QED  BY <1>1, <2>1, <2>2, InRange
  <1> QED  BY <1>2, <1>3, <1>4 DEF a

LEMMA RangeTail ==
  ASSUME NEW S, NEW s \in Seq(S), s # <<>>
  PROVE  /\ Tail(s) \in Seq(S) /\ Head(s) \in S /\ Head(s) \in Range(s)
         /\ Range(s) = Range(Tail(s)) \cup {Head(s)}
  <1>1. Tail(s) \in Seq(S) /\ Head(s) \in S /\ Head(s) \in Range(s)
    BY DEF Range
  <1>2. Range(Tail(s)) \subseteq Range(s)
    BY DEF Range
  <1>3. Range(s) \subseteq Range(Tail(s)) \cup {Head(s)}
    <2> SUFFICES ASSUME NEW i \in 1..Len(s) PROVE s[i] \in Range(Tail(s)) \cup {Head(s)}
      BY DEF Range
    <2>1. CASE i = 1
      BY <2>1
    <2>2. CASE i # 1
      <3>1. i - 1 \in 1..Len(Tail(s)) /\ Tail(s)[i - 1] = s[i]
        BY <2>2
      <3> QED  BY <1>1, <3>1, InRange
    <2> QED  BY <2>1, <2>2
  <1> QED  BY <1>1, <1>2, <1>3

LEMMA RangeConcat ==
  ASSUME NEW S, NEW s \in Seq(S), NEW t \in Seq(S)
  PROVE  s \o t \in Seq(S) /\ Range(s \o t) = Range(s) \cup Range(t)
  <1>1. s \o t \in Seq(S)
    OBVIOUS
  <1>2. Range(s \o t) \subseteq Range(s) \cup Range(t)
    BY DEF Range
  <1>3. Range(s) \subseteq Range(s \o t)
    BY DEF Range
  <1>4. Range(t) \subseteq Range(s \o t)
    <2> SUFFICES ASSUME NEW i \in 1..Len(t) PROVE t[i] \in Range(s \o t)
      BY InRange
    <2>1. Len(s) + i \in 1..Len(s \o t) /\ (s \o t)[Len(s) + i] = t[i]
      OBVIOUS
    <2> QED  BY <1>1, <2>1, InRange
  <1> QED  BY <1>1, <1>2, <1>3, <1>4

-----------------------------------------------------------------------------
(* The shape of the outbox, the requests and the ledger.                   *)

ReportType == [kind : {"round", "game"}, run : Nat, round : Nat, game : Nat]

StateType ==
    [phase : {"absent", "playing", "leaderboard", "complete"}, game : Nat, runId : Nat, round : Nat,
     reported : SUBSET (Nat \X Nat), pending : Seq(ReportType), completeReported : BOOLEAN]

OpType ==
    [does : {"finalize", "end", "exit"}, s : StateType, todo : Seq(ReportType),
     kept : Seq(ReportType), asked : BOOLEAN]

HandlerType == [report : ReportType, at : {"record", "debit", "plays", "done"}, mine : BOOLEAN]

Typed ==
    /\ session \in StateType /\ op \in OpType \cup {Idle}
    /\ handlers \subseteq HandlerType
    /\ ledger \in Seq(ReportType)
    /\ started \in Nat /\ scored \subseteq PlayedRounds /\ finished \subseteq PlayedRounds

InBounds(s) ==
    s.phase # "absent" => s.runId \in 1..MaxRuns /\ s.round \in 1..Rounds /\ s.game \in 1..MaxGames

\* Whose game the stored session and the working copy are of.
Games ==
    /\ InBounds(session) /\ session.game <= started
    /\ \A r \in finished : r.game <= started
    /\ op # Idle => InBounds(op.s) /\ op.s.phase # "absent" /\ op.s.game = session.game

\* The operation waits for one request, the one for the first report it has to send.
Asking ==
    /\ \A h \in handlers : h.mine => op # Idle /\ op.asked /\ op.todo # <<>> /\ h.report = Head(op.todo)
    /\ \A g, h \in handlers : g.mine /\ h.mine => g = h

\* No report of a round that was not scored is anywhere on its way.
Sound(r) == IF r.kind = "round" THEN r \in scored ELSE r.round = 0

AllSound ==
    /\ \A r \in Range(session.pending) : Sound(r)
    /\ op # Idle => \A r \in Range(op.todo) \cup Range(op.kept) : Sound(r)
    /\ \A h \in handlers :
          /\ Sound(h.report)
          /\ h.at = "debit" => h.report.kind = "round"
          /\ h.at = "plays" => h.report.kind = "game"

\* What was delivered, or will be said to have been, is in the ledger.
Billed ==
    /\ ReportedIsBilled
    /\ op # Idle => op.s.reported \subseteq IdsOf(ledger)
    /\ \A h \in handlers : h.at = "done" /\ h.report.kind = "round" => Id(h.report) \in IdsOf(ledger)

\* Of the rounds an operation will have finished, each is delivered or in its hands.
Finishing == finished \cup (IF op.does = "finalize" THEN {RoundReport(op.s)} ELSE {})

Remembered ==
    /\ NothingForgotten
    /\ op # Idle /\ op.does # "exit" =>
          \A r \in Finishing :
              r.game = op.s.game => Id(r) \in op.s.reported \cup IdsOf(op.kept) \cup IdsOf(op.todo)

OutboxInv == Typed /\ Games /\ Asking /\ AllSound /\ Billed /\ Remembered

LEMMA OpIsTyped ==
  ASSUME Typed, op # Idle
  PROVE  op \in OpType
  BY DEF Typed

LEMMA BusyIsNotIdle == \A o \in OpType : o # Idle
  BY DEF OpType, Idle

LEMMA IdsGrow ==
  ASSUME NEW s, NEW t, Range(s) \subseteq Range(t)
  PROVE  IdsOf(s) \subseteq IdsOf(t)
  BY DEF IdsOf

LEMMA RoundIsPlayed ==
  ASSUME NEW s \in StateType, InBounds(s), s.phase # "absent"
  PROVE  RoundReport(s) \in PlayedRounds /\ RoundReport(s) \in ReportType /\ RoundReport(s).game = s.game
         /\ RoundReport(s).kind = "round"
  BY DEF RoundReport, Report, PlayedRounds, ReportType, StateType, InBounds

LEMMA CompletionIsSound ==
  ASSUME NEW s \in StateType
  PROVE  Completion(s) \in Seq(ReportType) /\ \A r \in Range(Completion(s)) : r.kind = "game" /\ r.round = 0
  <1>1. CompleteReport(s) \in ReportType /\ CompleteReport(s).kind = "game" /\ CompleteReport(s).round = 0
    BY DEF CompleteReport, Report, ReportType, StateType
  <1> QED  BY <1>1 DEF Completion, Range

-----------------------------------------------------------------------------
(* The kinds of step an outbox takes.                                      *)

\* The stored session alone is rewritten.
LEMMA SaveKeeps ==
  ASSUME OutboxInv, op = Idle, UNCHANGED <<op, handlers, ledger, scored, finished>>,
         started' \in Nat, started <= started',
         session' \in StateType, InBounds(session'), session'.game <= started',
         \/ /\ session'.game = session.game /\ session'.pending = session.pending
            /\ session'.reported = session.reported
         \/ /\ session'.pending = <<>> /\ session'.reported = {}
            /\ \A r \in finished : r.game # session'.game
  PROVE  OutboxInv'
  <1>1. Typed'
    BY DEF OutboxInv, Typed
  <1>2. Games'
    BY DEF OutboxInv, Games, Typed, PlayedRounds
  <1>3. Asking'
    BY DEF OutboxInv, Asking
  <1>4. AllSound'
    BY DEF OutboxInv, AllSound, Sound, Range
  <1>5. Billed'
    BY DEF OutboxInv, Billed, ReportedIsBilled
  <1>6. Remembered'
    BY DEF OutboxInv, Remembered, NothingForgotten
  <1> QED  BY <1>1, <1>2, <1>3, <1>4, <1>5, <1>6 DEF OutboxInv

\* An operation begins, with a working copy and the reports to send.
LEMMA BeginKeeps ==
  ASSUME OutboxInv, op = Idle, UNCHANGED <<session, handlers, ledger, started, finished>>,
         scored \subseteq scored', scored' \subseteq PlayedRounds,
         NEW does \in {"finalize", "end", "exit"}, NEW s \in StateType, NEW todo \in Seq(ReportType),
         op' = [does |-> does, s |-> s, todo |-> todo, kept |-> <<>>, asked |-> FALSE],
         InBounds(s), s.phase # "absent", s.game = session.game, s.reported = session.reported,
         \A r \in Range(todo) : Sound(r)',
         does # "exit" => 
            \A r \in finished \cup (IF does = "finalize" THEN {RoundReport(s)} ELSE {}) :
                r.game = s.game => Id(r) \in s.reported \cup IdsOf(todo)
  PROVE  OutboxInv'
  <1>1. /\ op' \in OpType /\ op'.does = does /\ op'.s = s /\ op'.todo = todo /\ op'.kept = <<>>
        /\ op'.asked = FALSE
    BY DEF OpType
  <1>2. Typed'
    BY <1>1 DEF OutboxInv, Typed
  <1>3. Games'
    BY <1>1 DEF OutboxInv, Games, InBounds
  <1>4. Asking'
    BY DEF OutboxInv, Asking
  <1>5. AllSound'
    <2>1. \A r : Sound(r) => Sound(r)'
      BY DEF Sound
    <2>2. Range(op'.kept) = {}
      BY <1>1 DEF Range
    <2> QED  BY <1>1, <2>1, <2>2 DEF OutboxInv, AllSound
  <1>6. Billed'
    BY <1>1 DEF OutboxInv, Billed, ReportedIsBilled
  <1>7. Remembered'
    BY <1>1 DEF OutboxInv, Remembered, NothingForgotten, Finishing, RoundReport, Report
  <1> QED  BY <1>2, <1>3, <1>4, <1>5, <1>6, <1>7 DEF OutboxInv

\* The first report is dealt with: delivered, kept for later, or known already.
LEMMA FlushKeeps ==
  ASSUME OutboxInv, op \in OpType, op.todo # <<>>, op' \in OpType,
         op'.s.phase = op.s.phase, op'.s.game = op.s.game, op'.s.runId = op.s.runId,
         op'.s.round = op.s.round, op'.does = op.does, op'.todo = Tail(op.todo),
         Range(op.kept) \subseteq Range(op'.kept), Range(op'.kept) \subseteq Range(op.kept) \cup {Head(op.todo)},
         op.s.reported \subseteq op'.s.reported, op'.s.reported \subseteq IdsOf(ledger),
         Head(op.todo).kind = "round" => Id(Head(op.todo)) \in op'.s.reported \cup IdsOf(op'.kept),
         \A h \in handlers' : ~h.mine /\ h \in HandlerType /\ \E g \in handlers : g.report = h.report /\ g.at = h.at,
         UNCHANGED <<session, ledger, scored, finished, started>>
  PROVE  OutboxInv'
  <1>0. op # Idle /\ op' # Idle
    BY BusyIsNotIdle
  <1>1. /\ Head(op.todo) \in ReportType /\ Head(op.todo) \in Range(op.todo)
        /\ Range(op.todo) = Range(op'.todo) \cup {Head(op.todo)}
    BY RangeTail DEF OpType
  <1>2. Typed'
    BY DEF OutboxInv, Typed
  <1>3. Games'
    BY <1>0 DEF OutboxInv, Games, InBounds
  <1>4. Asking'
    BY DEF Asking
  <1>5. AllSound'
    BY <1>0, <1>1 DEF OutboxInv, AllSound, Sound
  <1>6. Billed'
    BY <1>0 DEF OutboxInv, Billed, ReportedIsBilled
  <1>7. Remembered'
    <2>1. NothingForgotten'
      BY DEF OutboxInv, Remembered, NothingForgotten
    <2>2. Finishing' = Finishing
      BY DEF Finishing, RoundReport, Report
    <2> SUFFICES ASSUME op.does # "exit", NEW r \in Finishing, r.game = op.s.game
                 PROVE  Id(r) \in op'.s.reported \cup IdsOf(op'.kept) \cup IdsOf(op'.todo)
      BY <2>1, <2>2 DEF Remembered
    <2>3. Id(r) \in op.s.reported \cup IdsOf(op.kept) \cup IdsOf(op.todo)
      BY <1>0 DEF OutboxInv, Remembered
    <2>4. IdsOf(op.todo) = IdsOf(op'.todo) \cup {Id(Head(op.todo))}
      BY <1>1 DEF IdsOf
    <2>5. IdsOf(op.kept) \subseteq IdsOf(op'.kept)
      BY IdsGrow
    <2>6. CASE Head(op.todo).kind = "round"
      BY <2>3, <2>4, <2>5, <2>6
    <2>7. CASE Head(op.todo).kind = "game"
      <3>1. Head(op.todo).round = 0
        BY <1>0, <1>1, <2>7 DEF OutboxInv, AllSound, Sound
      <3>2. r \in PlayedRounds
        BY <1>0, RoundIsPlayed DEF OutboxInv, Typed, Games, Finishing, OpType
      <3>3. Id(r) # Id(Head(op.todo))
        BY <3>1, <3>2 DEF Id, PlayedRounds
      <3> QED  BY <2>3, <2>4, <2>5, <3>3
    <2> QED  BY <1>1, <2>6, <2>7 DEF ReportType
  <1> QED  BY <1>2, <1>3, <1>4, <1>5, <1>6, <1>7 DEF OutboxInv

\* A request goes on to its next statement, or is over.
LEMMA HandlerKeeps ==
  ASSUME OutboxInv, NEW h \in handlers, NEW to \in {"record", "debit", "plays", "done"},
         NEW S \in SUBSET {[h EXCEPT !.at = to]}, handlers' = (handlers \ {h}) \cup S,
         h.mine => S # {},
         UNCHANGED <<session, op, scored, finished, started>>,
         ledger' \in Seq(ReportType), IdsOf(ledger) \subseteq IdsOf(ledger'),
         S # {} /\ to = "debit" => h.report.kind = "round",
         S # {} /\ to = "plays" => h.report.kind = "game",
         S # {} /\ to = "done" /\ h.report.kind = "round" => Id(h.report) \in IdsOf(ledger')
  PROVE  OutboxInv'
  <1>1. h \in HandlerType
    BY DEF OutboxInv, Typed
  <1> DEFINE n == [h EXCEPT !.at = to]
  <1>2. n \in HandlerType /\ n.report = h.report /\ n.mine = h.mine /\ n.at = to
    BY <1>1 DEF HandlerType
  <1>3. \A g \in handlers' : (g \in handlers /\ g # h) \/ (g = n /\ S # {})
    OBVIOUS
  <1> HIDE DEF n
  <1>4. Typed'
    BY <1>2, <1>3 DEF OutboxInv, Typed
  <1>5. Games'
    BY DEF OutboxInv, Games, InBounds
  <1>6. Asking'
    BY <1>2, <1>3 DEF OutboxInv, Asking
  <1>7. AllSound'
    BY <1>2, <1>3 DEF OutboxInv, AllSound, Sound
  <1>8. Billed'
    BY <1>2, <1>3 DEF OutboxInv, Billed, ReportedIsBilled
  <1>9. Remembered'
    BY DEF OutboxInv, Remembered, NothingForgotten, Finishing, RoundReport, Report
  <1> QED  BY <1>4, <1>5, <1>6, <1>7, <1>8, <1>9 DEF OutboxInv

-----------------------------------------------------------------------------
(* What an answer, or its absence, does to the operation.                  *)

LEMMA DeliveredOp ==
  ASSUME op \in OpType, op.todo # <<>>, NEW r \in ReportType, Delivered(r)
  PROVE  /\ op' \in OpType /\ op'.does = op.does /\ op'.todo = Tail(op.todo) /\ op'.kept = op.kept
         /\ op'.s.phase = op.s.phase /\ op'.s.game = op.s.game
         /\ op'.s.runId = op.s.runId /\ op'.s.round = op.s.round
         /\ op'.s.reported = op.s.reported \cup (IF r.kind = "round" THEN {Id(r)} ELSE {})
  <1>1. Tail(op.todo) \in Seq(ReportType)
    BY RangeTail DEF OpType
  <1>2. op.s \in StateType
    BY DEF OpType
  <1>3. Id(r) \in Nat \X Nat /\ r.kind \in {"round", "game"}
    BY DEF Id, ReportType
  <1>4. CASE r.kind = "game"
    <2> DEFINE s == [op.s EXCEPT !.completeReported = TRUE]
    <2>1. s \in StateType /\ s.phase = op.s.phase /\ s.game = op.s.game /\ s.runId = op.s.runId
          /\ s.round = op.s.round /\ s.reported = op.s.reported
      BY <1>2 DEF StateType
    <2>2. op' = [op EXCEPT !.todo = Tail(op.todo), !.asked = FALSE, !.s = s]
      BY <1>4 DEF Delivered
    <2> HIDE DEF s
    <2> QED  BY <1>1, <1>4, <2>1, <2>2 DEF OpType
  <1>5. CASE r.kind = "round"
    <2> DEFINE s == [op.s EXCEPT !.reported = op.s.reported \cup {Id(r)}]
    <2>1. s \in StateType /\ s.phase = op.s.phase /\ s.game = op.s.game /\ s.runId = op.s.runId
          /\ s.round = op.s.round /\ s.reported = op.s.reported \cup {Id(r)}
      BY <1>2, <1>3 DEF StateType
    <2>2. op' = [op EXCEPT !.todo = Tail(op.todo), !.asked = FALSE, !.s = s]
      BY <1>5 DEF Delivered
    <2> HIDE DEF s
    <2> QED  BY <1>1, <1>5, <2>1, <2>2 DEF OpType
  <1> QED  BY <1>3, <1>4, <1>5

LEMMA UndeliveredOp ==
  ASSUME op \in OpType, op.todo # <<>>, NEW r \in ReportType, Undelivered(r)
  PROVE  /\ op' \in OpType /\ op'.does = op.does /\ op'.todo = Tail(op.todo) /\ op'.s = op.s
         /\ Range(op'.kept) = Range(op.kept) \cup (IF r.kind = "round" THEN {r} ELSE {})
  <1>1. Tail(op.todo) \in Seq(ReportType)
    BY RangeTail DEF OpType
  <1> DEFINE kept == IF r.kind = "game" THEN op.kept ELSE Append(op.kept, r)
  <1>2. /\ kept \in Seq(ReportType)
        /\ Range(kept) = Range(op.kept) \cup (IF r.kind = "round" THEN {r} ELSE {})
    <2>1. op.kept \in Seq(ReportType) /\ r.kind \in {"round", "game"}
      BY DEF OpType, ReportType
    <2> QED  BY <2>1, RangeAppend
  <1>3. op' = [op EXCEPT !.todo = Tail(op.todo), !.asked = FALSE, !.kept = kept]
    BY DEF Undelivered
  <1> HIDE DEF kept
  <1> QED  BY <1>1, <1>2, <1>3 DEF OpType

-----------------------------------------------------------------------------
(* The steps of the engine.                                                *)

LEMMA NothingYet == NoSession \in StateType /\ InBounds(NoSession) /\ Range(<<>>) = {}
  <1>1. <<>> \in Seq(ReportType)
    OBVIOUS
  <1> QED  BY <1>1 DEF NoSession, StateType, InBounds, Range

LEMMA StartKeeps ==
  ASSUME OutboxInv, Start
  PROVE  OutboxInv'
  <1> DEFINE s == [NoSession EXCEPT !.phase = "playing", !.game = started + 1, !.runId = 1, !.round = 1]
  <1>1. started \in Nat /\ started < MaxGames /\ \A r \in finished : r.game <= started /\ r.game \in Nat
    BY DEF OutboxInv, Typed, Games, Start, PlayedRounds
  <1>2. s \in StateType /\ InBounds(s) /\ s.game = started + 1 /\ s.pending = <<>> /\ s.reported = {}
    <2>1. NoSession.pending = <<>> /\ NoSession.reported = {}
      BY DEF NoSession
    <2>2. 1 \in 1..MaxRuns /\ 1 \in 1..Rounds /\ started + 1 \in 1..MaxGames /\ started + 1 \in Nat /\ 1 \in Nat
      BY <1>1
    <2> DEFINE g == started + 1
               new == NoSession
    <2>3. s = [new EXCEPT !.phase = "playing", !.game = g, !.runId = 1, !.round = 1]
      OBVIOUS
    <2>4. g \in Nat /\ new \in StateType
      BY <2>2, NothingYet
    <2> HIDE DEF s, g, new
    <2>5. s \in StateType /\ s.game = g /\ s.runId = 1 /\ s.round = 1
          /\ s.pending = new.pending /\ s.reported = new.reported
      BY <2>3, <2>4 DEF StateType
    <2> QED  BY <2>1, <2>2, <2>5 DEF InBounds, g, new
  <1>3. session' = s /\ UNCHANGED <<op, handlers, ledger, scored, finished>> /\ started' = started + 1 /\ op = Idle
    BY DEF Start, Save, control
  <1> HIDE DEF s
  <1> QED  BY <1>1, <1>2, <1>3, SaveKeeps

LEMMA RewriteKeeps ==
  ASSUME OutboxInv, NextRound \/ Restart
  PROVE  OutboxInv'
  <1>1. session \in StateType /\ InBounds(session) /\ session.game <= started /\ started \in Nat
    BY DEF OutboxInv, Typed, Games
  <1>2. /\ session' \in StateType /\ InBounds(session')
        /\ session'.game = session.game /\ session'.pending = session.pending
        /\ session'.reported = session.reported
    <2>1. session.runId \in Nat /\ session.round \in Nat /\ session.game \in Nat /\ 1 \in Nat
      BY <1>1 DEF StateType
    <2>2. /\ session.phase # "absent" =>
                session.runId \in 1..MaxRuns /\ session.round \in 1..Rounds /\ session.game \in 1..MaxGames
      BY <1>1 DEF InBounds
    <2>3. CASE NextRound
      <3> DEFINE n == session.round + 1
      <3>1. session' = [session EXCEPT !.phase = "playing", !.round = n]
        BY <2>3 DEF NextRound, Save
      <3>2. n \in Nat /\ n \in 1..Rounds /\ session.phase # "absent"
        BY <2>1, <2>2, <2>3 DEF NextRound
      <3> HIDE DEF n
      <3>3. /\ session' \in StateType /\ session'.round = n /\ session'.pending = session.pending
            /\ session'.reported = session.reported /\ session'.game = session.game
            /\ session'.runId = session.runId
        BY <1>1, <3>1, <3>2 DEF StateType
      <3> QED  BY <2>2, <3>2, <3>3 DEF InBounds
    <2>4. CASE Restart
      <3> DEFINE n == session.runId + 1
      <3>1. session' = [session EXCEPT !.runId = n, !.round = 1, !.phase = "playing",
                                       !.completeReported = FALSE]
        BY <2>4 DEF Restart, NextRun, Save
      <3>2. n \in Nat /\ n \in 1..MaxRuns /\ session.phase # "absent" /\ 1 \in 1..Rounds
        BY <2>1, <2>2, <2>4 DEF Restart
      <3> HIDE DEF n
      <3>3. /\ session' \in StateType /\ session'.round = 1 /\ session'.pending = session.pending
            /\ session'.reported = session.reported /\ session'.game = session.game
            /\ session'.runId = n
        BY <1>1, <3>1, <3>2 DEF StateType
      <3> QED  BY <2>2, <3>2, <3>3 DEF InBounds
    <2> QED  BY <2>3, <2>4
  <1>3. op = Idle /\ UNCHANGED <<op, handlers, ledger, scored, finished, started>>
    BY DEF NextRound, Restart, Save, control, history
  <1> QED  BY <1>1, <1>2, <1>3, SaveKeeps

LEMMA ExpireKeeps ==
  ASSUME OutboxInv, Expire
  PROVE  OutboxInv'
  <1>1. op = Idle /\ session' = NoSession /\ UNCHANGED <<op, handlers, ledger, scored, finished, started>>
    BY DEF Expire, Save, control, history
  <1>2. NoSession.game = 0 /\ NoSession.pending = <<>> /\ NoSession.reported = {}
    BY DEF NoSession
  <1>3. started \in Nat /\ \A r \in finished : r.game # 0
    BY DEF OutboxInv, Typed, PlayedRounds
  <1> QED  BY <1>1, <1>2, <1>3, NothingYet, SaveKeeps

LEMMA FinalizeKeeps ==
  ASSUME OutboxInv, FinalizeRound
  PROVE  OutboxInv'
  <1> DEFINE r == RoundReport(session)
             known == Id(r) \in session.reported \cup IdsOf(session.pending)
             todo == IF known THEN session.pending ELSE Append(session.pending, r)
             s == [session EXCEPT !.phase = "leaderboard", !.pending = todo]
  <1>1. /\ session \in StateType /\ InBounds(session) /\ session.phase = "playing" /\ op = Idle
        /\ session.pending \in Seq(ReportType)
    BY DEF OutboxInv, Typed, Games, FinalizeRound, StateType
  <1>2. r \in PlayedRounds /\ r \in ReportType /\ r.kind = "round" /\ r.game = session.game
    BY <1>1, RoundIsPlayed
  <1>3. todo \in Seq(ReportType) /\ Range(todo) \subseteq Range(session.pending) \cup {r}
        /\ Range(session.pending) \subseteq Range(todo) /\ (~known => r \in Range(todo))
    BY <1>1, <1>2, RangeAppend
  <1>4. /\ s \in StateType /\ s.phase = "leaderboard" /\ InBounds(s) /\ s.game = session.game
        /\ s.reported = session.reported /\ s.pending = todo /\ RoundReport(s) = r
    BY <1>1, <1>3 DEF StateType, InBounds, RoundReport, Report
  <1>5. /\ op' = [does |-> "finalize", s |-> s, todo |-> todo, kept |-> <<>>, asked |-> FALSE]
        /\ UNCHANGED <<session, handlers, ledger, started, finished>>
        /\ scored' = scored \cup {r}
    BY <1>4 DEF FinalizeRound, Begin, control
  <1>6. scored \subseteq PlayedRounds
    BY DEF OutboxInv, Typed
  <1>7. \A x \in Range(todo) : Sound(x)'
    BY <1>2, <1>3, <1>5 DEF OutboxInv, AllSound, Sound
  <1>8. \A x \in finished : x.game = s.game => Id(x) \in s.reported \cup IdsOf(todo)
    BY <1>3, <1>4, IdsGrow DEF OutboxInv, Remembered, NothingForgotten
  <1>9. Id(r) \in s.reported \cup IdsOf(todo)
    BY <1>3, <1>4, IdsGrow DEF IdsOf
  <1> HIDE DEF s, todo, r
  <1> QED  BY <1>1, <1>2, <1>3, <1>4, <1>5, <1>6, <1>7, <1>8, <1>9, BeginKeeps

LEMMA EndGameKeeps ==
  ASSUME OutboxInv, EndGame \/ Exit
  PROVE  OutboxInv'
  <1> DEFINE s == [session EXCEPT !.phase = "complete"]
  <1>1. /\ session \in StateType /\ InBounds(session) /\ session.phase # "absent" /\ op = Idle
        /\ session.pending \in Seq(ReportType) /\ scored \subseteq PlayedRounds
    BY DEF OutboxInv, Typed, Games, EndGame, Exit, StateType
  <1>2. s \in StateType /\ s.phase # "absent" /\ InBounds(s) /\ s.game = session.game /\ s.reported = session.reported
    BY <1>1 DEF StateType, InBounds
  <1>3. UNCHANGED <<session, handlers, ledger, started, finished, scored>>
    BY DEF EndGame, Exit, Begin, control
  <1>4. Completion(session) \in Seq(ReportType) /\ \A r \in Range(Completion(session)) : Sound(r)'
    BY <1>1, CompletionIsSound DEF Sound
  <1>5. CASE EndGame
    <2> DEFINE todo == session.pending \o Completion(session)
    <2>1. todo \in Seq(ReportType) /\ Range(todo) = Range(session.pending) \cup Range(Completion(session))
      BY <1>1, <1>4, RangeConcat
    <2>2. op' = [does |-> "end", s |-> s, todo |-> todo, kept |-> <<>>, asked |-> FALSE]
      BY <1>5 DEF EndGame, Begin
    <2>3. \A r \in Range(todo) : Sound(r)'
      BY <1>3, <1>4, <2>1 DEF OutboxInv, AllSound, Sound
    <2>4. \A r \in finished : r.game = s.game => Id(r) \in s.reported \cup IdsOf(todo)
      BY <1>2, <2>1, IdsGrow DEF OutboxInv, Remembered, NothingForgotten
    <2> HIDE DEF s, todo
    <2> QED  BY <1>1, <1>2, <1>3, <2>1, <2>2, <2>3, <2>4, BeginKeeps
  <1>6. CASE Exit
    <2>1. op' = [does |-> "exit", s |-> s, todo |-> Completion(session), kept |-> <<>>, asked |-> FALSE]
      BY <1>6 DEF Exit, Begin
    <2> HIDE DEF s
    <2> QED  BY <1>1, <1>2, <1>3, <1>4, <2>1, BeginKeeps
  <1> QED  BY <1>5, <1>6

LEMMA SendKeeps ==
  ASSUME OutboxInv, Send
  PROVE  OutboxInv'
  <1>1. op # Idle /\ op.todo # <<>> /\ ~op.asked /\ op \in OpType
    BY OpIsTyped DEF Send, Sending, OutboxInv
  <1>2. UNCHANGED <<session, ledger, scored, finished, started>>
    BY DEF Send, control, history
  <1>3. \A h \in handlers : ~h.mine /\ h \in HandlerType
    BY <1>1 DEF OutboxInv, Asking, Typed
  <1>4. Head(op.todo) \in ReportType /\ Tail(op.todo) \in Seq(ReportType) /\ Head(op.todo) \in Range(op.todo)
    BY <1>1, RangeTail DEF OpType
  <1>5. CASE Known(op.s, Head(op.todo))
    <2>1. op' = [op EXCEPT !.todo = Tail(op.todo)] /\ handlers' = handlers
      BY <1>5 DEF Send
    <2>2. /\ op' \in OpType /\ op'.s = op.s /\ op'.does = op.does /\ op'.todo = Tail(op.todo)
          /\ op'.kept = op.kept
      BY <1>1, <1>4, <2>1 DEF OpType
    <2>3. op.s.reported \subseteq IdsOf(ledger)
      BY <1>1 DEF OutboxInv, Billed
    <2>4. Id(Head(op.todo)) \in op.s.reported
      BY <1>5 DEF Known
    <2> QED  BY <1>1, <1>2, <1>3, <2>1, <2>2, <2>3, <2>4, FlushKeeps
  <1>6. CASE ~Known(op.s, Head(op.todo))
    <2> DEFINE n == [report |-> Head(op.todo), at |-> "record", mine |-> TRUE]
    <2>1. op' = [op EXCEPT !.asked = TRUE] /\ handlers' = handlers \cup {n}
      BY <1>6 DEF Send
    <2>2. n \in HandlerType /\ n.mine /\ n.at = "record" /\ n.report = Head(op.todo)
      BY <1>4 DEF HandlerType
    <2> HIDE DEF n
    <2>3. /\ op' \in OpType /\ op'.s = op.s /\ op'.does = op.does /\ op'.todo = op.todo
          /\ op'.kept = op.kept /\ op'.asked
      BY <1>1, <2>1 DEF OpType
    <2>4. op' # Idle
      BY <2>3, BusyIsNotIdle
    <2>5. Typed'
      BY <1>2, <2>1, <2>2, <2>3 DEF OutboxInv, Typed
    <2>6. Games'
      BY <1>1, <1>2, <2>3 DEF OutboxInv, Games, InBounds
    <2>7. Asking'
      BY <1>1, <1>3, <2>1, <2>2, <2>3, <2>4 DEF Asking
    <2>8. AllSound'
      BY <1>1, <1>2, <1>4, <2>1, <2>2, <2>3 DEF OutboxInv, AllSound, Sound
    <2>9. Billed'
      BY <1>1, <1>2, <2>1, <2>2, <2>3 DEF OutboxInv, Billed, ReportedIsBilled
    <2>10. Remembered'
      BY <1>1, <1>2, <2>3 DEF OutboxInv, Remembered, NothingForgotten, Finishing, RoundReport, Report
    <2> QED  BY <2>5, <2>6, <2>7, <2>8, <2>9, <2>10 DEF OutboxInv
  <1> QED  BY <1>5, <1>6

\* What the operation has asked for, when a request of its own comes to an end.
LEMMA Mine ==
  ASSUME OutboxInv, NEW h \in handlers, h.mine
  PROVE  /\ op \in OpType /\ op # Idle /\ op.todo # <<>> /\ h.report = Head(op.todo)
         /\ h.report \in ReportType /\ h \in HandlerType
         /\ op.s.reported \subseteq IdsOf(ledger)
         /\ \A g \in handlers \ {h} : ~g.mine /\ g \in HandlerType
  BY OpIsTyped DEF OutboxInv, Asking, Typed, HandlerType, Billed

LEMMA AnsweredKeeps ==
  ASSUME OutboxInv, NEW h \in handlers, Answered(h)
  PROVE  OutboxInv'
  <1>1. h.mine /\ h.at = "done" /\ Delivered(h.report) /\ handlers' = handlers \ {h}
        /\ UNCHANGED <<session, ledger, scored, finished, started>>
    BY DEF Answered, control, history
  <1>2. h.report.kind = "round" => Id(h.report) \in IdsOf(ledger)
    BY <1>1 DEF OutboxInv, Billed
  <1> QED  BY <1>1, <1>2, Mine, DeliveredOp, FlushKeeps

LEMMA LostKeeps ==
  ASSUME OutboxInv, NEW h \in handlers, h.mine, Undelivered(h.report),
         handlers' \subseteq (handlers \ {h}) \cup {Orphan(h)},
         UNCHANGED <<session, ledger, scored, finished, started>>
  PROVE  OutboxInv'
  <1>1. Orphan(h) \in HandlerType /\ ~Orphan(h).mine /\ Orphan(h).report = h.report /\ Orphan(h).at = h.at
    BY Mine DEF Orphan, HandlerType
  <1>2. \A g \in handlers' : ~g.mine /\ g \in HandlerType /\ \E x \in handlers : x.report = g.report /\ x.at = g.at
    BY <1>1, Mine
  <1>3. /\ op' \in OpType /\ op'.does = op.does /\ op'.todo = Tail(op.todo) /\ op'.s = op.s
        /\ Range(op'.kept) = Range(op.kept) \cup (IF h.report.kind = "round" THEN {h.report} ELSE {})
    BY Mine, UndeliveredOp
  <1>4. h.report.kind = "round" => Id(h.report) \in IdsOf(op'.kept)
    BY <1>3 DEF IdsOf
  <1> QED  BY <1>2, <1>3, <1>4, Mine, FlushKeeps

\* The operation saves its copy, or deletes the session.
LEMMA FinishOpKeeps ==
  ASSUME OutboxInv, FinishOp
  PROVE  OutboxInv'
  <1>1. op # Idle /\ op.todo = <<>> /\ op' = Idle /\ op \in OpType /\ op.s \in StateType /\ op.kept \in Seq(ReportType)
    BY OpIsTyped DEF FinishOp, OutboxInv, OpType
  <1>2. UNCHANGED <<handlers, ledger, started, scored>> /\ finished' = IF op.does = "finalize" THEN Finishing ELSE finished
    BY DEF FinishOp, control, Finishing
  <1>3. InBounds(op.s) /\ op.s.phase # "absent" /\ op.s.game = session.game /\ session.game <= started
    BY <1>1 DEF OutboxInv, Games
  <1>4. RoundReport(op.s) \in PlayedRounds /\ RoundReport(op.s).game = op.s.game
    BY <1>1, <1>3, RoundIsPlayed
  <1>5. \A h \in handlers : ~h.mine
    BY <1>1 DEF OutboxInv, Asking
  <1>6. finished' \subseteq finished \cup {RoundReport(op.s)}
    BY <1>2 DEF Finishing
  <1> DEFINE saved == [op.s EXCEPT !.pending = op.kept]
  <1>7. /\ saved \in StateType /\ saved.phase = op.s.phase /\ saved.game = op.s.game
        /\ saved.runId = op.s.runId /\ saved.round = op.s.round
        /\ saved.reported = op.s.reported /\ saved.pending = op.kept
    BY <1>1 DEF StateType
  <1>8. session' = IF op.does = "exit" THEN NoSession ELSE saved
    BY DEF FinishOp
  <1> HIDE DEF saved
  <1>9. CASE op.does = "exit"
    <2>1. session' = NoSession /\ finished' = finished
      BY <1>2, <1>8, <1>9
    <2>2. NoSession.game = 0 /\ NoSession.pending = <<>> /\ NoSession.reported = {}
      BY DEF NoSession
    <2>3. Typed'
      BY <1>1, <1>2, <2>1, NothingYet DEF OutboxInv, Typed
    <2>4. Games'
      BY <1>1, <1>2, <2>1, <2>2, NothingYet DEF OutboxInv, Games, Typed
    <2>5. Asking'
      BY <1>2, <1>5 DEF Asking
    <2>6. AllSound'
      BY <1>1, <1>2, <2>1, <2>2, NothingYet DEF OutboxInv, AllSound, Sound
    <2>7. Billed'
      BY <1>1, <1>2, <2>1, <2>2 DEF OutboxInv, Billed, ReportedIsBilled
    <2>8. Remembered'
      BY <1>1, <2>1, <2>2 DEF OutboxInv, Remembered, NothingForgotten, Typed, PlayedRounds
    <2> QED  BY <2>3, <2>4, <2>5, <2>6, <2>7, <2>8 DEF OutboxInv
  <1>10. CASE op.does # "exit"
    <2>1. session' = saved
      BY <1>8, <1>10
    <2>2. finished' \subseteq Finishing
      BY <1>2 DEF Finishing
    <2>3. Typed'
      BY <1>1, <1>2, <1>4, <1>6, <1>7, <2>1 DEF OutboxInv, Typed
    <2>4. Games'
      BY <1>1, <1>2, <1>3, <1>4, <1>6, <1>7, <2>1 DEF OutboxInv, Games, InBounds
    <2>5. Asking'
      BY <1>2, <1>5 DEF Asking
    <2>6. AllSound'
      BY <1>1, <1>2, <1>7, <2>1 DEF OutboxInv, AllSound, Sound
    <2>7. Billed'
      BY <1>1, <1>2, <1>7, <2>1 DEF OutboxInv, Billed, ReportedIsBilled
    <2>8. Remembered'
      <3>1. IdsOf(op.todo) = {}
        BY <1>1 DEF IdsOf, Range
      <3>2. \A r \in Finishing : r.game = op.s.game => Id(r) \in op.s.reported \cup IdsOf(op.kept)
        BY <1>1, <1>10, <3>1 DEF OutboxInv, Remembered
      <3> QED  BY <1>1, <1>7, <2>1, <2>2, <3>2 DEF Remembered, NothingForgotten
    <2> QED  BY <2>3, <2>4, <2>5, <2>6, <2>7, <2>8 DEF OutboxInv
  <1> QED  BY <1>9, <1>10

-----------------------------------------------------------------------------
(* The steps of the control plane.                                         *)

LEMMA GoesOn ==
  ASSUME OutboxInv, NEW h \in handlers, NEW to \in {"record", "debit", "plays", "done"}, Goes(h, to),
         UNCHANGED <<session, op, scored, finished, started>>,
         ledger' \in Seq(ReportType), IdsOf(ledger) \subseteq IdsOf(ledger'),
         to = "debit" => h.report.kind = "round",
         to = "plays" => h.report.kind = "game",
         to = "done" /\ h.report.kind = "round" => Id(h.report) \in IdsOf(ledger')
  PROVE  OutboxInv'
  <1> DEFINE S == IF to = "done" /\ ~h.mine THEN {} ELSE {[h EXCEPT !.at = to]}
  <1>1. S \in SUBSET {[h EXCEPT !.at = to]} /\ handlers' = (handlers \ {h}) \cup S /\ (h.mine => S # {})
    BY DEF Goes
  <1> HIDE DEF S
  <1> QED  BY <1>1, HandlerKeeps

LEMMA Debited ==
  ASSUME OutboxInv, NEW r \in ReportType, ledger' = AppendDebit(r)
  PROVE  ledger' \in Seq(ReportType) /\ IdsOf(ledger) \subseteq IdsOf(ledger') /\ Id(r) \in IdsOf(ledger')
  <1>1. ledger \in Seq(ReportType)
    BY DEF OutboxInv, Typed
  <1>2. CASE Id(r) \in IdsOf(ledger)
    BY <1>1, <1>2 DEF AppendDebit
  <1>3. CASE Id(r) \notin IdsOf(ledger)
    <2>1. ledger' = Append(ledger, r)
      BY <1>3 DEF AppendDebit
    <2>2. Range(ledger') = Range(ledger) \cup {r}
      BY <1>1, <2>1, RangeAppend
    <2>3. ledger' \in Seq(ReportType)
      BY <1>1, <2>1
    <2>4. IdsOf(ledger) \subseteq IdsOf(ledger')
      BY <2>2, IdsGrow
    <2>5. Id(r) \in IdsOf(ledger')
      BY <2>2 DEF IdsOf
    <2> QED  BY <2>3, <2>4, <2>5
  <1> QED  BY <1>2, <1>3

LEMMA IntakeKeeps ==
  ASSUME OutboxInv, NEW h \in handlers,
         RecordRound(h) \/ DebitRound(h) \/ RecordGame(h) \/ RecordPlays(h)
  PROVE  OutboxInv'
  <1>1. h \in HandlerType /\ h.report \in ReportType /\ ledger \in Seq(ReportType)
    BY DEF OutboxInv, Typed, HandlerType
  <1>2. CASE RecordRound(h)
    BY <1>1, <1>2, GoesOn DEF RecordRound, AfterRecord, engine, history
  <1>3. CASE DebitRound(h)
    BY <1>1, <1>3, Debited, GoesOn DEF DebitRound, engine, history
  <1>4. CASE RecordGame(h)
    BY <1>1, <1>4, GoesOn DEF RecordGame, engine, history
  <1>5. CASE RecordPlays(h)
    <2>1. h.report.kind # "round"
      BY <1>5 DEF OutboxInv, AllSound, RecordPlays
    <2> QED  BY <1>1, <1>5, <2>1, GoesOn DEF RecordPlays, engine, history
  <1> QED  BY <1>2, <1>3, <1>4, <1>5

LEMMA CrashKeeps ==
  ASSUME OutboxInv, Crash
  PROVE  OutboxInv'
  <1>1. op' = Idle /\ UNCHANGED <<session, ledger, scored, finished, started>>
    BY DEF Crash, Fault, control
  <1>2. \A h \in handlers' : \/ h \in handlers /\ ~h.mine
                             \/ \E g \in handlers : h = Orphan(g)
    BY DEF Crash
  <1>3. \A g \in handlers : /\ g \in HandlerType /\ Orphan(g) \in HandlerType /\ ~Orphan(g).mine
                             /\ Orphan(g).report = g.report /\ Orphan(g).at = g.at
    BY DEF OutboxInv, Typed, Orphan, HandlerType
  <1>4. \A h \in handlers' : /\ h \in HandlerType /\ ~h.mine
                              /\ \E g \in handlers : h.report = g.report /\ h.at = g.at
    BY <1>2, <1>3 DEF OutboxInv, Typed
  <1>5. Typed'
    BY <1>1, <1>4 DEF OutboxInv, Typed
  <1>6. Games'
    BY <1>1 DEF OutboxInv, Games, InBounds
  <1>7. Asking'
    BY <1>4 DEF Asking
  <1>8. AllSound'
    BY <1>1, <1>4 DEF OutboxInv, AllSound, Sound
  <1>9. Billed'
    BY <1>1, <1>4 DEF OutboxInv, Billed, ReportedIsBilled
  <1>10. Remembered'
    BY <1>1 DEF OutboxInv, Remembered, NothingForgotten
  <1> QED  BY <1>5, <1>6, <1>7, <1>8, <1>9, <1>10 DEF OutboxInv

LEMMA FailingKeeps ==
  ASSUME OutboxInv, NEW h \in handlers, ReplyLost(h) \/ HandlerFails(h)
  PROVE  OutboxInv'
  <1>1. UNCHANGED <<session, ledger, scored, finished, started>>
    BY DEF ReplyLost, HandlerFails, Fault, control
  <1>2. CASE ReplyLost(h)
    BY <1>1, <1>2, LostKeeps DEF ReplyLost
  <1>3. CASE HandlerFails(h) /\ h.mine
    BY <1>1, <1>3, LostKeeps DEF HandlerFails
  <1>4. CASE HandlerFails(h) /\ ~h.mine
    <2> DEFINE to == "record"
               S == {}
    <2>1. S \in SUBSET {[h EXCEPT !.at = to]} /\ handlers' = (handlers \ {h}) \cup S /\ op' = op
      BY <1>4 DEF HandlerFails
    <2>2. ledger' \in Seq(ReportType) /\ IdsOf(ledger) \subseteq IdsOf(ledger')
      BY <1>1 DEF OutboxInv, Typed
    <2>3. S = {} /\ to \in {"record", "debit", "plays", "done"}
      OBVIOUS
    <2> HIDE DEF S, to
    <2> QED  BY <1>1, <1>4, <2>1, <2>2, <2>3, HandlerKeeps
  <1> QED  BY <1>2, <1>3, <1>4

-----------------------------------------------------------------------------
(* The invariant.                                                          *)

LEMMA OutboxInit == Init => OutboxInv
  <1> SUFFICES ASSUME Init PROVE OutboxInv
    OBVIOUS
  <1>1. session = NoSession /\ op = Idle /\ handlers = {} /\ ledger = <<>>
        /\ started = 0 /\ scored = {} /\ finished = {}
    BY DEF Init
  <1>2. <<>> \in Seq(ReportType) /\ Idle \in OpType \cup {Idle} /\ NoSession.reported = {}
        /\ NoSession.pending = <<>> /\ NoSession.game = 0
    BY DEF NoSession
  <1>3. Typed
    BY <1>1, <1>2, NothingYet DEF Typed
  <1>4. Games
    BY <1>1, <1>2, NothingYet DEF Games
  <1>5. Asking /\ AllSound /\ Billed /\ Remembered
    BY <1>1, <1>2, NothingYet DEF Asking, AllSound, Billed, ReportedIsBilled, Remembered, NothingForgotten
  <1> QED  BY <1>3, <1>4, <1>5 DEF OutboxInv

LEMMA OutboxNext == OutboxInv /\ [Next]_vars => OutboxInv'
  <1> SUFFICES ASSUME OutboxInv, [Next]_vars PROVE OutboxInv'
    OBVIOUS
  <1>1. CASE Table
    BY <1>1, StartKeeps, RewriteKeeps, ExpireKeeps, FinalizeKeeps, EndGameKeeps DEF Table
  <1>2. CASE Outbox
    BY <1>2, SendKeeps, FinishOpKeeps, AnsweredKeeps DEF Outbox
  <1>3. CASE Intake
    BY <1>3, IntakeKeeps DEF Intake
  <1>4. CASE Failing
    BY <1>4, CrashKeeps, FailingKeeps DEF Failing
  <1>5. CASE UNCHANGED vars
    <2>1. UNCHANGED <<session, op, handlers, ledger, started, scored, finished>>
      BY <1>5 DEF vars, engine, control, history
    <2>2. Typed' /\ Games' /\ Asking'
      BY <2>1 DEF OutboxInv, Typed, Games, InBounds, Asking
    <2>3. AllSound' /\ Billed'
      BY <2>1 DEF OutboxInv, AllSound, Sound, Billed, ReportedIsBilled
    <2>4. Remembered'
      BY <2>1 DEF OutboxInv, Remembered, NothingForgotten, Finishing, RoundReport, Report
    <2> QED  BY <2>2, <2>3, <2>4 DEF OutboxInv
  <1> QED  BY <1>1, <1>2, <1>3, <1>4, <1>5 DEF Next

\* The invariant holds in every state, whatever fails and how often.
LEMMA OutboxAlways == Spec => []OutboxInv
  BY OutboxInit, OutboxNext, PTL DEF Spec

-----------------------------------------------------------------------------
(* The theorems.                                                           *)

\* A round the engine will not send again is in the ledger, for any number of
\* rounds, runs and games, and whichever attempts died between the record and
\* the debit (rooms/service.ts:609-614).
THEOREM DeliveredIsBilled == Spec => []ReportedIsBilled
  <1>1. OutboxInv => ReportedIsBilled
    BY DEF OutboxInv, Billed
  <1> QED  BY <1>1, OutboxAlways, PTL

\* A round whose scores were saved is delivered or waits in the outbox of its
\* session, through failed reports, restarts of the game and crashes
\* (engine.ts:736-748).
THEOREM OutboxForgetsNothing == Spec => []NothingForgotten
  <1>1. OutboxInv => NothingForgotten
    BY DEF OutboxInv, Remembered
  <1> QED  BY <1>1, OutboxAlways, PTL

LEMMA ScoresStep ==
  ASSUME OutboxInv, Next, ledger' = ledger
  PROVE  [BillingOf!Next]_(BillingOf!billing)
  <1>1. CASE FinalizeRound
    <2>1. RoundReport(session) \in PlayedRounds
      BY <1>1, RoundIsPlayed DEF FinalizeRound, OutboxInv, Typed, Games
    <2>2. scored' = scored \cup {RoundReport(session)}
      BY <1>1 DEF FinalizeRound
    <2> QED  BY <2>1, <2>2 DEF BillingOf!Next, BillingOf!Score
  <1>2. CASE ~FinalizeRound
    <2>1. scored' = scored
      BY <1>2 DEF Next, Table, Outbox, Intake, Failing, Start, NextRound, EndGame, Restart, Exit, Expire,
                  Send, FinishOp, Answered, RecordRound, DebitRound, RecordGame, RecordPlays,
                  Crash, ReplyLost, HandlerFails, Fault, history
    <2> QED  BY <2>1 DEF BillingOf!billing
  <1> QED  BY <1>1, <1>2

LEMMA ChargesStep ==
  ASSUME OutboxInv, NEW h \in handlers, DebitRound(h)
  PROVE  [BillingOf!Next]_(BillingOf!billing)
  <1>1. h.report \in scored /\ h.report \in PlayedRounds /\ scored' = scored
    BY DEF OutboxInv, AllSound, Sound, Typed, DebitRound, history
  <1>2. CASE Id(h.report) \in IdsOf(ledger)
    BY <1>1, <1>2 DEF DebitRound, AppendDebit, BillingOf!billing
  <1>3. CASE Id(h.report) \notin IdsOf(ledger)
    <2>1. \A i \in DOMAIN ledger : ledger[i] # h.report
      BY <1>3 DEF IdsOf, Range
    <2>2. ledger' = Append(ledger, h.report)
      BY <1>3 DEF DebitRound, AppendDebit
    <2> QED  BY <1>1, <2>1, <2>2 DEF BillingOf!Next, BillingOf!Charge, BillingOf!Charged
  <1> QED  BY <1>2, <1>3

LEMMA LedgerSteps ==
  ASSUME Next, ledger' # ledger
  PROVE  \E h \in handlers : DebitRound(h)
  BY DEF Next, Table, Outbox, Intake, Failing, Start, FinalizeRound, NextRound, EndGame, Restart, Exit, Expire,
         Save, Begin, Send, FinishOp, Answered, RecordRound, RecordGame, RecordPlays,
         Crash, ReplyLost, HandlerFails, Fault, control

\* With every retry, late answer and crash, the ledger does what Billing
\* promises: a round is charged after it was scored, and never twice
\* (the idempotency key of credits/ledger.ts:59).
THEOREM LedgerImplementsBilling == Spec => ChargesOnce
  <1>1. Init => BillingOf!Init
    BY DEF Init, BillingOf!Init
  <1>2. OutboxInv /\ [Next]_vars => [BillingOf!Next]_(BillingOf!billing)
    <2>1. ASSUME OutboxInv, Next PROVE [BillingOf!Next]_(BillingOf!billing)
      BY <2>1, ScoresStep, ChargesStep, LedgerSteps
    <2>2. UNCHANGED vars => UNCHANGED BillingOf!billing
      BY DEF vars, control, history, BillingOf!billing
    <2> QED  BY <2>1, <2>2
  <1> QED  BY <1>1, <1>2, OutboxAlways, PTL DEF Spec, ChargesOnce, BillingOf!Spec
===============================================================================
