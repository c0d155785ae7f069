------------------------------ MODULE Reporting ------------------------------
(***************************************************************************)
(* From a finished round to the ledger: the engine's outbox of reports     *)
(* (engine.ts), the HTTP call that carries one (reporter.ts), the intake   *)
(* of the control plane (rooms/service.ts) and the credit ledger.          *)
(*                                                                         *)
(* One room plays one game, any number of times.  The engine holds the     *)
(* session's lock over a whole operation, and the awaits inside it are the *)
(* steps here: `op' is the operation with its working copy of the session, *)
(* which only its last step saves.  The control plane serves each request  *)
(* in a handler of its own; one whose caller gave up works on.             *)
(***************************************************************************)
EXTENDS Integers, Sequences, FiniteSets, Functions

CONSTANTS
    Rounds,         \* cfg.rounds
    Balance,        \* the host's credits before the first game
    Faults,         \* which of "engine", "control", "reply" may happen
    MaxRuns,        \* bound: the games a session may be restarted into
    MaxGames,       \* bound: the times the game is started in the room
    MaxFaults       \* bound: the faults of one behaviour

ASSUME ReportingAssumption ==
    /\ {Rounds, MaxRuns, MaxGames} \subseteq Nat \ {0}
    /\ {Balance, MaxFaults} \subseteq Nat
    /\ Faults \subseteq {"engine", "control", "reply"}

VARIABLES
    session,        \* the stored session: what reporting reads and writes of it
    op,             \* the operation in progress and its working copy
    handlers,       \* the requests the control plane is serving
    rounds,         \* room_rounds
    games,          \* room_games
    plays,          \* game_plays, by the game they were recorded for
    ledger,         \* credit_ledger: the debits
    started,        \* history: how often the game was started
    scored,         \* history: the rounds the engine has scored
    finished,       \* history: those whose scores a session was saved with
    faults          \* history: the faults so far

engine  == <<session, op>>
control == <<rounds, games, plays, ledger>>
history == <<started, scored, finished, faults>>
vars    == <<engine, handlers, control, history>>

-----------------------------------------------------------------------------
(* A report is known by its id.  The id of a round is made of the room,    *)
(* the game, the run and the round; `game' says which start it belongs to  *)
(* and is in no id.                                                        *)

Report(kind, s, n) == [kind |-> kind, run |-> s.runId, round |-> n, game |-> s.game]
RoundReport(s) == Report("round", s, s.round)
CompleteReport(s) == Report("game", s, 0)

Id(report) == <<report.run, report.round>>
IdsOf(reports) == {Id(r) : r \in Range(reports)}

PlayedRounds == [kind : {"round"}, run : 1..MaxRuns, round : 1..Rounds, game : 1..MaxGames]

NoSession ==
    [phase |-> "absent", game |-> 0, runId |-> 0, round |-> 0,
     reported |-> {}, pending |-> <<>>, completeReported |-> FALSE]
Idle == [does |-> "nothing"]

Init ==
    /\ session = NoSession /\ op = Idle /\ handlers = {}
    /\ rounds = {} /\ games = {} /\ plays = {} /\ ledger = <<>>
    /\ started = 0 /\ scored = {} /\ finished = {} /\ faults = 0

-----------------------------------------------------------------------------
(* The engine.                                                             *)

Save(s) == session' = s /\ UNCHANGED <<op, handlers, control>>

Begin(does, s, todo) ==
    /\ op' = [does |-> does, s |-> s, todo |-> todo, kept |-> <<>>, asked |-> FALSE]
    /\ UNCHANGED <<session, handlers, control, started, finished, faults>>

\* The start gate: today's balance must cover the rounds; nothing is reserved.
CanAfford == Balance - Len(ledger) >= Rounds

Start ==
    /\ op = Idle /\ session.phase \in {"absent", "complete"}
    /\ CanAfford
    /\ started < MaxGames /\ started' = started + 1
    /\ Save([NoSession EXCEPT !.phase = "playing", !.game = started + 1, !.runId = 1, !.round = 1])
    /\ UNCHANGED <<scored, finished, faults>>

\* The round is scored: its report joins the outbox, and the outbox is flushed.
FinalizeRound ==
    /\ op = Idle /\ session.phase = "playing"
    /\ LET r == RoundReport(session)
           known == Id(r) \in session.reported \cup IdsOf(session.pending)
           s == [session EXCEPT !.phase = "leaderboard",
                                !.pending = IF known THEN @ ELSE Append(@, r)]
       IN Begin("finalize", s, s.pending) /\ scored' = scored \cup {r}

NextRound ==
    /\ op = Idle /\ session.phase = "leaderboard" /\ session.round < Rounds
    /\ Save([session EXCEPT !.phase = "playing", !.round = @ + 1])
    /\ UNCHANGED history

Completion(s) == IF s.completeReported THEN <<>> ELSE <<CompleteReport(s)>>

\* The last round is over, or the module says the game is.
EndGame ==
    /\ op = Idle /\ session.phase = "leaderboard"
    /\ Begin("end", [session EXCEPT !.phase = "complete"], session.pending \o Completion(session))
    /\ UNCHANGED scored

NextRun_ForgetsTheOutbox(s) ==                                        \* mutant
    [s EXCEPT !.runId = @ + 1, !.round = 1, !.phase = "playing", !.completeReported = FALSE,
              !.pending = <<>>]
NextRun(s) ==
    [s EXCEPT !.runId = @ + 1, !.round = 1, !.phase = "playing", !.completeReported = FALSE]

Restart ==
    /\ op = Idle /\ session.phase # "absent" /\ session.runId < MaxRuns
    /\ Save(NextRun(session))
    /\ UNCHANGED history

\* An exit reports the game and flushes nothing.
Exit ==
    /\ op = Idle /\ session.phase # "absent"
    /\ Begin("exit", [session EXCEPT !.phase = "complete"], Completion(session))
    /\ UNCHANGED scored

\* A finished session outlives its game by COMPLETE_SESSION_TTL_SECONDS.
Expire ==
    /\ op = Idle /\ session.phase = "complete" /\ Save(NoSession)
    /\ UNCHANGED history

-----------------------------------------------------------------------------
(* The flush: one report at a time, each awaited.                          *)

Sending == op # Idle /\ op.todo # <<>>

\* A round known by its id is not sent again.
Known(s, r) == r.kind = "round" /\ Id(r) \in s.reported

Send ==
    /\ Sending /\ ~op.asked
    /\ IF Known(op.s, Head(op.todo))
       THEN op' = [op EXCEPT !.todo = Tail(@)] /\ handlers' = handlers
       ELSE /\ op' = [op EXCEPT !.asked = TRUE]
            /\ handlers' = handlers \cup {[report |-> Head(op.todo), at |-> "record", mine |-> TRUE]}
    /\ UNCHANGED <<session, control, history>>

\* tryReport: only a 2xx answer counts as delivered.
Delivered(r) ==
    op' = [op EXCEPT !.todo = Tail(@), !.asked = FALSE,
                     !.s = IF r.kind = "game" THEN [op.s EXCEPT !.completeReported = TRUE]
                           ELSE [op.s EXCEPT !.reported = op.s.reported \cup {Id(r)}]]

\* Mutant: the operation goes on waiting.
Undelivered_Waits(r) == UNCHANGED op

Undelivered(r) ==
    op' = [op EXCEPT !.todo = Tail(@), !.asked = FALSE,
                     !.kept = IF r.kind = "game" THEN @ ELSE Append(@, r)]

Answered(h) ==
    /\ h.mine /\ h.at = "done"
    /\ Delivered(h.report)
    /\ handlers' = handlers \ {h}
    /\ UNCHANGED <<session, control, history>>

\* finalizeRound and endGame save the session, exit deletes it.
FinishOp ==
    /\ op # Idle /\ op.todo = <<>>
    /\ session' = IF op.does = "exit" THEN NoSession ELSE [op.s EXCEPT !.pending = op.kept]
    /\ op' = Idle
    /\ finished' = IF op.does = "finalize" THEN finished \cup {RoundReport(op.s)} ELSE finished
    /\ UNCHANGED <<handlers, control, started, scored, faults>>

-----------------------------------------------------------------------------
(* The control plane: each statement commits by itself.                    *)

Goes(h, to) ==
    handlers' = (handlers \ {h}) \cup
        IF to = "done" /\ ~h.mine THEN {} ELSE {[h EXCEPT !.at = to]}

\* INSERT ... ON CONFLICT DO NOTHING on room_rounds, then on to the debit.
\* Mutant: only the first record of a round is debited.
AfterRecord_Dedupes(r) == IF Id(r) \in {Id(x) : x \in rounds} THEN "done" ELSE "debit"
AfterRecord(r) == "debit"

Once(table, r) == IF Id(r) \in {Id(x) : x \in table} THEN table ELSE table \cup {r}

RecordRound(h) ==
    /\ h.report.kind = "round" /\ h.at = "record"
    /\ rounds' = Once(rounds, h.report)
    /\ Goes(h, AfterRecord(h.report))
    /\ UNCHANGED <<engine, games, plays, ledger, history>>

\* CreditLedger.debitRound: the key of the row is the id of the round.
AppendDebit_Blindly(r) == Append(ledger, r)                           \* mutant
AppendDebit(r) == IF Id(r) \in IdsOf(ledger) THEN ledger ELSE Append(ledger, r)

DebitRound(h) ==
    /\ h.at = "debit"
    /\ ledger' = AppendDebit(h.report)
    /\ Goes(h, "done")
    /\ UNCHANGED <<engine, rounds, games, plays, history>>

\* Only the first record of a game goes on to the players' histories.
RecordGame(h) ==
    /\ h.report.kind = "game" /\ h.at = "record"
    /\ games' = Once(games, h.report)
    /\ Goes(h, IF games' = games THEN "done" ELSE "plays")
    /\ UNCHANGED <<engine, rounds, plays, ledger, history>>

RecordPlays(h) ==
    /\ h.at = "plays"
    /\ plays' = Once(plays, h.report)
    /\ Goes(h, "done")
    /\ UNCHANGED <<engine, rounds, games, ledger, history>>

-----------------------------------------------------------------------------
(* What may go wrong.                                                      *)

Fault ==
    /\ faults < MaxFaults /\ faults' = faults + 1
    /\ UNCHANGED <<session, control, started, scored, finished>>

Orphan(h) == [h EXCEPT !.mine = FALSE]

\* The connection breaks: the fetch rejects, the handler works on.
ReplyLost(h) ==
    /\ "reply" \in Faults /\ h.mine
    /\ Undelivered(h.report)
    /\ handlers' = (handlers \ {h}) \cup IF h.at = "done" THEN {} ELSE {Orphan(h)}
    /\ Fault

\* A statement fails, or the control plane dies: the caller gets no 2xx.
HandlerFails(h) ==
    /\ "control" \in Faults /\ h.at # "done"
    /\ handlers' = handlers \ {h}
    /\ IF h.mine THEN Undelivered(h.report) ELSE UNCHANGED op
    /\ Fault

\* The engine dies part way: the working copy is lost, the requests are not.
Crash ==
    /\ "engine" \in Faults /\ op # Idle
    /\ op' = Idle
    /\ handlers' = {h \in handlers : ~h.mine} \cup 
            {Orphan(h) : h \in {x \in handlers : x.mine /\ x.at # "done"}}
    /\ Fault

Table   == Start \/ FinalizeRound \/ NextRound \/ EndGame \/ Restart \/ Exit \/ Expire
Outbox  == Send \/ FinishOp \/ \E h \in handlers : Answered(h)
Intake  == \E h \in handlers : RecordRound(h) \/ DebitRound(h) \/ RecordGame(h) \/ RecordPlays(h)
Failing == Crash \/ \E h \in handlers : ReplyLost(h) \/ HandlerFails(h)

Next == Table \/ Outbox \/ Intake \/ Failing
Spec == Init /\ [][Next]_vars

\* An await resumes and a request that arrived is served; hosts need not act.
FairSpec == Spec /\ WF_vars(Outbox) /\ WF_vars(Intake)

-----------------------------------------------------------------------------
(* Properties.                                                             *)

\* service.ts:610-614: a round the engine will never send again has been billed,
\* whichever of its attempts died between the record and the debit.
ReportedIsBilled == session.reported \subseteq IdsOf(ledger)

\* engine.ts:736-750: a scored round of a session that is still there was delivered
\* or waits in the outbox, through failures, restarts of the game and crashes.
NothingForgotten ==
    \A r \in finished :
        r.game = session.game => Id(r) \in session.reported \cup IdsOf(session.pending)

\* Retries, late answers and crashes included, the ledger behaves as Billing says:
\* a round is charged once, and only after the engine scored it.
BillingOf == INSTANCE Billing WITH Plays <- PlayedRounds, charges <- ledger
ChargesOnce == BillingOf!Spec

\* engine.ts:742-750: an unreachable control plane costs an operation one failed
\* attempt per report, it never holds the session's lock for good.
OperationsEnd == (op # Idle) ~> (op = Idle)

\* docs/overview/architecture.md:496-497 and session.ts:14, ids are "unique per run":
\* a round the engine has delivered was charged to the host, whichever of the room's
\* games it was played in.
ReportedRoundsArePaid ==
    \A r \in finished :
        r.game = session.game /\ Id(r) \in session.reported => \E i \in DOMAIN ledger : ledger[i] = r
===============================================================================
