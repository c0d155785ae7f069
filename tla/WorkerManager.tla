---------------------------- MODULE WorkerManager ----------------------------
(***************************************************************************)
(* One worker thread per game session: worker/manager.ts, the capabilities *)
(* and calls of worker/runtime.ts, and the thread of worker/game-worker.ts.*)
(*                                                                         *)
(* The engine serves a session's operations one after another, so a        *)
(* session has at most one call in progress; the threads run beside them.  *)
(* A call rejected by fail() is rejected in the same turn of the event     *)
(* loop, so that is one step.  Time is left out: a timer that is armed may *)
(* fire at any moment.  A thread that hangs takes no further step: nothing *)
(* is assumed of the threads.                                              *)
(***************************************************************************)
EXTENDS Integers, Sequences, FiniteSets, TLAPS

CONSTANTS
    Keys,           \* the sessions, room:game
    Caps,           \* the values WORKER_MAX may have
    MaxSpawns,      \* bound: threads started
    MaxCalls        \* bound: calls sent to one thread

ASSUME WorkerAssumption ==
    IsFiniteSet(Keys) /\ Caps \cup {MaxSpawns, MaxCalls} \subseteq Nat \ {0}

VARIABLES
    max,            \* the cap this manager was built with
    sessions,       \* the manager's map: the worker of each session, 0 is none
    spawned,        \* the workers created so far
    known,          \* per worker, the manager's Session: key, alive, ready, nextId, pending
    thread,         \* per worker, what the thread is doing
    inbox,          \* messages to the thread
    outbox,         \* messages and events from it
    call            \* per session, the call in progress or how the last one ended

manager == <<max, sessions, spawned, known, call>>
threads == <<thread, inbox, outbox>>
vars    == <<manager, threads>>

Workers == 1..MaxSpawns
NoCall == [at |-> "none"]
Ended == {"none", "resolved", "rejected"}

NewSession(k) == [key |-> k, alive |-> TRUE, ready |-> FALSE, nextId |-> 1, pending |-> {}]
Unborn == [key |-> "none", alive |-> FALSE, ready |-> FALSE, nextId |-> 1, pending |-> {}]

Init ==
    /\ max \in Caps
    /\ sessions = [k \in Keys |-> 0]
    /\ spawned = 0
    /\ known = [w \in Workers |-> Unborn]
    /\ thread = [w \in Workers |-> "unborn"]
    /\ inbox = [w \in Workers |-> <<>>]
    /\ outbox = [w \in Workers |-> <<>>]
    /\ call = [k \in Keys |-> NoCall]

-----------------------------------------------------------------------------
(* fail: the session is dropped, its calls are rejected, its thread killed. *)

\* Mutants: the waiting call is forgotten; every session's call is rejected.
Kill(w) == [thread EXCEPT ![w] = "gone"]

Rejects_Sent(w) == {k \in Keys : call[k].at = "sent" /\ call[k].by = w}
Rejects_All(w) == {k \in Keys : call[k].at \in {"waiting", "sent"}}
Rejects(w) == {k \in Keys : call[k].at \in {"waiting", "sent"} /\ call[k].by = w}

Fail(w) ==
    /\ known[w].alive
    /\ known' = [known EXCEPT ![w].alive = FALSE, ![w].pending = {}]
    /\ sessions' = [k \in Keys |-> IF sessions[k] = w THEN 0 ELSE sessions[k]]
    /\ call' = [k \in Keys |-> IF k \in Rejects(w) THEN [call[k] EXCEPT !.at = "rejected"] ELSE call[k]]
    /\ thread' = Kill(w)

\* exit after terminate, an error after a timeout: fail has run already.
FailOnce(w) == IF known[w].alive THEN Fail(w) ELSE UNCHANGED <<known, sessions, call, thread>>

-----------------------------------------------------------------------------
(* The engine's side.                                                      *)

AtCap == Cardinality({k \in Keys : sessions[k] # 0}) >= max

\* ensure: the session's worker, or a new one if the cap leaves room.
Call(k) ==
    /\ call[k].at \in Ended
    /\ \/ /\ sessions[k] # 0
          /\ known[sessions[k]].nextId <= MaxCalls
          /\ call' = [call EXCEPT ![k] = [at |-> "waiting", by |-> sessions[k], id |-> 0, got |-> <<>>]]
          /\ UNCHANGED <<max, sessions, spawned, known, threads>>
       \/ /\ sessions[k] = 0 /\ ~AtCap
          /\ spawned < MaxSpawns
          /\ LET w == spawned + 1
             IN /\ spawned' = w
                /\ sessions' = [sessions EXCEPT ![k] = w]
                /\ known' = [known EXCEPT ![w] = NewSession(k)]
                /\ thread' = [thread EXCEPT ![w] = "building"]
                /\ call' = [call EXCEPT ![k] = [at |-> "waiting", by |-> w, id |-> 0, got |-> <<>>]]
          /\ UNCHANGED <<max, inbox, outbox>>
       \/ /\ sessions[k] = 0 /\ AtCap                  \* WorkerCapError
          /\ call' = [call EXCEPT ![k] = [at |-> "rejected", by |-> 0, id |-> 0, got |-> <<>>]]
          /\ UNCHANGED <<max, sessions, spawned, known, threads>>

\* The module is built: the call is posted under an id of its worker's own.
Send(k) ==
    /\ call[k].at = "waiting" /\ known[call[k].by].ready
    /\ LET w == call[k].by
           id == known[w].nextId
       IN /\ known' = [known EXCEPT ![w].nextId = id + 1, ![w].pending = @ \cup {id}]
          /\ inbox' = [inbox EXCEPT ![w] = Append(@, id)]
          /\ call' = [call EXCEPT ![k].at = "sent", ![k].id = id]
    /\ UNCHANGED <<max, sessions, spawned, thread, outbox>>

\* endGame, exit and restart, from inside an operation whose calls are over;
\* disposeAll, at any moment of a shutdown.
Dispose(k) ==
    /\ sessions[k] # 0
    /\ Fail(sessions[k])
    /\ UNCHANGED <<max, spawned, inbox, outbox>>

-----------------------------------------------------------------------------
(* Events from a worker.  Its listeners hold on to their own session.      *)

\* Mutant: the session is looked up by its key when the event arrives.
Listener_ByKey(w) == IF sessions[known[w].key] = 0 THEN w ELSE sessions[known[w].key]
Listener(w) == w

OnReady(w) ==
    /\ known' = [known EXCEPT ![w].ready = known[w].alive]
    /\ UNCHANGED <<sessions, call, thread>>

\* A reply nobody waits for any more is dropped.
OnResult(w, id, from) ==
    /\ IF id \in known[w].pending
       THEN /\ known' = [known EXCEPT ![w].pending = @ \ {id}]
            /\ call' = [k \in Keys |->
                          IF call[k].at = "sent" /\ call[k].by = w /\ call[k].id = id
                          THEN [call[k] EXCEPT !.at = "resolved", !.got = <<from, id>>] ELSE call[k]]
       ELSE UNCHANGED <<known, call>>
    /\ UNCHANGED <<sessions, thread>>

OnEvent(w) ==
    /\ outbox[w] # <<>>
    /\ outbox' = [outbox EXCEPT ![w] = Tail(@)]
    /\ LET event == Head(outbox[w])
           session == Listener(w)
       IN \/ event.type = "ready" /\ OnReady(session)
          \/ event.type = "result" /\ OnResult(session, event.id, w)
          \/ event.type \in {"init-error", "exit"} /\ FailOnce(session)
    /\ UNCHANGED <<max, spawned, inbox>>

\* readyTimer, and the timer of each call.
TimeOut(w) ==
    /\ known[w].alive
    /\ ~known[w].ready \/ known[w].pending # {}
    /\ Fail(w)
    /\ UNCHANGED <<max, spawned, inbox, outbox>>

-----------------------------------------------------------------------------
(* The thread.                                                             *)

Posts(w, message) == outbox' = [outbox EXCEPT ![w] = Append(@, message)]

Build(w) ==
    /\ thread[w] = "building"
    /\ \/ thread' = [thread EXCEPT ![w] = "serving"] /\ Posts(w, [type |-> "ready"])
       \/ thread' = [thread EXCEPT ![w] = "broken"] /\ Posts(w, [type |-> "init-error"])
    /\ UNCHANGED <<manager, inbox>>

\* A method that throws is a reply like any other.
Serve(w) ==
    /\ thread[w] = "serving" /\ inbox[w] # <<>>
    /\ inbox' = [inbox EXCEPT ![w] = Tail(@)]
    /\ Posts(w, [type |-> "result", id |-> Head(inbox[w])])
    /\ UNCHANGED <<manager, thread>>

CrashThread(w) ==
    /\ thread[w] \in {"building", "serving"}
    /\ thread' = [thread EXCEPT ![w] = "gone"]
    /\ Posts(w, [type |-> "exit"])
    /\ UNCHANGED <<manager, inbox>>

Engine  == \E k \in Keys : Call(k) \/ Send(k) \/ Dispose(k)
Events  == \E w \in Workers : OnEvent(w) \/ TimeOut(w)
Threads == \E w \in Workers : Build(w) \/ Serve(w) \/ CrashThread(w)

Next == Engine \/ Events \/ Threads
Spec == Init /\ [][Next]_vars

\* The event loop delivers events, resumes awaits and runs the timers that are due.
\* Nothing is assumed of the threads.
FairSpec ==
    /\ Spec
    /\ \A k \in Keys : WF_vars(Send(k))
    /\ \A w \in Workers : WF_vars(OnEvent(w)) /\ WF_vars(TimeOut(w))

-----------------------------------------------------------------------------
(* Properties.                                                             *)

\* manager.ts:96-104, 177-185: a call is answered by the reply its own worker gave to
\* it, though a respawned worker numbers its calls from one again and replies of the
\* one before it may still be on their way.
OwnReply ==
    \A k \in Keys : call[k].at = "resolved" => call[k].got = <<call[k].by, call[k].id>>

\* manager.ts:5-6: a session's call is rejected only when its own worker failed, or
\* when there was no room for one.
FailureIsContained ==
    [][\A k \in Keys :
         call[k].at \in {"waiting", "sent"} /\ call'[k].at = "rejected" =>
             ~known'[call[k].by].alive]_vars

\* manager.ts:80-83 and 203-216: whatever the thread does, a call ends.
CallsEnd == \A k \in Keys : call[k].at \in {"waiting", "sent"} ~> call[k].at \in Ended

-----------------------------------------------------------------------------
(* Proofs: a call is answered by its own worker's reply to it, and a       *)
(* failing worker rejects its own calls only, for any number of sessions,  *)
(* workers and calls and whatever the threads do.                          *)

USE WorkerAssumption

-----------------------------------------------------------------------------
(* The shape of what the manager keeps.  Nothing need be known of the      *)
(* threads or of what is in their queues.                                  *)

SessionType ==
    [key : Keys \cup {"none"}, alive : BOOLEAN, ready : BOOLEAN, nextId : Nat, pending : SUBSET Nat]

Answers == {<<>>} \cup (Nat \X Nat)

CallType ==
    [at : {"waiting", "sent", "resolved", "rejected"}, by : 0..MaxSpawns, id : Nat, got : Answers]

Shape ==
    /\ sessions \in [Keys -> 0..MaxSpawns]
    /\ spawned \in 0..MaxSpawns
    /\ known \in [Workers -> SessionType]
    /\ call \in [Keys -> CallType \cup {NoCall}]

\* A call in progress is in the hands of a worker.
Held == \A k \in Keys : call[k].at \in {"waiting", "sent"} => call[k].by \in Workers

WorkerInv == Shape /\ Held /\ OwnReply

LEMMA CallShape ==
  ASSUME NEW c \in CallType \cup {NoCall}, c.at # "none"
  PROVE  c \in CallType
  BY DEF CallType, NoCall

LEMMA Rejected ==
  ASSUME NEW c \in CallType
  PROVE  /\ [c EXCEPT !.at = "rejected"] \in CallType
         /\ [c EXCEPT !.at = "rejected"].at = "rejected"
  BY DEF CallType

LEMMA Resolved ==
  ASSUME NEW c \in CallType, NEW got \in Answers
  PROVE  LET d == [c EXCEPT !.at = "resolved", !.got = got]
         IN  d \in CallType /\ d.at = "resolved" /\ d.got = got /\ d.by = c.by /\ d.id = c.id
  BY DEF CallType

-----------------------------------------------------------------------------
(* fail rejects the calls of its worker and touches no other.              *)

LEMMA FailKeeps ==
  ASSUME WorkerInv, NEW w \in Workers, Fail(w), spawned' = spawned
  PROVE  WorkerInv' /\ ~known'[w].alive
  <1>1. known' \in [Workers -> SessionType] /\ ~known'[w].alive
    <2>1. known[w] \in SessionType
      BY DEF WorkerInv, Shape
    <2>2. [known[w] EXCEPT !.alive = FALSE, !.pending = {}] \in SessionType
      BY <2>1 DEF SessionType
    <2>3. known' = [known EXCEPT ![w] = [known[w] EXCEPT !.alive = FALSE, !.pending = {}]]
      BY <2>1 DEF Fail, WorkerInv, Shape, SessionType
    <2>4. [known[w] EXCEPT !.alive = FALSE, !.pending = {}].alive = FALSE
      BY <2>1 DEF SessionType
    <2> QED  BY <2>2, <2>3, <2>4 DEF WorkerInv, Shape
  <1>2. sessions' \in [Keys -> 0..MaxSpawns]
    BY DEF Fail, WorkerInv, Shape
  <1>3. \A k \in Keys :
          \/ call'[k] = call[k]
          \/ /\ call[k] \in CallType /\ call[k].at \in {"waiting", "sent"}
             /\ call'[k] = [call[k] EXCEPT !.at = "rejected"]
    BY CallShape DEF Fail, Rejects, WorkerInv, Shape
  <1>4. call' \in [Keys -> CallType \cup {NoCall}]
    <2>1. call' = [k \in Keys |-> call'[k]]
      BY DEF Fail
    <2>2. \A k \in Keys : call'[k] \in CallType \cup {NoCall}
      <3> TAKE k \in Keys
      <3>1. CASE call'[k] = call[k]
        BY <3>1 DEF WorkerInv, Shape
      <3>2. CASE call[k] \in CallType /\ call'[k] = [call[k] EXCEPT !.at = "rejected"]
        BY <3>2, Rejected
      <3> QED  BY <1>3, <3>1, <3>2
    <2> QED  BY <2>1, <2>2
  <1>5. Held' /\ OwnReply'
    <2>1. \A k \in Keys : call'[k] = call[k] \/ call'[k].at = "rejected"
      BY <1>3, Rejected
    <2> QED  BY <2>1 DEF WorkerInv, Held, OwnReply
  <1> QED  BY <1>1, <1>2, <1>4, <1>5 DEF WorkerInv, Shape

LEMMA FailContained ==
  ASSUME WorkerInv, NEW w \in Workers, Fail(w), NEW k \in Keys,
         call[k].at \in {"waiting", "sent"}, call'[k].at = "rejected"
  PROVE  ~known'[call[k].by].alive
  <1>1. call[k].by = w
    BY CallShape DEF Fail, Rejects, WorkerInv, Shape, CallType
  <1> QED  BY <1>1 DEF Fail, WorkerInv, Shape, SessionType

-----------------------------------------------------------------------------
(* One step of Next at a time: the invariant, and what becomes of a call   *)
(* in progress.                                                            *)

Contained ==
    \A k \in Keys :
        call[k].at \in {"waiting", "sent"} /\ call'[k].at = "rejected" => ~known'[call[k].by].alive

LEMMA CallStep ==
  ASSUME WorkerInv, NEW k \in Keys, Call(k)
  PROVE  WorkerInv' /\ Contained
  <1>1. PICK c \in CallType :
          /\ c.at \in {"waiting", "rejected"}
          /\ c.at = "waiting" => c.by \in Workers
          /\ call' = [call EXCEPT ![k] = c]
    <2>1. CASE sessions[k] # 0
      <3> DEFINE c == [at |-> "waiting", by |-> sessions[k], id |-> 0, got |-> <<>>]
      <3>1. c \in CallType /\ c.by \in Workers
        BY <2>1 DEF WorkerInv, Shape, CallType, Workers, Answers
      <3>2. call' = [call EXCEPT ![k] = c]
        BY <2>1 DEF Call
      <3> QED  BY <3>1, <3>2
    <2>2. CASE sessions[k] = 0 /\ ~AtCap
      <3> DEFINE c == [at |-> "waiting", by |-> spawned + 1, id |-> 0, got |-> <<>>]
      <3>1. c \in CallType /\ c.by \in Workers
        BY <2>2 DEF WorkerInv, Shape, CallType, Workers, Call, Answers
      <3>2. call' = [call EXCEPT ![k] = c]
        BY <2>2 DEF Call
      <3> QED  BY <3>1, <3>2
    <2>3. CASE sessions[k] = 0 /\ AtCap
      <3> DEFINE c == [at |-> "rejected", by |-> 0, id |-> 0, got |-> <<>>]
      <3>1. c \in CallType
        BY DEF CallType, Answers
      <3>2. call' = [call EXCEPT ![k] = c]
        BY <2>3 DEF Call
      <3> QED  BY <3>1, <3>2
    <2> QED  BY <2>1, <2>2, <2>3
  <1>2. sessions' \in [Keys -> 0..MaxSpawns] /\ spawned' \in 0..MaxSpawns
    BY DEF Call, WorkerInv, Shape
  <1>3. known' \in [Workers -> SessionType]
    <2>1. NewSession(k) \in SessionType
      BY DEF NewSession, SessionType
    <2> QED  BY <2>1 DEF Call, WorkerInv, Shape
  <1>4. call' \in [Keys -> CallType \cup {NoCall}] /\ Held' /\ OwnReply'
    BY <1>1 DEF WorkerInv, Shape, Held, OwnReply
  <1>5. Contained
    BY <1>1 DEF Contained, Call, Ended, WorkerInv, Shape
  <1> QED  BY <1>2, <1>3, <1>4, <1>5 DEF WorkerInv, Shape

LEMMA SendStep ==
  ASSUME WorkerInv, NEW k \in Keys, Send(k)
  PROVE  WorkerInv' /\ Contained
  <1> DEFINE w == call[k].by
             id == known[w].nextId
  <1>1. w \in Workers /\ id \in Nat /\ call[k] \in CallType
    BY CallShape DEF Send, WorkerInv, Held, Shape, SessionType
  <1>2. known' \in [Workers -> SessionType]
    <2>1. [known[w] EXCEPT !.nextId = id + 1, !.pending = @ \cup {id}] \in SessionType
      <3>1. known[w] \in SessionType
        BY <1>1 DEF WorkerInv, Shape
      <3>2. id + 1 \in Nat /\ known[w].pending \cup {id} \subseteq Nat
        BY <1>1, <3>1 DEF SessionType
      <3> QED  BY <3>1, <3>2 DEF SessionType
    <2>2. known' = [known EXCEPT ![w] = [known[w] EXCEPT !.nextId = id + 1, !.pending = @ \cup {id}]]
      BY <1>1 DEF Send, WorkerInv, Shape, SessionType
    <2> QED  BY <2>1, <2>2 DEF WorkerInv, Shape
  <1>3. call' = [call EXCEPT ![k] = [call[k] EXCEPT !.at = "sent", !.id = id]]
    BY <1>1 DEF Send, WorkerInv, Shape, CallType
  <1>4. [call[k] EXCEPT !.at = "sent", !.id = id] \in CallType
    BY <1>1 DEF CallType
  <1>5. call' \in [Keys -> CallType \cup {NoCall}] /\ Held' /\ OwnReply'
    BY <1>1, <1>3, <1>4 DEF WorkerInv, Shape, Held, OwnReply, CallType
  <1>6. Contained
    BY <1>1, <1>3 DEF Contained, WorkerInv, Shape, CallType
  <1> QED  BY <1>2, <1>5, <1>6 DEF Send, WorkerInv, Shape

LEMMA FailStep ==
  ASSUME WorkerInv, NEW w \in Workers, Fail(w), spawned' = spawned
  PROVE  WorkerInv' /\ Contained
  BY FailKeeps, FailContained DEF Contained

LEMMA OnReadyStep ==
  ASSUME WorkerInv, NEW w \in Workers, OnReady(w), spawned' = spawned
  PROVE  WorkerInv' /\ Contained
  <1>1. known' \in [Workers -> SessionType]
    BY DEF OnReady, WorkerInv, Shape, SessionType
  <1> QED  BY <1>1 DEF OnReady, WorkerInv, Shape, Held, OwnReply, Contained

LEMMA OnResultStep ==
  ASSUME WorkerInv, NEW w \in Workers, NEW id, OnResult(w, id, w), spawned' = spawned
  PROVE  WorkerInv' /\ Contained
  <1>1. CASE id \notin known[w].pending
    BY <1>1 DEF OnResult, WorkerInv, Shape, Held, OwnReply, Contained
  <1>2. CASE id \in known[w].pending
    <2>1. id \in Nat /\ w \in Nat
      BY <1>2 DEF WorkerInv, Shape, SessionType, Workers
    <2>2. known' \in [Workers -> SessionType]
      <3>1. known[w] \in SessionType
        BY DEF WorkerInv, Shape
      <3>2. known[w].pending \ {id} \subseteq Nat
        BY <3>1 DEF SessionType
      <3>3. [known[w] EXCEPT !.pending = @ \ {id}] \in SessionType
        BY <3>1, <3>2 DEF SessionType
      <3>4. known' = [known EXCEPT ![w] = [known[w] EXCEPT !.pending = @ \ {id}]]
        BY <1>2 DEF OnResult, WorkerInv, Shape
      <3> QED  BY <3>3, <3>4 DEF WorkerInv, Shape
    <2>3. \A k \in Keys :
            \/ call'[k] = call[k]
            \/ /\ call[k] \in CallType /\ call[k].by = w /\ call[k].id = id
               /\ call'[k] = [call[k] EXCEPT !.at = "resolved", !.got = <<w, id>>]
      BY <1>2, CallShape DEF OnResult, WorkerInv, Shape
    <2>4. \A k \in Keys :
            \/ call'[k] = call[k]
            \/ /\ call'[k] \in CallType
               /\ call'[k].at = "resolved" /\ call'[k].got = <<call'[k].by, call'[k].id>>
      <3>1. <<w, id>> \in Answers
        BY <2>1 DEF Answers
      <3> TAKE k \in Keys
      <3>2. CASE /\ call[k] \in CallType /\ call[k].by = w /\ call[k].id = id
                 /\ call'[k] = [call[k] EXCEPT !.at = "resolved", !.got = <<w, id>>]
        <4> DEFINE d == [call[k] EXCEPT !.at = "resolved", !.got = <<w, id>>]
        <4>1. /\ d \in CallType /\ d.at = "resolved" /\ d.got = <<w, id>>
              /\ d.by = call[k].by /\ d.id = call[k].id
          BY <3>1, <3>2, Resolved
        <4> QED  BY <3>2, <4>1
      <3> QED  BY <2>3, <3>2
    <2>5. call' = [k \in Keys |-> call'[k]]
      BY <1>2 DEF OnResult
    <2>6. call' \in [Keys -> CallType \cup {NoCall}]
      BY <2>4, <2>5 DEF WorkerInv, Shape
    <2>7. Held' /\ OwnReply' /\ Contained
      BY <2>4 DEF WorkerInv, Held, OwnReply, Contained
    <2> QED  BY <2>2, <2>6, <2>7 DEF OnResult, WorkerInv, Shape
  <1> QED  BY <1>1, <1>2

LEMMA ManagerStep ==
  ASSUME WorkerInv, [Next]_vars
  PROVE  WorkerInv' /\ Contained
  <1>1. ASSUME UNCHANGED manager
        PROVE  WorkerInv' /\ Contained
    BY <1>1 DEF manager, WorkerInv, Shape, Held, OwnReply, Contained
  <1>2. CASE Engine
    <2>1. ASSUME NEW k \in Keys, Dispose(k)
          PROVE  WorkerInv' /\ Contained
      <3>1. sessions[k] \in Workers
        BY <2>1 DEF Dispose, WorkerInv, Shape, Workers
      <3> QED  BY <2>1, <3>1, FailStep DEF Dispose
    <2> QED  BY <1>2, <2>1, CallStep, SendStep DEF Engine
  <1>3. CASE Events
    <2>1. ASSUME NEW w \in Workers, OnEvent(w)
          PROVE  WorkerInv' /\ Contained
      <3> DEFINE event == Head(outbox[w])
      <3>1. \/ OnReady(w) \/ OnResult(w, event.id, w) \/ FailOnce(w)
        BY <2>1 DEF OnEvent, Listener
      <3>2. UNCHANGED <<max, spawned>>
        BY <2>1 DEF OnEvent
      <3>3. CASE OnReady(w)
        BY <3>2, <3>3, OnReadyStep
      <3>4. CASE OnResult(w, event.id, w)
        BY <3>2, <3>4, OnResultStep
      <3>5. CASE FailOnce(w)
        BY <3>2, <3>5, <1>1, FailStep DEF FailOnce, manager
      <3> QED  BY <3>1, <3>3, <3>4, <3>5
    <2> QED  BY <1>3, <2>1, FailStep DEF Events, TimeOut
  <1>4. CASE Threads
    BY <1>1, <1>4 DEF Threads, Build, Serve, CrashThread
  <1>5. CASE UNCHANGED vars
    BY <1>1, <1>5 DEF vars
  <1> QED  BY <1>2, <1>3, <1>4, <1>5 DEF Next

LEMMA ManagerInit ==
  ASSUME Init
  PROVE  WorkerInv
  <1>1. Unborn \in SessionType
    BY DEF Unborn, SessionType
  <1> QED  BY <1>1 DEF Init, WorkerInv, Shape, Held, OwnReply, NoCall

(* manager.ts:96-104 and 177-185: whatever threads crash, hang or answer   *)
(* late, a resolved call carries its own worker's reply to its own id.     *)
THEOREM RepliesAreOwn == Spec => []OwnReply
  <1>1. Spec => []WorkerInv
    BY ManagerInit, ManagerStep, PTL DEF Spec
  <1>2. WorkerInv => OwnReply
    BY DEF WorkerInv
  <1> QED  BY <1>1, <1>2, PTL

(* manager.ts:5-6: a call in progress is rejected only by the failure of   *)
(* the worker that has it; the other sessions' calls go on.                *)
THEOREM FailuresAreContained == Spec => FailureIsContained
  <1>1. Spec => []WorkerInv
    BY ManagerInit, ManagerStep, PTL DEF Spec
  <1>2. WorkerInv /\ [Next]_vars => [Contained]_vars
    BY ManagerStep
  <1>3. [Contained]_vars =>
          [\A k \in Keys :
             call[k].at \in {"waiting", "sent"} /\ call'[k].at = "rejected" =>
                 ~known'[call[k].by].alive]_vars
    BY DEF Contained
  <1> QED  BY <1>1, <1>2, <1>3, PTL DEF Spec, FailureIsContained
==============================================================================
