---------------------------- MODULE Presence_proof ----------------------------
(***************************************************************************)
(* Presence for any roster, any viewers, any number of connections and any *)
(* faults: what a joined device shows, and whom a held table waits for.    *)
(***************************************************************************)
EXTENDS Presence, TLAPS

Phases == {"absent", "collecting", "review", "complete"}
Session == [phase : Phases, connected : SUBSET People, paused : BOOLEAN, hostPaused : BOOLEAN]
Queued == [op : {"join", "leave"}, by : Sockets]

Typed ==
    /\ link \in [Sockets -> {"unused", "open", "cut", "closed"}]
    /\ owner \in [Sockets -> People]
    /\ join \in [Sockets -> {"none", "sent", "public", "private", "engine", "joined", "refused"}]
    /\ bindings \subseteq Sockets
    /\ queue \in Seq(Queued)
    /\ session \in Session
    /\ manual \in BOOLEAN

\* A bound connection has been through both subscriptions, and listens.
Subscribed ==
    /\ \A s \in bindings : join[s] \in {"engine", "joined"} /\ s \in streams
    /\ \A s \in Sockets : join[s] = "private" => s \in streams
    /\ \A s \in Sockets : s \in bindings \/ join[s] \in {"sent", "public", "private"} => link[s] # "unused"

\* A pause nobody asked for is the one the host's drop set.
HeldForTheHost == session.paused /\ ~manual => session.hostPaused /\ Host \notin session.connected

PresenceInv == Typed /\ Subscribed /\ NoFrameMissed /\ HeldForTheHost

-----------------------------------------------------------------------------
(* What a join and a leave make of the session.                            *)

LEMMA BackKeeps ==
  ASSUME NEW p \in People, session \in Session, HeldForTheHost, manual \in BOOLEAN,
         session' = Back(session, p), manual' = (manual /\ session'.paused)
  PROVE  session' \in Session /\ manual' \in BOOLEAN /\ HeldForTheHost'
  BY DEF Back, Session, HeldForTheHost

LEMMA GoneKeeps ==
  ASSUME NEW p \in People, session \in Session, HeldForTheHost, manual \in BOOLEAN,
         session' = Gone(session, p), manual' = manual
  PROVE  session' \in Session /\ HeldForTheHost'
  BY DEF Gone, Session, HeldForTheHost

LEMMA HeadIsQueued ==
  ASSUME queue \in Seq(Queued), queue # <<>>
  PROVE  Head1 \in Queued /\ Head1.by \in Sockets /\ Tail(queue) \in Seq(Queued)
  <1>1. Head(queue) \in Queued /\ Tail(queue) \in Seq(Queued)
    OBVIOUS
  <1> QED  BY <1>1 DEF Head1, Queued

LEMMA Standing ==
  ASSUME HeldForTheHost, UNCHANGED <<session, manual>>
  PROVE  HeldForTheHost'
  BY DEF HeldForTheHost

-----------------------------------------------------------------------------
(* The devices and the server.                                             *)

LEMMA DevicesKeep ==
  ASSUME PresenceInv, Devices
  PROVE  PresenceInv'
  <1>1. ASSUME NEW p \in People, Connect(p) PROVE PresenceInv'
    <2>1. PICK s \in Sockets :
             /\ link[s] = "unused" /\ link' = [link EXCEPT ![s] = "open"]
             /\ owner' = [owner EXCEPT ![s] = p] /\ join' = [join EXCEPT ![s] = "sent"]
      BY <1>1 DEF Connect
    <2>2. UNCHANGED <<bindings, streams, frames, fresh, missed, queue, session, manual>>
      BY <1>1 DEF Connect, display, history
    <2>3. Typed'
      BY <2>1, <2>2 DEF PresenceInv, Typed
    <2>4. Subscribed' /\ NoFrameMissed'
      BY <2>1, <2>2 DEF PresenceInv, Typed, Subscribed, NoFrameMissed
    <2> QED  BY <2>2, <2>3, <2>4, Standing DEF PresenceInv
  <1>2. ASSUME NEW p \in People, Lose(p) PROVE PresenceInv'
    <2>1. /\ link' = [link EXCEPT ![client[p]] = "cut"]
          /\ UNCHANGED <<owner, join, bindings, streams, frames, fresh, missed, queue, session, manual>>
      BY <1>2 DEF Lose, server, display, history
    <2>2. Typed'
      BY <2>1 DEF PresenceInv, Typed
    <2>3. Subscribed' /\ NoFrameMissed'
      BY <2>1 DEF PresenceInv, Typed, Subscribed, NoFrameMissed
    <2> QED  BY <2>1, <2>2, <2>3, Standing DEF PresenceInv
  <1> QED  BY <1>1, <1>2 DEF Devices

LEMMA SubscribingKeeps ==
  ASSUME PresenceInv, NEW s \in Sockets,
         HandleJoin(s) \/ SubscribePublic(s) \/ SubscribePrivate(s) \/ SubscribeFails(s) \/ Deliver(s)
  PROVE  PresenceInv'
  <1>1. UNCHANGED <<link, owner, session, manual>>
    BY DEF HandleJoin, SubscribePublic, SubscribePrivate, SubscribeFails, Deliver, sockets, history
  <1>2. Typed'
    <2>1. CASE SubscribePrivate(s)
      <3>1. [op |-> "join", by |-> s] \in Queued
        BY DEF Queued
      <3>2. queue' \in Seq(Queued)
        BY <2>1, <3>1 DEF SubscribePrivate, PresenceInv, Typed
      <3>3. bindings' \subseteq Sockets /\ join' = [join EXCEPT ![s] = "engine"]
        BY <2>1 DEF SubscribePrivate, Reaches, PresenceInv, Typed
      <3> QED  BY <1>1, <3>2, <3>3 DEF PresenceInv, Typed
    <2>2. CASE HandleJoin(s) \/ SubscribePublic(s) \/ SubscribeFails(s) \/ Deliver(s)
      <3>1. UNCHANGED queue /\ bindings' \subseteq bindings
        BY <2>2 DEF HandleJoin, SubscribePublic, SubscribeFails, Deliver, Unsubscribe, server
      <3>2. \/ join' = join
            \/ \E to \in {"public", "private", "refused"} : join' = [join EXCEPT ![s] = to]
        BY <2>2 DEF HandleJoin, SubscribePublic, SubscribeFails, Deliver, Reaches, server
      <3> QED  BY <1>1, <3>1, <3>2 DEF PresenceInv, Typed
    <2> QED  BY <2>1, <2>2
  <1>3. join \in [Sockets -> {"none", "sent", "public", "private", "engine", "joined", "refused"}]
        /\ bindings \subseteq Sockets
    BY DEF PresenceInv, Typed
  <1>4. CASE HandleJoin(s)
    BY <1>1, <1>2, <1>3, <1>4, Standing
       DEF HandleJoin, Reaches, display, PresenceInv, Subscribed, NoFrameMissed
  <1>5. CASE SubscribePublic(s)
    BY <1>1, <1>2, <1>3, <1>5, Standing
       DEF SubscribePublic, Reaches, display, PresenceInv, Subscribed, NoFrameMissed
  <1>6. CASE SubscribePrivate(s)
    BY <1>1, <1>2, <1>3, <1>6, Standing
       DEF SubscribePrivate, Reaches, display, PresenceInv, Subscribed, NoFrameMissed
  <1>7. CASE SubscribeFails(s)
    BY <1>1, <1>2, <1>3, <1>7, Standing
       DEF SubscribeFails, Unsubscribe, Reaches, display, PresenceInv, Subscribed, NoFrameMissed
  <1>8. CASE Deliver(s)
    BY <1>1, <1>2, <1>3, <1>8, Standing
       DEF Deliver, server, PresenceInv, Subscribed, NoFrameMissed
  <1> QED  BY <1>4, <1>5, <1>6, <1>7, <1>8

LEMMA CloseKeeps ==
  ASSUME PresenceInv, NEW s \in Sockets, Close(s)
  PROVE  PresenceInv'
  <1>1. /\ link' = [link EXCEPT ![s] = "closed"]
        /\ UNCHANGED <<owner, session, manual>>
        /\ join' = IF join[s] \in {"sent", "joined", "refused"} THEN [join EXCEPT ![s] = "none"] ELSE join
        /\ frames' = frames \ {s} /\ fresh' = fresh \ {s} /\ missed' = missed \ {s}
    BY DEF Close, history
  <1>2. CASE s \in bindings
    <2>1. bindings' = bindings \ {s} /\ streams' = streams \ {s} /\ queue' = Append(queue, [op |-> "leave", by |-> s])
      BY <1>2 DEF Close, Unsubscribe, Leaves
    <2>2. [op |-> "leave", by |-> s] \in Queued
      BY DEF Queued
    <2>3. queue' \in Seq(Queued)
      BY <2>1, <2>2 DEF PresenceInv, Typed
    <2>4. Typed'
      BY <1>1, <2>1, <2>3 DEF PresenceInv, Typed
    <2>5. Subscribed' /\ NoFrameMissed'
      BY <1>1, <1>2, <2>1 DEF PresenceInv, Typed, Subscribed, NoFrameMissed
    <2> QED  BY <1>1, <2>4, <2>5, Standing DEF PresenceInv
  <1>3. CASE s \notin bindings
    <2>1. UNCHANGED <<bindings, streams, queue>>
      BY <1>3 DEF Close
    <2>2. Typed'
      BY <1>1, <2>1 DEF PresenceInv, Typed
    <2>3. Subscribed' /\ NoFrameMissed'
      BY <1>1, <1>3, <2>1 DEF PresenceInv, Typed, Subscribed, NoFrameMissed
    <2> QED  BY <1>1, <2>2, <2>3, Standing, <2>1 DEF PresenceInv
  <1> QED  BY <1>2, <1>3

-----------------------------------------------------------------------------
(* The engine.                                                             *)

\* Whoever listens is sent what is published.
LEMMA PublishReaches ==
  ASSUME Typed, Subscribed, NoFrameMissed, UNCHANGED <<link, streams>>,
         bindings' \subseteq bindings, \A s \in bindings' : join'[s] = join[s],
         Publish \/ SavedUnpublished \/ PublishedUnsaved
  PROVE  NoFrameMissed'
  BY DEF Publish, SavedUnpublished, PublishedUnsaved, Listening, NoFrameMissed, Subscribed, Typed

LEMMA RunJoinKeeps ==
  ASSUME PresenceInv, RunJoin
  PROVE  PresenceInv'
  <1> DEFINE s == Head1.by
  <1>1. s \in Sockets /\ Tail(queue) \in Seq(Queued) /\ queue' = Tail(queue)
    BY HeadIsQueued DEF RunJoin, Serving, PresenceInv, Typed
  <1>2. UNCHANGED <<link, owner, bindings, streams>> /\ join' = [join EXCEPT ![s] = "joined"]
        /\ manual' = (manual /\ session'.paused)
    BY DEF RunJoin, sockets
  <1>3. owner[s] \in People /\ session \in Session /\ manual \in BOOLEAN /\ HeldForTheHost
    BY <1>1 DEF PresenceInv, Typed
  <1>4. session' \in Session /\ manual' \in BOOLEAN /\ HeldForTheHost'
    <2>1. CASE session' = Back(session, owner[s])
      BY <1>2, <1>3, <2>1, BackKeeps
    <2>2. CASE session' = session
      BY <1>2, <1>3, <2>2 DEF HeldForTheHost
    <2> QED  BY <2>1, <2>2 DEF RunJoin
  <1>5. Typed'
    BY <1>1, <1>2, <1>4 DEF PresenceInv, Typed
  <1>6. Subscribed'
    BY <1>1, <1>2 DEF PresenceInv, Typed, Subscribed
  <1>7. NoFrameMissed'
    <2>1. \/ frames' = frames \cup Listening
          \/ frames' = frames /\ fresh \subseteq fresh' /\ missed \subseteq fresh' \cup missed'
      BY DEF RunJoin
    <2>2. link[s] = "open" => s \in fresh'
      BY DEF RunJoin, CatchUp
    <2> QED  BY <1>1, <1>2, <2>1, <2>2 DEF PresenceInv, Typed, Subscribed, NoFrameMissed, Listening
  <1> QED  BY <1>4, <1>5, <1>6, <1>7 DEF PresenceInv

LEMMA RunJoinFailsKeeps ==
  ASSUME PresenceInv, RunJoinFails
  PROVE  PresenceInv'
  <1> DEFINE s == Head1.by
  <1>1. s \in Sockets /\ Tail(queue) \in Seq(Queued) /\ queue' = Tail(queue)
    BY HeadIsQueued DEF RunJoinFails, Serving, PresenceInv, Typed
  <1>2. /\ UNCHANGED <<link, owner>> /\ join' = [join EXCEPT ![s] = "refused"]
        /\ bindings' = bindings \ {s} /\ streams' = streams \ {s}
    BY DEF RunJoinFails, Unsubscribe, sockets
  <1>3. owner[s] \in People /\ session \in Session /\ manual \in BOOLEAN /\ HeldForTheHost
    BY <1>1 DEF PresenceInv, Typed
  <1>4. session' \in Session /\ manual' \in BOOLEAN /\ HeldForTheHost'
    <2>1. CASE session' = Back(session, owner[s]) /\ manual' = (manual /\ session'.paused)
      BY <1>3, <2>1, BackKeeps
    <2>2. CASE UNCHANGED <<session, manual>>
      BY <1>3, <2>2, Standing
    <2> QED  BY <2>1, <2>2 DEF RunJoinFails
  <1>5. Typed'
    BY <1>1, <1>2, <1>4 DEF PresenceInv, Typed
  <1>6. Subscribed'
    BY <1>1, <1>2 DEF PresenceInv, Typed, Subscribed
  <1>7. NoFrameMissed'
    <2>1. CASE UNCHANGED display
      BY <1>1, <1>2, <2>1 DEF PresenceInv, Typed, NoFrameMissed, display
    <2>2. CASE SavedUnpublished \/ Publish
      BY <1>1, <1>2, <2>2
         DEF SavedUnpublished, Publish, Listening, PresenceInv, Typed, Subscribed, NoFrameMissed
    <2> QED  BY <2>1, <2>2 DEF RunJoinFails
  <1> QED  BY <1>4, <1>5, <1>6, <1>7 DEF PresenceInv

LEMMA RunLeaveKeeps ==
  ASSUME PresenceInv, RunLeave
  PROVE  PresenceInv'
  <1> DEFINE p == owner[Head1.by]
  <1>1. Head1.by \in Sockets /\ Tail(queue) \in Seq(Queued) /\ queue' = Tail(queue)
    BY HeadIsQueued DEF RunLeave, Serving, PresenceInv, Typed
  <1>2. UNCHANGED <<link, owner, bindings, streams, join, manual>>
    BY DEF RunLeave, sockets, server
  <1>3. p \in People /\ session \in Session /\ manual \in BOOLEAN /\ HeldForTheHost
    BY <1>1 DEF PresenceInv, Typed
  <1>4. CASE session' = Gone(session, p) /\ Publish
    <2>1. session' \in Session /\ HeldForTheHost'
      BY <1>2, <1>3, <1>4, GoneKeeps
    <2>2. Typed' /\ Subscribed'
      BY <1>1, <1>2, <2>1 DEF PresenceInv, Typed, Subscribed
    <2> QED  BY <1>2, <1>4, <2>1, <2>2, PublishReaches DEF PresenceInv
  <1>5. CASE UNCHANGED <<session, display>>
    BY <1>1, <1>2, <1>5, Standing DEF PresenceInv, Typed, Subscribed, NoFrameMissed, display
  <1> QED  BY <1>4, <1>5 DEF RunLeave

LEMMA DieKeeps ==
  ASSUME PresenceInv, Die, session' \in Session, HeldForTheHost'
  PROVE  PresenceInv'
  <1>1. <<>> \in Seq(Queued)
    OBVIOUS
  <1>2. Typed'
    BY <1>1 DEF PresenceInv, Typed, Die
  <1>3. Subscribed' /\ NoFrameMissed'
    BY DEF Die, Subscribed, NoFrameMissed
  <1> QED  BY <1>2, <1>3 DEF PresenceInv

LEMMA DyingKeeps ==
  ASSUME PresenceInv, Crash \/ RunLeaveFails
  PROVE  PresenceInv'
  <1>1. Die /\ manual' = manual
    BY DEF Crash, RunLeaveFails, Die
  <1>2. session \in Session /\ manual \in BOOLEAN /\ HeldForTheHost
    BY DEF PresenceInv, Typed
  <1>3. CASE session' = session
    BY <1>1, <1>2, <1>3, Standing, DieKeeps
  <1>4. CASE RunLeaveFails /\ session' = Gone(session, owner[Head1.by])
    <2>1. owner[Head1.by] \in People
      BY <1>4, HeadIsQueued DEF RunLeaveFails, PresenceInv, Typed
    <2> QED  BY <1>1, <1>2, <1>4, <2>1, GoneKeeps, DieKeeps
  <1> QED  BY <1>3, <1>4 DEF Crash, RunLeaveFails

LEMMA GameKeeps ==
  ASSUME PresenceInv, Game
  PROVE  PresenceInv'
  <1>1. /\ UNCHANGED <<link, owner, join, bindings, streams, queue>>
        /\ Publish \/ SavedUnpublished \/ PublishedUnsaved
    BY DEF Game, Start, Advance, Pause, Exit, PauseFails, StepFails, Steps, sockets, server
  <1>2. session \in Session /\ manual \in BOOLEAN /\ HeldForTheHost
    BY DEF PresenceInv, Typed
  <1>3. session' \in Session /\ manual' \in BOOLEAN /\ HeldForTheHost'
    <2>1. CASE Start
      BY <2>1 DEF Start, Steps, NoSession, Session, Phases, HeldForTheHost
    <2>2. CASE Advance
      BY <1>2, <2>2 DEF Advance, Steps, Session, Phases, HeldForTheHost
    <2>3. CASE Pause \/ PauseFails
      BY <1>2, <2>3 DEF Pause, PauseFails, Steps, Session, HeldForTheHost
    <2>4. CASE Exit
      BY <2>4 DEF Exit, Steps, NoSession, Session, Phases, HeldForTheHost
    <2>5. CASE StepFails
      BY <1>2, <2>5 DEF StepFails, history, HeldForTheHost
    <2> QED  BY <2>1, <2>2, <2>3, <2>4, <2>5 DEF Game
  <1>4. Typed' /\ Subscribed'
    BY <1>1, <1>3 DEF PresenceInv, Typed, Subscribed
  <1> QED  BY <1>1, <1>3, <1>4, PublishReaches DEF PresenceInv

-----------------------------------------------------------------------------
(* The invariant and the theorems.                                         *)

LEMMA PresenceInit == Init => PresenceInv
  <1> SUFFICES ASSUME Init PROVE PresenceInv
    OBVIOUS
  <1>1. <<>> \in Seq(Queued) /\ NoSession \in Session /\ ~NoSession.paused /\ Host \in People
    BY PresenceAssumption DEF NoSession, Session, Phases, People
  <1> QED  BY <1>1 DEF Init, PresenceInv, Typed, Subscribed, NoFrameMissed, HeldForTheHost

LEMMA PresenceNext == PresenceInv /\ [Next]_vars => PresenceInv'
  <1>1. ASSUME PresenceInv, Next PROVE PresenceInv'
    BY <1>1, DevicesKeep, SubscribingKeeps, CloseKeeps, RunJoinKeeps, RunJoinFailsKeeps, RunLeaveKeeps,
       DyingKeeps, GameKeeps DEF Next, Server, Engine
  <1>2. ASSUME PresenceInv, UNCHANGED vars PROVE PresenceInv'
    BY <1>2 DEF vars, sockets, server, display, history,
                PresenceInv, Typed, Subscribed, NoFrameMissed, HeldForTheHost
  <1> QED  BY <1>1, <1>2

\* Whatever drops, overlaps, fails or dies, a device that joined shows the session's
\* latest state or a frame that brings it is on its way, or it listened to an operation
\* that broke off between its save and its frame, and no frame was published since
\* (socket.ts:104, engine.ts:236-239 and 288-290).
THEOREM FramesArrive == Spec => []NoFrameMissed
  <1>1. PresenceInv => NoFrameMissed
    BY DEF PresenceInv
  <1> QED  BY <1>1, PresenceInit, PresenceNext, PTL DEF Spec

\* A table whose host counts as present is held by the host's own pause only, with
\* every overlap, fault and restart of the engine (spec 0014).
THEOREM PresentHostHoldsNobody == Spec => []NobodyWaitsForAPresentHost
  <1>1. PresenceInv => NobodyWaitsForAPresentHost
    BY DEF PresenceInv, HeldForTheHost, NobodyWaitsForAPresentHost
  <1> QED  BY <1>1, PresenceInit, PresenceNext, PTL DEF Spec

-----------------------------------------------------------------------------
(* The queue.                                                              *)

\* Who has a socket has an open one, and a connection not made yet does nothing.
Wired ==
    /\ client \in [People -> Sockets \cup {0}]
    /\ \A p \in People : client[p] # 0 => link[client[p]] = "open" /\ owner[client[p]] = p
    /\ \A s \in Sockets : link[s] = "unused" => join[s] = "none"

Waiting == 1..Len(queue)

\* A leave waits for a closed connection; a join for one that awaits the engine and
\* is bound still, unless its leave waits as well.
QueueSound ==
    /\ \A i \in Waiting : queue[i].op = "leave" => link[queue[i].by] = "closed"
    /\ \A i \in Waiting : queue[i].op = "join" =>
          /\ join[queue[i].by] = "engine"
          /\ \/ queue[i].by \in bindings
             \/ \E j \in Waiting : j > i /\ queue[j].op = "leave" /\ queue[j].by = queue[i].by
    /\ \A i, j \in Waiting :
          queue[i].op = "join" /\ queue[j].op = "join" /\ queue[i].by = queue[j].by => i = j

LEMMA HeadAndTail ==
  ASSUME queue \in Seq(Queued), queue # <<>>
  PROVE  /\ Len(queue) \in Nat /\ 1 \in Waiting /\ Head1 = queue[1]
         /\ Len(Tail(queue)) = Len(queue) - 1
         /\ \A i \in 1..Len(Tail(queue)) : Tail(queue)[i] = queue[i + 1] /\ i + 1 \in Waiting
         /\ \A i \in Waiting : i # 1 => i - 1 \in 1..Len(Tail(queue)) /\ Tail(queue)[i - 1] = queue[i]
  BY DEF Head1, Waiting

\* The first in the queue is served, and nothing happens to the others.
LEMMA Served ==
  ASSUME Typed, QueueSound, queue # <<>>, queue' = Tail(queue), link' = link,
         \A s \in Sockets \ {Head1.by} : join'[s] = join[s] /\ (s \in bindings => s \in bindings'),
         Head1.op = "leave" => join' = join /\ bindings' = bindings
  PROVE  QueueSound'
  <1>1. /\ Len(queue) \in Nat /\ 1 \in Waiting /\ Head1 = queue[1] /\ Waiting' = 1..Len(Tail(queue))
        /\ \A i \in Waiting' : queue'[i] = queue[i + 1] /\ i + 1 \in Waiting
        /\ \A i \in Waiting : i # 1 => i - 1 \in Waiting' /\ queue'[i - 1] = queue[i]
    BY HeadAndTail DEF Typed, Waiting
  <1>2. \A i \in Waiting : i \in Nat /\ queue[i] \in Queued /\ queue[i].by \in Sockets /\ queue[i].op \in {"join", "leave"}
    <2>1. \A i \in Waiting : i \in Nat /\ queue[i] \in Queued
      BY DEF Typed, Waiting
    <2> QED  BY <2>1 DEF Queued
  <1>3. \A i \in Waiting' : i \in Nat
    BY <1>1 DEF Waiting
  <1>4. ASSUME NEW i \in Waiting', queue'[i].op = "leave"
        PROVE  link'[queue'[i].by] = "closed"
    BY <1>1, <1>4 DEF QueueSound
  <1>5. ASSUME NEW i \in Waiting', queue'[i].op = "join"
        PROVE  /\ join'[queue'[i].by] = "engine"
               /\ \/ queue'[i].by \in bindings'
                  \/ \E j \in Waiting' : j > i /\ queue'[j].op = "leave" /\ queue'[j].by = queue'[i].by
    <2> DEFINE k == i + 1
               s == queue[k].by
    <2>1. k \in Waiting /\ queue'[i] = queue[k] /\ k # 1 /\ queue[k].op = "join" /\ s \in Sockets /\ i \in Nat
      BY <1>1, <1>2, <1>3, <1>5
    <2> HIDE DEF k
    <2>2. Head1.op = "join" => s # Head1.by
      BY <1>1, <2>1 DEF QueueSound
    <2>3. join'[s] = join[s] /\ (s \in bindings => s \in bindings')
      <3>1. CASE Head1.op = "join"
        BY <2>1, <2>2, <3>1
      <3>2. CASE Head1.op = "leave"
        BY <3>2
      <3> QED  BY <1>1, <1>2, <3>1, <3>2
    <2>4. join[s] = "engine"
      BY <2>1 DEF QueueSound
    <2>5. CASE s \in bindings
      BY <2>1, <2>3, <2>4, <2>5
    <2>6. CASE s \notin bindings
      <3>1. PICK j \in Waiting : j > k /\ queue[j].op = "leave" /\ queue[j].by = s
        BY <2>1, <2>6 DEF QueueSound
      <3>2. j # 1 /\ j - 1 \in Waiting' /\ queue'[j - 1] = queue[j] /\ j - 1 > i
        BY <1>1, <1>2, <2>1, <3>1 DEF k
      <3> QED  BY <2>1, <2>3, <2>4, <3>1, <3>2
    <2> QED  BY <2>5, <2>6
  <1>6. ASSUME NEW i \in Waiting', NEW j \in Waiting',
               queue'[i].op = "join", queue'[j].op = "join", queue'[i].by = queue'[j].by
        PROVE  i = j
    <2>1. i + 1 = j + 1
      BY <1>1, <1>6 DEF QueueSound
    <2> QED  BY <1>3, <2>1
  <1> QED  BY <1>4, <1>5, <1>6 DEF QueueSound

-----------------------------------------------------------------------------
(* Where a player stands.                                                  *)

LeaveWaits(p) == \E i \in Waiting : queue[i].op = "leave" /\ owner[queue[i].by] = p

\* A player counts as connected by a device that is there, until its leave is served.
Counted(p) ==
    /\ session.phase # "absent" /\ Attended(p) => p \in session.connected
    /\ p \in session.connected => Attended(p) \/ LeaveWaits(p)

OrderInv == Wired /\ QueueSound /\ \A p \in Roster \ astray : Counted(p)

LEMMA WhoWaits ==
  ASSUME Typed, Wired, QueueSound, NEW i \in Waiting
  PROVE  queue[i] \in Queued /\ queue[i].by \in Sockets /\ queue[i].op \in {"join", "leave"}
         /\ link[queue[i].by] # "unused" /\ i \in Nat
  <1>1. queue[i] \in Queued /\ i \in Nat
    BY DEF Typed, Waiting
  <1>2. queue[i].by \in Sockets /\ queue[i].op \in {"join", "leave"}
    BY <1>1 DEF Queued
  <1>3. CASE queue[i].op = "leave"
    BY <1>1, <1>2, <1>3 DEF QueueSound
  <1>4. CASE queue[i].op = "join"
    BY <1>1, <1>2, <1>4 DEF QueueSound, Wired
  <1> QED  BY <1>1, <1>2, <1>3, <1>4

\* Steps of the devices and the server that neither bind nor queue.
LEMMA Quiet ==
  ASSUME PresenceInv, OrderInv, UNCHANGED <<queue, session, bindings, astray>>,
         \A s \in Sockets : link[s] # "unused" => owner'[s] = owner[s],
         \A s \in Sockets : link[s] = "closed" => link'[s] = "closed",
         \A s \in bindings : link[s] # "closed" => link'[s] # "closed",
         \A s \in Sockets :
            join[s] \in {"engine", "joined"} \/ join'[s] \in {"engine", "joined"} => join'[s] = join[s]
  PROVE  QueueSound' /\ \A p \in Roster \ astray' : Counted(p)'
  <1>1. Typed /\ Wired /\ QueueSound /\ Waiting' = Waiting
    BY DEF PresenceInv, OrderInv, Waiting
  <1>2. \A i \in Waiting : queue[i].by \in Sockets /\ owner'[queue[i].by] = owner[queue[i].by]
    BY <1>1, WhoWaits
  <1>3. \A s \in bindings : s \in Sockets /\ owner'[s] = owner[s] /\ join'[s] = join[s]
    BY DEF PresenceInv, Typed, Subscribed
  <1>4. QueueSound'
    <2>1. \A i \in Waiting : queue[i].op = "leave" => link'[queue[i].by] = "closed"
      BY <1>1, <1>2 DEF QueueSound
    <2>2. \A i \in Waiting : queue[i].op = "join" => join'[queue[i].by] = "engine"
      BY <1>1, <1>2 DEF QueueSound
    <2> QED  BY <1>1, <2>1, <2>2 DEF QueueSound
  <1>5. \A p : Attended(p)' <=> Attended(p)
    BY <1>3 DEF Attended
  <1>6. \A p : LeaveWaits(p)' <=> LeaveWaits(p)
    BY <1>1, <1>2 DEF LeaveWaits
  <1>7. \A p \in Roster \ astray' : Counted(p)'
    BY <1>5, <1>6 DEF OrderInv, Counted
  <1> QED  BY <1>4, <1>7

LEMMA ConnectOrders ==
  ASSUME PresenceInv, OrderInv, NEW p \in People, Connect(p)
  PROVE  OrderInv'
  <1>1. PICK s \in Sockets :
           /\ link[s] = "unused" /\ client' = [client EXCEPT ![p] = s]
           /\ link' = [link EXCEPT ![s] = "open"]
           /\ owner' = [owner EXCEPT ![s] = p] /\ join' = [join EXCEPT ![s] = "sent"]
    BY DEF Connect
  <1>2. UNCHANGED <<bindings, queue, session, astray>> /\ client[p] = 0
    BY DEF Connect, history
  <1>3. Typed /\ Wired /\ Subscribed /\ join[s] = "none"
    BY <1>1 DEF PresenceInv, OrderInv, Wired
  <1>4. QueueSound' /\ \A q \in Roster \ astray' : Counted(q)'
    BY <1>1, <1>2, <1>3, Quiet DEF Typed
  <1>5. Wired'
    BY <1>1, <1>2, <1>3 DEF Wired, Typed
  <1> QED  BY <1>4, <1>5 DEF OrderInv

LEMMA LoseOrders ==
  ASSUME PresenceInv, OrderInv, NEW p \in People, Lose(p)
  PROVE  OrderInv'
  <1> DEFINE s == client[p]
  <1>1. /\ s # 0 /\ link' = [link EXCEPT ![s] = "cut"] /\ client' = [client EXCEPT ![p] = 0]
        /\ UNCHANGED <<owner, join, bindings, queue, session, astray>>
    BY DEF Lose, server, history
  <1>2. Typed /\ Wired /\ s \in Sockets /\ link[s] = "open" /\ owner[s] = p
    BY <1>1 DEF PresenceInv, OrderInv, Wired
  <1>3. QueueSound' /\ \A q \in Roster \ astray' : Counted(q)'
    BY <1>1, <1>2, Quiet DEF Typed
  <1>4. Wired'
    BY <1>1, <1>2 DEF Wired, Typed
  <1> QED  BY <1>3, <1>4 DEF OrderInv

LEMMA ServerOrders ==
  ASSUME PresenceInv, OrderInv, NEW s \in Sockets,
         HandleJoin(s) \/ SubscribePublic(s) \/ SubscribeFails(s) \/ Deliver(s)
  PROVE  OrderInv'
  <1>1. UNCHANGED <<client, link, owner, queue, session, astray>>
    BY DEF HandleJoin, SubscribePublic, SubscribeFails, Deliver, sockets, history
  <1>2. Typed /\ Wired /\ Subscribed
    BY DEF PresenceInv, OrderInv
  <1>3. \/ join' = join
        \/ /\ join[s] \in {"sent", "public", "private"}
           /\ \E to \in {"public", "private", "refused"} : join' = [join EXCEPT ![s] = to]
    BY <1>2 DEF HandleJoin, SubscribePublic, SubscribeFails, Deliver, Reaches, server, Typed
  <1>4. bindings' = bindings
    BY <1>2 DEF HandleJoin, SubscribePublic, SubscribeFails, Deliver, Unsubscribe, Reaches, server, Subscribed
  <1>5. QueueSound' /\ \A q \in Roster \ astray' : Counted(q)'
    BY <1>1, <1>2, <1>3, <1>4, Quiet DEF Typed
  <1>6. Wired'
    BY <1>1, <1>2, <1>3 DEF Wired, Typed, Subscribed
  <1> QED  BY <1>5, <1>6 DEF OrderInv

LEMMA Queueing ==
  ASSUME queue \in Seq(Queued), NEW e \in Queued, queue' = Append(queue, e)
  PROVE  LET n == Len(queue) + 1
         IN  /\ n \in Nat /\ Waiting' = Waiting \cup {n} /\ queue'[n] = e /\ n \notin Waiting
             /\ \A i \in Waiting : queue'[i] = queue[i] /\ i \in Nat /\ i < n
  BY DEF Waiting

LEMMA BindOrders ==
  ASSUME PresenceInv, OrderInv, NEW s \in Sockets, SubscribePrivate(s)
  PROVE  OrderInv'
  <1> DEFINE e == [op |-> "join", by |-> s]
             n == Len(queue) + 1
  <1>1. /\ UNCHANGED <<client, link, owner, session, astray>> /\ bindings' = bindings \cup {s}
        /\ join[s] = "private" /\ join' = [join EXCEPT ![s] = "engine"] /\ queue' = Append(queue, e)
    BY DEF SubscribePrivate, Reaches, sockets, history
  <1>2. Typed /\ Wired /\ Subscribed /\ QueueSound /\ e \in Queued /\ e.op = "join" /\ e.by = s
    BY DEF PresenceInv, OrderInv, Queued
  <1> HIDE DEF e
  <1>3. /\ n \in Nat /\ Waiting' = Waiting \cup {n} /\ queue'[n] = e /\ n \notin Waiting
        /\ \A i \in Waiting : queue'[i] = queue[i] /\ i \in Nat /\ i < n
    <2>1. queue \in Seq(Queued)
      BY <1>2 DEF Typed
    <2> QED  BY <1>1, <1>2, <2>1, Queueing
  <1> HIDE DEF n
  <1>4. \A i \in Waiting : /\ queue[i].by \in Sockets /\ queue[i].op \in {"join", "leave"}
                           /\ queue[i].op = "join" => queue[i].by # s
    BY <1>1, <1>2, WhoWaits DEF QueueSound
  <1>5. Wired'
    BY <1>1, <1>2 DEF Wired, Typed, Subscribed
  <1>6. QueueSound'
    <2>1. ASSUME NEW i \in Waiting', queue'[i].op = "leave" PROVE link'[queue'[i].by] = "closed"
      <3>1. i \in Waiting /\ queue'[i] = queue[i]
        BY <1>2, <1>3, <2>1
      <3> QED  BY <1>1, <1>2, <2>1, <3>1 DEF QueueSound
    <2>2. ASSUME NEW i \in Waiting', queue'[i].op = "join"
          PROVE  /\ join'[queue'[i].by] = "engine"
                 /\ \/ queue'[i].by \in bindings'
                    \/ \E j \in Waiting' : j > i /\ queue'[j].op = "leave" /\ queue'[j].by = queue'[i].by
      <3>1. CASE i = n
        BY <1>1, <1>2, <1>3, <3>1 DEF Typed
      <3>2. CASE i \in Waiting
        <4>1. join[queue[i].by] = "engine" /\ queue'[i] = queue[i] /\ queue[i].by # s /\ queue[i].by \in Sockets
          BY <1>2, <1>3, <1>4, <2>2, <3>2 DEF QueueSound
        <4>2. \/ queue[i].by \in bindings
              \/ \E j \in Waiting : j > i /\ queue[j].op = "leave" /\ queue[j].by = queue[i].by
          BY <1>2, <1>3, <2>2, <3>2 DEF QueueSound
        <4> QED  BY <1>1, <1>2, <1>3, <4>1, <4>2 DEF Typed
      <3> QED  BY <1>3, <3>1, <3>2
    <2>3. ASSUME NEW i \in Waiting', NEW j \in Waiting',
                 queue'[i].op = "join", queue'[j].op = "join", queue'[i].by = queue'[j].by
          PROVE  i = j
      <3>1. CASE i \in Waiting /\ j \in Waiting
        BY <1>2, <1>3, <2>3, <3>1 DEF QueueSound
      <3>2. CASE i = n \/ j = n
        BY <1>2, <1>3, <1>4, <2>3, <3>2
      <3> QED  BY <1>3, <3>1, <3>2
    <2> QED  BY <2>1, <2>2, <2>3 DEF QueueSound
  <1>7. \A p : Attended(p)' <=> Attended(p)
    <2>1. \A r \in bindings : r \in Sockets /\ r # s
      BY <1>1, <1>2 DEF Typed, Subscribed
    <2>2. \A r \in bindings : join'[r] = join[r]
      BY <1>1, <1>2, <2>1 DEF Typed
    <2>3. join'[s] # "joined"
      BY <1>1, <1>2 DEF Typed
    <2> QED  BY <1>1, <2>2, <2>3 DEF Attended
  <1>8. \A p : LeaveWaits(p)' <=> LeaveWaits(p)
    BY <1>1, <1>2, <1>3 DEF LeaveWaits
  <1>9. \A p \in Roster \ astray' : Counted(p)'
    BY <1>1, <1>7, <1>8 DEF OrderInv, Counted
  <1> QED  BY <1>5, <1>6, <1>9 DEF OrderInv

LEMMA CloseOrders ==
  ASSUME PresenceInv, OrderInv, NEW s \in Sockets, Close(s)
  PROVE  OrderInv'
  <1>1. /\ link' = [link EXCEPT ![s] = "closed"] /\ link[s] \in {"open", "cut"}
        /\ client' = [p \in People |-> IF client[p] = s THEN 0 ELSE client[p]]
        /\ UNCHANGED <<owner, session, astray>>
        /\ join' = IF join[s] \in {"sent", "joined", "refused"} THEN [join EXCEPT ![s] = "none"] ELSE join
    BY DEF Close, history
  <1>2. Typed /\ Wired /\ Subscribed /\ QueueSound
    BY DEF PresenceInv, OrderInv
  <1>3. Wired'
    BY <1>1, <1>2 DEF Wired, Typed
  <1>5. \A r \in Sockets : r # s => join'[r] = join[r] /\ link'[r] = link[r]
    BY <1>1, <1>2 DEF Typed
  <1>6. CASE s \notin bindings
    <2>1. UNCHANGED <<bindings, queue>>
      BY <1>6 DEF Close
    <2>2. QueueSound'
      <3>1. \A i \in Waiting : queue[i].op = "leave" => link'[queue[i].by] = "closed"
        BY <1>1, <1>2, WhoWaits DEF QueueSound, Typed
      <3>2. \A i \in Waiting : queue[i].op = "join" => join'[queue[i].by] = "engine"
        BY <1>1, <1>2, WhoWaits DEF QueueSound, Typed
      <3>3. Waiting' = Waiting
        BY <2>1 DEF Waiting
      <3> QED  BY <1>2, <2>1, <3>1, <3>2, <3>3 DEF QueueSound
    <2>3. \A p : Attended(p)' <=> Attended(p)
      <3>1. \A r \in bindings : r \in Sockets /\ r # s
        BY <1>2, <1>6 DEF Typed
      <3> QED  BY <1>1, <1>5, <2>1, <3>1 DEF Attended
    <2>4. \A p : LeaveWaits(p)' <=> LeaveWaits(p)
      BY <1>1, <2>1 DEF LeaveWaits, Waiting
    <2>5. \A p \in Roster \ astray' : Counted(p)'
      BY <1>1, <2>3, <2>4 DEF OrderInv, Counted
    <2> QED  BY <1>3, <2>2, <2>5 DEF OrderInv
  <1>7. CASE s \in bindings
    <2> DEFINE e == [op |-> "leave", by |-> s]
               n == Len(queue) + 1
    <2>1. bindings' = bindings \ {s} /\ queue' = Append(queue, e)
      BY <1>7 DEF Close, Unsubscribe, Leaves
    <2>2. e \in Queued /\ e.op = "leave" /\ e.by = s
      BY DEF Queued
    <2> HIDE DEF e
    <2>3. /\ n \in Nat /\ Waiting' = Waiting \cup {n} /\ queue'[n] = e /\ n \notin Waiting
          /\ \A i \in Waiting : queue'[i] = queue[i] /\ i \in Nat /\ i < n
      <3>1. queue \in Seq(Queued)
        BY <1>2 DEF Typed
      <3> QED  BY <2>1, <2>2, <3>1, Queueing
    <2> HIDE DEF n
    <2>4. \A i \in Waiting : queue[i].by \in Sockets /\ queue[i].op \in {"join", "leave"}
      BY <1>2, WhoWaits
    <2>5. QueueSound'
      <3>1. ASSUME NEW i \in Waiting', queue'[i].op = "leave" PROVE link'[queue'[i].by] = "closed"
        <4>1. CASE i = n
          BY <1>1, <1>2, <2>2, <2>3, <4>1 DEF Typed
        <4>2. CASE i \in Waiting
          BY <1>1, <1>2, <2>3, <2>4, <3>1, <4>2 DEF QueueSound, Typed
        <4> QED  BY <2>3, <4>1, <4>2
      <3>2. ASSUME NEW i \in Waiting', queue'[i].op = "join"
            PROVE  /\ join'[queue'[i].by] = "engine"
                   /\ \/ queue'[i].by \in bindings'
                      \/ \E j \in Waiting' : j > i /\ queue'[j].op = "leave" /\ queue'[j].by = queue'[i].by
        <4>1. i \in Waiting /\ queue'[i] = queue[i] /\ i < n /\ i \in Nat /\ queue[i].by \in Sockets
          BY <2>2, <2>3, <2>4, <3>2
        <4>2. join[queue[i].by] = "engine"
          BY <1>2, <3>2, <4>1 DEF QueueSound
        <4>3. join'[queue[i].by] = "engine"
          BY <1>1, <1>5, <4>1, <4>2
        <4>4. CASE queue[i].by = s
          BY <2>2, <2>3, <4>1, <4>3, <4>4
        <4>5. CASE queue[i].by # s
          <5>1. \/ queue[i].by \in bindings
                \/ \E j \in Waiting : j > i /\ queue[j].op = "leave" /\ queue[j].by = queue[i].by
            BY <1>2, <3>2, <4>1 DEF QueueSound
          <5> QED  BY <2>1, <2>3, <4>1, <4>3, <4>5, <5>1
        <4> QED  BY <4>4, <4>5
      <3>3. ASSUME NEW i \in Waiting', NEW j \in Waiting',
                   queue'[i].op = "join", queue'[j].op = "join", queue'[i].by = queue'[j].by
            PROVE  i = j
        <4>1. i \in Waiting /\ j \in Waiting
          BY <2>2, <2>3, <3>3
        <4> QED  BY <1>2, <2>3, <3>3, <4>1 DEF QueueSound
      <3> QED  BY <3>1, <3>2, <3>3 DEF QueueSound
    <2>6. \A p : Attended(p)' => Attended(p)
      <3>1. \A r \in bindings' : r \in bindings /\ r \in Sockets /\ r # s
        BY <1>2, <2>1 DEF Typed
      <3> QED  BY <1>1, <1>5, <3>1 DEF Attended
    <2>7. \A p : owner[s] # p /\ Attended(p) => Attended(p)'
      <3>1. \A r \in bindings : r # s => r \in bindings' /\ r \in Sockets
        BY <1>2, <2>1 DEF Typed
      <3> QED  BY <1>1, <1>5, <3>1 DEF Attended
    <2>8. \A p : LeaveWaits(p) \/ owner[s] = p => LeaveWaits(p)'
      BY <1>1, <2>2, <2>3 DEF LeaveWaits
    <2>9. \A p \in Roster \ astray' : Counted(p)'
      BY <1>1, <2>6, <2>7, <2>8 DEF OrderInv, Counted
    <2> QED  BY <1>3, <2>5, <2>9 DEF OrderInv
  <1> QED  BY <1>6, <1>7

\* What holds of the others when the first in the queue is served.
LEMMA ServedOrders ==
  ASSUME PresenceInv, OrderInv, queue # <<>>, queue' = Tail(queue),
         UNCHANGED <<client, link, owner>>, bindings' \subseteq bindings,
         \A s \in Sockets \ {Head1.by} : join'[s] = join[s] /\ (s \in bindings => s \in bindings'),
         Head1.op = "leave" => join' = join /\ bindings' = bindings,
         join'[Head1.by] \in {join[Head1.by], "joined", "refused"}
  PROVE  /\ Wired' /\ QueueSound'
         /\ \A p : owner[Head1.by] # p => (Attended(p)' <=> Attended(p)) /\ (LeaveWaits(p) => LeaveWaits(p)')
         /\ \A i \in Waiting : i # 1 => i - 1 \in Waiting' /\ queue'[i - 1] = queue[i]
         /\ 1 \in Waiting /\ Head1 = queue[1] /\ Head1.by \in Sockets /\ Head1.op \in {"join", "leave"}
  <1>1. Typed /\ Wired /\ Subscribed /\ QueueSound
    BY DEF PresenceInv, OrderInv
  <1>2. /\ \A i \in Waiting : i # 1 => i - 1 \in Waiting' /\ queue'[i - 1] = queue[i]
        /\ 1 \in Waiting /\ Head1 = queue[1]
    BY <1>1, HeadAndTail DEF Typed, Waiting
  <1>3. Head1.by \in Sockets /\ Head1.op \in {"join", "leave"} /\ link[Head1.by] # "unused"
    BY <1>1, <1>2, WhoWaits
  <1>4. QueueSound'
    BY <1>1, Served
  <1>5. Wired'
    BY <1>1, <1>3 DEF Wired
  <1>6. ASSUME NEW p, owner[Head1.by] # p
        PROVE  (Attended(p)' <=> Attended(p)) /\ (LeaveWaits(p) => LeaveWaits(p)')
    <2>1. \A s \in bindings : owner[s] = p => s \in Sockets /\ s # Head1.by
      BY <1>1, <1>6 DEF Typed
    <2>2. Attended(p)' <=> Attended(p)
      BY <2>1 DEF Attended
    <2>3. ASSUME LeaveWaits(p) PROVE LeaveWaits(p)'
      <3>1. PICK i \in Waiting : queue[i].op = "leave" /\ owner[queue[i].by] = p
        BY <2>3 DEF LeaveWaits
      <3>2. i # 1
        BY <1>2, <1>6, <3>1
      <3>3. i - 1 \in Waiting' /\ queue'[i - 1] = queue[i]
        BY <1>2, <3>1, <3>2
      <3> QED  BY <3>1, <3>3 DEF LeaveWaits
    <2> QED  BY <2>2, <2>3
  <1> QED  BY <1>2, <1>3, <1>4, <1>5, <1>6

\* What the two fields say of who is there, apart from the pause.
LEMMA BackConnects ==
  ASSUME NEW st \in Session, NEW p
  PROVE  Back(st, p).phase = st.phase /\ Back(st, p).connected = st.connected \cup {p}
  BY Zenon DEF Back, Session

LEMMA GoneDisconnects ==
  ASSUME NEW st \in Session, NEW p
  PROVE  Gone(st, p).phase = st.phase /\ Gone(st, p).connected = st.connected \ {p}
  BY Zenon DEF Gone, Session

LEMMA RunJoinOrders ==
  ASSUME PresenceInv, OrderInv, RunJoin
  PROVE  OrderInv'
  <1>s. PICK s : s = Head1.by
    OBVIOUS
  <1>1. /\ queue # <<>> /\ Head1.op = "join" /\ queue' = Tail(queue) /\ session.phase # "absent"
        /\ UNCHANGED <<client, link, owner, bindings>> /\ join' = [join EXCEPT ![s] = "joined"]
    BY <1>s DEF RunJoin, Serving, sockets
  <1>2. Typed /\ Wired /\ Subscribed /\ QueueSound /\ session \in Session
    BY DEF PresenceInv, OrderInv, Typed
  <1>3. s \in Sockets /\ join'[s] = "joined" /\ \A r \in Sockets \ {s} : join'[r] = join[r]
    BY <1>s, <1>1, <1>2, HeadIsQueued DEF Typed
  <1>4. /\ Wired' /\ QueueSound'
        /\ \A p : owner[s] # p => (Attended(p)' <=> Attended(p)) /\ (LeaveWaits(p) => LeaveWaits(p)')
        /\ \A i \in Waiting : i # 1 => i - 1 \in Waiting' /\ queue'[i - 1] = queue[i]
        /\ 1 \in Waiting /\ Head1 = queue[1]
    BY <1>s, <1>1, <1>3, ServedOrders
  <1>5. join[s] = "engine"
    BY <1>s, <1>1, <1>2, <1>4 DEF QueueSound
  <1>6. CASE owner[s] \notin Roster
    <2>1. session' = session /\ astray' = astray
      BY <1>s, <1>6 DEF RunJoin, Existing
    <2> QED  BY <1>4, <1>6, <2>1 DEF OrderInv, Counted
  <1>7. CASE owner[s] \in Roster
    <2>p. PICK p : p = owner[s]
      OBVIOUS
    <2>w. PICK wrong \in BOOLEAN : wrong <=> s \in bindings /\ link[s] = "closed" /\ ~Attended(p)
      OBVIOUS
    <2>1. session' = Back(session, p) /\ astray' = IF wrong THEN astray \cup {p} ELSE astray \ {p}
      BY <1>s, <1>7, <2>p, <2>w DEF RunJoin, Existing, Stray
    <2>2. session'.connected = session.connected \cup {p} /\ session'.phase = session.phase
      BY <1>2, <2>1, BackConnects
    <2>3. ASSUME NEW q \in Roster \ astray', q # p
          PROVE  Counted(q)'
      <3>1. Counted(q)
        BY <2>1, <2>3 DEF OrderInv
      <3> QED  BY <1>4, <2>p, <2>2, <2>3, <3>1 DEF Counted
    <2>4. ASSUME ~wrong
          PROVE  Counted(p)'
      <3>1. CASE Attended(p)
        <4>1. PICK r \in bindings : owner[r] = p /\ join[r] = "joined" /\ link[r] # "closed"
          BY <3>1 DEF Attended
        <4>2. r # s /\ r \in Sockets
          BY <1>2, <1>5, <4>1 DEF Typed
        <4>3. Attended(p)'
          BY <1>1, <1>3, <4>1, <4>2 DEF Attended
        <4> QED  BY <1>1, <2>2, <4>3 DEF Counted
      <3>2. CASE s \in bindings /\ link[s] # "closed"
        <4>1. Attended(p)'
          BY <1>1, <1>3, <2>p, <3>2 DEF Attended
        <4> QED  BY <1>1, <2>2, <4>1 DEF Counted
      <3>3. CASE s \notin bindings
        <4>1. PICK j \in Waiting : j > 1 /\ queue[j].op = "leave" /\ queue[j].by = s
          BY <1>s, <1>1, <1>2, <1>4, <3>3 DEF QueueSound
        <4>2. j # 1
          <5>1. j \in Nat
            BY <1>2, WhoWaits
          <5> QED  BY <4>1, <5>1
        <4>3. j - 1 \in Waiting' /\ queue'[j - 1] = queue[j]
          BY <1>4, <4>1, <4>2
        <4>4. LeaveWaits(p)'
          BY <1>1, <2>p, <4>1, <4>3 DEF LeaveWaits
        <4> QED  BY <1>1, <2>2, <4>4 DEF Counted
      <3> QED  BY <2>4, <2>w, <3>1, <3>2, <3>3
    <2>5. wrong => p \in astray'
      BY <2>1
    <2>6. \A q \in Roster \ astray' : Counted(q)'
      BY <2>3, <2>4, <2>5
    <2> QED  BY <1>4, <2>6 DEF OrderInv
  <1> QED  BY <1>6, <1>7

LEMMA RunJoinFailsOrders ==
  ASSUME PresenceInv, OrderInv, RunJoinFails
  PROVE  OrderInv'
  <1>s. PICK s : s = Head1.by
    OBVIOUS
  <1>p. PICK p : p = owner[s]
    OBVIOUS
  <1>1. /\ queue # <<>> /\ Head1.op = "join" /\ queue' = Tail(queue)
        /\ UNCHANGED <<client, link, owner>> /\ bindings' = bindings \ {s}
        /\ join' = [join EXCEPT ![s] = "refused"]
    BY <1>s DEF RunJoinFails, Serving, Unsubscribe, sockets
  <1>2. Typed /\ Wired /\ QueueSound /\ session \in Session
    BY DEF PresenceInv, OrderInv, Typed
  <1>3. s \in Sockets /\ join'[s] = "refused" /\ \A r \in Sockets \ {s} : join'[r] = join[r]
    BY <1>s, <1>1, <1>2, HeadIsQueued DEF Typed
  <1>4. /\ Wired' /\ QueueSound'
        /\ \A q : p # q => (Attended(q)' <=> Attended(q)) /\ (LeaveWaits(q) => LeaveWaits(q)')
        /\ \A i \in Waiting : i # 1 => i - 1 \in Waiting' /\ queue'[i - 1] = queue[i]
        /\ 1 \in Waiting /\ Head1 = queue[1]
    BY <1>s, <1>p, <1>1, <1>3, ServedOrders
  <1>5. join[s] = "engine"
    BY <1>s, <1>1, <1>2, <1>4 DEF QueueSound
  <1>6. Attended(p)' <=> Attended(p)
    <2>1. \A r \in bindings : r \in Sockets /\ (join[r] = "joined" => r # s)
      BY <1>2, <1>5 DEF Typed
    <2>2. \A r \in bindings' : r \in bindings /\ r # s
      BY <1>1
    <2>3. \A r \in bindings : r # s => r \in bindings' /\ join'[r] = join[r]
      BY <1>1, <1>3, <2>1
    <2> QED  BY <1>1, <2>1, <2>2, <2>3 DEF Attended
  <1>7. LeaveWaits(p) => LeaveWaits(p)'
    <2> SUFFICES ASSUME NEW i \in Waiting, queue[i].op = "leave", owner[queue[i].by] = p
                 PROVE  LeaveWaits(p)'
      BY DEF LeaveWaits
    <2>1. i # 1
      BY <1>1, <1>4
    <2>2. i - 1 \in Waiting' /\ queue'[i - 1] = queue[i]
      BY <1>4, <2>1
    <2> QED  BY <1>1, <2>2 DEF LeaveWaits
  <1>8. CASE UNCHANGED <<session, astray>>
    BY <1>4, <1>6, <1>7, <1>8 DEF OrderInv, Counted
  <1>9. CASE /\ session' = Back(session, p)
             /\ astray' = IF ~Attended(p) THEN astray \cup {p} ELSE astray \ {p}
    <2>1. session'.connected = session.connected \cup {p} /\ session'.phase = session.phase
      BY <1>2, <1>9, BackConnects
    <2>2. ASSUME NEW q \in Roster \ astray', q # p
          PROVE  Counted(q)'
      <3>1. Counted(q)
        BY <1>9, <2>2 DEF OrderInv
      <3> QED  BY <1>4, <2>1, <2>2, <3>1 DEF Counted
    <2>3. p \in astray' \/ Counted(p)'
      BY <1>6, <1>9, <2>1 DEF Counted
    <2> QED  BY <1>4, <2>2, <2>3 DEF OrderInv
  <1> QED  BY <1>s, <1>p, <1>8, <1>9 DEF RunJoinFails, Stray, display

LEMMA RunLeaveOrders ==
  ASSUME PresenceInv, OrderInv, RunLeave
  PROVE  OrderInv'
  <1>s. PICK s : s = Head1.by
    OBVIOUS
  <1>p. PICK p : p = owner[s]
    OBVIOUS
  <1>1. /\ queue # <<>> /\ Head1.op = "leave" /\ queue' = Tail(queue)
        /\ UNCHANGED <<client, link, owner, bindings, join>>
        /\ astray' = IF Attended(p) THEN astray \cup {p} ELSE astray \ {p}
    BY <1>s, <1>p DEF RunLeave, Serving, Stray, sockets, server
  <1>2. /\ session'.phase = session.phase
        /\ \A q : q \in session'.connected <=> q \in session.connected /\ q # p
    <2>1. session \in Session
      BY DEF PresenceInv, Typed
    <2>2. CASE p \in session.connected
      <3>1. session' = Gone(session, p)
        BY <1>s, <1>p, <2>2 DEF RunLeave
      <3> QED  BY <2>1, <3>1, GoneDisconnects
    <2>3. CASE p \notin session.connected
      <3>1. session' = session
        BY <1>s, <1>p, <2>3 DEF RunLeave
      <3> QED  BY <2>3, <3>1
    <2> QED  BY <2>2, <2>3
  <1>3. /\ Wired' /\ QueueSound'
        /\ \A q : p # q => (Attended(q)' <=> Attended(q)) /\ (LeaveWaits(q) => LeaveWaits(q)')
    BY <1>s, <1>p, <1>1, ServedOrders
  <1>4. Attended(p)' <=> Attended(p)
    BY <1>1 DEF Attended
  <1>5. ASSUME NEW q \in Roster \ astray', q # p
        PROVE  Counted(q)'
    <2>1. Counted(q)
      BY <1>1, <1>5 DEF OrderInv
    <2> QED  BY <1>2, <1>3, <1>5, <2>1 DEF Counted
  <1>6. p \in astray' \/ Counted(p)'
    BY <1>1, <1>2, <1>4 DEF Counted
  <1> QED  BY <1>3, <1>5, <1>6 DEF OrderInv

LEMMA DieOrders ==
  ASSUME PresenceInv, OrderInv, Crash \/ RunLeaveFails
  PROVE  OrderInv'
  <1>1. Die /\ astray' = session'.connected
    BY DEF Crash, RunLeaveFails, Die
  <1>2. Waiting' = {} /\ bindings' = {} /\ queue' = <<>>
    BY <1>1 DEF Die, Waiting
  <1>3. Wired'
    BY <1>1 DEF Die, Wired
  <1>4. QueueSound'
    BY <1>2 DEF QueueSound
  <1>5. \A p : ~Attended(p)'
    BY <1>2 DEF Attended
  <1>6. \A p \in Roster \ astray' : Counted(p)'
    BY <1>1, <1>5 DEF Counted
  <1> QED  BY <1>3, <1>4, <1>6 DEF OrderInv

LEMMA GameOrders ==
  ASSUME PresenceInv, OrderInv, Game
  PROVE  OrderInv'
  <1>1. UNCHANGED <<client, link, owner, join, bindings, queue>>
    BY DEF Game, Start, Advance, Pause, Exit, PauseFails, StepFails, Steps, sockets, server
  <1>2. Wired' /\ QueueSound'
    BY <1>1 DEF OrderInv, Wired, QueueSound, Waiting
  <1>3. \A p : (Attended(p)' <=> Attended(p)) /\ (LeaveWaits(p)' <=> LeaveWaits(p))
    BY <1>1 DEF Attended, LeaveWaits, Waiting
  <1>4. \/ session'.phase = "absent" /\ session'.connected = {}
        \/ session'.connected = {} /\ astray' = {p \in Roster : Attended(p)}
        \/ session'.connected = session.connected /\ astray' = astray
              /\ (session.phase = "absent" => session'.phase = "absent")
    <2>1. session \in Session
      BY DEF PresenceInv, Typed
    <2>2. CASE Start
      BY <2>2 DEF Start, Steps, NoSession
    <2>3. CASE Exit
      BY <2>3 DEF Exit, Steps, NoSession
    <2>4. CASE Advance \/ Pause \/ PauseFails \/ StepFails
      BY <2>1, <2>4 DEF Advance, Pause, PauseFails, StepFails, Steps, history, Session
    <2> QED  BY <2>2, <2>3, <2>4 DEF Game
  <1>5. \A p \in Roster \ astray' : Counted(p)'
    BY <1>3, <1>4 DEF OrderInv, Counted
  <1> QED  BY <1>2, <1>5 DEF OrderInv

LEMMA OrderInit == Init => OrderInv
  <1> SUFFICES ASSUME Init PROVE OrderInv
    OBVIOUS
  <1>1. Waiting = {} /\ bindings = {} /\ session.connected = {}
    BY DEF Init, Waiting, NoSession
  <1>2. Wired /\ QueueSound
    BY <1>1 DEF Init, Wired, QueueSound
  <1>3. \A p \in Roster : Counted(p)
    BY <1>1 DEF Counted, Attended
  <1> QED  BY <1>2, <1>3 DEF OrderInv

LEMMA OrderNext == PresenceInv /\ OrderInv /\ [Next]_vars => OrderInv'
  <1>1. ASSUME PresenceInv, OrderInv, Next PROVE OrderInv'
    BY <1>1, ConnectOrders, LoseOrders, ServerOrders, BindOrders, CloseOrders, RunJoinOrders,
       RunJoinFailsOrders, RunLeaveOrders, DieOrders, GameOrders DEF Next, Devices, Server, Engine
  <1>2. ASSUME OrderInv, UNCHANGED vars PROVE OrderInv'
    BY <1>2 DEF vars, sockets, server, history, OrderInv, Wired, QueueSound, Waiting,
                Counted, Attended, LeaveWaits
  <1> QED  BY <1>1, <1>2

\* Once a player's joins and drops are served, the player counts as connected exactly
\* when one of their devices is there.  Left out are the players whom the last join or
\* drop of theirs, the end of the process or a new handoff left wrong, each until the
\* player's next join or drop (engine.ts:254 and 350, socket.ts:104-141 and 189-196).
THEOREM PresenceIsSettled == Spec => []PresenceSettles
  <1>1. PresenceInv /\ OrderInv => PresenceSettles
    <2> SUFFICES ASSUME PresenceInv, OrderInv, NEW p \in Roster \ astray, Settled(p), session.phase # "absent"
                 PROVE  p \in session.connected <=> Attended(p)
      BY DEF PresenceSettles
    <2>1. Counted(p)
      BY DEF OrderInv
    <2>2. ~LeaveWaits(p)
      BY DEF Settled, LeaveWaits, Waiting, PresenceInv, Typed
    <2> QED  BY <2>1, <2>2 DEF Counted
  <1> QED  BY <1>1, PresenceInit, PresenceNext, OrderInit, OrderNext, PTL DEF Spec
===============================================================================
