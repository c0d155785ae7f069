------------------------------- MODULE Presence -------------------------------
(***************************************************************************)
(* Who is at the table: the devices' reconnecting sockets (game-client.ts),*)
(* the server's handling of each (socket.ts, pubsub.ts) and the join and   *)
(* disconnect of engine.ts that keep connected, paused and hostPaused.     *)
(*                                                                         *)
(* handleJoin awaits two subscriptions and the engine; a close may arrive  *)
(* during each of these awaits.  The engine serves joins and disconnects   *)
(* of one session in the order they were queued; its other operations are  *)
(* single actions here, free to fall between any two of those.             *)
(*                                                                         *)
(* What a device shows is fresh when it is the session's latest state;     *)
(* frames on their way to a device arrive in order, so only whether there  *)
(* are any matters.                                                        *)
(***************************************************************************)
EXTENDS Integers, Sequences

CONSTANTS
    Roster,         \* the players of the handoff
    Host,           \* the roster player who runs the game
    Viewers,        \* devices that only watch (spec 0050)
    MaxSockets,     \* bound: the connections of one behaviour
    Hazards         \* which of "overlap", "early", "redis", "worker", "crash" may happen

People == Roster \cup Viewers
Sockets == 1..MaxSockets

ASSUME PresenceAssumption ==
    /\ Host \in Roster /\ Roster \cap Viewers = {}
    /\ MaxSockets \in Nat
    /\ Hazards \subseteq {"overlap", "early", "redis", "worker", "crash"}

VARIABLES
    client,         \* GameClient.socket of each device; 0 is null
    link,           \* each connection: "unused", "open", "cut" (the device gave up), "closed"
    owner,          \* whose device it is
    join,           \* how far handleJoin got
    bindings,       \* the connections socket.ts knows as joined
    streams,        \* those with a listener on the broadcast channel
    privates,       \* those with a listener on their own private channel
    frames,         \* those with frames on their way
    fresh,          \* those showing the session's latest state
    queue,          \* the session's joins and disconnects, in order
    session,        \* the stored session: what presence reads and writes of it
    manual,         \* history: the pause in force was the host's own
    missed,         \* history: those an operation that broke off may have left out of date
    astray,         \* history: players whose stored presence is known to be wrong
    exits           \* history: the engine process ended by itself

sockets == <<client, link, owner>>
server  == <<join, bindings, streams, privates>>
display == <<frames, fresh, missed>>
history == <<manual, astray, exits>>
vars    == <<sockets, server, display, queue, session, history>>

NoSession == [phase |-> "absent", connected |-> {}, paused |-> FALSE, hostPaused |-> FALSE]

Init ==
    /\ client = [p \in People |-> 0]
    /\ link = [s \in Sockets |-> "unused"]
    /\ owner = [s \in Sockets |-> Host]
    /\ join = [s \in Sockets |-> "none"]
    /\ bindings = {} /\ streams = {} /\ privates = {}
    /\ frames = {} /\ fresh = {} /\ missed = {}
    /\ queue = <<>>
    /\ session = NoSession
    /\ manual = FALSE /\ astray = {} /\ exits = FALSE

-----------------------------------------------------------------------------
(* The device.                                                             *)

Unclosed(p) == {s \in Sockets : link[s] \in {"open", "cut"} /\ owner[s] = p}

\* connect: one socket at a time, as the device sees it.  The server may not
\* have noticed yet that the last one is gone.
Connect(p) ==
    /\ client[p] = 0
    /\ "overlap" \in Hazards \/ Unclosed(p) = {}
    /\ \E s \in Sockets :
         /\ link[s] = "unused" /\ \A t \in 1..(s - 1) : link[t] # "unused"
         /\ client' = [client EXCEPT ![p] = s]
         /\ link' = [link EXCEPT ![s] = "open"]
         /\ owner' = [owner EXCEPT ![s] = p]
         /\ join' = [join EXCEPT ![s] = "sent"]
    /\ UNCHANGED <<bindings, streams, privates, display, queue, session, history>>

\* The device closes its socket or loses it; the server learns later.
Lose(p) ==
    /\ client[p] # 0
    /\ link' = [link EXCEPT ![client[p]] = "cut"]
    /\ client' = [client EXCEPT ![p] = 0]
    /\ UNCHANGED <<owner, server, display, queue, session, history>>

-----------------------------------------------------------------------------
(* The server.                                                             *)

Reaches(s, from, to) == join[s] = from /\ join' = [join EXCEPT ![s] = to]

\* The frame is read: two awaits follow before the connection is bound.
HandleJoin(s) ==
    /\ link[s] \in {"open", "cut"} /\ s \notin bindings
    /\ Reaches(s, "sent", "public")
    /\ UNCHANGED <<sockets, bindings, streams, privates, display, queue, session, history>>

SubscribePublic(s) ==
    /\ Reaches(s, "public", "private")
    /\ streams' = streams \cup {s}
    /\ UNCHANGED <<sockets, bindings, privates, display, queue, session, history>>

SubscribePrivate(s) ==
    /\ Reaches(s, "private", "engine")
    /\ privates' = privates \cup {s}
    /\ bindings' = bindings \cup {s}
    /\ queue' = Append(queue, [op |-> "join", by |-> s])
    /\ UNCHANGED <<sockets, streams, display, session, history>>

Unsubscribe(s) ==
    /\ bindings' = bindings \ {s} /\ streams' = streams \ {s} /\ privates' = privates \ {s}

\* A subscribe rejects; the first one's listener is taken down again.
SubscribeFails(s) ==
    /\ "redis" \in Hazards
    /\ Reaches(s, "public", "refused") \/ Reaches(s, "private", "refused")
    /\ Unsubscribe(s)
    /\ UNCHANGED <<sockets, display, queue, session, history>>

\* cleanup: a connection that is not bound yet is none of its business.
Leaves_Unqueued(s) == queue                                           \* mutant
Leaves(s) == Append(queue, [op |-> "leave", by |-> s])

\* The server sees the connection close (onClose, or onError before it).
Close(s) ==
    /\ link[s] \in {"open", "cut"}
    /\ join[s] \in {"public", "private"} => "early" \in Hazards
    /\ link' = [link EXCEPT ![s] = "closed"]
    /\ client' = [p \in People |-> IF client[p] = s THEN 0 ELSE client[p]]
    /\ IF s \in bindings THEN Unsubscribe(s) /\ queue' = Leaves(s)
       ELSE UNCHANGED <<bindings, streams, privates, queue>>
    /\ join' = IF join[s] \in {"sent", "joined", "refused"} THEN [join EXCEPT ![s] = "none"] ELSE join
    /\ frames' = frames \ {s} /\ fresh' = fresh \ {s} /\ missed' = missed \ {s}
    /\ UNCHANGED <<owner, session, history>>

-----------------------------------------------------------------------------
(* The engine.  Every save goes with a published state frame, before or    *)
(* after it; when the second of the two rejects, the devices that listen   *)
(* are left with another state than the stored one until the next frame.   *)

Listening == {s \in streams : link[s] = "open"}
Publish   == frames' = frames \cup Listening /\ fresh' = {} /\ missed' = {}

SavedUnpublished == fresh' = {} /\ missed' = missed \cup Listening /\ UNCHANGED frames
PublishedUnsaved ==
    frames' = frames \cup Listening /\ fresh' = {} /\ missed' = missed \cup Listening

Deliver(s) ==
    /\ s \in frames
    /\ frames' = frames \ {s} /\ fresh' = fresh \cup ({s} \ missed)
    /\ UNCHANGED <<sockets, server, queue, session, missed, history>>

Head1 == Head(queue)
Serving(op) == queue # <<>> /\ Head1.op = op /\ queue' = Tail(queue)

\* join returns the frames a device that was there all along would have seen.
\* Mutant: a viewer gets none.
CatchUp_PlayersOnly(s) == IF owner[s] \in Roster THEN {s} ELSE {}
CatchUp(s) == {s}

\* A host who comes back lifts the pause that the host's own drop set.
Back_NoResume(st, p) == [st EXCEPT !.connected = @ \cup {p}]          \* mutant
Back(st, p) ==
    LET lifts == p = Host /\ st.hostPaused
    IN [st EXCEPT !.connected = @ \cup {p},
                  !.paused = @ /\ ~lifts, !.hostPaused = @ /\ ~lifts]

\* Who is not in the handoff's roster only watches.
Existing(p) == p \in Roster

\* A device of p is there: its connection has joined and is not closed.
Attended(p) == \E s \in bindings : owner[s] = p /\ join[s] = "joined" /\ link[s] # "closed"

\* Each join or drop that is served settles where its player stands.  It leaves the
\* player wrong when it is about a connection other than the one that is there.
Stray(p, wrong) == astray' = IF wrong THEN astray \cup {p} ELSE astray \ {p}

\* The connection may be gone: closed before it was bound, it is never dropped.
RunJoin ==
    /\ Serving("join") /\ session.phase # "absent"
    /\ LET s == Head1.by
           shown == IF link[s] = "open" THEN CatchUp(s) ELSE {}
       IN /\ join' = [join EXCEPT ![s] = "joined"]
          /\ IF Existing(owner[s])
             THEN /\ session' = Back(session, owner[s])
                  /\ frames' = frames \cup Listening /\ fresh' = shown /\ missed' = {}
                  /\ Stray(owner[s], s \in bindings /\ link[s] = "closed" /\ ~Attended(owner[s]))
             ELSE /\ fresh' = fresh \cup shown /\ missed' = missed \ shown
                  /\ UNCHANGED <<session, frames, astray>>
    /\ manual' = (manual /\ session'.paused)
    /\ UNCHANGED <<sockets, bindings, streams, privates, exits>>

\* No session, or the join rejects: the connection stays open and unbound.  When
\* only the publish failed, or its answer was lost, the player is saved as connected.
RunJoinFails ==
    /\ Serving("join")
    /\ session.phase = "absent" \/ {"redis", "worker"} \cap Hazards # {}
    /\ Unsubscribe(Head1.by)
    /\ join' = [join EXCEPT ![Head1.by] = "refused"]
    /\ LET p == owner[Head1.by]
       IN \/ UNCHANGED <<session, manual, astray, display>>
          \/ /\ "redis" \in Hazards /\ session.phase # "absent" /\ Existing(p)
             /\ session' = Back(session, p) /\ manual' = (manual /\ session'.paused)
             /\ SavedUnpublished \/ Publish
             /\ Stray(p, ~Attended(p))
    /\ UNCHANGED <<sockets, exits>>

\* A host who drops while the game runs pauses it.
Gone(st, p) ==
    LET holds == p = Host /\ ~st.paused /\ st.phase # "complete"
    IN [st EXCEPT !.connected = @ \ {p}, !.paused = @ \/ holds, !.hostPaused = @ \/ holds]

RunLeave ==
    /\ Serving("leave")
    /\ LET p == owner[Head1.by]
       IN /\ IF p \in session.connected
             THEN session' = Gone(session, p) /\ Publish
             ELSE UNCHANGED <<session, display>>
          /\ Stray(p, Attended(p))
    /\ UNCHANGED <<sockets, server, manual, exits>>

\* The process ends: connections and listeners go, the session stays as saved.
Die ==
    /\ link' = [s \in Sockets |-> IF link[s] = "unused" THEN "unused" ELSE "closed"]
    /\ client' = [p \in People |-> 0]
    /\ join' = [s \in Sockets |-> "none"]
    /\ bindings' = {} /\ streams' = {} /\ privates' = {}
    /\ frames' = {} /\ fresh' = {} /\ missed' = {} /\ queue' = <<>>
    /\ astray' = session'.connected
    /\ UNCHANGED <<owner, manual>>

\* cleanup discards the promise of engine.disconnect, and nothing handles its
\* rejection: Redis failed, or, once the leaver is saved, the worker did.
RunLeaveFails ==
    /\ queue # <<>> /\ Head1.op = "leave"
    /\ \/ "redis" \in Hazards /\ LET p == owner[Head1.by]
             IN session' \in {session} \cup IF p \in session.connected THEN {Gone(session, p)} ELSE {}
       \/ /\ "worker" \in Hazards /\ session.phase = "collecting"
          /\ owner[Head1.by] \in session.connected
          /\ session' = Gone(session, owner[Head1.by]) /\ ~session'.paused
    /\ Die /\ exits' = TRUE

Crash ==
    /\ "crash" \in Hazards /\ bindings # {}
    /\ UNCHANGED <<session, exits>>
    /\ Die

-----------------------------------------------------------------------------
(* The host's controls and the game, as far as presence sees them.         *)

Steps(st) == session' = st /\ Publish /\ UNCHANGED <<sockets, server, queue, exits>>

\* The handoff starts with everybody away, whoever is there already.
Start ==
    /\ session.phase \in {"absent", "complete"}
    /\ Steps([NoSession EXCEPT !.phase = "collecting"])
    /\ astray' = {p \in Roster : Attended(p)}
    /\ manual' = FALSE

Advance ==
    /\ session.phase \in {"collecting", "review"} /\ ~session.paused
    /\ \E phase \in {"collecting", "review", "complete"} \ {session.phase} :
         Steps([session EXCEPT !.phase = phase])
    /\ UNCHANGED <<manual, astray>>

Pause ==
    /\ session.phase # "absent"
    /\ Steps([session EXCEPT !.paused = ~@])
    /\ manual' = ~session.paused /\ UNCHANGED astray

Exit ==
    /\ session.phase # "absent" /\ Steps(NoSession)
    /\ manual' = FALSE /\ UNCHANGED astray

\* A pause is saved, then published.
PauseFails ==
    /\ "redis" \in Hazards /\ session.phase # "absent"
    /\ session' = [session EXCEPT !.paused = ~@] /\ manual' = ~session.paused
    /\ SavedUnpublished
    /\ UNCHANGED <<sockets, server, queue, astray, exits>>

\* A start, an advance and an exit publish, then save; an advance may also lose
\* its worker between two frames.
StepFails ==
    /\ \/ "redis" \in Hazards
       \/ "worker" \in Hazards /\ session.phase = "review" /\ ~session.paused
    /\ PublishedUnsaved
    /\ UNCHANGED <<sockets, server, queue, session, history>>

Devices == \E p \in People : Connect(p) \/ Lose(p)
Server ==
    \E s \in Sockets :
        HandleJoin(s) \/ SubscribePublic(s) \/ SubscribePrivate(s) \/ SubscribeFails(s)
        \/ Close(s) \/ Deliver(s)
Engine == RunJoin \/ RunJoinFails \/ RunLeave \/ RunLeaveFails \/ Crash
Game   == Start \/ Advance \/ Pause \/ Exit \/ PauseFails \/ StepFails

Next == Devices \/ Server \/ Engine \/ Game
Spec == Init /\ [][Next]_vars

-----------------------------------------------------------------------------
(* Properties.                                                             *)

Settled(p) ==
    /\ \A i \in DOMAIN queue : owner[queue[i].by] # p
    /\ \A s \in Sockets : owner[s] = p => join[s] \notin {"public", "private", "engine"}

\* socket.ts:104 and engine.ts:236-239: a device that joined shows the latest state,
\* or a frame that brings it is on its way; nothing published while it subscribed,
\* waited for the engine and caught up is missed.  The exception is an operation that
\* saved and could not publish, or published and could not save: the devices that
\* listened to it may show another state until the next frame.
NoFrameMissed ==
    \A s \in bindings : join[s] = "joined" /\ link[s] = "open" => s \in fresh \cup frames \cup missed

\* engine.ts:254 and 350: once its joins and drops are served, a player counts as
\* connected exactly when one of its devices is; the all-answered close relies on it.
\* The exceptions are the players whom the last join or drop of theirs, the end of the
\* process or a new handoff left wrong: the drop of an old connection served after the
\* join of a new one, the join of a connection that closed while it subscribed, a join
\* saved but refused.  Each lasts until that player's next join or drop.
PresenceSettles ==
    \A p \in Roster \ astray :
        Settled(p) /\ session.phase # "absent" => (p \in session.connected <=> Attended(p))

\* Spec 0014: a table whose host is there is held by nobody but the host.
NobodyWaitsForAPresentHost ==
    Host \in session.connected /\ session.paused => manual
===============================================================================
