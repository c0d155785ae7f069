----------------------------- MODULE GameScreen -----------------------------
(***************************************************************************)
(* What a device holds of a session: the snapshot of lib/game-state.ts,    *)
(* folded frame by frame, and the little that the controller on it         *)
(* remembers by itself.  A value that may be absent is a sequence of at    *)
(* most one; a frame's payload is a record whose fields tell its shape.    *)
(***************************************************************************)
EXTENDS Integers, Sequences

None == <<>>

Blank == [round |-> 0, phase |-> "configuring", disputes |-> {}, company |-> FALSE,
          prompt |-> None, private |-> None, reveals |-> <<>>, rejected |-> FALSE,
          sent |-> None,        \* what this controller last submitted in the round
          voted |-> FALSE]      \* and whether it has cast its vote

\* A new prompt clears what belongs to the round before.
OnPrompt(d, c, prompt) ==
    [d EXCEPT !.phase = c.phase, !.prompt = <<prompt>>, !.reveals = <<>>, !.private = None, !.rejected = FALSE]

OnReveal(d, reveal)   == [d EXCEPT !.reveals = Append(@, reveal)]
OnPrivate(d, private) == [d EXCEPT !.private = private]
OnRejected(d)         == [d EXCEPT !.rejected = TRUE]

\* company: whether anyone but the owner of the device is connected.  The
\* controllers forget the round when its number changes, not before (useEffect).
OnState_Votes(d, c, me, disputes) ==                                    \* mutant
    LET seen == [d EXCEPT !.phase = c.phase, !.disputes = disputes, !.company = c.present \ {me} # {}]
    IN  IF c.round = d.round THEN seen
        ELSE [seen EXCEPT !.round = c.round, !.sent = None]

OnState(d, c, me, disputes) ==
    LET seen == [d EXCEPT !.phase = c.phase, !.disputes = disputes, !.company = c.present \ {me} # {}]
    IN  IF c.round = d.round THEN seen
        ELSE [seen EXCEPT !.round = c.round, !.sent = None, !.voted = FALSE]

\* The last of the round's reveals that have the shape asked for.
Latest(reveals, Fits(_)) ==
    LET fitting == {i \in DOMAIN reveals : Fits(reveals[i])}
    IN  IF fitting = {} THEN None ELSE <<reveals[CHOOSE i \in fitting : \A j \in fitting : j <= i]>>

\* The submissions and votes a controller can be tapped for.
Say(body)  == [kind |-> "move", body |-> body]
Vote(body) == [kind |-> "vote", body |-> body]

\* What both panes paint: the panel of the phase, and the payloads it shows.
Paint(panel, shown) == [panel |-> panel, shown |-> shown]
Standings == Paint("standings", <<>>)
==============================================================================
