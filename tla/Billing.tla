-------------------------------- MODULE Billing --------------------------------
(***************************************************************************)
(* What billing promises a host: a round is charged after it was scored,   *)
(* and once.  Nothing here knows of reports, retries, crashes or rows.     *)
(***************************************************************************)
EXTENDS Sequences

CONSTANT Plays          \* every round that may ever be played in the room

VARIABLES scored,       \* the rounds scored so far
          charges       \* the debits, in the order they were made

billing == <<scored, charges>>

Charged(r) == \E i \in DOMAIN charges : charges[i] = r

Init == scored = {} /\ charges = <<>>

Score(r)  == scored' = scored \cup {r} /\ charges' = charges
Charge(r) == r \in scored /\ ~Charged(r) /\ charges' = Append(charges, r) /\ scored' = scored

Next == \E r \in Plays : Score(r) \/ Charge(r)

Spec == Init /\ [][Next]_billing
===============================================================================
