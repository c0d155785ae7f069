------------------------------ MODULE Nightleaf ------------------------------
(***************************************************************************)
(* packages/games/nightleaf: a silent cooperative game of ascending        *)
(* leaves.  A hand is the set of its leaves: the code keeps it sorted.     *)
(***************************************************************************)
EXTENDS RoundContext

CONSTANTS MaxLeaf,          \* leaves are numbered from 1
          FinalTier, MaxBuds, Fireflies,
          BannerTicks       \* ticks a banner stays, 20 in the code

Leaves == 1 .. MaxLeaf
Lowest(leaves) == CHOOSE leaf \in leaves : \A other \in leaves : leaf <= other

Held(hands) == UNION {hands[p] : p \in Players}
Holders(s) == {p \in Players : s.hands[p] # {}}

\* dealTier: distinct leaves, as many to each player as the number of the tier.
Deals(tier) ==
    {d \in [Players -> SUBSET Leaves] :
        /\ \A p \in Players : Cardinality(d[p]) = tier
        /\ \A p, q \in Players : p # q => d[p] \cap d[q] = {}}

DealInto(s, deal) ==
    [s EXCEPT !.hands = deal, !.trunk = <<>>, !.hushProposers = {}, !.phase = "playing", !.phaseTicks = 0]

\* configure and startRound: the first tier is dealt.
Opening ==
    {DealInto([tier |-> 1, buds |-> MaxBuds, fireflies |-> Fireflies, hands |-> [p \in Players |-> {}],
               trunk |-> <<>>, hushProposers |-> {}, over |-> FALSE, won |-> FALSE,
               phase |-> "playing", phaseTicks |-> 0], deal) : deal \in Deals(1)}

Banner(s, phase) == [s EXCEPT !.phase = phase, !.phaseTicks = BannerTicks]

\* The last leaf gone: the tier is cleared.
Settled(s) == IF Held(s.hands) = {} THEN Banner(s, "tier-cleared") ELSE s

-----------------------------------------------------------------------------
(* A player's own lowest leaf lands on the trunk; if anyone held a lower    *)
(* one it costs a bud, and what that ends is left to the banner.            *)

Play(s, p) ==
    LET leaf    == Lowest(s.hands[p])
        misplay == \E other \in Held(s.hands) : other < leaf
        played  == [s EXCEPT !.hands[p] = @ \ {leaf}, !.trunk = Append(@, leaf), !.hushProposers = {}]
    IN  IF misplay THEN Banner([played EXCEPT !.buds = @ - 1], "misplay") ELSE Settled(played)

Hush_LeavesTheTierOpen(s, p) ==                                         \* mutant
    LET asked == [s EXCEPT !.hushProposers = @ \cup {p}]
        fired == [s EXCEPT !.hushProposers = {}, !.fireflies = @ - 1,
                           !.hands = [q \in Players |-> s.hands[q] \ (IF s.hands[q] = {} THEN {} ELSE {Lowest(s.hands[q])})]]
    IN  IF Holders(s) \subseteq asked.hushProposers THEN fired ELSE asked

\* A hush fires once everyone who still holds a leaf has asked for it.
Hush(s, p) ==
    LET asked == [s EXCEPT !.hushProposers = @ \cup {p}]
        fired == [s EXCEPT !.hushProposers = {}, !.fireflies = @ - 1,
                           !.hands = [q \in Players |-> s.hands[q] \ (IF s.hands[q] = {} THEN {} ELSE {Lowest(s.hands[q])})]]
    IN  IF Holders(s) \subseteq asked.hushProposers THEN Settled(fired) ELSE asked

MayPlay(s, p) == ~s.over /\ s.phase = "playing" /\ s.hands[p] # {}
MayHush(s, p) == MayPlay(s, p) /\ s.fireflies > 0 /\ p \notin s.hushProposers

Moves(s, p) == {"play", "hush"}

CollectMove(s, p, m) ==
    CASE m = "play" /\ MayPlay(s, p) -> Play(s, p)
      [] m = "hush" /\ MayHush(s, p) -> Hush(s, p)
      [] OTHER -> s

-----------------------------------------------------------------------------
(* The tick counts a banner down and then resolves it.                      *)

Ended(s, won) == Banner([s EXCEPT !.over = TRUE, !.won = won], IF won THEN "won" ELSE "lost")

BannerOver(s) ==
    CASE s.phase = "tier-cleared" /\ s.tier >= FinalTier -> {Ended(s, TRUE)}
      [] s.phase = "tier-cleared" /\ s.tier < FinalTier ->
             {DealInto([s EXCEPT !.tier = @ + 1], deal) : deal \in Deals(s.tier + 1)}
      [] s.phase = "misplay" /\ s.buds <= 0 -> {Ended(s, FALSE)}
      [] s.phase = "misplay" /\ s.buds > 0 /\ Held(s.hands) = {} -> {Banner(s, "tier-cleared")}
      [] OTHER -> {[s EXCEPT !.phase = "playing"]}

Tick(s) ==
    LET counted == [s EXCEPT !.phaseTicks = @ - 1]
    IN  CASE s.over \/ s.phase = "playing" -> {s}
          [] ~s.over /\ s.phase # "playing" /\ counted.phaseTicks > 0 -> {counted}
          [] OTHER -> BannerOver(counted)

-----------------------------------------------------------------------------
(* apps/web/lib/games/nightleaf: what a frame tells everyone, what a device  *)
(* is told alone, and the two buttons of the remote.                         *)

\* The hands are counted, never shown.
Snapshot(s) ==
    [tier |-> s.tier, buds |-> s.buds, fireflies |-> s.fireflies, phase |-> s.phase, over |-> s.over, won |-> s.won,
     top |-> IF s.trunk = <<>> THEN 0 ELSE s.trunk[Len(s.trunk)], hushProposers |-> s.hushProposers,
     left |-> [p \in Players |-> Cardinality(s.hands[p])]]

Secret(s, me) == s.hands[me]

\* Moves land only while no banner holds the grove.
Controls(sim, hand, me) ==
    IF sim.over \/ sim.phase # "playing" \/ hand = {} THEN {}
    ELSE {"play"} \cup (IF sim.fireflies > 0 /\ me \notin sim.hushProposers THEN {"hush"} ELSE {})

Offers(s, me) == Controls(Snapshot(s), Secret(s, me), me)
==============================================================================
