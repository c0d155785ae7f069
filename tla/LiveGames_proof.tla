---------------------------- MODULE LiveGames_proof ----------------------------
(***************************************************************************)
(* The seven live games for any boards, openings, decks and seats: the     *)
(* position every submission, frame and restart leaves a game in agrees    *)
(* with itself.  Each game keeps an invariant of its own state; chess      *)
(* takes most of the work, for there a move must leave a king each, the    *)
(* side that moved out of check, and rights and target that still hold.    *)
(* Then the screens: what a device of chess keeps, that what a board or a  *)
(* hand offers is taken, and that somebody can always carry a game on.     *)
(* The last part is about what a host sets up before any of the fourteen   *)
(* games (GameOptions): the lobby's panels and the games' own checks.      *)
(***************************************************************************)
EXTENDS LiveScreens, GameOptions, FiniteSetTheorems, WellFoundedInduction, TLAPS

--------------------------------------------------------------------------------
(* Numbers *)

\* Something is nearest.
LEMMA Least ==
  ASSUME NEW S, S # {}, NEW f, \A x \in S : f[x] \in Nat
  PROVE  \E x \in S : \A y \in S : f[x] <= f[y]
<1> DEFINE T == {f[x] : x \in S}
           R == OpToRel(<, Nat)
<1>1. T \subseteq Nat /\ T # {}
  OBVIOUS
<1>2. IsWellFoundedOn(R, Nat)
  BY NatLessThanWellFounded
<1>3. \A a, b \in Nat : a < b => <<a, b>> \in R
  BY DEF OpToRel
<1> HIDE DEF R
<1>4. PICK n \in T : \A m \in T : ~(<<m, n>> \in R)
  <2> HIDE DEF T
  <2> QED
    BY <1>1, <1>2, WFMin
<1>5. \A m \in T : n <= m
  <2> HIDE DEF T
  <2>1. \A m \in T : m \in Nat /\ n \in Nat /\ ~(m < n)
    BY <1>1, <1>3, <1>4
  <2> QED
    BY <2>1
<1> QED
  BY <1>4, <1>5

\* What holds at the start and goes from each seat to the next holds of the last.
LEMMA Upward ==
  ASSUME NEW n \in Nat, NEW I, 0 \in I, \A i \in 1 .. n : i - 1 \in I => i \in I
  PROVE  \A i \in 0 .. n : i \in I
<1> DEFINE B == {i \in 0 .. n : i \notin I}
           f == [i \in 0 .. n |-> i]
<1>1. ASSUME B # {} PROVE FALSE
  <2>1. \A i \in B : f[i] \in Nat /\ f[i] = i
    OBVIOUS
  <2>2. PICK i \in B : \A j \in B : f[i] <= f[j]
    <3> HIDE DEF f, B
    <3> QED
      BY <1>1, <2>1, Least
  <2>3. i \in 1 .. n /\ i - 1 \in 0 .. n
    OBVIOUS
  <2>4. i - 1 \notin B
    BY <2>1, <2>2
  <2> QED
    BY <2>3, <2>4
<1> QED
  BY <1>1

--------------------------------------------------------------------------------
(* Teeter Tower: a level is complete only at its goal, and the next piece is  *)
(* held out only in a level that is played.                                   *)

TeeterFields == {"level", "best", "stable", "placed", "next", "over", "phase", "ticks", "wait"}

TeeterSound(s) ==
    /\ TeeterFields \subseteq DOMAIN s
    /\ s.level \in 1 .. Levels /\ s.best \in Nat /\ s.stable \in Nat /\ s.placed \in 0 .. MaxPlaced /\ s.ticks \in Int
    /\ s.phase \in {"playing", "complete", "intro"}
    /\ s.phase # "playing" => ~s.next
    /\ s.phase = "complete" => s.best >= Goal
    /\ s.phase = "intro" => s.placed = 0 /\ s.best = 0
    /\ s.over => s.phase = "complete" /\ s.level = Levels

LEMMA TeeterOpens ==
  ASSUME NEW s \in Teeter!Opening
  PROVE  TeeterSound(s)
<1>1. s = [level |-> 1, best |-> 0, stable |-> 0, pieces |-> 0, score |-> 0, index |-> 0, placed |-> 0,
           next |-> TRUE, over |-> FALSE, phase |-> "playing", ticks |-> 0, wait |-> 0, scene |-> "settled"]
  BY DEF Teeter!Opening
<1>2. 1 \in 1 .. Levels /\ 0 \in 0 .. MaxPlaced
  BY TowerAssumption
<1> QED
  BY <1>1, <1>2 DEF TeeterSound, TeeterFields

LEMMA TeeterMoves ==
  ASSUME NEW s, TeeterSound(s), NEW p, NEW m
  PROVE  TeeterSound(Teeter!CollectMove(s, p, m))
<1>1. CASE Teeter!Refused(s, p, m)
  BY <1>1 DEF Teeter!CollectMove
<1>2. CASE ~Teeter!Refused(s, p, m)
  <2> DEFINE r == Teeter!CollectMove(s, p, m)
  <2>1. s.next /\ s.placed \in 0 .. MaxPlaced /\ s.placed < MaxPlaced /\ ~s.over
    BY <1>2, TowerAssumption DEF Teeter!Refused, TeeterSound
  <2>2. PICK score : r = [s EXCEPT !.placed = @ + 1, !.index = @ + 1, !.pieces = @ + 1, !.next = FALSE, !.wait = 0,
                                   !.scene = "falling", !.score = score]
    BY <1>2 DEF Teeter!CollectMove
  <2>3. /\ DOMAIN r = DOMAIN s
        /\ r.placed = s.placed + 1 /\ r.next = FALSE
        /\ r.level = s.level /\ r.best = s.best /\ r.stable = s.stable /\ r.over = s.over
        /\ r.phase = s.phase /\ r.ticks = s.ticks
    BY <2>2 DEF TeeterSound, TeeterFields
  <2>4. TeeterSound(r)
    <3> HIDE DEF r
    <3> QED
      BY <2>1, <2>3, TowerAssumption DEF TeeterSound
  <2> QED
    BY <2>4
<1> QED
  BY <1>1, <1>2

LEMMA TeeterSteps ==
  ASSUME NEW s, TeeterSound(s), NEW t \in Teeter!Stepped(s)
  PROVE  TeeterSound(t) /\ t.over = s.over
<1>1. PICK x \in [placed : 0 .. s.placed, scene : {"settled", "moving"}, height : 0 .. Goal] :
         t = [s EXCEPT !.placed = x.placed, !.scene = x.scene, !.stable = IF x.scene = "settled" THEN x.height ELSE @]
  BY DEF Teeter!Stepped
<1>2. x.placed \in 0 .. MaxPlaced /\ (s.phase = "intro" => x.placed = 0) /\ x.height \in Nat
  BY TowerAssumption DEF TeeterSound, TeeterFields
<1> QED
  BY <1>1, <1>2 DEF TeeterSound, TeeterFields

LEMMA TeeterScored ==
  ASSUME NEW s, TeeterSound(s), s.phase = "playing"
  PROVE  LET r == Teeter!Scored(s)
         IN  /\ TeeterSound(r) /\ r.best >= s.stable /\ r.best >= s.best
             /\ r.phase = s.phase /\ r.over = s.over /\ r.next = s.next
<1> DEFINE r == Teeter!Scored(s)
           top == Teeter!Max2(s.best, s.stable)
<1>1. top \in Nat /\ top >= s.stable /\ top >= s.best
  BY DEF TeeterSound, Teeter!Max2
<1>2. /\ DOMAIN r = DOMAIN s /\ r.best = top
      /\ \A f \in TeeterFields \ {"best"} : r[f] = s[f]
  BY DEF Teeter!Scored, TeeterSound, TeeterFields
<1>3. /\ r.level = s.level /\ r.stable = s.stable /\ r.placed = s.placed /\ r.next = s.next /\ r.over = s.over
      /\ r.phase = s.phase /\ r.ticks = s.ticks
  BY <1>2 DEF TeeterFields
<1>4. TeeterSound(r) /\ r.best >= s.stable /\ r.best >= s.best
  <2> HIDE DEF r, top
  <2> QED
    BY <1>1, <1>2, <1>3 DEF TeeterSound
<1> QED
  BY <1>3, <1>4

LEMMA TeeterPlays ==
  ASSUME NEW s, TeeterSound(s), s.phase = "playing", ~s.over
  PROVE  TeeterSound(Teeter!Play(s))
<1> DEFINE r == Teeter!Scored(s)
<1>1. TeeterSound(r) /\ r.best >= s.stable /\ r.best >= s.best /\ r.phase = "playing" /\ ~r.over
  BY TeeterScored
<1>2. CASE s.stable >= Goal
  <2>1. Teeter!Play(s) = [r EXCEPT !.phase = "complete", !.ticks = BeatTicks, !.next = FALSE]
    BY <1>2 DEF Teeter!Play
  <2>2. r.best >= Goal
    BY <1>1, <1>2, TowerAssumption DEF TeeterSound
  <2> HIDE DEF r
  <2> QED
    BY <1>1, <2>1, <2>2, TowerAssumption DEF TeeterSound, TeeterFields
<1>3. CASE ~(s.stable >= Goal)
  <2>1. Teeter!Play(s) = Teeter!OfferNext(r)
    BY <1>3 DEF Teeter!Play
  <2> HIDE DEF r
  <2> QED
    BY <1>1, <2>1 DEF Teeter!OfferNext, TeeterSound, TeeterFields
<1> QED
  BY <1>2, <1>3

LEMMA TeeterBeats ==
  ASSUME NEW s, TeeterSound(s), s.phase # "playing", ~s.over
  PROVE  TeeterSound(Teeter!BeatOver(s))
<1>1. CASE s.phase = "complete" /\ s.level < Levels
  BY <1>1, TowerAssumption DEF Teeter!BeatOver, Teeter!AdvanceLevel, TeeterSound, TeeterFields
<1>2. CASE s.phase = "complete" /\ s.level = Levels
  <2>1. Teeter!BeatOver(s) = [s EXCEPT !.over = TRUE, !.next = FALSE]
    BY <1>2, TowerAssumption DEF Teeter!BeatOver
  <2> QED
    BY <1>2, <2>1 DEF TeeterSound, TeeterFields
<1>3. CASE s.phase = "intro"
  <2>1. Teeter!BeatOver(s) = [s EXCEPT !.phase = "playing", !.wait = 0]
    BY <1>3 DEF Teeter!BeatOver
  <2> QED
    BY <1>3, <2>1 DEF TeeterSound, TeeterFields
<1> QED
  BY <1>1, <1>2, <1>3, TowerAssumption DEF TeeterSound, TeeterFields

LEMMA TeeterTicks ==
  ASSUME NEW s, TeeterSound(s), NEW t \in Teeter!Tick(s)
  PROVE  TeeterSound(t)
<1>1. CASE s.over
  BY <1>1 DEF Teeter!Tick
<1>2. CASE ~s.over
  <2>1. PICK u \in Teeter!Stepped(s) : t = Teeter!TickOf(u)
    BY <1>2 DEF Teeter!Tick
  <2>2. TeeterSound(u) /\ ~u.over
    BY <1>2, TeeterSteps
  <2>3. CASE u.phase = "playing"
    BY <2>1, <2>2, <2>3, TeeterPlays DEF Teeter!TickOf
  <2>4. CASE u.phase # "playing" /\ u.ticks > 1
    <3>1. t = [u EXCEPT !.ticks = @ - 1]
      BY <2>1, <2>2, <2>4 DEF Teeter!TickOf, TeeterSound
    <3> QED
      BY <2>2, <3>1 DEF TeeterSound, TeeterFields
  <2>5. CASE u.phase # "playing" /\ u.ticks <= 1
    <3> DEFINE v == [u EXCEPT !.ticks = 0]
    <3>1. t = Teeter!BeatOver(v)
      BY <2>1, <2>2, <2>5 DEF Teeter!TickOf, TeeterSound, TeeterFields
    <3>2. TeeterSound(v) /\ v.phase # "playing" /\ ~v.over
      BY <2>2, <2>5 DEF TeeterSound, TeeterFields
    <3> HIDE DEF v
    <3> QED
      BY <3>1, <3>2, TeeterBeats
  <2> QED
    BY <2>2, <2>3, <2>4, <2>5 DEF TeeterSound, TeeterFields
<1> QED
  BY <1>1, <1>2

--------------------------------------------------------------------------------
(* Brambles: the card on show is drawn, and every point took a card before it. *)

BramblesFields == {"sprint", "ticks", "used", "card", "scores", "over"}

Spent(s) == Cardinality(s.used \ {s.card})

BramblesSound(s) ==
    /\ BramblesFields \subseteq DOMAIN s
    /\ s.sprint \in Nat
    /\ s.used \subseteq Cards /\ IsFiniteSet(s.used)
    /\ s.card # Brambles!NoCard => s.card \in s.used
    /\ s.scores \in [{0, 1} -> Nat]
    /\ s.scores[0] + s.scores[1] <= Spent(s)

\* Drawing leaves every card drawn so far behind.
LEMMA BramblesDraws ==
  ASSUME NEW s,
         BramblesFields \subseteq DOMAIN s, s.sprint \in Nat,
         s.used \subseteq Cards, IsFiniteSet(s.used), s.scores \in [{0, 1} -> Nat],
         s.scores[0] + s.scores[1] <= Cardinality(s.used),
         NEW t \in Brambles!NextCard(s)
  PROVE  BramblesSound(t)
<1>1. CASE Cards \subseteq s.used
  <2>1. t = [s EXCEPT !.card = "none"]
    BY <1>1 DEF Brambles!NextCard, Brambles!NoCard
  <2>2. /\ DOMAIN t = DOMAIN s /\ t.card = "none" /\ t.sprint = s.sprint /\ t.used = s.used /\ t.scores = s.scores
    BY <2>1 DEF BramblesFields
  <2>3. t.used \ {t.card} = s.used
    BY <2>2, BanksAssumption
  <2> QED
    BY <2>2, <2>3 DEF BramblesSound, Spent, Brambles!NoCard
<1>2. CASE ~(Cards \subseteq s.used)
  <2>1. PICK card \in Cards \ s.used : t = [s EXCEPT !.card = card, !.used = @ \cup {card}]
    BY <1>2 DEF Brambles!NextCard, Brambles!Unused
  <2>2. /\ DOMAIN t = DOMAIN s /\ t.card = card /\ t.sprint = s.sprint /\ t.used = s.used \cup {card} /\ t.scores = s.scores
    BY <2>1 DEF BramblesFields
  <2>3. t.used \ {t.card} = s.used
    BY <2>1, <2>2
  <2>4. IsFiniteSet(t.used)
    BY <2>2, FS_AddElement
  <2> QED
    BY <2>1, <2>2, <2>3, <2>4 DEF BramblesSound, Spent
<1> QED
  BY <1>1, <1>2

LEMMA BramblesCounts ==
  ASSUME NEW s, BramblesSound(s)
  PROVE  /\ s.scores[0] + s.scores[1] <= Cardinality(s.used)
         /\ s.card # Brambles!NoCard => s.scores[0] + s.scores[1] + 1 <= Cardinality(s.used)
<1>1. IsFiniteSet(s.used \ {s.card}) /\ Spent(s) \in Nat /\ Cardinality(s.used) \in Nat /\ Spent(s) <= Cardinality(s.used)
  BY FS_Subset, FS_CardinalityType DEF BramblesSound, Spent
<1>2. s.card \in s.used => Spent(s) = Cardinality(s.used) - 1
  BY FS_RemoveElement DEF BramblesSound, Spent
<1>3. s.scores[0] \in Nat /\ s.scores[1] \in Nat
  BY DEF BramblesSound
<1> QED
  BY <1>1, <1>2, <1>3 DEF BramblesSound

LEMMA BramblesOpens ==
  ASSUME NEW s \in Brambles!Opening
  PROVE  BramblesSound(s)
<1> DEFINE b == [sprint |-> 0, ticks |-> 0, used |-> {}, card |-> "none", scores |-> [team \in {0, 1} |-> 0], over |-> FALSE]
           c == [b EXCEPT !.sprint = @ + 1, !.ticks = 0]
<1>1. s \in Brambles!NextCard(c)
  BY DEF Brambles!Opening, Brambles!OpenSprint, Brambles!NoCard
<1>2. /\ DOMAIN c = BramblesFields /\ c.sprint = 1 /\ c.used = {} /\ c.scores = [team \in {0, 1} |-> 0]
  BY DEF BramblesFields
<1> HIDE DEF b, c
<1>3. Cardinality({}) = 0 /\ IsFiniteSet({})
  BY FS_EmptySet
<1>4. c.scores \in [{0, 1} -> Nat] /\ c.scores[0] + c.scores[1] = 0
  BY <1>2
<1>5. /\ BramblesFields \subseteq DOMAIN c /\ c.sprint \in Nat /\ c.used \subseteq Cards /\ IsFiniteSet(c.used)
      /\ c.scores[0] + c.scores[1] <= Cardinality(c.used)
  BY <1>2, <1>3, <1>4
<1> QED
  BY <1>1, <1>4, <1>5, BramblesDraws

LEMMA BramblesMoves ==
  ASSUME NEW s, BramblesSound(s), NEW p, NEW m, NEW t \in Brambles!CollectMove(s, p, m)
  PROVE  BramblesSound(t)
<1>1. CASE Brambles!MayAct(s, p) /\ Brambles!IsGuide(s, p) /\ m \in {"skip", "prick"}
  <2>1. t \in Brambles!NextCard(s)
    BY <1>1 DEF Brambles!CollectMove
  <2> QED
    BY <2>1, BramblesCounts, BramblesDraws DEF BramblesSound
<1>2. CASE Brambles!MayAct(s, p) /\ ~Brambles!IsGuide(s, p) /\ m = "right"
  <2> DEFINE c == [s EXCEPT !.scores[Brambles!ActiveTeam(s)] = @ + 1]
  <2>1. t \in Brambles!NextCard(c)
    BY <1>2 DEF Brambles!CollectMove
  <2>2. Brambles!ActiveTeam(s) \in {0, 1} /\ s.card # Brambles!NoCard
    BY <1>2 DEF Brambles!ActiveTeam, Brambles!MayAct, BramblesSound
  <2>3. /\ DOMAIN c = DOMAIN s /\ c.sprint = s.sprint /\ c.used = s.used
        /\ c.scores = [s.scores EXCEPT ![Brambles!ActiveTeam(s)] = @ + 1]
    BY DEF BramblesSound, BramblesFields
  <2>4. c.scores \in [{0, 1} -> Nat] /\ c.scores[0] + c.scores[1] = s.scores[0] + s.scores[1] + 1
    BY <2>2, <2>3 DEF BramblesSound
  <2>5. c.scores[0] + c.scores[1] <= Cardinality(c.used)
    BY <2>2, <2>3, <2>4, BramblesCounts
  <2> HIDE DEF c
  <2> QED
    BY <2>1, <2>3, <2>4, <2>5, BramblesDraws DEF BramblesSound
<1>3. CASE /\ ~(Brambles!MayAct(s, p) /\ Brambles!IsGuide(s, p) /\ m \in {"skip", "prick"})
           /\ ~(Brambles!MayAct(s, p) /\ ~Brambles!IsGuide(s, p) /\ m = "right")
  BY <1>3 DEF Brambles!CollectMove
<1> QED
  BY <1>1, <1>2, <1>3

LEMMA BramblesTicks ==
  ASSUME NEW s, BramblesSound(s), NEW t \in Brambles!Tick(s)
  PROVE  BramblesSound(t)
<1> DEFINE u == Brambles!Ticked(s)
<1>1. /\ DOMAIN u = DOMAIN s /\ u.sprint = s.sprint /\ u.used = s.used /\ u.card = s.card /\ u.scores = s.scores
  BY DEF Brambles!Ticked, BramblesSound, BramblesFields
<1>2. BramblesSound(u)
  BY <1>1 DEF BramblesSound, Spent
<1>3. \/ t = s
      \/ t = u
      \/ t = [u EXCEPT !.over = TRUE, !.card = "none"]
      \/ t \in Brambles!NextCard([u EXCEPT !.sprint = @ + 1, !.ticks = 0])
  BY DEF Brambles!Tick, Brambles!OpenSprint, Brambles!NoCard
<1> HIDE DEF u
<1>4. CASE t = [u EXCEPT !.over = TRUE, !.card = "none"]
  <2>1. /\ DOMAIN t = DOMAIN u /\ t.sprint = u.sprint /\ t.used = u.used /\ t.card = "none" /\ t.scores = u.scores
    BY <1>2, <1>4 DEF BramblesSound, BramblesFields
  <2>2. t.used \ {t.card} = u.used
    BY <1>2, <2>1, BanksAssumption DEF BramblesSound
  <2> QED
    BY <1>2, <2>1, <2>2, BramblesCounts DEF BramblesSound, Spent, Brambles!NoCard
<1>5. CASE t \in Brambles!NextCard([u EXCEPT !.sprint = @ + 1, !.ticks = 0])
  <2> DEFINE c == [u EXCEPT !.sprint = @ + 1, !.ticks = 0]
  <2>1. /\ DOMAIN c = DOMAIN u /\ c.sprint = u.sprint + 1 /\ c.used = u.used /\ c.scores = u.scores
    BY <1>2 DEF BramblesSound, BramblesFields
  <2>2. t \in Brambles!NextCard(c)
    BY <1>5
  <2>3. BramblesSound(t)
    <3> HIDE DEF c
    <3> QED
      BY <1>2, <2>1, <2>2, BramblesCounts, BramblesDraws DEF BramblesSound
  <2> QED
    BY <2>3
<1> QED
  BY <1>2, <1>3, <1>4, <1>5

--------------------------------------------------------------------------------
(* Reversi: the turn was passed only by a side that is stuck, to one that is  *)
(* not, in a game that goes on.                                               *)

ReversiFields == {"cells", "turn", "passed", "over"}
ReversiStuck(s, side) == Reversi!LegalMoves(s.cells, side) = {}

ReversiSound(s) ==
    /\ ReversiFields \subseteq DOMAIN s
    /\ s.turn \in {"violet", "amber"}
    /\ s.passed => ~s.over /\ ~ReversiStuck(s, s.turn) /\ ReversiStuck(s, Reversi!OtherSide(s.turn))

LEMMA ReversiOpens ==
  ASSUME NEW s \in Reversi!Opening
  PROVE  ReversiSound(s)
<1>1. s = [cells |-> Reversi!StartingBoard, turn |-> "violet", passed |-> FALSE, over |-> FALSE]
  BY DEF Reversi!Opening
<1> QED
  BY <1>1 DEF ReversiSound, ReversiFields

LEMMA ReversiMoves ==
  ASSUME NEW s, ReversiSound(s), NEW p, NEW m
  PROVE  ReversiSound(Reversi!CollectMove(s, p, m))
<1> DEFINE next == Reversi!ApplyMove(s.cells, s.turn, m)
           other == Reversi!OtherSide(s.turn)
           stuck(side) == Reversi!LegalMoves(next, side) = {}
           r == [cells  |-> next,
                 turn   |-> IF stuck(other) /\ ~stuck(Reversi!OtherSide(other)) THEN Reversi!OtherSide(other) ELSE other,
                 passed |-> stuck(other) /\ ~stuck(Reversi!OtherSide(other)),
                 over   |-> stuck(other) /\ stuck(Reversi!OtherSide(other))]
<1>1. Reversi!CollectMove(s, p, m) \in {s, r}
  BY Zenon DEF Reversi!CollectMove, Reversi!ResolveTurn
<1>2. /\ other \in {"violet", "amber"} /\ Reversi!OtherSide(other) \in {"violet", "amber"}
      /\ Reversi!OtherSide(Reversi!OtherSide(other)) = other
  BY DEF ReversiSound, Reversi!OtherSide
<1>3. ReversiSound(r)
  <2> HIDE DEF next, other
  <2> QED
    BY <1>2 DEF ReversiSound, ReversiFields, ReversiStuck
<1> QED
  BY <1>1, <1>3

\* What the notice says of a passed turn is so.
LEMMA ReversiPositions ==
  ASSUME game = "reversi", ReversiSound(scratch)
  PROVE  PositionsSound
<1>1. ASSUME NEW side \in Players
      PROVE  LET notice == Reversi!TurnPopup(scratch, side)
                 stuck(other) == Reversi!LegalMoves(scratch.cells, other) = {}
             IN  /\ notice = "you have no moves, turn skipped" => stuck(side)
                 /\ notice = "the other has no moves, your turn" => ~stuck(side) /\ stuck(Reversi!OtherSide(side))
  <2>1. side \in {"violet", "amber"}
    BY SeatsAssumption DEF Players
  <2>2. side # scratch.turn => side = Reversi!OtherSide(scratch.turn)
    BY <2>1 DEF ReversiSound, Reversi!OtherSide
  <2> QED
    BY <2>1, <2>2 DEF Reversi!TurnPopup, Reversi!IsActive, ReversiSound, ReversiStuck
<1> QED
  BY <1>1 DEF PositionsSound

--------------------------------------------------------------------------------
(* Whispergrove: both groves still hide a leaf until one of them has won.     *)

GroveFields == {"key", "revealed", "turn", "phase", "count", "guessesLeft", "winner", "endReason"}
Teams == {"violet", "amber"}

AllShow(s, role) == \A i \in DOMAIN s.key : s.key[i] = role => i \in s.revealed

GroveSound(s) ==
    /\ GroveFields \subseteq DOMAIN s
    /\ s.turn \in Teams
    /\ DOMAIN s.key = Whispergrove!Grid
    /\ \A i \in DOMAIN s.key : s.key[i] \in Whispergrove!Roles
    /\ \A i, j \in DOMAIN s.key : s.key[i] = "deadwood" /\ s.key[j] = "deadwood" => i = j
    /\ IF s.phase = "over"
       THEN \/ s.endReason = "cleared" /\ AllShow(s, s.winner)
            \/ s.endReason = "deadwood" /\ AllShow(s, "deadwood") /\ ~AllShow(s, s.winner)
       ELSE /\ \A role \in Teams : ~AllShow(s, role)
            /\ s.phase \in {"whispering", "guessing"}
            /\ s.phase = "guessing" => s.count \in Nat /\ s.guessesLeft \in 1 .. s.count + 1

LEMMA GroveOpens ==
  ASSUME NEW s \in Whispergrove!Opening
  PROVE  GroveSound(s)
<1>1. PICK key \in Whispergrove!Keys :
         s = [key |-> key, revealed |-> {}, turn |-> "violet", phase |-> "whispering", count |-> 0,
              guessesLeft |-> 0, winner |-> Whispergrove!Nobody, endReason |-> Whispergrove!Nobody]
  BY DEF Whispergrove!Opening
<1> DEFINE Of(role) == {i \in Whispergrove!Grid : key[i] = role}
<1>2. /\ DOMAIN key = Whispergrove!Grid /\ \A i \in DOMAIN key : key[i] \in Whispergrove!Roles
      /\ \A role \in Whispergrove!Roles : Cardinality(Of(role)) = Whispergrove!Dealt(role)
  BY Zenon DEF Whispergrove!Keys, Whispergrove!Cardinality, Cardinality
<1>3. /\ Cardinality(Of("violet")) = StartLeaves /\ Cardinality(Of("amber")) = OtherLeaves
      /\ Cardinality(Of("deadwood")) = DeadwoodLeaves
  BY <1>2 DEF Whispergrove!Roles, Whispergrove!Teams, Whispergrove!Dealt
<1>4. Of("violet") # {} /\ Of("amber") # {}
  BY <1>3, FS_EmptySet, BanksAssumption
<1>5. \A i, j \in Of("deadwood") : i = j
  <2>1. IsFiniteSet(Of("deadwood"))
    <3>1. IsFiniteSet(Whispergrove!Grid)
      BY FS_Interval, BanksAssumption DEF Whispergrove!Grid, Whispergrove!GridSize
    <3> QED
      BY <3>1, FS_Subset
  <2>2. PICK x : Of("deadwood") = {x}
    BY <1>3, <2>1, FS_Singleton, BanksAssumption
  <2> QED
    BY <2>2
<1>6. /\ s.key = key /\ s.revealed = {} /\ s.turn = "violet" /\ s.phase = "whispering" /\ DOMAIN s = GroveFields
  BY <1>1 DEF GroveFields
<1>7. \A role \in Teams : ~AllShow(s, role)
  BY <1>2, <1>4, <1>6 DEF AllShow, Teams
<1> QED
  BY <1>2, <1>5, <1>6, <1>7 DEF GroveSound, Teams

LEMMA GroveWhispers ==
  ASSUME NEW s, GroveSound(s), NEW p, NEW m, Whispergrove!MayWhisper(s, p, m)
  PROVE  GroveSound(Whispergrove!Whisper(s, m))
<1> DEFINE r == Whispergrove!Whisper(s, m)
<1>1. /\ DOMAIN r = DOMAIN s /\ r.key = s.key /\ r.revealed = s.revealed /\ r.turn = s.turn
      /\ r.phase = "guessing" /\ r.count = m.count /\ r.guessesLeft = m.count + 1
  BY DEF Whispergrove!Whisper, GroveSound, GroveFields
<1>2. s.phase = "whispering" /\ m.count \in Nat
  BY DEF Whispergrove!MayWhisper
<1>3. GroveSound(r)
  <2> HIDE DEF r
  <2> QED
    BY <1>1, <1>2 DEF GroveSound, AllShow
<1> QED
  BY <1>3

LEMMA GroveTaps ==
  ASSUME NEW s, GroveSound(s), s.phase = "guessing", NEW i \in Whispergrove!Grid \ s.revealed
  PROVE  GroveSound(Whispergrove!Tap(s, i))
<1> DEFINE shown == [s EXCEPT !.revealed = @ \cup {i}, !.guessesLeft = @ - 1]
           r == Whispergrove!Tap(s, i)
<1>1. /\ DOMAIN shown = DOMAIN s /\ shown.key = s.key /\ shown.revealed = s.revealed \cup {i} /\ shown.turn = s.turn
      /\ shown.phase = "guessing" /\ shown.count = s.count /\ shown.guessesLeft = s.guessesLeft - 1
  BY DEF GroveSound, GroveFields
<1>2. \A team : Whispergrove!Hidden(shown, team) = {} <=> AllShow(shown, team)
  BY <1>1 DEF Whispergrove!Hidden, AllShow, GroveSound
<1>3. \A role : AllShow(shown, role) => s.key[i] = role \/ AllShow(s, role)
  BY <1>1 DEF AllShow
<1>4. s.key[i] = "deadwood" => AllShow(shown, "deadwood")
  BY <1>1 DEF AllShow, GroveSound
<1>5. \A team \in Teams, reason \in {"cleared", "deadwood"} :
        LET e == Whispergrove!EndGameWith(shown, team, reason)
        IN  /\ DOMAIN e = DOMAIN s /\ e.key = shown.key /\ e.revealed = shown.revealed /\ e.turn = s.turn
            /\ e.phase = "over" /\ e.winner = team /\ e.endReason = reason
  BY <1>1 DEF Whispergrove!EndGameWith, GroveSound, GroveFields
<1>6. LET e == Whispergrove!PassTurn(shown)
      IN  /\ DOMAIN e = DOMAIN s /\ e.key = shown.key /\ e.revealed = shown.revealed /\ e.turn \in Teams
          /\ e.phase = "whispering"
  BY <1>1 DEF Whispergrove!PassTurn, Whispergrove!OtherTeam, GroveSound, GroveFields, Teams
<1>7. Whispergrove!OtherTeam(s.turn) \in Teams
  BY DEF Whispergrove!OtherTeam, Teams
<1>8. CASE s.key[i] = "deadwood"
  <2>1. r = Whispergrove!EndGameWith(shown, Whispergrove!OtherTeam(s.turn), "deadwood")
    BY <1>8 DEF Whispergrove!Tap
  <2>2. ~AllShow(shown, Whispergrove!OtherTeam(s.turn))
    BY <1>3, <1>7, <1>8 DEF GroveSound, Teams
  <2> HIDE DEF shown
  <2>3. AllShow(r, "deadwood") /\ ~AllShow(r, r.winner) /\ r.endReason = "deadwood" /\ r.phase = "over"
    BY <1>4, <1>5, <1>7, <1>8, <2>1, <2>2 DEF AllShow
  <2> QED
    BY <1>1, <1>5, <1>7, <2>1, <2>3 DEF GroveSound
<1>9. CASE s.key[i] # "deadwood" /\ AllShow(shown, "violet")
  <2>1. r = Whispergrove!EndGameWith(shown, "violet", "cleared")
    BY <1>2, <1>9 DEF Whispergrove!Tap
  <2> HIDE DEF shown
  <2> QED
    BY <1>1, <1>5, <1>9, <2>1 DEF GroveSound, AllShow, Teams
<1>10. CASE s.key[i] # "deadwood" /\ ~AllShow(shown, "violet") /\ AllShow(shown, "amber")
  <2>1. r = Whispergrove!EndGameWith(shown, "amber", "cleared")
    BY <1>2, <1>10 DEF Whispergrove!Tap
  <2> HIDE DEF shown
  <2> QED
    BY <1>1, <1>5, <1>10, <2>1 DEF GroveSound, AllShow, Teams
<1>11. CASE s.key[i] # "deadwood" /\ ~AllShow(shown, "violet") /\ ~AllShow(shown, "amber")
  <2>1. r = IF s.key[i] # s.turn \/ shown.guessesLeft <= 0 THEN Whispergrove!PassTurn(shown) ELSE shown
    BY <1>2, <1>11 DEF Whispergrove!Tap
  <2>2. GroveSound(Whispergrove!PassTurn(shown))
    <3> HIDE DEF shown
    <3> QED
      BY <1>1, <1>6, <1>11 DEF GroveSound, AllShow, Teams
  <2>3. shown.guessesLeft > 0 => GroveSound(shown)
    <3> HIDE DEF shown
    <3> QED
      BY <1>1, <1>11 DEF GroveSound, AllShow, Teams
  <2>4. shown.guessesLeft \in Int
    BY <1>1 DEF GroveSound
  <2> HIDE DEF shown
  <2> QED
    BY <2>1, <2>2, <2>3, <2>4
<1> QED
  BY <1>8, <1>9, <1>10, <1>11

LEMMA GroveMoves ==
  ASSUME NEW s, GroveSound(s), NEW p, NEW m, m.kind \in {"whisper", "tap"}
  PROVE  GroveSound(Whispergrove!CollectMove(s, p, m))
<1>1. CASE m.kind = "whisper"
  BY <1>1, GroveWhispers DEF Whispergrove!CollectMove
<1>2. CASE m.kind = "tap"
  <2>1. CASE Whispergrove!MayTap(s, p, m)
    BY <1>2, <2>1, GroveTaps DEF Whispergrove!CollectMove, Whispergrove!MayTap
  <2>2. CASE ~Whispergrove!MayTap(s, p, m)
    BY <1>2, <2>2 DEF Whispergrove!CollectMove
  <2> QED
    BY <2>1, <2>2
<1> QED
  BY <1>1, <1>2

--------------------------------------------------------------------------------
(* Nightleaf: a leaf that lies above a lower one, on the trunk or still in a  *)
(* hand, was paid for with a bud when it landed.                              *)

NightleafFields == {"tier", "buds", "fireflies", "hands", "trunk", "hushProposers", "over", "won", "phase", "phaseTicks"}

\* Leaves of the trunk above one that came later or that somebody still holds.
TooSoon(trunk, held) ==
    {i \in DOMAIN trunk : \/ \E j \in DOMAIN trunk : j > i /\ trunk[j] < trunk[i]
                          \/ \E leaf \in held : leaf < trunk[i]}

NightleafSound(s) ==
    /\ NightleafFields \subseteq DOMAIN s
    /\ s.tier \in Nat /\ s.buds \in Int
    /\ s.hands \in [Nightleaf!Players -> SUBSET Nightleaf!Leaves]
    /\ s.trunk \in Seq(Nightleaf!Leaves)
    /\ MaxBuds - s.buds >= Cardinality(TooSoon(s.trunk, Nightleaf!Held(s.hands)))
    /\ s.phase \in {"playing", "misplay", "tier-cleared", "won", "lost"}
    /\ s.over <=> s.phase \in {"won", "lost"}
    /\ s.phase \in {"playing", "tier-cleared"} => s.buds > 0
    /\ s.over => (s.won <=> s.buds > 0)

\* A hand that is not empty has a lowest leaf.
LEMMA LowestIsHeld ==
  ASSUME NEW hand, hand \subseteq Nightleaf!Leaves, hand # {}
  PROVE  Nightleaf!Lowest(hand) \in hand /\ \A other \in hand : Nightleaf!Lowest(hand) <= other
<1> DEFINE R == OpToRel(<, Nat)
<1>1. hand \subseteq Nat
  BY DEF Nightleaf!Leaves
<1>2. IsWellFoundedOn(R, Nat)
  BY NatLessThanWellFounded
<1>3. \A a, b \in Nat : a < b => <<a, b>> \in R
  BY DEF OpToRel
<1> HIDE DEF R
<1>4. PICK n \in hand : \A m \in hand : ~(<<m, n>> \in R)
  BY <1>1, <1>2, WFMin
<1>5. \A m \in hand : n <= m
  <2>1. \A m \in hand : m \in Nat /\ n \in Nat /\ ~(m < n)
    BY <1>1, <1>3, <1>4
  <2> QED
    BY <2>1
<1> QED
  BY <1>5 DEF Nightleaf!Lowest

LEMMA TooSoonIsFinite ==
  ASSUME NEW trunk \in Seq(Nightleaf!Leaves), NEW held
  PROVE  IsFiniteSet(TooSoon(trunk, held)) /\ Cardinality(TooSoon(trunk, held)) \in Nat
<1>1. TooSoon(trunk, held) \subseteq 1 .. Len(trunk) /\ Len(trunk) \in Nat
  BY DEF TooSoon
<1>2. IsFiniteSet(1 .. Len(trunk))
  BY <1>1, FS_Interval
<1> QED
  BY <1>1, <1>2, FS_Subset, FS_CardinalityType

\* Leaves that leave a hand spoil nothing.
LEMMA FewerHeld ==
  ASSUME NEW trunk \in Seq(Nightleaf!Leaves), NEW held, NEW left \in SUBSET held
  PROVE  Cardinality(TooSoon(trunk, left)) <= Cardinality(TooSoon(trunk, held))
<1>1. TooSoon(trunk, left) \subseteq TooSoon(trunk, held)
  BY DEF TooSoon
<1> QED
  BY <1>1, TooSoonIsFinite, FS_Subset

\* A leaf that lands spoils itself at most, and not itself if it was the lowest.
LEMMA LeafLands ==
  ASSUME NEW trunk \in Seq(Nightleaf!Leaves), NEW held \in SUBSET Nightleaf!Leaves, NEW left \in SUBSET held, NEW leaf \in held
  PROVE  LET after == TooSoon(Append(trunk, leaf), left)
             before == TooSoon(trunk, held)
         IN  /\ Append(trunk, leaf) \in Seq(Nightleaf!Leaves)
             /\ Cardinality(after) <= Cardinality(before) + 1
             /\ (\A other \in held : ~(other < leaf)) => Cardinality(after) <= Cardinality(before)
<1> DEFINE longer == Append(trunk, leaf)
           n == Len(trunk)
           after == TooSoon(longer, left)
           before == TooSoon(trunk, held)
<1>1. n \in Nat /\ DOMAIN trunk = 1 .. n
  OBVIOUS
<1>2. /\ longer \in Seq(Nightleaf!Leaves) /\ DOMAIN longer = 1 .. n + 1
      /\ longer[n + 1] = leaf /\ \A i \in 1 .. n : longer[i] = trunk[i]
  OBVIOUS
<1> HIDE DEF n, longer
<1>3. ASSUME NEW i \in after, i # n + 1
      PROVE  i \in before
  <2>1. i \in 1 .. n /\ longer[i] = trunk[i]
    BY <1>1, <1>2, <1>3 DEF TooSoon
  <2>2. CASE \E other \in left : other < longer[i]
    BY <1>1, <2>1, <2>2 DEF TooSoon
  <2>3. CASE \E j \in DOMAIN longer : j > i /\ longer[j] < longer[i]
    <3>1. PICK j \in 1 .. n + 1 : j > i /\ longer[j] < longer[i]
      BY <1>2, <2>3
    <3>2. CASE j = n + 1
      <4>1. leaf < trunk[i]
        BY <1>2, <2>1, <3>1, <3>2
      <4> QED
        BY <1>1, <2>1, <4>1 DEF TooSoon
    <3>3. CASE j # n + 1
      <4>1. j \in 1 .. n
        BY <1>1, <3>1, <3>3
      <4> QED
        BY <1>1, <1>2, <2>1, <3>1, <4>1 DEF TooSoon
    <3> QED
      BY <3>2, <3>3
  <2> QED
    BY <2>2, <2>3 DEF TooSoon
<1>4. (\A other \in held : ~(other < leaf)) => ~(n + 1 \in after)
  <2> SUFFICES ASSUME \A other \in held : ~(other < leaf), n + 1 \in after
               PROVE  FALSE
    OBVIOUS
  <2>1. \A j \in 1 .. n + 1 : ~(j > n + 1)
    BY <1>1
  <2> QED
    BY <1>2, <2>1 DEF TooSoon
<1>5. IsFiniteSet(before) /\ Cardinality(before) \in Nat /\ IsFiniteSet(before \cup {n + 1})
      /\ Cardinality(before \cup {n + 1}) <= Cardinality(before) + 1
  <2>1. IsFiniteSet(before) /\ Cardinality(before) \in Nat
    BY TooSoonIsFinite
  <2> HIDE DEF before
  <2>2. \A x : IsFiniteSet(before \cup {x}) /\ Cardinality(before \cup {x}) <= Cardinality(before) + 1
    <3> TAKE x
    <3>1. /\ IsFiniteSet(before \cup {x})
          /\ Cardinality(before \cup {x}) = IF x \in before THEN Cardinality(before) ELSE Cardinality(before) + 1
      BY <2>1, FS_AddElement
    <3> QED
      BY <2>1, <3>1
  <2> QED
    BY <2>1, <2>2
<1>6. after \subseteq before \cup {n + 1} /\ (~(n + 1 \in after) => after \subseteq before)
  BY <1>3
<1>7. IsFiniteSet(after) /\ Cardinality(after) \in Nat
  BY <1>2, TooSoonIsFinite
<1>8. Cardinality(after) <= Cardinality(before) + 1
  <2>1. Cardinality(after) <= Cardinality(before \cup {n + 1}) /\ Cardinality(before \cup {n + 1}) \in Nat
    BY <1>5, <1>6, FS_Subset, FS_CardinalityType
  <2> QED
    BY <1>5, <1>7, <2>1
<1>9. (\A other \in held : ~(other < leaf)) => Cardinality(after) <= Cardinality(before)
  BY <1>4, <1>5, <1>6, FS_Subset
<1> QED
  BY <1>2, <1>8, <1>9 DEF longer

LEMMA TooSoonOnNothing ==
  ASSUME NEW held
  PROVE  Cardinality(TooSoon(<<>>, held)) = 0
<1>1. TooSoon(<<>>, held) = {}
  BY DEF TooSoon
<1> QED
  BY <1>1, FS_EmptySet

\* A tier that is dealt starts on an empty trunk.
LEMMA NightleafDeals ==
  ASSUME NEW s, NightleafFields \subseteq DOMAIN s, s.tier \in Nat, s.buds \in 1 .. MaxBuds, ~s.over,
         NEW tier, NEW deal \in Nightleaf!Deals(tier)
  PROVE  NightleafSound(Nightleaf!DealInto(s, deal))
<1> DEFINE r == Nightleaf!DealInto(s, deal)
<1>1. deal \in [Nightleaf!Players -> SUBSET Nightleaf!Leaves]
  BY DEF Nightleaf!Deals
<1>2. /\ DOMAIN r = DOMAIN s /\ r.tier = s.tier /\ r.buds = s.buds /\ r.hands = deal /\ r.trunk = <<>>
      /\ r.phase = "playing" /\ r.over = s.over /\ r.won = s.won
  BY DEF Nightleaf!DealInto, NightleafFields
<1>3. NightleafSound(r)
  <2> HIDE DEF r
  <2>1. r.trunk \in Seq(Nightleaf!Leaves) /\ Cardinality(TooSoon(r.trunk, Nightleaf!Held(r.hands))) = 0
    BY <1>2, TooSoonOnNothing
  <2> QED
    BY <1>1, <1>2, <2>1, BanksAssumption DEF NightleafSound
<1> QED
  BY <1>3

LEMMA NightleafOpens ==
  ASSUME NEW s \in Nightleaf!Opening
  PROVE  NightleafSound(s)
<1> DEFINE b == [tier |-> 1, buds |-> MaxBuds, fireflies |-> Fireflies, hands |-> [p \in Nightleaf!Players |-> {}],
                 trunk |-> <<>>, hushProposers |-> {}, over |-> FALSE, won |-> FALSE,
                 phase |-> "playing", phaseTicks |-> 0]
<1>1. PICK deal \in Nightleaf!Deals(1) : s = Nightleaf!DealInto(b, deal)
  BY DEF Nightleaf!Opening
<1>2. DOMAIN b = NightleafFields /\ b.tier = 1 /\ b.buds = MaxBuds /\ b.over = FALSE
  BY DEF NightleafFields
<1> HIDE DEF b
<1>3. MaxBuds \in 1 .. MaxBuds
  BY BanksAssumption
<1> QED
  BY <1>1, <1>2, <1>3, NightleafDeals

\* The last leaf gone or not, a table that is playing goes on.
LEMMA NightleafSettles ==
  ASSUME NEW s, NightleafSound(s), s.phase = "playing"
  PROVE  NightleafSound(Nightleaf!Settled(s))
<1>1. CASE Nightleaf!Held(s.hands) = {}
  <2> DEFINE r == Nightleaf!Settled(s)
  <2>1. /\ DOMAIN r = DOMAIN s /\ r.tier = s.tier /\ r.buds = s.buds /\ r.hands = s.hands /\ r.trunk = s.trunk
        /\ r.phase = "tier-cleared" /\ r.over = s.over /\ r.won = s.won
    BY <1>1 DEF Nightleaf!Settled, Nightleaf!Banner, NightleafSound, NightleafFields
  <2>2. NightleafSound(r)
    <3> HIDE DEF r
    <3> QED
      BY <2>1 DEF NightleafSound
  <2> QED
    BY <2>2
<1>2. CASE Nightleaf!Held(s.hands) # {}
  BY <1>2 DEF Nightleaf!Settled
<1> QED
  BY <1>1, <1>2

LEMMA NightleafPlays ==
  ASSUME NEW s, NightleafSound(s), NEW p \in Nightleaf!Players, Nightleaf!MayPlay(s, p)
  PROVE  NightleafSound(Nightleaf!Play(s, p))
<1> DEFINE leaf == Nightleaf!Lowest(s.hands[p])
           held == Nightleaf!Held(s.hands)
           hands == [s.hands EXCEPT ![p] = @ \ {leaf}]
           played == [s EXCEPT !.hands[p] = @ \ {leaf}, !.trunk = Append(@, leaf), !.hushProposers = {}]
<1>1. /\ s.hands \in [Nightleaf!Players -> SUBSET Nightleaf!Leaves] /\ s.trunk \in Seq(Nightleaf!Leaves)
      /\ s.hands[p] # {} /\ s.phase = "playing" /\ ~s.over /\ s.buds \in Int /\ s.buds > 0
  BY DEF NightleafSound, Nightleaf!MayPlay
<1>2. leaf \in s.hands[p]
  BY <1>1, LowestIsHeld
<1>3. leaf \in held /\ held \subseteq Nightleaf!Leaves
  BY <1>1, <1>2 DEF Nightleaf!Held
<1>4. /\ hands \in [Nightleaf!Players -> SUBSET Nightleaf!Leaves]
      /\ Nightleaf!Held(hands) \subseteq held
  BY <1>1 DEF Nightleaf!Held
<1>5. /\ DOMAIN played = DOMAIN s /\ played.tier = s.tier /\ played.buds = s.buds /\ played.hands = hands
      /\ played.trunk = Append(s.trunk, leaf) /\ played.phase = s.phase /\ played.over = s.over /\ played.won = s.won
  BY DEF NightleafSound, NightleafFields
<1> HIDE DEF leaf, hands
<1>6. /\ played.trunk \in Seq(Nightleaf!Leaves)
      /\ Cardinality(TooSoon(played.trunk, Nightleaf!Held(hands))) <= Cardinality(TooSoon(s.trunk, held)) + 1
      /\ (\A other \in held : ~(other < leaf)) =>
            Cardinality(TooSoon(played.trunk, Nightleaf!Held(hands))) <= Cardinality(TooSoon(s.trunk, held))
      /\ Cardinality(TooSoon(s.trunk, held)) \in Nat /\ Cardinality(TooSoon(played.trunk, Nightleaf!Held(hands))) \in Nat
  <2>1. /\ Append(s.trunk, leaf) \in Seq(Nightleaf!Leaves)
        /\ Cardinality(TooSoon(Append(s.trunk, leaf), Nightleaf!Held(hands))) <= Cardinality(TooSoon(s.trunk, held)) + 1
        /\ (\A other \in held : ~(other < leaf)) =>
              Cardinality(TooSoon(Append(s.trunk, leaf), Nightleaf!Held(hands))) <= Cardinality(TooSoon(s.trunk, held))
    BY <1>1, <1>3, <1>4, LeafLands
  <2> QED
    BY <1>1, <1>5, <2>1, TooSoonIsFinite
<1>7. Nightleaf!Play(s, p) = IF \E other \in held : other < leaf THEN Nightleaf!Banner([played EXCEPT !.buds = @ - 1], "misplay")
                             ELSE Nightleaf!Settled(played)
  BY Zenon DEF Nightleaf!Play, leaf
<1> HIDE DEF played, held
<1>8. CASE \E other \in held : other < leaf
  <2> DEFINE r == Nightleaf!Banner([played EXCEPT !.buds = @ - 1], "misplay")
  <2>1. /\ DOMAIN r = DOMAIN s /\ r.tier = s.tier /\ r.buds = s.buds - 1 /\ r.hands = hands /\ r.trunk = played.trunk
        /\ r.phase = "misplay" /\ r.over = s.over
    BY <1>5 DEF Nightleaf!Banner, NightleafSound, NightleafFields
  <2>2. MaxBuds - s.buds >= Cardinality(TooSoon(s.trunk, held))
    BY DEF NightleafSound, held
  <2>3. MaxBuds - r.buds >= Cardinality(TooSoon(r.trunk, Nightleaf!Held(r.hands)))
    <3>1. r.buds = s.buds - 1 /\ r.trunk = played.trunk /\ r.hands = hands
      BY <2>1
    <3> HIDE DEF r
    <3> QED
      BY <1>1, <1>6, <2>2, <3>1, BanksAssumption
  <2>4. NightleafSound(r)
    <3> HIDE DEF r
    <3> QED
      BY <1>1, <1>4, <1>6, <2>1, <2>3 DEF NightleafSound
  <2> QED
    BY <1>7, <1>8, <2>4
<1>9. CASE ~\E other \in held : other < leaf
  <2>1. MaxBuds - s.buds >= Cardinality(TooSoon(s.trunk, held))
    BY DEF NightleafSound, held
  <2>2. MaxBuds - played.buds >= Cardinality(TooSoon(played.trunk, Nightleaf!Held(played.hands)))
    BY <1>1, <1>5, <1>6, <1>9, <2>1, BanksAssumption
  <2>3. NightleafSound(played) /\ played.phase = "playing"
    BY <1>1, <1>4, <1>5, <1>6, <2>2 DEF NightleafSound
  <2> QED
    BY <1>7, <1>9, <2>3, NightleafSettles
<1> QED
  BY <1>8, <1>9

LEMMA NightleafHushes ==
  ASSUME NEW s, NightleafSound(s), NEW p \in Nightleaf!Players, Nightleaf!MayHush(s, p)
  PROVE  NightleafSound(Nightleaf!Hush(s, p))
<1> DEFINE asked == [s EXCEPT !.hushProposers = @ \cup {p}]
           hands == [q \in Nightleaf!Players |->
                       s.hands[q] \ (IF s.hands[q] = {} THEN {} ELSE {Nightleaf!Lowest(s.hands[q])})]
           fired == [s EXCEPT !.hushProposers = {}, !.fireflies = @ - 1, !.hands = hands]
<1>1. /\ s.hands \in [Nightleaf!Players -> SUBSET Nightleaf!Leaves] /\ s.trunk \in Seq(Nightleaf!Leaves)
      /\ s.phase = "playing" /\ s.buds \in Int
  BY DEF NightleafSound, Nightleaf!MayPlay, Nightleaf!MayHush
<1>2. hands \in [Nightleaf!Players -> SUBSET Nightleaf!Leaves] /\ Nightleaf!Held(hands) \subseteq Nightleaf!Held(s.hands)
  BY <1>1 DEF Nightleaf!Held
<1>3. NightleafSound(asked)
  <2>1. /\ DOMAIN asked = DOMAIN s /\ asked.tier = s.tier /\ asked.buds = s.buds /\ asked.hands = s.hands
        /\ asked.trunk = s.trunk /\ asked.phase = s.phase /\ asked.over = s.over /\ asked.won = s.won
    BY DEF NightleafSound, NightleafFields
  <2> HIDE DEF asked
  <2> QED
    BY <2>1 DEF NightleafSound
<1>4. NightleafSound(fired) /\ fired.phase = "playing"
  <2>1. /\ DOMAIN fired = DOMAIN s /\ fired.tier = s.tier /\ fired.buds = s.buds /\ fired.hands = hands
        /\ fired.trunk = s.trunk /\ fired.phase = s.phase /\ fired.over = s.over /\ fired.won = s.won
    BY DEF NightleafSound, NightleafFields
  <2> HIDE DEF fired, hands
  <2>2. /\ Cardinality(TooSoon(s.trunk, Nightleaf!Held(hands))) <= Cardinality(TooSoon(s.trunk, Nightleaf!Held(s.hands)))
        /\ Cardinality(TooSoon(s.trunk, Nightleaf!Held(hands))) \in Nat
        /\ Cardinality(TooSoon(s.trunk, Nightleaf!Held(s.hands))) \in Nat
    BY <1>1, <1>2, FewerHeld, TooSoonIsFinite
  <2>3. MaxBuds - s.buds >= Cardinality(TooSoon(s.trunk, Nightleaf!Held(s.hands)))
    BY DEF NightleafSound
  <2>4. MaxBuds - fired.buds >= Cardinality(TooSoon(fired.trunk, Nightleaf!Held(fired.hands)))
    BY <1>1, <2>1, <2>2, <2>3, BanksAssumption
  <2> QED
    BY <1>1, <1>2, <2>1, <2>4 DEF NightleafSound
<1>5. Nightleaf!Hush(s, p) = IF Nightleaf!Holders(s) \subseteq asked.hushProposers THEN Nightleaf!Settled(fired) ELSE asked
  BY Zenon DEF Nightleaf!Hush
<1> HIDE DEF asked, fired
<1> QED
  BY <1>3, <1>4, <1>5, NightleafSettles

LEMMA NightleafMoves ==
  ASSUME NEW s, NightleafSound(s), NEW p \in Nightleaf!Players, NEW m
  PROVE  NightleafSound(Nightleaf!CollectMove(s, p, m))
<1>1. CASE m = "play" /\ Nightleaf!MayPlay(s, p)
  BY <1>1, NightleafPlays DEF Nightleaf!CollectMove
<1>2. CASE m = "hush" /\ Nightleaf!MayHush(s, p)
  BY <1>2, NightleafHushes DEF Nightleaf!CollectMove
<1>3. CASE ~(m = "play" /\ Nightleaf!MayPlay(s, p)) /\ ~(m = "hush" /\ Nightleaf!MayHush(s, p))
  BY <1>3 DEF Nightleaf!CollectMove
<1> QED
  BY <1>1, <1>2, <1>3

\* What a banner that has passed may leave.
LEMMA NightleafBanners ==
  ASSUME NEW s, NightleafSound(s), ~s.over, s.phase # "playing", NEW t \in Nightleaf!BannerOver(s)
  PROVE  NightleafSound(t)
<1>1. /\ s.phase \in {"misplay", "tier-cleared"} /\ s.tier \in Nat /\ s.buds \in Int
      /\ s.hands \in [Nightleaf!Players -> SUBSET Nightleaf!Leaves] /\ s.trunk \in Seq(Nightleaf!Leaves)
      /\ MaxBuds - s.buds >= Cardinality(TooSoon(s.trunk, Nightleaf!Held(s.hands)))
      /\ (s.phase = "tier-cleared" => s.buds > 0)
  BY DEF NightleafSound
<1>2. ASSUME NEW won \in BOOLEAN, won <=> s.buds > 0, t = Nightleaf!Ended(s, won)
      PROVE  NightleafSound(t)
  <2>1. /\ DOMAIN t = DOMAIN s /\ t.tier = s.tier /\ t.buds = s.buds /\ t.hands = s.hands /\ t.trunk = s.trunk
        /\ t.phase = (IF won THEN "won" ELSE "lost") /\ t.over = TRUE /\ t.won = won
    BY <1>2 DEF Nightleaf!Ended, Nightleaf!Banner, NightleafSound, NightleafFields
  <2> QED
    BY <1>1, <1>2, <2>1 DEF NightleafSound
<1>3. ASSUME NEW to \in {"playing", "tier-cleared"}, s.buds > 0,
             t = [s EXCEPT !.phase = to] \/ t = Nightleaf!Banner(s, to)
      PROVE  NightleafSound(t)
  <2>1. /\ DOMAIN t = DOMAIN s /\ t.tier = s.tier /\ t.buds = s.buds /\ t.hands = s.hands /\ t.trunk = s.trunk
        /\ t.phase = to /\ t.over = s.over /\ t.won = s.won
    BY <1>3 DEF Nightleaf!Banner, NightleafSound, NightleafFields
  <2> QED
    BY <1>1, <1>3, <2>1 DEF NightleafSound
<1>4. CASE s.phase = "tier-cleared" /\ s.tier >= FinalTier
  <2>1. t = Nightleaf!Ended(s, TRUE)
    <3>1. s.phase # "misplay" /\ ~(s.tier < FinalTier)
      BY <1>1, <1>4, BanksAssumption
    <3>2. Nightleaf!BannerOver(s) = {Nightleaf!Ended(s, TRUE)}
      BY Zenon, <1>4, <3>1 DEF Nightleaf!BannerOver
    <3> QED
      BY <3>2
  <2> QED
    BY <1>1, <1>2, <1>4, <2>1
<1>5. CASE s.phase = "tier-cleared" /\ s.tier < FinalTier
  <2> DEFINE b == [s EXCEPT !.tier = @ + 1]
  <2>1. PICK deal \in Nightleaf!Deals(s.tier + 1) : t = Nightleaf!DealInto(b, deal)
    BY <1>5 DEF Nightleaf!BannerOver
  <2>2. DOMAIN b = DOMAIN s /\ b.tier = s.tier + 1 /\ b.buds = s.buds /\ b.over = s.over
    BY DEF NightleafSound, NightleafFields
  <2> HIDE DEF b
  <2>3. s.buds \in 1 .. MaxBuds
    <3>1. Cardinality(TooSoon(s.trunk, Nightleaf!Held(s.hands))) \in Nat
      BY <1>1, TooSoonIsFinite
    <3> QED
      BY <1>1, <1>5, <3>1, BanksAssumption
  <2>4. NightleafFields \subseteq DOMAIN b
    BY <2>2 DEF NightleafSound
  <2> QED
    BY <1>1, <2>1, <2>2, <2>3, <2>4, NightleafDeals
<1>6. CASE s.phase = "misplay" /\ s.buds <= 0
  <2>1. t = Nightleaf!Ended(s, FALSE)
    <3>1. s.phase # "tier-cleared" /\ ~(s.buds > 0)
      BY <1>1, <1>6
    <3>2. Nightleaf!BannerOver(s) = {Nightleaf!Ended(s, FALSE)}
      BY Zenon, <1>6, <3>1 DEF Nightleaf!BannerOver
    <3> QED
      BY <3>2
  <2>2. ~(s.buds > 0)
    BY <1>1, <1>6
  <2> QED
    BY <1>2, <2>1, <2>2
<1>7. CASE s.phase = "misplay" /\ s.buds > 0
  <2>1. t = Nightleaf!Banner(s, "tier-cleared") \/ t = [s EXCEPT !.phase = "playing"]
    <3>1. s.buds > 0 /\ ~(s.buds <= 0)
      BY <1>1, <1>7
    <3>2. Nightleaf!BannerOver(s) \in {{Nightleaf!Banner(s, "tier-cleared")}, {[s EXCEPT !.phase = "playing"]}}
      BY Zenon, <1>7, <3>1 DEF Nightleaf!BannerOver
    <3> QED
      BY <3>2
  <2> QED
    BY <1>3, <1>7, <2>1
<1>8. s.phase = "tier-cleared" => s.tier >= FinalTier \/ s.tier < FinalTier
  BY <1>1, BanksAssumption
<1> QED
  BY <1>1, <1>4, <1>5, <1>6, <1>7, <1>8

LEMMA NightleafTicks ==
  ASSUME NEW s, NightleafSound(s), NEW t \in Nightleaf!Tick(s)
  PROVE  NightleafSound(t)
<1> DEFINE c == [s EXCEPT !.phaseTicks = @ - 1]
<1>1. NightleafSound(c) /\ c.over = s.over /\ c.phase = s.phase
  <2>1. /\ DOMAIN c = DOMAIN s /\ c.tier = s.tier /\ c.buds = s.buds /\ c.hands = s.hands
        /\ c.trunk = s.trunk /\ c.phase = s.phase /\ c.over = s.over /\ c.won = s.won
    BY DEF NightleafSound, NightleafFields
  <2> HIDE DEF c
  <2> QED
    BY <2>1 DEF NightleafSound
<1>2. t = s \/ t = c \/ (~s.over /\ s.phase # "playing" /\ t \in Nightleaf!BannerOver(c))
  BY DEF Nightleaf!Tick
<1> HIDE DEF c
<1> QED
  BY <1>1, <1>2, NightleafBanners

\* What PositionsSound says of the trunk alone.
LEMMA NightleafPositions ==
  ASSUME game = "nightleaf", NightleafSound(scratch)
  PROVE  PositionsSound
<1> DEFINE falls == {i \in DOMAIN scratch.trunk : \E j \in DOMAIN scratch.trunk : j > i /\ scratch.trunk[j] < scratch.trunk[i]}
           soon == TooSoon(scratch.trunk, Nightleaf!Held(scratch.hands))
<1>1. falls \subseteq soon
  BY DEF TooSoon
<1>2. IsFiniteSet(soon) /\ Cardinality(soon) \in Nat
  BY TooSoonIsFinite DEF NightleafSound
<1>3. Cardinality(falls) <= Cardinality(soon) /\ Cardinality(falls) \in Nat
  BY <1>1, <1>2, FS_Subset, FS_CardinalityType
<1>4. Falls(scratch.trunk) = Cardinality(falls)
  BY DEF Falls
<1>5. MaxBuds - scratch.buds >= Cardinality(soon) /\ scratch.buds \in Int
  BY DEF NightleafSound
<1> HIDE DEF falls, soon
<1>6. MaxBuds - scratch.buds >= Falls(scratch.trunk)
  BY <1>2, <1>3, <1>4, <1>5, BanksAssumption
<1> QED
  BY <1>6 DEF PositionsSound, NightleafSound

--------------------------------------------------------------------------------
(* Checkers: every hop of a chain lands on a dark square, and a man that comes *)
(* to the far row is crowned.                                                  *)

Pairs == Int \X Int
DarkPairs == {sq \in Pairs : Checkers!IsDark(sq)}

LEMMA HopsStayDark ==
  ASSUME NEW sq \in DarkPairs, NEW d \in Checkers!Diagonal, NEW k \in {1, 2}
  PROVE  Checkers!Step(sq, d, k) \in DarkPairs
<1>1. d[1] \in {-1, 1} /\ d[2] \in {-1, 1}
  BY DEF Checkers!Diagonal
<1>2. PICK r \in Int, c \in Int : sq = <<r, c>> /\ (r + c) % 2 = 1
  BY DEF DarkPairs, Pairs, Checkers!IsDark
<1>3. PICK a \in {-1, 1}, b \in {-1, 1} : d[1] = a /\ d[2] = b
  BY <1>1
<1>4. Checkers!Step(sq, d, k) = <<r + k * a, c + k * b>> /\ r + k * a \in Int /\ c + k * b \in Int
  BY <1>2, <1>3 DEF Checkers!Step
<1>5. (r + k * a + (c + k * b)) % 2 = 1
  BY <1>2
<1> QED
  BY <1>4, <1>5 DEF DarkPairs, Pairs, Checkers!IsDark

LEMMA StepsAreDiagonal ==
  ASSUME NEW piece
  PROVE  Checkers!StepsFor(piece) \subseteq Checkers!Diagonal
  BY DEF Checkers!StepsFor, Checkers!ForwardSteps

\* A chain on its way: where it is, and that it says so.
Underway(c) ==
    /\ c.at \in DarkPairs
    /\ c.path \in Seq(DarkPairs)
    /\ c.path # <<>> => c.path[Len(c.path)] = c.at

LEMMA HopsGoOn ==
  ASSUME NEW chains, \A c \in chains : Underway(c), NEW piece, NEW e \in Checkers!Extended(chains, piece)
  PROVE  Underway(e)
<1>1. PICK c \in chains :
         e \in IF Checkers!Onward(c, piece) = {} THEN {c} ELSE {Checkers!Hop(c, d, piece) : d \in Checkers!Onward(c, piece)}
  BY Zenon DEF Checkers!Extended
<1>2. CASE e = c
  BY <1>2
<1>3. CASE \E d \in Checkers!Onward(c, piece) : e = Checkers!Hop(c, d, piece)
  <2>1. PICK d \in Checkers!Onward(c, piece) : e = Checkers!Hop(c, d, piece)
    BY <1>3
  <2>2. d \in Checkers!Diagonal
    BY StepsAreDiagonal DEF Checkers!Onward, Checkers!HopsFrom
  <2> DEFINE to == Checkers!Step(c.at, d, 2)
  <2>3. to \in DarkPairs
    BY <2>2, HopsStayDark DEF Underway
  <2>4. e.at = to /\ e.path = Append(c.path, to)
    BY <2>1 DEF Checkers!Hop
  <2> HIDE DEF to
  <2>5. c.path \in Seq(DarkPairs)
    BY DEF Underway
  <2>6. e.path \in Seq(DarkPairs) /\ e.path[Len(e.path)] = to
    BY <2>3, <2>4, <2>5
  <2> QED
    BY <2>3, <2>4, <2>6 DEF Underway
<1> QED
  BY <1>1, <1>2, <1>3

\* The chains by their length, as JumpPaths builds them.
ChainsUpTo(f, n, start, piece) ==
    f = [k \in 0 .. n |-> IF k = 0 THEN start ELSE Checkers!Extended(f[k - 1], piece)]

LEMMA ChainsAreBuilt ==
  ASSUME NEW n \in Nat, NEW start, NEW piece
  PROVE  \E f : ChainsUpTo(f, n, start, piece)
<1> DEFINE I == {k \in 0 .. n : \E f : ChainsUpTo(f, k, start, piece)}
<1>1. 0 \in I
  <2> DEFINE g == [k \in 0 .. 0 |-> start]
  <2>1. ChainsUpTo(g, 0, start, piece)
    BY DEF ChainsUpTo
  <2> HIDE DEF g
  <2> QED
    BY <2>1
<1>2. ASSUME NEW k \in 1 .. n, k - 1 \in I PROVE k \in I
  <2>1. PICK f : ChainsUpTo(f, k - 1, start, piece)
    BY <1>2
  <2> DEFINE g == [j \in 0 .. k |-> IF j = k THEN Checkers!Extended(f[k - 1], piece) ELSE f[j]]
  <2>2. ASSUME NEW j \in 0 .. k
        PROVE  g[j] = IF j = 0 THEN start ELSE Checkers!Extended(g[j - 1], piece)
    <3>1. CASE j = k
      <4>1. g[j] = Checkers!Extended(f[k - 1], piece) /\ g[k - 1] = f[k - 1] /\ j # 0
        BY <3>1
      <4> QED
        BY <3>1, <4>1
    <3>2. CASE j # k
      <4>1. j \in 0 .. k - 1
        BY <3>2
      <4>2. f[j] = IF j = 0 THEN start ELSE Checkers!Extended(f[j - 1], piece)
        BY <2>1, <4>1 DEF ChainsUpTo
      <4>3. g[j] = f[j] /\ (j # 0 => g[j - 1] = f[j - 1])
        BY <3>2, <4>1
      <4> QED
        BY <4>2, <4>3
    <3> QED
      BY <3>1, <3>2
  <2>3. ChainsUpTo(g, k, start, piece)
    <3>1. g = [j \in 0 .. k |-> g[j]]
      OBVIOUS
    <3> HIDE DEF g
    <3> QED
      BY <2>2, <3>1 DEF ChainsUpTo
  <2>4. \E h : ChainsUpTo(h, k, start, piece)
    <3> HIDE DEF g
    <3> QED
      BY <2>3
  <2> QED
    BY <2>4
<1>3. n \in I
  <2>1. \A k \in 0 .. n : k \in I
    <3> HIDE DEF I
    <3> QED
      BY <1>1, <1>2, Upward
  <2> QED
    BY <2>1
<1> QED
  BY <1>3

LEMMA ChainsLand ==
  ASSUME NEW n \in Nat, NEW start, NEW piece, NEW f, ChainsUpTo(f, n, start, piece), \A c \in start : Underway(c)
  PROVE  \A c \in f[n] : Underway(c)
<1> DEFINE I == {k \in 0 .. n : \A c \in f[k] : Underway(c)}
<1>1. 0 \in I
  <2>1. f[0] = start
    BY DEF ChainsUpTo
  <2> QED
    BY <2>1
<1>2. ASSUME NEW k \in 1 .. n, k - 1 \in I PROVE k \in I
  <2>1. f[k] = Checkers!Extended(f[k - 1], piece)
    BY DEF ChainsUpTo
  <2>2. \A c \in f[k - 1] : Underway(c)
    BY <1>2
  <2>3. \A c \in f[k] : Underway(c)
    BY <2>1, <2>2, HopsGoOn
  <2> QED
    BY <2>3
<1>3. \A k \in 0 .. n : k \in I
  <2> HIDE DEF I
  <2> QED
    BY <1>1, <1>2, Upward
<1> QED
  BY <1>3

LEMMA BoardIsFinite ==
  ASSUME NEW size \in Nat
  PROVE  IsFiniteSet(Checkers!Squares(size))
<1>1. IsFiniteSet(0 .. size - 1)
  BY FS_Interval
<1> QED
  BY <1>1, FS_Product DEF Checkers!Squares

\* Every square of a jump is dark, and there is at least one.
LEMMA JumpsLand ==
  ASSUME NEW board, DOMAIN board = Checkers!Squares(CheckersSize), NEW at \in DarkPairs, NEW piece,
         NEW path \in Checkers!JumpPaths(board, at, piece)
  PROVE  path \in Seq(DarkPairs)
<1> DEFINE men == Checkers!Mine(board, Checkers!OtherSide(piece.side))
           last == Cardinality(men)
           start == {[board |-> board, at |-> at, path |-> <<>>]}
           built == CHOOSE f : ChainsUpTo(f, last, start, piece)
<1>1. last \in Nat
  <2>1. IsFiniteSet(men)
    <3>1. men \subseteq Checkers!Squares(CheckersSize)
      BY DEF Checkers!Mine
    <3> HIDE DEF men
    <3> QED
      BY <3>1, BoardIsFinite, FS_Subset, OpeningsAssumption
  <2> HIDE DEF men
  <2> QED
    BY <2>1, FS_CardinalityType
<1>2. \A c \in start : Underway(c)
  <2>1. \A c \in start : c.at = at /\ c.path = <<>>
    OBVIOUS
  <2>2. <<>> \in Seq(DarkPairs)
    OBVIOUS
  <2> HIDE DEF start
  <2> QED
    BY Zenon, <2>1, <2>2 DEF Underway
<1> HIDE DEF men, start
<1>3. ChainsUpTo(built, last, start, piece)
  BY <1>1, ChainsAreBuilt
<1>4. \A c \in built[last] : Underway(c)
  <2> HIDE DEF built, last
  <2> QED
    BY <1>1, <1>2, <1>3, ChainsLand
<1>5. Checkers!JumpPaths(board, at, piece) = {c.path : c \in built[last]}
  <2>1. Checkers!Cardinality(men) = last
    BY Zenon DEF Checkers!Cardinality, Cardinality
  <2> HIDE DEF last
  <2> QED
    BY Zenon, <2>1 DEF Checkers!JumpPaths, ChainsUpTo, men, start
<1> HIDE DEF built, last
<1>6. PICK c \in built[last] : path = c.path
  BY <1>5
<1> QED
  BY <1>4, <1>6 DEF Underway

DraughtsSound(s) == DraughtsPosition(s)

\* What a legal move is: from a man of one's own, over dark squares.
LEMMA DraughtsAreLegal ==
  ASSUME NEW board, NEW side, DOMAIN board = Checkers!Squares(CheckersSize),
         \A sq \in DOMAIN board : board[sq] # Empty => Checkers!IsDark(sq),
         NEW m \in Checkers!LegalMoves(board, side)
  PROVE  m.from \in DOMAIN board /\ m.path \in Seq(DarkPairs) /\ m.path # <<>>
<1>1. ASSUME NEW sq \in Checkers!Mine(board, side)
      PROVE  sq \in DarkPairs /\ sq \in DOMAIN board
  <2>1. sq \in DOMAIN board /\ board[sq] # Empty
    BY DEF Checkers!Mine, Checkers!Belongs
  <2>2. sq \in Pairs
    BY <2>1, OpeningsAssumption DEF Checkers!Squares, Pairs
  <2> QED
    BY <2>1, <2>2 DEF DarkPairs
<1>2. CASE m \in Checkers!Captures(board, side)
  <2>1. PICK sq \in Checkers!Mine(board, side) :
          \E path \in Checkers!JumpPaths(board, sq, board[sq]) \ {<<>>} : m = [from |-> sq, path |-> path]
    BY <1>2 DEF Checkers!Captures
  <2> QED
    BY <1>1, <2>1, JumpsLand
<1>3. CASE m \in Checkers!Walks(board, side)
  <2>1. PICK sq \in Checkers!Mine(board, side) : \E d \in Checkers!StepsFor(board[sq]) :
          m = [from |-> sq, path |-> <<Checkers!Step(sq, d, 1)>>]
    BY <1>3 DEF Checkers!Walks
  <2>2. PICK d \in Checkers!StepsFor(board[sq]) : m = [from |-> sq, path |-> <<Checkers!Step(sq, d, 1)>>]
    BY <2>1
  <2>3. Checkers!Step(sq, d, 1) \in DarkPairs
    BY <1>1, StepsAreDiagonal, HopsStayDark
  <2> QED
    BY <1>1, <2>2, <2>3
<1> QED
  BY <1>2, <1>3 DEF Checkers!LegalMoves

LEMMA DraughtsMoves ==
  ASSUME NEW s, DraughtsSound(s), NEW p, NEW m
  PROVE  DraughtsSound(Checkers!CollectMove(s, p, m))
<1> DEFINE r == Checkers!CollectMove(s, p, m)
<1>1. CASE s.over \/ p # s.turn \/ m \notin Checkers!LegalMoves(s.cells, s.turn)
  BY <1>1 DEF Checkers!CollectMove
<1>2. CASE ~(s.over \/ p # s.turn \/ m \notin Checkers!LegalMoves(s.cells, s.turn))
  <2> DEFINE last == m.path[Len(m.path)]
             gone == {m.from} \cup Checkers!Jumped(m)
             crowned == s.cells[m.from].king \/ \E i \in 1 .. Len(m.path) : m.path[i][1] = Checkers!CrownRow(s.turn)
             piece == [side |-> s.turn, king |-> crowned]
  <2>1. r.cells = [Checkers!Placed(s.cells, gone, Empty) EXCEPT ![last] = piece]
    BY <1>2 DEF Checkers!CollectMove, Checkers!ApplyMove
  <2>2. m.path \in Seq(DarkPairs) /\ m.path # <<>>
    BY <1>2, DraughtsAreLegal DEF DraughtsSound, DraughtsPosition
  <2>3. Len(m.path) \in 1 .. Len(m.path) /\ last \in DarkPairs
    BY <2>2
  <2>4. ~Checkers!Crowns(piece, last[1])
    <3>1. last[1] = Checkers!CrownRow(s.turn) => crowned
      BY <2>3
    <3> HIDE DEF crowned
    <3> QED
      BY <3>1 DEF Checkers!Crowns
  <2> HIDE DEF piece, last, gone
  <2>5. /\ DOMAIN r.cells = DOMAIN s.cells
        /\ \A sq \in DOMAIN s.cells : \/ sq = last /\ r.cells[sq] = piece
                                      \/ r.cells[sq] \in {Empty, s.cells[sq]}
    BY <2>1 DEF Checkers!Placed
  <2>6. DraughtsSound(r)
    <3> HIDE DEF r
    <3> QED
      BY <2>3, <2>4, <2>5 DEF DraughtsSound, DraughtsPosition, DarkPairs
  <2> QED
    BY <2>6
<1> QED
  BY <1>1, <1>2

LEMMA DraughtsPositions ==
  ASSUME game = "checkers", DraughtsSound(scratch)
  PROVE  PositionsSound
<1> DEFINE cells == scratch.cells
           side == scratch.turn
<1>1. ASSUME Checkers!TurnPopup(scratch, Checkers!Legal(scratch), side) = "your turn - you must jump"
      PROVE  Checkers!Captures(cells, side) # {}
  <2>1. Checkers!HasMandatoryCapture(Checkers!Legal(scratch)) /\ ~scratch.over
    BY <1>1 DEF Checkers!TurnPopup, Checkers!IsActive
  <2>2. PICK m \in Checkers!LegalMoves(cells, side) : Head(m.path)[1] - m.from[1] \in {-2, 2}
    BY <2>1 DEF Checkers!HasMandatoryCapture, Checkers!Legal
  <2>3. ASSUME m \in Checkers!Walks(cells, side) PROVE FALSE
    <3>0. PICK sq \in Checkers!Mine(cells, side) : \E d \in Checkers!StepsFor(cells[sq]) :
            m = [from |-> sq, path |-> <<Checkers!Step(sq, d, 1)>>]
      BY <2>3 DEF Checkers!Walks
    <3>1. PICK d \in Checkers!StepsFor(cells[sq]) : m = [from |-> sq, path |-> <<Checkers!Step(sq, d, 1)>>]
      BY <3>0
    <3>2. d[1] \in {-1, 1}
      BY <3>1, StepsAreDiagonal DEF Checkers!Diagonal
    <3>3. sq[1] \in Int
      BY OpeningsAssumption DEF DraughtsSound, DraughtsPosition, Checkers!Mine, Checkers!Squares
    <3>4. Head(m.path)[1] - m.from[1] = (sq[1] + 1 * d[1]) - sq[1]
      BY <3>1 DEF Checkers!Step
    <3> QED
      BY <2>2, <3>2, <3>3, <3>4
  <2> QED
    BY <2>3 DEF Checkers!LegalMoves
<1> QED
  BY <1>1 DEF PositionsSound, DraughtsSound, DraughtsPosition

--------------------------------------------------------------------------------
(* Chess: the geometry of moves and attacks.                                  *)

Colors == {"white", "black"}
Types == {"K", "Q", "R", "B", "N", "P"}
Board == [Chess!Squares(8) -> ChessMen \cup {Empty}]
Opposite(d) == <<-d[1], -d[2]>>

LEMMA TwoColors ==
  ASSUME NEW color \in Colors
  PROVE  /\ Chess!OtherColor(color) \in Colors /\ Chess!OtherColor(color) # color
         /\ Chess!OtherColor(Chess!OtherColor(color)) = color
  BY DEF Colors, Chess!OtherColor, Chess!White, Chess!Black

LEMMA SquaresArePairs ==
  /\ \A sq \in Chess!Squares(8) : \E r, c \in 0 .. 7 : sq = <<r, c>>
  /\ \A r, c \in 0 .. 7 : <<r, c>> \in Chess!Squares(8)
  /\ \A r, c : <<r, c>> \in Chess!Squares(8) => r \in 0 .. 7 /\ c \in 0 .. 7
  BY DEF Chess!Squares

\* A square is empty or holds one man of one color.
LEMMA CellsHold ==
  ASSUME NEW board \in Board, NEW sq \in DOMAIN board
  PROVE  /\ board[sq] = Empty \/ \E color \in Colors, type \in Types : board[sq] = <<color, type>>
         /\ \A color \in Colors, type \in Types : board[sq] = <<color, type>> => board[sq] # Empty
         /\ \A color : Chess!ColorAt(board, sq, color) <=> color \in Colors /\ \E type \in Types : board[sq] = <<color, type>>
<1>1. board[sq] \in ChessMen \cup {Empty}
  BY DEF Board
<1>2. \A man \in ChessMen : \E color \in Colors, type \in Types : man = <<color, type>>
  BY DEF ChessMen, Colors, Types, Chess!White, Chess!Black
<1>3. \A color \in Colors, type \in Types : <<color, type>> \in ChessMen
  BY DEF ChessMen, Colors, Types, Chess!White, Chess!Black
<1>4. Empty \notin ChessMen
  BY OpeningsAssumption
<1>5. \A color \in Colors, type \in Types : board[sq] = <<color, type>> => board[sq] # Empty
  BY <1>3, <1>4
<1> QED
  BY <1>1, <1>2, <1>5 DEF Chess!ColorAt

LEMMA StepBack ==
  ASSUME NEW sq \in Pairs, NEW d \in Pairs, NEW k \in Int, NEW j \in Int
  PROVE  /\ Chess!Step(sq, d, k) \in Pairs /\ Opposite(d) \in Pairs
         /\ Chess!Step(Chess!Step(sq, d, k), Opposite(d), j) = Chess!Step(sq, d, k - j)
         /\ Chess!Step(sq, d, 0) = sq
<1>1. PICK r \in Int, c \in Int : sq = <<r, c>>
  BY DEF Pairs
<1>2. PICK a \in Int, b \in Int : d = <<a, b>>
  BY DEF Pairs
<1>3. /\ k * a \in Int /\ k * b \in Int /\ 0 * a = 0 /\ 0 * b = 0
      /\ (r + k * a) + j * (-a) = r + (k - j) * a /\ (c + k * b) + j * (-b) = c + (k - j) * b
  OBVIOUS
<1> QED
  BY <1>1, <1>2, <1>3 DEF Chess!Step, Opposite, Pairs

LEMMA ThereAndBack ==
  ASSUME NEW sq \in Pairs, NEW d \in Pairs, NEW k \in Int
  PROVE  Chess!Step(Chess!Step(sq, d, k), Opposite(d), k) = sq
<1>1. \A j \in Int : Chess!Step(Chess!Step(sq, d, k), Opposite(d), j) = Chess!Step(sq, d, k - j)
  BY StepBack
<1>2. Chess!Step(sq, d, 0) = sq
  BY StepBack
<1>3. k - k = 0
  OBVIOUS
<1>4. Chess!Step(Chess!Step(sq, d, k), Opposite(d), k) = Chess!Step(sq, d, k - k)
  BY Zenon, <1>1
<1> QED
  BY <1>2, <1>3, <1>4

LEMMA DirectionsTurn ==
  /\ Chess!Diagonal \subseteq Pairs /\ Chess!Orthogonal \subseteq Pairs /\ Chess!KnightSteps \subseteq Pairs
  /\ \A d \in Chess!Diagonal : Opposite(d) \in Chess!Diagonal
  /\ \A d \in Chess!Orthogonal : Opposite(d) \in Chess!Orthogonal
  /\ \A d \in Chess!KnightSteps : Opposite(d) \in Chess!KnightSteps
<1>1. Chess!Diagonal \subseteq Pairs /\ Chess!Orthogonal \subseteq Pairs
  BY DEF Chess!Diagonal, Chess!Orthogonal, Pairs
<1>2. \A d \in Chess!Diagonal : Opposite(d) \in Chess!Diagonal
  BY DEF Chess!Diagonal, Opposite
<1>3. \A d \in Chess!Orthogonal : Opposite(d) \in Chess!Orthogonal
  BY DEF Chess!Orthogonal, Opposite
<1>4. ASSUME NEW d \in Chess!KnightSteps
      PROVE  d \in Pairs /\ Opposite(d) \in Chess!KnightSteps
  <2>1. PICK a \in -2 .. 2, b \in -2 .. 2 : d = <<a, b>> /\ a * a + b * b = 5
    BY DEF Chess!KnightSteps
  <2>2. /\ -a \in -2 .. 2 /\ -b \in -2 .. 2 /\ (-a) * (-a) = a * a /\ (-b) * (-b) = b * b
    OBVIOUS
  <2> QED
    BY <2>1, <2>2 DEF Chess!KnightSteps, Opposite, Pairs
<1> QED
  BY <1>1, <1>2, <1>3, <1>4

\* The nearest step in a direction that counts squares is one of it.
LEMMA NoneBetween ==
  ASSUME NEW board, NEW sq, NEW d
  PROVE  Chess!EmptyBetween(board, sq, d, 1)
  BY DEF Chess!EmptyBetween

\* What a man of the line can go to, it attacks.
LEMMA LinesAttack ==
  ASSUME NEW board, NEW from \in Pairs, NEW d \in Pairs, NEW k \in 1 .. 7,
         NEW color, NEW type, Chess!Holds(board, from, <<color, type>>), Chess!EmptyBetween(board, from, d, k),
         NEW types, type \in types
  PROVE  Chess!RayAttacks(board, Chess!Step(from, d, k), Opposite(d), color, types)
<1> DEFINE to == Chess!Step(from, d, k)
<1>1. Chess!Step(to, Opposite(d), k) = from
  BY ThereAndBack
<1>2. Chess!EmptyBetween(board, to, Opposite(d), k)
  <2> SUFFICES ASSUME NEW j \in 1 .. k - 1 PROVE Chess!Holds(board, Chess!Step(to, Opposite(d), j), Empty)
    BY DEF Chess!EmptyBetween
  <2>1. Chess!Step(to, Opposite(d), j) = Chess!Step(from, d, k - j)
    BY StepBack
  <2>2. k - j \in 1 .. k - 1
    OBVIOUS
  <2> QED
    BY <2>1, <2>2 DEF Chess!EmptyBetween
<1>3. \E t \in types : Chess!Holds(board, Chess!Step(to, Opposite(d), k), <<color, t>>)
  BY <1>1
<1>4. k \in 1 .. Chess!BoardSize - 1
  BY DEF Chess!BoardSize
<1> HIDE DEF to
<1> QED
  BY <1>2, <1>3, <1>4 DEF Chess!RayAttacks, to

LEMMA StepsArrive ==
  ASSUME NEW board \in Board, NEW from \in Chess!Squares(8), NEW color \in Colors, NEW type \in {"N", "K"}, NEW steps,
         board[from] = <<color, type>>, steps = (IF type = "N" THEN Chess!KnightSteps ELSE Chess!AllDirections),
         NEW m \in Chess!StepMoves(board, from, color, steps)
  PROVE  /\ m.from = from /\ m.promotion = "none"
         /\ m.to \in Chess!Squares(8) /\ ~Chess!ColorAt(board, m.to, color)
         /\ Chess!IsSquareAttacked(board, m.to, color)
         /\ \E d \in steps : m.to = Chess!Step(from, d, 1)
<1>1. PICK d \in steps : /\ m.from = from /\ m.promotion = "none" /\ m.to = Chess!Step(from, d, 1)
                         /\ m.to \in DOMAIN board /\ ~Chess!ColorAt(board, m.to, color)
  BY DEF Chess!StepMoves, Chess!Quiet
<1>2. DOMAIN board = Chess!Squares(8) /\ from \in Pairs
  BY DEF Board, Chess!Squares, Pairs
<1>3. d \in Pairs /\ Opposite(d) \in steps
  BY DirectionsTurn DEF Chess!AllDirections
<1>4. Chess!Step(m.to, Opposite(d), 1) = from
  BY <1>1, <1>2, <1>3, ThereAndBack
<1>5. Chess!Holds(board, Chess!Step(m.to, Opposite(d), 1), <<color, type>>)
  BY <1>2, <1>4 DEF Chess!Holds
<1>6. Chess!IsSquareAttacked(board, m.to, color)
  <2>1. CASE type = "N"
    BY Zenon, <1>3, <1>5, <2>1 DEF Chess!IsSquareAttacked
  <2>2. CASE type = "K"
    <3>1. steps = Chess!AllDirections
      BY <2>2
    <3> QED
      BY Zenon, <1>3, <1>5, <2>2, <3>1 DEF Chess!IsSquareAttacked
  <2> QED
    BY <2>1, <2>2
<1> QED
  BY <1>1, <1>2, <1>6

\* The lines each piece moves along.
LinesOf(type) ==
    CASE type = "B" -> Chess!Diagonal
      [] type = "R" -> Chess!Orthogonal
      [] OTHER      -> Chess!AllDirections

LEMMA SlidesArrive ==
  ASSUME NEW board \in Board, NEW from \in Chess!Squares(8), NEW color \in Colors, NEW type \in {"B", "R", "Q"},
         board[from] = <<color, type>>,
         NEW m \in Chess!SlideMoves(board, from, color, LinesOf(type))
  PROVE  /\ m.from = from /\ m.promotion = "none"
         /\ m.to \in Chess!Squares(8) /\ ~Chess!ColorAt(board, m.to, color)
         /\ Chess!IsSquareAttacked(board, m.to, color)
<1>1. /\ m.from = from /\ m.promotion = "none"
      /\ m.to \in UNION {{Chess!Step(from, d, k) : k \in {j \in 1 .. Chess!BoardSize - 1 :
                            /\ Chess!Step(from, d, j) \in DOMAIN board
                            /\ ~Chess!ColorAt(board, Chess!Step(from, d, j), color)
                            /\ Chess!EmptyBetween(board, from, d, j)}} : d \in LinesOf(type)}
  BY DEF Chess!SlideMoves, Chess!Quiet
<1>2. PICK d \in LinesOf(type) :
         \E k \in 1 .. Chess!BoardSize - 1 : /\ m.to = Chess!Step(from, d, k) /\ m.to \in DOMAIN board
                                             /\ ~Chess!ColorAt(board, m.to, color) /\ Chess!EmptyBetween(board, from, d, k)
  BY <1>1
<1>3. PICK k \in 1 .. 7 : /\ m.to = Chess!Step(from, d, k) /\ m.to \in DOMAIN board
                          /\ ~Chess!ColorAt(board, m.to, color) /\ Chess!EmptyBetween(board, from, d, k)
  BY <1>2 DEF Chess!BoardSize
<1>4. DOMAIN board = Chess!Squares(8) /\ from \in Pairs
  BY DEF Board, Chess!Squares, Pairs
<1>5. d \in Pairs
  BY DirectionsTurn DEF LinesOf, Chess!AllDirections
<1>6. \A types : type \in types => Chess!RayAttacks(board, m.to, Opposite(d), color, types)
  <2>1. Chess!Holds(board, from, <<color, type>>)
    BY <1>4 DEF Chess!Holds
  <2> QED
    BY <1>3, <1>4, <1>5, <2>1, LinesAttack
<1>7. \/ type \in {"R", "Q"} /\ Opposite(d) \in Chess!Orthogonal
      \/ type \in {"B", "Q"} /\ Opposite(d) \in Chess!Diagonal
  BY DirectionsTurn DEF LinesOf, Chess!AllDirections
<1>8. Chess!IsSquareAttacked(board, m.to, color)
  BY Zenon, <1>6, <1>7 DEF Chess!IsSquareAttacked
<1> QED
  BY <1>1, <1>3, <1>4, <1>8

\* A pawn advances, leaps from where it starts, takes, or takes in passing.
PawnGoes(pos, r, c, color, m) ==
    LET pd == Chess!PawnDir(color)
        sides == {<<r + pd, c - 1>>, <<r + pd, c + 1>>}
        arrived == IF m.to[1] = Chess!PromotionRow(color) THEN m.promotion \in {"Q", "R", "B", "N"} ELSE m.promotion = "none"
    IN  /\ m.from = <<r, c>> /\ m.to \in Chess!Squares(8)
        /\ \/ m.to = <<r + pd, c>> /\ pos.cells[m.to] = Empty /\ arrived
           \/ /\ m.to = <<r + 2 * pd, c>> /\ pos.cells[m.to] = Empty /\ m.promotion = "none"
              /\ r = Chess!PawnStartRow(color) /\ pos.cells[<<r + pd, c>>] = Empty
           \/ m.to \in sides /\ Chess!ColorAt(pos.cells, m.to, Chess!OtherColor(color)) /\ arrived
           \/ m.to \in sides /\ m.to = pos.enPassant /\ pos.cells[m.to] = Empty /\ m.promotion = "none"

LEMMA PawnsArrive ==
  ASSUME NEW pos, pos.cells \in Board, NEW r \in 0 .. 7, NEW c \in 0 .. 7, NEW color \in Colors,
         pos.cells[<<r, c>>] = <<color, "P">>,
         NEW m \in Chess!PawnMoves(pos, <<r, c>>, color)
  PROVE  PawnGoes(pos, r, c, color, m)
<1> DEFINE from == <<r, c>>
           pd == Chess!PawnDir(color)
           cells == pos.cells
           sides == {<<r + pd, c - 1>>, <<r + pd, c + 1>>}
           one == <<r + pd, c>>
           two == <<r + 2 * pd, c>>
           advances == {one} \cap {sq \in DOMAIN cells : cells[sq] = Empty}
           takes == {sq \in sides : Chess!ColorAt(cells, sq, Chess!OtherColor(color))}
           passes == {sq \in sides : sq = pos.enPassant /\ Chess!Holds(cells, sq, Empty)}
           leaps == {sq \in {two} : /\ advances # {} /\ r = Chess!PawnStartRow(color)
                                    /\ Chess!Holds(cells, sq, Empty)}
<1>1. pd \in {-1, 1} /\ DOMAIN cells = Chess!Squares(8)
  BY DEF Chess!PawnDir, Board
<1>2. /\ Chess!Step(from, <<pd, 0>>, 1) = one /\ Chess!Step(from, <<pd, 0>>, 2) = two
      /\ {Chess!Step(from, <<pd, dc>>, 1) : dc \in {-1, 1}} = sides
  <2> HIDE DEF pd
  <2>1. 1 * pd = pd /\ 1 * 0 = 0 /\ 2 * 0 = 0 /\ c + 0 = c /\ c + 1 * (-1) = c - 1 /\ c + 1 * 1 = c + 1
    BY <1>1
  <2>2. /\ Chess!Step(from, <<pd, -1>>, 1) = <<r + pd, c - 1>> /\ Chess!Step(from, <<pd, 1>>, 1) = <<r + pd, c + 1>>
        /\ Chess!Step(from, <<pd, 0>>, 1) = one /\ Chess!Step(from, <<pd, 0>>, 2) = two
    BY <1>1, <2>1 DEF Chess!Step
  <2> QED
    BY <2>2
<1>3. Chess!PawnMoves(pos, from, color) = Chess!PawnArrives(from, advances \cup takes, color) \cup Chess!Quiet(from, leaps \cup passes)
  <2>1. from[1] = r
    OBVIOUS
  <2> HIDE DEF one, two, sides
  <2> QED
    BY Zenon, <1>2, <2>1 DEF Chess!PawnMoves
<1>4. m \in Chess!PawnArrives(from, advances \cup takes, color) \/ m \in Chess!Quiet(from, leaps \cup passes)
  BY <1>3
<1> HIDE DEF from, one, two, sides, pd
<1>5. CASE m \in Chess!PawnArrives(from, advances \cup takes, color)
  <2>1. /\ m.from = from /\ m.to \in advances \cup takes
        /\ IF m.to[1] = Chess!PromotionRow(color) THEN m.promotion \in {"Q", "R", "B", "N"} ELSE m.promotion = "none"
    <3> HIDE DEF advances, takes
    <3> QED
      BY <1>5 DEF Chess!PawnArrives, Chess!Quiet
  <2>2. m.to \in DOMAIN cells
    BY <2>1 DEF Chess!ColorAt
  <2> QED
    BY <1>1, <2>1, <2>2 DEF PawnGoes, from, one, sides, pd
<1>6. CASE m \in Chess!Quiet(from, leaps \cup passes)
  <2>1. m.from = from /\ m.to \in leaps \cup passes /\ m.promotion = "none"
    <3> HIDE DEF leaps, passes
    <3> QED
      BY <1>6 DEF Chess!Quiet
  <2>2. m.to \in DOMAIN cells /\ cells[m.to] = Empty
    BY <2>1 DEF Chess!Holds
  <2> QED
    BY <1>1, <2>1, <2>2 DEF PawnGoes, from, one, two, sides, pd
<1> QED
  BY <1>4, <1>5, <1>6

\* What a pawn may take it attacks.
LEMMA PawnsAttack ==
  ASSUME NEW board, NEW r \in 0 .. 7, NEW c \in 0 .. 7, NEW color \in Colors,
         Chess!Holds(board, <<r, c>>, <<color, "P">>),
         NEW to \in {<<r + Chess!PawnDir(color), c - 1>>, <<r + Chess!PawnDir(color), c + 1>>}
  PROVE  Chess!IsSquareAttacked(board, to, color)
<1> DEFINE pd == Chess!PawnDir(color)
<1>1. pd \in Int
  BY DEF Chess!PawnDir
<1>2. PICK dc \in {-1, 1} : <<to[1] - pd, to[2] + dc>> = <<r, c>>
  <2> HIDE DEF pd
  <2>1. CASE to = <<r + pd, c - 1>>
    <3>1. to[1] - pd = r /\ to[2] + 1 = c
      BY <1>1, <2>1
    <3> QED
      BY <3>1
  <2>2. CASE to = <<r + pd, c + 1>>
    <3>1. to[1] - pd = r /\ to[2] + (-1) = c
      BY <1>1, <2>2
    <3> QED
      BY <3>1
  <2> QED
    BY <2>1, <2>2 DEF pd
<1>3. Chess!Holds(board, <<to[1] - pd, to[2] + dc>>, <<color, "P">>)
  BY <1>2
<1> QED
  BY Zenon, <1>3 DEF Chess!IsSquareAttacked

\* A king castles over empty squares, with a rook of its own at home.
Castled(cells, row, color, m) ==
    /\ m.from = <<row, 4>> /\ m.promotion = "none"
    /\ \/ /\ m.to = <<row, 6>> /\ cells[<<row, 7>>] = <<color, "R">>
          /\ cells[<<row, 5>>] = Empty /\ cells[<<row, 6>>] = Empty
       \/ /\ m.to = <<row, 2>> /\ cells[<<row, 0>>] = <<color, "R">>
          /\ cells[<<row, 3>>] = Empty /\ cells[<<row, 2>>] = Empty

LEMMA CastlesArrive ==
  ASSUME NEW pos, NEW from, NEW color, NEW m \in Chess!Castles(pos, from, color)
  PROVE  Castled(pos.cells, Chess!BackRow(color), color, m) /\ m.from = from
<1> DEFINE row == Chess!BackRow(color)
           safe(cols) == \A c \in cols : ~Chess!IsSquareAttacked(pos.cells, <<row, c>>, Chess!OtherColor(color))
           free(cols) == \A c \in cols : pos.cells[<<row, c>>] = Empty
           may(side, rookCol) == <<color, side>> \in pos.castling /\ pos.cells[<<row, rookCol>>] = <<color, "R">>
           kings == IF may("K", 7) /\ free({5, 6}) /\ safe({5, 6}) THEN {<<row, 6>>} ELSE {}
           queens == IF may("Q", 0) /\ free({1, 2, 3}) /\ safe({2, 3}) THEN {<<row, 2>>} ELSE {}
<1>1. from = <<row, 4>> /\ m \in Chess!Quiet(from, kings \cup queens)
  BY Zenon DEF Chess!Castles
<1>2. m.from = from /\ m.promotion = "none" /\ m.to \in kings \cup queens
  <2> HIDE DEF kings, queens
  <2> QED
    BY <1>1 DEF Chess!Quiet
<1> HIDE DEF row, safe
<1>3. \/ m.to = <<row, 6>> /\ may("K", 7) /\ free({5, 6})
      \/ m.to = <<row, 2>> /\ may("Q", 0) /\ free({1, 2, 3})
  <2> HIDE DEF may, free
  <2> QED
    BY <1>2
<1> QED
  BY <1>1, <1>2, <1>3 DEF Castled, row

--------------------------------------------------------------------------------
(* Chess: what a move leaves on the board.                                    *)

LEMMA OneKing ==
  ASSUME NEW board \in Board, NEW color
  PROVE  Cardinality(Chess!Kings(board, color)) = 1 <=> \E k \in Chess!Squares(8) : Chess!Kings(board, color) = {k}
<1>1. Chess!Kings(board, color) \subseteq Chess!Squares(8)
  BY DEF Chess!Kings, Board
<1>2. IsFiniteSet(Chess!Squares(8))
  <2>1. IsFiniteSet(0 .. 7)
    <3>1. \A k \in Nat : IsFiniteSet(0 .. k)
      BY FS_Interval
    <3> QED
      BY <3>1
  <2>2. Chess!Squares(8) = (0 .. 7) \X (0 .. 7)
    BY DEF Chess!Squares
  <2> QED
    BY <2>1, <2>2, FS_Product
<1>3. IsFiniteSet(Chess!Kings(board, color))
  BY <1>1, <1>2, FS_Subset
<1>4. Cardinality(Chess!Kings(board, color)) = 1 <=> \E k : Chess!Kings(board, color) = {k}
  BY <1>3, FS_Singleton
<1> QED
  BY <1>1, <1>4

\* What a position says of itself, in the terms of this module.
LEMMA PositionSays ==
  ASSUME NEW pos, ChessPosition(pos)
  PROVE  /\ pos.cells \in Board /\ DOMAIN pos.cells = Chess!Squares(8) /\ pos.turn \in Colors
         /\ \A color \in Colors : \E k \in Chess!Squares(8) : Chess!Kings(pos.cells, color) = {k}
         /\ ~Chess!IsInCheck(pos.cells, Chess!OtherColor(pos.turn))
<1>1. pos.cells \in Board /\ DOMAIN pos.cells = Chess!Squares(8) /\ pos.turn \in Colors
  BY DEF ChessPosition, Board, Colors, Chess!White, Chess!Black
<1>2. \A color \in Colors : Cardinality(Chess!Kings(pos.cells, color)) = 1
  BY DEF ChessPosition, SoundPosition, Colors, Chess!White, Chess!Black
<1> QED
  BY <1>1, <1>2, OneKing DEF ChessPosition, SoundPosition

\* A move by geometry, of a man of the side to move.
Goes(pos, m, type) ==
    /\ m.from \in Chess!Squares(8) /\ m.to \in Chess!Squares(8)
    /\ type \in Types /\ pos.cells[m.from] = <<pos.turn, type>>
    /\ ~Chess!ColorAt(pos.cells, m.to, pos.turn)
    /\ Chess!ColorAt(pos.cells, m.to, Chess!OtherColor(pos.turn)) => Chess!IsSquareAttacked(pos.cells, m.to, pos.turn)
    /\ IF Chess!IsCastle(pos, m) THEN Castled(pos.cells, Chess!BackRow(pos.turn), pos.turn, m) ELSE TRUE
    /\ type = "P" => \E r, c \in 0 .. 7 : PawnGoes(pos, r, c, pos.turn, m)

LEMMA PawnsGo ==
  ASSUME NEW pos, ChessPosition(pos), NEW from \in Chess!Squares(8), pos.cells[from] = <<pos.turn, "P">>,
         NEW m \in Chess!PawnMoves(pos, from, pos.turn)
  PROVE  Goes(pos, m, "P")
<1>1. pos.cells \in Board /\ DOMAIN pos.cells = Chess!Squares(8) /\ pos.turn \in Colors
  BY PositionSays
<1>2. PICK r \in 0 .. 7, c \in 0 .. 7 : from = <<r, c>>
  BY SquaresArePairs
<1>3. PawnGoes(pos, r, c, pos.turn, m)
  BY <1>1, <1>2, PawnsArrive
<1>4. m.from = from /\ m.to \in Chess!Squares(8)
  BY <1>2, <1>3 DEF PawnGoes
<1>5. \/ pos.cells[m.to] = Empty
      \/ /\ m.to \in {<<r + Chess!PawnDir(pos.turn), c - 1>>, <<r + Chess!PawnDir(pos.turn), c + 1>>}
         /\ Chess!ColorAt(pos.cells, m.to, Chess!OtherColor(pos.turn))
  BY <1>3 DEF PawnGoes
<1>6. ~Chess!ColorAt(pos.cells, m.to, pos.turn)
  BY <1>1, <1>4, <1>5, TwoColors DEF Chess!ColorAt
<1>7. Chess!ColorAt(pos.cells, m.to, Chess!OtherColor(pos.turn)) => Chess!IsSquareAttacked(pos.cells, m.to, pos.turn)
  <2>1. Chess!Holds(pos.cells, <<r, c>>, <<pos.turn, "P">>)
    BY <1>1, <1>2 DEF Chess!Holds
  <2>2. Chess!ColorAt(pos.cells, m.to, Chess!OtherColor(pos.turn)) =>
            m.to \in {<<r + Chess!PawnDir(pos.turn), c - 1>>, <<r + Chess!PawnDir(pos.turn), c + 1>>}
    BY <1>5 DEF Chess!ColorAt
  <2> QED
    BY <1>1, <2>1, <2>2, PawnsAttack
<1>8. ~Chess!IsCastle(pos, m)
  BY <1>4 DEF Chess!IsCastle, Chess!Type
<1> QED
  BY <1>3, <1>4, <1>6, <1>7, <1>8 DEF Goes, Types

LEMMA KingsGo ==
  ASSUME NEW pos, ChessPosition(pos), NEW from \in Chess!Squares(8), pos.cells[from] = <<pos.turn, "K">>,
         NEW m \in Chess!StepMoves(pos.cells, from, pos.turn, Chess!AllDirections) \cup Chess!Castles(pos, from, pos.turn)
  PROVE  Goes(pos, m, "K")
<1>1. pos.cells \in Board /\ DOMAIN pos.cells = Chess!Squares(8) /\ pos.turn \in Colors
  BY PositionSays
<1>2. CASE m \in Chess!StepMoves(pos.cells, from, pos.turn, Chess!AllDirections)
  <2> DEFINE steps == IF "K" = "N" THEN Chess!KnightSteps ELSE Chess!AllDirections
  <2>1. /\ m.from = from /\ m.to \in Chess!Squares(8) /\ ~Chess!ColorAt(pos.cells, m.to, pos.turn)
        /\ Chess!IsSquareAttacked(pos.cells, m.to, pos.turn)
        /\ \E d \in Chess!AllDirections : m.to = Chess!Step(from, d, 1)
    <3>1. Chess!AllDirections = IF "K" = "N" THEN Chess!KnightSteps ELSE Chess!AllDirections
      OBVIOUS
    <3> QED
      BY <1>1, <1>2, <3>1, StepsArrive
  <2>2. ~Chess!IsCastle(pos, m)
    <3>1. PICK d \in Chess!AllDirections : m.to = Chess!Step(from, d, 1)
      BY <2>1
    <3>2. d[2] \in {-1, 0, 1}
      BY DEF Chess!AllDirections, Chess!Diagonal, Chess!Orthogonal
    <3>3. from[2] \in Int /\ m.to[2] = from[2] + 1 * d[2]
      BY <3>1, SquaresArePairs DEF Chess!Step
    <3>4. ~(m.to[2] - m.from[2] \in {-2, 2})
      BY <2>1, <3>2, <3>3
    <3> QED
      BY <3>4 DEF Chess!IsCastle
  <2> QED
    BY <2>1, <2>2 DEF Goes, Types
<1>3. CASE m \in Chess!Castles(pos, from, pos.turn)
  <2>1. Castled(pos.cells, Chess!BackRow(pos.turn), pos.turn, m) /\ m.from = from
    BY <1>3, CastlesArrive
  <2>2. Chess!BackRow(pos.turn) \in 0 .. 7
    BY DEF Chess!BackRow
  <2>3. m.to \in Chess!Squares(8) /\ pos.cells[m.to] = Empty
    <3>1. <<Chess!BackRow(pos.turn), 6>> \in Chess!Squares(8) /\ <<Chess!BackRow(pos.turn), 2>> \in Chess!Squares(8)
      BY DEF Chess!Squares, Chess!BackRow
    <3> QED
      BY <2>1, <3>1 DEF Castled
  <2>4. \A color : ~Chess!ColorAt(pos.cells, m.to, color)
    BY <2>3 DEF Chess!ColorAt
  <2> QED
    BY <2>1, <2>3, <2>4 DEF Goes, Types
<1> QED
  BY <1>2, <1>3

LEMMA MovesGo ==
  ASSUME NEW pos, ChessPosition(pos), NEW from, Chess!ColorAt(pos.cells, from, pos.turn),
         NEW m \in Chess!PseudoMovesFrom(pos, from)
  PROVE  \E type : Goes(pos, m, type)
<1>1. pos.cells \in Board /\ DOMAIN pos.cells = Chess!Squares(8) /\ pos.turn \in Colors
  BY PositionSays
<1>2. from \in Chess!Squares(8)
  BY <1>1 DEF Chess!ColorAt
<1>3. PICK type \in Types : pos.cells[from] = <<pos.turn, type>>
  BY <1>1, <1>2, CellsHold
<1>4. pos.cells[from][1] = pos.turn /\ pos.cells[from][2] = type
  BY <1>3
<1>5. CASE type = "P"
  <2>1. m \in Chess!PawnMoves(pos, from, pos.turn)
    BY Zenon, <1>4, <1>5 DEF Chess!PseudoMovesFrom
  <2> QED
    BY <1>2, <1>3, <1>5, <2>1, PawnsGo
<1>6. CASE type = "K"
  <2>1. m \in Chess!StepMoves(pos.cells, from, pos.turn, Chess!AllDirections) \cup Chess!Castles(pos, from, pos.turn)
    BY Zenon, <1>4, <1>6 DEF Chess!PseudoMovesFrom
  <2> QED
    BY <1>2, <1>3, <1>6, <2>1, KingsGo
<1>7. CASE type = "N"
  <2>1. m \in Chess!StepMoves(pos.cells, from, pos.turn, Chess!KnightSteps)
    BY Zenon, <1>4, <1>7 DEF Chess!PseudoMovesFrom
  <2>2. Chess!KnightSteps = IF "N" = "N" THEN Chess!KnightSteps ELSE Chess!AllDirections
    OBVIOUS
  <2>3. /\ m.from = from /\ m.to \in Chess!Squares(8) /\ ~Chess!ColorAt(pos.cells, m.to, pos.turn)
        /\ Chess!IsSquareAttacked(pos.cells, m.to, pos.turn)
    BY <1>1, <1>2, <1>3, <1>7, <2>1, <2>2, StepsArrive
  <2>4. ~Chess!IsCastle(pos, m)
    BY <1>4, <1>7, <2>3 DEF Chess!IsCastle, Chess!Type
  <2> QED
    BY <1>2, <1>3, <1>7, <2>3, <2>4 DEF Goes
<1>8. CASE type \in {"B", "R", "Q"}
  <2>1. m \in Chess!SlideMoves(pos.cells, from, pos.turn, LinesOf(type))
    BY <1>4, <1>8 DEF Chess!PseudoMovesFrom, LinesOf
  <2>2. /\ m.from = from /\ m.to \in Chess!Squares(8) /\ ~Chess!ColorAt(pos.cells, m.to, pos.turn)
        /\ Chess!IsSquareAttacked(pos.cells, m.to, pos.turn)
    BY <1>1, <1>2, <1>3, <1>8, <2>1, SlidesArrive
  <2>3. ~Chess!IsCastle(pos, m)
    BY <1>4, <1>8, <2>2 DEF Chess!IsCastle, Chess!Type
  <2> QED
    BY <1>2, <1>3, <1>8, <2>2, <2>3 DEF Goes
<1> QED
  BY <1>5, <1>6, <1>7, <1>8 DEF Types

\* No king can be taken: the side to move would have been left giving check.
LEMMA NoKingIsTaken ==
  ASSUME NEW pos, ChessPosition(pos), NEW m, NEW type, Goes(pos, m, type)
  PROVE  pos.cells[m.to] # <<Chess!OtherColor(pos.turn), "K">>
<1> SUFFICES ASSUME pos.cells[m.to] = <<Chess!OtherColor(pos.turn), "K">> PROVE FALSE
  OBVIOUS
<1>1. /\ pos.cells \in Board /\ DOMAIN pos.cells = Chess!Squares(8) /\ pos.turn \in Colors
      /\ ~Chess!IsInCheck(pos.cells, Chess!OtherColor(pos.turn))
  BY PositionSays
<1>2. m.to \in Chess!Kings(pos.cells, Chess!OtherColor(pos.turn))
  BY <1>1 DEF Chess!Kings, Goes
<1>3. Chess!OtherColor(pos.turn) \in Colors /\ Chess!OtherColor(Chess!OtherColor(pos.turn)) = pos.turn
  BY <1>1, TwoColors
<1>4. Chess!ColorAt(pos.cells, m.to, Chess!OtherColor(pos.turn))
  BY <1>1, <1>3, CellsHold DEF Goes, Types
<1>5. Chess!IsSquareAttacked(pos.cells, m.to, pos.turn)
  BY <1>4 DEF Goes
<1> QED
  BY Zenon, <1>1, <1>2, <1>3, <1>5 DEF Chess!IsInCheck

\* The board a step leaves: the man moved, perhaps promoted, and at most one
\* pawn besides lifted, the one taken in passing.
Landed(pos, m, type, after) ==
    LET other == Chess!OtherColor(pos.turn)
    IN  /\ after \in Board
        /\ \E t \in Types : /\ after[m.to] = <<pos.turn, t>> /\ (t = "K" <=> type = "K")
                            /\ type # "P" \/ m.to[1] # Chess!PromotionRow(pos.turn) => t = type
        /\ \A sq \in Chess!Squares(8) \ {m.to} :
              \/ sq # m.from /\ after[sq] = pos.cells[sq]
              \/ after[sq] = Empty /\ (sq = m.from \/ pos.cells[sq] = <<other, "P">>)

\* The pawn taken in passing is the one that has just leapt.
LEMMA PassedPawn ==
  ASSUME NEW pos, ChessPosition(pos), NEW m, NEW type, Goes(pos, m, type), Chess!IsEnPassant(pos, m)
  PROVE  /\ <<m.from[1], m.to[2]>> \in Chess!Squares(8)
         /\ pos.cells[<<m.from[1], m.to[2]>>] = <<Chess!OtherColor(pos.turn), "P">>
         /\ m.to[1] # Chess!PromotionRow(pos.turn)
<1> DEFINE other == Chess!OtherColor(pos.turn)
           pd == Chess!PawnDir(pos.turn)
<1>1. type = "P" /\ pos.turn \in Colors /\ DOMAIN pos.cells = Chess!Squares(8)
  BY PositionSays DEF Goes, Chess!IsEnPassant, Chess!Type
<1>2. PICK r \in 0 .. 7, c \in 0 .. 7 : PawnGoes(pos, r, c, pos.turn, m)
  BY <1>1 DEF Goes
<1>3. /\ m.from[1] = r /\ m.from[2] = c /\ m.from[2] # m.to[2] /\ pos.cells[m.to] = Empty
      /\ m.to = pos.enPassant /\ m.to \in Chess!Squares(8)
  BY <1>2 DEF PawnGoes, Chess!IsEnPassant
<1>4. m.to \in {<<r + pd, c - 1>>, <<r + pd, c + 1>>}
  <2>1. m.to # <<r + pd, c>> /\ m.to # <<r + 2 * pd, c>>
    BY <1>3
  <2> QED
    BY <1>2, <2>1 DEF PawnGoes
<1>5. m.to[1] = r + pd /\ m.to[2] \in 0 .. 7 /\ pd \in {-1, 1} /\ Chess!PawnDir(other) = -pd
  <2>1. pd \in {-1, 1} /\ Chess!PawnDir(other) = -pd
    BY <1>1 DEF Chess!PawnDir, Chess!OtherColor, Colors, Chess!White, Chess!Black
  <2>2. m.to[1] = r + pd
    <3> HIDE DEF pd
    <3> QED
      BY <1>4
  <2>3. m.to[2] \in 0 .. 7
    <3>1. PICK a \in 0 .. 7, b \in 0 .. 7 : m.to = <<a, b>>
      BY <1>3, SquaresArePairs
    <3> QED
      BY <3>1
  <2> QED
    BY <2>1, <2>2, <2>3
<1>6. m.to # Chess!Nowhere
  BY <1>3, SquaresArePairs DEF Chess!Nowhere
<1>7. /\ m.to[1] = Chess!PawnStartRow(other) + Chess!PawnDir(other)
      /\ Chess!Holds(pos.cells, Chess!Step(m.to, <<Chess!PawnDir(other), 0>>, 1), <<other, "P">>)
  BY <1>3, <1>6 DEF ChessPosition, SoundPosition
<1>8. Chess!Step(m.to, <<Chess!PawnDir(other), 0>>, 1) = <<r, m.to[2]>>
  <2> HIDE DEF pd, other
  <2>1. (r + pd) + 1 * (-pd) = r /\ m.to[2] + 1 * 0 = m.to[2]
    BY <1>5
  <2> QED
    BY <1>5, <2>1 DEF Chess!Step
<1>9. m.to[1] # Chess!PromotionRow(pos.turn)
  BY <1>1, <1>7 DEF Chess!PawnDir, Chess!PawnStartRow, Chess!PromotionRow, Chess!OtherColor, Colors, Chess!White, Chess!Black
<1> QED
  BY <1>1, <1>3, <1>7, <1>8, <1>9 DEF Chess!Holds

\* A pawn that reaches the far row becomes what the move names.
LEMMA PawnsPromote ==
  ASSUME NEW pos, ChessPosition(pos), NEW m, Goes(pos, m, "P"), m.to[1] = Chess!PromotionRow(pos.turn)
  PROVE  m.promotion \in Types \ {"K"}
<1>1. pos.turn \in Colors
  BY PositionSays
<1>2. PICK r \in 0 .. 7, c \in 0 .. 7 : PawnGoes(pos, r, c, pos.turn, m)
  BY DEF Goes
<1>3. ~(m.to \in Chess!Squares(8) /\ m.to = pos.enPassant)
  <2> SUFFICES ASSUME m.to \in Chess!Squares(8), m.to = pos.enPassant PROVE FALSE
    OBVIOUS
  <2>1. m.to # Chess!Nowhere
    BY SquaresArePairs DEF Chess!Nowhere
  <2>2. m.to[1] = Chess!PawnStartRow(Chess!OtherColor(pos.turn)) + Chess!PawnDir(Chess!OtherColor(pos.turn))
    BY <2>1 DEF ChessPosition, SoundPosition
  <2> QED
    BY <1>1, <2>2 DEF Chess!PawnDir, Chess!PawnStartRow, Chess!PromotionRow, Chess!OtherColor, Colors, Chess!White, Chess!Black
<1>4. ~(m.to = <<r + 2 * Chess!PawnDir(pos.turn), c>> /\ r = Chess!PawnStartRow(pos.turn))
  BY <1>1 DEF Chess!PawnDir, Chess!PawnStartRow, Chess!PromotionRow, Colors, Chess!White, Chess!Black
<1>5. m.promotion \in {"Q", "R", "B", "N"}
  BY <1>2, <1>3, <1>4 DEF PawnGoes
<1> QED
  BY <1>5 DEF Types

LEMMA StepsLand ==
  ASSUME NEW pos, ChessPosition(pos), NEW m, NEW type, Goes(pos, m, type), ~Chess!IsCastle(pos, m)
  PROVE  Landed(pos, m, type, Chess!BoardAfter(pos, m))
<1> DEFINE other == Chess!OtherColor(pos.turn)
           lifted == {m.from} \cup (IF Chess!IsEnPassant(pos, m) THEN {<<m.from[1], m.to[2]>>} ELSE {})
           promoted == Chess!Type(pos, m) = "P" /\ m.to[1] = Chess!PromotionRow(pos.turn)
           placed == IF promoted THEN <<pos.turn, m.promotion>> ELSE pos.cells[m.from]
           base == Chess!Placed(pos.cells, lifted, Empty)
           after == Chess!BoardAfter(pos, m)
<1>1. /\ pos.cells \in Board /\ DOMAIN pos.cells = Chess!Squares(8) /\ pos.turn \in Colors
      /\ m.from \in Chess!Squares(8) /\ m.to \in Chess!Squares(8)
      /\ type \in Types /\ pos.cells[m.from] = <<pos.turn, type>> /\ Chess!Type(pos, m) = type
  BY PositionSays DEF Goes, Chess!Type
<1>2. after = [base EXCEPT ![m.to] = placed]
  BY Zenon DEF Chess!BoardAfter
<1>3. base = [sq \in Chess!Squares(8) |-> IF sq \in lifted THEN Empty ELSE pos.cells[sq]]
  <2> HIDE DEF lifted
  <2> QED
    BY Zenon, <1>1 DEF Chess!Placed
<1>4. \E t \in Types : /\ placed = <<pos.turn, t>> /\ (t = "K" <=> type = "K")
                       /\ type # "P" \/ m.to[1] # Chess!PromotionRow(pos.turn) => t = type
  <2>1. CASE promoted
    <3>1. type = "P"
      BY <1>1, <2>1
    <3>2. m.promotion \in Types \ {"K"}
      BY <2>1, <3>1, PawnsPromote
    <3> QED
      BY <2>1, <3>1, <3>2
  <2>2. CASE ~promoted
    BY <1>1, <2>2
  <2> QED
    BY <2>1, <2>2
<1>5. \A sq \in lifted : sq = m.from \/ pos.cells[sq] = <<other, "P">>
  BY PassedPawn
<1>6. after = [sq \in Chess!Squares(8) |-> IF sq = m.to THEN placed ELSE IF sq \in lifted THEN Empty ELSE pos.cells[sq]]
  <2> HIDE DEF lifted, placed, base, after
  <2> QED
    BY <1>1, <1>2, <1>3
<1>7. m.from \in lifted
  OBVIOUS
<1> HIDE DEF lifted, placed, base, after, promoted
<1>8. after \in Board
  <2>1. placed \in ChessMen
    BY <1>1, <1>4 DEF ChessMen, Types, Colors, Chess!White, Chess!Black
  <2>2. \A sq \in Chess!Squares(8) : pos.cells[sq] \in ChessMen \cup {Empty}
    BY <1>1 DEF Board
  <2> QED
    BY <1>6, <2>1, <2>2 DEF Board
<1>9. after[m.to] = placed
  BY <1>1, <1>6
<1>10. ASSUME NEW sq \in Chess!Squares(8) \ {m.to}
       PROVE  \/ sq # m.from /\ after[sq] = pos.cells[sq]
              \/ after[sq] = Empty /\ (sq = m.from \/ pos.cells[sq] = <<other, "P">>)
  BY <1>5, <1>6, <1>7
<1> QED
  BY <1>4, <1>8, <1>9, <1>10 DEF Landed, after

\* What every move leaves: the rival's men but the one taken (and a pawn taken
\* in passing), and no new ones; one king of the mover's; the mover's other men
\* unless it castled; a leaping pawn with the square it leapt over empty.
Leaves(pos, m, type, after) ==
    LET other == Chess!OtherColor(pos.turn)
    IN  /\ after \in Board
        /\ \A sq \in Chess!Squares(8), t \in Types : after[sq] = <<other, t>> => pos.cells[sq] = <<other, t>>
        /\ \A sq \in Chess!Squares(8) \ {m.to}, t \in Types \ {"P"} :
              pos.cells[sq] = <<other, t>> => after[sq] = <<other, t>>
        /\ Chess!Kings(after, pos.turn) = IF type = "K" THEN {m.to} ELSE Chess!Kings(pos.cells, pos.turn)
        /\ type # "K" => \A sq \in Chess!Squares(8) \ {m.from}, t \in Types :
                            pos.cells[sq] = <<pos.turn, t>> => after[sq] = <<pos.turn, t>>
        /\ type = "P" /\ m.to[1] # Chess!PromotionRow(pos.turn) =>
              /\ after[m.to] = <<pos.turn, "P">>
              /\ \A sq \in Chess!Squares(8) \ {m.to} : pos.cells[sq] = Empty => after[sq] = Empty

LEMMA StepsLeave ==
  ASSUME NEW pos, ChessPosition(pos), NEW m, NEW type, Goes(pos, m, type), ~Chess!IsCastle(pos, m)
  PROVE  Leaves(pos, m, type, Chess!BoardAfter(pos, m))
<1> DEFINE other == Chess!OtherColor(pos.turn)
           after == Chess!BoardAfter(pos, m)
           cells == pos.cells
           mover == pos.turn
<1>1. /\ cells \in Board /\ DOMAIN cells = Chess!Squares(8) /\ mover \in Colors
      /\ other \in Colors /\ other # mover
      /\ m.from \in Chess!Squares(8) /\ m.to \in Chess!Squares(8)
      /\ type \in Types /\ cells[m.from] = <<mover, type>>
  BY PositionSays, TwoColors DEF Goes
<1>2. /\ after \in Board
      /\ \A sq \in Chess!Squares(8) \ {m.to} :
            \/ sq # m.from /\ after[sq] = cells[sq]
            \/ after[sq] = Empty /\ (sq = m.from \/ cells[sq] = <<other, "P">>)
  BY StepsLand DEF Landed
<1>3. PICK t \in Types : /\ after[m.to] = <<mover, t>> /\ (t = "K" <=> type = "K")
                         /\ type # "P" \/ m.to[1] # Chess!PromotionRow(mover) => t = type
  BY StepsLand DEF Landed
<1>4. \A color \in Colors, u \in Types : <<color, u>> # Empty
  BY OpeningsAssumption DEF ChessMen, Colors, Types, Chess!White, Chess!Black
<1>5. \A u \in Types : cells[m.to] # <<mover, u>>
  BY <1>1, CellsHold DEF Goes
<1> HIDE DEF after, cells, mover, other
<1>6. ASSUME NEW sq \in Chess!Squares(8), NEW u \in Types, after[sq] = <<other, u>>
      PROVE  cells[sq] = <<other, u>>
  <2>1. sq # m.to
    BY <1>1, <1>3, <1>6
  <2> QED
    BY <1>1, <1>2, <1>4, <1>6, <2>1
<1>7. ASSUME NEW sq \in Chess!Squares(8) \ {m.to}, NEW u \in Types \ {"P"}, cells[sq] = <<other, u>>
      PROVE  after[sq] = <<other, u>>
  <2>1. sq # m.from /\ cells[sq] # <<other, "P">>
    BY <1>1, <1>7
  <2> QED
    BY <1>2, <1>7, <2>1
<1>8. ASSUME NEW sq \in Chess!Squares(8) \ {m.from}, NEW u \in Types, cells[sq] = <<mover, u>>
      PROVE  after[sq] = <<mover, u>>
  <2>1. sq # m.to /\ cells[sq] # <<other, "P">>
    BY <1>1, <1>5, <1>8
  <2> QED
    BY <1>2, <1>8, <2>1
<1>9. Chess!Kings(after, mover) = IF type = "K" THEN {m.to} ELSE Chess!Kings(cells, mover)
  <2>1. DOMAIN after = Chess!Squares(8) /\ "K" \in Types
    BY <1>2 DEF Board, Types
  <2>2. CASE type = "K"
    <3>1. PICK k \in Chess!Squares(8) : Chess!Kings(cells, mover) = {k}
      BY <1>1, PositionSays DEF cells, mover
    <3>2. \A sq \in Chess!Squares(8) : cells[sq] = <<mover, "K">> => sq = k
      BY <1>1, <3>1 DEF Chess!Kings
    <3>3. k = m.from
      BY <1>1, <2>2, <3>2
    <3>4. ASSUME NEW sq \in Chess!Squares(8)
          PROVE  after[sq] = <<mover, "K">> <=> sq = m.to
      <4>1. CASE sq = m.to
        BY <1>3, <2>2, <4>1
      <4>2. CASE sq # m.to
        BY <1>1, <1>2, <1>4, <2>1, <3>2, <3>3, <4>2
      <4> QED
        BY <4>1, <4>2
    <3> QED
      BY <1>1, <2>1, <2>2, <3>4 DEF Chess!Kings
  <2>3. CASE type # "K"
    <3>1. ASSUME NEW sq \in Chess!Squares(8)
          PROVE  after[sq] = <<mover, "K">> <=> cells[sq] = <<mover, "K">>
      <4>1. CASE sq = m.to
        BY <1>3, <1>5, <2>1, <2>3, <4>1
      <4>2. CASE sq = m.from /\ sq # m.to
        BY <1>1, <1>2, <1>4, <2>1, <2>3, <4>2
      <4>3. CASE sq # m.from /\ sq # m.to
        BY <1>1, <1>2, <1>4, <1>8, <2>1, <4>3
      <4> QED
        BY <4>1, <4>2, <4>3
    <3> QED
      BY <1>1, <2>1, <2>3, <3>1 DEF Chess!Kings
  <2> QED
    BY <2>2, <2>3
<1>10. ASSUME type = "P", m.to[1] # Chess!PromotionRow(mover)
       PROVE  /\ after[m.to] = <<mover, "P">>
              /\ \A sq \in Chess!Squares(8) \ {m.to} : cells[sq] = Empty => after[sq] = Empty
  BY <1>2, <1>3, <1>10
<1> QED
  BY <1>2, <1>6, <1>7, <1>8, <1>9, <1>10 DEF Leaves, after, cells, mover, other

LEMMA CastlesLeave ==
  ASSUME NEW pos, ChessPosition(pos), NEW m, NEW type, Goes(pos, m, type), Chess!IsCastle(pos, m)
  PROVE  Leaves(pos, m, type, Chess!BoardAfter(pos, m))
<1> DEFINE other == Chess!OtherColor(pos.turn)
           after == Chess!BoardAfter(pos, m)
           cells == pos.cells
           mover == pos.turn
           row == Chess!BackRow(mover)
           rook == IF m.to[2] = 6 THEN <<7, 5>> ELSE <<0, 3>>
           out == <<m.from[1], rook[1]>>
           in == <<m.from[1], rook[2]>>
           lifted == {m.from} \cup (IF Chess!IsEnPassant(pos, m) THEN {<<m.from[1], m.to[2]>>} ELSE {})
           placed == IF Chess!Type(pos, m) = "P" /\ m.to[1] = Chess!PromotionRow(mover) THEN <<mover, m.promotion>>
                     ELSE cells[m.from]
           base == Chess!Placed(cells, lifted, Empty)
           moved == [base EXCEPT ![m.to] = placed]
<1>1. /\ cells \in Board /\ DOMAIN cells = Chess!Squares(8) /\ mover \in Colors
      /\ other \in Colors /\ other # mover
      /\ m.from \in Chess!Squares(8) /\ m.to \in Chess!Squares(8)
      /\ cells[m.from] = <<mover, type>> /\ Chess!Type(pos, m) = type
  BY PositionSays, TwoColors DEF Goes, Chess!Type
<1>2. type = "K" /\ Castled(cells, row, mover, m)
  BY <1>1 DEF Goes, Chess!IsCastle
<1>3. /\ out \in Chess!Squares(8) /\ in \in Chess!Squares(8)
      /\ cells[out] = <<mover, "R">> /\ cells[in] = Empty /\ cells[m.to] = Empty
      /\ m.from # m.to /\ in # m.to /\ in # m.from /\ out # m.to /\ out # m.from /\ in # out
  <2>1. row \in 0 .. 7
    BY DEF Chess!BackRow
  <2> HIDE DEF row
  <2>2. CASE m.to = <<row, 6>>
    <3>1. m.from = <<row, 4>> /\ out = <<row, 7>> /\ in = <<row, 5>>
      BY <1>2, <2>2 DEF Castled
    <3>2. out \in Chess!Squares(8) /\ in \in Chess!Squares(8)
      BY <2>1, <3>1 DEF Chess!Squares
    <3>3. cells[<<row, 7>>] = <<mover, "R">> /\ cells[<<row, 5>>] = Empty /\ cells[<<row, 6>>] = Empty
      BY <1>2, <2>2 DEF Castled
    <3> QED
      BY <2>2, <3>1, <3>2, <3>3
  <2>3. CASE m.to = <<row, 2>>
    <3>1. m.from = <<row, 4>> /\ out = <<row, 0>> /\ in = <<row, 3>>
      BY <1>2, <2>3 DEF Castled
    <3>2. out \in Chess!Squares(8) /\ in \in Chess!Squares(8)
      BY <2>1, <3>1 DEF Chess!Squares
    <3>3. cells[<<row, 0>>] = <<mover, "R">> /\ cells[<<row, 3>>] = Empty /\ cells[<<row, 2>>] = Empty
      BY <1>2, <2>3 DEF Castled
    <3> QED
      BY <2>3, <3>1, <3>2, <3>3
  <2> QED
    BY <1>2, <2>2, <2>3 DEF Castled
<1>4. after = [moved EXCEPT ![out] = Empty, ![in] = <<mover, "R">>]
  BY Zenon DEF Chess!BoardAfter
<1>5. lifted = {m.from} /\ placed = <<mover, "K">>
  BY <1>1, <1>2 DEF Chess!IsEnPassant
<1>6. base = [sq \in Chess!Squares(8) |-> IF sq = m.from THEN Empty ELSE cells[sq]]
  <2> HIDE DEF lifted
  <2> QED
    BY <1>1, <1>5 DEF Chess!Placed
<1> HIDE DEF lifted, placed, base, after, out, in, rook, row, cells, mover, other
<1>7. after = [sq \in Chess!Squares(8) |-> CASE sq = in -> <<mover, "R">>
                                            [] sq = out -> Empty
                                            [] sq = m.to -> <<mover, "K">>
                                            [] sq = m.from -> Empty
                                            [] OTHER -> cells[sq]]
  BY <1>1, <1>3, <1>4, <1>5, <1>6
<1>8. /\ after[in] = <<mover, "R">> /\ after[out] = Empty /\ after[m.to] = <<mover, "K">> /\ after[m.from] = Empty
      /\ \A sq \in Chess!Squares(8) : sq \notin {in, out, m.to, m.from} => after[sq] = cells[sq]
  BY <1>1, <1>3, <1>7
<1>9. \A color \in Colors, u \in Types : <<color, u>> # Empty
  BY OpeningsAssumption DEF ChessMen, Colors, Types, Chess!White, Chess!Black
<1>10. after \in Board
  <2>1. \A sq \in Chess!Squares(8) : cells[sq] \in ChessMen \cup {Empty}
    BY <1>1 DEF Board
  <2>2. <<mover, "R">> \in ChessMen /\ <<mover, "K">> \in ChessMen
    BY <1>1 DEF ChessMen, Colors, Chess!White, Chess!Black
  <2>3. \A sq \in Chess!Squares(8) : after[sq] \in ChessMen \cup {Empty}
    BY <1>8, <2>1, <2>2
  <2> QED
    BY <1>7, <2>3 DEF Board
<1>11. ASSUME NEW sq \in Chess!Squares(8), NEW u \in Types
       PROVE  after[sq] = <<other, u>> <=> cells[sq] = <<other, u>>
  <2>1. CASE sq \in {in, out, m.to, m.from}
    BY <1>1, <1>2, <1>3, <1>8, <1>9, <2>1
  <2>2. CASE sq \notin {in, out, m.to, m.from}
    BY <1>8, <2>2
  <2> QED
    BY <2>1, <2>2
<1>12. Chess!Kings(after, mover) = {m.to}
  <2>1. DOMAIN after = Chess!Squares(8) /\ "K" \in Types
    BY <1>10 DEF Board, Types
  <2>2. PICK k \in Chess!Squares(8) : Chess!Kings(cells, mover) = {k}
    BY <1>1, PositionSays DEF cells, mover
  <2>3. \A sq \in Chess!Squares(8) : cells[sq] = <<mover, "K">> => sq = m.from
    BY <1>1, <1>2, <2>2 DEF Chess!Kings
  <2>4. ASSUME NEW sq \in Chess!Squares(8)
        PROVE  after[sq] = <<mover, "K">> <=> sq = m.to
    <3>1. CASE sq \in {in, out, m.to, m.from}
      BY <1>1, <1>3, <1>8, <1>9, <2>1, <3>1
    <3>2. CASE sq \notin {in, out, m.to, m.from}
      BY <1>8, <2>3, <3>2
    <3> QED
      BY <3>1, <3>2
  <2> QED
    BY <1>1, <2>1, <2>4 DEF Chess!Kings
<1> QED
  BY <1>2, <1>10, <1>11, <1>12 DEF Leaves, after, cells, mover, other

LEMMA MovesLeave ==
  ASSUME NEW pos, ChessPosition(pos), NEW m, NEW type, Goes(pos, m, type)
  PROVE  Leaves(pos, m, type, Chess!BoardAfter(pos, m))
  BY StepsLeave, CastlesLeave

\* The rival's king stays where it is.
LEMMA KingsAfter ==
  ASSUME NEW pos, ChessPosition(pos), NEW m, NEW type, Goes(pos, m, type)
  PROVE  \A color \in Colors : \E k \in Chess!Squares(8) : Chess!Kings(Chess!BoardAfter(pos, m), color) = {k}
<1> DEFINE other == Chess!OtherColor(pos.turn)
           after == Chess!BoardAfter(pos, m)
<1>1. /\ DOMAIN pos.cells = Chess!Squares(8) /\ pos.turn \in Colors /\ other \in Colors /\ other # pos.turn
      /\ \A color \in Colors : \E k \in Chess!Squares(8) : Chess!Kings(pos.cells, color) = {k}
      /\ m.to \in Chess!Squares(8) /\ "K" \in Types \ {"P"} /\ "K" \in Types
  BY PositionSays, TwoColors DEF Goes, Types
<1>2. pos.cells[m.to] # <<other, "K">>
  BY NoKingIsTaken
<1> HIDE DEF other, after
<1>3. /\ after \in Board
      /\ \A sq \in Chess!Squares(8) : after[sq] = <<other, "K">> => pos.cells[sq] = <<other, "K">>
      /\ \A sq \in Chess!Squares(8) \ {m.to} : pos.cells[sq] = <<other, "K">> => after[sq] = <<other, "K">>
      /\ Chess!Kings(after, pos.turn) = IF type = "K" THEN {m.to} ELSE Chess!Kings(pos.cells, pos.turn)
  <2>1. Leaves(pos, m, type, after)
    BY MovesLeave DEF after
  <2> QED
    BY Zenon, <1>1, <2>1 DEF Leaves, other
<1>4. Chess!Kings(after, other) = Chess!Kings(pos.cells, other)
  <2>1. DOMAIN after = Chess!Squares(8)
    BY <1>3 DEF Board
  <2>2. \A sq \in Chess!Squares(8) : after[sq] = <<other, "K">> <=> pos.cells[sq] = <<other, "K">>
    BY <1>2, <1>3
  <2> QED
    BY <1>1, <2>1, <2>2 DEF Chess!Kings
<1>5. \E k \in Chess!Squares(8) : Chess!Kings(after, pos.turn) = {k}
  BY <1>1, <1>3
<1>6. \A color \in Colors : color = other \/ color = pos.turn
  BY <1>1 DEF Colors
<1> QED
  BY <1>1, <1>4, <1>5, <1>6 DEF after

\* A castling right goes when its king or its rook has left home or is taken.
LEMMA RightsAfter ==
  ASSUME NEW pos, ChessPosition(pos), NEW m, NEW type, Goes(pos, m, type), NEW right \in Chess!CastlingAfter(pos, m)
  PROVE  /\ right \in pos.castling
         /\ Chess!BoardAfter(pos, m)[<<Chess!BackRow(right[1]), 4>>] = <<right[1], "K">>
         /\ Chess!BoardAfter(pos, m)[Chess!RookHome(right)] = <<right[1], "R">>
<1> DEFINE other == Chess!OtherColor(pos.turn)
           after == Chess!BoardAfter(pos, m)
           king == <<Chess!BackRow(right[1]), 4>>
           rook == Chess!RookHome(right)
<1>1. /\ right \in pos.castling
      /\ right[1] = pos.turn => type # "K" /\ ~(type = "R" /\ m.from = rook)
      /\ ~(pos.cells[m.to] = <<right[1], "R">> /\ m.to = rook)
  BY DEF Chess!CastlingAfter, Goes, Chess!Type
<1>2. right[1] \in Colors /\ right[2] \in {"K", "Q"}
  <2>1. right \in Chess!FullCastling
    BY <1>1 DEF ChessPosition
  <2> QED
    BY <2>1 DEF Chess!FullCastling, Colors, Chess!White, Chess!Black
<1>3. king \in Chess!Squares(8) /\ rook \in Chess!Squares(8)
  <2>1. <<Chess!BackRow(right[1]), IF right[2] = "K" THEN 7 ELSE 0>> \in Chess!Squares(8)
    BY DEF Chess!BackRow, Chess!Squares
  <2> QED
    BY <2>1 DEF Chess!BackRow, Chess!Squares, Chess!RookHome
<1>4. pos.cells[king] = <<right[1], "K">> /\ pos.cells[rook] = <<right[1], "R">>
  BY <1>1 DEF ChessPosition, SoundPosition
<1>5. /\ pos.turn \in Colors /\ other \in Colors /\ other # pos.turn
      /\ \A color \in Colors : color = other \/ color = pos.turn
      /\ {"K", "R"} \subseteq Types \ {"P"}
      /\ pos.cells[m.from] = <<pos.turn, type>>
  BY PositionSays, TwoColors DEF Goes, Types, Colors
<1>6. pos.cells[m.to] # <<other, "K">>
  BY NoKingIsTaken
<1> HIDE DEF other, after, king, rook
<1>7. /\ \A sq \in Chess!Squares(8) \ {m.to}, t \in Types \ {"P"} :
              pos.cells[sq] = <<other, t>> => after[sq] = <<other, t>>
      /\ type # "K" => \A sq \in Chess!Squares(8) \ {m.from}, t \in Types :
                            pos.cells[sq] = <<pos.turn, t>> => after[sq] = <<pos.turn, t>>
  <2>1. Leaves(pos, m, type, after)
    BY MovesLeave DEF after
  <2> QED
    BY Zenon, <2>1 DEF Leaves, other
<1>8. CASE right[1] = other
  <2>1. king # m.to /\ rook # m.to
    BY <1>1, <1>4, <1>6, <1>8
  <2>2. after[king] = <<other, "K">> /\ after[rook] = <<other, "R">>
    BY <1>3, <1>4, <1>5, <1>7, <1>8, <2>1
  <2> QED
    BY <1>1, <1>8, <2>2 DEF after, king, rook
<1>9. CASE right[1] = pos.turn
  <2>1. type # "K" /\ ~(type = "R" /\ m.from = rook)
    BY <1>1, <1>9
  <2>2. king # m.from /\ rook # m.from
    <3>1. king # m.from
      BY <1>4, <1>5, <1>9, <2>1
    <3>2. rook # m.from
      BY <1>4, <1>5, <1>9, <2>1
    <3> QED
      BY <3>1, <3>2
  <2>3. after[king] = <<pos.turn, "K">> /\ after[rook] = <<pos.turn, "R">>
    BY <1>3, <1>4, <1>5, <1>7, <1>9, <2>1, <2>2
  <2> QED
    BY <1>1, <1>9, <2>3 DEF after, king, rook
<1> QED
  BY <1>2, <1>5, <1>8, <1>9

\* A pawn that moved two rows leapt: the square between is empty behind it.
LEMMA LeapsAfter ==
  ASSUME NEW pos, ChessPosition(pos), NEW m, Goes(pos, m, "P"), m.to[1] - m.from[1] \in {-2, 2},
         NEW target, target = <<(m.from[1] + m.to[1]) \div 2, m.from[2]>>
  PROVE  /\ target \in Chess!Squares(8)
         /\ target[1] = Chess!PawnStartRow(pos.turn) + Chess!PawnDir(pos.turn)
         /\ Chess!BoardAfter(pos, m)[target] = Empty
         /\ Chess!Holds(Chess!BoardAfter(pos, m), Chess!Step(target, <<Chess!PawnDir(pos.turn), 0>>, 1), <<pos.turn, "P">>)
<1> DEFINE pd == Chess!PawnDir(pos.turn)
           after == Chess!BoardAfter(pos, m)
<1>1. pos.turn \in Colors /\ DOMAIN pos.cells = Chess!Squares(8) /\ pd \in {-1, 1}
  BY PositionSays DEF Chess!PawnDir
<1>2. PICK r \in 0 .. 7, c \in 0 .. 7 : PawnGoes(pos, r, c, pos.turn, m)
  BY DEF Goes
<1> HIDE DEF pd
<1>3. m.from[1] = r /\ m.from[2] = c /\ m.to \in Chess!Squares(8)
  BY <1>2 DEF PawnGoes
<1>4. m.to[1] # r + pd
  BY <1>1, <1>3
<1>5. /\ m.to = <<r + 2 * pd, c>> /\ r = Chess!PawnStartRow(pos.turn) /\ pos.cells[<<r + pd, c>>] = Empty
  <2>1. /\ m.to # <<r + pd, c>> /\ m.to # <<r + pd, c - 1>> /\ m.to # <<r + pd, c + 1>>
    BY <1>4
  <2> QED
    BY <1>2, <2>1 DEF PawnGoes, pd
<1>6. target = <<r + pd, c>>
  <2>1. m.to[1] = r + 2 * pd
    BY <1>5
  <2>2. (r + (r + 2 * pd)) \div 2 = r + pd
    BY <1>1
  <2> QED
    BY <1>3, <2>1, <2>2
<1>7. r + pd \in 0 .. 7 /\ r + 2 * pd # Chess!PromotionRow(pos.turn) /\ r + pd # r + 2 * pd
  BY <1>1, <1>5 DEF pd, Chess!PawnDir, Chess!PawnStartRow, Chess!PromotionRow, Colors, Chess!White, Chess!Black
<1>8. target \in Chess!Squares(8) /\ target # m.to /\ target[1] = r + pd /\ m.to[1] = r + 2 * pd
  <2>1. target \in Chess!Squares(8)
    BY <1>6, <1>7, SquaresArePairs
  <2>2. target[1] = r + pd /\ m.to[1] = r + 2 * pd
    BY <1>5, <1>6
  <2> QED
    BY <1>7, <2>1, <2>2
<1>9. /\ after \in Board /\ after[m.to] = <<pos.turn, "P">>
      /\ \A sq \in Chess!Squares(8) \ {m.to} : pos.cells[sq] = Empty => after[sq] = Empty
  <2>1. Leaves(pos, m, "P", after)
    BY MovesLeave DEF after
  <2> HIDE DEF after
  <2>2. m.to[1] # Chess!PromotionRow(pos.turn)
    BY <1>7, <1>8
  <2> QED
    BY Zenon, <2>1, <2>2 DEF Leaves
<1> HIDE DEF after
<1>10. Chess!Step(target, <<pd, 0>>, 1) = m.to
  <2>1. (r + pd) + 1 * pd = r + 2 * pd /\ c + 1 * 0 = c
    BY <1>1
  <2> QED
    BY <1>5, <1>6, <2>1 DEF Chess!Step
<1>11. Chess!Holds(after, m.to, <<pos.turn, "P">>)
  BY <1>3, <1>9 DEF Chess!Holds, Board
<1> QED
  BY <1>5, <1>6, <1>8, <1>9, <1>10, <1>11 DEF after, pd

LEMMA PositionAfter ==
  ASSUME NEW pos, ChessPosition(pos), NEW m, NEW type, Goes(pos, m, type), ~Chess!IsInCheck(Chess!BoardAfter(pos, m), pos.turn)
  PROVE  ChessPosition(Chess!ApplyMove(pos, m))
<1> DEFINE after == Chess!BoardAfter(pos, m)
           leapt == Chess!Type(pos, m) = "P" /\ m.to[1] - m.from[1] \in {-2, 2}
           target == <<(m.from[1] + m.to[1]) \div 2, m.from[2]>>
           next == Chess!ApplyMove(pos, m)
           other == Chess!OtherColor(pos.turn)
           rights == Chess!CastlingAfter(pos, m)
<1>1. /\ DOMAIN pos = {"cells", "turn", "castling", "enPassant", "over", "outcome", "endReason"}
      /\ pos.castling \subseteq Chess!FullCastling /\ (pos.over \/ pos.endReason = "none")
  BY DEF ChessPosition
<1>2. /\ pos.turn \in Colors /\ other \in Colors /\ Chess!OtherColor(other) = pos.turn /\ Chess!Type(pos, m) = type
  BY PositionSays, TwoColors DEF Goes, Chess!Type
<1>3. next = [pos EXCEPT !.cells = after, !.turn = other, !.castling = rights,
                         !.enPassant = IF leapt THEN target ELSE Chess!Nowhere]
  BY Zenon DEF Chess!ApplyMove
<1> HIDE DEF after, target, next, other, rights
<1>4. /\ DOMAIN next = DOMAIN pos /\ next.cells = after /\ next.turn = other /\ next.castling = rights
      /\ next.enPassant = (IF leapt THEN target ELSE Chess!Nowhere)
      /\ next.over = pos.over /\ next.endReason = pos.endReason
  <2> HIDE DEF leapt
  <2> QED
    BY <1>1, <1>3
<1>5. after \in Board /\ \A color \in Colors : Cardinality(Chess!Kings(after, color)) = 1
  <2>1. after \in Board
    BY MovesLeave DEF Leaves, after
  <2> QED
    BY <2>1, KingsAfter, OneKing DEF after
<1>6. \A right \in rights : /\ right \in pos.castling
                            /\ after[<<Chess!BackRow(right[1]), 4>>] = <<right[1], "K">>
                            /\ after[Chess!RookHome(right)] = <<right[1], "R">>
  BY RightsAfter DEF after, rights
<1>7. leapt => /\ target \in Chess!Squares(8)
               /\ target[1] = Chess!PawnStartRow(pos.turn) + Chess!PawnDir(pos.turn)
               /\ after[target] = Empty
               /\ Chess!Holds(after, Chess!Step(target, <<Chess!PawnDir(pos.turn), 0>>, 1), <<pos.turn, "P">>)
  BY <1>2, LeapsAfter DEF after, target
<1> HIDE DEF leapt
<1>8. SoundPosition(next)
  <2>1. \A color \in {Chess!White, Chess!Black} : Cardinality(Chess!Kings(next.cells, color)) = 1
    BY <1>4, <1>5 DEF Colors, Chess!White, Chess!Black
  <2>2. ~Chess!IsInCheck(next.cells, Chess!OtherColor(next.turn))
    BY <1>2, <1>4 DEF after
  <2>3. \A right \in next.castling : /\ next.cells[<<Chess!BackRow(right[1]), 4>>] = <<right[1], "K">>
                                     /\ next.cells[Chess!RookHome(right)] = <<right[1], "R">>
    BY <1>4, <1>6
  <2>4. ASSUME next.enPassant # Chess!Nowhere
        PROVE  /\ next.enPassant[1] = Chess!PawnStartRow(Chess!OtherColor(next.turn)) + Chess!PawnDir(Chess!OtherColor(next.turn))
               /\ next.cells[next.enPassant] = Empty
               /\ Chess!Holds(next.cells, Chess!Step(next.enPassant, <<Chess!PawnDir(Chess!OtherColor(next.turn)), 0>>, 1),
                              <<Chess!OtherColor(next.turn), "P">>)
    BY <1>2, <1>4, <1>7, <2>4
  <2> QED
    BY <2>1, <2>2, <2>3, <2>4 DEF SoundPosition
<1>9. /\ DOMAIN next = {"cells", "turn", "castling", "enPassant", "over", "outcome", "endReason"}
      /\ next.cells \in [Chess!Squares(8) -> ChessMen \cup {Empty}]
      /\ next.turn \in {Chess!White, Chess!Black} /\ next.castling \subseteq Chess!FullCastling
      /\ next.over \/ next.endReason = "none"
  BY <1>1, <1>2, <1>4, <1>5, <1>6 DEF Board, Colors, Chess!White, Chess!Black
<1>10. next.enPassant \in Chess!Squares(8) \cup {Chess!Nowhere}
  BY <1>4, <1>7
<1> QED
  BY <1>8, <1>9, <1>10 DEF ChessPosition, next

\* A position that ended for want of a move ended as it says.
ChessSound(s) ==
    /\ ChessPosition(s)
    /\ s.endReason = "checkmate" => Chess!CheckSquare(s) # {}
    /\ s.endReason = "stalemate" => Chess!CheckSquare(s) = {}

LEMMA PositionsInPlay ==
  ASSUME NEW s, ChessPosition(s)
  PROVE  ~s.over => ChessSound(s)
  BY DEF ChessSound, ChessPosition

LEMMA EndedPositions ==
  ASSUME NEW s, ChessPosition(s), NEW outcome, NEW reason, reason \in {"resign", "insufficient", "checkmate", "stalemate"},
         reason = "checkmate" => Chess!CheckSquare(s) # {},
         reason = "stalemate" => Chess!CheckSquare(s) = {}
  PROVE  ChessSound(Chess!Ended(s, outcome, reason))
<1> DEFINE end == Chess!Ended(s, outcome, reason)
<1>1. /\ DOMAIN end = DOMAIN s /\ end.cells = s.cells /\ end.turn = s.turn /\ end.castling = s.castling
      /\ end.enPassant = s.enPassant /\ end.over = TRUE /\ end.endReason = reason
  BY DEF Chess!Ended, ChessPosition
<1> HIDE DEF end
<1>2. SoundPosition(end)
  BY Zenon, <1>1 DEF ChessPosition, SoundPosition
<1>3. Chess!CheckSquare(end) = Chess!CheckSquare(s)
  BY Zenon, <1>1 DEF Chess!CheckSquare
<1>4. ChessPosition(end)
  BY <1>1, <1>2 DEF ChessPosition
<1> QED
  BY <1>1, <1>3, <1>4 DEF ChessSound, end

LEMMA ResolvedEnds ==
  ASSUME NEW s, ChessPosition(s), ~s.over
  PROVE  ChessSound(Chess!ResolveEnd(s))
<1> DEFINE stuck == ~Chess!HasLegalMove(s)
           check == Chess!IsInCheck(s.cells, s.turn)
<1>1. CASE stuck /\ check
  <2>1. Chess!ResolveEnd(s) = Chess!Ended(s, Chess!OtherColor(s.turn), "checkmate")
    BY Zenon, <1>1 DEF Chess!ResolveEnd
  <2>2. Chess!CheckSquare(s) # {}
    BY <1>1 DEF Chess!CheckSquare, Chess!IsInCheck
  <2> QED
    BY <2>1, <2>2, EndedPositions
<1>2. CASE stuck /\ ~check
  <2>1. Chess!ResolveEnd(s) = Chess!Ended(s, "draw", "stalemate")
    BY Zenon, <1>2 DEF Chess!ResolveEnd
  <2>2. Chess!CheckSquare(s) = {}
    BY <1>2 DEF Chess!CheckSquare
  <2> QED
    BY <2>1, <2>2, EndedPositions
<1>3. CASE ~stuck /\ Chess!IsInsufficientMaterial(s.cells)
  <2>1. Chess!ResolveEnd(s) = Chess!Ended(s, "draw", "insufficient")
    BY Zenon, <1>3 DEF Chess!ResolveEnd
  <2> QED
    BY <2>1, EndedPositions
<1>4. CASE ~stuck /\ ~Chess!IsInsufficientMaterial(s.cells)
  <2>1. Chess!ResolveEnd(s) = s
    BY Zenon, <1>4 DEF Chess!ResolveEnd
  <2> QED
    BY <2>1, PositionsInPlay
<1> QED
  BY Zenon, <1>1, <1>2, <1>3, <1>4

\* Whatever is submitted, the position stays sound.
LEMMA ChessMoves ==
  ASSUME NEW s, ChessSound(s), NEW p, NEW m
  PROVE  ChessSound(Chess!CollectMove(s, p, m))
<1> DEFINE next == Chess!ApplyMove(s, m)
<1>1. CASE s.over \/ p # s.turn
  <2>1. Chess!CollectMove(s, p, m) = s
    BY Zenon, <1>1 DEF Chess!CollectMove
  <2> QED
    BY <2>1
<1>2. CASE ~s.over /\ p = s.turn /\ m = Chess!Resign
  <2>1. Chess!CollectMove(s, p, m) = Chess!Ended(s, Chess!OtherColor(s.turn), "resign")
    BY Zenon, <1>2 DEF Chess!CollectMove
  <2> QED
    BY <2>1, EndedPositions DEF ChessSound
<1>3. CASE ~s.over /\ p = s.turn /\ m # Chess!Resign
  <2>1. Chess!CollectMove(s, p, m) = IF m \in Chess!LegalMovesFrom(s, m.from) THEN Chess!ResolveEnd(next) ELSE s
    BY Zenon, <1>3 DEF Chess!CollectMove
  <2> HIDE DEF next
  <2>2. CASE m \notin Chess!LegalMovesFrom(s, m.from)
    BY <2>1, <2>2
  <2>3. CASE m \in Chess!LegalMovesFrom(s, m.from)
    <3>1. /\ Chess!ColorAt(s.cells, m.from, s.turn) /\ m \in Chess!PseudoMovesFrom(s, m.from)
          /\ ~Chess!IsInCheck(Chess!BoardAfter(s, m), s.turn)
      <4>1. Chess!ColorAt(s.cells, m.from, s.turn)
        BY <2>3 DEF Chess!LegalMovesFrom
      <4>2. m \in {n \in Chess!PseudoMovesFrom(s, m.from) : ~Chess!IsInCheck(Chess!BoardAfter(s, n), s.turn)}
        BY Zenon, <2>3, <4>1 DEF Chess!LegalMovesFrom
      <4> QED
        BY Zenon, <4>1, <4>2
    <3>2. ChessPosition(s)
      BY DEF ChessSound
    <3>3. PICK type : Goes(s, m, type)
      BY <3>1, <3>2, MovesGo
    <3>4. ChessPosition(next)
      BY <3>1, <3>2, <3>3, PositionAfter DEF next
    <3>5. ~next.over
      <4>1. "over" \in DOMAIN s
        BY <3>2 DEF ChessPosition
      <4> QED
        BY <1>3, <4>1 DEF next, Chess!ApplyMove
    <3> QED
      BY <2>1, <2>3, <3>4, <3>5, ResolvedEnds
  <2> QED
    BY <2>2, <2>3
<1> QED
  BY <1>1, <1>2, <1>3

\* The position a game is opened in by the code is one of those assumed of openings.
LEMMA ChessStarts == ChessPosition(Chess!StartingPosition)
<1> DEFINE back == <<"R", "N", "B", "Q", "K", "B", "N", "R">>
           s == Chess!StartingPosition
           king(color) == IF color = "white" THEN <<7, 4>> ELSE <<0, 4>>
<1>1. /\ DOMAIN s = {"cells", "turn", "castling", "enPassant", "over", "outcome", "endReason"}
      /\ s.turn = "white" /\ s.castling = Chess!FullCastling /\ s.enPassant = Chess!Nowhere /\ s.endReason = "none"
  BY DEF Chess!StartingPosition, Chess!White
<1>2. \A c \in 0 .. 7 : /\ back[c + 1] \in Types /\ (back[c + 1] = "K" <=> c = 4) /\ (back[c + 1] = "R" <=> c \in {0, 7})
  BY DEF Types
<1> HIDE DEF back
<1>3. s.cells = [sq \in Chess!Squares(8) |-> CASE sq[1] = 0 -> <<"black", back[sq[2] + 1]>>
                                               [] sq[1] = 1 -> <<"black", "P">>
                                               [] sq[1] = 6 -> <<"white", "P">>
                                               [] sq[1] = 7 -> <<"white", back[sq[2] + 1]>>
                                               [] OTHER -> Empty]
  BY Zenon DEF Chess!StartingPosition, Chess!BoardSize, Chess!White, Chess!Black, back
<1> HIDE DEF s
<1>4. \A color \in Colors, t \in Types : <<color, t>> # Empty /\ <<color, t>> \in ChessMen
  BY OpeningsAssumption DEF ChessMen, Colors, Types, Chess!White, Chess!Black
<1>5. \A r, c \in 0 .. 7 :
         /\ r = 0 => s.cells[<<r, c>>] = <<"black", back[c + 1]>>
         /\ r = 1 => s.cells[<<r, c>>] = <<"black", "P">>
         /\ r = 6 => s.cells[<<r, c>>] = <<"white", "P">>
         /\ r = 7 => s.cells[<<r, c>>] = <<"white", back[c + 1]>>
         /\ r \in 2 .. 5 => s.cells[<<r, c>>] = Empty
  BY <1>3 DEF Chess!Squares
<1>6. DOMAIN s.cells = Chess!Squares(8) /\ "P" \in Types /\ "K" \in Types /\ "R" \in Types /\ "black" \in Colors /\ "white" \in Colors
  BY <1>3 DEF Types, Colors
\* Each man of its row, by its column.
<1>7. ASSUME NEW r \in 0 .. 7, NEW c \in 0 .. 7
      PROVE  /\ r \in 2 .. 5 => s.cells[<<r, c>>] = Empty
             /\ r \in {0, 1} => \E t \in Types :
                   s.cells[<<r, c>>] = <<"black", t>> /\ (t = "K" <=> c = 4 /\ r = 0)
             /\ r \in {6, 7} => \E t \in Types :
                   s.cells[<<r, c>>] = <<"white", t>> /\ (t = "K" <=> c = 4 /\ r = 7)
  <2>1. PICK u : u = back[c + 1] /\ u \in Types /\ (u = "K" <=> c = 4) /\ (u = "R" <=> c \in {0, 7})
    BY <1>2
  <2>2. CASE r = 0
    <3>1. s.cells[<<r, c>>] = <<"black", u>>
      BY <1>5, <2>1, <2>2
    <3> QED
      BY <2>1, <2>2, <3>1
  <2>3. CASE r = 7
    <3>1. s.cells[<<r, c>>] = <<"white", u>>
      BY <1>5, <2>1, <2>3
    <3> QED
      BY <2>1, <2>3, <3>1
  <2>4. CASE r = 1
    <3>1. s.cells[<<r, c>>] = <<"black", "P">>
      BY <1>5, <2>4
    <3> QED
      BY <1>6, <2>4, <3>1
  <2>5. CASE r = 6
    <3>1. s.cells[<<r, c>>] = <<"white", "P">>
      BY <1>5, <2>5
    <3> QED
      BY <1>6, <2>5, <3>1
  <2>6. CASE r \in 2 .. 5
    <3>1. s.cells[<<r, c>>] = Empty
      BY Zenon, <1>5, <2>6
    <3>2. r \notin {0, 1} /\ r \notin {6, 7}
      BY <2>6
    <3> QED
      BY <3>1, <3>2
  <2> QED
    BY <2>2, <2>3, <2>4, <2>5, <2>6
<1>8. s.cells \in Board
  <2>1. ASSUME NEW sq \in Chess!Squares(8)
        PROVE  s.cells[sq] \in ChessMen \cup {Empty}
    <3>1. PICK r \in 0 .. 7, c \in 0 .. 7 : sq = <<r, c>>
      BY SquaresArePairs
    <3>2. CASE r \in 2 .. 5
      BY <1>7, <3>1, <3>2
    <3>3. CASE r \in {0, 1}
      <4>1. PICK t \in Types : s.cells[<<r, c>>] = <<"black", t>>
        BY <1>7, <3>3
      <4> QED
        BY <1>4, <1>6, <3>1, <4>1
    <3>4. CASE r \in {6, 7}
      <4>1. PICK t \in Types : s.cells[<<r, c>>] = <<"white", t>>
        BY <1>7, <3>4
      <4> QED
        BY <1>4, <1>6, <3>1, <4>1
    <3> QED
      BY <3>2, <3>3, <3>4
  <2> QED
    BY <1>3, <2>1 DEF Board
<1> HIDE DEF king
<1>9. ASSUME NEW color \in Colors
      PROVE  /\ king(color) \in Chess!Squares(8)
             /\ \A sq \in Chess!Squares(8) : s.cells[sq] = <<color, "K">> <=> sq = king(color)
  <2>1. king(color) \in Chess!Squares(8)
    BY DEF Chess!Squares, king
  <2>2. ASSUME NEW sq \in Chess!Squares(8)
        PROVE  s.cells[sq] = <<color, "K">> <=> sq = king(color)
    <3>1. PICK r \in 0 .. 7, c \in 0 .. 7 : sq = <<r, c>>
      BY SquaresArePairs
    <3>2. sq = king(color) <=> c = 4 /\ r = (IF color = "white" THEN 7 ELSE 0)
      BY <3>1 DEF king
    <3>3. CASE r \in 2 .. 5
      <4>1. s.cells[<<r, c>>] = Empty
        BY <1>7, <3>3
      <4> QED
        BY <1>4, <1>6, <3>1, <3>2, <3>3, <4>1
    <3>4. CASE r \in {0, 1}
      <4>1. PICK t \in Types : s.cells[<<r, c>>] = <<"black", t>> /\ (t = "K" <=> c = 4 /\ r = 0)
        BY <1>7, <3>4
      <4> QED
        BY <3>1, <3>2, <3>4, <4>1 DEF Colors
    <3>5. CASE r \in {6, 7}
      <4>1. PICK t \in Types : s.cells[<<r, c>>] = <<"white", t>> /\ (t = "K" <=> c = 4 /\ r = 7)
        BY <1>7, <3>5
      <4> QED
        BY <3>1, <3>2, <3>5, <4>1 DEF Colors
    <3> QED
      BY <3>3, <3>4, <3>5
  <2> QED
    BY <2>1, <2>2
<1>10. ASSUME NEW color \in Colors
       PROVE  Chess!Kings(s.cells, color) = {king(color)} /\ Cardinality(Chess!Kings(s.cells, color)) = 1
  <2>1. Chess!Kings(s.cells, color) = {king(color)}
    BY <1>6, <1>9, <1>10 DEF Chess!Kings
  <2> QED
    BY <1>8, <1>9, <1>10, <2>1, OneKing
\* White's men stand on the two last rows, and Black's pawns cover Black's king.
<1>11. ASSUME NEW sq, NEW t \in Types, Chess!Holds(s.cells, sq, <<"white", t>>)
       PROVE  sq[1] \in {6, 7}
  <2>1. sq \in Chess!Squares(8) /\ s.cells[sq] = <<"white", t>>
    BY <1>6, <1>11 DEF Chess!Holds
  <2>2. PICK r \in 0 .. 7, c \in 0 .. 7 : sq = <<r, c>>
    BY <2>1, SquaresArePairs
  <2>3. Empty # <<"white", t>>
    BY <1>4, <1>6
  <2>4. CASE r \in 2 .. 5
    BY <1>7, <2>1, <2>2, <2>3, <2>4
  <2>5. CASE r \in {0, 1}
    <3>1. PICK u \in Types : s.cells[<<r, c>>] = <<"black", u>>
      BY <1>7, <2>5
    <3> QED
      BY <2>1, <2>2, <3>1
  <2>6. CASE r \in {6, 7}
    BY <2>2, <2>6
  <2> QED
    BY <2>4, <2>5, <2>6
<1>12. ASSUME NEW c, Chess!Holds(s.cells, <<1, c>>, Empty)
       PROVE  FALSE
  <2>1. c \in 0 .. 7 /\ s.cells[<<1, c>>] = Empty
    BY <1>6, <1>12, SquaresArePairs DEF Chess!Holds
  <2>2. s.cells[<<1, c>>] = <<"black", "P">>
    <3>1. 1 \in 0 .. 7
      OBVIOUS
    <3> QED
      BY Zenon, <1>5, <2>1, <3>1
  <2> QED
    BY <1>4, <1>6, <2>1, <2>2
<1>13. ~Chess!IsSquareAttacked(s.cells, <<0, 4>>, "white")
  <2>1. ASSUME NEW dc \in {-1, 1}, Chess!Holds(s.cells, <<0 - Chess!PawnDir("white"), 4 + dc>>, <<"white", "P">>)
        PROVE  FALSE
    <3>1. 0 - Chess!PawnDir("white") = 1
      BY DEF Chess!PawnDir, Chess!White
    <3> QED
      BY <1>6, <1>11, <2>1, <3>1
  <2>2. ASSUME NEW d \in Chess!KnightSteps \cup Chess!AllDirections, NEW t \in Types,
               Chess!Holds(s.cells, Chess!Step(<<0, 4>>, d, 1), <<"white", t>>)
        PROVE  FALSE
    <3>1. d[1] \in -2 .. 2
      BY DEF Chess!KnightSteps, Chess!AllDirections, Chess!Orthogonal, Chess!Diagonal
    <3>2. Chess!Step(<<0, 4>>, d, 1)[1] = d[1]
      BY <3>1 DEF Chess!Step
    <3> QED
      BY <1>11, <2>2, <3>1, <3>2
  <2>3. ASSUME NEW d \in Chess!AllDirections, NEW types, types \subseteq Types,
               Chess!RayAttacks(s.cells, <<0, 4>>, d, "white", types)
        PROVE  FALSE
    <3>1. PICK k \in 1 .. 7 : /\ \E t \in types : Chess!Holds(s.cells, Chess!Step(<<0, 4>>, d, k), <<"white", t>>)
                              /\ Chess!EmptyBetween(s.cells, <<0, 4>>, d, k)
      BY <2>3 DEF Chess!RayAttacks, Chess!BoardSize
    <3>2. PICK a \in -1 .. 1, b \in -1 .. 1 : d = <<a, b>>
      BY DEF Chess!AllDirections, Chess!Orthogonal, Chess!Diagonal
    <3>3. Chess!Step(<<0, 4>>, d, k)[1] = k * a /\ Chess!Step(<<0, 4>>, d, 1) = <<a, 4 + b>>
      BY <3>2 DEF Chess!Step
    <3>4. k * a \in {6, 7}
      BY <1>11, <2>3, <3>1, <3>3
    <3>5. a = 1 /\ k >= 6
      <4>1. a = -1 \/ a = 0 \/ a = 1
        OBVIOUS
      <4>2. k * (-1) = -k /\ k * 0 = 0 /\ k * 1 = k
        OBVIOUS
      <4> QED
        BY <3>4, <4>1, <4>2
    <3>6. Chess!Holds(s.cells, Chess!Step(<<0, 4>>, d, 1), Empty)
      <4>1. 1 \in 1 .. k - 1
        BY <3>5
      <4> QED
        BY <3>1, <4>1 DEF Chess!EmptyBetween
    <3> QED
      BY <1>12, <3>3, <3>5, <3>6
  <2>4. /\ {"R", "Q"} \subseteq Types /\ {"B", "Q"} \subseteq Types /\ {"N", "K"} \subseteq Types
        /\ Chess!Orthogonal \subseteq Chess!AllDirections /\ Chess!Diagonal \subseteq Chess!AllDirections
        /\ <<0, 4>>[1] = 0 /\ <<0, 4>>[2] = 4
    BY DEF Types, Chess!AllDirections
  <2> SUFFICES ASSUME Chess!IsSquareAttacked(s.cells, <<0, 4>>, "white") PROVE FALSE
    OBVIOUS
  <2>5. \/ \E dc \in {-1, 1} : Chess!Holds(s.cells, <<0 - Chess!PawnDir("white"), 4 + dc>>, <<"white", "P">>)
        \/ \E d \in Chess!KnightSteps : Chess!Holds(s.cells, Chess!Step(<<0, 4>>, d, 1), <<"white", "N">>)
        \/ \E d \in Chess!AllDirections : Chess!Holds(s.cells, Chess!Step(<<0, 4>>, d, 1), <<"white", "K">>)
        \/ \E d \in Chess!Orthogonal : Chess!RayAttacks(s.cells, <<0, 4>>, d, "white", {"R", "Q"})
        \/ \E d \in Chess!Diagonal : Chess!RayAttacks(s.cells, <<0, 4>>, d, "white", {"B", "Q"})
    BY <2>4 DEF Chess!IsSquareAttacked
  <2> QED
    BY Zenon, <2>1, <2>2, <2>3, <2>4, <2>5
<1>14. ~Chess!IsInCheck(s.cells, Chess!OtherColor(s.turn))
  <2>1. Chess!OtherColor(s.turn) = "black" /\ Chess!OtherColor("black") = "white"
    BY <1>1 DEF Chess!OtherColor, Chess!White, Chess!Black
  <2>2. Chess!Kings(s.cells, "black") = {<<0, 4>>}
    BY <1>6, <1>10 DEF king
  <2> QED
    BY Zenon, <1>13, <2>1, <2>2 DEF Chess!IsInCheck
<1>15. ASSUME NEW right \in Chess!FullCastling
       PROVE  /\ s.cells[<<Chess!BackRow(right[1]), 4>>] = <<right[1], "K">>
              /\ s.cells[Chess!RookHome(right)] = <<right[1], "R">>
  <2>1. right[1] \in Colors /\ right[2] \in {"K", "Q"}
    BY DEF Chess!FullCastling, Colors, Chess!White, Chess!Black
  <2>2. PICK row \in {0, 7}, col \in {0, 7} :
           Chess!BackRow(right[1]) = row /\ Chess!RookHome(right) = <<row, col>> /\ right[1] = IF row = 0 THEN "black" ELSE "white"
    BY <2>1 DEF Chess!BackRow, Chess!RookHome, Chess!White, Chess!Black, Colors
  <2>3. back[4 + 1] = "K" /\ back[col + 1] = "R" /\ 4 \in 0 .. 7 /\ col \in 0 .. 7 /\ row \in 0 .. 7
    BY <1>2
  <2>4. s.cells[<<row, 4>>] = <<right[1], "K">> /\ s.cells[<<row, col>>] = <<right[1], "R">>
    <3>1. CASE row = 0
      <4>1. s.cells[<<0, 4>>] = <<"black", back[4 + 1]>> /\ s.cells[<<0, col>>] = <<"black", back[col + 1]>>
        <5>1. 0 \in 0 .. 7
          OBVIOUS
        <5> QED
          BY Zenon, <1>5, <2>3, <5>1
      <4>2. right[1] = "black"
        BY <2>2, <3>1
      <4> QED
        BY Zenon, <2>3, <3>1, <4>1, <4>2
    <3>2. CASE row = 7
      <4>1. s.cells[<<7, 4>>] = <<"white", back[4 + 1]>> /\ s.cells[<<7, col>>] = <<"white", back[col + 1]>>
        <5>1. 7 \in 0 .. 7
          OBVIOUS
        <5> QED
          BY Zenon, <1>5, <2>3, <5>1
      <4>2. right[1] = "white"
        BY <2>2, <3>2
      <4> QED
        BY Zenon, <2>3, <3>2, <4>1, <4>2
    <3> QED
      BY <3>1, <3>2
  <2> QED
    BY <2>2, <2>4
<1>16. SoundPosition(s)
  BY <1>1, <1>6, <1>10, <1>14, <1>15 DEF SoundPosition, Colors, Chess!White, Chess!Black
<1> QED
  BY <1>1, <1>8, <1>16 DEF ChessPosition, Board, Chess!White, s

--------------------------------------------------------------------------------
(* Every live game, through its screens.                                      *)

\* Checkers opens as its rules ask of an opening: no man on the row that crowns it.
LEMMA DraughtsStart ==
  ASSUME HomeRows \in Nat, 2 * HomeRows <= CheckersSize, NEW s \in Checkers!Opening
  PROVE  DraughtsPosition(s)
<1> DEFINE cells == Checkers!StartingBoard
<1>1. s.cells = cells
  BY DEF Checkers!Opening
<1>2. DOMAIN cells = Checkers!Squares(CheckersSize)
  BY DEF Checkers!StartingBoard
<1>3. ASSUME NEW sq \in Checkers!Squares(CheckersSize), cells[sq] # Empty
      PROVE  Checkers!IsDark(sq) /\ ~Checkers!Crowns(cells[sq], sq[1])
  <2>1. sq[1] \in 0 .. CheckersSize - 1 /\ CheckersSize \in Nat
    BY OpeningsAssumption DEF Checkers!Squares
  <2>2. CASE Checkers!IsDark(sq) /\ sq[1] < HomeRows
    <3>1. ~(sq[1] >= CheckersSize - HomeRows)
      BY <2>1, <2>2
    <3>2. cells[sq] = Checkers!Man("amber")
      BY <1>3, <2>2, <3>1 DEF Checkers!StartingBoard
    <3>3. sq[1] # CheckersSize - 1
      BY <2>1, <2>2
    <3> QED
      BY <2>2, <3>2, <3>3 DEF Checkers!Crowns, Checkers!CrownRow, Checkers!Man
  <2>3. CASE Checkers!IsDark(sq) /\ ~(sq[1] < HomeRows) /\ sq[1] >= CheckersSize - HomeRows
    <3>1. cells[sq] = Checkers!Man("violet")
      BY <1>3, <2>3 DEF Checkers!StartingBoard
    <3>2. sq[1] # 0
      BY <2>1, <2>3
    <3> QED
      BY <2>3, <3>1, <3>2 DEF Checkers!Crowns, Checkers!CrownRow, Checkers!Man
  <2>4. CASE ~Checkers!IsDark(sq) \/ ~(sq[1] < HomeRows \/ sq[1] >= CheckersSize - HomeRows)
    <3>1. cells[sq] = Empty
      BY <1>3, <2>4 DEF Checkers!StartingBoard
    <3> QED
      BY <1>3, <3>1
  <2> QED
    BY <2>2, <2>3, <2>4
<1> QED
  BY <1>1, <1>2, <1>3 DEF DraughtsPosition

\* What each module keeps of its own state, by game.
Sound(g, s) ==
    /\ g = "reversi"      => ReversiSound(s)
    /\ g = "checkers"     => DraughtsSound(s)
    /\ g = "chess"        => ChessSound(s)
    /\ g = "teeter-tower" => TeeterSound(s)
    /\ g = "nightleaf"    => NightleafSound(s)
    /\ g = "brambles"     => BramblesSound(s)
    /\ g = "whispergrove" => GroveSound(s)

LiveGamesSound == game \in Games /\ Sound(game, scratch)

LEMMA ChessOpens ==
  ASSUME NEW s \in ChessOpenings \cup {Chess!StartingPosition}
  PROVE  ChessSound(s)
<1>1. CASE s \in ChessOpenings
  BY <1>1, OpeningsAssumption, PositionsInPlay
<1>2. CASE s = Chess!StartingPosition
  <2>1. ~s.over
    BY <1>2 DEF Chess!StartingPosition
  <2> QED
    BY <1>2, <2>1, ChessStarts, PositionsInPlay
<1> QED
  BY <1>1, <1>2

LEMMA GamesOpen ==
  ASSUME NEW g \in Games, NEW s \in Openings(g)
  PROVE  Sound(g, s)
<1>1. CASE g = "reversi"
  <2>1. s \in Reversi!Opening
    BY <1>1 DEF Openings
  <2> QED
    BY <1>1, <2>1, ReversiOpens DEF Sound
<1>2. CASE g = "checkers"
  <2>1. s \in CheckersOpenings
    BY <1>2 DEF Openings
  <2> QED
    BY <1>2, <2>1, OpeningsAssumption DEF Sound, DraughtsSound
<1>3. CASE g = "chess"
  <2>1. s \in ChessOpenings
    BY <1>3 DEF Openings
  <2> QED
    BY <1>3, <2>1, ChessOpens DEF Sound
<1>4. CASE g = "teeter-tower"
  <2>1. s \in Teeter!Opening
    BY <1>4 DEF Openings
  <2> QED
    BY <1>4, <2>1, TeeterOpens DEF Sound
<1>5. CASE g = "nightleaf"
  <2>1. s \in Nightleaf!Opening
    BY <1>5 DEF Openings
  <2> QED
    BY <1>5, <2>1, NightleafOpens DEF Sound
<1>6. CASE g = "brambles"
  <2>1. s \in Brambles!Opening
    BY <1>6 DEF Openings
  <2> QED
    BY <1>6, <2>1, BramblesOpens DEF Sound
<1>7. CASE g = "whispergrove"
  <2>1. s \in Whispergrove!Opening
    BY <1>7 DEF Openings
  <2> QED
    BY <1>7, <2>1, GroveOpens DEF Sound
<1> QED
  BY <1>1, <1>2, <1>3, <1>4, <1>5, <1>6, <1>7, GamesAssumption

LEMMA GamesMove ==
  ASSUME LiveGamesSound, NEW p \in Players, NEW m, game = "whispergrove" => m.kind \in {"whisper", "tap"},
         NEW t \in Accepted(p, m)
  PROVE  Sound(game, t)
<1>1. t = scratch \/ t \in CollectMove(p, m)
  BY DEF Accepted
<1>2. CASE t = scratch
  BY <1>2 DEF LiveGamesSound
<1>3. CASE t \in CollectMove(p, m)
  <2>1. CASE game = "reversi"
    <3>1. t = Reversi!CollectMove(scratch, p, m)
      BY <1>3, <2>1 DEF CollectMove
    <3> QED
      BY <2>1, <3>1, ReversiMoves DEF LiveGamesSound, Sound
  <2>2. CASE game = "checkers"
    <3>1. t = Checkers!CollectMove(scratch, p, m)
      BY <1>3, <2>2 DEF CollectMove
    <3> QED
      BY <2>2, <3>1, DraughtsMoves DEF LiveGamesSound, Sound
  <2>3. CASE game = "chess"
    <3>1. t = Chess!CollectMove(scratch, p, m)
      BY <1>3, <2>3 DEF CollectMove
    <3> QED
      BY <2>3, <3>1, ChessMoves DEF LiveGamesSound, Sound
  <2>4. CASE game = "teeter-tower"
    <3>1. t = Teeter!CollectMove(scratch, p, m)
      BY <1>3, <2>4 DEF CollectMove
    <3> QED
      BY <2>4, <3>1, TeeterMoves DEF LiveGamesSound, Sound
  <2>5. CASE game = "nightleaf"
    <3>1. t = Nightleaf!CollectMove(scratch, p, m)
      BY <1>3, <2>5 DEF CollectMove
    <3>2. p \in Nightleaf!Players
      BY <2>5 DEF Players, Range, Nightleaf!Players, Nightleaf!Range
    <3> QED
      BY <2>5, <3>1, <3>2, NightleafMoves DEF LiveGamesSound, Sound
  <2>6. CASE game = "brambles"
    <3>1. t \in Brambles!CollectMove(scratch, p, m)
      BY <1>3, <2>6 DEF CollectMove
    <3> QED
      BY <2>6, <3>1, BramblesMoves DEF LiveGamesSound, Sound
  <2>7. CASE game = "whispergrove"
    <3>1. t = Whispergrove!CollectMove(scratch, p, m)
      BY <1>3, <2>7 DEF CollectMove
    <3> QED
      BY <2>7, <3>1, GroveMoves DEF LiveGamesSound, Sound
  <2> QED
    BY <2>1, <2>2, <2>3, <2>4, <2>5, <2>6, <2>7, GamesAssumption DEF LiveGamesSound
<1> QED
  BY <1>1, <1>2, <1>3

LEMMA GamesTick ==
  ASSUME LiveGamesSound, NEW t \in Ticked
  PROVE  Sound(game, t)
<1>1. CASE game = "teeter-tower"
  <2>1. t \in Teeter!Tick(scratch)
    BY <1>1 DEF Ticked
  <2> QED
    BY <1>1, <2>1, TeeterTicks DEF LiveGamesSound, Sound
<1>2. CASE game = "nightleaf"
  <2>1. t \in Nightleaf!Tick(scratch)
    BY <1>2 DEF Ticked
  <2> QED
    BY <1>2, <2>1, NightleafTicks DEF LiveGamesSound, Sound
<1>3. CASE game = "brambles"
  <2>1. t \in Brambles!Tick(scratch)
    BY <1>3 DEF Ticked
  <2> QED
    BY <1>3, <2>1, BramblesTicks DEF LiveGamesSound, Sound
<1>4. CASE game \notin {"teeter-tower", "nightleaf", "brambles"}
  <2>1. t = scratch
    BY <1>4 DEF Ticked
  <2> QED
    BY <2>1 DEF LiveGamesSound
<1> QED
  BY <1>1, <1>2, <1>3, <1>4

\* What a client sends in a grove is a whisper or a tap.
LEMMA GroveSends ==
  ASSUME game = "whispergrove", NEW p
  PROVE  /\ \A m \in Moves(p) : m.kind \in {"whisper", "tap"}
         /\ \A d : \A t \in Taps(d, p) : \A m \in Range(t.sends) : m.kind \in {"whisper", "tap"}
<1>1. \A m \in Moves(p) : m.kind \in {"whisper", "tap"}
  BY DEF Moves, Whispergrove!Moves
<1>2. ASSUME NEW d, NEW t \in Taps(d, p), NEW m \in Range(t.sends)
      PROVE  m.kind \in {"whisper", "tap"}
  <2>1. Taps(d, p) = {[device |-> d, sends |-> <<n>>] : n \in Offered(p)}
    BY DEF Taps
  <2>2. PICK n \in Offered(p) : t = [device |-> d, sends |-> <<n>>]
    BY <1>2, <2>1
  <2>3. m = n
    BY <1>2, <2>2 DEF Range
  <2>4. n \in Whispergrove!Offers(Shown, p)
    BY <2>2 DEF Offered
  <2>5. n \in Whispergrove!Controls(Whispergrove!Snapshot(Shown), p)
    BY <2>4 DEF Whispergrove!Offers
  <2> DEFINE sim == Whispergrove!Snapshot(Shown)
             whispers == [kind : {"whisper"}, word : {"fresh", "on the grove", "two tokens"}, count : 0 .. Whispergrove!GridSize]
             taps == {[kind |-> "tap", index |-> i] :
                         i \in {j \in Whispergrove!Grid : sim.leaves[j] = Whispergrove!Nobody}}
  <2> HIDE DEF sim
  <2>6. n \in whispers \/ n \in taps
    <3> HIDE DEF whispers, taps
    <3>1. Whispergrove!Controls(sim, p) \in {whispers, taps, {}}
      BY Zenon DEF Whispergrove!Controls, whispers, taps
    <3> QED
      BY <2>5, <3>1 DEF sim
  <2>7. ASSUME n \in whispers PROVE n.kind = "whisper"
    BY <2>7
  <2>8. ASSUME n \in taps PROVE n.kind = "tap"
    <3>1. PICK i : n = [kind |-> "tap", index |-> i]
      BY Zenon, <2>8
    <3> QED
      BY <3>1
  <2> QED
    BY <2>3, <2>6, <2>7, <2>8
<1> QED
  BY <1>1, <1>2

LEMMA SubmissionsKeepSound ==
  ASSUME LiveGamesSound, NEW p \in Players, NEW m, game = "whispergrove" => m.kind \in {"whisper", "tap"},
         Submitted(p, m)
  PROVE  LiveGamesSound'
<1>1. scratch' \in Accepted(p, m) /\ game' = game
  BY DEF Submitted
<1>2. Sound(game, scratch')
  BY <1>1, GamesMove
<1> QED
  BY <1>1, <1>2 DEF LiveGamesSound, Sound

LEMMA FramesKeepSound ==
  ASSUME LiveGamesSound, SimTick
  PROVE  LiveGamesSound'
<1>1. scratch' \in Ticked /\ game' = game
  BY DEF SimTick
<1>2. Sound(game, scratch')
  BY <1>1, GamesTick
<1> QED
  BY <1>1, <1>2 DEF LiveGamesSound, Sound

LEMMA RestartsAreSound ==
  ASSUME LiveGamesSound, Restart
  PROVE  LiveGamesSound'
<1>1. scratch' \in (IF game = "chess" THEN {Chess!StartingPosition} ELSE Openings(game)) /\ game' = game
  BY DEF Restart
<1>2. Sound(game, scratch')
  <2>1. CASE game = "chess"
    BY <1>1, <2>1, ChessOpens DEF Sound
  <2>2. CASE game # "chess"
    BY <1>1, <2>2, GamesOpen DEF LiveGamesSound
  <2> QED
    BY <2>1, <2>2
<1> QED
  BY <1>1, <1>2 DEF LiveGamesSound, Sound

LEMMA ScreensKeepSound ==
  ASSUME LiveGamesSound, [ScreensNext]_screenVars
  PROVE  LiveGamesSound'
<1>1. ASSUME NEW p \in Players, Tap(p)
      PROVE  LiveGamesSound'
  <2>1. PICK t \in Taps(device[p], p) : UNCHANGED vars \/ \E m \in Range(t.sends) : Submitted(p, m)
    BY <1>1 DEF Tap
  <2>2. CASE UNCHANGED vars
    BY <2>2 DEF vars, LiveGamesSound, Sound
  <2>3. ASSUME NEW m \in Range(t.sends), Submitted(p, m)
        PROVE  LiveGamesSound'
    <3>1. game = "whispergrove" => m.kind \in {"whisper", "tap"}
      BY <2>3, GroveSends
    <3> QED
      BY <1>1, <2>3, <3>1, SubmissionsKeepSound
  <2> QED
    BY <2>1, <2>2, <2>3
<1>2. CASE Publish
  BY <1>2, FramesKeepSound DEF Publish
<1>3. CASE Restart
  BY <1>3, RestartsAreSound
<1>4. ASSUME NEW p \in Players, NEW m \in Moves(p), Submitted(p, m)
      PROVE  LiveGamesSound'
  <2>1. game = "whispergrove" => m.kind \in {"whisper", "tap"}
    BY <1>4, GroveSends
  <2> QED
    BY <1>4, <2>1, SubmissionsKeepSound
<1>5. CASE Closed
  BY <1>5 DEF Closed, HostAdvance, LiveGamesSound, Sound
<1>6. CASE UNCHANGED screenVars
  BY <1>6 DEF screenVars, vars, LiveGamesSound, Sound
<1>7. CASE Elsewhere
  BY <1>4, <1>7 DEF Elsewhere, SubmitMove
<1> QED
  BY <1>1, <1>2, <1>3, <1>5, <1>6, <1>7 DEF ScreensNext

\* The positions a game's own invariant leaves are those the screens rely on.
LEMMA SoundPositions ==
  ASSUME LiveGamesSound
  PROVE  PositionsSound
<1>1. CASE game = "reversi"
  BY <1>1, ReversiPositions DEF LiveGamesSound, Sound
<1>2. CASE game = "checkers"
  BY <1>2, DraughtsPositions DEF LiveGamesSound, Sound
<1>3. CASE game = "chess"
  BY <1>3 DEF LiveGamesSound, Sound, ChessSound, ChessPosition, PositionsSound
<1>4. CASE game = "teeter-tower"
  BY <1>4 DEF LiveGamesSound, Sound, TeeterSound, PositionsSound
<1>5. CASE game = "nightleaf"
  BY <1>5, NightleafPositions DEF LiveGamesSound, Sound
<1>6. CASE game = "brambles"
  BY <1>6 DEF LiveGamesSound, Sound, BramblesSound, Spent, PositionsSound
<1>7. CASE game = "whispergrove"
  <2>1. GroveSound(scratch)
    BY <1>7 DEF LiveGamesSound, Sound
  <2>2. IF scratch.phase = "over"
        THEN \/ scratch.endReason = "cleared" /\ AllShow(scratch, scratch.winner)
             \/ scratch.endReason = "deadwood" /\ AllShow(scratch, "deadwood") /\ ~AllShow(scratch, scratch.winner)
        ELSE /\ \A role \in {"violet", "amber"} : ~AllShow(scratch, role)
             /\ scratch.phase = "guessing" => scratch.guessesLeft \in 1 .. scratch.count + 1
    BY <2>1 DEF GroveSound, Teams
  <2> QED
    BY <1>7, <2>2 DEF AllShow, PositionsSound
<1> QED
  BY <1>1, <1>2, <1>3, <1>4, <1>5, <1>6, <1>7, GamesAssumption DEF LiveGamesSound

\* Whatever is tapped, sent from elsewhere, restarted or ticked, in any order, the
\* state every live game is left in agrees with itself.
THEOREM PositionsAreSound == ScreensSpec => []PositionsSound
<1>1. ScreensInit => LiveGamesSound
  BY GamesOpen DEF ScreensInit, Init, LiveGamesSound
<1>2. LiveGamesSound /\ [ScreensNext]_screenVars => LiveGamesSound'
  BY ScreensKeepSound
<1>3. LiveGamesSound => PositionsSound
  BY SoundPositions
<1> QED
  BY <1>1, <1>2, <1>3, PTL DEF ScreensSpec

--------------------------------------------------------------------------------
(* What the screens offer: it is there to be taken.                            *)

\* A square on offer in Reversi is empty and will not be.
LEMMA DiscsLand ==
  ASSUME NEW s, ReversiSound(s), ~s.over, NEW sq \in Reversi!LegalMoves(s.cells, s.turn)
  PROVE  Reversi!CollectMove(s, s.turn, sq) # s
<1> DEFINE next == Reversi!ApplyMove(s.cells, s.turn, sq)
           r == Reversi!CollectMove(s, s.turn, sq)
<1>1. Reversi!Holds(s.cells, sq, Empty)
  BY DEF Reversi!LegalMoves, Reversi!FlipsFor
<1>2. sq \in DOMAIN s.cells /\ s.cells[sq] = Empty /\ Empty # s.turn
  BY <1>1, SeatsAssumption DEF Reversi!Holds, ReversiSound
<1>3. next[sq] = s.turn
  BY <1>2 DEF Reversi!ApplyMove, Reversi!Placed
<1>4. r.cells = next
  <2> HIDE DEF next
  <2>1. r = LET to == Reversi!ResolveTurn(next, Reversi!OtherSide(s.turn))
            IN  [cells |-> next, turn |-> to.turn, passed |-> to.passed, over |-> to.over]
    BY Zenon DEF Reversi!CollectMove, next
  <2> QED
    BY <2>1
<1> QED
  BY <1>2, <1>3, <1>4

\* A move of Checkers passes the turn.
LEMMA DraughtsLand ==
  ASSUME NEW s, ~s.over, NEW m \in Checkers!LegalMoves(s.cells, s.turn)
  PROVE  Checkers!CollectMove(s, s.turn, m) # s
<1> DEFINE next == Checkers!ApplyMove(s.cells, s.turn, m)
           r == Checkers!CollectMove(s, s.turn, m)
<1>1. r = [cells |-> next, turn |-> Checkers!OtherSide(s.turn), over |-> Checkers!LegalMoves(next, Checkers!OtherSide(s.turn)) = {}]
  BY Zenon DEF Checkers!CollectMove
<1>2. r.turn = Checkers!OtherSide(s.turn)
  <2> HIDE DEF next
  <2> QED
    BY <1>1
<1>3. Checkers!OtherSide(s.turn) # s.turn
  BY DEF Checkers!OtherSide
<1> QED
  BY <1>2, <1>3

\* What the buttons of a hand do.
LEMMA LeavesLand ==
  ASSUME NEW s, NightleafSound(s), NEW p \in Nightleaf!Players, NEW m \in Nightleaf!Offers(s, p)
  PROVE  Nightleaf!CollectMove(s, p, m) # s
<1> DEFINE sim == Nightleaf!Snapshot(s)
<1>1. sim.over = s.over /\ sim.phase = s.phase /\ sim.fireflies = s.fireflies /\ sim.hushProposers = s.hushProposers
  BY DEF Nightleaf!Snapshot
<1>2. m \in Nightleaf!Controls(sim, s.hands[p], p)
  BY DEF Nightleaf!Offers, Nightleaf!Secret
<1> HIDE DEF sim
<1>3. /\ ~s.over /\ s.phase = "playing" /\ s.hands[p] # {}
      /\ m = "play" \/ (m = "hush" /\ s.fireflies > 0 /\ p \notin s.hushProposers)
  BY <1>1, <1>2 DEF Nightleaf!Controls
<1>4. /\ s.hands \in [Nightleaf!Players -> SUBSET Nightleaf!Leaves] /\ s.trunk \in Seq(Nightleaf!Leaves)
      /\ NightleafFields \subseteq DOMAIN s
  BY DEF NightleafSound
<1> DEFINE leaf == Nightleaf!Lowest(s.hands[p])
<1>5. leaf \in s.hands[p]
  BY <1>3, <1>4, LowestIsHeld
<1>6. CASE m = "play"
  <2> DEFINE r == Nightleaf!Play(s, p)
  <2>1. Nightleaf!CollectMove(s, p, m) = r
    BY <1>3, <1>6 DEF Nightleaf!CollectMove, Nightleaf!MayPlay
  <2> DEFINE played == [s EXCEPT !.hands[p] = @ \ {leaf}, !.trunk = Append(@, leaf), !.hushProposers = {}]
  <2>2. DOMAIN played = DOMAIN s /\ played.trunk = Append(s.trunk, leaf)
    BY <1>4 DEF NightleafFields
  <2>3. r.trunk = Append(s.trunk, leaf)
    <3>1. r \in {Nightleaf!Banner([played EXCEPT !.buds = @ - 1], "misplay"), Nightleaf!Banner(played, "tier-cleared"), played}
      BY Zenon DEF Nightleaf!Play, Nightleaf!Settled
    <3> HIDE DEF played, r
    <3> QED
      BY <1>4, <2>2, <3>1 DEF Nightleaf!Banner, NightleafFields
  <2>4. Append(s.trunk, leaf) # s.trunk
    <3>1. Len(Append(s.trunk, leaf)) = Len(s.trunk) + 1 /\ Len(s.trunk) \in Nat
      BY <1>4
    <3> QED
      BY <3>1
  <2> QED
    BY <2>1, <2>3, <2>4
<1>7. CASE m = "hush"
  <2> DEFINE r == Nightleaf!Hush(s, p)
             hands == [q \in Nightleaf!Players |->
                       s.hands[q] \ (IF s.hands[q] = {} THEN {} ELSE {Nightleaf!Lowest(s.hands[q])})]
             asked == [s EXCEPT !.hushProposers = @ \cup {p}]
             fired == [s EXCEPT !.hushProposers = {}, !.fireflies = @ - 1, !.hands = hands]
  <2>1. Nightleaf!CollectMove(s, p, m) = r
    BY <1>3, <1>7 DEF Nightleaf!CollectMove, Nightleaf!MayPlay, Nightleaf!MayHush
  <2>2. r \in {Nightleaf!Banner(fired, "tier-cleared"), fired, asked}
    BY Zenon DEF Nightleaf!Hush, Nightleaf!Settled
  <2>3. asked.hushProposers # s.hushProposers
    BY <1>3, <1>4, <1>7 DEF NightleafFields
  <2>4. DOMAIN fired = DOMAIN s /\ fired.hands = hands
    BY <1>4 DEF NightleafFields
  <2>5. hands # s.hands
    <3>1. hands[p] = s.hands[p] \ {leaf}
      BY <1>3
    <3> QED
      BY <1>5, <3>1
  <2>6. Nightleaf!Banner(fired, "tier-cleared").hands = hands
    <3> HIDE DEF fired, hands
    <3> QED
      BY <1>4, <2>4 DEF Nightleaf!Banner, NightleafFields
  <2> HIDE DEF fired, asked, hands, r
  <2> QED
    BY <2>1, <2>2, <2>3, <2>4, <2>5, <2>6
<1> QED
  BY <1>3, <1>6, <1>7

\* A leaf of the grove that is offered shows once it is tapped.
LEMMA TapsLand ==
  ASSUME NEW s, GroveSound(s), NEW p \in Whispergrove!Players, NEW m \in Whispergrove!Offers(s, p), m.kind # "whisper"
  PROVE  Whispergrove!CollectMove(s, p, m) # s
<1> DEFINE sim == Whispergrove!Snapshot(s)
           whispers == [kind : {"whisper"}, word : {"fresh", "on the grove", "two tokens"}, count : 0 .. Whispergrove!GridSize]
           taps == {[kind |-> "tap", index |-> i] :
                       i \in {j \in Whispergrove!Grid : sim.leaves[j] = Whispergrove!Nobody}}
           seat == sim.seats[p]
<1>1. /\ sim.leaves = [i \in Whispergrove!Grid |-> IF i \in s.revealed THEN s.key[i] ELSE Whispergrove!Nobody]
      /\ sim.phase = s.phase /\ sim.turn = s.turn /\ sim.guessesLeft = s.guessesLeft
      /\ seat = [team |-> Whispergrove!TeamOf(p), whisperer |-> Whispergrove!IsWhisperer(p)]
  BY DEF Whispergrove!Snapshot
<1>2. m \in Whispergrove!Controls(sim, p)
  BY DEF Whispergrove!Offers
<1> HIDE DEF sim
<1>3. m \notin whispers
  BY DEF whispers
<1>4. /\ sim.phase # "over" /\ seat.team = sim.turn /\ ~seat.whisperer /\ sim.phase = "guessing" /\ sim.guessesLeft > 0
      /\ m \in taps
  <2> HIDE DEF whispers, taps, seat
  <2> QED
    BY Zenon, <1>2, <1>3 DEF Whispergrove!Controls, whispers, taps, seat
<1>5. PICK i \in Whispergrove!Grid : m = [kind |-> "tap", index |-> i] /\ sim.leaves[i] = Whispergrove!Nobody
  BY Zenon, <1>4 DEF taps
<1>6. i \notin s.revealed
  BY <1>1, <1>5 DEF GroveSound, Whispergrove!Roles, Whispergrove!Teams, Whispergrove!Nobody
<1>7. Whispergrove!MayTap(s, p, m)
  BY <1>1, <1>4, <1>5, <1>6 DEF Whispergrove!MayTap, seat
<1> DEFINE shown == [s EXCEPT !.revealed = @ \cup {i}, !.guessesLeft = @ - 1]
           r == Whispergrove!Tap(s, i)
<1>8. DOMAIN shown = DOMAIN s /\ shown.revealed = s.revealed \cup {i} /\ GroveFields \subseteq DOMAIN s
  BY DEF GroveSound, GroveFields
<1>9. \/ \E team, reason : r = Whispergrove!EndGameWith(shown, team, reason)
      \/ r \in {Whispergrove!PassTurn(shown), shown}
  BY Zenon DEF Whispergrove!Tap
<1>10. r.revealed = s.revealed \cup {i}
  <2> HIDE DEF shown, r
  <2> QED
    BY <1>8, <1>9 DEF Whispergrove!EndGameWith, Whispergrove!PassTurn, GroveFields
<1>11. Whispergrove!CollectMove(s, p, m) = r
  BY <1>5, <1>7 DEF Whispergrove!CollectMove
<1> QED
  BY <1>6, <1>10, <1>11

\* Attacks depend on where the attacker's men are and which squares are empty.
LEMMA SameAttacks ==
  ASSUME NEW a, NEW b, NEW by, DOMAIN a = DOMAIN b,
         \A sq \in DOMAIN a : a[sq] = Empty <=> b[sq] = Empty,
         \A sq \in DOMAIN a : \A t \in Types : a[sq] = <<by, t>> <=> b[sq] = <<by, t>>
  PROVE  \A sq : Chess!IsSquareAttacked(a, sq, by) <=> Chess!IsSquareAttacked(b, sq, by)
<1>1. \A sq : Chess!Holds(a, sq, Empty) <=> Chess!Holds(b, sq, Empty)
  BY DEF Chess!Holds
<1>2. \A sq : \A t \in Types : Chess!Holds(a, sq, <<by, t>>) <=> Chess!Holds(b, sq, <<by, t>>)
  BY DEF Chess!Holds
<1>3. \A sq, d, k : Chess!EmptyBetween(a, sq, d, k) <=> Chess!EmptyBetween(b, sq, d, k)
  BY Zenon, <1>1 DEF Chess!EmptyBetween
<1>4. ASSUME NEW sq, NEW d, NEW types \in SUBSET Types
      PROVE  Chess!RayAttacks(a, sq, d, by, types) <=> Chess!RayAttacks(b, sq, d, by, types)
  BY <1>2, <1>3 DEF Chess!RayAttacks
<1>5. {"R", "Q"} \in SUBSET Types /\ {"B", "Q"} \in SUBSET Types /\ "P" \in Types /\ "N" \in Types /\ "K" \in Types
  BY DEF Types
<1> QED
  BY Zenon, <1>2, <1>4, <1>5 DEF Chess!IsSquareAttacked

\* A move says where it comes from; only pawns on the last rank promote.
LEMMA MovesComeFrom ==
  ASSUME NEW pos, ChessPosition(pos), NEW from, Chess!ColorAt(pos.cells, from, pos.turn),
         NEW m \in Chess!PseudoMovesFrom(pos, from)
  PROVE  /\ m.from = from /\ m # Chess!Resign
         /\ m.promotion # "none" =>
              /\ pos.cells[from] = <<pos.turn, "P">>
              /\ m.promotion \in {"Q", "R", "B", "N"} /\ m.to[1] = Chess!PromotionRow(pos.turn)
              /\ \A t \in {"Q", "R", "B", "N"} :
                    [from |-> m.from, to |-> m.to, promotion |-> t] \in Chess!PseudoMovesFrom(pos, from)
<1>1. pos.cells \in Board /\ DOMAIN pos.cells = Chess!Squares(8) /\ pos.turn \in Colors
  BY PositionSays
<1>2. from \in Chess!Squares(8)
  BY <1>1 DEF Chess!ColorAt
<1>3. PICK type \in Types : pos.cells[from] = <<pos.turn, type>>
  BY <1>1, <1>2, CellsHold
<1>4. pos.cells[from][1] = pos.turn /\ pos.cells[from][2] = type
  BY <1>3
<1>5. \A tos : \A n \in Chess!Quiet(from, tos) : n.from = from /\ n.promotion = "none" /\ n # Chess!Resign
  BY DEF Chess!Quiet, Chess!Resign
<1>6. CASE type = "P"
  <2>1. Chess!PseudoMovesFrom(pos, from) = Chess!PawnMoves(pos, from, pos.turn)
    BY Zenon, <1>4, <1>6 DEF Chess!PseudoMovesFrom
  <2>2. \E arrivals, others : Chess!PawnMoves(pos, from, pos.turn) =
            Chess!PawnArrives(from, arrivals, pos.turn) \cup Chess!Quiet(from, others)
    BY Zenon DEF Chess!PawnMoves
  <2>3. PICK arrivals, others : Chess!PawnMoves(pos, from, pos.turn) =
            Chess!PawnArrives(from, arrivals, pos.turn) \cup Chess!Quiet(from, others)
    BY <2>2
  <2> DEFINE last == {to \in arrivals : to[1] = Chess!PromotionRow(pos.turn)}
             promotions == [from : {from}, to : last, promotion : {"Q", "R", "B", "N"}]
  <2>4. PICK before : Chess!PawnArrives(from, arrivals, pos.turn) = Chess!Quiet(from, before) \cup promotions
    BY Zenon DEF Chess!PawnArrives
  <2>5. m \in promotions \/ (m.from = from /\ m.promotion = "none" /\ m # Chess!Resign)
    BY <1>5, <2>1, <2>3, <2>4
  <2>6. ASSUME m \in promotions
        PROVE  /\ m.from = from /\ m # Chess!Resign
               /\ m.promotion \in {"Q", "R", "B", "N"} /\ m.to[1] = Chess!PromotionRow(pos.turn)
               /\ \A t \in {"Q", "R", "B", "N"} : [from |-> m.from, to |-> m.to, promotion |-> t] \in promotions
    <3>1. m.from = from /\ m.to \in last /\ m.promotion \in {"Q", "R", "B", "N"}
      BY <2>6
    <3>3. m # Chess!Resign
      BY <2>6 DEF Chess!Resign
    <3> HIDE DEF last
    <3>2. \A t \in {"Q", "R", "B", "N"} : [from |-> m.from, to |-> m.to, promotion |-> t] \in promotions
      BY <3>1
    <3> QED
      BY <3>1, <3>2, <3>3 DEF last
  <2> HIDE DEF promotions
  <2> QED
    BY <1>3, <1>6, <2>1, <2>3, <2>4, <2>5, <2>6
<1>7. CASE type \in Types \ {"P"}
  <2>1. \/ Chess!PseudoMovesFrom(pos, from) = Chess!StepMoves(pos.cells, from, pos.turn, Chess!KnightSteps)
        \/ \E dirs : Chess!PseudoMovesFrom(pos, from) = Chess!SlideMoves(pos.cells, from, pos.turn, dirs)
        \/ Chess!PseudoMovesFrom(pos, from) =
              Chess!StepMoves(pos.cells, from, pos.turn, Chess!AllDirections) \cup Chess!Castles(pos, from, pos.turn)
    BY Zenon, <1>4, <1>7 DEF Chess!PseudoMovesFrom, Types
  <2>2. \A steps : \A n \in Chess!StepMoves(pos.cells, from, pos.turn, steps) : n.from = from /\ n.promotion = "none" /\ n # Chess!Resign
    BY Zenon, <1>5 DEF Chess!StepMoves
  <2>3. \A dirs : \A n \in Chess!SlideMoves(pos.cells, from, pos.turn, dirs) : n.from = from /\ n.promotion = "none" /\ n # Chess!Resign
    BY Zenon, <1>5 DEF Chess!SlideMoves
  <2>4. \A n \in Chess!Castles(pos, from, pos.turn) : n.from = from /\ n.promotion = "none" /\ n # Chess!Resign
    <3>1. \/ Chess!Castles(pos, from, pos.turn) = {}
          \/ \E tos : Chess!Castles(pos, from, pos.turn) = Chess!Quiet(from, tos)
      BY Zenon DEF Chess!Castles
    <3> QED
      BY <1>5, <3>1
  <2> QED
    BY <2>1, <2>2, <2>3, <2>4
<1> QED
  BY <1>6, <1>7

\* The four promotions of a pawn are legal together.
LEMMA PromotionsTogether ==
  ASSUME NEW pos, ChessPosition(pos), NEW from, NEW m \in Chess!LegalMovesFrom(pos, from), m.promotion # "none",
         NEW t \in {"Q", "R", "B", "N"}
  PROVE  [from |-> m.from, to |-> m.to, promotion |-> t] \in Chess!LegalMovesFrom(pos, from)
<1> DEFINE n == [from |-> m.from, to |-> m.to, promotion |-> t]
           a == Chess!BoardAfter(pos, m)
           b == Chess!BoardAfter(pos, n)
           other == Chess!OtherColor(pos.turn)
<1>1. /\ pos.cells \in Board /\ DOMAIN pos.cells = Chess!Squares(8) /\ pos.turn \in Colors
      /\ other \in Colors /\ other # pos.turn
  BY PositionSays, TwoColors
<1>2. Chess!ColorAt(pos.cells, from, pos.turn)
  BY DEF Chess!LegalMovesFrom
<1>3. /\ Chess!LegalMovesFrom(pos, from) =
           {x \in Chess!PseudoMovesFrom(pos, from) : ~Chess!IsInCheck(Chess!BoardAfter(pos, x), pos.turn)}
  BY Zenon, <1>2 DEF Chess!LegalMovesFrom
<1>4. m \in Chess!PseudoMovesFrom(pos, from) /\ ~Chess!IsInCheck(a, pos.turn)
  BY Zenon, <1>3
<1>5. /\ m.from = from /\ pos.cells[m.from] = <<pos.turn, "P">>
      /\ m.promotion \in {"Q", "R", "B", "N"} /\ m.to[1] = Chess!PromotionRow(pos.turn)
      /\ n \in Chess!PseudoMovesFrom(pos, from)
  <2>1. ChessPosition(pos) /\ m.promotion # "none"
    OBVIOUS
  <2>2. m \in Chess!PseudoMovesFrom(pos, from)
    BY <1>4
  <2>3. /\ m.from = from /\ pos.cells[from] = <<pos.turn, "P">>
        /\ m.promotion \in {"Q", "R", "B", "N"} /\ m.to[1] = Chess!PromotionRow(pos.turn)
        /\ \A u \in {"Q", "R", "B", "N"} :
              [from |-> m.from, to |-> m.to, promotion |-> u] \in Chess!PseudoMovesFrom(pos, from)
    BY ONLY <1>2, <2>1, <2>2, MovesComeFrom
  <2>4. n \in Chess!PseudoMovesFrom(pos, from)
    BY Zenon, <2>3
  <2> HIDE DEF n, a, b, other
  <2> QED
    BY <2>3, <2>4
<1>6. n.from = m.from /\ n.to = m.to /\ n.promotion = t
  OBVIOUS
<1> HIDE DEF n
<1>7. PICK lifted :
         /\ a = [Chess!Placed(pos.cells, lifted, Empty) EXCEPT ![m.to] = <<pos.turn, m.promotion>>]
         /\ b = [Chess!Placed(pos.cells, lifted, Empty) EXCEPT ![m.to] = <<pos.turn, t>>]
  <2> DEFINE lift == {m.from} \cup (IF Chess!IsEnPassant(pos, m) THEN {<<m.from[1], m.to[2]>>} ELSE {})
             board == Chess!Placed(pos.cells, lift, Empty)
  <2>1. /\ Chess!IsEnPassant(pos, m) <=> Chess!IsEnPassant(pos, n)
        /\ Chess!Type(pos, m) = "P" /\ Chess!Type(pos, n) = "P"
    BY <1>5, <1>6 DEF Chess!IsEnPassant, Chess!Type
  <2>2. ~Chess!IsCastle(pos, m) /\ ~Chess!IsCastle(pos, n)
    BY <2>1 DEF Chess!IsCastle
  <2>3. a = [board EXCEPT ![m.to] = <<pos.turn, m.promotion>>]
    BY Zenon, <1>5, <2>1, <2>2 DEF Chess!BoardAfter
  <2>4. b = [board EXCEPT ![m.to] = <<pos.turn, t>>]
    BY Zenon, <1>5, <1>6, <2>1, <2>2 DEF Chess!BoardAfter
  <2> QED
    BY <2>3, <2>4
<1> DEFINE left == Chess!Placed(pos.cells, lifted, Empty)
<1>8. DOMAIN left = Chess!Squares(8)
  BY <1>1 DEF Chess!Placed
<1> HIDE DEF left
<1>9. /\ DOMAIN a = Chess!Squares(8) /\ DOMAIN b = Chess!Squares(8)
      /\ \A sq \in Chess!Squares(8) \ {m.to} : a[sq] = b[sq]
      /\ m.to \in Chess!Squares(8) => a[m.to] = <<pos.turn, m.promotion>> /\ b[m.to] = <<pos.turn, t>>
  <2> HIDE DEF a, b
  <2> QED
    BY <1>7, <1>8 DEF left
<1>10. <<pos.turn, m.promotion>> \in ChessMen /\ <<pos.turn, t>> \in ChessMen /\ Empty \notin ChessMen
  BY <1>1, <1>5, OpeningsAssumption DEF ChessMen, Colors, Chess!White, Chess!Black
<1> HIDE DEF a, b, other
<1>11. \A sq : Chess!IsSquareAttacked(a, sq, other) <=> Chess!IsSquareAttacked(b, sq, other)
  <2>1. \A sq \in DOMAIN a : a[sq] = Empty <=> b[sq] = Empty
    BY <1>9, <1>10
  <2>2. \A sq \in DOMAIN a : \A u \in Types : a[sq] = <<other, u>> <=> b[sq] = <<other, u>>
    BY <1>1, <1>9
  <2> QED
    BY <1>9, <2>1, <2>2, SameAttacks
<1>12. Chess!Kings(a, pos.turn) = Chess!Kings(b, pos.turn)
  BY <1>5, <1>9 DEF Chess!Kings
<1>13. ~Chess!IsInCheck(b, pos.turn)
  BY Zenon, <1>4, <1>11, <1>12 DEF Chess!IsInCheck, other
<1> QED
  BY Zenon, <1>3, <1>5, <1>13 DEF n, b

\* A move of chess that is taken passes the turn or ends the game.
LEMMA TurnsPass ==
  ASSUME NEW s, ChessPosition(s), NEW p, NEW m
  PROVE  LET r == Chess!CollectMove(s, p, m)
         IN  /\ r = s \/ (~s.over /\ p = s.turn /\ (r.over \/ r.turn # s.turn))
             /\ ~s.over /\ p = s.turn /\ (m = Chess!Resign \/ m \in Chess!Legal(s)) => r # s
<1> DEFINE r == Chess!CollectMove(s, p, m)
           next == Chess!ApplyMove(s, m)
<1>1. DOMAIN s = {"cells", "turn", "castling", "enPassant", "over", "outcome", "endReason"} /\ s.turn \in Colors
  BY PositionSays DEF ChessPosition
<1>2. \A x, outcome, reason : DOMAIN x = DOMAIN s =>
         /\ Chess!Ended(x, outcome, reason).over /\ Chess!Ended(x, outcome, reason).turn = x.turn
  BY <1>1 DEF Chess!Ended
<1>3. DOMAIN next = DOMAIN s /\ next.turn = Chess!OtherColor(s.turn) /\ Chess!OtherColor(s.turn) # s.turn
  BY <1>1, TwoColors DEF Chess!ApplyMove
<1>4. Chess!ResolveEnd(next).turn # s.turn
  <2>1. Chess!ResolveEnd(next) = next \/ \E outcome, reason : Chess!ResolveEnd(next) = Chess!Ended(next, outcome, reason)
    BY Zenon DEF Chess!ResolveEnd
  <2> QED
    BY <1>2, <1>3, <2>1
<1> HIDE DEF next
<1>5. CASE s.over \/ p # s.turn
  <2>1. r = s
    BY Zenon, <1>5 DEF Chess!CollectMove
  <2> QED
    BY <1>5, <2>1
<1>6. CASE ~s.over /\ p = s.turn /\ m = Chess!Resign
  <2>1. r = Chess!Ended(s, Chess!OtherColor(s.turn), "resign")
    BY Zenon, <1>6 DEF Chess!CollectMove
  <2>2. r.over
    BY <1>2, <2>1
  <2> QED
    BY <1>6, <2>2
<1>7. CASE ~s.over /\ p = s.turn /\ m # Chess!Resign
  <2>1. r = IF m \in Chess!LegalMovesFrom(s, m.from) THEN Chess!ResolveEnd(next) ELSE s
    BY Zenon, <1>7 DEF Chess!CollectMove, next
  <2>2. m \in Chess!Legal(s) => m \in Chess!LegalMovesFrom(s, m.from)
    <3> SUFFICES ASSUME m \in Chess!Legal(s) PROVE m \in Chess!LegalMovesFrom(s, m.from)
      OBVIOUS
    <3>1. PICK from \in Chess!Army(s.cells, s.turn) : m \in Chess!LegalMovesFrom(s, from)
      BY Zenon, <1>7 DEF Chess!Legal
    <3>2. Chess!ColorAt(s.cells, from, s.turn) /\ m \in Chess!PseudoMovesFrom(s, from)
      BY <3>1 DEF Chess!LegalMovesFrom
    <3>3. m.from = from
      BY <3>2, MovesComeFrom
    <3> QED
      BY <3>1, <3>3
  <2> HIDE DEF r
  <2> QED
    BY <1>4, <1>7, <2>1, <2>2 DEF r
<1> QED
  BY Zenon, <1>5, <1>6, <1>7

\* So are those the list of a frame names.
LEMMA ListedTogether ==
  ASSUME NEW s, ChessPosition(s), NEW m \in Chess!Legal(s), m.promotion # "none", NEW t \in {"Q", "R", "B", "N"}
  PROVE  [from |-> m.from, to |-> m.to, promotion |-> t] \in Chess!Legal(s)
<1>1. ~s.over
  BY DEF Chess!Legal
<1>2. PICK from \in Chess!Army(s.cells, s.turn) : m \in Chess!LegalMovesFrom(s, from)
  BY Zenon, <1>1 DEF Chess!Legal
<1>3. [from |-> m.from, to |-> m.to, promotion |-> t] \in Chess!LegalMovesFrom(s, from)
  BY <1>2, PromotionsTogether
<1> QED
  BY Zenon, <1>1, <1>2, <1>3 DEF Chess!Legal

\* What a tap on the board of chess comes to: a choice of the dialog, a move, the
\* dialog, a piece selected, nothing selected, or the game given up.
ChessTap(list, d, t) ==
    \/ t = [device |-> d, sends |-> <<Chess!Resign>>]
    \/ /\ d.pendingPromo # {}
       /\ \E m \in Chess!Choices(d) : t = Chess!Submit(m)
    \/ /\ d.pendingPromo = {}
       /\ \/ \E m \in list : t = Chess!Submit(m)
          \/ \E m \in list : Chess!IsPromotion(m) /\ t = Chess!Hold([d EXCEPT !.pendingPromo = {Chess!Untyped(m)}])
          \/ \E m \in list : t = Chess!Hold([d EXCEPT !.selected = {m.from}])
          \/ t = Chess!Hold(Chess!Blank)

LEMMA ChessTaps ==
  ASSUME NEW s, NEW list, NEW d, NEW me, NEW t \in Chess!Taps(s, list, d, me)
  PROVE  Chess!IsActive(s, me) /\ ChessTap(list, d, t)
<1> DEFINE Chosen == {Chess!Submit(m) : m \in Chess!Choices(d)}
           Steps == {Chess!Submit(m) : m \in {n \in Chess!MovesFrom(list, d.selected) : ~Chess!IsPromotion(n)}}
           Asked == {Chess!Hold([d EXCEPT !.pendingPromo = {Chess!Untyped(m)}]) :
                        m \in {n \in Chess!MovesFrom(list, d.selected) : Chess!IsPromotion(n)}}
           Picked == {Chess!Hold([d EXCEPT !.selected = {m.from}]) : m \in {n \in list : n.from \notin d.selected}}
           Gone == [device |-> d, sends |-> <<Chess!Resign>>]
           Active == Chess!IsActive(s, me)
           Open == d.pendingPromo # {}
<1>1. Chess!Taps(s, list, d, me) =
        CASE ~Active -> {}
          [] Active /\ Open -> Chosen \cup {Gone}
          [] Active /\ d.pendingPromo = {} -> Steps \cup Asked \cup Picked \cup {Chess!Hold(Chess!Blank), Gone}
  BY Zenon DEF Chess!Taps
<1>2. t \in Chosen => \E m \in Chess!Choices(d) : t = Chess!Submit(m)
  BY Zenon
<1>3. t \in Steps => \E m \in list : t = Chess!Submit(m)
  BY Zenon DEF Chess!MovesFrom
<1>4. t \in Asked => \E m \in list : Chess!IsPromotion(m) /\ t = Chess!Hold([d EXCEPT !.pendingPromo = {Chess!Untyped(m)}])
  BY Zenon DEF Chess!MovesFrom
<1>5. t \in Picked => \E m \in list : t = Chess!Hold([d EXCEPT !.selected = {m.from}])
  BY Zenon
<1>6. Open <=> ~(d.pendingPromo = {})
  OBVIOUS
<1>7. Active \in BOOLEAN
  BY DEF Chess!IsActive
<1>8. t \in Chess!Taps(s, list, d, me)
  OBVIOUS
<1> HIDE DEF Chosen, Steps, Asked, Picked, Gone, Active, Open
<1>9. CASE ~Active
  <2>1. Chess!Taps(s, list, d, me) = {}
    BY ONLY <1>1, <1>9
  <2> QED
    BY ONLY <1>8, <2>1
<1>10. CASE Active /\ Open
  <2>1. Chess!Taps(s, list, d, me) = Chosen \cup {Gone}
    BY ONLY <1>1, <1>6, <1>10
  <2>2. t \in Chosen \/ t = Gone
    BY ONLY <1>8, <2>1
  <2> QED
    BY <1>2, <1>10, <2>2 DEF Gone, Active, Open, ChessTap
<1>11. CASE Active /\ ~Open
  <2>1. Chess!Taps(s, list, d, me) = Steps \cup Asked \cup Picked \cup {Chess!Hold(Chess!Blank), Gone}
    BY ONLY <1>1, <1>6, <1>11
  <2>2. t \in Steps \/ t \in Asked \/ t \in Picked \/ t = Chess!Hold(Chess!Blank) \/ t = Gone
    BY ONLY <1>8, <2>1
  <2> QED
    BY <1>3, <1>4, <1>5, <1>6, <1>11, <2>2 DEF Gone, Active, Open, ChessTap
<1> QED
  BY <1>7, <1>9, <1>10, <1>11

\* What a device of chess keeps: a dialog is open only on the screen of the side
\* the frame has to move, and every choice in it is in the frame's list, or a
\* restart left it open.
Dialog(d, p) ==
    /\ DOMAIN d = {"selected", "pendingPromo"}
    /\ d.pendingPromo # {} =>
         /\ p = frame.turn /\ ~frame.over
         /\ \/ \A u \in d.pendingPromo, t \in {"Q", "R", "B", "N"} :
                  [from |-> u.from, to |-> u.to, promotion |-> t] \in legal
            \/ restarts > 0 /\ frame = Chess!StartingPosition

\* A frame that is behind shows the side to move that has moved, or a game that
\* has been restarted since.
Behind == \/ scratch.over \/ scratch.turn # frame.turn
          \/ restarts > 0 /\ scratch = Chess!StartingPosition

ChessScreensSound ==
    /\ ChessSound(frame)
    /\ frame # scratch => Behind
    /\ \A p \in Players : Dialog(device[p], p)

ScreensSound ==
    /\ LiveGamesSound
    /\ restarts \in Nat /\ DOMAIN device = Players
    /\ game \in Drawn => legal = Legal(frame)
    /\ game = "chess" => ChessScreensSound

LEMMA ScreensOpen ==
  ASSUME ScreensInit
  PROVE  ScreensSound
<1>1. LiveGamesSound
  BY GamesOpen DEF ScreensInit, Init, LiveGamesSound
<1>2. restarts \in Nat /\ DOMAIN device = Players
  BY DEF ScreensInit
<1>3. game \in Drawn => frame = scratch /\ legal = Legal(frame)
  BY DEF ScreensInit, Kept
<1>4. ASSUME game = "chess"
      PROVE  ChessScreensSound
  <2>1. frame = scratch /\ ChessSound(frame)
    BY <1>1, <1>3, <1>4 DEF LiveGamesSound, Sound, Drawn
  <2>2. ASSUME NEW p \in Players
        PROVE  device[p] = Chess!Blank
    <3>1. device[p] = OnFrame(Blank(game), scratch, p)
      BY DEF ScreensInit
    <3>2. Blank(game) = Chess!Blank
      BY <1>4 DEF Blank
    <3>3. OnFrame(Blank(game), scratch, p) = Chess!OnFrame(Chess!Blank, scratch, p)
      BY <1>4, <3>2 DEF OnFrame
    <3> QED
      BY <3>1, <3>3 DEF Chess!OnFrame
  <2>3. DOMAIN Chess!Blank = {"selected", "pendingPromo"} /\ Chess!Blank.pendingPromo = {}
    BY DEF Chess!Blank
  <2> QED
    BY <2>1, <2>2, <2>3 DEF ChessScreensSound, Dialog
<1> QED
  BY <1>1, <1>2, <1>3, <1>4 DEF ScreensSound

\* What a tap on the board of chess leaves on the screen.
LEMMA TapsKeepDialogs ==
  ASSUME game = "chess", ChessSound(frame), legal = Chess!Legal(frame),
         NEW d, NEW p, Dialog(d, p), NEW t \in Chess!Taps(frame, legal, d, p)
  PROVE  p = frame.turn /\ ~frame.over /\ Dialog(t.device, p)
<1>1. p = frame.turn /\ ~frame.over
  BY ChessTaps DEF Chess!IsActive
<1>2. \A m : Chess!Submit(m).device = Chess!Blank
  BY DEF Chess!Submit
<1>3. \/ t.device \in {Chess!Blank, d}
      \/ \E m \in legal : Chess!IsPromotion(m) /\ t.device = [d EXCEPT !.pendingPromo = {Chess!Untyped(m)}]
      \/ \E m \in legal : t.device = [d EXCEPT !.selected = {m.from}] /\ d.pendingPromo = {}
  <2>1. \A e : Chess!Hold(e).device = e
    BY DEF Chess!Hold
  <2>2. [device |-> d, sends |-> <<Chess!Resign>>].device = d
    OBVIOUS
  <2>3. ChessTap(legal, d, t)
    BY ChessTaps
  <2>4. CASE d.pendingPromo = {} /\ \E m \in legal : t = Chess!Hold([d EXCEPT !.selected = {m.from}])
    BY Zenon, <2>1, <2>4
  <2>5. CASE \E m \in legal : Chess!IsPromotion(m) /\ t = Chess!Hold([d EXCEPT !.pendingPromo = {Chess!Untyped(m)}])
    BY Zenon, <2>1, <2>5
  <2>6. CASE t = Chess!Hold(Chess!Blank)
    BY Zenon, <2>1, <2>6
  <2> QED
    BY Zenon, <1>2, <2>2, <2>3, <2>4, <2>5, <2>6 DEF ChessTap
<1>4. CASE t.device = Chess!Blank
  <2>1. DOMAIN Chess!Blank = {"selected", "pendingPromo"} /\ Chess!Blank.pendingPromo = {}
    BY DEF Chess!Blank
  <2> QED
    BY <1>1, <1>4, <2>1 DEF Dialog
<1>5. CASE t.device = d
  BY <1>1, <1>5
<1>6. ASSUME NEW m \in legal, Chess!IsPromotion(m), t.device = [d EXCEPT !.pendingPromo = {Chess!Untyped(m)}]
      PROVE  Dialog(t.device, p)
  <2>1. DOMAIN t.device = {"selected", "pendingPromo"} /\ t.device.pendingPromo = {Chess!Untyped(m)}
    BY <1>6 DEF Dialog
  <2>2. Chess!Untyped(m).from = m.from /\ Chess!Untyped(m).to = m.to
    BY DEF Chess!Untyped
  <2>3. m.promotion # "none" /\ m \in Chess!Legal(frame) /\ ChessPosition(frame)
    BY <1>6 DEF Chess!IsPromotion, ChessSound
  <2>4. \A k \in {"Q", "R", "B", "N"} : [from |-> m.from, to |-> m.to, promotion |-> k] \in legal
    BY ONLY <2>3, legal = Chess!Legal(frame), ListedTogether
  <2> QED
    BY <1>1, <2>1, <2>2, <2>4 DEF Dialog
<1>7. ASSUME NEW m \in legal, t.device = [d EXCEPT !.selected = {m.from}], d.pendingPromo = {}
      PROVE  Dialog(t.device, p)
  <2>1. DOMAIN t.device = {"selected", "pendingPromo"} /\ t.device.pendingPromo = {}
    BY <1>7 DEF Dialog
  <2> QED
    BY <2>1 DEF Dialog
<1> QED
  BY <1>1, <1>3, <1>4, <1>5, <1>6, <1>7

\* A frame is behind only by a move, or a restart.
LEMMA MovesLeaveBehind ==
  ASSUME game = "chess", LiveGamesSound, frame # scratch => Behind, NEW p, NEW m, Submitted(p, m),
         p = frame.turn \/ frame = scratch, UNCHANGED <<frame, restarts>>
  PROVE  (frame # scratch => Behind)'
<1>1. ChessPosition(scratch)
  BY DEF LiveGamesSound, Sound, ChessSound
<1>2. scratch' \in Accepted(p, m)
  BY DEF Submitted
<1>3. Accepted(p, m) \subseteq {scratch, Chess!CollectMove(scratch, p, m)}
  BY DEF Accepted, CollectMove
<1>4. \/ scratch' = scratch
      \/ ~scratch.over /\ p = scratch.turn /\ (scratch'.over \/ scratch'.turn # scratch.turn)
  BY <1>1, <1>2, <1>3, TurnsPass
<1> QED
  BY <1>4 DEF Behind

LEMMA ScreensStaySound ==
  ASSUME ScreensSound, [ScreensNext]_screenVars
  PROVE  ScreensSound'
<1>1. LiveGamesSound'
  BY ScreensKeepSound DEF ScreensSound
<1>2. game' = game
  BY DEF ScreensNext, Tap, Publish, Restart, Elsewhere, Closed, HostAdvance, SubmitMove, Submitted, SimTick, screenVars, vars
<1>3. Players' = Players /\ \A s : Legal(s)' = Legal(s)
  BY <1>2 DEF Players, Legal
<1>4. restarts' \in Nat /\ DOMAIN device' = Players
  BY DEF ScreensNext, Tap, Publish, Restart, Elsewhere, Closed, HostAdvance, SubmitMove, Submitted, SimTick, screenVars, vars,
         ScreensSound
<1>5. game \in Drawn => legal' = (Legal(frame))'
  <2> SUFFICES ASSUME game \in Drawn PROVE legal' = (Legal(frame))'
    OBVIOUS
  <2>1. legal = Legal(frame)
    BY DEF ScreensSound
  <2>2. CASE UNCHANGED <<frame, legal>>
    BY <1>2, <2>1, <2>2 DEF Legal
  <2>3. CASE Publish
    BY <1>2, <2>1, <2>3 DEF Publish, Legal, Kept
  <2> QED
    BY <2>2, <2>3 DEF ScreensNext, Tap, Restart, Elsewhere, Closed, screenVars
<1>6. ASSUME game = "chess"
      PROVE  ChessScreensSound'
  <2>1. /\ ChessScreensSound /\ LiveGamesSound /\ legal = Chess!Legal(frame)
        /\ ChessSound(scratch) /\ ChessSound(scratch') /\ game' = "chess"
    BY <1>1, <1>2, <1>6 DEF ScreensSound, LiveGamesSound, Sound, Drawn, Legal
  <2>2. ASSUME NEW p \in Players, Tap(p)
        PROVE  ChessScreensSound'
    <3>1. PICK t \in Taps(device[p], p) :
             /\ device' = [device EXCEPT ![p] = t.device]
             /\ UNCHANGED vars \/ \E m \in Range(t.sends) : Submitted(p, m)
             /\ UNCHANGED <<frame, legal, restarts>>
      BY <2>2 DEF Tap
    <3>2. t \in Chess!Taps(frame, legal, device[p], p)
      BY <1>6, <3>1 DEF Taps, Shown, Drawn
    <3>3. Dialog(device[p], p)
      BY <2>1, <2>2 DEF ChessScreensSound
    <3>4. p = frame.turn /\ ~frame.over /\ Dialog(t.device, p)
      BY ONLY <1>6, <2>1, <3>2, <3>3, TapsKeepDialogs DEF ChessScreensSound
    <3>5. (frame # scratch => Behind)'
      <4>1. CASE UNCHANGED vars
        BY <2>1, <3>1, <4>1 DEF vars, ChessScreensSound, Behind
      <4>2. CASE \E m \in Range(t.sends) : Submitted(p, m)
        <5>1. PICK m : Submitted(p, m)
          BY <4>2
        <5> QED
          BY <1>6, <2>1, <3>1, <3>4, <5>1, MovesLeaveBehind DEF ChessScreensSound
      <4> QED
        BY <3>1, <4>1, <4>2
    <3>6. \A q \in Players : device'[q] = IF q = p THEN t.device ELSE device[q]
      BY <3>1 DEF ScreensSound
    <3>7. \A q \in Players : Dialog(device[q], q)' 
      <4>1. \A q \in Players : Dialog(IF q = p THEN t.device ELSE device[q], q)
        BY <2>1, <3>4 DEF ChessScreensSound
      <4> QED
        BY <3>1, <3>6, <4>1 DEF Dialog
    <3> QED
      BY <1>3, <2>1, <3>1, <3>5, <3>7 DEF ChessScreensSound
  <2>3. CASE Publish
    <3>1. scratch' = scratch /\ frame' = scratch /\ UNCHANGED restarts
      BY <1>2, <1>6, <2>3 DEF Publish, SimTick, Ticked, Kept, Drawn
    <3>2. ASSUME NEW p \in Players
          PROVE  Dialog(device[p], p)'
      <4>1. device'[p] = Chess!OnFrame(device[p], scratch, p)
        BY <1>2, <1>6, <2>3, <3>1 DEF Publish, OnFrame
      <4>2. CASE ~Chess!IsActive(scratch, p)
        <5>1. device'[p] = Chess!Blank
          BY <4>1, <4>2 DEF Chess!OnFrame
        <5>2. DOMAIN Chess!Blank = {"selected", "pendingPromo"} /\ Chess!Blank.pendingPromo = {}
          BY DEF Chess!Blank
        <5> QED
          BY <5>1, <5>2 DEF Dialog
      <4>3. CASE Chess!IsActive(scratch, p)
        <5>1. device'[p] = device[p] /\ ~scratch.over /\ p = scratch.turn
          BY <4>1, <4>3 DEF Chess!OnFrame, Chess!IsActive
        <5>2. Dialog(device[p], p)
          BY <2>1 DEF ChessScreensSound
        <5>3. CASE frame = scratch
          <6>1. frame' = frame /\ legal' = legal
            BY <2>3, <3>1, <5>3 DEF Publish
          <6> QED
            BY <3>1, <5>1, <5>2, <6>1 DEF Dialog
        <5>4. CASE frame # scratch
          <6>1. Behind
            BY <2>1, <5>4 DEF ChessScreensSound
          <6>2. device[p].pendingPromo # {} => restarts > 0 /\ scratch = Chess!StartingPosition
            BY <5>1, <5>2, <6>1 DEF Behind, Dialog
          <6> QED
            BY <3>1, <5>1, <5>2, <6>2 DEF Dialog
        <5> QED
          BY <5>3, <5>4
      <4> QED
        BY <4>2, <4>3
    <3> QED
      BY <1>3, <2>1, <3>1, <3>2 DEF ChessScreensSound
  <2>4. CASE Restart
    <3>1. /\ scratch' = Chess!StartingPosition /\ restarts' > 0
          /\ UNCHANGED <<frame, legal, device>>
      BY <1>6, <2>4 DEF Restart, ScreensSound
    <3>2. ASSUME NEW p \in Players PROVE Dialog(device[p], p)'
      BY <2>1, <3>1 DEF ChessScreensSound, Dialog
    <3> QED
      BY <1>3, <2>1, <3>1, <3>2 DEF ChessScreensSound, Behind
  <2>5. CASE Elsewhere
    <3>1. PICK p \in Players : \E m : Submitted(p, m)
      BY <2>5 DEF Elsewhere, SubmitMove
    <3>2. frame = scratch /\ UNCHANGED <<frame, legal, device, restarts>>
      BY <1>6, <2>5 DEF Elsewhere, Shown, Drawn
    <3>3. (frame # scratch => Behind)'
      BY <1>6, <2>1, <3>1, <3>2, MovesLeaveBehind
    <3>4. ASSUME NEW q \in Players PROVE Dialog(device[q], q)'
      BY <2>1, <3>2 DEF ChessScreensSound, Dialog
    <3> QED
      BY <1>3, <2>1, <3>2, <3>3, <3>4 DEF ChessScreensSound
  <2>6. CASE UNCHANGED <<scratch, frame, legal, device, restarts>>
    <3>1. ASSUME NEW q \in Players PROVE Dialog(device[q], q)'
      BY <2>1, <2>6 DEF ChessScreensSound, Dialog
    <3> QED
      BY <1>3, <2>1, <2>6, <3>1 DEF ChessScreensSound, Behind
  <2>7. CASE Closed \/ UNCHANGED screenVars
    BY <2>6, <2>7 DEF Closed, HostAdvance, screenVars, vars
  <2> QED
    BY <2>2, <2>3, <2>4, <2>5, <2>7 DEF ScreensNext
<1> QED
  BY <1>1, <1>2, <1>3, <1>4, <1>5, <1>6 DEF ScreensSound

\* What is on offer on a board, of chess, of checkers, of Reversi, in a hand or
\* in a grove, is taken.
LEMMA SoundOffers ==
  ASSUME ScreensSound
  PROVE  OffersAreGood
<1> SUFFICES ASSUME Playing, game \notin {"brambles", "teeter-tower"}, NEW p \in Players, ~LeftOpen(p),
                    NEW t \in Taps(device[p], p), NEW m \in Range(t.sends), ~(game = "whispergrove" /\ m.kind = "whisper")
             PROVE  Accepted(p, m) # {scratch}
  BY DEF OffersAreGood
<1>1. /\ ~Over(scratch) /\ Shown = scratch /\ ~Refused(p, m) /\ LiveGamesSound
      /\ game \in {"reversi", "checkers", "chess", "nightleaf", "whispergrove"}
  BY GamesAssumption DEF Playing, Refused, ScreensSound, LiveGamesSound
<1>2. Accepted(p, m) = CollectMove(p, m)
  BY <1>1 DEF Accepted
<1>3. \A n : Range(<<n>>) = {n}
  BY DEF Range
<1>4. Range(<<>>) = {}
  BY DEF Range
<1>5. CASE game = "reversi"
  <2>1. legal = Reversi!Legal(scratch) /\ ~scratch.over /\ ReversiSound(scratch)
    BY <1>1, <1>5 DEF Shown, Drawn, ScreensSound, Legal, Over, LiveGamesSound, Sound
  <2>2. t \in Reversi!Taps(scratch, legal, device[p], p)
    BY <1>1, <1>5 DEF Taps
  <2>3. PICK sq \in legal : t.sends = <<sq>> /\ p = scratch.turn
    BY <2>2 DEF Reversi!Taps, Reversi!IsActive
  <2>4. m = sq /\ m \in Reversi!LegalMoves(scratch.cells, scratch.turn)
    BY <1>3, <2>1, <2>3 DEF Reversi!Legal
  <2>5. Reversi!CollectMove(scratch, p, m) # scratch
    BY <2>1, <2>3, <2>4, DiscsLand
  <2> QED
    BY <1>2, <1>5, <2>5 DEF CollectMove
<1>6. CASE game = "checkers"
  <2>1. legal = Checkers!Legal(scratch) /\ ~scratch.over
    BY <1>1, <1>6 DEF Shown, Drawn, ScreensSound, Legal, Over
  <2>2. t \in Checkers!Taps(scratch, legal, device[p], p)
    BY <1>1, <1>6 DEF Taps
  <2>3. p = scratch.turn /\ (t.sends = <<>> \/ \E n \in legal : t.sends = <<n>>)
    BY <2>2 DEF Checkers!Taps, Checkers!IsActive
  <2>4. m \in Checkers!LegalMoves(scratch.cells, scratch.turn)
    BY <1>3, <1>4, <2>1, <2>3 DEF Checkers!Legal
  <2>5. Checkers!CollectMove(scratch, p, m) # scratch
    BY <2>1, <2>3, <2>4, DraughtsLand
  <2> QED
    BY <1>2, <1>6, <2>5 DEF CollectMove
<1>7. CASE game = "chess"
  <2>1. /\ legal = Chess!Legal(scratch) /\ ~scratch.over /\ frame = scratch /\ ChessPosition(scratch)
        /\ Dialog(device[p], p) /\ restarts \in Nat
    BY <1>1, <1>7 DEF Shown, Drawn, ScreensSound, ChessScreensSound, Legal, Over, LiveGamesSound, Sound, ChessSound
  <2>2. t \in Chess!Taps(scratch, legal, device[p], p)
    BY <1>1, <1>7 DEF Taps
  <2>3. Chess!IsActive(scratch, p) /\ ChessTap(legal, device[p], t)
    BY <2>2, ChessTaps
  <2>4. t.sends = <<>> \/ \E n \in legal \cup {Chess!Resign} : t.sends = <<n>>
    <3>1. \A n, d : Chess!Submit(n).sends = <<n>> /\ Chess!Hold(d).sends = <<>>
      BY DEF Chess!Submit, Chess!Hold
    <3>2. device[p].pendingPromo # {} => Chess!Choices(device[p]) \subseteq legal
      <4> SUFFICES ASSUME device[p].pendingPromo # {}, NEW n \in Chess!Choices(device[p])
                   PROVE  n \in legal
        OBVIOUS
      <4>1. \A u \in device[p].pendingPromo, k \in {"Q", "R", "B", "N"} :
               [from |-> u.from, to |-> u.to, promotion |-> k] \in legal
        BY <1>7, <2>1 DEF LeftOpen, Dialog
      <4>2. \E u \in device[p].pendingPromo, k \in {"Q", "R", "B", "N"} : n = [from |-> u.from, to |-> u.to, promotion |-> k]
        BY ONLY n \in Chess!Choices(device[p]) DEF Chess!Choices
      <4> QED
        BY Zenon, <4>1, <4>2
    <3>3. [device |-> device[p], sends |-> <<Chess!Resign>>].sends = <<Chess!Resign>>
      OBVIOUS
    <3> QED
      BY Zenon, <2>3, <3>1, <3>2, <3>3 DEF ChessTap
  <2>5. m \in legal \cup {Chess!Resign} /\ p = scratch.turn
    BY <1>3, <1>4, <2>3, <2>4 DEF Chess!IsActive
  <2>6. Chess!CollectMove(scratch, p, m) # scratch
    BY ONLY <2>1, <2>5, TurnsPass
  <2> QED
    BY <1>2, <1>7, <2>6 DEF CollectMove
<1>8. CASE game = "nightleaf"
  <2>1. NightleafSound(scratch) /\ p \in Nightleaf!Players
    BY <1>1, <1>8 DEF LiveGamesSound, Sound, Players, Range, Nightleaf!Players, Nightleaf!Range
  <2>2. m \in Nightleaf!Offers(scratch, p)
    BY <1>1, <1>3, <1>8 DEF Taps, Offered
  <2>3. Nightleaf!CollectMove(scratch, p, m) # scratch
    BY <2>1, <2>2, LeavesLand
  <2> QED
    BY <1>2, <1>8, <2>3 DEF CollectMove
<1>9. CASE game = "whispergrove"
  <2>1. GroveSound(scratch) /\ p \in Whispergrove!Players /\ m.kind # "whisper"
    BY <1>1, <1>9 DEF LiveGamesSound, Sound, Players, Range, Whispergrove!Players, Whispergrove!Range
  <2>2. m \in Whispergrove!Offers(scratch, p)
    BY <1>1, <1>3, <1>9 DEF Taps, Offered
  <2>3. Whispergrove!CollectMove(scratch, p, m) # scratch
    BY <2>1, <2>2, TapsLand
  <2> QED
    BY <1>2, <1>9, <2>3 DEF CollectMove
<1> QED
  BY <1>1, <1>5, <1>6, <1>7, <1>8, <1>9

\* What a screen offers as sure is accepted, however taps, frames, restarts and
\* other devices interleaved before it was offered.
THEOREM OffersStayGood == ScreensSpec => []OffersAreGood
<1>1. ScreensInit => ScreensSound
  BY ScreensOpen
<1>2. ScreensSound /\ [ScreensNext]_screenVars => ScreensSound'
  BY ScreensStaySound
<1>3. ScreensSound => OffersAreGood
  BY SoundOffers
<1> QED
  BY <1>1, <1>2, <1>3, PTL DEF ScreensSpec

--------------------------------------------------------------------------------
(* What carries a game on: nobody is left waiting at a board whose side to     *)
(* move is stuck.  First, what every state of every game keeps for that.       *)

\* What lets a game go on: a side that is not stuck, a leaf still in a hand, and
\* the counters a frame moves.
GoesOn(g, s) ==
    /\ g = "reversi"      => s.over \/ ~ReversiStuck(s, s.turn)
    /\ g = "checkers"     => s.turn \in {"violet", "amber"} /\ (s.over \/ Checkers!LegalMoves(s.cells, s.turn) # {})
    /\ g = "chess"        => s.over \/ Chess!HasLegalMove(s)
    /\ g = "teeter-tower" => "index" \in DOMAIN s /\ s.index \in Nat
    /\ g = "nightleaf"    => s.phaseTicks \in Int /\ (s.phase = "playing" => Nightleaf!Held(s.hands) # {})
    /\ g = "brambles"     => s.ticks \in Int

\* Violet opens Reversi beside the four discs in the middle.
LEMMA ReversiStarts ==
  ASSUME NEW s \in Reversi!Opening
  PROVE  ~ReversiStuck(s, s.turn)
<1> DEFINE mid == ReversiSize \div 2
           board == Reversi!StartingBoard
           sq == <<mid - 1, mid - 2>>
           d == <<0, 1>>
<1>1. s.cells = board /\ s.turn = "violet"
  BY DEF Reversi!Opening
<1>2. mid \in Nat /\ mid >= 2 /\ mid < ReversiSize
  BY OpeningsAssumption
<1> HIDE DEF mid
<1>3. \A r, c \in {mid - 2, mid - 1, mid} : <<r, c>> \in Reversi!Squares(ReversiSize)
  BY <1>2, OpeningsAssumption DEF Reversi!Squares
<1>4. board = Reversi!Placed(Reversi!Placed([q \in Reversi!Squares(ReversiSize) |-> Empty],
                                            {<<mid - 1, mid - 1>>, <<mid, mid>>}, "amber"),
                             {<<mid - 1, mid>>, <<mid, mid - 1>>}, "violet")
  BY DEF Reversi!StartingBoard, mid
<1> HIDE DEF board
<1>5. /\ DOMAIN board = Reversi!Squares(ReversiSize)
      /\ board[sq] = Empty /\ board[<<mid - 1, mid - 1>>] = "amber" /\ board[<<mid - 1, mid>>] = "violet"
  <2>1. <<mid - 1, mid - 1>> # <<mid - 1, mid>> /\ <<mid - 1, mid - 1>> # <<mid, mid - 1>>
        /\ sq \notin {<<mid - 1, mid - 1>>, <<mid, mid>>, <<mid - 1, mid>>, <<mid, mid - 1>>}
    BY <1>2
  <2> QED
    BY <1>2, <1>3, <1>4, <2>1 DEF Reversi!Placed
<1>6. Reversi!Step(sq, d, 1) = <<mid - 1, mid - 1>> /\ Reversi!Step(sq, d, 1 + 1) = <<mid - 1, mid>>
  BY <1>2 DEF Reversi!Step
<1>7. 1 \in Reversi!Brackets(board, "violet", sq, d)
  <2>1. \A j \in 1 .. 1 : Reversi!Holds(board, Reversi!Step(sq, d, j), Reversi!OtherSide("violet"))
    <3>1. \A j \in 1 .. 1 : j = 1
      OBVIOUS
    <3>2. Reversi!Holds(board, <<mid - 1, mid - 1>>, "amber") /\ Reversi!OtherSide("violet") = "amber"
      BY <1>3, <1>5 DEF Reversi!Holds, Reversi!OtherSide
    <3> QED
      BY Zenon, <1>6, <3>1, <3>2
  <2>2. Reversi!Holds(board, Reversi!Step(sq, d, 1 + 1), "violet")
    BY <1>3, <1>5, <1>6 DEF Reversi!Holds
  <2>3. 1 \in 1 .. ReversiSize
    BY OpeningsAssumption
  <2> QED
    BY Zenon, <2>1, <2>2, <2>3 DEF Reversi!Brackets
<1>8. Reversi!Step(sq, d, 1) \in Reversi!FlipsFor(board, "violet", sq)
  <2>1. Reversi!Holds(board, sq, Empty)
    BY <1>3, <1>5 DEF Reversi!Holds
  <2>2. d \in Reversi!AllDirections
    BY DEF Reversi!AllDirections, Reversi!Orthogonal
  <2>3. 1 \in 1 .. 1
    OBVIOUS
  <2> HIDE DEF d, sq
  <2> QED
    BY <1>7, <2>1, <2>2, <2>3 DEF Reversi!FlipsFor
<1>9. sq \in Reversi!LegalMoves(board, "violet")
  BY <1>3, <1>5, <1>8 DEF Reversi!LegalMoves
<1> QED
  BY <1>1, <1>9 DEF ReversiStuck

LEMMA ReversiGoesOn ==
  ASSUME NEW s, ReversiSound(s), s.over \/ ~ReversiStuck(s, s.turn), NEW p, NEW m, NEW t, t = Reversi!CollectMove(s, p, m)
  PROVE  t.over \/ ~ReversiStuck(t, t.turn)
<1> DEFINE next == Reversi!ApplyMove(s.cells, s.turn, m)
           other == Reversi!OtherSide(s.turn)
           stuck(side) == Reversi!LegalMoves(next, side) = {}
           r == [cells  |-> next,
                 turn   |-> IF stuck(other) /\ ~stuck(Reversi!OtherSide(other)) THEN Reversi!OtherSide(other) ELSE other,
                 passed |-> stuck(other) /\ ~stuck(Reversi!OtherSide(other)),
                 over   |-> stuck(other) /\ stuck(Reversi!OtherSide(other))]
<1>1. t \in {s, r}
  BY Zenon DEF Reversi!CollectMove, Reversi!ResolveTurn
<1>2. r.over \/ ~ReversiStuck(r, r.turn)
  <2> HIDE DEF next, other
  <2> QED
    BY DEF ReversiStuck
<1> QED
  BY <1>1, <1>2

LEMMA DraughtsGoOn ==
  ASSUME NEW s, s.turn \in {"violet", "amber"}, s.over \/ Checkers!LegalMoves(s.cells, s.turn) # {}, NEW p, NEW m,
         NEW t, t = Checkers!CollectMove(s, p, m)
  PROVE  t.turn \in {"violet", "amber"} /\ (t.over \/ Checkers!LegalMoves(t.cells, t.turn) # {})
<1> DEFINE next == Checkers!ApplyMove(s.cells, s.turn, m)
           other == Checkers!OtherSide(s.turn)
<1>1. t = s \/ t = [cells |-> next, turn |-> other, over |-> Checkers!LegalMoves(next, other) = {}]
  BY Zenon DEF Checkers!CollectMove
<1>2. other \in {"violet", "amber"}
  BY DEF Checkers!OtherSide
<1> HIDE DEF next, other
<1>3. CASE t = [cells |-> next, turn |-> other, over |-> Checkers!LegalMoves(next, other) = {}]
  <2>1. t.turn = other /\ t.cells = next /\ t.over = (Checkers!LegalMoves(next, other) = {})
    BY <1>3
  <2> QED
    BY <1>2, <2>1
<1> QED
  BY <1>1, <1>3

\* A position that is not over after a move has a move.
LEMMA ChessGoesOn ==
  ASSUME NEW s, ChessPosition(s), s.over \/ Chess!HasLegalMove(s), NEW p, NEW m, NEW t, t = Chess!CollectMove(s, p, m)
  PROVE  t.over \/ Chess!HasLegalMove(t)
<1>1. \A u, outcome, reason : "over" \in DOMAIN u => Chess!Ended(u, outcome, reason).over
  BY DEF Chess!Ended
<1>2. "over" \in DOMAIN s /\ "over" \in DOMAIN Chess!ApplyMove(s, m)
  BY DEF ChessPosition, Chess!ApplyMove
<1>3. ASSUME NEW u, "over" \in DOMAIN u
      PROVE  Chess!ResolveEnd(u).over \/ Chess!HasLegalMove(Chess!ResolveEnd(u))
  <2>1. CASE ~Chess!HasLegalMove(u)
    <3>1. \E outcome, reason : Chess!ResolveEnd(u) = Chess!Ended(u, outcome, reason)
      BY Zenon, <2>1 DEF Chess!ResolveEnd
    <3> QED
      BY <1>1, <1>3, <3>1
  <2>2. CASE Chess!HasLegalMove(u)
    <3>1. \/ Chess!ResolveEnd(u) = u
          \/ \E outcome, reason : Chess!ResolveEnd(u) = Chess!Ended(u, outcome, reason)
      BY Zenon, <2>2 DEF Chess!ResolveEnd
    <3> QED
      BY Zenon, <1>1, <1>3, <2>2, <3>1
  <2> QED
    BY <2>1, <2>2
<1>4. CASE s.over \/ p # s.turn
  <2>1. t = s
    BY Zenon, <1>4 DEF Chess!CollectMove
  <2> QED
    BY <2>1
<1>5. CASE ~s.over /\ p = s.turn /\ m = Chess!Resign
  <2>1. t = Chess!Ended(s, Chess!OtherColor(s.turn), "resign")
    BY Zenon, <1>5 DEF Chess!CollectMove
  <2> QED
    BY <1>1, <1>2, <2>1
<1>6. CASE ~s.over /\ p = s.turn /\ m # Chess!Resign
  <2>1. t = IF m \in Chess!LegalMovesFrom(s, m.from) THEN Chess!ResolveEnd(Chess!ApplyMove(s, m)) ELSE s
    BY Zenon, <1>6 DEF Chess!CollectMove
  <2>2. t = s \/ t = Chess!ResolveEnd(Chess!ApplyMove(s, m))
    BY Zenon, <2>1
  <2> QED
    BY Zenon, <1>2, <1>3, <2>2
<1> QED
  BY <1>4, <1>5, <1>6

\* Leaves.
LEMMA DealsAreHeld ==
  ASSUME NEW tier \in Nat \ {0}, NEW deal \in Nightleaf!Deals(tier)
  PROVE  Nightleaf!Held(deal) # {}
<1>1. Tables["nightleaf"] # <<>> /\ Tables["nightleaf"] \in Seq(Range(Tables["nightleaf"]))
  BY SeatsAssumption
<1>2. 1 \in DOMAIN Tables["nightleaf"]
  BY <1>1
<1>3. Tables["nightleaf"][1] \in Nightleaf!Players
  BY <1>2 DEF Nightleaf!Players, Nightleaf!Range
<1>4. PICK p \in Nightleaf!Players : TRUE
  BY <1>3
<1>5. Cardinality(deal[p]) = tier
  BY Zenon DEF Nightleaf!Deals, Nightleaf!Cardinality, Cardinality
<1>6. deal[p] # {}
  BY <1>5, FS_EmptySet
<1> QED
  BY <1>6 DEF Nightleaf!Held

LEMMA NightleafDealsGoOn ==
  ASSUME NEW s, NightleafFields \subseteq DOMAIN s, NEW tier \in Nat \ {0}, NEW deal \in Nightleaf!Deals(tier)
  PROVE  GoesOn("nightleaf", Nightleaf!DealInto(s, deal))
<1> DEFINE r == Nightleaf!DealInto(s, deal)
<1>1. r.hands = deal /\ r.phaseTicks = 0
  BY DEF Nightleaf!DealInto, NightleafFields
<1> HIDE DEF r
<1> QED
  BY <1>1, DealsAreHeld DEF GoesOn, r

\* What settles holds a leaf, or is cleared.
LEMMA SettledGoesOn ==
  ASSUME NEW s, NightleafFields \subseteq DOMAIN s, s.phaseTicks \in Int
  PROVE  GoesOn("nightleaf", Nightleaf!Settled(s))
<1> DEFINE r == [s EXCEPT !.phase = "tier-cleared", !.phaseTicks = BannerTicks]
<1>1. r.phase = "tier-cleared" /\ r.phaseTicks = BannerTicks
  BY DEF NightleafFields
<1>2. Nightleaf!Settled(s) = IF Nightleaf!Held(s.hands) = {} THEN r ELSE s
  BY DEF Nightleaf!Settled, Nightleaf!Banner
<1> HIDE DEF r
<1> QED
  BY <1>1, <1>2, BanksAssumption DEF GoesOn

LEMMA NightleafGoesOn ==
  ASSUME NEW s, NightleafSound(s), GoesOn("nightleaf", s), NEW p \in Nightleaf!Players, NEW m
  PROVE  GoesOn("nightleaf", Nightleaf!CollectMove(s, p, m))
<1>1. NightleafFields \subseteq DOMAIN s /\ s.phaseTicks \in Int
  BY DEF NightleafSound, GoesOn
<1>2. CASE m = "play" /\ Nightleaf!MayPlay(s, p)
  <2> DEFINE leaf == Nightleaf!Lowest(s.hands[p])
             played == [s EXCEPT !.hands[p] = @ \ {leaf}, !.trunk = Append(@, leaf), !.hushProposers = {}]
             missed == Nightleaf!Banner([played EXCEPT !.buds = @ - 1], "misplay")
  <2>1. Nightleaf!CollectMove(s, p, m) \in {missed, Nightleaf!Settled(played)}
    BY Zenon, <1>2 DEF Nightleaf!CollectMove, Nightleaf!Play
  <2>2. NightleafFields \subseteq DOMAIN played /\ played.phaseTicks = s.phaseTicks
    BY <1>1 DEF NightleafFields
  <2>3. missed.phase = "misplay" /\ missed.phaseTicks = BannerTicks
    BY <1>1 DEF Nightleaf!Banner, NightleafFields
  <2> HIDE DEF played, missed
  <2> QED
    BY <1>1, <2>1, <2>2, <2>3, SettledGoesOn, BanksAssumption DEF GoesOn
<1>3. CASE m = "hush" /\ Nightleaf!MayHush(s, p)
  <2> DEFINE asked == [s EXCEPT !.hushProposers = @ \cup {p}]
             hands == [q \in Nightleaf!Players |->
                         s.hands[q] \ (IF s.hands[q] = {} THEN {} ELSE {Nightleaf!Lowest(s.hands[q])})]
             fired == [s EXCEPT !.hushProposers = {}, !.fireflies = @ - 1, !.hands = hands]
  <2>1. Nightleaf!Hush(s, p) = IF Nightleaf!Holders(s) \subseteq asked.hushProposers THEN Nightleaf!Settled(fired) ELSE asked
    BY Zenon DEF Nightleaf!Hush
  <2>2. Nightleaf!CollectMove(s, p, m) = Nightleaf!Hush(s, p)
    BY Zenon, <1>3 DEF Nightleaf!CollectMove
  <2>3. asked.phaseTicks = s.phaseTicks /\ asked.phase = s.phase /\ asked.hands = s.hands
    BY <1>1 DEF NightleafFields
  <2>4. NightleafFields \subseteq DOMAIN fired /\ fired.phaseTicks = s.phaseTicks
    BY <1>1 DEF NightleafFields
  <2> HIDE DEF asked, fired
  <2>5. GoesOn("nightleaf", asked)
    BY <2>3 DEF GoesOn
  <2> QED
    BY <1>1, <2>1, <2>2, <2>4, <2>5, SettledGoesOn
<1>4. CASE ~(m = "play" /\ Nightleaf!MayPlay(s, p)) /\ ~(m = "hush" /\ Nightleaf!MayHush(s, p))
  BY <1>4 DEF Nightleaf!CollectMove
<1> QED
  BY <1>2, <1>3, <1>4

\* A frame keeps it, and while a banner stays it changes the state.
LEMMA BannersGoOn ==
  ASSUME NEW s, NightleafSound(s), GoesOn("nightleaf", s), ~s.over, s.phase # "playing"
  PROVE  \A t \in Nightleaf!Tick(s) : GoesOn("nightleaf", t) /\ t # s
<1> DEFINE c == [s EXCEPT !.phaseTicks = @ - 1]
<1>1. /\ NightleafFields \subseteq DOMAIN s /\ s.phaseTicks \in Int /\ s.tier \in Nat /\ s.buds \in Int
      /\ s.phase \in {"misplay", "tier-cleared"}
  BY DEF NightleafSound, GoesOn
<1>2. /\ DOMAIN c = DOMAIN s /\ c.phaseTicks = s.phaseTicks - 1 /\ c.phase = s.phase /\ c.over = s.over /\ c.tier = s.tier
      /\ c.hands = s.hands /\ c.buds = s.buds
  BY <1>1 DEF NightleafFields
<1> HIDE DEF c
<1> SUFFICES ASSUME NEW t \in Nightleaf!Tick(s)
             PROVE  GoesOn("nightleaf", t) /\ t # s
  OBVIOUS
<1>3. t = c \/ t \in Nightleaf!BannerOver(c)
  BY DEF Nightleaf!Tick, c
<1>4. CASE t = c
  BY <1>1, <1>2, <1>4 DEF GoesOn
<1>5. ASSUME NEW won, t = Nightleaf!Ended(c, won)
      PROVE  GoesOn("nightleaf", t) /\ t # s
  <2>1. t.over = TRUE /\ t.phase \in {"won", "lost"} /\ t.phaseTicks = BannerTicks
    BY <1>1, <1>2, <1>5 DEF Nightleaf!Ended, Nightleaf!Banner, NightleafFields
  <2> QED
    BY <1>1, <2>1, BanksAssumption DEF GoesOn
<1>6. CASE c.phase = "tier-cleared" /\ c.tier >= FinalTier
  <2>1. c.phase # "misplay" /\ ~(c.tier < FinalTier)
    BY <1>1, <1>2, <1>6, BanksAssumption
  <2>2. Nightleaf!BannerOver(c) = {Nightleaf!Ended(c, TRUE)}
    BY Zenon, <1>6, <2>1 DEF Nightleaf!BannerOver
  <2> QED
    BY <1>3, <1>4, <1>5, <2>2
<1>7. CASE c.phase = "tier-cleared" /\ c.tier < FinalTier
  <2> DEFINE b == [c EXCEPT !.tier = @ + 1]
  <2>1. t = c \/ \E deal \in Nightleaf!Deals(c.tier + 1) : t = Nightleaf!DealInto(b, deal)
    BY <1>3, <1>7 DEF Nightleaf!BannerOver
  <2>2. ASSUME NEW deal \in Nightleaf!Deals(c.tier + 1), t = Nightleaf!DealInto(b, deal)
        PROVE  GoesOn("nightleaf", t) /\ t # s
    <3>1. c.tier + 1 \in Nat \ {0}
      BY <1>1, <1>2
    <3>2. NightleafFields \subseteq DOMAIN b
      BY <1>1, <1>2
    <3>3. t.phase = "playing"
      BY <2>2, <3>2 DEF Nightleaf!DealInto, NightleafFields
    <3> HIDE DEF b
    <3> QED
      BY <1>1, <2>2, <3>1, <3>2, <3>3, NightleafDealsGoOn
  <2> QED
    BY <1>4, <2>1, <2>2
<1>8. CASE c.phase = "misplay" /\ c.buds <= 0
  <2>1. c.phase # "tier-cleared" /\ ~(c.buds > 0)
    BY <1>1, <1>2, <1>8
  <2>2. Nightleaf!BannerOver(c) = {Nightleaf!Ended(c, FALSE)}
    BY Zenon, <1>8, <2>1 DEF Nightleaf!BannerOver
  <2> QED
    BY <1>3, <1>4, <1>5, <2>2
<1>9. CASE c.phase = "misplay" /\ c.buds > 0
  <2>1. c.phase # "tier-cleared" /\ ~(c.buds <= 0)
    BY <1>1, <1>2, <1>9
  <2>2. CASE Nightleaf!Held(c.hands) = {}
    <3>1. Nightleaf!BannerOver(c) = {Nightleaf!Banner(c, "tier-cleared")}
      BY Zenon, <1>9, <2>1, <2>2 DEF Nightleaf!BannerOver
    <3>2. Nightleaf!Banner(c, "tier-cleared").phase = "tier-cleared" /\ Nightleaf!Banner(c, "tier-cleared").phaseTicks = BannerTicks
      BY <1>1, <1>2 DEF Nightleaf!Banner, NightleafFields
    <3>3. s.phase = "misplay"
      BY <1>2, <1>9
    <3> QED
      BY <1>3, <1>4, <3>1, <3>2, <3>3, BanksAssumption DEF GoesOn
  <2>3. CASE Nightleaf!Held(c.hands) # {}
    <3>1. Nightleaf!BannerOver(c) = {[c EXCEPT !.phase = "playing"]}
      BY Zenon, <1>9, <2>1, <2>3 DEF Nightleaf!BannerOver
    <3>2. /\ [c EXCEPT !.phase = "playing"].phase = "playing" /\ [c EXCEPT !.phase = "playing"].hands = c.hands
          /\ [c EXCEPT !.phase = "playing"].phaseTicks = c.phaseTicks
      BY <1>1, <1>2 DEF NightleafFields
    <3> HIDE DEF GoesOn
    <3>3. t = c \/ (t.phase = "playing" /\ t.hands = c.hands /\ t.phaseTicks = c.phaseTicks)
      BY <1>3, <3>1, <3>2
    <3> QED
      BY <1>1, <1>2, <1>4, <2>3, <3>3 DEF GoesOn
  <2> QED
    BY <2>2, <2>3
<1>10. /\ c.phase = "tier-cleared" => c.tier >= FinalTier \/ c.tier < FinalTier
       /\ c.phase = "misplay" => c.buds > 0 \/ c.buds <= 0
  BY <1>1, <1>2, BanksAssumption
<1> QED
  BY <1>1, <1>2, <1>6, <1>7, <1>8, <1>9, <1>10

LEMMA BramblesGoOn ==
  ASSUME NEW s, BramblesSound(s), s.ticks \in Int, ~s.over, NEW t \in Brambles!Tick(s)
  PROVE  t.ticks \in Int /\ t # s
<1> DEFINE u == Brambles!Ticked(s)
           o == [u EXCEPT !.sprint = @ + 1, !.ticks = 0]
<1>1. u.ticks = s.ticks + 1 /\ DOMAIN u = DOMAIN s /\ u.sprint = s.sprint
  BY DEF Brambles!Ticked, BramblesSound, BramblesFields
<1>2. o.ticks = 0 /\ o.sprint = s.sprint + 1 /\ DOMAIN o = DOMAIN s
  BY <1>1 DEF BramblesSound, BramblesFields
<1>3. \/ t = u
      \/ t = [u EXCEPT !.over = TRUE, !.card = "none"]
      \/ t \in Brambles!NextCard(o)
  BY DEF Brambles!Tick, Brambles!OpenSprint, Brambles!NoCard
<1>4. s.sprint \in Nat /\ "ticks" \in DOMAIN s /\ "over" \in DOMAIN s /\ "sprint" \in DOMAIN s
  BY DEF BramblesSound, BramblesFields
<1> HIDE DEF u, o
<1>5. CASE t = u
  BY <1>1, <1>4, <1>5
<1>6. CASE t = [u EXCEPT !.over = TRUE, !.card = "none"]
  <2>1. t.ticks = u.ticks
    BY <1>1, <1>4, <1>6
  <2> QED
    BY <1>1, <1>4, <2>1
<1>7. CASE t \in Brambles!NextCard(o)
  <2>1. t.ticks = 0 /\ t.sprint = s.sprint + 1
    BY <1>2, <1>4, <1>7 DEF Brambles!NextCard
  <2> QED
    BY <1>4, <2>1
<1> QED
  BY <1>3, <1>5, <1>6, <1>7

LEMMA BramblesTakesGoOn ==
  ASSUME NEW s, BramblesSound(s), s.ticks \in Int, NEW p, NEW m, NEW t \in Brambles!CollectMove(s, p, m)
  PROVE  t.ticks \in Int
<1> DEFINE c == [s EXCEPT !.scores[Brambles!ActiveTeam(s)] = @ + 1]
<1>1. c.ticks = s.ticks /\ "ticks" \in DOMAIN c
  BY DEF BramblesSound, BramblesFields
<1>2. "ticks" \in DOMAIN s
  BY DEF BramblesSound, BramblesFields
<1>3. t = s \/ t \in Brambles!NextCard(s) \/ t \in Brambles!NextCard(c)
  BY DEF Brambles!CollectMove
<1> HIDE DEF c
<1>4. ASSUME NEW u, "ticks" \in DOMAIN u, t \in Brambles!NextCard(u)
      PROVE  t.ticks = u.ticks
  BY <1>4 DEF Brambles!NextCard
<1> QED
  BY <1>1, <1>2, <1>3, <1>4

\* The index only counts drops.
LEMMA TeeterDropsGoOn ==
  ASSUME NEW s, "index" \in DOMAIN s, s.index \in Nat, NEW p, NEW m, NEW t, t = Teeter!CollectMove(s, p, m)
  PROVE  "index" \in DOMAIN t /\ t.index \in Nat
<1>1. CASE Teeter!Refused(s, p, m)
  BY <1>1 DEF Teeter!CollectMove
<1>2. CASE ~Teeter!Refused(s, p, m)
  <2>1. PICK score : t = [s EXCEPT !.placed = @ + 1, !.index = @ + 1, !.pieces = @ + 1, !.next = FALSE, !.wait = 0,
                                   !.scene = "falling", !.score = score]
    BY <1>2 DEF Teeter!CollectMove
  <2>2. DOMAIN t = DOMAIN s /\ t.index = s.index + 1
    BY <2>1
  <2> QED
    BY <2>2
<1> QED
  BY <1>1, <1>2

LEMMA TeeterFramesGoOn ==
  ASSUME NEW s, TeeterSound(s), "index" \in DOMAIN s, NEW t \in Teeter!Tick(s)
  PROVE  "index" \in DOMAIN t /\ t.index = s.index
<1>1. CASE s.over
  BY <1>1 DEF Teeter!Tick
<1>2. CASE ~s.over
  <2>1. PICK u \in Teeter!Stepped(s) : t = Teeter!TickOf(u)
    BY <1>2 DEF Teeter!Tick
  <2>2. TeeterSound(u) /\ ~u.over
    BY <1>2, TeeterSteps
  <2>3. "index" \in DOMAIN u /\ u.index = s.index
    BY DEF Teeter!Stepped
  <2>4. CASE u.phase = "playing"
    <3>1. t = Teeter!Play(u)
      BY <2>1, <2>4 DEF Teeter!TickOf
    <3> DEFINE w == Teeter!Scored(u)
    <3>2. "index" \in DOMAIN w /\ w.index = u.index
      BY <2>3 DEF Teeter!Scored
    <3>3. t = [w EXCEPT !.phase = "complete", !.ticks = BeatTicks, !.next = FALSE] \/ t = Teeter!OfferNext(w)
      BY Zenon, <3>1 DEF Teeter!Play
    <3> HIDE DEF w
    <3>4. Teeter!OfferNext(w) = w \/ \E a : Teeter!OfferNext(w) = [w EXCEPT !.wait = @ + 1, !.next = a]
      BY DEF Teeter!OfferNext
    <3> QED
      BY <2>3, <3>2, <3>3, <3>4
  <2>5. CASE u.phase # "playing" /\ u.ticks > 1
    <3>1. t = [u EXCEPT !.ticks = @ - 1]
      BY <2>1, <2>2, <2>5 DEF Teeter!TickOf, TeeterSound
    <3> QED
      BY <2>3, <3>1
  <2>6. CASE u.phase # "playing" /\ u.ticks <= 1
    <3> DEFINE v == [u EXCEPT !.ticks = 0]
    <3>1. t = Teeter!BeatOver(v)
      BY <2>1, <2>2, <2>6 DEF Teeter!TickOf, TeeterSound, TeeterFields
    <3>2. /\ "index" \in DOMAIN v /\ v.index = u.index /\ v.phase \in {"complete", "intro"}
          /\ v.level < Levels \/ v.level = Levels
      BY <2>2, <2>3, <2>6, TowerAssumption DEF TeeterSound, TeeterFields
    <3> HIDE DEF v
    <3>3. CASE v.phase = "complete" /\ v.level < Levels
      BY <2>3, <3>1, <3>2, <3>3, TowerAssumption DEF Teeter!BeatOver, Teeter!AdvanceLevel
    <3>4. CASE v.phase = "complete" /\ v.level = Levels
      <4>1. t = [v EXCEPT !.over = TRUE, !.next = FALSE]
        BY <3>1, <3>4, TowerAssumption DEF Teeter!BeatOver
      <4> QED
        BY <2>3, <3>2, <4>1
    <3>5. CASE v.phase = "intro"
      <4>1. t = [v EXCEPT !.phase = "playing", !.wait = 0]
        BY <3>1, <3>5 DEF Teeter!BeatOver
      <4> QED
        BY <2>3, <3>2, <4>1
    <3> QED
      BY <3>2, <3>3, <3>4, <3>5
  <2> QED
    BY <2>2, <2>4, <2>5, <2>6 DEF TeeterSound, TeeterFields
<1> QED
  BY <1>1, <1>2

\* Violet opens Checkers with a step of a man of the front row.
LEMMA DraughtsStartGoesOn ==
  ASSUME HomeRows \in Nat \ {0}, 2 * HomeRows < CheckersSize, CheckersSize >= 2, Checkers!Man("violet") # Empty, NEW s \in Checkers!Opening
  PROVE  s.turn \in {"violet", "amber"} /\ Checkers!LegalMoves(s.cells, s.turn) # {}
<1> DEFINE cells == Checkers!StartingBoard
           row == CheckersSize - HomeRows
           col == IF row % 2 = 0 THEN 1 ELSE 0
           sq == <<row, col>>
           d == IF col = 0 THEN <<-1, 1>> ELSE <<-1, -1>>
           to == <<row - 1, 1 - col>>
<1>1. s.cells = cells /\ s.turn = "violet" /\ CheckersSize \in Nat
  BY OpeningsAssumption DEF Checkers!Opening
<1>2. /\ row \in 0 .. CheckersSize - 1 /\ row - 1 \in 0 .. CheckersSize - 1 /\ row - 1 < CheckersSize - HomeRows
      /\ ~(row < HomeRows) /\ ~(row - 1 < HomeRows) /\ row >= CheckersSize - HomeRows
      /\ col \in {0, 1} /\ (row + col) % 2 = 1
  BY <1>1
<1> HIDE DEF row, col
<1>3. sq \in Checkers!Squares(CheckersSize) /\ to \in Checkers!Squares(CheckersSize)
  BY <1>1, <1>2 DEF Checkers!Squares
<1>4. cells[sq] = Checkers!Man("violet")
  <2>1. Checkers!IsDark(sq)
    BY <1>2 DEF Checkers!IsDark
  <2> QED
    BY <1>2, <1>3, <2>1 DEF Checkers!StartingBoard, row
<1>5. cells[to] = Empty
  <2>1. ~(to[1] < HomeRows) /\ ~(to[1] >= CheckersSize - HomeRows)
    BY <1>1, <1>2
  <2> HIDE DEF to
  <2> QED
    BY <1>3, <2>1 DEF Checkers!StartingBoard
<1>6. Checkers!Step(sq, d, 1) = to
  BY <1>2 DEF Checkers!Step
<1>7. d \in Checkers!StepsFor(cells[sq])
  <2>1. d \in Checkers!Diagonal /\ d[1] = -1
    BY DEF Checkers!Diagonal
  <2>2. cells[sq].king = FALSE /\ cells[sq].side = "violet"
    BY <1>4 DEF Checkers!Man
  <2> HIDE DEF cells, sq, d
  <2> QED
    BY <2>1, <2>2 DEF Checkers!StepsFor, Checkers!ForwardSteps
<1>8. sq \in Checkers!Mine(cells, "violet")
  <2>1. cells[sq].side = "violet" /\ DOMAIN cells = Checkers!Squares(CheckersSize)
    BY <1>4 DEF Checkers!Man, Checkers!StartingBoard
  <2>2. cells[sq] # Empty
    BY <1>4
  <2> QED
    BY <1>3, <2>1, <2>2 DEF Checkers!Mine, Checkers!Belongs
<1>9. Checkers!Holds(cells, Checkers!Step(sq, d, 1), Empty)
  BY <1>3, <1>5, <1>6 DEF Checkers!Holds, Checkers!StartingBoard
<1> HIDE DEF cells, sq, d
<1>10. [from |-> sq, path |-> <<Checkers!Step(sq, d, 1)>>] \in Checkers!Walks(cells, "violet")
  BY <1>7, <1>8, <1>9 DEF Checkers!Walks
<1>11. Checkers!LegalMoves(cells, "violet") # {}
  BY <1>10 DEF Checkers!LegalMoves
<1> QED
  BY <1>1, <1>11

\* White opens chess with a step of the pawn at the edge, which uncovers nobody.
OpeningStep == [from |-> <<6, 0>>, to |-> <<5, 0>>, promotion |-> "none"]

LEMMA WhiteOpens ==
  LET s == Chess!StartingPosition
  IN  /\ Chess!ColorAt(s.cells, OpeningStep.from, s.turn)
      /\ OpeningStep \in Chess!PseudoMovesFrom(s, OpeningStep.from)
      /\ ~Chess!IsInCheck(Chess!BoardAfter(s, OpeningStep), s.turn)
<1> DEFINE back == <<"R", "N", "B", "Q", "K", "B", "N", "R">>
           s == Chess!StartingPosition
           m == OpeningStep
           after == Chess!BoardAfter(s, m)
<1>1. /\ s.turn = "white" /\ s.castling = Chess!FullCastling /\ s.enPassant = Chess!Nowhere
      /\ m.from = <<6, 0>> /\ m.to = <<5, 0>> /\ m.promotion = "none"
  BY DEF Chess!StartingPosition, Chess!White, OpeningStep
<1> HIDE DEF back
<1>2. s.cells = [sq \in Chess!Squares(8) |-> CASE sq[1] = 0 -> <<"black", back[sq[2] + 1]>>
                                               [] sq[1] = 1 -> <<"black", "P">>
                                               [] sq[1] = 6 -> <<"white", "P">>
                                               [] sq[1] = 7 -> <<"white", back[sq[2] + 1]>>
                                               [] OTHER -> Empty]
  BY Zenon DEF Chess!StartingPosition, Chess!BoardSize, Chess!White, Chess!Black, back
<1>3. ChessPosition(s)
  BY ChessStarts
<1> HIDE DEF s, m
<1>4. \A color \in Colors, t \in Types : <<color, t>> # Empty
  BY OpeningsAssumption DEF ChessMen, Colors, Types, Chess!White, Chess!Black
<1>5. \A r, c \in 0 .. 7 :
         /\ r = 6 => s.cells[<<r, c>>] = <<"white", "P">>
         /\ r = 7 => s.cells[<<r, c>>] = <<"white", back[c + 1]>>
         /\ r \in 2 .. 5 => s.cells[<<r, c>>] = Empty
  BY <1>2 DEF Chess!Squares
<1>6. /\ DOMAIN s.cells = Chess!Squares(8) /\ "P" \in Types /\ "K" \in Types /\ "black" \in Colors /\ "white" \in Colors
      /\ <<6, 0>> \in Chess!Squares(8) /\ <<5, 0>> \in Chess!Squares(8) /\ <<7, 4>> \in Chess!Squares(8)
  BY <1>2 DEF Types, Colors, Chess!Squares
<1>7. s.cells[<<6, 0>>] = <<"white", "P">> /\ s.cells[<<5, 0>>] = Empty
  <2>1. 6 \in 0 .. 7 /\ 0 \in 0 .. 7 /\ 5 \in 0 .. 7 /\ 5 \in 2 .. 5
    OBVIOUS
  <2> QED
    BY <1>5, <2>1
<1>8. Chess!ColorAt(s.cells, <<6, 0>>, "white")
  BY <1>4, <1>6, <1>7 DEF Chess!ColorAt
<1>9. m \in Chess!PseudoMovesFrom(s, <<6, 0>>)
  <2> DEFINE ahead(k) == Chess!Step(<<6, 0>>, <<Chess!PawnDir("white"), 0>>, k)
             advances == {ahead(1)} \cap {sq \in DOMAIN s.cells : s.cells[sq] = Empty}
             takes == {sq \in {Chess!Step(<<6, 0>>, <<Chess!PawnDir("white"), dc>>, 1) : dc \in {-1, 1}} :
                          Chess!ColorAt(s.cells, sq, Chess!OtherColor("white"))}
  <2>1. ahead(1) = <<5, 0>>
    BY DEF Chess!Step, Chess!PawnDir, Chess!White
  <2>2. <<5, 0>> \in advances
    BY <1>6, <1>7, <2>1
  <2>3. Chess!PseudoMovesFrom(s, <<6, 0>>) = Chess!PawnMoves(s, <<6, 0>>, "white")
    BY <1>7 DEF Chess!PseudoMovesFrom
  <2>4. Chess!PawnArrives(<<6, 0>>, advances \cup takes, "white") \subseteq Chess!PawnMoves(s, <<6, 0>>, "white")
    BY Zenon DEF Chess!PawnMoves
  <2> HIDE DEF advances, takes
  <2>5. m \in Chess!Quiet(<<6, 0>>, {to \in advances \cup takes : to[1] # Chess!PromotionRow("white")})
    <3>1. <<5, 0>>[1] # Chess!PromotionRow("white")
      BY DEF Chess!PromotionRow, Chess!White
    <3>2. <<5, 0>> \in {to \in advances \cup takes : to[1] # Chess!PromotionRow("white")}
      BY <2>2, <3>1
    <3> HIDE DEF Chess!PromotionRow
    <3>3. m = [from |-> <<6, 0>>, to |-> <<5, 0>>, promotion |-> "none"]
      BY DEF m, OpeningStep
    <3> QED
      BY <3>2, <3>3 DEF Chess!Quiet
  <2>6. m \in Chess!PawnArrives(<<6, 0>>, advances \cup takes, "white")
    BY Zenon, <2>5 DEF Chess!PawnArrives
  <2> QED
    BY <2>3, <2>4, <2>6
<1>10. after = [s.cells EXCEPT ![<<6, 0>>] = Empty, ![<<5, 0>>] = <<"white", "P">>]
  <2>1. ~Chess!IsCastle(s, m) /\ ~Chess!IsEnPassant(s, m) /\ m.to[1] # Chess!PromotionRow(s.turn)
    BY <1>1, <1>7 DEF Chess!IsCastle, Chess!IsEnPassant, Chess!Type, Chess!PromotionRow, Chess!White
  <2>2. after = [Chess!Placed(s.cells, {<<6, 0>>} \cup {}, Empty) EXCEPT ![<<5, 0>>] = <<"white", "P">>]
    BY <1>1, <1>7, <2>1 DEF Chess!BoardAfter
  <2> QED
    BY <1>6, <2>2 DEF Chess!Placed
<1> HIDE DEF after
<1>11. /\ DOMAIN after = Chess!Squares(8)
       /\ \A sq \in Chess!Squares(8) : \/ sq = <<6, 0>> /\ after[sq] = Empty
                                       \/ sq = <<5, 0>> /\ after[sq] = <<"white", "P">>
                                       \/ sq \notin {<<6, 0>>, <<5, 0>>} /\ after[sq] = s.cells[sq]
  BY <1>6, <1>10
\* Black's men stand on the two first rows, and White's pawns cover White's king.
<1>12. ASSUME NEW sq, NEW t \in Types, Chess!Holds(after, sq, <<"black", t>>)
       PROVE  sq[1] \in {0, 1}
  <2>1. sq \in Chess!Squares(8) /\ after[sq] = <<"black", t>>
    BY <1>11, <1>12 DEF Chess!Holds
  <2>2. PICK r \in 0 .. 7, c \in 0 .. 7 : sq = <<r, c>>
    BY <2>1, SquaresArePairs
  <2>3. Empty # <<"black", t>> /\ <<"white", "P">> # <<"black", t>>
    BY <1>4, <1>6
  <2>4. s.cells[sq] = <<"black", t>>
    BY <1>11, <2>1, <2>3
  <2>5. CASE r \in 2 .. 5
    BY <1>5, <2>2, <2>3, <2>4, <2>5
  <2>6. CASE r \in {6, 7}
    <3>1. \E u : s.cells[<<r, c>>] = <<"white", u>>
      BY <1>5, <2>6
    <3> QED
      BY <2>2, <2>4, <3>1
  <2> QED
    BY <2>2, <2>5, <2>6
<1>13. ASSUME NEW c, c \in 3 .. 5, Chess!Holds(after, <<6, c>>, Empty)
       PROVE  FALSE
  <2>1. c \in 0 .. 7 /\ <<6, c>> # <<6, 0>> /\ <<6, c>> # <<5, 0>> /\ 6 \in 0 .. 7
    BY <1>13
  <2>2. <<6, c>> \in Chess!Squares(8)
    BY <2>1 DEF Chess!Squares
  <2>3. after[<<6, c>>] = s.cells[<<6, c>>]
    BY <1>11, <2>1, <2>2
  <2>4. s.cells[<<6, c>>] = <<"white", "P">>
    BY <1>5, <2>1
  <2> QED
    BY <1>4, <1>6, <1>13, <2>3, <2>4 DEF Chess!Holds
<1>14. ~Chess!IsSquareAttacked(after, <<7, 4>>, "black")
  <2>1. ASSUME NEW dc \in {-1, 1}, Chess!Holds(after, <<7 - Chess!PawnDir("black"), 4 + dc>>, <<"black", "P">>)
        PROVE  FALSE
    <3>1. 7 - Chess!PawnDir("black") = 6
      BY DEF Chess!PawnDir, Chess!White
    <3> QED
      BY <1>6, <1>12, <2>1, <3>1
  <2>2. ASSUME NEW d \in Chess!KnightSteps \cup Chess!AllDirections, NEW t \in Types,
               Chess!Holds(after, Chess!Step(<<7, 4>>, d, 1), <<"black", t>>)
        PROVE  FALSE
    <3>1. d[1] \in -2 .. 2
      BY DEF Chess!KnightSteps, Chess!AllDirections, Chess!Orthogonal, Chess!Diagonal
    <3>2. Chess!Step(<<7, 4>>, d, 1)[1] = 7 + d[1]
      BY <3>1 DEF Chess!Step
    <3> QED
      BY <1>12, <2>2, <3>1, <3>2
  <2>3. ASSUME NEW d \in Chess!AllDirections, NEW types, types \subseteq Types,
               Chess!RayAttacks(after, <<7, 4>>, d, "black", types)
        PROVE  FALSE
    <3>1. PICK k \in 1 .. 7 : /\ \E t \in types : Chess!Holds(after, Chess!Step(<<7, 4>>, d, k), <<"black", t>>)
                              /\ Chess!EmptyBetween(after, <<7, 4>>, d, k)
      BY <2>3 DEF Chess!RayAttacks, Chess!BoardSize
    <3>2. PICK a \in -1 .. 1, b \in -1 .. 1 : d = <<a, b>>
      BY DEF Chess!AllDirections, Chess!Orthogonal, Chess!Diagonal
    <3>3. Chess!Step(<<7, 4>>, d, k)[1] = 7 + k * a /\ Chess!Step(<<7, 4>>, d, 1) = <<7 + a, 4 + b>>
      BY <3>2 DEF Chess!Step
    <3>4. 7 + k * a \in {0, 1}
      BY <1>12, <2>3, <3>1, <3>3
    <3>5. a = -1 /\ k >= 6
      <4>1. a = -1 \/ a = 0 \/ a = 1
        OBVIOUS
      <4>2. k * (-1) = -k /\ k * 0 = 0 /\ k * 1 = k
        OBVIOUS
      <4> QED
        BY <3>4, <4>1, <4>2
    <3>6. Chess!Holds(after, Chess!Step(<<7, 4>>, d, 1), Empty)
      <4>1. 1 \in 1 .. k - 1
        BY <3>5
      <4> QED
        BY <3>1, <4>1 DEF Chess!EmptyBetween
    <3>7. 4 + b \in 3 .. 5 /\ 7 + a = 6
      BY <3>5
    <3> QED
      BY <1>13, <3>3, <3>6, <3>7
  <2>4. /\ {"R", "Q"} \subseteq Types /\ {"B", "Q"} \subseteq Types /\ {"N", "K"} \subseteq Types
        /\ Chess!Orthogonal \subseteq Chess!AllDirections /\ Chess!Diagonal \subseteq Chess!AllDirections
        /\ <<7, 4>>[1] = 7 /\ <<7, 4>>[2] = 4
    BY DEF Types, Chess!AllDirections
  <2> SUFFICES ASSUME Chess!IsSquareAttacked(after, <<7, 4>>, "black") PROVE FALSE
    OBVIOUS
  <2>5. \/ \E dc \in {-1, 1} : Chess!Holds(after, <<7 - Chess!PawnDir("black"), 4 + dc>>, <<"black", "P">>)
        \/ \E d \in Chess!KnightSteps : Chess!Holds(after, Chess!Step(<<7, 4>>, d, 1), <<"black", "N">>)
        \/ \E d \in Chess!AllDirections : Chess!Holds(after, Chess!Step(<<7, 4>>, d, 1), <<"black", "K">>)
        \/ \E d \in Chess!Orthogonal : Chess!RayAttacks(after, <<7, 4>>, d, "black", {"R", "Q"})
        \/ \E d \in Chess!Diagonal : Chess!RayAttacks(after, <<7, 4>>, d, "black", {"B", "Q"})
    BY <2>4 DEF Chess!IsSquareAttacked
  <2> QED
    BY Zenon, <2>1, <2>2, <2>3, <2>4, <2>5
<1>15. Chess!Kings(after, "white") \subseteq {<<7, 4>>}
  <2>1. s.cells[<<7, 4>>] = <<"white", "K">>
    <3>1. <<"white", "K">> \in s.castling
      BY <1>1 DEF Chess!FullCastling, Chess!White
    <3>2. s.cells[<<Chess!BackRow(<<"white", "K">>[1]), 4>>] = <<<<"white", "K">>[1], "K">>
      BY <1>3, <3>1 DEF ChessPosition, SoundPosition
    <3> QED
      BY <3>2 DEF Chess!BackRow, Chess!White
  <2>2. PICK k : Chess!Kings(s.cells, "white") = {k}
    BY <1>3, PositionSays DEF Chess!White, Colors
  <2>3. <<7, 4>> \in Chess!Kings(s.cells, "white")
    BY <1>6, <2>1 DEF Chess!Kings
  <2>4. ASSUME NEW sq \in Chess!Kings(after, "white")
        PROVE  sq \in Chess!Kings(s.cells, "white")
    <3>1. sq \in Chess!Squares(8) /\ after[sq] = <<"white", "K">>
      BY <1>11 DEF Chess!Kings
    <3>2. Empty # <<"white", "K">> /\ <<"white", "P">> # <<"white", "K">>
      BY <1>4, <1>6
    <3> QED
      BY <1>6, <1>11, <3>1, <3>2 DEF Chess!Kings
  <2> QED
    BY <2>2, <2>3, <2>4
<1>16. ~Chess!IsInCheck(after, "white")
  <2>1. Chess!OtherColor("white") = "black"
    BY DEF Chess!OtherColor, Chess!White, Chess!Black
  <2> QED
    BY Zenon, <1>14, <1>15, <2>1 DEF Chess!IsInCheck
<1> QED
  BY <1>1, <1>8, <1>9, <1>16 DEF s, m, after

LEMMA ChessStartGoesOn == Chess!HasLegalMove(Chess!StartingPosition)
<1> DEFINE s == Chess!StartingPosition
<1>1. /\ Chess!ColorAt(s.cells, OpeningStep.from, s.turn)
      /\ OpeningStep \in Chess!PseudoMovesFrom(s, OpeningStep.from)
      /\ ~Chess!IsInCheck(Chess!BoardAfter(s, OpeningStep), s.turn)
  BY WhiteOpens
<1>2. OpeningStep.from \in Chess!Army(s.cells, s.turn)
  BY <1>1 DEF Chess!Army, Chess!ColorAt
<1> HIDE DEF s
<1>3. Chess!HasLegalMove(s)
  BY Zenon, <1>1, <1>2 DEF Chess!HasLegalMove
<1> QED
  BY <1>3 DEF s

LEMMA NightleafOpensOn ==
  ASSUME NEW s \in Nightleaf!Opening
  PROVE  GoesOn("nightleaf", s)
<1> DEFINE b == [tier |-> 1, buds |-> MaxBuds, fireflies |-> Fireflies, hands |-> [p \in Nightleaf!Players |-> {}],
                 trunk |-> <<>>, hushProposers |-> {}, over |-> FALSE, won |-> FALSE,
                 phase |-> "playing", phaseTicks |-> 0]
<1>1. PICK deal \in Nightleaf!Deals(1) : s = Nightleaf!DealInto(b, deal)
  BY DEF Nightleaf!Opening
<1>2. NightleafFields \subseteq DOMAIN b
  BY DEF NightleafFields
<1> HIDE DEF b
<1>3. 1 \in Nat \ {0}
  OBVIOUS
<1> QED
  BY <1>1, <1>2, <1>3, NightleafDealsGoOn

LEMMA BramblesOpensOn ==
  ASSUME NEW s \in Brambles!Opening
  PROVE  s.ticks \in Int
<1> DEFINE b == [sprint |-> 0, ticks |-> 0, used |-> {}, card |-> "none", scores |-> [team \in {0, 1} |-> 0], over |-> FALSE]
           c == [b EXCEPT !.sprint = @ + 1, !.ticks = 0]
<1>1. s \in Brambles!NextCard(c)
  BY DEF Brambles!Opening, Brambles!OpenSprint, Brambles!NoCard
<1>2. "ticks" \in DOMAIN c /\ c.ticks = 0
  OBVIOUS
<1> HIDE DEF b, c
<1>3. s.ticks = c.ticks
  BY <1>1, <1>2 DEF Brambles!NextCard
<1> QED
  BY <1>2, <1>3

LEMMA GamesOpenOn ==
  ASSUME NEW g \in Games, NEW s \in Openings(g)
  PROVE  GoesOn(g, s)
<1>1. CASE g = "reversi"
  <2>1. s \in Reversi!Opening
    BY <1>1 DEF Openings
  <2> QED
    BY <1>1, <2>1, ReversiStarts DEF GoesOn
<1>2. CASE g = "checkers"
  <2>1. s \in CheckersOpenings
    BY <1>2 DEF Openings
  <2> QED
    BY <1>2, <2>1, OpeningsAssumption DEF GoesOn
<1>3. CASE g = "chess"
  <2>1. s \in ChessOpenings
    BY <1>3 DEF Openings
  <2> QED
    BY <1>3, <2>1, OpeningsAssumption DEF GoesOn
<1>4. CASE g = "teeter-tower"
  <2>1. s \in Teeter!Opening
    BY <1>4 DEF Openings
  <2>2. "index" \in DOMAIN s /\ s.index \in Nat
    BY <2>1 DEF Teeter!Opening
  <2> QED
    BY <1>4, <2>2 DEF GoesOn
<1>5. CASE g = "nightleaf"
  <2>1. s \in Nightleaf!Opening
    BY <1>5 DEF Openings
  <2> QED
    BY <1>5, <2>1, NightleafOpensOn
<1>6. CASE g = "brambles"
  <2>1. s \in Brambles!Opening
    BY <1>6 DEF Openings
  <2> QED
    BY <1>6, <2>1, BramblesOpensOn DEF GoesOn
<1>7. CASE g = "whispergrove"
  BY <1>7 DEF GoesOn
<1> QED
  BY <1>1, <1>2, <1>3, <1>4, <1>5, <1>6, <1>7, GamesAssumption

LEMMA GamesMoveOn ==
  ASSUME LiveGamesSound, GoesOn(game, scratch), NEW p \in Players, NEW m, NEW t \in Accepted(p, m)
  PROVE  GoesOn(game, t)
<1>1. t = scratch \/ t \in CollectMove(p, m)
  BY DEF Accepted
<1>2. CASE t \in CollectMove(p, m)
  <2>1. CASE game = "reversi"
    <3>1. t = Reversi!CollectMove(scratch, p, m)
      BY <1>2, <2>1 DEF CollectMove
    <3>2. ReversiSound(scratch) /\ (scratch.over \/ ~ReversiStuck(scratch, scratch.turn))
      BY <2>1 DEF LiveGamesSound, Sound, GoesOn
    <3> QED
      BY <2>1, <3>1, <3>2, ReversiGoesOn DEF GoesOn
  <2>2. CASE game = "checkers"
    <3>1. t = Checkers!CollectMove(scratch, p, m)
      BY <1>2, <2>2 DEF CollectMove
    <3>2. /\ scratch.turn \in {"violet", "amber"}
          /\ scratch.over \/ Checkers!LegalMoves(scratch.cells, scratch.turn) # {}
      BY <2>2 DEF GoesOn
    <3> QED
      BY <2>2, <3>1, <3>2, DraughtsGoOn DEF GoesOn
  <2>3. CASE game = "chess"
    <3>1. t = Chess!CollectMove(scratch, p, m)
      BY <1>2, <2>3 DEF CollectMove
    <3>2. ChessPosition(scratch) /\ (scratch.over \/ Chess!HasLegalMove(scratch))
      BY <2>3 DEF LiveGamesSound, Sound, ChessSound, GoesOn
    <3> QED
      BY <2>3, <3>1, <3>2, ChessGoesOn DEF GoesOn
  <2>4. CASE game = "teeter-tower"
    <3>1. t = Teeter!CollectMove(scratch, p, m)
      BY <1>2, <2>4 DEF CollectMove
    <3>2. "index" \in DOMAIN scratch /\ scratch.index \in Nat
      BY <2>4 DEF GoesOn
    <3> QED
      BY <2>4, <3>1, <3>2, TeeterDropsGoOn DEF GoesOn
  <2>5. CASE game = "nightleaf"
    <3>1. t = Nightleaf!CollectMove(scratch, p, m)
      BY <1>2, <2>5 DEF CollectMove
    <3>2. p \in Nightleaf!Players
      BY <2>5 DEF Players, Range, Nightleaf!Players, Nightleaf!Range
    <3>3. NightleafSound(scratch)
      BY <2>5 DEF LiveGamesSound, Sound
    <3> QED
      BY <2>5, <3>1, <3>2, <3>3, NightleafGoesOn
  <2>6. CASE game = "brambles"
    <3>1. t \in Brambles!CollectMove(scratch, p, m)
      BY <1>2, <2>6 DEF CollectMove
    <3>2. BramblesSound(scratch) /\ scratch.ticks \in Int
      BY <2>6 DEF LiveGamesSound, Sound, GoesOn
    <3>3. t.ticks \in Int
      BY <3>1, <3>2, BramblesTakesGoOn
    <3> QED
      BY <2>6, <3>3 DEF GoesOn
  <2>7. CASE game = "whispergrove"
    BY <2>7 DEF GoesOn
  <2> QED
    BY <2>1, <2>2, <2>3, <2>4, <2>5, <2>6, <2>7, GamesAssumption DEF LiveGamesSound
<1> QED
  BY <1>1, <1>2

\* The frames that change a game on their own, and those that leave it as it was.
FramesMove(s) ==
    \/ game = "brambles" /\ ~s.over
    \/ game = "nightleaf" /\ ~s.over /\ s.phase # "playing"

LEMMA GamesTickOn ==
  ASSUME LiveGamesSound, GoesOn(game, scratch), NEW t \in Ticked
  PROVE  GoesOn(game, t) /\ (FramesMove(scratch) => t # scratch)
<1>1. CASE game = "teeter-tower"
  <2>1. t \in Teeter!Tick(scratch)
    BY <1>1 DEF Ticked
  <2>2. TeeterSound(scratch) /\ "index" \in DOMAIN scratch /\ scratch.index \in Nat
    BY <1>1 DEF LiveGamesSound, Sound, GoesOn
  <2>3. "index" \in DOMAIN t /\ t.index = scratch.index
    BY <2>1, <2>2, TeeterFramesGoOn
  <2> QED
    BY <1>1, <2>2, <2>3 DEF GoesOn, FramesMove
<1>2. CASE game = "nightleaf"
  <2>1. t \in Nightleaf!Tick(scratch)
    BY <1>2 DEF Ticked
  <2>2. NightleafSound(scratch)
    BY <1>2 DEF LiveGamesSound, Sound
  <2>3. CASE scratch.over \/ scratch.phase = "playing"
    <3>1. t = scratch
      BY <2>1, <2>3 DEF Nightleaf!Tick
    <3> QED
      BY <1>2, <2>3, <3>1 DEF FramesMove
  <2>4. CASE ~scratch.over /\ scratch.phase # "playing"
    <3>1. GoesOn("nightleaf", t) /\ t # scratch
      BY <1>2, <2>1, <2>2, <2>4, BannersGoOn
    <3> QED
      BY <1>2, <3>1
  <2> QED
    BY <2>3, <2>4
<1>3. CASE game = "brambles"
  <2>1. t \in Brambles!Tick(scratch)
    BY <1>3 DEF Ticked
  <2>2. BramblesSound(scratch) /\ scratch.ticks \in Int
    BY <1>3 DEF LiveGamesSound, Sound, GoesOn
  <2>3. CASE scratch.over
    <3>1. t = scratch
      BY <2>1, <2>3 DEF Brambles!Tick
    <3> QED
      BY <1>3, <2>3, <3>1 DEF FramesMove
  <2>4. CASE ~scratch.over
    <3>1. t.ticks \in Int /\ t # scratch
      BY <2>1, <2>2, <2>4, BramblesGoOn
    <3> QED
      BY <1>3, <3>1 DEF GoesOn
  <2> QED
    BY <2>3, <2>4
<1>4. CASE game \notin {"teeter-tower", "nightleaf", "brambles"}
  <2>1. t = scratch
    BY <1>4 DEF Ticked
  <2> QED
    BY <1>4, <2>1 DEF FramesMove
<1> QED
  BY <1>1, <1>2, <1>3, <1>4

\* What a screen of the tower keeps.
Aims(d) == DOMAIN d = {"aimed", "aim", "dropped"}

ScreensGoOn ==
    /\ ScreensSound
    /\ GoesOn(game, scratch)
    /\ game = "teeter-tower" => \A p \in Players : Aims(device[p])

LEMMA TeeterFramesAim ==
  ASSUME NEW d, Aims(d), NEW s, NEW p
  PROVE  Aims(Teeter!OnFrame(d, s, p))
<1>1. Aims([Teeter!Blank EXCEPT !.aimed = Teeter!NextId(s)])
  BY DEF Teeter!Blank, Aims
<1> QED
  BY <1>1 DEF Teeter!OnFrame

LEMMA TeeterTapsAim ==
  ASSUME NEW d, Aims(d), NEW s, NEW p, NEW t \in Teeter!Taps(s, d, p)
  PROVE  Aims(t.device)
<1>1. \/ t = [device |-> [d EXCEPT !.aim = "placing"], sends |-> <<>>]
      \/ \E m : t = [device |-> [d EXCEPT !.dropped = TRUE], sends |-> <<m>>]
  BY Zenon DEF Teeter!Taps
<1>2. \A e, sends : [device |-> e, sends |-> sends].device = e
  OBVIOUS
<1>3. \/ t.device = [d EXCEPT !.aim = "placing"]
      \/ t.device = [d EXCEPT !.dropped = TRUE]
  BY Zenon, <1>1, <1>2
<1> QED
  BY <1>3 DEF Aims

LEMMA ScreensOpenOn ==
  ASSUME ScreensInit
  PROVE  ScreensGoOn
<1>1. ScreensSound /\ GoesOn(game, scratch)
  BY ScreensOpen, GamesOpenOn DEF ScreensInit, Init
<1>2. ASSUME game = "teeter-tower", NEW p \in Players
      PROVE  Aims(device[p])
  <2>1. device[p] = Teeter!OnFrame(Teeter!Blank, scratch, p)
    BY <1>2 DEF ScreensInit, OnFrame, Blank
  <2>2. Aims(Teeter!Blank)
    BY DEF Teeter!Blank, Aims
  <2> QED
    BY <2>1, <2>2, TeeterFramesAim
<1> QED
  BY <1>1, <1>2 DEF ScreensGoOn

LEMMA ScreensStayOn ==
  ASSUME ScreensGoOn, [ScreensNext]_screenVars
  PROVE  ScreensGoOn'
<1>1. ScreensSound'
  BY ScreensStaySound DEF ScreensGoOn
<1>2. game' = game /\ Players' = Players
  BY DEF ScreensNext, Tap, Publish, Restart, Elsewhere, Closed, HostAdvance, SubmitMove, Submitted, SimTick, screenVars, vars,
         Players
<1>3. LiveGamesSound /\ GoesOn(game, scratch) /\ DOMAIN device = Players
  BY DEF ScreensGoOn, ScreensSound
<1>4. GoesOn(game, scratch')
  <2>1. ASSUME NEW p \in Players, NEW m, Submitted(p, m)
        PROVE  GoesOn(game, scratch')
    <3>1. scratch' \in Accepted(p, m)
      BY <2>1 DEF Submitted
    <3> QED
      BY <1>3, <3>1, GamesMoveOn
  <2>2. CASE Publish
    <3>1. scratch' \in Ticked
      BY <2>2 DEF Publish, SimTick
    <3> QED
      BY <1>3, <3>1, GamesTickOn
  <2>3. CASE Restart
    <3>1. scratch' \in (IF game = "chess" THEN {Chess!StartingPosition} ELSE Openings(game))
      BY <2>3 DEF Restart
    <3>2. CASE game = "chess"
      BY <3>1, <3>2, ChessStartGoesOn DEF GoesOn
    <3>3. CASE game # "chess"
      BY <1>3, <3>1, <3>3, GamesOpenOn DEF LiveGamesSound
    <3> QED
      BY <3>2, <3>3
  <2>4. CASE UNCHANGED scratch
    BY <1>3, <2>4
  <2>5. \/ UNCHANGED scratch \/ Publish \/ Restart
        \/ \E p \in Players : \E m : Submitted(p, m)
    BY DEF ScreensNext, Tap, Elsewhere, Closed, HostAdvance, SubmitMove, screenVars, vars
  <2> QED
    BY <2>1, <2>2, <2>3, <2>4, <2>5
<1>5. ASSUME game = "teeter-tower", NEW p \in Players
      PROVE  Aims(device'[p])
  <2>1. \A q \in Players : Aims(device[q])
    BY <1>5 DEF ScreensGoOn
  <2>2. ASSUME NEW q \in Players, Tap(q)
        PROVE  Aims(device'[p])
    <3>1. PICK t \in Taps(device[q], q) : device' = [device EXCEPT ![q] = t.device]
      BY <2>2 DEF Tap
    <3>2. t \in Teeter!Taps(Shown, device[q], q)
      BY <1>5, <3>1 DEF Taps
    <3>3. Aims(t.device)
      BY <2>1, <3>2, TeeterTapsAim
    <3>4. device'[p] = IF p = q THEN t.device ELSE device[p]
      BY <1>3, <3>1
    <3> QED
      BY <2>1, <3>3, <3>4
  <2>3. CASE Publish
    <3>1. device'[p] = Teeter!OnFrame(device[p], scratch', p)
      BY <1>2, <1>5, <2>3 DEF Publish, OnFrame
    <3> QED
      BY <2>1, <3>1, TeeterFramesAim
  <2>4. CASE UNCHANGED device
    BY <2>1, <2>4
  <2> QED
    BY <2>2, <2>3, <2>4 DEF ScreensNext, Restart, Elsewhere, Closed, screenVars
<1>6. (GoesOn(game, scratch))'
  BY <1>2, <1>4 DEF GoesOn
<1> QED
  BY <1>1, <1>2, <1>5, <1>6 DEF ScreensGoOn, Aims

LEMMA Carrying ==
  ASSUME NEW p, NEW m, NEW t, t.sends = <<m>>, game = "chess" => m # Chess!Resign, Accepted(p, m) # {scratch}
  PROVE  Carries(t, p)
<1>1. m \in Range(t.sends)
  BY DEF Range
<1> QED
  BY <1>1 DEF Carries

LEMMA OneTap ==
  ASSUME NEW p, NEW t \in Taps(device[p], p), Carries(t, p)
  PROVE  CanCarryOn(p)
BY DEF CanCarryOn

LEMMA TwoTaps ==
  ASSUME NEW p, NEW t1 \in Taps(device[p], p), NEW t2 \in Taps(t1.device, p), Carries(t2, p)
  PROVE  CanCarryOn(p)
BY Zenon DEF CanCarryOn

LEMMA ThreeTaps ==
  ASSUME NEW p, NEW t1 \in Taps(device[p], p), NEW t2 \in Taps(t1.device, p), NEW t3 \in Taps(t2.device, p), Carries(t3, p)
  PROVE  CanCarryOn(p)
BY Zenon DEF CanCarryOn

LEMMA ReversiCarriesOn ==
  ASSUME ScreensGoOn, Playing, game = "reversi"
  PROVE  \E p \in Players : CanCarryOn(p)
<1>1. /\ legal = Reversi!Legal(scratch) /\ ~scratch.over /\ ReversiSound(scratch) /\ Shown = scratch
      /\ ~ReversiStuck(scratch, scratch.turn)
  BY DEF Playing, Shown, Drawn, ScreensGoOn, ScreensSound, Legal, Over, LiveGamesSound, Sound, GoesOn
<1> DEFINE p == scratch.turn
<1>2. p \in Players
  BY <1>1, SeatsAssumption DEF ReversiSound, Players
<1>3. PICK sq \in Reversi!LegalMoves(scratch.cells, scratch.turn) : sq \in legal
  BY <1>1 DEF ReversiStuck, Reversi!Legal
<1> DEFINE t == [device |-> device[p], sends |-> <<sq>>]
<1>4. t \in Taps(device[p], p)
  BY <1>1, <1>3 DEF Taps, Reversi!Taps, Reversi!IsActive
<1>5. Accepted(p, sq) = {Reversi!CollectMove(scratch, p, sq)}
  BY DEF Accepted, Refused, CollectMove
<1>6. Reversi!CollectMove(scratch, p, sq) # scratch
  BY <1>1, <1>3, DiscsLand
<1>7. t.sends = <<sq>>
  OBVIOUS
<1> HIDE DEF p, t
<1>8. Carries(t, p)
  BY <1>5, <1>6, <1>7, Carrying
<1> QED
  BY <1>2, <1>4, <1>8, OneTap

LEMMA DraughtsCarryOn ==
  ASSUME ScreensGoOn, Playing, game = "checkers"
  PROVE  \E p \in Players : CanCarryOn(p)
<1>1. /\ legal = Checkers!Legal(scratch) /\ ~scratch.over /\ Shown = scratch
      /\ scratch.turn \in {"violet", "amber"} /\ Checkers!LegalMoves(scratch.cells, scratch.turn) # {}
  BY DEF Playing, Shown, Drawn, ScreensGoOn, ScreensSound, Legal, Over, GoesOn
<1>2. legal = Checkers!LegalMoves(scratch.cells, scratch.turn)
  BY <1>1 DEF Checkers!Legal
<1> DEFINE p == scratch.turn
           d == device[p]
<1>3. p \in Players
  BY <1>1, SeatsAssumption DEF Players
<1>4. Checkers!IsActive(scratch, p)
  BY <1>1 DEF Checkers!IsActive
<1>5. \A e : Taps(e, p) = Checkers!Taps(scratch, legal, e, p)
  BY <1>1 DEF Taps
<1>6. ASSUME NEW e, NEW m \in legal, m.from \in e.selected
      PROVE  \E t \in Taps(e, p) : Carries(t, p)
  <2> DEFINE t == [device |-> Checkers!Blank, sends |-> <<m>>]
  <2>1. t \in {[device |-> Checkers!Blank, sends |-> <<n>>] : n \in {n \in legal : n.from \in e.selected}}
    BY <1>6
  <2>2. t \in Taps(e, p)
    BY <1>4, <1>5, <2>1 DEF Checkers!Taps
  <2>3. Accepted(p, m) = {Checkers!CollectMove(scratch, p, m)}
    BY DEF Accepted, Refused, CollectMove
  <2>4. Checkers!CollectMove(scratch, p, m) # scratch
    BY <1>1, <1>2, DraughtsLand
  <2>5. t.sends = <<m>>
    OBVIOUS
  <2> HIDE DEF p, t
  <2>6. Carries(t, p)
    BY <2>3, <2>4, <2>5, Carrying
  <2> QED
    BY <2>2, <2>6
<1>7. CASE \E m \in legal : m.from \in d.selected
  <2> HIDE DEF p
  <2> QED
    BY <1>3, <1>6, <1>7, OneTap
<1>8. CASE ~\E m \in legal : m.from \in d.selected
  <2>1. PICK m \in legal : TRUE
    BY <1>1, <1>2
  <2> DEFINE t1 == [device |-> [selected |-> {m.from}], sends |-> <<>>]
  <2>2. m.from \in Checkers!MovableSources(legal)
    BY <2>1 DEF Checkers!MovableSources
  <2>3. m.from \notin d.selected
    BY <1>8, <2>1
  <2>4. Checkers!DestinationsFor(legal, d.selected) = {}
    BY <1>8 DEF Checkers!DestinationsFor
  <2>5. t1 \in {[device |-> [selected |-> {sq}], sends |-> <<>>] :
                  sq \in Checkers!MovableSources(legal) \ (d.selected \cup Checkers!DestinationsFor(legal, d.selected))}
    BY <2>2, <2>3, <2>4
  <2>6. t1 \in Taps(d, p)
    BY <1>4, <1>5, <2>5 DEF Checkers!Taps
  <2>7. t1.device.selected = {m.from}
    OBVIOUS
  <2> HIDE DEF t1, p
  <2>8. PICK t2 \in Taps(t1.device, p) : Carries(t2, p)
    BY <1>6, <2>1, <2>7
  <2> QED
    BY <1>3, <2>6, <2>8, TwoTaps
<1> QED
  BY <1>7, <1>8

LEMMA TowerCarriesOn ==
  ASSUME ScreensGoOn, Playing, game = "teeter-tower", scratch.next, ~Stuck
  PROVE  \E p \in Players : CanCarryOn(p)
<1>1. /\ ~scratch.over /\ Shown = scratch /\ TeeterSound(scratch) /\ "index" \in DOMAIN scratch /\ scratch.index \in Nat
      /\ \A p \in Players : Aims(device[p])
  BY DEF Playing, ScreensGoOn, ScreensSound, Over, LiveGamesSound, Sound, GoesOn
<1> DEFINE p == Teeter!ActivePlayer(scratch)
           d == device[p]
<1>2. p \in Players
  <2>1. Tables["teeter-tower"] \in Seq(Range(Tables["teeter-tower"])) /\ Tables["teeter-tower"] # <<>>
    BY SeatsAssumption
  <2>2. Len(Tables["teeter-tower"]) \in Nat \ {0}
    BY <2>1
  <2>3. (scratch.index % Len(Tables["teeter-tower"])) + 1 \in DOMAIN Tables["teeter-tower"]
    BY <1>1, <2>1, <2>2
  <2> QED
    BY <2>1, <2>3 DEF Teeter!ActivePlayer, Players, Range
<1>3. ~d.dropped /\ ~(scratch.placed >= MaxPlaced) /\ Aims(d)
  BY <1>1, <1>2 DEF Stuck
<1>4. Teeter!IsActive(scratch, p)
  BY <1>1 DEF Teeter!IsActive
<1>5. \A e : Taps(e, p) = Teeter!Taps(scratch, e, p)
  BY <1>1 DEF Taps
<1>6. ASSUME NEW e, ~e.dropped, e.aim # "spinning"
      PROVE  \E t \in Taps(e, p) : Carries(t, p)
  <2> DEFINE Drop(m) == [device |-> [e EXCEPT !.dropped = TRUE], sends |-> <<m>>]
  <2>1. Taps(e, p) = {Drop(m) : m \in {"clear", "overlaps"}}
    BY Zenon, <1>4, <1>5, <1>6 DEF Teeter!Taps
  <2>2. Drop("clear") \in Taps(e, p) /\ Drop("clear").sends = <<"clear">>
    BY <2>1
  <2>3. ~Teeter!Refused(scratch, p, "clear")
    BY <1>1, <1>3 DEF Teeter!Refused, Teeter!Blocked
  <2>4. Accepted(p, "clear") = {Teeter!CollectMove(scratch, p, "clear")}
    BY <2>3 DEF Accepted, Refused, CollectMove
  <2>5. Teeter!CollectMove(scratch, p, "clear") # scratch
    <3>1. PICK score : Teeter!CollectMove(scratch, p, "clear") =
             [scratch EXCEPT !.placed = @ + 1, !.index = @ + 1, !.pieces = @ + 1, !.next = FALSE, !.wait = 0,
                             !.scene = "falling", !.score = score]
      BY <2>3 DEF Teeter!CollectMove
    <3>2. Teeter!CollectMove(scratch, p, "clear").index = scratch.index + 1
      BY <1>1, <3>1
    <3> QED
      BY <1>1, <3>2
  <2> HIDE DEF Drop, p
  <2>6. Carries(Drop("clear"), p)
    BY <2>2, <2>4, <2>5, Carrying
  <2> QED
    BY <2>2, <2>6
<1>7. CASE d.aim # "spinning"
  <2>1. PICK t \in Taps(d, p) : Carries(t, p)
    BY <1>3, <1>6, <1>7
  <2> HIDE DEF p
  <2> QED
    BY <1>2, <2>1, OneTap
<1>8. CASE d.aim = "spinning"
  <2> DEFINE t1 == [device |-> [d EXCEPT !.aim = "placing"], sends |-> <<>>]
  <2>1. t1 \in Taps(d, p)
    BY <1>3, <1>4, <1>5, <1>8 DEF Teeter!Taps
  <2>2. t1.device = [d EXCEPT !.aim = "placing"]
    OBVIOUS
  <2>3. ~t1.device.dropped /\ t1.device.aim # "spinning"
    <3> HIDE DEF d, t1
    <3> QED
      BY <1>3, <2>2 DEF Aims
  <2> HIDE DEF t1, p
  <2>4. PICK t2 \in Taps(t1.device, p) : Carries(t2, p)
    BY <1>6, <2>3
  <2> QED
    BY <1>2, <2>1, <2>4, TwoTaps
<1> QED
  BY <1>7, <1>8

\* The buttons of a hand or of a grove.
LEMMA Offering ==
  ASSUME game \notin Drawn, NEW p, NEW m \in Offered(p), Accepted(p, m) # {scratch}
  PROVE  CanCarryOn(p)
<1> DEFINE t == [device |-> device[p], sends |-> <<m>>]
<1>1. t \in Taps(device[p], p)
  BY DEF Taps, Drawn
<1>2. t.sends = <<m>> /\ game # "chess"
  BY DEF Drawn
<1> HIDE DEF t
<1>3. Carries(t, p)
  BY <1>2, Carrying
<1> QED
  BY <1>1, <1>3, OneTap

LEMMA NightleafCarriesOn ==
  ASSUME ScreensGoOn, Playing, game = "nightleaf", scratch.phase = "playing"
  PROVE  \E p \in Players : CanCarryOn(p)
<1>1. /\ ~scratch.over /\ Shown = scratch /\ NightleafSound(scratch) /\ Nightleaf!Held(scratch.hands) # {}
  BY DEF Playing, ScreensGoOn, ScreensSound, Over, LiveGamesSound, Sound, GoesOn
<1>2. PICK p \in Nightleaf!Players : scratch.hands[p] # {}
  BY <1>1 DEF Nightleaf!Held
<1>3. p \in Players
  BY <1>2 DEF Players, Range, Nightleaf!Players, Nightleaf!Range
<1> DEFINE sim == Nightleaf!Snapshot(scratch)
<1>4. sim.over = scratch.over /\ sim.phase = scratch.phase
  BY DEF Nightleaf!Snapshot
<1> HIDE DEF sim
<1>5. "play" \in Nightleaf!Controls(sim, scratch.hands[p], p)
  BY <1>1, <1>2, <1>4 DEF Nightleaf!Controls
<1>6. "play" \in Nightleaf!Offers(scratch, p)
  BY <1>5 DEF Nightleaf!Offers, Nightleaf!Secret, sim
<1>7. "play" \in Offered(p)
  BY <1>1, <1>6 DEF Offered
<1>8. Nightleaf!CollectMove(scratch, p, "play") # scratch
  BY <1>1, <1>6, LeavesLand
<1>9. Accepted(p, "play") = {Nightleaf!CollectMove(scratch, p, "play")}
  BY DEF Accepted, Refused, CollectMove
<1> QED
  BY <1>3, <1>7, <1>8, <1>9, Offering DEF Drawn

LEMMA SeatsKnown ==
  ASSUME NEW i \in 1 .. 4
  PROVE  LET p == Tables["whispergrove"][i]
         IN  p \in Whispergrove!Players /\ p \in Range(Tables["whispergrove"]) /\ Whispergrove!SeatOf(p) = i
<1> DEFINE T == Tables["whispergrove"]
<1>1. T \in Seq(Range(T)) /\ Len(T) >= 4 /\ \A j, k \in DOMAIN T : T[j] = T[k] => j = k
  BY SeatsAssumption
<1>2. Len(T) \in Nat /\ DOMAIN T = 1 .. Len(T)
  BY <1>1
<1>3. i \in 1 .. Len(T)
  BY <1>1, <1>2
<1>4. \A j \in 1 .. Len(T) : T[j] = T[i] => j = i
  BY <1>1, <1>2, <1>3
<1> HIDE DEF T
<1>5. (CHOOSE j \in 1 .. Len(T) : T[j] = T[i]) = i
  BY <1>3, <1>4
<1>6. T[i] \in Range(T)
  BY <1>2, <1>3 DEF Range
<1> QED
  BY <1>5, <1>6 DEF Whispergrove!SeatOf, Whispergrove!Players, Whispergrove!Range, Range, T

\* The grove to move has a whisperer at one of the first two seats and somebody
\* else at one of the next two.
LEMMA GrovesAreManned ==
  ASSUME NEW team \in Teams, NEW whisperer \in BOOLEAN
  PROVE  \E p \in Whispergrove!Players : Whispergrove!TeamOf(p) = team /\ Whispergrove!IsWhisperer(p) = whisperer
<1> DEFINE i == (IF team = "violet" THEN 1 ELSE 2) + (IF whisperer THEN 0 ELSE 2)
           p == Tables["whispergrove"][i]
<1>1. i \in 1 .. 4 /\ (i % 2 = 1 <=> team = "violet") /\ (i <= 2 <=> whisperer)
  <2>1. 1 % 2 = 1 /\ 2 % 2 = 0 /\ 3 % 2 = 1 /\ 4 % 2 = 0
    OBVIOUS
  <2> QED
    BY <2>1
<1>2. p \in Whispergrove!Players /\ Whispergrove!SeatOf(p) = i
  <2> HIDE DEF i
  <2> QED
    BY <1>1, SeatsKnown
<1> HIDE DEF i, p
<1>3. Whispergrove!TeamOf(p) = team
  BY <1>1, <1>2 DEF Whispergrove!TeamOf, Teams
<1>4. Whispergrove!IsWhisperer(p) = whisperer
  BY <1>1, <1>2 DEF Whispergrove!IsWhisperer
<1> QED
  BY <1>2, <1>3, <1>4

LEMMA GroveCarriesOn ==
  ASSUME ScreensGoOn, Playing, game = "whispergrove"
  PROVE  \E p \in Players : CanCarryOn(p)
<1>1. scratch.phase # "over" /\ Shown = scratch /\ GroveSound(scratch)
  BY DEF Playing, ScreensGoOn, ScreensSound, Over, Shown, Drawn, LiveGamesSound, Sound
<1>2. /\ scratch.turn \in Teams /\ ~AllShow(scratch, scratch.turn) /\ scratch.phase \in {"whispering", "guessing"}
      /\ DOMAIN scratch.key = Whispergrove!Grid /\ GroveFields \subseteq DOMAIN scratch
      /\ scratch.phase = "guessing" => scratch.count \in Nat /\ scratch.guessesLeft \in 1 .. scratch.count + 1
  BY <1>1 DEF GroveSound
<1> DEFINE hidden == Whispergrove!Hidden(scratch, scratch.turn)
           sim == Whispergrove!Snapshot(scratch)
<1>3. PICK i \in Whispergrove!Grid : i \in hidden /\ i \notin scratch.revealed
  BY <1>2 DEF AllShow, Whispergrove!Hidden
<1>4. PICK p \in Whispergrove!Players :
         Whispergrove!TeamOf(p) = scratch.turn /\ Whispergrove!IsWhisperer(p) = (scratch.phase = "whispering")
  BY <1>2, GrovesAreManned
<1>5. p \in Players
  BY <1>4 DEF Players, Range, Whispergrove!Players, Whispergrove!Range
<1>6. /\ sim.leaves = [j \in Whispergrove!Grid |-> IF j \in scratch.revealed THEN scratch.key[j] ELSE Whispergrove!Nobody]
      /\ sim.phase = scratch.phase /\ sim.turn = scratch.turn /\ sim.guessesLeft = scratch.guessesLeft
      /\ sim.seats[p].team = Whispergrove!TeamOf(p) /\ sim.seats[p].whisperer = Whispergrove!IsWhisperer(p)
  BY <1>4 DEF Whispergrove!Snapshot
<1> HIDE DEF sim, hidden
<1>7. \A m : Accepted(p, m) = {Whispergrove!CollectMove(scratch, p, m)}
  BY DEF Accepted, Refused, CollectMove
<1>8. \A m \in Whispergrove!Controls(sim, p) : m \in Offered(p) /\ m \in Whispergrove!Offers(scratch, p)
  BY <1>1 DEF Offered, Whispergrove!Offers, sim
<1>9. CASE scratch.phase = "whispering"
  <2> DEFINE m == [kind |-> "whisper", word |-> "fresh", count |-> 1]
             whispers == [kind : {"whisper"}, word : {"fresh", "on the grove", "two tokens"}, count : 0 .. Whispergrove!GridSize]
  <2>1. 1 \in 0 .. Whispergrove!GridSize
    BY BanksAssumption DEF Whispergrove!GridSize
  <2>2. m \in whispers
    BY <2>1
  <2>3. Whispergrove!Controls(sim, p) = whispers
    <3> HIDE DEF whispers
    <3> QED
      BY <1>4, <1>6, <1>9 DEF Whispergrove!Controls, whispers
  <2>4. IsFiniteSet(hidden)
    <3>1. IsFiniteSet(Whispergrove!Grid)
      BY FS_Interval, BanksAssumption DEF Whispergrove!Grid, Whispergrove!GridSize
    <3>2. hidden \subseteq Whispergrove!Grid
      BY DEF hidden, Whispergrove!Hidden
    <3> QED
      BY <3>1, <3>2, FS_Subset
  <2>5. Cardinality(hidden) \in Nat /\ Cardinality(hidden) # 0
    BY <1>3, <2>4, FS_CardinalityType, FS_EmptySet
  <2>6. Whispergrove!Cardinality(hidden) = Cardinality(hidden)
    BY Zenon DEF Whispergrove!Cardinality, Cardinality
  <2>7. 1 \in 1 .. Whispergrove!Cardinality(hidden)
    BY <2>5, <2>6
  <2>8. m.kind = "whisper" /\ m.word = "fresh" /\ m.count = 1
    OBVIOUS
  <2> HIDE DEF m, whispers
  <2>9. Whispergrove!MayWhisper(scratch, p, m)
    BY <1>4, <1>9, <2>7, <2>8 DEF Whispergrove!MayWhisper, hidden
  <2>10. Whispergrove!CollectMove(scratch, p, m) = Whispergrove!Whisper(scratch, m)
    BY Zenon, <2>8, <2>9 DEF Whispergrove!CollectMove
  <2>11. Whispergrove!Whisper(scratch, m).phase = "guessing"
    BY <1>2 DEF Whispergrove!Whisper, GroveFields
  <2>12. Accepted(p, m) # {scratch}
    BY <1>7, <1>9, <2>10, <2>11
  <2> QED
    BY <1>5, <1>8, <2>2, <2>3, <2>12, Offering DEF Drawn
<1>10. CASE scratch.phase = "guessing"
  <2> DEFINE m == [kind |-> "tap", index |-> i]
             taps == {[kind |-> "tap", index |-> j] : j \in {k \in Whispergrove!Grid : sim.leaves[k] = Whispergrove!Nobody}}
  <2>1. m \in taps
    BY <1>3, <1>6
  <2>2. sim.guessesLeft > 0
    BY <1>2, <1>6, <1>10
  <2>3. Whispergrove!Controls(sim, p) = taps
    <3> HIDE DEF taps
    <3> QED
      BY <1>4, <1>6, <1>10, <2>2 DEF Whispergrove!Controls, taps
  <2>4. m.kind # "whisper"
    OBVIOUS
  <2> HIDE DEF m, taps
  <2>5. Whispergrove!CollectMove(scratch, p, m) # scratch
    BY <1>1, <1>4, <1>8, <2>1, <2>3, <2>4, TapsLand
  <2>6. Accepted(p, m) # {scratch}
    BY <1>7, <2>5
  <2> QED
    BY <1>5, <1>8, <2>1, <2>3, <2>6, Offering DEF Drawn
<1> QED
  BY <1>2, <1>9, <1>10

\* What can be tapped on the board of chess.
LEMMA ChessCanTap ==
  ASSUME NEW s, NEW list, NEW d, NEW me, Chess!IsActive(s, me)
  PROVE  /\ d.pendingPromo # {} => \A m \in Chess!Choices(d) : Chess!Submit(m) \in Chess!Taps(s, list, d, me)
         /\ d.pendingPromo = {} =>
              \A m \in list :
                /\ m.from \in d.selected /\ ~Chess!IsPromotion(m) => Chess!Submit(m) \in Chess!Taps(s, list, d, me)
                /\ m.from \in d.selected /\ Chess!IsPromotion(m) =>
                      Chess!Hold([d EXCEPT !.pendingPromo = {Chess!Untyped(m)}]) \in Chess!Taps(s, list, d, me)
                /\ m.from \notin d.selected => Chess!Hold([d EXCEPT !.selected = {m.from}]) \in Chess!Taps(s, list, d, me)
<1> DEFINE Chosen == {Chess!Submit(m) : m \in Chess!Choices(d)}
           Steps == {Chess!Submit(m) : m \in {n \in Chess!MovesFrom(list, d.selected) : ~Chess!IsPromotion(n)}}
           Asked == {Chess!Hold([d EXCEPT !.pendingPromo = {Chess!Untyped(m)}]) :
                        m \in {n \in Chess!MovesFrom(list, d.selected) : Chess!IsPromotion(n)}}
           Picked == {Chess!Hold([d EXCEPT !.selected = {m.from}]) : m \in {n \in list : n.from \notin d.selected}}
           Gone == [device |-> d, sends |-> <<Chess!Resign>>]
<1>1. d.pendingPromo # {} => Chess!Taps(s, list, d, me) = Chosen \cup {Gone}
  BY Zenon DEF Chess!Taps
<1>2. d.pendingPromo = {} => Chess!Taps(s, list, d, me) = Steps \cup Asked \cup Picked \cup {Chess!Hold(Chess!Blank), Gone}
  BY Zenon DEF Chess!Taps
<1>3. \A m \in Chess!Choices(d) : Chess!Submit(m) \in Chosen
  BY Zenon
<1>4. \A m \in list : m.from \in d.selected /\ ~Chess!IsPromotion(m) => Chess!Submit(m) \in Steps
  BY Zenon DEF Chess!MovesFrom
<1>5. \A m \in list : m.from \in d.selected /\ Chess!IsPromotion(m) =>
         Chess!Hold([d EXCEPT !.pendingPromo = {Chess!Untyped(m)}]) \in Asked
  BY Zenon DEF Chess!MovesFrom
<1>6. \A m \in list : m.from \notin d.selected => Chess!Hold([d EXCEPT !.selected = {m.from}]) \in Picked
  BY Zenon
<1> HIDE DEF Chosen, Steps, Asked, Picked, Gone
<1> QED
  BY Zenon, <1>1, <1>2, <1>3, <1>4, <1>5, <1>6

\* A move of chess is no resignation.
LEMMA MovesAreNoResignation ==
  ASSUME NEW s, ChessPosition(s), NEW m \in Chess!Legal(s)
  PROVE  m # Chess!Resign
<1>1. ~s.over
  BY DEF Chess!Legal
<1>2. PICK from \in Chess!Army(s.cells, s.turn) : m \in Chess!LegalMovesFrom(s, from)
  BY Zenon, <1>1 DEF Chess!Legal
<1>3. Chess!ColorAt(s.cells, from, s.turn) /\ m \in Chess!PseudoMovesFrom(s, from)
  BY <1>2 DEF Chess!LegalMovesFrom
<1> QED
  BY <1>3, MovesComeFrom

\* A move on the list carries the game on, once its piece is selected.
LEMMA ChosenCarriesOn ==
  ASSUME ScreensGoOn, Playing, game = "chess", NEW p, p = scratch.turn, NEW m \in Chess!Legal(scratch)
  PROVE  /\ Carries(Chess!Submit(m), p)
         /\ Chess!Submit(m).device = Chess!Blank
<1>1. ~scratch.over /\ ChessPosition(scratch)
  BY DEF Playing, ScreensGoOn, ScreensSound, Over, LiveGamesSound, Sound, ChessSound
<1>2. Chess!Submit(m).sends = <<m>> /\ Chess!Submit(m).device = Chess!Blank
  BY DEF Chess!Submit
<1>3. m # Chess!Resign
  BY <1>1, MovesAreNoResignation
<1>4. Chess!CollectMove(scratch, p, m) # scratch
  BY <1>1, TurnsPass
<1>5. Accepted(p, m) = {Chess!CollectMove(scratch, p, m)}
  BY DEF Accepted, Refused, CollectMove
<1> QED
  BY <1>2, <1>3, <1>4, <1>5, Carrying

LEMMA OpeningIsLegal == OpeningStep \in Chess!Legal(Chess!StartingPosition) /\ ~Chess!IsPromotion(OpeningStep)
<1> DEFINE s == Chess!StartingPosition
<1>1. /\ Chess!ColorAt(s.cells, OpeningStep.from, s.turn)
      /\ OpeningStep \in Chess!PseudoMovesFrom(s, OpeningStep.from)
      /\ ~Chess!IsInCheck(Chess!BoardAfter(s, OpeningStep), s.turn)
  BY WhiteOpens
<1>2. OpeningStep.from \in Chess!Army(s.cells, s.turn) /\ ~s.over
  BY <1>1 DEF Chess!Army, Chess!ColorAt, Chess!StartingPosition
<1>3. ~Chess!IsPromotion(OpeningStep)
  BY DEF OpeningStep, Chess!IsPromotion
<1> HIDE DEF s
<1>4. OpeningStep \in Chess!LegalMovesFrom(s, OpeningStep.from)
  BY <1>1 DEF Chess!LegalMovesFrom
<1>5. OpeningStep \in Chess!Legal(s)
  BY <1>2, <1>4 DEF Chess!Legal
<1> QED
  BY <1>3, <1>5 DEF s

LEMMA ChoicesInclude ==
  ASSUME NEW d, NEW u, u \in d.pendingPromo, NEW k \in {"Q", "R", "B", "N"}
  PROVE  [from |-> u.from, to |-> u.to, promotion |-> k] \in Chess!Choices(d)
<1> DEFINE S == d.pendingPromo
           K == {"Q", "R", "B", "N"}
           n == [from |-> u.from, to |-> u.to, promotion |-> k]
<1>1. Chess!Choices(d) = {[from |-> m.from, to |-> m.to, promotion |-> type] : m \in S, type \in K}
  BY DEF Chess!Choices
<1>2. \E m \in S, type \in K : n = [from |-> m.from, to |-> m.to, promotion |-> type]
  OBVIOUS
<1> HIDE DEF S, K, n
<1>3. n \in {[from |-> m.from, to |-> m.to, promotion |-> type] : m \in S, type \in K}
  BY ONLY <1>2
<1>4. n \in Chess!Choices(d)
  BY ONLY <1>1, <1>3
<1> QED
  BY <1>4 DEF n

\* From a selected piece it is one tap, or two through the dialog.
LEMMA SelectedCarriesOn ==
  ASSUME ScreensGoOn, Playing, game = "chess", NEW p, p = scratch.turn, NEW m \in Chess!Legal(scratch),
         NEW d, DOMAIN d = {"selected", "pendingPromo"}, d.pendingPromo = {}, m.from \in d.selected
  PROVE  \E t \in Taps(d, p) : Carries(t, p) \/ \E u \in Taps(t.device, p) : Carries(u, p)
<1>1. /\ legal = Chess!Legal(scratch) /\ ~scratch.over /\ Shown = scratch /\ ChessPosition(scratch)
  BY DEF Playing, Shown, Drawn, ScreensGoOn, ScreensSound, Legal, Over, LiveGamesSound, Sound, ChessSound
<1>2. Chess!IsActive(scratch, p)
  BY <1>1 DEF Chess!IsActive
<1>3. \A e : Taps(e, p) = Chess!Taps(scratch, legal, e, p)
  BY <1>1 DEF Taps
<1>4. m \in legal /\ d.pendingPromo = {} /\ m.from \in d.selected
  BY <1>1
<1>5. /\ ~Chess!IsPromotion(m) => Chess!Submit(m) \in Taps(d, p)
      /\ Chess!IsPromotion(m) => Chess!Hold([d EXCEPT !.pendingPromo = {Chess!Untyped(m)}]) \in Taps(d, p)
  BY ONLY <1>2, <1>3, <1>4, ChessCanTap
<1>6. CASE ~Chess!IsPromotion(m)
  <2>1. Chess!Submit(m) \in Taps(d, p)
    BY <1>6, <1>5
  <2> QED
    BY <2>1, ChosenCarriesOn
<1>7. CASE Chess!IsPromotion(m)
  <2> DEFINE e == [d EXCEPT !.pendingPromo = {Chess!Untyped(m)}]
             n == [from |-> m.from, to |-> m.to, promotion |-> "Q"]
  <2>1. Chess!Hold(e) \in Taps(d, p)
    BY Zenon, <1>7, <1>5
  <2>2. Chess!Hold(e).device = e
    BY DEF Chess!Hold
  <2>3. e.pendingPromo = {Chess!Untyped(m)}
    OBVIOUS
  <2>4. n \in Chess!Choices(e)
    <3>1. Chess!Untyped(m).from = m.from /\ Chess!Untyped(m).to = m.to
      BY DEF Chess!Untyped
    <3>2. "Q" \in {"Q", "R", "B", "N"}
      OBVIOUS
    <3>3. [from |-> Chess!Untyped(m).from, to |-> Chess!Untyped(m).to, promotion |-> "Q"] \in Chess!Choices(e)
      <4> HIDE DEF e
      <4> QED
        BY <2>3, <3>2 DEF Chess!Choices
    <3> QED
      BY <3>1, <3>3
  <2>5. n \in Chess!Legal(scratch)
    <3>1. m.promotion # "none" /\ "Q" \in {"Q", "R", "B", "N"}
      BY <1>7 DEF Chess!IsPromotion
    <3> QED
      BY <1>1, <3>1, ListedTogether
  <2> HIDE DEF e, n
  <2>6. Chess!Submit(n) \in Taps(e, p)
    BY <1>2, <1>3, <2>3, <2>4, ChessCanTap
  <2>7. Carries(Chess!Submit(n), p)
    BY <2>5, ChosenCarriesOn
  <2> QED
    BY Zenon, <2>1, <2>2, <2>6, <2>7
<1> QED
  BY <1>6, <1>7

LEMMA ChessCarriesOn ==
  ASSUME ScreensGoOn, Playing, game = "chess"
  PROVE  \E p \in Players : CanCarryOn(p)
<1>1. /\ legal = Chess!Legal(scratch) /\ ~scratch.over /\ Shown = scratch /\ frame = scratch /\ ChessPosition(scratch)
      /\ Chess!HasLegalMove(scratch) /\ \A q \in Players : Dialog(device[q], q)
  BY DEF Playing, Shown, Drawn, ScreensGoOn, ScreensSound, ChessScreensSound, Legal, Over, LiveGamesSound, Sound, ChessSound,
         GoesOn
<1> DEFINE p == scratch.turn
           d == device[p]
<1>2. p \in Players
  BY <1>1, SeatsAssumption DEF ChessPosition, Chess!White, Chess!Black, Players
<1>3. Chess!IsActive(scratch, p) /\ Dialog(d, p)
  BY <1>1, <1>2 DEF Chess!IsActive
<1>4. \A e : Taps(e, p) = Chess!Taps(scratch, legal, e, p)
  BY <1>1 DEF Taps
<1>5. DOMAIN d = {"selected", "pendingPromo"}
  BY <1>3 DEF Dialog
<1>6. CASE d.pendingPromo = {}
  <2>1. PICK from \in Chess!Army(scratch.cells, scratch.turn) :
           \E n \in Chess!PseudoMovesFrom(scratch, from) : ~Chess!IsInCheck(Chess!BoardAfter(scratch, n), scratch.turn)
    BY Zenon, <1>1 DEF Chess!HasLegalMove
  <2>2. PICK m \in Chess!PseudoMovesFrom(scratch, from) : ~Chess!IsInCheck(Chess!BoardAfter(scratch, m), scratch.turn)
    BY <2>1
  <2>3. m \in Chess!LegalMovesFrom(scratch, from)
    BY <2>1, <2>2 DEF Chess!LegalMovesFrom, Chess!Army
  <2>4. m \in Chess!Legal(scratch)
    BY Zenon, <1>1, <2>1, <2>3 DEF Chess!Legal
  <2>5. CASE m.from \in d.selected
    <3>1. PICK t \in Taps(d, p) : Carries(t, p) \/ \E u \in Taps(t.device, p) : Carries(u, p)
      <4> HIDE DEF p, d
      <4> QED
        BY <1>5, <1>6, <2>4, <2>5, SelectedCarriesOn DEF p
    <3> HIDE DEF p
    <3> QED
      BY Zenon, <1>2, <3>1 DEF CanCarryOn
  <2>6. CASE m.from \notin d.selected
    <3> DEFINE e == [d EXCEPT !.selected = {m.from}]
    <3>1. Chess!Hold(e) \in Taps(d, p)
      BY Zenon, <1>1, <1>3, <1>4, <1>6, <2>4, <2>6, ChessCanTap
    <3>2. Chess!Hold(e).device = e
      BY DEF Chess!Hold
    <3>3. DOMAIN e = {"selected", "pendingPromo"} /\ e.pendingPromo = {} /\ m.from \in e.selected
      <4> HIDE DEF d
      <4> QED
        BY <1>5, <1>6
    <3> HIDE DEF e
    <3>4. PICK t \in Taps(e, p) : Carries(t, p) \/ \E u \in Taps(t.device, p) : Carries(u, p)
      BY <2>4, <3>3, SelectedCarriesOn
    <3> HIDE DEF p
    <3> QED
      BY Zenon, <1>2, <3>1, <3>2, <3>4 DEF CanCarryOn
  <2> QED
    BY <2>5, <2>6
<1>7. CASE d.pendingPromo # {}
  <2>1. PICK u \in d.pendingPromo : TRUE
    BY <1>7
  <2> DEFINE n == [from |-> u.from, to |-> u.to, promotion |-> "Q"]
  <2>2. n \in Chess!Choices(d)
    <3>1. "Q" \in {"Q", "R", "B", "N"} /\ u \in d.pendingPromo
      BY <2>1
    <3> HIDE DEF d
    <3> QED
      BY <3>1, ChoicesInclude
  <2>3. Chess!Submit(n) \in Taps(d, p)
    <3> HIDE DEF n, d
    <3> QED
      BY <1>3, <1>4, <1>7, <2>2, ChessCanTap
  <2>4. CASE \A v \in d.pendingPromo, k \in {"Q", "R", "B", "N"} : [from |-> v.from, to |-> v.to, promotion |-> k] \in legal
    <3>1. n \in Chess!Legal(scratch)
      BY <1>1, <2>1, <2>4
    <3> HIDE DEF n
    <3>2. Carries(Chess!Submit(n), p)
      BY <3>1, ChosenCarriesOn
    <3> HIDE DEF p
    <3> QED
      BY <1>2, <2>3, <3>2, OneTap
  <2>5. CASE frame = Chess!StartingPosition
    <3> DEFINE m == OpeningStep
               blank == Chess!Blank
               e == [blank EXCEPT !.selected = {m.from}]
    <3>1. m \in legal /\ m \in Chess!Legal(scratch) /\ ~Chess!IsPromotion(m)
      BY <1>1, <2>5, OpeningIsLegal
    <3>2. Chess!Submit(n).device = blank
      BY DEF Chess!Submit
    <3>3. /\ blank.pendingPromo = {} /\ m.from \notin blank.selected
          /\ e.pendingPromo = {} /\ m.from \in e.selected
      BY DEF Chess!Blank
    <3> HIDE DEF m, blank, n
    <3>4. Chess!Hold(e) \in Taps(blank, p)
      <4>1. m \in legal /\ blank.pendingPromo = {} /\ m.from \notin blank.selected
        BY <3>1, <3>3
      <4>2. Chess!IsActive(scratch, p)
        BY <1>3
      <4> HIDE DEF p
      <4>3. Chess!Hold([blank EXCEPT !.selected = {m.from}]) \in Taps(blank, p)
        BY ONLY <1>4, <4>1, <4>2, ChessCanTap
      <4> QED
        BY <4>3
    <3>5. Chess!Hold(e).device = e
      BY DEF Chess!Hold
    <3> HIDE DEF e
    <3>6. Chess!Submit(m) \in Taps(e, p)
      BY <1>3, <1>4, <3>1, <3>3, ChessCanTap
    <3>7. Carries(Chess!Submit(m), p)
      BY <3>1, ChosenCarriesOn
    <3> HIDE DEF p
    <3> QED
      BY Zenon, <1>2, <2>3, <3>2, <3>4, <3>5, <3>6, <3>7, ThreeTaps
  <2> QED
    BY <1>3, <1>7, <2>4, <2>5 DEF Dialog
<1> QED
  BY <1>6, <1>7

LEMMA ScreensCarryOn ==
  ASSUME ScreensGoOn
  PROVE  TurnCanBeTaken
<1> SUFFICES ASSUME Playing, ~Stuck
             PROVE  \/ IF game = "teeter-tower" THEN ~scratch.next ELSE Ticked # {scratch}
                    \/ \E p \in Players : CanCarryOn(p)
  BY DEF TurnCanBeTaken
<1>1. LiveGamesSound /\ GoesOn(game, scratch) /\ ~Over(scratch)
  BY DEF ScreensGoOn, ScreensSound, Playing
<1>2. FramesMove(scratch) => Ticked # {scratch}
  BY <1>1, GamesTickOn
<1>3. CASE game = "nightleaf"
  BY <1>1, <1>2, <1>3, NightleafCarriesOn DEF FramesMove, Over
<1>4. CASE game = "brambles"
  BY <1>1, <1>2, <1>4 DEF FramesMove, Over
<1> QED
  BY <1>1, <1>2, <1>3, <1>4, ReversiCarriesOn, DraughtsCarryOn, ChessCarriesOn, TowerCarriesOn, GroveCarriesOn,
     GamesAssumption DEF LiveGamesSound

\* Nobody is left waiting: while a game is not over and its last frame is on every
\* screen, the frames carry it on or a few taps do.
THEOREM TurnsCanBeTaken == ScreensSpec => []TurnCanBeTaken
<1>1. ScreensInit => ScreensGoOn
  BY ScreensOpenOn
<1>2. ScreensGoOn /\ [ScreensNext]_screenVars => ScreensGoOn'
  BY ScreensStayOn
<1>3. ScreensGoOn => TurnCanBeTaken
  BY ScreensCarryOn
<1> QED
  BY <1>1, <1>2, <1>3, PTL DEF ScreensSpec

--------------------------------------------------------------------------------
(* What a host sets up: the drafts of the lobby and what the games take.       *)

LEMMA WholeNumbers == \A n \in Int : <<n>> \in Numbers /\ <<n>> # <<>> /\ <<n>>[1] = n
  BY DEF Numbers

LEMMA WithinHolds ==
  ASSUME NEW v, NEW range, Within(v, range)
  PROVE  v # <<>> /\ v[1] \in range
  BY DEF Within

LEMMA WithinIsTaken ==
  ASSUME NEW v, NEW range, NEW default, Within(v, range)
  PROVE  Taken(v, default, range)
  BY WithinHolds DEF Taken, Sent

LEMMA WithinIsSent ==
  ASSUME NEW v, NEW range, NEW default, Within(v, range)
  PROVE  Sent(v, default) = v
  BY WithinHolds DEF Sent

\* A game's default is in its range, so an empty field is taken where a full one would be.
LEMMA FilledIsWithin ==
  ASSUME NEW v, NEW range, NEW default, Taken(v, default, range), v # <<>>
  PROVE  Within(v, range)
  BY DEF Taken, Sent

LEMMA RepickedKeeps ==
  ASSUME NEW themes, IsFiniteSet(themes), NEW first \in themes, NEW cap \in Nat \ {0},
         NEW c \in Picks(themes, cap)
  PROVE  Repicked(c, themes, first, cap) \subseteq Picks(themes, cap)
  <1>1. SUFFICES ASSUME NEW p \in Repicked(c, themes, first, cap)
                 PROVE  p \in Picks(themes, cap)
    OBVIOUS
  <1>2. CASE p \in {Random, c}
    BY <1>2 DEF Picks
  <1>3. CASE p = <<{first}>>
    <2>1. Cardinality({first}) = 1
      BY FS_Singleton
    <2> QED
      BY <1>3, <2>1 DEF Picks
  <1>4. CASE c # Random /\ p # Random /\ p # c /\ p # <<{first}>>
    <2>1. PICK s \in SUBSET themes : c = <<s>> /\ Cardinality(s) <= cap
      BY <1>4 DEF Picks
    <2>2. c[1] = s /\ IsFiniteSet(s) /\ Cardinality(s) \in Nat
      BY <2>1, FS_Subset, FS_CardinalityType
    <2>3. CASE \E t \in s : p = <<s \ {t}>>
      <3>1. PICK t \in s : p = <<s \ {t}>>
        BY <2>3
      <3>2. Cardinality(s \ {t}) = Cardinality(s) - 1
        BY <2>2, FS_RemoveElement
      <3>3. Cardinality(s \ {t}) <= cap
        BY <2>1, <2>2, <3>2
      <3> QED
        BY <3>1, <3>3 DEF Picks
    <2>4. CASE \E t \in themes \ s : p = <<s \cup {t}>> /\ Cardinality(s) < cap
      <3>1. PICK t \in themes \ s : p = <<s \cup {t}>> /\ Cardinality(s) < cap
        BY <2>4
      <3>2. Cardinality(s \cup {t}) = Cardinality(s) + 1
        BY <2>2, FS_AddElement
      <3>3. Cardinality(s \cup {t}) <= cap
        BY <2>2, <3>1, <3>2
      <3> QED
        BY <3>1, <3>3 DEF Picks
    <2> QED
      BY <1>1, <1>4, <2>1, <2>2, <2>3, <2>4 DEF Repicked
  <1> QED
    BY <1>1, <1>2, <1>3, <1>4 DEF Repicked

LEMMA FewAreFinite == \A x, y, z : IsFiniteSet({x, y, z})
  <1>1. TAKE x, y, z
  <1>2. IsFiniteSet({x}) /\ IsFiniteSet({y}) /\ IsFiniteSet({z})
    BY FS_Singleton
  <1>3. IsFiniteSet({x} \cup {y})
    BY Zenon, <1>2, FS_Union
  <1>4. IsFiniteSet(({x} \cup {y}) \cup {z})
    BY Zenon, <1>2, <1>3, FS_Union
  <1>5. {x, y, z} = ({x} \cup {y}) \cup {z}
    OBVIOUS
  <1> QED
    BY <1>4, <1>5

LEMMA ThemesCount ==
  /\ IsFiniteSet(PageLeafThemes) /\ IsFiniteSet(PageBranchThemes) /\ IsFiniteSet(PageLiarThemes)
  /\ IsFiniteSet(PageBirdThemes) /\ Cardinality(PageBirdThemes) \in Nat \ {0}
  <1>1. PageLeafThemes = ({"nature", "everyday", "places"} \cup {"food", "animals", "feelings"})
                           \cup {"celebrities", "movies", "historical"}
    BY DEF PageLeafThemes
  <1>2. PageBranchThemes = {"senses", "feelings", "everyday"} \cup {"nature", "people", "wild"}
    BY DEF PageBranchThemes
  <1>3. PageLiarThemes = ({"people", "places", "events"} \cup {"sports", "food", "nature"})
                           \cup {"animals", "things", "things"}
    BY DEF PageLiarThemes
  <1>4. PageBirdThemes = {"everyday", "outdoors", "travel"} \cup {"events", "fantastical", "events"}
    BY DEF PageBirdThemes
  <1>5. IsFiniteSet(PageLeafThemes) /\ IsFiniteSet(PageLiarThemes)
    BY <1>1, <1>3, FewAreFinite, FS_Union
  <1>6. IsFiniteSet(PageBranchThemes) /\ IsFiniteSet(PageBirdThemes)
    BY <1>2, <1>4, FewAreFinite, FS_Union
  <1>7. Cardinality(PageBirdThemes) # 0
    BY <1>6, FS_EmptySet DEF PageBirdThemes
  <1> QED
    BY <1>5, <1>6, <1>7, FS_CardinalityType

LEMMA TriviaEditsKeep ==
  ASSUME NEW d \in TriviaDrafts
  PROVE  TriviaEdits(d) \cup TriviaAdvancedEdits(d) \subseteq TriviaDrafts
  <1>1. MixOf(d) \in Mixes
    <2>1. CASE d.duration = "custom"
      BY <2>1 DEF MixOf, TriviaDrafts
    <2>2. CASE d.duration # "custom"
      BY <2>2, WholeNumbers DEF MixOf, TriviaDrafts, PageMixes, Mix, Mixes
    <2> QED
      BY <2>1, <2>2
  <1>0. \A m \in Mixes : <<m>> \in Seq(Mixes) /\ Len(<<m>>) <= 1 /\ <<m>> # <<>>
    OBVIOUS
  <1>2. \A m \in Mixes : [d EXCEPT !.custom = <<m>>] \in TriviaDrafts
    BY <1>0 DEF TriviaDrafts
  <1>3. \A v \in Typed : /\ [MixOf(d) EXCEPT !.choice = v] \in Mixes
                         /\ [MixOf(d) EXCEPT !.truth = v] \in Mixes
                         /\ [MixOf(d) EXCEPT !.open = v] \in Mixes
    BY <1>1, OptionsAssumption DEF Mixes
  <1>4. CountEdits(d) \subseteq TriviaDrafts
    BY <1>2, <1>3 DEF CountEdits
  <1>5. TriviaBandEdits(d) \subseteq TriviaDrafts
    BY DEF TriviaBandEdits, TriviaDrafts
  <1>6. \A c \in SUBSET PageTriviaThemes : [d EXCEPT !.categories = c] \in TriviaDrafts
    BY DEF TriviaDrafts
  <1>7. \A p \in DOMAIN PageMixes : [d EXCEPT !.duration = p] \in TriviaDrafts
    BY DEF TriviaDrafts, PageMixes
  <1>8. [d EXCEPT !.duration = "custom", !.custom = IF @ = <<>> THEN <<MixOf(d)>> ELSE @]
          \in TriviaDrafts
    <2> DEFINE c == IF d.custom = <<>> THEN <<MixOf(d)>> ELSE d.custom
    <2>1. c \in Seq(Mixes) /\ Len(c) <= 1 /\ c # <<>>
      BY <1>1, <1>0 DEF TriviaDrafts
    <2>2. c \in {s \in Seq(Mixes) : Len(s) <= 1} /\ c # <<>>
      BY <2>1
    <2> HIDE DEF c
    <2>3. [d EXCEPT !.duration = "custom", !.custom = c] \in TriviaDrafts
      BY <2>2 DEF TriviaDrafts
    <2> QED
      BY <2>3 DEF c
  <1>9. d.categories \subseteq PageTriviaThemes
    BY DEF TriviaDrafts
  <1>10. TriviaEdits(d) \subseteq TriviaDrafts
    BY <1>4, <1>5, <1>6, <1>7, <1>8, <1>9 DEF TriviaEdits
  <1>11. \A b \in BOOLEAN : [d EXCEPT !.autoAdvance = b] \in TriviaDrafts
    BY DEF TriviaDrafts
  <1>12. (~d.autoAdvance) \in BOOLEAN
    BY Zenon DEF TriviaDrafts
  <1>13. \A v \in Typed : /\ [d EXCEPT !.advanceAfter = v] \in TriviaDrafts
                          /\ [d EXCEPT !.choiceTime = v] \in TriviaDrafts
                          /\ [d EXCEPT !.truthTime = v] \in TriviaDrafts
                          /\ [d EXCEPT !.openTime = v] \in TriviaDrafts
    BY OptionsAssumption DEF TriviaDrafts
  <1>14. TriviaAdvancedEdits(d) \subseteq TriviaDrafts
    BY <1>11, <1>12, <1>13, Zenon DEF TriviaAdvancedEdits
  <1> QED
    BY <1>10, <1>14

LEMMA LeafEditsKeep ==
  ASSUME NEW d \in LeafDrafts
  PROVE  LeafEdits(d) \cup LeafAdvancedEdits(d) \subseteq LeafDrafts
  <1>1. d.categories \in Picks(PageLeafThemes, 3) /\ "nature" \in PageLeafThemes
    BY DEF LeafDrafts, PageLeafThemes
  <1>2. Repicked(d.categories, PageLeafThemes, "nature", 3) \subseteq Picks(PageLeafThemes, 3)
    BY <1>1, ThemesCount, RepickedKeeps
  <1>3. LeafRounds \cup Typed \subseteq Numbers
    BY WholeNumbers, OptionsAssumption DEF LeafRounds
  <1>4. LeafEdits(d) \subseteq LeafDrafts
    BY <1>2, <1>3 DEF LeafEdits, LeafRoundEdits, LeafBandEdits, LeafDrafts
  <1>5. \A b \in BOOLEAN : [d EXCEPT !.autoAdvance = b] \in LeafDrafts
    BY DEF LeafDrafts
  <1>6. (~d.autoAdvance) \in BOOLEAN
    BY Zenon DEF LeafDrafts
  <1>7. \A v \in Typed : /\ [d EXCEPT !.advanceAfter = v] \in LeafDrafts
                         /\ [d EXCEPT !.clueTime = v] \in LeafDrafts
                         /\ [d EXCEPT !.guessTime = v] \in LeafDrafts
    BY OptionsAssumption DEF LeafDrafts
  <1>8. LeafAdvancedEdits(d) \subseteq LeafDrafts
    BY <1>5, <1>6, <1>7, Zenon DEF LeafAdvancedEdits
  <1> QED
    BY <1>4, <1>8

LEMMA SketchyEditsKeep ==
  ASSUME NEW d \in SketchyDrafts
  PROVE  SketchyEdits(d) \cup SketchyAdvancedEdits(d) \subseteq SketchyDrafts
  <1>1. SketchyRounds \cup Typed \subseteq Numbers
    BY WholeNumbers, OptionsAssumption DEF SketchyRounds
  <1>2. SketchyEdits(d) \subseteq SketchyDrafts
    BY <1>1 DEF SketchyEdits, SketchyDrafts
  <1>3. \A b \in BOOLEAN : [d EXCEPT !.autoAdvance = b] \in SketchyDrafts
    BY DEF SketchyDrafts
  <1>4. (~d.autoAdvance) \in BOOLEAN
    BY Zenon DEF SketchyDrafts
  <1>5. \A v \in Typed : [d EXCEPT !.advanceAfter = v] \in SketchyDrafts
    BY OptionsAssumption DEF SketchyDrafts
  <1>6. SketchyAdvancedEdits(d) \subseteq SketchyDrafts
    BY <1>3, <1>4, <1>5, Zenon DEF SketchyAdvancedEdits
  <1> QED
    BY <1>2, <1>6

LEMMA BranchEditsKeep ==
  ASSUME NEW d \in BranchDrafts
  PROVE  BranchEdits(d) \subseteq BranchDrafts
  <1>1. d.categories \in Picks(PageBranchThemes, 3) /\ "senses" \in PageBranchThemes
    BY DEF BranchDrafts, PageBranchThemes
  <1>2. Repicked(d.categories, PageBranchThemes, "senses", 3) \subseteq Picks(PageBranchThemes, 3)
    BY <1>1, ThemesCount, RepickedKeeps
  <1> QED
    BY <1>2, OptionsAssumption DEF BranchEdits, BranchDrafts

LEMMA LiarEditsKeep ==
  ASSUME NEW d \in DraftsOf("liar-liar")
  PROVE  EditsOf("liar-liar", d) \subseteq DraftsOf("liar-liar")
  <1>1. d.categories \in Picks(PageLiarThemes, 3) /\ "people" \in PageLiarThemes
    BY DEF DraftsOf, PageLiarThemes
  <1>2. Repicked(d.categories, PageLiarThemes, "people", 3) \subseteq Picks(PageLiarThemes, 3)
    BY <1>1, ThemesCount, RepickedKeeps
  <1> QED
    BY <1>2, OptionsAssumption DEF EditsOf, LiarEdits, DraftsOf

LEMMA BirdEditsKeep ==
  ASSUME NEW d \in DraftsOf("odd-bird")
  PROVE  EditsOf("odd-bird", d) \subseteq DraftsOf("odd-bird")
  <1>1. /\ d.categories \in Picks(PageBirdThemes, Cardinality(PageBirdThemes))
        /\ "everyday" \in PageBirdThemes
    BY DEF DraftsOf, PageBirdThemes
  <1>2. Repicked(d.categories, PageBirdThemes, "everyday", Cardinality(PageBirdThemes))
          \subseteq Picks(PageBirdThemes, Cardinality(PageBirdThemes))
    BY <1>1, ThemesCount, RepickedKeeps
  <1> QED
    BY <1>2 DEF EditsOf, BirdEdits, DraftsOf

\* A draft stays one the panels can show, whatever the host presses and types:
\* no list past its cap or with a theme that is not offered, no band but a
\* preset's, and a mix of one's own whenever that is the duration.
THEOREM DraftsStaySound ==
  ASSUME NEW g \in OptionGames, NEW d \in DraftsOf(g)
  PROVE  EditsOf(g, d) \subseteq DraftsOf(g)
  <1>1. CASE g = "zinger"
    BY <1>1, OptionsAssumption DEF EditsOf, ZingerEdits, DraftsOf
  <1>2. CASE g \in {"trivia", "lone-leaf", "same-branch", "sketchy"}
    BY <1>2, TriviaEditsKeep, LeafEditsKeep, BranchEditsKeep, SketchyEditsKeep, Zenon
    DEF EditsOf, DraftsOf
  <1>3. CASE g = "brambles"
    BY <1>3, OptionsAssumption DEF EditsOf, BramblesEdits, DraftsOf
  <1>4. CASE g = "nightleaf"
    BY <1>4, OptionsAssumption DEF EditsOf, NightleafEdits, DraftsOf
  <1>5. CASE g = "whispergrove"
    BY <1>5 DEF EditsOf, GroveEdits, DraftsOf
  <1>6. CASE g \in {"checkers", "reversi"}
    BY <1>6 DEF EditsOf, HintsEdits, DraftsOf
  <1>7. CASE g \in {"chess", "teeter-tower"}
    BY <1>7 DEF EditsOf
  <1> QED
    BY <1>1, <1>2, <1>3, <1>4, <1>5, <1>6, <1>7, LiarEditsKeep, BirdEditsKeep DEF OptionGames

\* A picked game can be started as it is (GameUiModule.defaultConfig).
THEOREM DefaultsCanStart ==
  ASSUME NEW g \in OptionGames
  PROVE  DefaultOf(g) \in DraftsOf(g) /\ Accepts(g, DefaultOf(g))
  <1>1. CASE g = "trivia"
    <2>1. TriviaDefault \in TriviaDrafts
      <3>1. <<>> \in Seq(Mixes) /\ Len(<<>>) <= 1
        OBVIOUS
      <3> QED
        BY <3>1, WholeNumbers DEF TriviaDefault, TriviaDrafts, PageMixes, Bands
    <2>2. TriviaAccepts(TriviaDefault)
      BY DEF TriviaAccepts, TriviaDefault, PageMixes, BandFits, Within
    <2> QED
      BY <1>1, <2>1, <2>2 DEF DefaultOf, DraftsOf, Accepts
  <1>2. CASE g = "lone-leaf"
    <2>1. LeafDefault \in LeafDrafts
      BY WholeNumbers DEF LeafDefault, LeafDrafts, Bands, Picks
    <2>2. LeafAccepts(LeafDefault)
      BY DEF LeafAccepts, LeafDefault, BandFits, Within, Listed
    <2> QED
      BY <1>2, <2>1, <2>2 DEF DefaultOf, DraftsOf, Accepts
  <1>3. CASE g = "same-branch"
    BY <1>3, WholeNumbers
    DEF DefaultOf, BranchDefault, DraftsOf, BranchDrafts, Picks, BranchModes, Accepts, BranchAccepts,
        Within, Listed
  <1>4. CASE g = "liar-liar"
    BY <1>4, WholeNumbers
    DEF DefaultOf, LiarDefault, DraftsOf, Picks, Accepts, LiarAccepts, Within, Listed
  <1>5. CASE g = "odd-bird"
    BY <1>5 DEF DefaultOf, BirdDefault, DraftsOf, Picks, Accepts, BirdAccepts, Listed
  <1>6. CASE g = "zinger"
    BY <1>6, WholeNumbers DEF DefaultOf, ZingerDefault, DraftsOf, Accepts, ZingerAccepts, Within
  <1>7. CASE g = "sketchy"
    BY <1>7, WholeNumbers
    DEF DefaultOf, SketchyDefault, DraftsOf, SketchyDrafts, Accepts, SketchyAccepts, Within
  <1>8. CASE g = "brambles"
    BY <1>8, WholeNumbers DEF DefaultOf, BramblesDefault, DraftsOf, Accepts, BramblesAccepts, Within
  <1>9. CASE g = "nightleaf"
    BY <1>9, WholeNumbers
    DEF DefaultOf, NightleafDefault, DraftsOf, Accepts, NightleafAccepts, Within
  <1>10. CASE g = "whispergrove"
    BY <1>10 DEF DefaultOf, GroveDefault, DraftsOf, Accepts, GroveAccepts, PageGroveThemes
  <1>11. CASE g \in {"checkers", "reversi", "chess", "teeter-tower"}
    BY <1>11 DEF DefaultOf, HintsDefault, DraftsOf, Accepts
  <1> QED
    BY <1>1, <1>2, <1>3, <1>4, <1>5, <1>6, <1>7, <1>8, <1>9, <1>10, <1>11 DEF OptionGames

LEMMA SameThemes ==
  /\ PageTriviaThemes = GameTriviaThemes /\ PageLeafThemes = GameLeafThemes
  /\ PageBranchThemes = GameBranchThemes /\ PageLiarThemes = GameLiarThemes
  /\ PageBirdThemes = GameBirdThemes /\ PageGroveThemes = GameGroveThemes
  BY DEF PageTriviaThemes, GameTriviaThemes, PageLeafThemes, GameLeafThemes, PageBranchThemes,
         GameBranchThemes, PageLiarThemes, GameLiarThemes, PageBirdThemes, GameBirdThemes,
         PageGroveThemes, GameGroveThemes

LEMMA TriviaPlanned ==
  ASSUME NEW d \in TriviaDrafts, TriviaAccepts(d)
  PROVE  TriviaTakes(d) /\ Questions(TriviaPlan(d)) = TriviaAsks(d)
  <1>1. /\ Taken(d.advanceAfter, 5, 1 .. 60) /\ Taken(d.choiceTime, 20, 5 .. 180)
        /\ Taken(d.truthTime, 15, 5 .. 180) /\ Taken(d.openTime, 60, 10 .. 180)
    BY WithinIsTaken DEF TriviaAccepts
  <1>2. CASE d.duration = "custom"
    <2> DEFINE m == d.custom[1]
    <2>1. /\ Within(m.choice, 0 .. 30) /\ Within(m.truth, 0 .. 30) /\ Within(m.open, 0 .. 30)
          /\ d.custom # <<>> /\ CountOf(m) \in 1 .. 60
      BY <1>2 DEF TriviaAccepts
    <2>2. /\ Taken(m.choice, 0, 0 .. 30) /\ Taken(m.truth, 0, 0 .. 30) /\ Taken(m.open, 0, 0 .. 30)
          /\ Sent(m.choice, 0) = m.choice /\ Sent(m.truth, 0) = m.truth /\ Sent(m.open, 0) = m.open
      BY <2>1, WithinIsTaken, WithinIsSent
    <2>3. Questions(TriviaPlan(d)) = CountOf(m)
      BY <1>2, <2>2 DEF TriviaPlan, Questions, Mix, CountOf
    <2>4. TriviaAsks(d) = CountOf(m)
      BY <1>2, <2>1 DEF TriviaAsks, MixOf
    <2> QED
      BY <1>1, <1>2, <2>1, <2>2, <2>3, <2>4, SameThemes DEF TriviaAccepts, TriviaTakes
  <1>3. CASE d.duration # "custom"
    <2>1. d.duration \in {"fast", "standard", "long", "marathon"}
      BY <1>3 DEF TriviaAccepts, PageMixes
    <2>2. d.duration \in DOMAIN GameMixes
      BY <2>1 DEF GameMixes
    <2>3. Questions(TriviaPlan(d)) = TriviaAsks(d)
      <3>1. TriviaPlan(d) = GameMixes[d.duration] /\ MixOf(d) = PageMixes[d.duration]
        BY <1>3 DEF TriviaPlan, MixOf
      <3>2. Questions(GameMixes[d.duration]) = CountOf(PageMixes[d.duration])
        BY <2>1 DEF GameMixes, PageMixes, Questions, CountOf, Mix
      <3> QED
        BY <3>1, <3>2 DEF TriviaAsks
    <2> QED
      BY <1>1, <2>2, <2>3, SameThemes DEF TriviaAccepts, TriviaTakes
  <1> QED
    BY <1>2, <1>3

\* What the page lets through, the game takes: a host is never stopped by a
\* configure that refuses the options the lobby showed as good (the panels'
\* "mirror the engine's rules" comments).
THEOREM AcceptedIsTaken ==
  ASSUME NEW g \in OptionGames, NEW d \in DraftsOf(g), Accepts(g, d)
  PROVE  Takes(g, d)
  <1>1. CASE g = "trivia"
    BY <1>1, TriviaPlanned DEF DraftsOf, Accepts, Takes
  <1>2. CASE g = "lone-leaf"
    BY <1>2, WithinIsTaken, SameThemes DEF Accepts, Takes, LeafAccepts, LeafTakes
  <1>3. CASE g = "same-branch"
    BY <1>3, WithinIsTaken, SameThemes DEF Accepts, Takes, BranchAccepts, BranchTakes
  <1>4. CASE g = "liar-liar"
    BY <1>4, WithinIsTaken, SameThemes DEF Accepts, Takes, LiarAccepts, LiarTakes
  <1>5. CASE g = "odd-bird"
    BY <1>5, SameThemes DEF Accepts, Takes, BirdAccepts, BirdTakes
  <1>6. CASE g = "zinger"
    BY <1>6, WithinIsTaken DEF Accepts, Takes, ZingerAccepts, ZingerTakes
  <1>7. CASE g = "sketchy"
    BY <1>7, WithinIsTaken DEF Accepts, Takes, SketchyAccepts, SketchyTakes
  <1>8. CASE g = "brambles"
    <2>1. /\ Within(d.sprints, 2 .. 20) /\ d.sprints[1] % 2 = 0 /\ Within(d.sprintTime, 30 .. 180)
      BY <1>8 DEF Accepts, BramblesAccepts
    <2>2. /\ Taken(d.sprints, 6, 2 .. 20) /\ Sent(d.sprints, 6) = d.sprints
          /\ Taken(d.sprintTime, 60, 30 .. 180)
      BY <2>1, WithinIsTaken, WithinIsSent
    <2> QED
      BY <1>8, <2>1, <2>2 DEF Takes, BramblesTakes
  <1>9. CASE g = "nightleaf"
    BY <1>9, WithinIsTaken DEF Accepts, Takes, NightleafAccepts, NightleafTakes
  <1>10. CASE g = "whispergrove"
    BY <1>10, SameThemes DEF Accepts, Takes, GroveAccepts, GroveTakes
  <1>11. CASE g \in {"checkers", "reversi", "chess", "teeter-tower"}
    BY <1>11 DEF Takes
  <1> QED
    BY <1>1, <1>2, <1>3, <1>4, <1>5, <1>6, <1>7, <1>8, <1>9, <1>10, <1>11 DEF OptionGames

\* And nothing else the game would take is refused: where the two differ, a
\* field was left empty and the game would have read its default.
THEOREM RefusedIsUnfilled ==
  ASSUME NEW g \in OptionGames, NEW d \in DraftsOf(g), Takes(g, d), Filled(g, d)
  PROVE  Accepts(g, d)
  <1>1. CASE g = "trivia"
    <2>1. /\ Within(d.advanceAfter, 1 .. 60) /\ Within(d.choiceTime, 5 .. 180)
          /\ Within(d.truthTime, 5 .. 180) /\ Within(d.openTime, 10 .. 180)
      BY <1>1, FilledIsWithin DEF Takes, TriviaTakes, Filled
    <2>2. CASE d.duration = "custom"
      <3> DEFINE m == d.custom[1]
      <3>1. /\ d.custom # <<>> /\ m.choice # <<>> /\ m.truth # <<>> /\ m.open # <<>>
            /\ Taken(m.choice, 0, 0 .. 30) /\ Taken(m.truth, 0, 0 .. 30) /\ Taken(m.open, 0, 0 .. 30)
            /\ Questions(TriviaPlan(d)) \in 1 .. 60
        BY <1>1, <2>2 DEF Takes, TriviaTakes, Filled, GameMixes
      <3>2. Within(m.choice, 0 .. 30) /\ Within(m.truth, 0 .. 30) /\ Within(m.open, 0 .. 30)
        BY <3>1, FilledIsWithin
      <3>3. Questions(TriviaPlan(d)) = CountOf(m)
        BY <2>2, <3>1 DEF TriviaPlan, Questions, Mix, CountOf, Sent
      <3> QED
        BY <1>1, <2>1, <2>2, <3>1, <3>2, <3>3, SameThemes
        DEF Accepts, TriviaAccepts, Takes, TriviaTakes
    <2>3. CASE d.duration # "custom"
      <3>1. d.duration \in DOMAIN PageMixes
        BY <1>1, <2>3 DEF Takes, TriviaTakes, GameMixes, PageMixes
      <3> QED
        BY <1>1, <2>1, <2>3, <3>1, SameThemes DEF Accepts, TriviaAccepts, Takes, TriviaTakes
    <2> QED
      BY <2>2, <2>3
  <1>2. CASE g = "lone-leaf"
    BY <1>2, FilledIsWithin, SameThemes DEF Accepts, Takes, LeafAccepts, LeafTakes, Filled
  <1>3. CASE g = "same-branch"
    BY <1>3, FilledIsWithin, SameThemes DEF Accepts, Takes, BranchAccepts, BranchTakes, Filled
  <1>4. CASE g = "liar-liar"
    BY <1>4, FilledIsWithin, SameThemes DEF Accepts, Takes, LiarAccepts, LiarTakes, Filled
  <1>5. CASE g = "odd-bird"
    BY <1>5, SameThemes DEF Accepts, Takes, BirdAccepts, BirdTakes
  <1>6. CASE g = "zinger"
    BY <1>6, FilledIsWithin DEF Accepts, Takes, ZingerAccepts, ZingerTakes, Filled
  <1>7. CASE g = "sketchy"
    BY <1>7, FilledIsWithin DEF Accepts, Takes, SketchyAccepts, SketchyTakes, Filled
  <1>8. CASE g = "brambles"
    BY <1>8, FilledIsWithin DEF Accepts, Takes, BramblesAccepts, BramblesTakes, Filled, Sent
  <1>9. CASE g = "nightleaf"
    BY <1>9, FilledIsWithin DEF Accepts, Takes, NightleafAccepts, NightleafTakes, Filled
  <1>10. CASE g = "whispergrove"
    BY <1>10, SameThemes DEF Accepts, Takes, GroveAccepts, GroveTakes, Filled
  <1>11. CASE g \in {"checkers", "reversi", "chess", "teeter-tower"}
    BY <1>11 DEF Accepts
  <1> QED
    BY <1>1, <1>2, <1>3, <1>4, <1>5, <1>6, <1>7, <1>8, <1>9, <1>10, <1>11 DEF OptionGames

\* The rounds the page asks the control plane for, which checks that the host
\* can afford them, are the rounds the game plans; but Sketchy plans one more
\* round per cycle and player than it asked for, and Brambles one in all.
THEOREM AskedIsPlanned ==
  ASSUME NEW g \in OptionGames, NEW d \in DraftsOf(g), Accepts(g, d), NEW players \in Nat \ {0}
  PROVE  /\ g \notin {"sketchy", "brambles"} => PlannedOf(g, d, players) = AskedOf(g, d)
         /\ g = "sketchy"  => PlannedOf(g, d, players) > AskedOf(g, d)
         /\ g = "brambles" => PlannedOf(g, d, players) < AskedOf(g, d)
  <1>1. CASE g = "trivia"
    BY <1>1, TriviaPlanned DEF DraftsOf, Accepts, PlannedOf, AskedOf
  <1>2. CASE g \in {"lone-leaf", "same-branch", "liar-liar", "zinger"}
    <2>1. Within(d.rounds, 1 .. 100)
      BY <1>2 DEF Accepts, LeafAccepts, BranchAccepts, LiarAccepts, ZingerAccepts
    <2>2. Sent(d.rounds, 10) = d.rounds /\ Sent(d.rounds, 5) = d.rounds /\ Sent(d.rounds, 8) = d.rounds
      BY <2>1, WithinIsSent
    <2> QED
      BY <1>2, <2>2 DEF PlannedOf, AskedOf
  <1>3. CASE g = "sketchy"
    <2>1. Within(d.rounds, 1 .. 15)
      BY <1>3 DEF Accepts, SketchyAccepts
    <2>2. Sent(d.rounds, 5) = d.rounds /\ d.rounds[1] \in 1 .. 15
      BY <2>1, WithinIsSent, WithinHolds
    <2> DEFINE n == d.rounds[1]
    <2>3. n * (1 + players) > n
      <3> HIDE DEF n
      <3>1. n \in Nat \ {0}
        BY <2>2 DEF n
      <3>2. n * (1 + players) = n + n * players /\ n * players > 0
        BY <3>1
      <3> QED
        BY <3>1, <3>2
    <2> QED
      BY <1>3, <2>2, <2>3 DEF PlannedOf, AskedOf
  <1>4. CASE g = "brambles"
    <2>1. d.sprints[1] \in 2 .. 20
      BY <1>4, WithinHolds DEF Accepts, BramblesAccepts
    <2> QED
      BY <1>4, <2>1 DEF PlannedOf, AskedOf
  <1>5. CASE g = "nightleaf"
    <2>1. Sent(d.tiers, 4) = d.tiers
      BY <1>5, WithinIsSent DEF Accepts, NightleafAccepts
    <2> QED
      BY <1>5, <2>1 DEF PlannedOf, AskedOf
  <1>6. CASE g \in {"odd-bird", "whispergrove", "checkers", "reversi", "chess", "teeter-tower"}
    BY <1>6 DEF PlannedOf, AskedOf
  <1> QED
    BY <1>1, <1>2, <1>3, <1>4, <1>5, <1>6 DEF OptionGames

\* A dwell typed wrongly and then switched off with auto-advance: in Lone Leaf
\* it does not matter any more; in Trivia and Sketchy it holds Start until
\* auto-advance is on again, for no one edit helps.
THEOREM StaleDwell ==
  ASSUME NEW g \in {"trivia", "lone-leaf", "sketchy"}, NEW d \in DraftsOf(g), ~d.autoAdvance
  PROVE  /\ g = "lone-leaf" => \A v \in Numbers : LeafAccepts([d EXCEPT !.advanceAfter = v]) <=> LeafAccepts(d)
         /\ g # "lone-leaf" /\ ~Within(d.advanceAfter, 1 .. 60) =>
               \A e \in EditsOf(g, d) : ~Accepts(g, e)
  <1>1. CASE g = "lone-leaf"
    <2>1. \A v \in Numbers :
             LET e == [d EXCEPT !.advanceAfter = v]
             IN /\ e.rounds = d.rounds /\ e.band = d.band /\ e.categories = d.categories
                /\ e.autoAdvance = d.autoAdvance /\ e.clueTime = d.clueTime
                /\ e.guessTime = d.guessTime
      BY <1>1 DEF DraftsOf, LeafDrafts
    <2> QED
      BY <1>1, <2>1 DEF LeafAccepts
  <1>2. CASE g = "trivia"
    <2>1. \A e \in TriviaEdits(d) \cup TriviaAdvancedEdits(d) : e.advanceAfter = d.advanceAfter
      BY <1>2 DEF TriviaEdits, CountEdits, TriviaBandEdits, TriviaAdvancedEdits, DraftsOf, TriviaDrafts
    <2> QED
      BY <1>2, <2>1 DEF EditsOf, Accepts, TriviaAccepts
  <1>3. CASE g = "sketchy"
    <2>1. \A e \in SketchyEdits(d) \cup SketchyAdvancedEdits(d) : e.advanceAfter = d.advanceAfter
      BY <1>3 DEF SketchyEdits, SketchyAdvancedEdits, DraftsOf, SketchyDrafts
    <2> QED
      BY <1>3, <2>1 DEF EditsOf, Accepts, SketchyAccepts
  <1> QED
    BY <1>1, <1>2, <1>3
================================================================================
