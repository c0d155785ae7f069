---------------------------- MODULE RoundGames_proof ----------------------------
(***************************************************************************)
(* The question and story games for any banks, tables, seats and plans:    *)
(* no game runs out of questions, no two options of a guess are one text,  *)
(* a table can close its phases and what a round paid adds up; and the     *)
(* device of one player (Remotes): what it locked in, what it is not to    *)
(* know, and what one that comes late paints.                              *)
(***************************************************************************)
EXTENDS Remotes, FiniteSetTheorems, FunctionTheorems, WellFoundedInduction, TLAPS

--------------------------------------------------------------------------------
(* Finite sets and numbers *)

\* A bank with fewer entries spent than it has has one left; spending it counts one.
LEMMA LeftOver ==
  ASSUME NEW bank, IsFiniteSet(bank), NEW spent \in SUBSET bank, Cardinality(spent) < Cardinality(bank)
  PROVE  \E x \in bank : x \notin spent
  BY FS_Subset, FS_CardinalityType

LEMMA Spends ==
  ASSUME NEW bank, IsFiniteSet(bank), NEW spent \in SUBSET bank, NEW x \in bank, x \notin spent
  PROVE  /\ spent \cup {x} \in SUBSET bank
         /\ Cardinality(spent) \in Nat
         /\ Cardinality(spent \cup {x}) = Cardinality(spent) + 1
  BY FS_Subset, FS_CardinalityType, FS_AddElement

\* Something is nearest.
LEMMA Least ==
  ASSUME NEW S, S # {}, NEW f, \A x \in S : f[x] \in Nat
  PROVE  \E x \in S : \A y \in S : f[x] <= f[y]
<1> DEFINE T == {f[x] : x \in S}
           R == OpToRel(<, Nat)
<1>1. T \subseteq Nat /\ T # {}
  OBVIOUS
<1>2. IsWellFoundedOn(R, Nat)
  BY NatLessThanWellFounded
<1>3. \A a, b \in Nat : a < b => <<a, b>> \in R
  BY DEF OpToRel
<1> HIDE DEF R
<1>4. PICK n \in T : \A m \in T : ~(<<m, n>> \in R)
  <2> HIDE DEF T
  <2> QED
    BY <1>1, <1>2, WFMin
<1>5. \A m \in T : n <= m
  <2> HIDE DEF T
  <2>1. \A m \in T : m \in Nat /\ n \in Nat /\ ~(m < n)
    BY <1>1, <1>3, <1>4
  <2> QED
    BY <2>1
<1> QED
  BY <1>4, <1>5

\* A hand can be dealt: as many seeds as players, no seed twice.
LEMMA DealtOneEach ==
  ASSUME NEW S, IsFiniteSet(S), NEW T, IsFiniteSet(T), Cardinality(S) <= Cardinality(T)
  PROVE  \E f \in [S -> T] : IsInjective(f)
<1> DEFINE m == Cardinality(S)
           n == Cardinality(T)
<1>0. m \in Nat /\ n \in Nat /\ m <= n /\ ExistsBijection(1 .. m, S) /\ ExistsBijection(1 .. n, T)
  BY FS_CardinalityType
<1> HIDE DEF m, n
<1>1. ExistsInjection(S, 1 .. m)
  BY <1>0, Fun_ExistsBijSymmetric, Fun_ExistsBijEquiv
<1>2. ExistsInjection(1 .. n, T)
  BY <1>0, Fun_ExistsBijEquiv
<1>3. ExistsInjection(1 .. m, 1 .. n)
  <2>1. [i \in 1 .. m |-> i] \in Injection(1 .. m, 1 .. n)
    BY <1>0 DEF Injection, IsInjective
  <2> QED
    BY <2>1 DEF ExistsInjection
<1>4. ExistsInjection(S, T)
  BY <1>1, <1>2, <1>3, Fun_ExistsInjTransitive
<1> QED
  BY <1>4 DEF ExistsInjection, Injection

LEMMA Whole ==
  ASSUME NEW n \in Nat, NEW w \in Nat \ {0}, n % w = 0
  PROVE  n = w * (n \div w) /\ n \div w \in Nat
  OBVIOUS

LEMMA Divides ==
  ASSUME NEW x \in Nat, NEW k \in Nat \ {0}
  PROVE LET q == x \div k IN q \in Nat /\ k * q <= x /\ x < k * q + k
  OBVIOUS

\* The open rounds of trivia are spread over the total, no two on one slot.
LEMMA SlotsDiffer ==
  ASSUME NEW k \in Nat \ {0}, NEW t \in Nat, k <= t, NEW i \in 1 .. k, NEW j \in 1 .. k, i < j
  PROVE (i * t + k - 1) \div k # (j * t + k - 1) \div k
<1> DEFINE a == i * t + k - 1
           b == j * t + k - 1
<1>1. a \in Nat /\ b \in Nat
  OBVIOUS
<1>2. j * t = (j - i) * t + i * t /\ (j - i) * t >= t
  OBVIOUS
<1>3. b >= a + k
  BY <1>2
<1> HIDE DEF a, b
<1>4. a \div k # b \div k
  BY <1>1, <1>3, Divides
<1> QED
  BY <1>4 DEF a, b

LEMMA DisjointUnion ==
  ASSUME NEW S, NEW T, IsFiniteSet(S), IsFiniteSet(T), S \cap T = {}
  PROVE  IsFiniteSet(S \cup T) /\ Cardinality(S \cup T) = Cardinality(S) + Cardinality(T)
  BY FS_Union, FS_EmptySet, FS_CardinalityType

\* A question of the nearest difficulty, or a seed in or nearest the band, is one of those left.
LEMMA NearestIsThere ==
  ASSUME NEW qs \in SUBSET DOMAIN TriviaBank, qs # {}
  PROVE  Trivia!Nearest(qs) # {} /\ Trivia!Nearest(qs) \subseteq qs
<1> DEFINE far == [q \in qs |-> Trivia!Distance(TriviaBank[q].difficulty)]
<1>1. \A q \in qs : far[q] \in Nat
  BY RoundGamesAssumption DEF Trivia!Distance
<1>2. PICK q \in qs : \A r \in qs : far[q] <= far[r]
  <2> HIDE DEF far
  <2> QED
    BY <1>1, Least
<1> QED
  BY <1>2 DEF Trivia!Nearest

LEMMA InBandIsThere ==
  ASSUME NEW seeds \in SUBSET DOMAIN LeafBank, seeds # {}
  PROVE  LoneLeaf!InBand(seeds) # {} /\ LoneLeaf!InBand(seeds) \subseteq seeds
<1> DEFINE far == [q \in seeds |-> LoneLeaf!Gap(LeafBank[q])]
<1>1. \A q \in seeds : far[q] \in Nat
  BY RoundGamesAssumption DEF LoneLeaf!Gap
<1>2. PICK q \in seeds : \A r \in seeds : far[q] <= far[r]
  <2> HIDE DEF far
  <2> QED
    BY <1>1, Least
<1> QED
  BY <1>2 DEF LoneLeaf!InBand

--------------------------------------------------------------------------------
(* What a step leaves of a game: its bank changes only when a round starts *)

\* The games that draw from a bank, and the fields a draw reads.
Banked == {"trivia", "liar-liar", "zinger", "same-branch", "sketchy", "lone-leaf"}
Kept(s, t) == DOMAIN t = DOMAIN s /\ \A f \in {"rounds", "used", "plan"} \cap DOMAIN s : t[f] = s[f]

\* A reveal, a settled dispute or decision, a move and a vote draw nothing.
LEMMA RevealKeeps ==
  ASSUME NEW c, NEW r \in Reveal(c), game \in Banked
  PROVE  Kept(c.scratch, r.scratch)
<1>1. CASE game = "trivia"
  <2>1. \E w : r.scratch = [c.scratch EXCEPT !.wrong = w]
    BY <1>1 DEF Reveal, Trivia!Reveal, Trivia!Revealed
  <2> QED
    BY <2>1 DEF Kept
<1>2. CASE game = "liar-liar"
  <2>1. r.scratch = [c.scratch EXCEPT !.options = {LiarLiar!Truth} \cup LiarLiar!Having(c.scratch.submissions),
                                      !.guesses = LiarLiar!Unset]
    BY <1>2 DEF Reveal, LiarLiar!Reveal, LiarLiar!Revealed
  <2> QED
    BY <2>1 DEF Kept
<1>3. CASE game = "zinger"
  <2> DEFINE shown(pair) == [c.scratch EXCEPT !.authors = pair, !.votes = Zinger!Unset]
  <2>1. \/ r \in {Zinger!Revealed(shown({}), Zinger!NoPoints, FALSE)}
        \/ r \in {Zinger!Revealed(shown(pair), Zinger!NoPoints, TRUE) :
                     pair \in {q \in SUBSET c.scratch.submissions : Zinger!Cardinality(q) = 2}}
    BY <1>3, Zenon DEF Reveal, Zinger!Reveal
  <2>2. \E pair : r.scratch = shown(pair)
    <3> HIDE DEF shown
    <3> QED
      BY <2>1 DEF Zinger!Revealed
  <2>3. \A pair : Kept(c.scratch, shown(pair))
    BY DEF Kept
  <2> QED
    BY <2>2, <2>3
<1>4. CASE game = "same-branch"
  BY <1>4 DEF Kept, Reveal, SameBranch!Reveal, SameBranch!Revealed
<1>5. CASE game = "lone-leaf"
  <2>1. r.scratch = [c.scratch EXCEPT !.survivors = LoneLeaf!Survivors(c.scratch.leaves), !.guess = LoneLeaf!Nobody]
    BY <1>5 DEF Reveal, LoneLeaf!Reveal, LoneLeaf!Revealed
  <2> QED
    BY <2>1 DEF Kept
<1>6. CASE game = "sketchy"
  <2>1. \/ r.scratch = c.scratch
        \/ r.scratch = [c.scratch EXCEPT !.options = {Sketchy!Truth} \cup Sketchy!Having(c.scratch.decoys),
                                         !.guesses = Sketchy!Unset]
    BY <1>6 DEF Reveal, Sketchy!Reveal, Sketchy!Revealed
  <2> QED
    BY <2>1 DEF Kept
<1> QED
  BY <1>1, <1>2, <1>3, <1>4, <1>5, <1>6 DEF Banked

LEMMA ScoringKeeps ==
  ASSUME NEW c, game \in Banked
  PROVE  /\ game = "trivia" => DisputeVote(c).scratch = c.scratch
         /\ game \notin {"trivia", "same-branch"} => ResolveDecision(c).scratch = c.scratch
  BY DEF Banked, DisputeVote, Trivia!DisputeVote, Trivia!Resolved, ResolveDecision,
         LiarLiar!ResolveDecision, LiarLiar!Resolved, Zinger!ResolveDecision, Zinger!Resolved,
         Sketchy!ResolveDecision, Sketchy!Resolved, LoneLeaf!ResolveDecision, LoneLeaf!Resolved

LEMMA MoveKeeps ==
  ASSUME NEW c, NEW p, NEW m, game \in Banked
  PROVE  Kept(c.scratch, CollectMove(c, p, m))
<1>1. CASE game = "trivia"
  BY <1>1 DEF Kept, CollectMove, Trivia!CollectMove
<1>2. CASE game = "liar-liar"
  BY <1>2 DEF Kept, CollectMove, LiarLiar!CollectMove
<1>3. CASE game = "zinger"
  BY <1>3 DEF Kept, CollectMove, Zinger!CollectMove
<1>4. CASE game = "same-branch"
  BY <1>4 DEF Kept, CollectMove, SameBranch!CollectMove
<1>5. CASE game = "lone-leaf"
  BY <1>5 DEF Kept, CollectMove, LoneLeaf!CollectMove
<1>6. CASE game = "sketchy"
  BY <1>6 DEF Kept, CollectMove, Sketchy!CollectMove, Sketchy!Refused
<1> QED
  BY <1>1, <1>2, <1>3, <1>4, <1>5, <1>6 DEF Banked

LEMMA VoteKeeps ==
  ASSUME NEW c, NEW p, NEW v, game \in Banked
  PROVE  Kept(c.scratch, CollectVote(c, p, v))
<1>1. CASE game = "trivia"
  BY <1>1 DEF Kept, CollectVote, Trivia!CollectVote
<1>2. CASE game = "liar-liar"
  BY <1>2 DEF Kept, CollectVote, LiarLiar!CollectVote
<1>3. CASE game = "zinger"
  BY <1>3 DEF Kept, CollectVote, Zinger!CollectVote
<1>4. CASE game = "same-branch"
  BY <1>4 DEF Kept, CollectVote
<1>5. CASE game = "lone-leaf"
  BY <1>5 DEF Kept, CollectVote, LoneLeaf!CollectVote
<1>6. CASE game = "sketchy"
  BY <1>6 DEF Kept, CollectVote, Sketchy!CollectVote
<1> QED
  BY <1>1, <1>2, <1>3, <1>4, <1>5, <1>6 DEF Banked

\* Only the games with a dispute vote, and only those with a decision guess.
ModeInv ==
    /\ game \in Games /\ round \in Nat \ {0}
    /\ phase = "voting" => game \in {"trivia", "stub"}
    /\ phase = "guessing" => game \notin {"trivia", "stub", "same-branch"}

LEMMA NoGuess ==
  ASSUME NEW c, NEW r \in Reveal(c), game \in {"trivia", "stub", "same-branch"}
  PROVE  r.guess = FALSE
<1>1. CASE game = "trivia"
  BY <1>1 DEF Reveal, Trivia!Reveal, Trivia!Revealed
<1>2. CASE game = "stub"
  BY <1>2 DEF Reveal, StubGame!Reveal, StubGame!Revealed
<1>3. CASE game = "same-branch"
  BY <1>3 DEF Reveal, SameBranch!Reveal, SameBranch!Revealed
<1> QED
  BY <1>1, <1>2, <1>3

LEMMA ModeCorrect == Spec => []ModeInv
<1>1. Init => ModeInv
  BY DEF Init, ModeInv
<1>2. ModeInv /\ [Next]_vars => ModeInv'
  <2> SUFFICES ASSUME ModeInv, [Next]_vars PROVE ModeInv'
    OBVIOUS
  <2>1. ASSUME NEW p \in Players, SubmitMove(p) \/ SubmitVote(p) \/ Disconnect(p) \/ Join(p) PROVE ModeInv'
    BY <2>1 DEF ModeInv, SubmitMove, SubmitVote, Disconnect, Join
  <2>2. CASE AdvanceCollecting
    BY <2>2, NoGuess DEF ModeInv, AdvanceCollecting
  <2>3. CASE AdvanceDisputing
    BY <2>3 DEF ModeInv, AdvanceDisputing, Disputes
  <2>4. CASE AdvanceVoting \/ AdvanceGuessing
    BY <2>4 DEF ModeInv, AdvanceVoting, AdvanceGuessing, AdvanceScoring
  <2>5. CASE AdvanceLeaderboard
    BY <2>5 DEF ModeInv, AdvanceLeaderboard
  <2>6. CASE UNCHANGED vars
    BY <2>6 DEF ModeInv, vars
  <2> QED
    BY <2>1, <2>2, <2>3, <2>4, <2>5, <2>6 DEF Next
<1> QED
  BY <1>1, <1>2, PTL DEF Spec

\* The one step that draws: past the leaderboard of a round that is not the last.
NewRound ==
    /\ phase = "leaderboard" /\ ~(round >= LastRound) /\ round' = round + 1
    /\ scratch' \in StartRound([Ctx EXCEPT !.round = round + 1])

LEMMA StepsOfBanks ==
  ASSUME ModeInv, [Next]_vars, game \in Banked
  PROVE  game' = game /\ (NewRound \/ (round' = round /\ Kept(scratch, scratch')))
<1>0. Ctx.scratch = scratch /\ Kept(scratch, scratch)
  BY DEF Ctx, Kept
<1>1. ASSUME NEW p \in Players, SubmitMove(p) PROVE game' = game /\ round' = round /\ Kept(scratch, scratch')
  BY <1>0, <1>1, MoveKeeps DEF SubmitMove
<1>2. ASSUME NEW p \in Players, SubmitVote(p) PROVE game' = game /\ round' = round /\ Kept(scratch, scratch')
  BY <1>0, <1>2, VoteKeeps DEF SubmitVote
<1>3. ASSUME NEW p \in Players, Disconnect(p) \/ Join(p)
      PROVE  game' = game /\ round' = round /\ Kept(scratch, scratch')
  BY <1>0, <1>3 DEF Disconnect, Join
<1>4. CASE AdvanceCollecting
  BY <1>0, <1>4, RevealKeeps DEF AdvanceCollecting
<1>5. CASE AdvanceDisputing
  BY <1>0, <1>5 DEF AdvanceDisputing
<1>6. CASE AdvanceVoting
  BY <1>0, <1>6, ScoringKeeps DEF AdvanceVoting, AdvanceScoring, ModeInv, Banked
<1>7. CASE AdvanceGuessing
  BY <1>0, <1>7, ScoringKeeps DEF AdvanceGuessing, AdvanceScoring, ModeInv
<1>8. CASE AdvanceLeaderboard
  BY <1>0, <1>8 DEF AdvanceLeaderboard, NewRound, ModeInv
<1>9. CASE UNCHANGED vars
  BY <1>0, <1>9 DEF vars
<1> QED
  BY <1>1, <1>2, <1>3, <1>4, <1>5, <1>6, <1>7, <1>8, <1>9 DEF Next

LEMMA GameStays ==
  ASSUME [Next]_vars
  PROVE  game' = game
  BY DEF Next, vars, SubmitMove, SubmitVote, Disconnect, Join, AdvanceCollecting, AdvanceDisputing,
         AdvanceVoting, AdvanceGuessing, AdvanceScoring, AdvanceLeaderboard

--------------------------------------------------------------------------------
(* The games whose configuration counts the bank: a prompt a round *)

CountedGames == {"liar-liar", "zinger", "same-branch", "lone-leaf"}
BankOf ==
    CASE game = "liar-liar"   -> Clues
      [] game = "zinger"      -> Setups
      [] game = "same-branch" -> Spectrums
      [] game = "lone-leaf"   -> DOMAIN LeafBank

\* Each round so far spent one entry, and validateConfig refused more rounds than entries.
CountedInv ==
    game \in CountedGames =>
        /\ {"rounds", "used"} \subseteq DOMAIN scratch
        /\ scratch.used \in SUBSET BankOf /\ Cardinality(scratch.used) = round
        /\ scratch.rounds \in Nat /\ scratch.rounds <= Cardinality(BankOf)

\* Each instance of RoundContext has its own Cardinality, the same one.
LEMMA SameCounts ==
  \A S : /\ LiarLiar!Cardinality(S) = Cardinality(S) /\ Zinger!Cardinality(S) = Cardinality(S)
         /\ SameBranch!Cardinality(S) = Cardinality(S) /\ LoneLeaf!Cardinality(S) = Cardinality(S)
         /\ Trivia!Cardinality(S) = Cardinality(S) /\ Sketchy!Cardinality(S) = Cardinality(S)
<1> TAKE S
<1>1. LiarLiar!Cardinality(S) = Cardinality(S)
  BY Zenon DEF LiarLiar!Cardinality, Cardinality
<1>2. Zinger!Cardinality(S) = Cardinality(S)
  BY Zenon DEF Zinger!Cardinality, Cardinality
<1>3. SameBranch!Cardinality(S) = Cardinality(S)
  BY Zenon DEF SameBranch!Cardinality, Cardinality
<1>4. LoneLeaf!Cardinality(S) = Cardinality(S)
  BY Zenon DEF LoneLeaf!Cardinality, Cardinality
<1>5. Trivia!Cardinality(S) = Cardinality(S)
  BY Zenon DEF Trivia!Cardinality, Cardinality
<1>6. Sketchy!Cardinality(S) = Cardinality(S)
  BY Zenon DEF Sketchy!Cardinality, Cardinality
<1> QED
  BY <1>1, <1>2, <1>3, <1>4, <1>5, <1>6

LEMMA BanksAreFinite ==
  game \in CountedGames => IsFiniteSet(BankOf)
  BY RoundGamesAssumption DEF CountedGames, BankOf

\* A round that starts spends one unspent entry, and one can start while one is left.
LEMMA CountedDraw ==
  ASSUME game \in CountedGames, NEW c, {"rounds", "used"} \subseteq DOMAIN c.scratch,
         c.scratch.used \in SUBSET BankOf, NEW s \in StartRound(c)
  PROVE  /\ DOMAIN s = DOMAIN c.scratch /\ s.rounds = c.scratch.rounds
         /\ \E x \in BankOf : x \notin c.scratch.used /\ s.used = c.scratch.used \cup {x}
<1>1. CASE game = "liar-liar"
  BY <1>1 DEF BankOf, StartRound, LiarLiar!StartRound, LiarLiar!Unused
<1>2. CASE game = "zinger"
  BY <1>2 DEF BankOf, StartRound, Zinger!StartRound, Zinger!Unused
<1>3. CASE game = "same-branch"
  <2> DEFINE opened(x, bud) ==
               [c.scratch EXCEPT !.used = @ \cup {x}, !.bud = bud, !.reader = SameBranch!ReaderFor(c.round),
                                 !.hunch = FALSE, !.guesses = [p \in SameBranch!Players |-> -1]]
  <2>0. StartRound(c) = SameBranch!StartRound(c)
    BY <1>3 DEF StartRound
  <2>1. StartRound(c) = UNION {{opened(x, bud) : bud \in Buds} : x \in Spectrums \ c.scratch.used}
    BY <2>0, Zenon DEF SameBranch!StartRound, SameBranch!Unused
  <2>2. \E x \in Spectrums \ c.scratch.used, bud \in Buds : s = opened(x, bud)
    <3> HIDE DEF opened
    <3> QED
      BY <2>1
  <2> QED
    BY <1>3, <2>2 DEF BankOf
<1>4. CASE game = "lone-leaf"
  <2> DEFINE left == DOMAIN LeafBank \ c.scratch.used
  <2>1. LoneLeaf!InBand(left) \subseteq left
    BY DEF LoneLeaf!InBand
  <2>2. \E x \in LoneLeaf!InBand(left) :
            s = [c.scratch EXCEPT !.used = @ \cup {x}, !.seeker = LoneLeaf!SeekerForRound(c.round),
                                  !.leaves = LoneLeaf!Unset, !.survivors = {}, !.guess = LoneLeaf!Nobody]
    BY <1>4 DEF StartRound, LoneLeaf!StartRound, LoneLeaf!Unused
  <2> QED
    BY <1>4, <2>1, <2>2 DEF BankOf
<1> QED
  BY <1>1, <1>2, <1>3, <1>4 DEF CountedGames

LEMMA CountedDraws ==
  ASSUME game \in CountedGames, NEW c, \E x \in BankOf : x \notin c.scratch.used
  PROVE  StartRound(c) # {}
<1>1. CASE game = "liar-liar"
  BY <1>1 DEF BankOf, StartRound, LiarLiar!StartRound, LiarLiar!Unused
<1>2. CASE game = "zinger"
  BY <1>2 DEF BankOf, StartRound, Zinger!StartRound, Zinger!Unused
<1>3. CASE game = "same-branch"
  <2> DEFINE opened(x, bud) ==
               [c.scratch EXCEPT !.used = @ \cup {x}, !.bud = bud, !.reader = SameBranch!ReaderFor(c.round),
                                 !.hunch = FALSE, !.guesses = [p \in SameBranch!Players |-> -1]]
  <2>0. StartRound(c) = SameBranch!StartRound(c)
    BY <1>3 DEF StartRound
  <2>1. StartRound(c) = UNION {{opened(x, bud) : bud \in Buds} : x \in Spectrums \ c.scratch.used}
    BY <2>0, Zenon DEF SameBranch!StartRound, SameBranch!Unused
  <2>2. PICK x \in Spectrums \ c.scratch.used, bud \in Buds : TRUE
    BY <1>3, RoundGamesAssumption DEF BankOf
  <2> HIDE DEF opened
  <2>3. opened(x, bud) \in StartRound(c)
    BY <2>1, <2>2
  <2> QED
    BY <2>3
<1>4. CASE game = "lone-leaf"
  <2>1. LoneLeaf!InBand(DOMAIN LeafBank \ c.scratch.used) # {}
    BY <1>4, InBandIsThere DEF BankOf
  <2> QED
    BY <1>4, <2>1 DEF StartRound, LoneLeaf!StartRound, LoneLeaf!Unused
<1> QED
  BY <1>1, <1>2, <1>3, <1>4 DEF CountedGames

LEMMA CountedCorrect == Spec => []CountedInv
<1>1. Init => CountedInv
  <2> SUFFICES ASSUME Init, game \in CountedGames PROVE CountedInv
    BY DEF CountedInv
  <2> DEFINE c(s) == [phase |-> "collecting", round |-> 1, present |-> Players, scratch |-> s]
  <2>1. PICK s \in Configured : scratch \in StartRound(c(s))
    BY DEF Init
  <2>2. /\ {"rounds", "used"} \subseteq DOMAIN s /\ s.used = {}
        /\ s.rounds \in Nat /\ s.rounds <= Cardinality(BankOf)
    <3>1. CASE game = "liar-liar"
      <4> DEFINE n == Rounds["liar-liar"]
      <4>1. s \in LiarLiar!Configured(n)
        BY <2>1, <3>1 DEF Configured
      <4>2. s = LiarLiar!Fresh(n) /\ n \in 1 .. 100 /\ ~(Cardinality(Clues) < n)
        BY <4>1, SameCounts DEF LiarLiar!Configured, LiarLiar!ValidConfig
      <4>3. Cardinality(Clues) \in Nat /\ BankOf = Clues
        BY <3>1, FS_CardinalityType, RoundGamesAssumption DEF BankOf
      <4> QED
        BY <4>2, <4>3 DEF LiarLiar!Fresh
    <3>2. CASE game = "zinger"
      <4> DEFINE n == Rounds["zinger"]
      <4>1. s \in Zinger!Configured(n)
        BY <2>1, <3>2 DEF Configured
      <4>2. s = Zinger!Fresh(n) /\ n \in 1 .. 100 /\ ~(Cardinality(Setups) < n)
        BY <4>1, SameCounts DEF Zinger!Configured, Zinger!ValidConfig
      <4>3. Cardinality(Setups) \in Nat /\ BankOf = Setups
        BY <3>2, FS_CardinalityType, RoundGamesAssumption DEF BankOf
      <4> QED
        BY <4>2, <4>3 DEF Zinger!Fresh
    <3>3. CASE game = "same-branch"
      <4> DEFINE n == Rounds["same-branch"]
      <4>1. s \in SameBranch!Configured(n)
        BY <2>1, <3>3 DEF Configured
      <4>2. s = SameBranch!Fresh(n) /\ n \in 1 .. 100 /\ ~(Cardinality(Spectrums) < n)
        BY <4>1, SameCounts DEF SameBranch!Configured, SameBranch!ValidConfig
      <4>3. Cardinality(Spectrums) \in Nat /\ BankOf = Spectrums
        BY <3>3, FS_CardinalityType, RoundGamesAssumption DEF BankOf
      <4> QED
        BY <4>2, <4>3 DEF SameBranch!Fresh
    <3>4. CASE game = "lone-leaf"
      <4> DEFINE n == Rounds["lone-leaf"]
      <4>1. s \in LoneLeaf!Configured(n)
        BY <2>1, <3>4 DEF Configured
      <4>2. s = LoneLeaf!Fresh(n) /\ n \in 1 .. 100 /\ ~(Cardinality(DOMAIN LeafBank) < n)
        BY <4>1, SameCounts DEF LoneLeaf!Configured, LoneLeaf!ValidConfig
      <4>3. Cardinality(DOMAIN LeafBank) \in Nat /\ BankOf = DOMAIN LeafBank
        BY <3>4, FS_CardinalityType, RoundGamesAssumption DEF BankOf
      <4> QED
        BY <4>2, <4>3 DEF LoneLeaf!Fresh
    <3> QED
      BY <3>1, <3>2, <3>3, <3>4 DEF CountedGames
  <2>3. c(s).scratch = s /\ round = 1
    BY DEF Init
  <2> HIDE DEF c
  <2>4. PICK x \in BankOf : scratch.used = {} \cup {x}
    BY <2>1, <2>2, <2>3, CountedDraw
  <2>5. scratch.used \in SUBSET BankOf /\ Cardinality(scratch.used) = 1
    BY <2>4, FS_Singleton
  <2> QED
    BY <2>1, <2>2, <2>3, <2>5, CountedDraw DEF CountedInv
<1>2. ModeInv /\ CountedInv /\ [Next]_vars => CountedInv'
  <2> SUFFICES ASSUME ModeInv, CountedInv, [Next]_vars, game' \in CountedGames PROVE CountedInv'
    BY DEF CountedInv
  <2>1. game' = game /\ game \in Banked /\ game \in CountedGames /\ BankOf' = BankOf
        /\ (NewRound \/ (round' = round /\ Kept(scratch, scratch')))
    BY StepsOfBanks, GameStays DEF CountedGames, Banked, BankOf
  <2>2. CASE NewRound
    <3> DEFINE c == [Ctx EXCEPT !.round = round + 1]
    <3>1. c.scratch = scratch /\ scratch' \in StartRound(c) /\ round' = round + 1
      BY <2>2 DEF NewRound, Ctx
    <3> HIDE DEF c
    <3>2. /\ DOMAIN scratch' = DOMAIN scratch /\ scratch'.rounds = scratch.rounds
          /\ \E x \in BankOf : x \notin scratch.used /\ scratch'.used = scratch.used \cup {x}
      BY <2>1, <3>1, CountedDraw DEF CountedInv
    <3>3. scratch'.used \in SUBSET BankOf /\ Cardinality(scratch'.used) = round + 1
      BY <2>1, <3>2, Spends, BanksAreFinite DEF CountedInv
    <3> QED
      BY <2>1, <3>1, <3>2, <3>3 DEF CountedInv
  <2>3. CASE round' = round /\ Kept(scratch, scratch')
    BY <2>1, <2>3 DEF CountedInv, Kept
  <2> QED
    BY <2>1, <2>2, <2>3
<1> QED
  BY <1>1, <1>2, ModeCorrect, PTL DEF Spec

\* Fewer are spent than rounds are to be played, so the next round has its entry.
LEMMA CountedLast ==
  ASSUME ModeInv, CountedInv, game \in CountedGames, round < LastRound
  PROVE  StartRound([Ctx EXCEPT !.round = round + 1]) # {}
<1>1. LastRound = scratch.rounds
  BY DEF LastRound, CountedGames
<1>2. \E x \in BankOf : x \notin scratch.used
  BY <1>1, LeftOver, BanksAreFinite, FS_CardinalityType DEF CountedInv, ModeInv
<1> DEFINE c == [Ctx EXCEPT !.round = round + 1]
<1>3. c.scratch = scratch
  BY DEF Ctx
<1> HIDE DEF c
<1>4. StartRound(c) # {}
  BY <1>2, <1>3, CountedDraws
<1> QED
  BY <1>4 DEF c

--------------------------------------------------------------------------------
(* Trivia: a plan of three types over a bank of three kinds *)

\* The questions asked of some kinds, and the rounds of a type among the first n of a plan.
Asked(s, kinds) == {q \in s.used : TriviaBank[q].kind \in kinds}
RoundsOf(plan, n, type) == {i \in 1 .. n : plan[i] = type}

\* What n rounds of the plan have taken from the bank.
Counts(s, n) ==
    /\ s.used \in SUBSET DOMAIN TriviaBank
    /\ Cardinality(Asked(s, {"true-false"})) = Cardinality(RoundsOf(s.plan, n, "true-false"))
    /\ Cardinality(Asked(s, Trivia!Recall)) =
          Cardinality(RoundsOf(s.plan, n, "multiple-choice")) + Cardinality(RoundsOf(s.plan, n, "open"))
    /\ \/ Cardinality(Asked(s, {"choices"})) = Cardinality(RoundsOf(s.plan, n, "multiple-choice"))
       \/ \A q \in DOMAIN TriviaBank : TriviaBank[q].kind = "open-only" => q \in s.used

\* The bank was counted by kinds when the game was configured, the rounds are planned by types.
\* An open round takes a recall question without choices while there is one: the choices are
\* spent as the multiple-choice rounds went, unless nothing without choices is left.
TriviaInv ==
    game = "trivia" =>
        /\ {"plan", "used"} \subseteq DOMAIN scratch
        /\ \E n \in TriviaCompositions :
              Trivia!ValidConfig(n) /\ Trivia!Supplied(TriviaBank, n) /\ scratch.plan \in Trivia!Plans(n)
        /\ round <= Len(scratch.plan)
        /\ Counts(scratch, round)

\* What a plan of a composition is made of.
LEMMA PlanCounts ==
  ASSUME NEW n, Trivia!ValidConfig(n), NEW plan \in Trivia!Plans(n)
  PROVE  LET total == n.mc + n.tf + n.open
         IN  /\ {n.mc, n.tf, n.open} \subseteq Nat /\ total \in Nat \ {0}
             /\ plan \in [1 .. total -> {"multiple-choice", "true-false", "open"}] /\ Len(plan) = total
             /\ Cardinality(RoundsOf(plan, total, "true-false")) = n.tf
             /\ Cardinality(RoundsOf(plan, total, "open")) = n.open
             /\ Cardinality(RoundsOf(plan, total, "multiple-choice")) = n.mc
<1> DEFINE total == n.mc + n.tf + n.open
           plays == RoundsOf(plan, total, "open")
           tf == RoundsOf(plan, total, "true-false")
           mc == RoundsOf(plan, total, "multiple-choice")
<1>1. n.mc \in Nat /\ n.tf \in Nat /\ n.open \in Nat /\ total \in Nat \ {0} /\ n.open <= total
  BY DEF Trivia!ValidConfig
<1>2. /\ plan \in [1 .. total -> {"multiple-choice", "true-false", "open"}]
      /\ plays = Trivia!OpenSlots(n)
      /\ Cardinality(tf) = n.tf
  BY SameCounts DEF Trivia!Plans, RoundsOf
<1>3. Len(plan) = total
  BY <1>1, <1>2
<1>4. Cardinality(plays) = n.open
  <2> DEFINE slot == [i \in 1 .. n.open |-> (i * total + n.open - 1) \div n.open]
  <2>1. slot \in Bijection(1 .. n.open, plays)
    <3>1. plays = {slot[i] : i \in 1 .. n.open}
      BY <1>2, Zenon DEF Trivia!OpenSlots
    <3>2. \A i, j \in 1 .. n.open : i < j => slot[i] # slot[j]
      BY <1>1, SlotsDiffer
    <3>3. \A i, j \in 1 .. n.open : slot[i] = slot[j] => i = j
      <4> HIDE DEF slot
      <4> QED
        BY <1>1, <3>2
    <3> QED
      BY <3>1, <3>3 DEF Bijection, Injection, Surjection, IsInjective
  <2>2. ExistsBijection(1 .. n.open, plays)
    BY <2>1 DEF ExistsBijection
  <2>3. IsFiniteSet(1 .. n.open) /\ Cardinality(1 .. n.open) = n.open
    <3>1. \A k \in Nat : IsFiniteSet(1 .. k) /\ Cardinality(1 .. k) = k
      BY FS_Interval
    <3> QED
      BY <1>1, <3>1
  <2> HIDE DEF plays
  <2> QED
    BY <2>2, <2>3, FS_Bijection
<1>5. Cardinality(mc) = n.mc
  <2>1. mc \cup tf \cup plays = 1 .. total /\ mc \cap tf = {} /\ (mc \cup tf) \cap plays = {}
    BY <1>2 DEF RoundsOf
  <2>2. IsFiniteSet(1 .. total) /\ Cardinality(1 .. total) = total
    BY <1>1, FS_Interval
  <2>3. IsFiniteSet(mc) /\ IsFiniteSet(tf) /\ IsFiniteSet(plays) /\ Cardinality(mc) \in Nat
    BY <2>2, FS_Subset, FS_CardinalityType DEF RoundsOf
  <2>4. Cardinality(mc \cup tf) = Cardinality(mc) + Cardinality(tf) /\ IsFiniteSet(mc \cup tf)
    BY <2>1, <2>3, DisjointUnion
  <2>5. Cardinality(1 .. total) = Cardinality(mc \cup tf) + Cardinality(plays)
    BY <2>1, <2>3, <2>4, DisjointUnion
  <2> QED
    BY <1>1, <1>2, <1>4, <2>2, <2>3, <2>4, <2>5
<1> QED
  BY <1>1, <1>2, <1>3, <1>4, <1>5

\* One more round of a type, or none.
LEMMA OneMoreRound ==
  ASSUME NEW plan, NEW n \in Nat, NEW type
  PROVE  /\ IsFiniteSet(RoundsOf(plan, n, type)) /\ Cardinality(RoundsOf(plan, n, type)) \in Nat
         /\ plan[n + 1] = type => Cardinality(RoundsOf(plan, n + 1, type)) = Cardinality(RoundsOf(plan, n, type)) + 1
         /\ plan[n + 1] # type => RoundsOf(plan, n + 1, type) = RoundsOf(plan, n, type)
<1>1. IsFiniteSet(RoundsOf(plan, n, type)) /\ Cardinality(RoundsOf(plan, n, type)) \in Nat
  <2>1. IsFiniteSet(1 .. n) /\ RoundsOf(plan, n, type) \in SUBSET (1 .. n)
    BY FS_Interval DEF RoundsOf
  <2> QED
    BY <2>1, FS_Subset, FS_CardinalityType
<1>2. ASSUME plan[n + 1] = type PROVE RoundsOf(plan, n + 1, type) = RoundsOf(plan, n, type) \cup {n + 1}
  BY <1>2 DEF RoundsOf
<1>3. n + 1 \notin RoundsOf(plan, n, type)
  BY DEF RoundsOf
<1>4. ASSUME plan[n + 1] # type PROVE RoundsOf(plan, n + 1, type) = RoundsOf(plan, n, type)
  BY <1>4 DEF RoundsOf
<1> QED
  BY <1>1, <1>2, <1>3, <1>4, FS_AddElement

\* The rounds up to the nth of a plan are at most all of them, and fewer while one is to come.
LEMMA RoundsToCome ==
  ASSUME NEW plan, NEW n \in Nat, NEW total \in Nat, n <= total, NEW type
  PROVE  /\ Cardinality(RoundsOf(plan, n, type)) <= Cardinality(RoundsOf(plan, total, type))
         /\ n < total /\ plan[n + 1] = type =>
               Cardinality(RoundsOf(plan, n, type)) < Cardinality(RoundsOf(plan, total, type))
<1>1. \A k \in 0 .. total : RoundsOf(plan, k, type) \in SUBSET RoundsOf(plan, total, type)
  BY DEF RoundsOf
<1>2. \A k \in Nat : IsFiniteSet(RoundsOf(plan, k, type)) /\ Cardinality(RoundsOf(plan, k, type)) \in Nat
  BY OneMoreRound
<1>3. \A k \in 0 .. total : Cardinality(RoundsOf(plan, k, type)) <= Cardinality(RoundsOf(plan, total, type))
  BY <1>1, <1>2, FS_Subset
<1>4. n < total /\ plan[n + 1] = type =>
          Cardinality(RoundsOf(plan, n, type)) < Cardinality(RoundsOf(plan, total, type))
  BY <1>2, <1>3, OneMoreRound
<1> QED
  BY <1>3, <1>4

\* One more question of some kinds, or none.
LEMMA OneMoreAsked ==
  ASSUME NEW s, NEW t, s.used \in SUBSET DOMAIN TriviaBank, NEW q \in DOMAIN TriviaBank, q \notin s.used,
         t.used = s.used \cup {q}, NEW kinds
  PROVE  /\ IsFiniteSet(Asked(s, kinds)) /\ Cardinality(Asked(s, kinds)) \in Nat
         /\ TriviaBank[q].kind \in kinds => Cardinality(Asked(t, kinds)) = Cardinality(Asked(s, kinds)) + 1
         /\ TriviaBank[q].kind \notin kinds => Asked(t, kinds) = Asked(s, kinds)
<1>1. Asked(s, kinds) \in SUBSET DOMAIN TriviaBank /\ IsFiniteSet(DOMAIN TriviaBank)
  BY RoundGamesAssumption DEF Asked
<1>2. IsFiniteSet(Asked(s, kinds)) /\ Cardinality(Asked(s, kinds)) \in Nat
  BY <1>1, FS_Subset, FS_CardinalityType
<1>3. ASSUME TriviaBank[q].kind \in kinds PROVE Asked(t, kinds) = Asked(s, kinds) \cup {q} /\ q \notin Asked(s, kinds)
  BY <1>3 DEF Asked
<1>4. ASSUME TriviaBank[q].kind \notin kinds PROVE Asked(t, kinds) = Asked(s, kinds)
  BY <1>4 DEF Asked
<1> QED
  BY <1>2, <1>3, <1>4, FS_AddElement

\* Less asked than the bank stocks: there is one left.
LEMMA StockLeft ==
  ASSUME NEW s, s.used \in SUBSET DOMAIN TriviaBank, NEW kinds,
         Cardinality(Asked(s, kinds)) < Trivia!Stock(TriviaBank, kinds)
  PROVE  \E q \in DOMAIN TriviaBank \ s.used : TriviaBank[q].kind \in kinds
<1> DEFINE stock == {q \in DOMAIN TriviaBank : TriviaBank[q].kind \in kinds}
<1>1. Trivia!Stock(TriviaBank, kinds) = Cardinality(stock)
  BY SameCounts DEF Trivia!Stock
<1>2. IsFiniteSet(stock)
  BY FS_Subset, RoundGamesAssumption
<1>3. Asked(s, kinds) \in SUBSET stock
  BY DEF Asked
<1>4. PICK q \in stock : q \notin Asked(s, kinds)
  <2> HIDE DEF stock
  <2> QED
    BY <1>1, <1>2, <1>3, LeftOver
<1> QED
  BY <1>4 DEF Asked

\* Each round still to come has a question of a kind its type accepts.
LEMMA AcceptedIsThere ==
  ASSUME ModeInv, TriviaInv, game = "trivia", round < Len(scratch.plan)
  PROVE  Trivia!Accepted(DOMAIN TriviaBank \ scratch.used, scratch.plan[round + 1]) # {}
<1> DEFINE mc(r) == Cardinality(RoundsOf(scratch.plan, r, "multiple-choice"))
           tf(r) == Cardinality(RoundsOf(scratch.plan, r, "true-false"))
           open(r) == Cardinality(RoundsOf(scratch.plan, r, "open"))
           total == Len(scratch.plan)
           left == DOMAIN TriviaBank \ scratch.used
           type == scratch.plan[round + 1]
<1>1. PICK n \in TriviaCompositions :
          Trivia!ValidConfig(n) /\ Trivia!Supplied(TriviaBank, n) /\ scratch.plan \in Trivia!Plans(n)
  BY DEF TriviaInv
<1>2. /\ n.mc \in Nat /\ n.tf \in Nat /\ n.open \in Nat /\ total \in Nat /\ total = n.mc + n.tf + n.open
      /\ scratch.plan \in [1 .. total -> {"multiple-choice", "true-false", "open"}]
      /\ mc(total) = n.mc /\ tf(total) = n.tf /\ open(total) = n.open
  BY <1>1, PlanCounts
<1>3. /\ Trivia!Stock(TriviaBank, {"true-false"}) >= n.tf
      /\ Trivia!Stock(TriviaBank, {"choices"}) >= n.mc
      /\ Trivia!Stock(TriviaBank, Trivia!Recall) >= n.mc + n.open
  BY <1>1 DEF Trivia!Supplied
<1>4. \A kinds : Trivia!Stock(TriviaBank, kinds) \in Nat
  <2> TAKE kinds
  <2>1. IsFiniteSet({q \in DOMAIN TriviaBank : TriviaBank[q].kind \in kinds})
    BY FS_Subset, RoundGamesAssumption
  <2> QED
    BY <2>1, SameCounts, FS_CardinalityType DEF Trivia!Stock
<1>5. round \in Nat /\ round < total /\ type \in {"multiple-choice", "true-false", "open"}
  BY <1>2, SMTT(30) DEF ModeInv
<1>6. /\ mc(round) \in Nat /\ tf(round) \in Nat /\ open(round) \in Nat
      /\ mc(round) <= n.mc /\ open(round) <= n.open
      /\ type = "true-false" => tf(round) < n.tf
      /\ type = "multiple-choice" => mc(round) < n.mc
      /\ type = "open" => open(round) < n.open
  <2>1. \A t : /\ Cardinality(RoundsOf(scratch.plan, round, t)) \in Nat
               /\ Cardinality(RoundsOf(scratch.plan, round, t)) <= Cardinality(RoundsOf(scratch.plan, total, t))
               /\ type = t => Cardinality(RoundsOf(scratch.plan, round, t)) < Cardinality(RoundsOf(scratch.plan, total, t))
    <3> HIDE DEF total
    <3> TAKE t
    <3>1. round \in Nat /\ total \in Nat /\ round <= total /\ round < total
      BY <1>2, <1>5
    <3>2. Cardinality(RoundsOf(scratch.plan, round, t)) \in Nat
      BY <3>1, OneMoreRound
    <3>3. /\ Cardinality(RoundsOf(scratch.plan, round, t)) <= Cardinality(RoundsOf(scratch.plan, total, t))
          /\ round < total /\ scratch.plan[round + 1] = t =>
                Cardinality(RoundsOf(scratch.plan, round, t)) < Cardinality(RoundsOf(scratch.plan, total, t))
      BY <3>1, RoundsToCome
    <3> QED
      BY <3>1, <3>2, <3>3
  <2> HIDE DEF total, type
  <2> QED
    BY <1>2, <2>1
<1>7. /\ scratch.used \in SUBSET DOMAIN TriviaBank
      /\ Cardinality(Asked(scratch, {"true-false"})) = tf(round)
      /\ Cardinality(Asked(scratch, Trivia!Recall)) = mc(round) + open(round)
      /\ \/ Cardinality(Asked(scratch, {"choices"})) = mc(round)
         \/ \A q \in left : TriviaBank[q].kind # "open-only"
  BY DEF TriviaInv, Counts
<1> HIDE DEF mc, tf, open
<1>8. CASE type = "true-false"
  <2>1. \E q \in left : TriviaBank[q].kind \in {"true-false"}
    <3>1. Cardinality(Asked(scratch, {"true-false"})) < Trivia!Stock(TriviaBank, {"true-false"})
      BY <1>2, <1>3, <1>4, <1>6, <1>7, <1>8
    <3> QED
      BY <1>7, <3>1, StockLeft
  <2> QED
    BY <1>8, <2>1 DEF Trivia!Accepted
<1>9. ASSUME type # "true-false" PROVE \E q \in left : TriviaBank[q].kind \in Trivia!Recall
  <2>1. mc(round) + open(round) < n.mc + n.open
    BY <1>2, <1>5, <1>6, <1>9
  <2>2. Cardinality(Asked(scratch, Trivia!Recall)) < Trivia!Stock(TriviaBank, Trivia!Recall)
    BY <1>2, <1>3, <1>4, <1>6, <1>7, <2>1
  <2> QED
    BY <1>7, <2>2, StockLeft
<1>10. CASE type = "open"
  <2>1. \E q \in left : TriviaBank[q].kind \in Trivia!Recall
    BY <1>9, <1>10
  <2> QED
    BY <1>10, <2>1 DEF Trivia!Accepted
<1>11. CASE type = "multiple-choice"
  <2>1. \E q \in left : TriviaBank[q].kind \in {"choices"}
    <3>1. CASE Cardinality(Asked(scratch, {"choices"})) = mc(round)
      <4>1. Cardinality(Asked(scratch, {"choices"})) < Trivia!Stock(TriviaBank, {"choices"})
        BY <1>2, <1>3, <1>4, <1>6, <1>11, <3>1
      <4> QED
        BY <1>7, <4>1, StockLeft
    <3>2. CASE \A q \in left : TriviaBank[q].kind # "open-only"
      BY <1>9, <1>11, <3>2 DEF Trivia!Recall
    <3> QED
      BY <1>7, <3>1, <3>2
  <2> QED
    BY <1>11, <2>1 DEF Trivia!Accepted
<1> QED
  BY <1>5, <1>8, <1>10, <1>11

\* The kinds a round of a type takes its question from.
LEMMA KindsAccepted ==
  ASSUME NEW free \in SUBSET DOMAIN TriviaBank, NEW type \in {"multiple-choice", "true-false", "open"},
         NEW q \in Trivia!Nearest(Trivia!Accepted(free, type))
  PROVE  /\ q \in free
         /\ type = "true-false" => TriviaBank[q].kind = "true-false"
         /\ type = "multiple-choice" => TriviaBank[q].kind = "choices"
         /\ type = "open" => \/ TriviaBank[q].kind = "open-only"
                             \/ /\ TriviaBank[q].kind = "choices"
                                /\ \A x \in free : TriviaBank[x].kind # "open-only"
<1>1. q \in Trivia!Accepted(free, type)
  BY DEF Trivia!Nearest
<1>2. CASE type = "true-false"
  BY <1>1, <1>2 DEF Trivia!Accepted
<1>3. CASE type = "multiple-choice"
  BY <1>1, <1>3 DEF Trivia!Accepted
<1>4. CASE type = "open"
  BY <1>1, <1>4 DEF Trivia!Accepted, Trivia!Recall
<1> QED
  BY <1>2, <1>3, <1>4

LEMMA TriviaDraw ==
  ASSUME game = "trivia", NEW c, NEW s \in StartRound(c), {"plan", "used"} \subseteq DOMAIN c.scratch
  PROVE  /\ DOMAIN s = DOMAIN c.scratch /\ s.plan = c.scratch.plan
         /\ \E q \in Trivia!Nearest(Trivia!Accepted(DOMAIN TriviaBank \ c.scratch.used, c.scratch.plan[c.round])) :
               s.used = c.scratch.used \cup {q}
<1> DEFINE near == Trivia!Nearest(Trivia!Accepted(DOMAIN TriviaBank \ c.scratch.used, c.scratch.plan[c.round]))
<1>1. s \in Trivia!StartRound(c)
  BY DEF StartRound
<1>2. PICK q \in near :
          s = [c.scratch EXCEPT !.question = q, !.used = @ \cup {q}, !.submitted = Trivia!Unset,
                                !.wrong = {}, !.disputers = {}, !.ballots = Trivia!NoBallots]
  <2> HIDE DEF near
  <2>1. Trivia!StartRound(c) =
          {[c.scratch EXCEPT !.question = q, !.used = @ \cup {q}, !.submitted = Trivia!Unset,
                             !.wrong = {}, !.disputers = {}, !.ballots = Trivia!NoBallots] : q \in near}
    BY Zenon DEF Trivia!StartRound, near
  <2> QED
    BY <1>1, <2>1
<1> QED
  BY <1>2

\* What the next question does to the counts, from any rounds n so far.
LEMMA TriviaCounts ==
  ASSUME NEW s, NEW t, NEW n \in Nat, s.used \in SUBSET DOMAIN TriviaBank, t.plan = s.plan,
         s.plan[n + 1] \in {"multiple-choice", "true-false", "open"},
         NEW q \in Trivia!Nearest(Trivia!Accepted(DOMAIN TriviaBank \ s.used, s.plan[n + 1])),
         t.used = s.used \cup {q}, Counts(s, n)
  PROVE  Counts(t, n + 1)
<1> DEFINE type == s.plan[n + 1]
           free == DOMAIN TriviaBank \ s.used
           kind == TriviaBank[q].kind
<1>1. /\ q \in DOMAIN TriviaBank /\ q \notin s.used
      /\ type = "true-false" => kind = "true-false"
      /\ type = "multiple-choice" => kind = "choices"
      /\ type = "open" => kind = "open-only" \/ (kind = "choices" /\ \A x \in free : TriviaBank[x].kind # "open-only")
  BY KindsAccepted
<1>2. \A kinds : /\ Cardinality(Asked(s, kinds)) \in Nat
                 /\ kind \in kinds => Cardinality(Asked(t, kinds)) = Cardinality(Asked(s, kinds)) + 1
                 /\ kind \notin kinds => Asked(t, kinds) = Asked(s, kinds)
  BY <1>1, OneMoreAsked
<1>3. \A ty : /\ Cardinality(RoundsOf(s.plan, n, ty)) \in Nat
              /\ type = ty => Cardinality(RoundsOf(s.plan, n + 1, ty)) = Cardinality(RoundsOf(s.plan, n, ty)) + 1
              /\ type # ty => RoundsOf(s.plan, n + 1, ty) = RoundsOf(s.plan, n, ty)
  BY OneMoreRound
<1> HIDE DEF type, kind
<1>4. t.used \in SUBSET DOMAIN TriviaBank
  BY <1>1
<1>5. CASE type = "true-false"
  BY <1>1, <1>2, <1>3, <1>4, <1>5 DEF Counts, Trivia!Recall
<1>6. CASE type = "multiple-choice"
  BY <1>1, <1>2, <1>3, <1>4, <1>6 DEF Counts, Trivia!Recall
<1>7. CASE type = "open"
  BY <1>1, <1>2, <1>3, <1>4, <1>7 DEF Counts, Trivia!Recall
<1> QED
  BY <1>5, <1>6, <1>7 DEF type

LEMMA TriviaCorrect == Spec => []TriviaInv
<1>1. Init => TriviaInv
  <2> SUFFICES ASSUME Init, game = "trivia" PROVE TriviaInv
    BY DEF TriviaInv
  <2> DEFINE c(s) == [phase |-> "collecting", round |-> 1, present |-> Players, scratch |-> s]
  <2>1. PICK s \in Configured : scratch \in StartRound(c(s))
    BY DEF Init
  <2>2. s \in Trivia!Configured
    BY <2>1 DEF Configured
  <2>3. PICK n \in TriviaCompositions : /\ Trivia!ValidConfig(n) /\ Trivia!Supplied(TriviaBank, n)
                                        /\ \E plan \in Trivia!Plans(n) : s = Trivia!Fresh(plan)
    BY <2>2 DEF Trivia!Configured
  <2>4. {"plan", "used"} \subseteq DOMAIN s /\ s.used = {} /\ s.plan \in Trivia!Plans(n)
    BY <2>3 DEF Trivia!Fresh
  <2>5. c(s).scratch = s /\ c(s).round = 1 /\ round = 1
    BY DEF Init
  <2> HIDE DEF c
  <2>6. /\ s.plan \in [1 .. Len(s.plan) -> {"multiple-choice", "true-false", "open"}]
        /\ Len(s.plan) \in Nat \ {0}
    BY <2>3, <2>4, PlanCounts
  <2>7. /\ DOMAIN scratch = DOMAIN s /\ scratch.plan = s.plan
        /\ \E q \in Trivia!Nearest(Trivia!Accepted(DOMAIN TriviaBank \ s.used, s.plan[1])) :
              scratch.used = s.used \cup {q}
    BY <2>1, <2>4, <2>5, TriviaDraw
  <2>8. Counts(s, 0)
    <3>1. \A ty : RoundsOf(s.plan, 0, ty) = {}
      BY DEF RoundsOf
    <3>2. \A kinds : Asked(s, kinds) = {}
      BY <2>4 DEF Asked
    <3> QED
      BY <2>4, <3>1, <3>2, FS_EmptySet DEF Counts
  <2>9. s.plan[0 + 1] \in {"multiple-choice", "true-false", "open"} /\ 0 + 1 = 1
    BY <2>6
  <2>10. Counts(scratch, 0 + 1)
    BY <2>4, <2>7, <2>8, <2>9, TriviaCounts
  <2> QED
    BY <2>3, <2>4, <2>5, <2>6, <2>7, <2>9, <2>10 DEF TriviaInv
<1>2. ModeInv /\ TriviaInv /\ [Next]_vars => TriviaInv'
  <2> SUFFICES ASSUME ModeInv, TriviaInv, [Next]_vars, game' = "trivia" PROVE TriviaInv'
    BY DEF TriviaInv
  <2>1. game = "trivia" /\ game \in Banked
    BY GameStays DEF Banked
  <2>2. NewRound \/ (round' = round /\ Kept(scratch, scratch'))
    BY <2>1, StepsOfBanks
  <2>3. CASE NewRound
    <3> DEFINE c == [Ctx EXCEPT !.round = round + 1]
    <3>1. /\ c.scratch = scratch /\ c.round = round + 1 /\ scratch' \in StartRound(c)
          /\ round' = round + 1 /\ ~(round >= Len(scratch.plan))
      BY <2>1, <2>3 DEF NewRound, Ctx, LastRound
    <3> HIDE DEF c
    <3>2. PICK n \in TriviaCompositions :
              Trivia!ValidConfig(n) /\ Trivia!Supplied(TriviaBank, n) /\ scratch.plan \in Trivia!Plans(n)
      BY <2>1 DEF TriviaInv
    <3>3. /\ scratch.plan \in [1 .. Len(scratch.plan) -> {"multiple-choice", "true-false", "open"}]
          /\ Len(scratch.plan) \in Nat \ {0}
      BY <3>2, PlanCounts
    <3>4. round \in Nat /\ round + 1 <= Len(scratch.plan)
      BY <3>1, <3>3 DEF ModeInv
    <3>5. /\ DOMAIN scratch' = DOMAIN scratch /\ scratch'.plan = scratch.plan
          /\ \E q \in Trivia!Nearest(Trivia!Accepted(DOMAIN TriviaBank \ scratch.used, scratch.plan[round + 1])) :
                scratch'.used = scratch.used \cup {q}
      BY <2>1, <3>1, TriviaDraw DEF TriviaInv
    <3>6. scratch.plan[round + 1] \in {"multiple-choice", "true-false", "open"}
      BY <3>3, <3>4
    <3>7. Counts(scratch, round) /\ scratch.used \in SUBSET DOMAIN TriviaBank
      BY <2>1 DEF TriviaInv, Counts
    <3>8. Counts(scratch', round + 1)
      BY <3>4, <3>5, <3>6, <3>7, TriviaCounts
    <3> QED
      BY <2>1, <3>1, <3>2, <3>4, <3>5, <3>8 DEF TriviaInv
  <2>4. CASE round' = round /\ Kept(scratch, scratch')
    <3>1. scratch'.plan = scratch.plan /\ scratch'.used = scratch.used /\ DOMAIN scratch' = DOMAIN scratch
      BY <2>1, <2>4 DEF Kept, TriviaInv
    <3> QED
      BY <2>1, <2>4, <3>1 DEF TriviaInv, Counts, Asked
  <2> QED
    BY <2>2, <2>3, <2>4
<1> QED
  BY <1>1, <1>2, ModeCorrect, PTL DEF Spec

LEMMA TriviaLasts ==
  ASSUME ModeInv, TriviaInv, game = "trivia", round < LastRound
  PROVE  StartRound([Ctx EXCEPT !.round = round + 1]) # {}
<1> DEFINE c == [Ctx EXCEPT !.round = round + 1]
           free == DOMAIN TriviaBank \ scratch.used
           accepted == Trivia!Accepted(free, scratch.plan[round + 1])
<1>1. accepted # {}
  BY AcceptedIsThere DEF LastRound
<1>2. accepted \in SUBSET DOMAIN TriviaBank
  BY DEF Trivia!Accepted
<1>3. Trivia!Nearest(accepted) # {}
  <2> HIDE DEF accepted
  <2> QED
    BY <1>1, <1>2, NearestIsThere
<1>4. c.scratch = scratch /\ c.round = round + 1
  BY DEF Ctx
<1> HIDE DEF c
<1>5. StartRound(c) # {}
  BY <1>3, <1>4 DEF StartRound, Trivia!StartRound
<1> QED
  BY <1>5 DEF c

--------------------------------------------------------------------------------
(* Sketchy: a draw round deals a hand, then each drawing is featured in turn *)

SeatCount == Len(Tables["sketchy"])

\* The kth draw round is over or on: at most k hands of seeds are spent.
DealtOut(s, n) ==
    /\ s.used \in SUBSET Seeds
    /\ \E k \in Nat \ {0} : /\ (k - 1) * (1 + SeatCount) < n /\ n <= k * (1 + SeatCount)
                            /\ Cardinality(s.used) <= k * SeatCount

\* The bank has a seed for each seat in each cycle there is to play.
SketchyInv ==
    game = "sketchy" =>
        /\ {"rounds", "used"} \subseteq DOMAIN scratch
        /\ \E cycles \in Nat : scratch.rounds = cycles * (1 + SeatCount) /\ cycles * SeatCount <= Cardinality(Seeds)
        /\ DealtOut(scratch, round)

\* There are no more players than seats, so a hand is no more seeds than that.
LEMMA Hand ==
  ASSUME "sketchy" \in Games
  PROVE  SeatCount \in Nat /\ IsFiniteSet(Sketchy!Players) /\ Cardinality(Sketchy!Players) <= SeatCount
<1> DEFINE seats == Tables["sketchy"]
<1>1. seats \in Seq(Range(seats)) /\ SeatCount \in Nat /\ DOMAIN seats = 1 .. SeatCount
  BY RoundGamesAssumption DEF SeatCount
<1>2. seats \in Surjection(1 .. SeatCount, Range(seats))
  BY <1>1 DEF Surjection, Range
<1>3. Sketchy!Players = Range(seats)
  BY DEF Sketchy!Players, Sketchy!Range, Range
<1>4. IsFiniteSet(1 .. SeatCount) /\ Cardinality(1 .. SeatCount) = SeatCount
  BY <1>1, FS_Interval
<1> HIDE DEF seats
<1> QED
  BY <1>1, <1>2, <1>3, <1>4, FS_Surjection

LEMMA HandTaken ==
  ASSUME "sketchy" \in Games, NEW T, NEW a \in [Sketchy!Players -> T]
  PROVE  /\ IsFiniteSet(Sketchy!Range(a)) /\ Cardinality(Sketchy!Range(a)) <= SeatCount
         /\ Cardinality(Sketchy!Range(a)) \in Nat /\ Sketchy!Range(a) \in SUBSET T
<1>1. a \in Surjection(Sketchy!Players, Sketchy!Range(a))
  BY DEF Surjection, Sketchy!Range
<1>2. IsFiniteSet(Sketchy!Range(a)) /\ Cardinality(Sketchy!Range(a)) <= Cardinality(Sketchy!Players)
  BY <1>1, Hand, FS_Surjection
<1>3. Cardinality(Sketchy!Range(a)) \in Nat /\ Cardinality(Sketchy!Players) \in Nat
  BY <1>2, Hand, FS_CardinalityType
<1>4. Sketchy!Range(a) \in SUBSET T
  BY DEF Sketchy!Range
<1> QED
  BY <1>2, <1>3, <1>4, Hand

\* A round either deals a hand of unspent seeds or takes none.
LEMMA SketchyDraw ==
  ASSUME game = "sketchy", NEW c, NEW s \in StartRound(c)
  PROVE  /\ DOMAIN s = DOMAIN c.scratch
         /\ {"rounds", "used"} \subseteq DOMAIN c.scratch =>
               /\ s.rounds = c.scratch.rounds
               /\ \/ /\ Sketchy!FeatureIndex(c.round) = 0
                     /\ \E a \in [Sketchy!Players -> Seeds \ c.scratch.used] :
                           s.used = c.scratch.used \cup Sketchy!Range(a)
                  \/ Sketchy!FeatureIndex(c.round) # 0 /\ s.used = c.scratch.used
<1> DEFINE cl == Sketchy!Cleared(c.scratch)
           dealt(a) == [cl EXCEPT !.stage = "draw", !.assignments = a, !.used = @ \cup Sketchy!Range(a), !.sketches = {}]
           hands == {b \in [Sketchy!Players -> Sketchy!Unused(Seeds, cl)] : Sketchy!IsInjective(b)}
           i == Sketchy!FeatureIndex(c.round)
<1>1. s \in Sketchy!StartRound(c)
  BY DEF StartRound
<1>2. /\ DOMAIN cl = DOMAIN c.scratch
      /\ {"rounds", "used"} \subseteq DOMAIN c.scratch => cl.rounds = c.scratch.rounds /\ cl.used = c.scratch.used
  BY DEF Sketchy!Cleared
<1>3. CASE i = 0
  <2>1. s \in {dealt(a) : a \in hands}
    BY <1>1, <1>3, Zenon DEF Sketchy!StartRound
  <2>2. PICK a \in hands : s = dealt(a)
    BY <2>1
  <2> HIDE DEF cl
  <2>3. /\ DOMAIN s = DOMAIN cl
        /\ {"rounds", "used"} \subseteq DOMAIN cl => s.rounds = cl.rounds /\ s.used = cl.used \cup Sketchy!Range(a)
    BY <2>2
  <2>4. {"used"} \subseteq DOMAIN cl => a \in [Sketchy!Players -> Seeds \ cl.used]
    BY <2>2 DEF Sketchy!Unused
  <2> QED
    BY <1>2, <1>3, <2>3, <2>4
<1>4. CASE i # 0
  <2>1. s = [cl EXCEPT !.stage = "sketch", !.featured = Tables["sketchy"][i]]
    BY <1>1, <1>4 DEF Sketchy!StartRound
  <2> HIDE DEF cl
  <2>2. DOMAIN s = DOMAIN cl /\ ({"rounds", "used"} \subseteq DOMAIN cl => s.rounds = cl.rounds /\ s.used = cl.used)
    BY <2>1
  <2> QED
    BY <1>2, <1>4, <2>2
<1> QED
  BY <1>3, <1>4

\* From a draw round to the next is as many rounds as there are seats and one.
LEMMA Cycle ==
  ASSUME NEW n \in Nat, NEW w \in Nat \ {0}, NEW k \in Nat \ {0}, (k - 1) * w < n, n <= k * w
  PROVE  /\ n % w = 0 => n = k * w
         /\ n % w # 0 => n + 1 <= k * w
<1>1. ASSUME n % w = 0 PROVE n = k * w
  <2>1. PICK j \in Nat : n = w * j
    BY <1>1, Whole
  <2>2. (k - 1) * w < j * w /\ j * w <= k * w
    BY <2>1
  <2>3. j <= k
    <3>1. CASE j >= k + 1
      <4>1. j * w >= (k + 1) * w
        BY <3>1
      <4> QED
        BY <2>2, <4>1
    <3> QED
      BY <3>1
  <2>4. j > k - 1
    <3>1. CASE j <= k - 1
      <4>1. j * w <= (k - 1) * w
        BY <3>1
      <4> QED
        BY <2>2, <4>1
    <3> QED
      BY <3>1
  <2> QED
    BY <2>1, <2>3, <2>4
<1>2. ASSUME n = k * w PROVE n % w = 0
  BY <1>2
<1> QED
  BY <1>1, <1>2

\* The hands dealt stay within the cycles begun, from the first round on.
LEMMA SketchyDeals ==
  ASSUME game = "sketchy", "sketchy" \in Games, NEW c, NEW n \in Nat, c.round = n + 1,
         {"rounds", "used"} \subseteq DOMAIN c.scratch, NEW s \in StartRound(c),
         DealtOut(c.scratch, n) \/ (n = 0 /\ c.scratch.used = {})
  PROVE  /\ DOMAIN s = DOMAIN c.scratch /\ s.rounds = c.scratch.rounds
         /\ DealtOut(s, n + 1)
<1> DEFINE w == 1 + SeatCount
           u == c.scratch.used
<1>1. SeatCount \in Nat /\ w \in Nat \ {0} /\ IsFiniteSet(Seeds)
  BY Hand, RoundGamesAssumption
<1>2. Sketchy!FeatureIndex(c.round) = n % w
  BY <1>1 DEF Sketchy!FeatureIndex, SeatCount
<1>3. /\ DOMAIN s = DOMAIN c.scratch /\ s.rounds = c.scratch.rounds
      /\ \/ n % w = 0 /\ \E a \in [Sketchy!Players -> Seeds \ u] : s.used = u \cup Sketchy!Range(a)
         \/ n % w # 0 /\ s.used = u
  BY <1>2, SketchyDraw
<1>4. \E k \in Nat : /\ u \in SUBSET Seeds /\ Cardinality(u) <= k * SeatCount
                     /\ n % w = 0 => n = k * w
                     /\ n % w # 0 => k > 0 /\ (k - 1) * w < n + 1 /\ n + 1 <= k * w
  <2>1. CASE DealtOut(c.scratch, n)
    <3>1. PICK k \in Nat \ {0} : (k - 1) * w < n /\ n <= k * w /\ Cardinality(u) <= k * SeatCount
      BY <2>1 DEF DealtOut
    <3>2. (n % w = 0 => n = k * w) /\ (n % w # 0 => n + 1 <= k * w)
      <4> HIDE DEF w
      <4> QED
        BY <1>1, <3>1, Cycle
    <3>3. u \in SUBSET Seeds
      BY <2>1 DEF DealtOut
    <3>4. (k - 1) * w \in Int
      BY <1>1
    <3> HIDE DEF w
    <3> QED
      BY <3>1, <3>2, <3>3, <3>4
  <2>2. CASE n = 0 /\ u = {}
    <3>1. Cardinality(u) <= 0 * SeatCount /\ u \in SUBSET Seeds
      BY <1>1, <2>2, FS_EmptySet
    <3>2. 0 % w = 0 /\ 0 = 0 * w
      BY <1>1
    <3> HIDE DEF w
    <3> QED
      BY <2>2, <3>1, <3>2
  <2> QED
    BY <2>1, <2>2
<1>5. PICK k \in Nat : /\ u \in SUBSET Seeds /\ Cardinality(u) <= k * SeatCount
                       /\ n % w = 0 => n = k * w
                       /\ n % w # 0 => k > 0 /\ (k - 1) * w < n + 1 /\ n + 1 <= k * w
  BY <1>4
<1>6. CASE n % w # 0
  BY <1>3, <1>5, <1>6 DEF DealtOut
<1>7. CASE n % w = 0
  <2>1. PICK a \in [Sketchy!Players -> Seeds \ u] : s.used = u \cup Sketchy!Range(a)
    BY <1>3, <1>7
  <2>2. /\ IsFiniteSet(Sketchy!Range(a)) /\ Cardinality(Sketchy!Range(a)) <= SeatCount
        /\ Cardinality(Sketchy!Range(a)) \in Nat /\ Sketchy!Range(a) \in SUBSET (Seeds \ u)
    BY HandTaken
  <2>3. IsFiniteSet(u) /\ Cardinality(u) \in Nat
    BY <1>1, <1>5, FS_Subset, FS_CardinalityType
  <2>4. Cardinality(s.used) = Cardinality(u) + Cardinality(Sketchy!Range(a)) /\ s.used \in SUBSET Seeds
    <3>1. u \cap Sketchy!Range(a) = {}
      BY <2>2
    <3> HIDE DEF u
    <3> QED
      BY <1>5, <2>1, <2>2, <2>3, <3>1, DisjointUnion
  <2>5. Cardinality(s.used) <= (k + 1) * SeatCount
    <3>1. (k + 1) * SeatCount = k * SeatCount + SeatCount /\ k * SeatCount \in Nat
      BY <1>1
    <3> QED
      BY <1>1, <1>5, <2>2, <2>3, <2>4, <3>1
  <2>6. ((k + 1) - 1) * w < n + 1 /\ n + 1 <= (k + 1) * w
    <3>1. (k + 1) * w = k * w + w /\ (k + 1) - 1 = k /\ n = k * w
      <4> HIDE DEF w
      <4>1. \A x \in Nat : (k + 1) * x = k * x + x
        OBVIOUS
      <4> QED
        BY <1>1, <1>5, <1>7, <4>1
    <3> HIDE DEF w
    <3> QED
      BY <1>1, <3>1
  <2>7. k + 1 \in Nat \ {0}
    OBVIOUS
  <2> HIDE DEF u
  <2> QED
    BY <1>3, <2>4, <2>5, <2>6, <2>7 DEF DealtOut
<1> QED
  BY <1>3, <1>6, <1>7

LEMMA SketchyCorrect == Spec => []SketchyInv
<1>1. Init => SketchyInv
  <2> SUFFICES ASSUME Init, game = "sketchy" PROVE SketchyInv
    BY DEF SketchyInv
  <2> DEFINE c(s) == [phase |-> "collecting", round |-> 1, present |-> Players, scratch |-> s]
             cycles == Rounds["sketchy"]
  <2>1. PICK s \in Configured : scratch \in StartRound(c(s))
    BY DEF Init
  <2>2. s \in Sketchy!Configured(cycles)
    BY <2>1 DEF Configured
  <2>3. cycles \in 1 .. 15 /\ ~(Cardinality(Seeds) < cycles * SeatCount) /\ s = Sketchy!Fresh(cycles * (1 + SeatCount))
    BY <2>2, SameCounts DEF Sketchy!Configured, Sketchy!ValidConfig, SeatCount
  <2>4. {"rounds", "used"} \subseteq DOMAIN s /\ s.used = {} /\ s.rounds = cycles * (1 + SeatCount)
    BY <2>3 DEF Sketchy!Fresh
  <2>5. "sketchy" \in Games /\ round = 1 /\ c(s).scratch = s /\ c(s).round = 0 + 1 /\ 0 \in Nat
    BY DEF Init
  <2> HIDE DEF c, cycles
  <2>6. DOMAIN scratch = DOMAIN s /\ scratch.rounds = s.rounds /\ DealtOut(scratch, 0 + 1)
    <3> DEFINE e == c(s)
    <3>1. /\ e.round = 0 + 1 /\ e.scratch = s /\ {"rounds", "used"} \subseteq DOMAIN e.scratch
          /\ scratch \in StartRound(e) /\ e.scratch.used = {}
      BY <2>1, <2>4, <2>5
    <3> HIDE DEF e
    <3>2. DOMAIN scratch = DOMAIN e.scratch /\ scratch.rounds = e.scratch.rounds /\ DealtOut(scratch, 0 + 1)
      BY <2>5, <3>1, SketchyDeals
    <3> QED
      BY <3>1, <3>2
  <2>7. Cardinality(Seeds) \in Nat /\ cycles * SeatCount \in Int /\ cycles \in Nat
    BY <2>3, <2>5, Hand, FS_CardinalityType, RoundGamesAssumption
  <2>8. cycles * SeatCount <= Cardinality(Seeds)
    BY <2>3, <2>7
  <2>9. 0 + 1 = 1
    OBVIOUS
  <2> QED
    BY <2>4, <2>5, <2>6, <2>7, <2>8, <2>9 DEF SketchyInv
<1>2. ModeInv /\ SketchyInv /\ [Next]_vars => SketchyInv'
  <2> SUFFICES ASSUME ModeInv, SketchyInv, [Next]_vars, game' = "sketchy" PROVE SketchyInv'
    BY DEF SketchyInv
  <2>1. game = "sketchy" /\ game \in Banked /\ "sketchy" \in Games
    BY GameStays DEF Banked, ModeInv
  <2>2. NewRound \/ (round' = round /\ Kept(scratch, scratch'))
    BY <2>1, StepsOfBanks
  <2>3. CASE NewRound
    <3> DEFINE c == [Ctx EXCEPT !.round = round + 1]
    <3>1. c.scratch = scratch /\ c.round = round + 1 /\ scratch' \in StartRound(c) /\ round' = round + 1
      BY <2>3 DEF NewRound, Ctx
    <3> HIDE DEF c
    <3>2. round \in Nat /\ {"rounds", "used"} \subseteq DOMAIN scratch /\ DealtOut(scratch, round)
      BY <2>1 DEF ModeInv, SketchyInv
    <3>3. DOMAIN scratch' = DOMAIN scratch /\ scratch'.rounds = scratch.rounds /\ DealtOut(scratch', round + 1)
      BY <2>1, <3>1, <3>2, SketchyDeals
    <3> QED
      BY <2>1, <3>1, <3>3 DEF SketchyInv
  <2>4. CASE round' = round /\ Kept(scratch, scratch')
    <3>1. scratch'.rounds = scratch.rounds /\ scratch'.used = scratch.used /\ DOMAIN scratch' = DOMAIN scratch
      BY <2>1, <2>4 DEF Kept, SketchyInv
    <3> QED
      BY <2>1, <2>4, <3>1 DEF SketchyInv, DealtOut
  <2> QED
    BY <2>2, <2>3, <2>4
<1> QED
  BY <1>1, <1>2, ModeCorrect, PTL DEF Spec

\* A draw round still to come begins a cycle whose seeds were counted.
LEMMA SketchyLasts ==
  ASSUME ModeInv, SketchyInv, game = "sketchy", round < LastRound
  PROVE  StartRound([Ctx EXCEPT !.round = round + 1]) # {}
<1> DEFINE c == [Ctx EXCEPT !.round = round + 1]
           w == 1 + SeatCount
           cl == Sketchy!Cleared(scratch)
           left == Seeds \ scratch.used
<1>1. c.scratch = scratch /\ c.round = round + 1
  BY DEF Ctx
<1>2. /\ "sketchy" \in Games /\ round \in Nat /\ LastRound = scratch.rounds
      /\ {"rounds", "used"} \subseteq DOMAIN scratch /\ DealtOut(scratch, round)
  BY DEF ModeInv, SketchyInv, LastRound
<1>3. /\ SeatCount \in Nat /\ w \in Nat \ {0} /\ IsFiniteSet(Seeds) /\ IsFiniteSet(Sketchy!Players)
      /\ Cardinality(Sketchy!Players) <= SeatCount /\ Cardinality(Sketchy!Players) \in Nat
  BY <1>2, Hand, FS_CardinalityType, RoundGamesAssumption
<1>4. Sketchy!FeatureIndex(c.round) = round % w
  BY <1>1, <1>2, <1>3 DEF Sketchy!FeatureIndex, SeatCount
<1>5. cl.used = scratch.used
  BY <1>2 DEF Sketchy!Cleared
<1>6. CASE round % w # 0
  BY <1>1, <1>4, <1>6 DEF StartRound, Sketchy!StartRound
<1>7. CASE round % w = 0
  <2>1. PICK cycles \in Nat : scratch.rounds = cycles * w /\ cycles * SeatCount <= Cardinality(Seeds)
    BY DEF SketchyInv
  <2>2. PICK k \in Nat \ {0} : /\ (k - 1) * w < round /\ round <= k * w /\ Cardinality(scratch.used) <= k * SeatCount
                               /\ scratch.used \in SUBSET Seeds
    BY <1>2 DEF DealtOut
  <2>3. round = k * w
    <3> HIDE DEF w
    <3> QED
      BY <1>2, <1>3, <1>7, <2>2, Cycle
  <2>4. k < cycles
    <3>1. CASE k >= cycles
      <4>1. k * w >= cycles * w
        BY <1>3, <3>1
      <4>2. k * w < cycles * w
        BY <1>2, <2>1, <2>3
      <4> HIDE DEF w
      <4> QED
        BY <1>3, <4>1, <4>2
    <3> QED
      BY <3>1
  <2>5. k * SeatCount + SeatCount <= cycles * SeatCount
    <3>1. (k + 1) * SeatCount <= cycles * SeatCount
      BY <1>3, <2>4
    <3> QED
      BY <1>3, <3>1
  <2>6. IsFiniteSet(left) /\ Cardinality(left) = Cardinality(Seeds) - Cardinality(scratch.used)
    <3>1. Seeds \cap scratch.used = scratch.used
      BY <2>2
    <3> QED
      BY <1>3, <3>1, FS_Difference
  <2>7. Cardinality(Sketchy!Players) <= Cardinality(left)
    <3>1. Cardinality(scratch.used) \in Nat /\ Cardinality(Seeds) \in Nat
      BY <1>3, <2>2, FS_Subset, FS_CardinalityType
    <3>2. k * SeatCount \in Nat /\ cycles * SeatCount \in Nat
      BY <1>3
    <3> HIDE DEF left
    <3> QED
      BY <1>3, <2>1, <2>2, <2>5, <2>6, <3>1, <3>2
  <2>8. PICK a \in [Sketchy!Players -> left] : IsInjective(a)
    <3> HIDE DEF left
    <3> QED
      BY <1>3, <2>6, <2>7, DealtOneEach
  <2>9. a \in {b \in [Sketchy!Players -> Sketchy!Unused(Seeds, cl)] : Sketchy!IsInjective(b)}
    BY <1>5, <2>8 DEF Sketchy!Unused, Sketchy!IsInjective, IsInjective
  <2>10. Sketchy!FeatureIndex(c.round) = 0
    BY <1>4, <1>7
  <2>11. Sketchy!StartRound(c) # {}
    <3> DEFINE hands == {b \in [Sketchy!Players -> Sketchy!Unused(Seeds, cl)] : Sketchy!IsInjective(b)}
               dealt(b) == [cl EXCEPT !.stage = "draw", !.assignments = b, !.used = @ \cup Sketchy!Range(b), !.sketches = {}]
    <3>1. c.scratch = scratch
      BY <1>1
    <3>2. Sketchy!StartRound(c) = {dealt(b) : b \in hands}
      BY <2>10, <3>1, Zenon DEF Sketchy!StartRound
    <3> HIDE DEF dealt, hands
    <3>3. a \in hands
      BY <2>9 DEF hands
    <3> QED
      BY <3>2, <3>3
  <2> QED
    BY <2>11 DEF StartRound
<1> QED
  BY <1>6, <1>7

--------------------------------------------------------------------------------
(* No game runs out of questions *)

\* A game that was configured never stops for want of a question, clue, setup, spectrum or
\* seed: whatever was drawn, asked, submitted or disputed so far, a round that is not the
\* last can be followed by another (startRound of each game). For every bank, table,
\* composition and number of rounds that validateConfig accepts.
THEOREM QuestionsLast == Spec => []BankLasts
<1>1. ModeInv /\ CountedInv /\ TriviaInv /\ SketchyInv => BankLasts
  <2> SUFFICES ASSUME ModeInv, CountedInv, TriviaInv, SketchyInv, round < LastRound
               PROVE  StartRound([Ctx EXCEPT !.round = round + 1]) # {}
    BY DEF BankLasts
  <2>1. CASE game \in CountedGames
    BY <2>1, CountedLast
  <2>2. CASE game = "trivia"
    BY <2>2, TriviaLasts
  <2>3. CASE game = "sketchy"
    BY <2>3, SketchyLasts
  <2>4. CASE game = "odd-bird"
    BY <2>4 DEF LastRound, ModeInv
  <2>5. CASE game = "stub"
    BY <2>5 DEF StartRound, StubGame!StartRound
  <2>6. CASE game = "decider"
    BY <2>6 DEF StartRound, DeciderGame!StartRound
  <2> QED
    BY <2>1, <2>2, <2>3, <2>4, <2>5, <2>6, RoundGamesAssumption DEF ModeInv, CountedGames
<1> QED
  BY <1>1, ModeCorrect, CountedCorrect, TriviaCorrect, SketchyCorrect, PTL

--------------------------------------------------------------------------------
(* The options of a guess tell their authors apart *)

\* Nobody's text is a text of the truth's or another player's.
Distinct(text, truths, players) ==
    /\ DOMAIN text = players
    /\ \A p, q \in players : p # q /\ text[p] = text[q] => text[p] = Nobody
    /\ \A p \in players : text[p] # Nobody => text[p] \notin truths

LEMMA NobodyWrote ==
  ASSUME NEW truths, NEW players
  PROVE  Distinct([p \in players |-> Nobody], truths, players)
  BY DEF Distinct

LEMMA OneWrites ==
  ASSUME NEW text, NEW truths, NEW players, Distinct(text, truths, players), NEW p \in players, NEW m,
         m \notin truths, ~ \E q \in players \ {p} : text[q] = m
  PROVE  Distinct([text EXCEPT ![p] = m], truths, players)
  BY DEF Distinct

\* What is shown is the truth and what was written; nothing is shown while the lies are written.
LiarLiarApart(s, ph) ==
    /\ {"submissions", "options", "guesses"} \subseteq DOMAIN s
    /\ Distinct(s.submissions, LiarLiar!Truths, LiarLiar!Players)
    /\ s.options \subseteq {LiarLiar!Truth} \cup {p \in LiarLiar!Players : s.submissions[p] # Nobody}
    /\ ph = "collecting" => s.options = {}

SketchyApart(s, ph) ==
    /\ {"decoys", "options", "guesses", "assignments", "featured", "stage", "sketches"} \subseteq DOMAIN s
    /\ s.stage \in {"draw", "sketch"}
    /\ Distinct(s.decoys, {Sketchy!TrueSeed(s)}, Sketchy!Players)
    /\ s.options \subseteq {Sketchy!Truth} \cup {p \in Sketchy!Players : s.decoys[p] # Nobody}
    /\ ph = "collecting" => s.options = {}

DeciderApart(s) ==
    /\ {"submitted", "guesses"} \subseteq DOMAIN s
    /\ Distinct(s.submitted, {DeciderGame!Truth}, DeciderGame!Players)

ApartIn(s, ph) ==
    /\ game = "liar-liar" => LiarLiarApart(s, ph)
    /\ game = "sketchy" => SketchyApart(s, ph)
    /\ game = "decider" => DeciderApart(s)

ApartGames == {"liar-liar", "sketchy", "decider"}
ApartInv == game \in ApartGames => ApartIn(scratch, phase)

\* What the handlers write into: there from the start.
ApartFields == CASE game = "liar-liar" -> {"submissions", "options", "guesses"}
            [] game = "sketchy" -> {"decoys", "options", "guesses", "assignments", "featured", "stage", "sketches"}
            [] game = "decider" -> {"submitted", "guesses"}

\* A round opens with nothing written.
LEMMA OpensApart ==
  ASSUME game \in ApartGames, NEW c, ApartFields \subseteq DOMAIN c.scratch, NEW s \in StartRound(c), NEW ph
  PROVE  ApartIn(s, ph)
<1>1. CASE game = "liar-liar"
  <2>1. \E x : s = [c.scratch EXCEPT !.used = @ \cup {x}, !.submissions = LiarLiar!Unset, !.options = {},
                                     !.guesses = LiarLiar!Unset]
    BY <1>1 DEF StartRound, LiarLiar!StartRound
  <2>2. LiarLiar!Unset = [p \in LiarLiar!Players |-> Nobody]
    BY DEF LiarLiar!Unset, LiarLiar!Nobody, Nobody, Trivia!Nobody
  <2>3. {"submissions", "options", "guesses"} \subseteq DOMAIN s /\ s.submissions = LiarLiar!Unset /\ s.options = {}
    BY <1>1, <2>1 DEF ApartFields
  <2> QED
    BY <1>1, <2>2, <2>3, NobodyWrote DEF ApartIn, LiarLiarApart
<1>2. CASE game = "sketchy"
  <2> DEFINE cl == Sketchy!Cleared(c.scratch)
             written == {"decoys", "options", "guesses", "assignments", "featured", "stage", "sketches"}
  <2>1. DOMAIN cl = DOMAIN c.scratch /\ written \subseteq DOMAIN cl /\ cl.decoys = Sketchy!Unset /\ cl.options = {}
    BY <1>2 DEF ApartFields, Sketchy!Cleared
  <2>2. Sketchy!Unset = [p \in Sketchy!Players |-> Nobody]
    BY DEF Sketchy!Unset, Sketchy!Nobody, Nobody, Trivia!Nobody
  <2>3. written \subseteq DOMAIN s /\ s.decoys = Sketchy!Unset /\ s.options = {} /\ s.stage \in {"draw", "sketch"}
    <3> DEFINE dealt(a) == [cl EXCEPT !.stage = "draw", !.assignments = a, !.used = @ \cup Sketchy!Range(a), !.sketches = {}]
               hands == {b \in [Sketchy!Players -> Sketchy!Unused(Seeds, cl)] : Sketchy!IsInjective(b)}
               i == Sketchy!FeatureIndex(c.round)
    <3>0. s \in Sketchy!StartRound(c)
      BY <1>2 DEF StartRound
    <3>1. CASE i = 0
      <4>1. s \in {dealt(a) : a \in hands}
        BY <3>0, <3>1, Zenon DEF Sketchy!StartRound
      <4>2. PICK a \in hands : s = dealt(a)
        BY <4>1
      <4> HIDE DEF cl
      <4> QED
        BY <2>1, <4>2
    <3>2. CASE i # 0
      <4>1. s = [cl EXCEPT !.stage = "sketch", !.featured = Tables["sketchy"][i]]
        BY <3>0, <3>2 DEF Sketchy!StartRound
      <4> HIDE DEF cl
      <4> QED
        BY <2>1, <4>1
    <3> QED
      BY <3>1, <3>2
  <2> QED
    BY <1>2, <2>2, <2>3, NobodyWrote DEF ApartIn, SketchyApart
<1>3. CASE game = "decider"
  <2>1. s = [c.scratch EXCEPT !.submitted = DeciderGame!Unset, !.guesses = DeciderGame!Unset]
    BY <1>3 DEF StartRound, DeciderGame!StartRound
  <2>2. DeciderGame!Unset = [p \in DeciderGame!Players |-> Nobody]
    BY DEF DeciderGame!Unset, DeciderGame!Nobody, Nobody, Trivia!Nobody
  <2>3. {"submitted", "guesses"} \subseteq DOMAIN s /\ s.submitted = DeciderGame!Unset
    BY <1>3, <2>1 DEF ApartFields
  <2> QED
    BY <1>3, <2>2, <2>3, NobodyWrote DEF ApartIn, DeciderApart
<1> QED
  BY <1>1, <1>2, <1>3 DEF ApartGames

\* A submission that is the truth, or somebody else's text, is refused.
LEMMA MovesApart ==
  ASSUME game \in ApartGames, NEW c, NEW ph, ph = "collecting", ApartIn(c.scratch, ph), NEW p \in Players, NEW m
  PROVE  ApartIn(CollectMove(c, p, m), ph)
<1> DEFINE t == CollectMove(c, p, m)
<1>1. CASE game = "liar-liar"
  <2>1. p \in LiarLiar!Players
    BY <1>1 DEF Players, LiarLiar!Players, LiarLiar!Range, Range
  <2>2. \/ t = c.scratch
        \/ /\ t = [c.scratch EXCEPT !.submissions[p] = m]
           /\ m \notin LiarLiar!Truths /\ ~ \E q \in LiarLiar!Players \ {p} : c.scratch.submissions[q] = m
    BY <1>1 DEF CollectMove, LiarLiar!CollectMove, LiarLiar!Refused, LiarLiar!Taken
  <2>3. LiarLiarApart(c.scratch, ph)
    BY <1>1 DEF ApartIn
  <2>4. CASE t = c.scratch
    BY <1>1, <2>3, <2>4 DEF ApartIn
  <2>5. CASE t # c.scratch
    <3>1. /\ t.submissions = [c.scratch.submissions EXCEPT ![p] = m] /\ t.options = c.scratch.options
          /\ DOMAIN t = DOMAIN c.scratch
      BY <2>2, <2>3, <2>5 DEF LiarLiarApart
    <3>2. Distinct(t.submissions, LiarLiar!Truths, LiarLiar!Players)
      BY <2>1, <2>2, <2>3, <2>5, <3>1, OneWrites DEF LiarLiarApart
    <3> HIDE DEF t
    <3>3. LiarLiarApart(t, ph)
      BY <2>3, <3>1, <3>2 DEF LiarLiarApart
    <3> QED
      BY <1>1, <3>3 DEF ApartIn, t
  <2> QED
    BY <2>4, <2>5
<1>2. CASE game = "sketchy"
  <2>1. p \in Sketchy!Players
    BY <1>2 DEF Players, Sketchy!Players, Sketchy!Range, Range
  <2>3. SketchyApart(c.scratch, ph)
    BY <1>2 DEF ApartIn
  <2>2. \/ t = c.scratch
        \/ t = [c.scratch EXCEPT !.sketches = @ \cup {p}]
        \/ /\ t = [c.scratch EXCEPT !.decoys[p] = m]
           /\ m # Sketchy!TrueSeed(c.scratch) /\ ~ \E q \in Sketchy!Players \ {p} : c.scratch.decoys[q] = m
    <3>1. t = Sketchy!CollectMove(c, p, m)
      BY <1>2 DEF CollectMove
    <3>2. CASE c.scratch.stage = "draw"
      BY <3>1, <3>2 DEF Sketchy!CollectMove
    <3>3. CASE c.scratch.stage = "sketch"
      BY <3>1, <3>3 DEF Sketchy!CollectMove, Sketchy!Refused, Sketchy!Taken
    <3> QED
      BY <2>3, <3>2, <3>3 DEF SketchyApart
  <2>4. \/ t = c.scratch
        \/ /\ DOMAIN t = DOMAIN c.scratch /\ t.options = c.scratch.options
           /\ t.assignments = c.scratch.assignments /\ t.featured = c.scratch.featured /\ t.stage = c.scratch.stage
           /\ \/ t.decoys = c.scratch.decoys
              \/ /\ t.decoys = [c.scratch.decoys EXCEPT ![p] = m]
                 /\ m # Sketchy!TrueSeed(c.scratch) /\ ~ \E q \in Sketchy!Players \ {p} : c.scratch.decoys[q] = m
    BY <2>2, <2>3 DEF SketchyApart
  <2> HIDE DEF t
  <2>5. CASE t = c.scratch
    BY <1>2, <2>3, <2>5 DEF ApartIn, t
  <2>6. CASE t # c.scratch
    <3>1. Sketchy!TrueSeed(t) = Sketchy!TrueSeed(c.scratch)
      BY <2>4, <2>6 DEF Sketchy!TrueSeed
    <3>2. Distinct(t.decoys, {Sketchy!TrueSeed(t)}, Sketchy!Players)
      BY <2>1, <2>3, <2>4, <2>6, <3>1, OneWrites DEF SketchyApart
    <3>3. SketchyApart(t, ph)
      BY <2>3, <2>4, <2>6, <3>2 DEF SketchyApart
    <3> QED
      BY <1>2, <3>3 DEF ApartIn, t
  <2> QED
    BY <2>5, <2>6
<1>3. CASE game = "decider"
  <2>1. p \in DeciderGame!Players
    BY <1>3 DEF Players, DeciderGame!Players, DeciderGame!Range, Range
  <2>2. \/ t = c.scratch
        \/ /\ t = [c.scratch EXCEPT !.submitted[p] = m]
           /\ m # DeciderGame!Truth /\ ~ \E q \in DeciderGame!Players \ {p} : c.scratch.submitted[q] = m
    BY <1>3 DEF CollectMove, DeciderGame!CollectMove, DeciderGame!Taken
  <2>3. DeciderApart(c.scratch)
    BY <1>3 DEF ApartIn
  <2>4. \/ t = c.scratch
        \/ /\ DOMAIN t = DOMAIN c.scratch /\ t.submitted = [c.scratch.submitted EXCEPT ![p] = m]
           /\ m # DeciderGame!Truth /\ ~ \E q \in DeciderGame!Players \ {p} : c.scratch.submitted[q] = m
    BY <2>2, <2>3 DEF DeciderApart
  <2> HIDE DEF t
  <2>5. CASE t = c.scratch
    BY <1>3, <2>3, <2>5 DEF ApartIn, t
  <2>6. CASE t # c.scratch
    <3>1. Distinct(t.submitted, {DeciderGame!Truth}, DeciderGame!Players)
      <4>1. Distinct([c.scratch.submitted EXCEPT ![p] = m], {DeciderGame!Truth}, DeciderGame!Players)
        BY <2>1, <2>3, <2>4, <2>6, OneWrites DEF DeciderApart
      <4> QED
        BY <2>4, <2>6, <4>1
    <3>2. DeciderApart(t)
      BY <2>3, <2>4, <2>6, <3>1 DEF DeciderApart
    <3> QED
      BY <1>3, <3>2 DEF ApartIn, t
  <2> QED
    BY <2>5, <2>6
<1> QED
  BY <1>1, <1>2, <1>3 DEF ApartGames

\* A reveal offers what was written, and changes none of it.
LEMMA RevealsApart ==
  ASSUME game \in ApartGames, NEW c, NEW ph, ApartIn(c.scratch, "collecting"), ph # "collecting", NEW r \in Reveal(c)
  PROVE  ApartIn(r.scratch, ph)
<1> DEFINE t == r.scratch
<1>1. CASE game = "liar-liar"
  <2>1. t = [c.scratch EXCEPT !.options = {LiarLiar!Truth} \cup LiarLiar!Having(c.scratch.submissions),
                              !.guesses = LiarLiar!Unset]
    BY <1>1 DEF Reveal, LiarLiar!Reveal, LiarLiar!Revealed
  <2>2. LiarLiarApart(c.scratch, "collecting")
    BY <1>1 DEF ApartIn
  <2>3. /\ DOMAIN t = DOMAIN c.scratch /\ t.submissions = c.scratch.submissions
        /\ t.options = {LiarLiar!Truth} \cup LiarLiar!Having(c.scratch.submissions)
    BY <2>1, <2>2 DEF LiarLiarApart
  <2> HIDE DEF t
  <2>4. LiarLiarApart(t, ph)
    BY <2>2, <2>3 DEF LiarLiarApart, LiarLiar!Having, LiarLiar!Nobody, Nobody, Trivia!Nobody
  <2> QED
    BY <1>1, <2>4 DEF ApartIn, t
<1>2. CASE game = "sketchy"
  <2>1. \/ t = c.scratch
        \/ t = [c.scratch EXCEPT !.options = {Sketchy!Truth} \cup Sketchy!Having(c.scratch.decoys),
                                 !.guesses = Sketchy!Unset]
    BY <1>2 DEF Reveal, Sketchy!Reveal, Sketchy!Revealed
  <2>2. SketchyApart(c.scratch, "collecting")
    BY <1>2 DEF ApartIn
  <2>3. /\ DOMAIN t = DOMAIN c.scratch /\ t.decoys = c.scratch.decoys /\ t.stage = c.scratch.stage
        /\ t.assignments = c.scratch.assignments /\ t.featured = c.scratch.featured
        /\ t.options \in {c.scratch.options, {Sketchy!Truth} \cup Sketchy!Having(c.scratch.decoys)}
    BY <2>1, <2>2 DEF SketchyApart
  <2> HIDE DEF t
  <2>4. Sketchy!TrueSeed(t) = Sketchy!TrueSeed(c.scratch)
    BY <2>3 DEF Sketchy!TrueSeed
  <2>5. SketchyApart(t, ph)
    BY <2>2, <2>3, <2>4 DEF SketchyApart, Sketchy!Having, Sketchy!Nobody, Nobody, Trivia!Nobody
  <2> QED
    BY <1>2, <2>5 DEF ApartIn, t
<1>3. CASE game = "decider"
  <2>1. t = c.scratch
    BY <1>3 DEF Reveal, DeciderGame!Reveal, DeciderGame!Revealed
  <2> QED
    BY <1>3, <2>1 DEF ApartIn
<1> QED
  BY <1>1, <1>2, <1>3 DEF ApartGames

\* A guess writes no text.
LEMMA VotesApart ==
  ASSUME game \in ApartGames, NEW c, NEW ph, ApartIn(c.scratch, ph), NEW p, NEW v
  PROVE  ApartIn(CollectVote(c, p, v), ph)
<1> DEFINE t == CollectVote(c, p, v)
<1>1. CASE game = "liar-liar"
  <2>1. t = c.scratch \/ t = [c.scratch EXCEPT !.guesses[p] = v]
    BY <1>1 DEF CollectVote, LiarLiar!CollectVote
  <2>2. LiarLiarApart(c.scratch, ph)
    BY <1>1 DEF ApartIn
  <2>3. DOMAIN t = DOMAIN c.scratch /\ t.submissions = c.scratch.submissions /\ t.options = c.scratch.options
    BY <2>1, <2>2 DEF LiarLiarApart
  <2> HIDE DEF t
  <2> QED
    BY <1>1, <2>2, <2>3 DEF ApartIn, LiarLiarApart, t
<1>2. CASE game = "sketchy"
  <2>1. t = c.scratch \/ t = [c.scratch EXCEPT !.guesses[p] = v]
    BY <1>2 DEF CollectVote, Sketchy!CollectVote
  <2>2. SketchyApart(c.scratch, ph)
    BY <1>2 DEF ApartIn
  <2>3. /\ DOMAIN t = DOMAIN c.scratch /\ t.decoys = c.scratch.decoys /\ t.options = c.scratch.options
        /\ t.assignments = c.scratch.assignments /\ t.featured = c.scratch.featured /\ t.stage = c.scratch.stage
    BY <2>1, <2>2 DEF SketchyApart
  <2> HIDE DEF t
  <2> QED
    BY <1>2, <2>2, <2>3 DEF ApartIn, SketchyApart, Sketchy!TrueSeed, t
<1>3. CASE game = "decider"
  <2>1. t = c.scratch \/ t = [c.scratch EXCEPT !.guesses[p] = v]
    BY <1>3 DEF CollectVote, DeciderGame!CollectVote
  <2>2. DeciderApart(c.scratch)
    BY <1>3 DEF ApartIn
  <2>3. DOMAIN t = DOMAIN c.scratch /\ t.submitted = c.scratch.submitted
    BY <2>1, <2>2 DEF DeciderApart
  <2> HIDE DEF t
  <2> QED
    BY <1>3, <2>2, <2>3 DEF ApartIn, DeciderApart, t
<1> QED
  BY <1>1, <1>2, <1>3 DEF ApartGames

LEMMA ApartCorrect == Spec => []ApartInv
<1>1. Init => ApartInv
  <2> SUFFICES ASSUME Init, game \in ApartGames PROVE ApartIn(scratch, phase)
    BY DEF ApartInv
  <2> DEFINE c(s) == [phase |-> "collecting", round |-> 1, present |-> Players, scratch |-> s]
  <2>1. PICK s \in Configured : scratch \in StartRound(c(s))
    BY DEF Init
  <2>2. ApartFields \subseteq DOMAIN s
    <3>1. CASE game = "liar-liar"
      <4>1. s \in LiarLiar!Configured(Rounds["liar-liar"])
        BY <2>1, <3>1 DEF Configured
      <4>2. s = LiarLiar!Fresh(Rounds["liar-liar"])
        BY <4>1 DEF LiarLiar!Configured
      <4> QED
        BY <3>1, <4>2 DEF ApartFields, LiarLiar!Fresh
    <3>2. CASE game = "sketchy"
      <4> DEFINE n == Rounds["sketchy"] * (1 + Len(Tables["sketchy"]))
      <4>1. s \in Sketchy!Configured(Rounds["sketchy"])
        BY <2>1, <3>2 DEF Configured
      <4>2. s = Sketchy!Fresh(n)
        BY <4>1 DEF Sketchy!Configured
      <4> HIDE DEF n
      <4> QED
        BY <3>2, <4>2 DEF ApartFields, Sketchy!Fresh
    <3>3. CASE game = "decider"
      <4>1. s \in DeciderGame!Configured(Rounds["decider"])
        BY <2>1, <3>3 DEF Configured
      <4>2. s = DeciderGame!Fresh(Rounds["decider"])
        BY <4>1 DEF DeciderGame!Configured
      <4> QED
        BY <3>3, <4>2 DEF ApartFields, DeciderGame!Fresh
    <3> QED
      BY <3>1, <3>2, <3>3 DEF ApartGames
  <2>3. c(s).scratch = s
    OBVIOUS
  <2> HIDE DEF c
  <2> QED
    BY <2>1, <2>2, <2>3, OpensApart
<1>2. ModeInv /\ ApartInv /\ [Next]_vars => ApartInv'
  <2> SUFFICES ASSUME ModeInv, ApartInv, [Next]_vars, game \in ApartGames, game' = game
               PROVE  ApartIn(scratch', phase')
    BY GameStays DEF ApartInv, ApartIn
  <2>0. ApartIn(scratch, phase) /\ Ctx.scratch = scratch
    BY DEF ApartInv, Ctx
  <2>1. ASSUME NEW p \in Players, SubmitMove(p) PROVE ApartIn(scratch', phase')
    BY <2>0, <2>1, MovesApart DEF SubmitMove
  <2>2. ASSUME NEW p \in Players, SubmitVote(p) PROVE ApartIn(scratch', phase')
    BY <2>0, <2>2, VotesApart DEF SubmitVote
  <2>3. ASSUME NEW p \in Players, Disconnect(p) \/ Join(p) PROVE ApartIn(scratch', phase')
    BY <2>0, <2>3 DEF Disconnect, Join
  <2>4. CASE AdvanceCollecting
    <3>1. PICK r \in Reveal(Ctx) : scratch' = r.scratch /\ phase' = IF r.guess THEN "guessing" ELSE "disputing"
      BY <2>4 DEF AdvanceCollecting
    <3>2. phase = "collecting" /\ phase' # "collecting"
      BY <2>4, <3>1 DEF AdvanceCollecting
    <3> QED
      BY <2>0, <3>1, <3>2, RevealsApart
  <2>5. ASSUME phase' # "collecting", scratch' = scratch PROVE ApartIn(scratch', phase')
    BY <2>0, <2>5 DEF ApartIn, LiarLiarApart, SketchyApart
  <2>6. CASE AdvanceDisputing
    BY <2>5, <2>6 DEF AdvanceDisputing
  <2>7. CASE AdvanceVoting
    BY <2>7 DEF AdvanceVoting, AdvanceScoring, ModeInv, ApartGames
  <2>8. CASE AdvanceGuessing
    <3>1. ResolveDecision(Ctx).scratch = scratch
      BY <2>0 DEF ApartGames, ResolveDecision, LiarLiar!ResolveDecision, LiarLiar!Resolved,
         Sketchy!ResolveDecision, Sketchy!Resolved, DeciderGame!ResolveDecision, DeciderGame!Resolved
    <3> QED
      BY <2>5, <2>8, <3>1 DEF AdvanceGuessing, AdvanceScoring
  <2>9. CASE AdvanceLeaderboard
    <3>1. CASE round >= LastRound
      BY <2>5, <2>9, <3>1 DEF AdvanceLeaderboard
    <3>2. CASE ~(round >= LastRound)
      <4> DEFINE c == [Ctx EXCEPT !.round = round + 1]
      <4>1. scratch' \in StartRound(c) /\ c.scratch = scratch
        BY <2>9, <3>2 DEF AdvanceLeaderboard, Ctx
      <4>2. ApartFields \subseteq DOMAIN scratch
        BY <2>0 DEF ApartFields, ApartGames, ApartIn, LiarLiarApart, SketchyApart, DeciderApart
      <4> HIDE DEF c
      <4> QED
        BY <4>1, <4>2, OpensApart
    <3> QED
      BY <3>1, <3>2
  <2>10. CASE UNCHANGED vars
    BY <2>0, <2>10 DEF vars
  <2> QED
    BY <2>1, <2>2, <2>3, <2>4, <2>6, <2>7, <2>8, <2>9, <2>10 DEF Next
<1> QED
  BY <1>1, <1>2, ModeCorrect, PTL DEF Spec

\* No two options of a guess read the same, in liar-liar, sketchy and the decider: a player
\* who picks one can be scored for it (collectMove refuses the truth and a taken text, and
\* nothing is written between a reveal and its guesses). For every table and every text.
THEOREM OptionsStayApart == Spec => []OptionsTellApart
<1>1. ApartInv => OptionsTellApart
  <2> SUFFICES ASSUME ApartInv PROVE OptionsTellApart
    OBVIOUS
  <2>1. CASE game = "liar-liar"
    <3>1. LiarLiarApart(scratch, phase)
      BY <2>1 DEF ApartInv, ApartIn, ApartGames
    <3>2. \A a, b \in scratch.options : a # b => LiarLiar!Text(scratch, a) # LiarLiar!Text(scratch, b)
      BY <3>1 DEF LiarLiarApart, Distinct, LiarLiar!Text, LiarLiar!Truths
    <3> QED
      BY <2>1, <3>2 DEF OptionsTellApart
  <2>2. CASE game = "sketchy"
    <3>1. SketchyApart(scratch, phase)
      BY <2>2 DEF ApartInv, ApartIn, ApartGames
    <3>2. \A a, b \in scratch.options : a # b => Sketchy!Text(scratch, a) # Sketchy!Text(scratch, b)
      BY <3>1 DEF SketchyApart, Distinct, Sketchy!Text
    <3> QED
      BY <2>2, <3>2 DEF OptionsTellApart
  <2>3. CASE game = "decider"
    <3>1. DeciderApart(scratch)
      BY <2>3 DEF ApartInv, ApartIn, ApartGames
    <3>2. \A a, b \in DeciderGame!Options(scratch) : a # b => DeciderGame!Text(scratch, a) # DeciderGame!Text(scratch, b)
      BY <3>1 DEF DeciderApart, Distinct, DeciderGame!Text, DeciderGame!Options, DeciderGame!Having,
         DeciderGame!Nobody, Nobody, Trivia!Nobody
    <3> QED
      BY <2>3, <3>2 DEF OptionsTellApart
  <2>4. CASE game \notin ApartGames
    BY <2>4 DEF OptionsTellApart, ApartGames
  <2> QED
    BY <2>1, <2>2, <2>3, <2>4 DEF ApartGames
<1> QED
  BY <1>1, ApartCorrect, PTL

--------------------------------------------------------------------------------
(* The device of one player: frames and what is painted of them *)

Dealers == {"odd-bird", "same-branch", "sketchy", "lone-leaf"}

\* The fields of a game's scratch, and those of them its prompt and secrets are made of.
Shape ==
    CASE game = "trivia"      -> {"plan", "used", "question", "submitted", "wrong", "disputers", "ballots"}
      [] game = "liar-liar"   -> {"rounds", "used", "submissions", "options", "guesses"}
      [] game = "zinger"      -> {"rounds", "used", "submissions", "authors", "votes"}
      [] game = "odd-bird"    -> {"roost", "oddBird", "perches", "flushCalled", "roostOptions", "accusations", "guess"}
      [] game = "same-branch" -> {"rounds", "used", "bud", "reader", "hunch", "guesses"}
      [] game = "sketchy"     -> {"rounds", "used", "stage", "assignments", "sketches", "featured", "decoys",
                                  "options", "guesses"}
      [] game = "lone-leaf"   -> {"rounds", "used", "seeker", "leaves", "survivors", "guess"}

Told ==
    CASE game = "trivia"      -> {"plan", "question"}
      [] game \in {"liar-liar", "zinger"} -> {"used"}
      [] game = "odd-bird"    -> {"roost", "oddBird", "perches"}
      [] game = "same-branch" -> {"used", "bud", "reader"}
      [] game = "sketchy"     -> {"stage", "assignments", "featured"}
      [] game = "lone-leaf"   -> {"used", "seeker"}

\* A frame of the answers closing, and one of the round's result.
Closing(f) ==
    CASE game = "liar-liar" -> "truth" \notin DOMAIN f
      [] game = "zinger"    -> "winner" \notin DOMAIN f
      [] game = "odd-bird"  -> "roost" \notin DOMAIN f
      [] game = "sketchy"   -> f.stage # "result"
      [] game = "lone-leaf" -> "seed" \notin DOMAIN f /\ f.survivors \cap {"seed", "token"} = {}
      [] OTHER              -> TRUE

Result(f) ==
    CASE game = "liar-liar" -> "truth" \in DOMAIN f
      [] game = "zinger"    -> "winner" \in DOMAIN f
      [] game = "odd-bird"  -> "roost" \in DOMAIN f
      [] game = "sketchy"   -> f.stage = "result"
      [] game = "lone-leaf" -> "seed" \in DOMAIN f
      [] OTHER              -> game = "trivia"

TableInv ==
    /\ game \in Registered /\ DOMAIN scratch = Shape
    /\ phase = "voting" => game = "trivia"
    /\ phase = "guessing" => game \notin {"trivia", "same-branch"}

RevealInv ==
    CASE phase = "collecting" -> reveal = None
      [] phase \in {"disputing", "voting", "guessing"} -> \E f : reveal = <<f>> /\ Closing(f)
      [] OTHER -> \E f : reveal = <<f>> /\ (Closing(f) \/ Result(f))

\* What a connected device holds: everything of the table it may, and the reveals
\* of the round, where one who came late has the last alone.
DeviceInv ==
    /\ DOMAIN device = DOMAIN Blank
    /\ me \in present =>
          /\ device.phase = phase
          /\ device.prompt = <<Prompt(Ctx)>>
          /\ device.private = Private(Ctx)
          /\ \/ device.reveals = reveal
             \/ /\ phase \in {"leaderboard", "complete"} /\ Result(reveal[1])
                /\ \E f : device.reveals = <<f, reveal[1]>> /\ Closing(f)

\* A scratch that tells the table and its devices the same.
SameTelling(s, t) ==
    /\ DOMAIN t = DOMAIN s
    /\ \A f \in Told \cap DOMAIN s : t[f] = s[f]
    /\ game = "sketchy" /\ s.stage # "draw" => t.sketches = s.sketches

LEMMA MoveTells ==
  ASSUME NEW c, NEW p, NEW m, game \in Registered, DOMAIN c.scratch = Shape
  PROVE  SameTelling(c.scratch, CollectMove(c, p, m))
<1>1. CASE game = "trivia"
  BY <1>1 DEF SameTelling, Told, Shape, CollectMove, Trivia!CollectMove
<1>2. CASE game = "liar-liar"
  BY <1>2 DEF SameTelling, Told, Shape, CollectMove, LiarLiar!CollectMove
<1>3. CASE game = "zinger"
  BY <1>3 DEF SameTelling, Told, Shape, CollectMove, Zinger!CollectMove
<1>4. CASE game = "odd-bird"
  BY <1>4 DEF SameTelling, Told, Shape, CollectMove, OddBird!CollectMove
<1>5. CASE game = "same-branch"
  BY <1>5 DEF SameTelling, Told, Shape, CollectMove, SameBranch!CollectMove
<1>6. CASE game = "sketchy"
  BY <1>6 DEF SameTelling, Told, Shape, CollectMove, Sketchy!CollectMove, Sketchy!Refused
<1>7. CASE game = "lone-leaf"
  BY <1>7 DEF SameTelling, Told, Shape, CollectMove, LoneLeaf!CollectMove
<1> QED
  BY <1>1, <1>2, <1>3, <1>4, <1>5, <1>6, <1>7 DEF Registered

LEMMA VoteTells ==
  ASSUME NEW c, NEW p, NEW v, game \in Registered, DOMAIN c.scratch = Shape
  PROVE  SameTelling(c.scratch, CollectVote(c, p, v))
<1>1. CASE game = "trivia"
  BY <1>1 DEF SameTelling, Told, Shape, CollectVote, Trivia!CollectVote
<1>2. CASE game = "liar-liar"
  BY <1>2 DEF SameTelling, Told, Shape, CollectVote, LiarLiar!CollectVote
<1>3. CASE game = "zinger"
  BY <1>3 DEF SameTelling, Told, Shape, CollectVote, Zinger!CollectVote
<1>4. CASE game = "odd-bird"
  BY <1>4 DEF SameTelling, Told, Shape, CollectVote, OddBird!CollectVote
<1>5. CASE game = "same-branch"
  BY <1>5 DEF SameTelling, Told, Shape, CollectVote
<1>6. CASE game = "sketchy"
  BY <1>6 DEF SameTelling, Told, Shape, CollectVote, Sketchy!CollectVote
<1>7. CASE game = "lone-leaf"
  BY <1>7 DEF SameTelling, Told, Shape, CollectVote, LoneLeaf!CollectVote
<1> QED
  BY <1>1, <1>2, <1>3, <1>4, <1>5, <1>6, <1>7 DEF Registered

LEMMA ScoringTells ==
  ASSUME NEW c, game \in Registered
  PROVE  /\ game = "trivia" => DisputeVote(c).scratch = c.scratch
         /\ game \notin {"trivia", "same-branch"} => ResolveDecision(c).scratch = c.scratch
  BY DEF Registered, DisputeVote, Trivia!DisputeVote, Trivia!Resolved, ResolveDecision,
         LiarLiar!ResolveDecision, LiarLiar!Resolved, Zinger!ResolveDecision, Zinger!Resolved,
         OddBird!ResolveDecision, OddBird!Resolved,
         Sketchy!ResolveDecision, Sketchy!Resolved, LoneLeaf!ResolveDecision, LoneLeaf!Resolved

LEMMA RevealTells ==
  ASSUME NEW c, NEW r \in Reveal(c), game \in Registered, DOMAIN c.scratch = Shape
  PROVE  SameTelling(c.scratch, r.scratch)
<1>1. CASE game = "trivia"
  <2>1. \E w : r.scratch = [c.scratch EXCEPT !.wrong = w]
    BY <1>1 DEF Reveal, Trivia!Reveal, Trivia!Revealed
  <2> QED
    BY <1>1, <2>1 DEF SameTelling, Told, Shape
<1>2. CASE game = "liar-liar"
  <2>1. r.scratch = [c.scratch EXCEPT !.options = {LiarLiar!Truth} \cup LiarLiar!Having(c.scratch.submissions),
                                      !.guesses = LiarLiar!Unset]
    BY <1>2 DEF Reveal, LiarLiar!Reveal, LiarLiar!Revealed
  <2> QED
    BY <1>2, <2>1 DEF SameTelling, Told, Shape
<1>3. CASE game = "zinger"
  <2> DEFINE shown(pair) == [c.scratch EXCEPT !.authors = pair, !.votes = Zinger!Unset]
  <2>1. \/ r \in {Zinger!Revealed(shown({}), Zinger!NoPoints, FALSE)}
        \/ r \in {Zinger!Revealed(shown(pair), Zinger!NoPoints, TRUE) :
                     pair \in {q \in SUBSET c.scratch.submissions : Zinger!Cardinality(q) = 2}}
    BY <1>3, Zenon DEF Reveal, Zinger!Reveal
  <2>2. \E pair : r.scratch = shown(pair)
    <3> HIDE DEF shown
    <3> QED
      BY <2>1 DEF Zinger!Revealed
  <2>3. \A pair : SameTelling(c.scratch, shown(pair))
    BY <1>3 DEF SameTelling, Told, Shape
  <2> QED
    BY <2>2, <2>3
<1>4. CASE game = "odd-bird"
  <2> DEFINE shown(options) == [c.scratch EXCEPT !.roostOptions = options, !.accusations = OddBird!Unset,
                                                 !.guess = OddBird!Nobody]
  <2>1. \E options : r = OddBird!Revealed(shown(options), OddBird!NoPoints, TRUE)
    BY <1>4 DEF Reveal, OddBird!Reveal
  <2>2. \A options : SameTelling(c.scratch, shown(options))
    BY <1>4 DEF SameTelling, Told, Shape
  <2> HIDE DEF shown
  <2> QED
    BY <2>1, <2>2 DEF OddBird!Revealed
<1>5. CASE game = "same-branch"
  BY <1>5 DEF SameTelling, Told, Shape, Reveal, SameBranch!Reveal, SameBranch!Revealed
<1>6. CASE game = "sketchy"
  <2>1. \/ r.scratch = c.scratch
        \/ r.scratch = [c.scratch EXCEPT !.options = {Sketchy!Truth} \cup Sketchy!Having(c.scratch.decoys),
                                         !.guesses = Sketchy!Unset]
    BY <1>6 DEF Reveal, Sketchy!Reveal, Sketchy!Revealed
  <2> QED
    BY <1>6, <2>1 DEF SameTelling, Told, Shape
<1>7. CASE game = "lone-leaf"
  <2>1. r.scratch = [c.scratch EXCEPT !.survivors = LoneLeaf!Survivors(c.scratch.leaves), !.guess = LoneLeaf!Nobody]
    BY <1>7 DEF Reveal, LoneLeaf!Reveal, LoneLeaf!Revealed
  <2> QED
    BY <1>7, <2>1 DEF SameTelling, Told, Shape
<1> QED
  BY <1>1, <1>2, <1>3, <1>4, <1>5, <1>6, <1>7 DEF Registered

\* A round opens on a scratch of the same fields.
LEMMA OpensShaped ==
  ASSUME NEW c, game \in Registered, DOMAIN c.scratch = Shape, NEW t \in StartRound(c)
  PROVE  DOMAIN t = Shape
<1>1. CASE game = "trivia"
  BY <1>1 DEF StartRound, Trivia!StartRound
<1>2. CASE game = "liar-liar"
  BY <1>2 DEF StartRound, LiarLiar!StartRound
<1>3. CASE game = "zinger"
  BY <1>3 DEF StartRound, Zinger!StartRound
<1>4. CASE game = "odd-bird"
  <2>1. t \in OddBird!StartRound(c)
    BY <1>4 DEF StartRound
  <2>2. \E roost, bird, deal : t = OddBird!Seated(c.scratch, roost, bird, deal)
    BY <2>1 DEF OddBird!StartRound
  <2> QED
    BY <2>2 DEF OddBird!Seated
<1>5. CASE game = "same-branch"
  <2> DEFINE hidden(spectrum, bud) ==
                 [c.scratch EXCEPT !.used = @ \cup {spectrum}, !.bud = bud, !.reader = SameBranch!ReaderFor(c.round),
                                   !.hunch = FALSE, !.guesses = [p \in SameBranch!Players |-> -1]]
  <2>1. \E spectrum, bud : t = hidden(spectrum, bud)
    <3>1. t \in UNION {{hidden(spectrum, bud) : bud \in Buds} :
                         spectrum \in SameBranch!Unused(Spectrums, c.scratch)}
      BY <1>5, Zenon DEF StartRound, SameBranch!StartRound
    <3> HIDE DEF hidden
    <3> QED
      BY <3>1
  <2>2. \A spectrum, bud : DOMAIN hidden(spectrum, bud) = DOMAIN c.scratch
    OBVIOUS
  <2> HIDE DEF hidden
  <2> QED
    BY <2>1, <2>2
<1>6. CASE game = "sketchy"
  BY <1>6 DEF StartRound, Sketchy!StartRound, Sketchy!Cleared
<1>7. CASE game = "lone-leaf"
  BY <1>7 DEF StartRound, LoneLeaf!StartRound
<1> QED
  BY <1>1, <1>2, <1>3, <1>4, <1>5, <1>6, <1>7 DEF Registered

LEMMA ConfiguredShaped ==
  ASSUME game \in Registered, NEW s \in Configured
  PROVE  DOMAIN s = Shape
  BY DEF Registered, Configured, Shape, Trivia!Configured, Trivia!Fresh, LiarLiar!Configured, LiarLiar!Fresh,
         Zinger!Configured, Zinger!Fresh, OddBird!Configured, OddBird!Fresh, SameBranch!Configured,
         SameBranch!Fresh, Sketchy!Configured, Sketchy!Fresh, LoneLeaf!Configured, LoneLeaf!Fresh

LEMMA SameTold ==
  ASSUME NEW c, NEW e, game \in Registered, DOMAIN c.scratch = Shape,
         SameTelling(c.scratch, e.scratch), e.round = c.round
  PROVE  Prompt(e) = Prompt(c) /\ Private(e) = Private(c)
<1>1. CASE game = "trivia"
  BY <1>1 DEF SameTelling, Told, Shape, Prompt, Private, Trivia!Prompt
<1>2. CASE game = "liar-liar"
  BY <1>2 DEF SameTelling, Told, Shape, Prompt, Private, LiarLiar!Prompt
<1>3. CASE game = "zinger"
  BY <1>3 DEF SameTelling, Told, Shape, Prompt, Private, Zinger!Prompt
<1>4. CASE game = "odd-bird"
  BY <1>4 DEF SameTelling, Told, Shape, Prompt, Private, OddBird!Prompt, OddBird!Private
<1>5. CASE game = "same-branch"
  BY <1>5 DEF SameTelling, Told, Shape, Prompt, Private, SameBranch!Prompt, SameBranch!Private
<1>6. CASE game = "sketchy"
  BY <1>6 DEF SameTelling, Told, Shape, Prompt, Private, Sketchy!Prompt, Sketchy!Private, Sketchy!Shown
<1>7. CASE game = "lone-leaf"
  BY <1>7 DEF SameTelling, Told, Shape, Prompt, Private, LoneLeaf!Prompt, LoneLeaf!Private
<1> QED
  BY <1>1, <1>2, <1>3, <1>4, <1>5, <1>6, <1>7 DEF Registered

\* What is painted comes from four fields of the snapshot.
SamePicture(d, e) == e.phase = d.phase /\ e.prompt = d.prompt /\ e.private = d.private /\ e.reveals = d.reveals

LEMMA SamePainted ==
  ASSUME NEW d, NEW e, game \in Registered, SamePicture(d, e)
  PROVE  Painted(e) = Painted(d)
<1>1. CASE game = "trivia"
  BY <1>1 DEF SamePicture, Painted, Trivia!Painted, Trivia!RoundReveal, Trivia!AnswerReveal, Trivia!DisputeReveal,
              Trivia!QuestionCard
<1>2. CASE game = "liar-liar"
  BY <1>2 DEF SamePicture, Painted, LiarLiar!Painted, LiarLiar!PickResult, LiarLiar!PickOptions
<1>3. CASE game = "zinger"
  BY <1>3 DEF SamePicture, Painted, Zinger!Painted, Zinger!PickResult, Zinger!PickFaceOff
<1>4. CASE game = "odd-bird"
  BY <1>4 DEF SamePicture, Painted, OddBird!Painted, OddBird!PickResult, OddBird!PickFlush
<1>5. CASE game = "same-branch"
  BY <1>5 DEF SamePicture, Painted, SameBranch!Painted, SameBranch!PickReveal
<1>6. CASE game = "sketchy"
  BY <1>6 DEF SamePicture, Painted, Sketchy!Painted, Sketchy!PickOptions, Sketchy!Recap, Sketchy!PickResult,
              Sketchy!PickGallery
<1>7. CASE game = "lone-leaf"
  BY <1>7 DEF SamePicture, Painted, LoneLeaf!Painted, LoneLeaf!PromptCard, LoneLeaf!PickSurvivors,
              LoneLeaf!ResultReveal, LoneLeaf!PickResult
<1> QED
  BY <1>1, <1>2, <1>3, <1>4, <1>5, <1>6, <1>7 DEF Registered

\* The last reveal of two, where it fits.
LEMMA LastFits ==
  ASSUME NEW S \in SUBSET {1, 2}, 2 \in S
  PROVE  (CHOOSE i \in S : \A j \in S : j <= i) = 2
<1>1. \A j \in S : j <= 2
  OBVIOUS
<1>2. \A i \in S : (\A j \in S : j <= i) => i = 2
  OBVIOUS
<1> QED
  BY <1>1, <1>2

\* After the round, one who saw the answers close and one who did not paint the same.
LEMMA ResultPainted ==
  ASSUME NEW d, NEW e, NEW f, NEW g, game \in Registered, e.phase = d.phase, d.phase \in {"leaderboard", "complete"},
         d.reveals = <<g, f>>, e.reveals = <<f>>, Result(f)
  PROVE  Painted(e) = Painted(d)
<1>1. CASE game = "trivia"
  BY <1>1 DEF Painted, Trivia!Painted
<1>2. CASE game = "same-branch"
  BY <1>2 DEF Result
<1>3. CASE game = "liar-liar"
  <2>1. LiarLiar!PickResult(d) = <<f>>
    <3> DEFINE fits == {i \in DOMAIN d.reveals : "truth" \in DOMAIN d.reveals[i]}
    <3>1. fits \subseteq {1, 2} /\ 2 \in fits
      BY <1>3 DEF Result
    <3>2. (CHOOSE i \in fits : \A j \in fits : j <= i) = 2
      <4> HIDE DEF fits
      <4> QED
        BY <3>1, LastFits
    <3> QED
      BY <3>1, <3>2 DEF LiarLiar!PickResult, LiarLiar!Latest
  <2>2. LiarLiar!PickResult(e) = <<f>>
    <3> DEFINE fits == {i \in DOMAIN e.reveals : "truth" \in DOMAIN e.reveals[i]}
    <3>1. fits = {1}
      BY <1>3 DEF Result
    <3> QED
      BY <3>1 DEF LiarLiar!PickResult, LiarLiar!Latest
  <2> QED
    BY <1>3, <2>1, <2>2 DEF Painted, LiarLiar!Painted
<1>4. CASE game = "zinger"
  <2>1. Zinger!PickResult(d) = <<f>>
    <3> DEFINE fits == {i \in DOMAIN d.reveals : "winner" \in DOMAIN d.reveals[i]}
    <3>1. fits \subseteq {1, 2} /\ 2 \in fits
      BY <1>4 DEF Result
    <3>2. (CHOOSE i \in fits : \A j \in fits : j <= i) = 2
      <4> HIDE DEF fits
      <4> QED
        BY <3>1, LastFits
    <3> QED
      BY <3>1, <3>2 DEF Zinger!PickResult, Zinger!Latest
  <2>2. Zinger!PickResult(e) = <<f>>
    <3> DEFINE fits == {i \in DOMAIN e.reveals : "winner" \in DOMAIN e.reveals[i]}
    <3>1. fits = {1}
      BY <1>4 DEF Result
    <3> QED
      BY <3>1 DEF Zinger!PickResult, Zinger!Latest
  <2> QED
    BY <1>4, <2>1, <2>2 DEF Painted, Zinger!Painted
<1>5. CASE game = "odd-bird"
  <2>1. OddBird!PickResult(d) = <<f>>
    <3> DEFINE fits == {i \in DOMAIN d.reveals : "roost" \in DOMAIN d.reveals[i]}
    <3>1. fits \subseteq {1, 2} /\ 2 \in fits
      BY <1>5 DEF Result
    <3>2. (CHOOSE i \in fits : \A j \in fits : j <= i) = 2
      <4> HIDE DEF fits
      <4> QED
        BY <3>1, LastFits
    <3> QED
      BY <3>1, <3>2 DEF OddBird!PickResult, OddBird!Latest
  <2>2. OddBird!PickResult(e) = <<f>>
    <3> DEFINE fits == {i \in DOMAIN e.reveals : "roost" \in DOMAIN e.reveals[i]}
    <3>1. fits = {1}
      BY <1>5 DEF Result
    <3> QED
      BY <3>1 DEF OddBird!PickResult, OddBird!Latest
  <2> QED
    BY <1>5, <2>1, <2>2 DEF Painted, OddBird!Painted
<1>6. CASE game = "sketchy"
  <2>1. Sketchy!PickResult(d) = <<f>>
    <3> DEFINE fits == {i \in DOMAIN d.reveals : d.reveals[i].stage = "result"}
    <3>1. fits \subseteq {1, 2} /\ 2 \in fits
      BY <1>6 DEF Result
    <3>2. (CHOOSE i \in fits : \A j \in fits : j <= i) = 2
      <4> HIDE DEF fits
      <4> QED
        BY <3>1, LastFits
    <3> QED
      BY <3>1, <3>2 DEF Sketchy!PickResult, Sketchy!Latest
  <2>2. Sketchy!PickResult(e) = <<f>>
    <3> DEFINE fits == {i \in DOMAIN e.reveals : e.reveals[i].stage = "result"}
    <3>1. fits = {1}
      BY <1>6 DEF Result
    <3> QED
      BY <3>1 DEF Sketchy!PickResult, Sketchy!Latest
  <2>3. Sketchy!Recap(e) = Sketchy!Recap(d)
    BY <2>1, <2>2 DEF Sketchy!Recap, Sketchy!None
  <2> QED
    BY <1>6, <2>3 DEF Painted, Sketchy!Painted
<1>7. CASE game = "lone-leaf"
  <2>1. LoneLeaf!PickResult(d) = <<f>>
    <3> DEFINE fits == {i \in DOMAIN d.reveals : "seed" \in DOMAIN d.reveals[i]}
    <3>1. fits \subseteq {1, 2} /\ 2 \in fits
      BY <1>7 DEF Result
    <3>2. (CHOOSE i \in fits : \A j \in fits : j <= i) = 2
      <4> HIDE DEF fits
      <4> QED
        BY <3>1, LastFits
    <3> QED
      BY <3>1, <3>2 DEF LoneLeaf!PickResult, LoneLeaf!Latest
  <2>2. LoneLeaf!PickResult(e) = <<f>>
    <3> DEFINE fits == {i \in DOMAIN e.reveals : "seed" \in DOMAIN e.reveals[i]}
    <3>1. fits = {1}
      BY <1>7 DEF Result
    <3> QED
      BY <3>1 DEF LoneLeaf!PickResult, LoneLeaf!Latest
  <2> QED
    BY <1>7, <2>1, <2>2 DEF Painted, LoneLeaf!Painted, LoneLeaf!ResultReveal
<1> QED
  BY <1>1, <1>2, <1>3, <1>4, <1>5, <1>6, <1>7 DEF Registered

LEMMA ClosingFrame ==
  ASSUME NEW c, NEW r \in Reveal(c), NEW e, e.scratch = r.scratch, game \in Registered, DOMAIN c.scratch = Shape
  PROVE  Closing(RevealFrame(e))
<1>1. CASE game = "liar-liar"
  BY <1>1 DEF Closing, RevealFrame, LiarLiar!RevealFrame
<1>2. CASE game = "zinger"
  BY <1>2 DEF Closing, RevealFrame, Zinger!RevealFrame
<1>3. CASE game = "odd-bird"
  BY <1>3 DEF Closing, RevealFrame, OddBird!RevealFrame
<1>4. CASE game = "sketchy"
  BY <1>4 DEF Closing, RevealFrame, Sketchy!RevealFrame
<1>5. CASE game = "lone-leaf"
  <2>1. r.scratch = [c.scratch EXCEPT !.survivors = LoneLeaf!Survivors(c.scratch.leaves), !.guess = LoneLeaf!Nobody]
    BY <1>5 DEF Reveal, LoneLeaf!Reveal, LoneLeaf!Revealed
  <2>2. e.scratch.survivors = LoneLeaf!Survivors(c.scratch.leaves) /\ e.scratch.leaves = c.scratch.leaves
    BY <1>5, <2>1 DEF Shape
  <2>3. RevealFrame(e) = [survivors |-> {c.scratch.leaves[p] : p \in LoneLeaf!Survivors(c.scratch.leaves)}]
    BY <1>5, <2>2 DEF RevealFrame, LoneLeaf!RevealFrame
  <2>4. {c.scratch.leaves[p] : p \in LoneLeaf!Survivors(c.scratch.leaves)} \cap {"seed", "token"} = {}
    BY DEF LoneLeaf!Survivors
  <2> QED
    BY <1>5, <2>3, <2>4 DEF Closing
<1> QED
  BY <1>1, <1>2, <1>3, <1>4, <1>5 DEF Closing, Registered

LEMMA ResultOf ==
  ASSUME NEW c, game \in Registered, game # "same-branch"
  PROVE  Result(ResultFrame(c))
  BY DEF Registered, Result, ResultFrame, Trivia!ResultFrame, LiarLiar!ResultFrame, Zinger!ResultFrame,
         OddBird!ResultFrame, Sketchy!ResultFrame, LoneLeaf!ResultFrame

ScreenInv == TableInv /\ RevealInv /\ DeviceInv

\* The frames a device folds.
LEMMA Folded ==
  ASSUME NEW d, NEW c, game \in Registered, DOMAIN d = DOMAIN Blank
  PROVE  /\ DOMAIN Seen(d, c) = DOMAIN Blank
         /\ Seen(d, c).phase = c.phase /\ Seen(d, c).prompt = d.prompt
         /\ Seen(d, c).private = d.private /\ Seen(d, c).reveals = d.reveals
  BY DEF Seen, OnState, Blank

LEMMA DealtTo ==
  ASSUME NEW d, NEW c, game \in Registered, DOMAIN d = DOMAIN Blank
  PROVE  /\ DOMAIN Dealt(d, c) = DOMAIN Blank
         /\ Dealt(d, c).phase = d.phase /\ Dealt(d, c).prompt = d.prompt /\ Dealt(d, c).reveals = d.reveals
         /\ d.private \in {None, Private(c)} => Dealt(d, c).private = Private(c)
  BY DEF Dealt, OnPrivate, Blank

LEMMA OpenedOn ==
  ASSUME NEW d, NEW c, game \in Registered, DOMAIN d = DOMAIN Blank
  PROVE  /\ DOMAIN Opened(d, c) = DOMAIN Blank
         /\ Opened(d, c).phase = c.phase /\ Opened(d, c).prompt = <<Prompt(c)>>
         /\ Opened(d, c).private = Private(c) /\ Opened(d, c).reveals = <<>>
<1> DEFINE p == OnPrompt(d, c, Prompt(c))
<1>1. DOMAIN p = DOMAIN Blank /\ p.prompt = <<Prompt(c)>> /\ p.private = None /\ p.reveals = <<>>
  BY DEF OnPrompt, Blank
<1> HIDE DEF p
<1>2. DOMAIN Seen(p, c) = DOMAIN Blank /\ Seen(p, c).phase = c.phase /\ Seen(p, c).prompt = <<Prompt(c)>>
      /\ Seen(p, c).private = None /\ Seen(p, c).reveals = <<>>
  BY <1>1, Folded
<1>3. Opened(d, c) = Dealt(Seen(p, c), c)
  BY DEF Opened, p
<1> QED
  BY <1>2, <1>3, DealtTo

LEMMA CaughtUp ==
  ASSUME NEW d, NEW c, game \in Registered, DOMAIN d = DOMAIN Blank, reveal = None \/ \E f : reveal = <<f>>
  PROVE  /\ DOMAIN CatchUp(d, c) = DOMAIN Blank
         /\ CatchUp(d, c).phase = c.phase /\ CatchUp(d, c).prompt = <<Prompt(c)>>
         /\ CatchUp(d, c).private = Private(c) /\ CatchUp(d, c).reveals = reveal
<1> DEFINE p == OnPrompt(d, c, Prompt(c))
           q == Replayed(p)
<1>1. DOMAIN p = DOMAIN Blank /\ p.prompt = <<Prompt(c)>> /\ p.private = None /\ p.reveals = <<>>
  BY DEF OnPrompt, Blank
<1>2. DOMAIN q = DOMAIN Blank /\ q.prompt = <<Prompt(c)>> /\ q.private = None /\ q.reveals = reveal
  <2> HIDE DEF p
  <2> QED
    BY <1>1 DEF Replayed, OnReveal, None, Blank
<1> HIDE DEF p, q
<1>3. DOMAIN Seen(q, c) = DOMAIN Blank /\ Seen(q, c).phase = c.phase /\ Seen(q, c).prompt = <<Prompt(c)>>
      /\ Seen(q, c).private = None /\ Seen(q, c).reveals = reveal
  BY <1>2, Folded
<1>4. CatchUp(d, c) = Dealt(Seen(q, c), c)
  BY DEF CatchUp, p, q
<1> QED
  BY <1>3, <1>4, DealtTo

\* The game and the owner of the device stay what they are.
LEMMA NextFrames ==
  ASSUME game' = game, me' = me
  PROVE  /\ Shape' = Shape
         /\ Prompt(Ctx)' = Prompt(Ctx')
         /\ Private(Ctx)' = Private(Ctx')
<1>1. Shape' = Shape
  BY DEF Shape
<1>2. Prompt(Ctx)' = Prompt(Ctx')
  BY DEF Prompt
<1>3. Private(Ctx)' = Private(Ctx')
  BY DEF Private
<1> QED
  BY <1>1, <1>2, <1>3

LEMMA NextReveals ==
  ASSUME game' = game, NEW f
  PROVE  (Closing(f)' <=> Closing(f)) /\ (Result(f)' <=> Result(f))
<1>1. Closing(f)' <=> Closing(f)
  BY DEF Closing
<1>2. Result(f)' <=> Result(f)
  BY DEF Result
<1> QED
  BY <1>1, <1>2

\* A device that was just told everything.
UpToDate(d, c, shown) ==
    d.phase = c.phase /\ d.prompt = <<Prompt(c)>> /\ d.private = Private(c) /\ d.reveals = shown

\* Within a phase: the device shows the same, or was caught up.
LEMMA Within ==
  ASSUME ScreenInv, game' = game, me' = me, phase' = phase, round' = round, reveal' = reveal,
         SameTelling(scratch, scratch'), DOMAIN device' = DOMAIN Blank,
         me \in present' => \/ me \in present /\ SamePicture(device, device')
                            \/ UpToDate(device', Ctx', reveal)
  PROVE  ScreenInv'
<1>1. DOMAIN Ctx.scratch = Shape /\ SameTelling(Ctx.scratch, Ctx'.scratch) /\ Ctx'.round = Ctx.round
      /\ Ctx'.phase = phase /\ game \in Registered
  BY DEF ScreenInv, TableInv, Ctx
<1>2. Prompt(Ctx') = Prompt(Ctx) /\ Private(Ctx') = Private(Ctx)
  BY <1>1, SameTold
<1>3. TableInv'
  BY NextFrames DEF ScreenInv, TableInv, SameTelling
<1>4. RevealInv'
  BY NextReveals DEF ScreenInv, RevealInv
<1>5. ASSUME me \in present', me \in present, SamePicture(device, device')
      PROVE  /\ device'.phase = phase
             /\ device'.prompt = <<Prompt(Ctx)>>
             /\ device'.private = Private(Ctx)
             /\ \/ device'.reveals = reveal
                \/ /\ phase \in {"leaderboard", "complete"} /\ Result(reveal[1])
                   /\ \E f : device'.reveals = <<f, reveal[1]>> /\ Closing(f)
  BY <1>5 DEF ScreenInv, DeviceInv, SamePicture
<1>6. ASSUME me \in present', UpToDate(device', Ctx', reveal)
      PROVE  /\ device'.phase = phase
             /\ device'.prompt = <<Prompt(Ctx)>>
             /\ device'.private = Private(Ctx)
             /\ device'.reveals = reveal
  BY <1>1, <1>2, <1>6 DEF UpToDate
<1>7. DeviceInv'
  BY <1>2, <1>5, <1>6, NextFrames, NextReveals DEF DeviceInv
<1> QED
  BY <1>3, <1>4, <1>7 DEF ScreenInv

LEMMA TapShows ==
  ASSUME NEW d, NEW m, game \in Registered, DOMAIN d = DOMAIN Blank
  PROVE  DOMAIN Tapped(d, m) = DOMAIN Blank /\ SamePicture(d, Tapped(d, m))
  BY DEF Registered, SamePicture, Blank, Tapped, Trivia!Tapped, LiarLiar!Tapped, Zinger!Tapped, OddBird!Tapped,
         SameBranch!Tapped, Sketchy!Tapped, LoneLeaf!Tapped

LEMMA RejectShows ==
  ASSUME NEW d, DOMAIN d = DOMAIN Blank
  PROVE  DOMAIN OnRejected(d) = DOMAIN Blank /\ SamePicture(d, OnRejected(d))
  BY DEF SamePicture, Blank, OnRejected

LEMMA ScreenInit == InitRemote => ScreenInv
<1> SUFFICES ASSUME InitRemote PROVE ScreenInv
  OBVIOUS
<1>1. game \in Registered /\ phase = "collecting" /\ present = Players /\ reveal = None
  BY DEF InitRemote, Init
<1>2. DOMAIN scratch = Shape
  <2>1. PICK s \in Configured :
           scratch \in StartRound([phase |-> "collecting", round |-> 1, present |-> Players, scratch |-> s])
    BY DEF InitRemote, Init
  <2> QED
    BY <1>1, <2>1, ConfiguredShaped, OpensShaped
<1>3. TableInv
  BY <1>1, <1>2 DEF TableInv
<1>4. RevealInv
  BY <1>1 DEF RevealInv
<1>5. DOMAIN device = DOMAIN Blank /\ (me \in present => device = Opened(Blank, Ctx))
  BY <1>1, OpenedOn DEF InitRemote
<1>6. DeviceInv
  BY <1>1, <1>5, OpenedOn DEF DeviceInv, Ctx, None
<1> QED
  BY <1>3, <1>4, <1>6 DEF ScreenInv

LEMMA SameScratch ==
  ASSUME scratch' = scratch PROVE SameTelling(scratch, scratch')
  BY DEF SameTelling

LEMMA CloseShows ==
  ASSUME ScreenInv, AdvanceCollecting, reveal' = <<RevealFrame(Ctx')>>, me' = me,
         Receives(Dealt(Seen(OnReveal(device, reveal'[1]), Ctx'), Ctx'))
  PROVE  ScreenInv'
<1> DEFINE f == RevealFrame(Ctx')
           d == OnReveal(device, f)
<1>1. PICK r \in Reveal(Ctx) : scratch' = r.scratch /\ phase' = IF r.guess THEN "guessing" ELSE "disputing"
  BY DEF AdvanceCollecting
<1>2. game' = game /\ round' = round /\ present' = present /\ phase = "collecting" /\ game \in Registered
      /\ DOMAIN Ctx.scratch = Shape /\ reveal = None /\ DOMAIN device = DOMAIN Blank
  BY DEF AdvanceCollecting, ScreenInv, TableInv, RevealInv, DeviceInv, Ctx
<1>3. SameTelling(scratch, scratch')
  BY <1>1, <1>2, RevealTells DEF Ctx
<1>4. Prompt(Ctx') = Prompt(Ctx) /\ Private(Ctx') = Private(Ctx)
  BY <1>2, <1>3, SameTold DEF Ctx
<1>5. phase' \in {"guessing", "disputing"} /\ (phase' = "guessing" => game \notin {"trivia", "same-branch"})
  <2>1. game \in {"trivia", "same-branch"} => r.guess = FALSE
    BY <1>1, NoGuess
  <2> QED
    BY <1>1, <2>1
<1>6. TableInv'
  BY <1>2, <1>3, <1>5, NextFrames DEF TableInv, SameTelling, Ctx
<1>7. Closing(f)
  BY <1>1, <1>2, ClosingFrame DEF Ctx
<1>8. RevealInv'
  BY <1>2, <1>5, <1>7, NextReveals DEF RevealInv
<1>9. DeviceInv'
  <2>1. DOMAIN d = DOMAIN Blank /\ d.prompt = device.prompt /\ d.private = device.private
        /\ d.reveals = Append(device.reveals, f)
    BY <1>2 DEF OnReveal, Blank
  <2>2. device' = IF me \in present THEN Dealt(Seen(d, Ctx'), Ctx') ELSE device
    BY DEF Receives
  <2>3. DOMAIN device' = DOMAIN Blank
    <3> HIDE DEF d
    <3> QED
      BY <1>2, <2>1, <2>2, Folded, DealtTo
  <2>4. ASSUME me \in present
        PROVE  /\ device'.phase = phase' /\ device'.prompt = <<Prompt(Ctx')>>
               /\ device'.private = Private(Ctx') /\ device'.reveals = <<f>>
    <3>1. device.prompt = <<Prompt(Ctx)>> /\ device.private = Private(Ctx) /\ device.reveals = <<>>
      BY <1>2, <2>4 DEF ScreenInv, DeviceInv, None
    <3>2. d.prompt = <<Prompt(Ctx')>> /\ d.private = Private(Ctx') /\ d.reveals = <<f>>
      BY <1>4, <2>1, <3>1
    <3> HIDE DEF d, f
    <3>3. Seen(d, Ctx').phase = phase' /\ Seen(d, Ctx').prompt = <<Prompt(Ctx')>>
          /\ Seen(d, Ctx').private = Private(Ctx') /\ Seen(d, Ctx').reveals = <<f>>
          /\ DOMAIN Seen(d, Ctx') = DOMAIN Blank
      BY <1>2, <2>1, <3>2, Folded DEF Ctx
    <3> QED
      BY <1>2, <2>2, <2>4, <3>3, DealtTo
  <2> QED
    BY <1>2, <2>3, <2>4, NextFrames DEF DeviceInv
<1> QED
  BY <1>6, <1>8, <1>9 DEF ScreenInv

LEMMA DisputesShow ==
  ASSUME ScreenInv, AdvanceDisputing, reveal' = reveal, me' = me, Receives(Seen(device, Ctx'))
  PROVE  ScreenInv'
<1>1. game' = game /\ round' = round /\ present' = present /\ scratch' = scratch /\ phase = "disputing"
      /\ game \in Registered /\ DOMAIN Ctx.scratch = Shape /\ DOMAIN device = DOMAIN Blank
  BY DEF AdvanceDisputing, ScreenInv, TableInv, DeviceInv, Ctx
<1>2. Prompt(Ctx') = Prompt(Ctx) /\ Private(Ctx') = Private(Ctx)
  BY <1>1, SameScratch, SameTold DEF Ctx
<1>3. phase' \in {"leaderboard", "voting"} /\ (phase' = "voting" => game = "trivia")
  BY <1>1 DEF AdvanceDisputing, Disputes, Registered
<1>4. TableInv'
  BY <1>1, <1>3, NextFrames DEF TableInv, Ctx
<1>5. PICK f : reveal = <<f>> /\ Closing(f)
  BY <1>1 DEF ScreenInv, RevealInv
<1>6. RevealInv'
  BY <1>1, <1>3, <1>5, NextReveals DEF RevealInv
<1>7. DOMAIN device' = DOMAIN Blank
  BY <1>1, Folded DEF Receives
<1>8. ASSUME me \in present
      PROVE  /\ device'.phase = phase' /\ device'.prompt = <<Prompt(Ctx')>>
             /\ device'.private = Private(Ctx') /\ device'.reveals = reveal
  <2>1. device.prompt = <<Prompt(Ctx')>> /\ device.private = Private(Ctx') /\ device.reveals = reveal
    BY <1>1, <1>2, <1>8 DEF ScreenInv, DeviceInv
  <2>2. device' = Seen(device, Ctx') /\ Ctx'.phase = phase'
    BY <1>8 DEF Receives, Ctx
  <2> QED
    BY <1>1, <2>1, <2>2, Folded
<1>9. DeviceInv'
  BY <1>1, <1>7, <1>8, NextFrames DEF DeviceInv
<1> QED
  BY <1>4, <1>6, <1>9 DEF ScreenInv

LEMMA AppendedTwo ==
  ASSUME NEW f, NEW g
  PROVE  Append(<<g>>, f) = <<g, f>>
<1> DEFINE S == {f, g}
           s == Append(<<g>>, f)
<1>1. <<g>> \in Seq(S) /\ f \in S
  OBVIOUS
<1>2. s \in Seq(S) /\ Len(s) = 2 /\ s[1] = g /\ s[2] = f
  BY <1>1
<1>3. <<g, f>> \in Seq(S) /\ Len(<<g, f>>) = 2
  OBVIOUS
<1> HIDE DEF s, S
<1>4. \A t \in Seq(S) : Len(t) = 2 => t = [i \in 1 .. 2 |-> t[i]]
  OBVIOUS
<1>5. s = [i \in 1 .. 2 |-> s[i]]
  BY <1>2, <1>4
<1>6. [i \in 1 .. 2 |-> s[i]] = [i \in 1 .. 2 |-> <<g, f>>[i]]
  BY <1>2
<1>7. <<g, f>> = [i \in 1 .. 2 |-> <<g, f>>[i]]
  BY <1>3, <1>4
<1>8. s = <<g, f>>
  BY <1>5, <1>6, <1>7
<1> QED
  BY <1>8 DEF s

LEMMA ResultShows ==
  ASSUME ScreenInv, AdvanceVoting \/ AdvanceGuessing, reveal' = <<ResultFrame(Ctx')>>, me' = me,
         Receives(Seen(OnReveal(device, reveal'[1]), Ctx'))
  PROVE  ScreenInv'
<1> DEFINE f == ResultFrame(Ctx')
           d == OnReveal(device, f)
<1>1. game' = game /\ round' = round /\ present' = present /\ phase \in {"voting", "guessing"}
      /\ phase' = "leaderboard" /\ game \in Registered /\ game # "same-branch"
      /\ DOMAIN Ctx.scratch = Shape /\ DOMAIN device = DOMAIN Blank
  BY DEF AdvanceVoting, AdvanceGuessing, AdvanceScoring, ScreenInv, TableInv, DeviceInv, Ctx
<1>2. scratch' = scratch
  <2>1. CASE AdvanceVoting
    <3>1. game = "trivia" /\ scratch' = DisputeVote(Ctx).scratch
      BY <2>1 DEF AdvanceVoting, AdvanceScoring, ScreenInv, TableInv
    <3> QED
      BY <1>1, <3>1, ScoringTells DEF Ctx
  <2>2. CASE AdvanceGuessing
    <3>1. game \notin {"trivia", "same-branch"} /\ scratch' = ResolveDecision(Ctx).scratch
      BY <2>2 DEF AdvanceGuessing, AdvanceScoring, ScreenInv, TableInv
    <3> QED
      BY <1>1, <3>1, ScoringTells DEF Ctx
  <2> QED
    BY <2>1, <2>2
<1>3. Prompt(Ctx') = Prompt(Ctx) /\ Private(Ctx') = Private(Ctx)
  BY <1>1, <1>2, SameScratch, SameTold DEF Ctx
<1>4. TableInv'
  BY <1>1, <1>2, NextFrames DEF TableInv, Ctx
<1>5. Result(f)
  BY <1>1, ResultOf
<1>6. RevealInv'
  BY <1>1, <1>5, NextReveals DEF RevealInv
<1>7. PICK g : reveal = <<g>> /\ Closing(g)
  BY <1>1 DEF ScreenInv, RevealInv
<1>8. DOMAIN d = DOMAIN Blank /\ d.prompt = device.prompt /\ d.private = device.private
      /\ d.reveals = Append(device.reveals, f)
  BY <1>1 DEF OnReveal, Blank
<1>9. device' = IF me \in present THEN Seen(d, Ctx') ELSE device
  BY DEF Receives
<1>10. DOMAIN device' = DOMAIN Blank
  <2> HIDE DEF d
  <2> QED
    BY <1>1, <1>8, <1>9, Folded
<1>11. ASSUME me \in present
       PROVE  /\ device'.phase = phase' /\ device'.prompt = <<Prompt(Ctx')>>
              /\ device'.private = Private(Ctx') /\ device'.reveals = <<g, f>>
  <2>1. device.prompt = <<Prompt(Ctx')>> /\ device.private = Private(Ctx') /\ device.reveals = <<g>>
    BY <1>1, <1>3, <1>7, <1>11 DEF ScreenInv, DeviceInv
  <2>2. d.prompt = <<Prompt(Ctx')>> /\ d.private = Private(Ctx') /\ d.reveals = <<g, f>>
    <3> HIDE DEF d, f
    <3>1. Append(<<g>>, f) = <<g, f>>
      BY AppendedTwo
    <3> QED
      BY <1>8, <2>1, <3>1
  <2>3. Ctx'.phase = phase'
    BY DEF Ctx
  <2> HIDE DEF d, f
  <2> QED
    BY <1>1, <1>8, <1>9, <1>11, <2>2, <2>3, Folded
<1>12. DeviceInv'
  BY <1>1, <1>5, <1>7, <1>10, <1>11, NextFrames, NextReveals DEF DeviceInv
<1> QED
  BY <1>4, <1>6, <1>12 DEF ScreenInv

\* A round, the first or another, opened over what the device showed.
LEMMA OpeningShows ==
  ASSUME ScreenInv, game' = game, me' = me, present' = present, phase' = "collecting", reveal' = None,
         DOMAIN scratch' = Shape, Receives(Opened(device, Ctx'))
  PROVE  ScreenInv'
<1>1. game \in Registered /\ DOMAIN device = DOMAIN Blank /\ Ctx'.phase = "collecting"
  BY DEF ScreenInv, TableInv, DeviceInv, Ctx
<1>2. TableInv' /\ RevealInv'
  BY <1>1, NextFrames DEF TableInv, RevealInv
<1>3. device' = IF me \in present THEN Opened(device, Ctx') ELSE device
  BY DEF Receives
<1>4. DeviceInv'
  BY <1>1, <1>3, OpenedOn, NextFrames DEF DeviceInv, None
<1> QED
  BY <1>2, <1>4 DEF ScreenInv

LEMMA EndShows ==
  ASSUME ScreenInv, UNCHANGED <<game, me, present, scratch, round, reveal>>, phase = "leaderboard", phase' = "complete",
         Receives(Seen(device, Ctx'))
  PROVE  ScreenInv'
<1>1. game \in Registered /\ DOMAIN Ctx.scratch = Shape /\ DOMAIN device = DOMAIN Blank /\ Ctx'.phase = "complete"
  BY DEF ScreenInv, TableInv, DeviceInv, Ctx
<1>2. Prompt(Ctx') = Prompt(Ctx) /\ Private(Ctx') = Private(Ctx)
  BY <1>1, SameScratch, SameTold DEF Ctx
<1>3. TableInv' /\ RevealInv'
  BY NextFrames, NextReveals DEF ScreenInv, TableInv, RevealInv
<1>4. device' = IF me \in present THEN Seen(device, Ctx') ELSE device
  BY DEF Receives
<1>5. DOMAIN device' = DOMAIN Blank
  BY <1>1, <1>4, Folded
<1>6. ASSUME me \in present
      PROVE  /\ device'.phase = "complete" /\ device'.prompt = <<Prompt(Ctx')>>
             /\ device'.private = Private(Ctx') /\ device'.reveals = device.reveals
             /\ \/ device.reveals = reveal
                \/ Result(reveal[1]) /\ \E f : device.reveals = <<f, reveal[1]>> /\ Closing(f)
  <2>1. device.prompt = <<Prompt(Ctx')>> /\ device.private = Private(Ctx')
        /\ \/ device.reveals = reveal
           \/ Result(reveal[1]) /\ \E f : device.reveals = <<f, reveal[1]>> /\ Closing(f)
    BY <1>2, <1>6 DEF ScreenInv, DeviceInv
  <2> QED
    BY <1>1, <1>4, <1>6, <2>1, Folded
<1>7. DeviceInv'
  BY <1>5, <1>6, NextFrames, NextReveals DEF DeviceInv
<1> QED
  BY <1>3, <1>7 DEF ScreenInv

LEMMA ScreenStep == ScreenInv /\ [NextRemote]_<<vars, mine>> => ScreenInv'
<1> SUFFICES ASSUME ScreenInv, [NextRemote]_<<vars, mine>> PROVE ScreenInv'
  OBVIOUS
<1>0. /\ game \in Registered /\ DOMAIN Ctx.scratch = Shape /\ DOMAIN scratch = Shape /\ DOMAIN device = DOMAIN Blank
      /\ reveal = None \/ \E f : reveal = <<f>>
  BY DEF ScreenInv, TableInv, DeviceInv, RevealInv, Ctx
<1>1. CASE Tap
  <2>1. PICK m : device' = Tapped(device, m)
    BY <1>1 DEF Tap
  <2>2. UNCHANGED <<game, phase, round, present, scratch, me, reveal>>
    BY <1>1 DEF Tap, vars
  <2> QED
    BY <1>0, <2>1, <2>2, TapShows, SameScratch, Within
<1>2. CASE Deliver
  <2>1. scratch' = CollectMove(Ctx, me, Body) \/ scratch' = CollectVote(Ctx, me, Body)
    BY <1>2 DEF Deliver
  <2>2. SameTelling(scratch, scratch')
    BY <1>0, <2>1, MoveTells, VoteTells DEF Ctx
  <2>3. UNCHANGED <<game, phase, round, present, me, reveal>> /\ (device' = device \/ device' = OnRejected(device))
    BY <1>2 DEF Deliver
  <2> QED
    BY <1>0, <2>2, <2>3, RejectShows, Within DEF SamePicture
<1>3. CASE Ignored
  <2>1. UNCHANGED <<game, phase, round, present, scratch, me, reveal, device>>
    BY <1>3 DEF Ignored, vars
  <2> QED
    BY <1>0, <2>1, SameScratch, Within DEF SamePicture
<1>4. CASE Reload
  <2>1. UNCHANGED <<game, phase, round, present, scratch, me, reveal>> /\ device' = CatchUp(Blank, Ctx)
    BY <1>4 DEF Reload, vars
  <2>2. Ctx' = Ctx
    BY <2>1 DEF Ctx
  <2>3. DOMAIN device' = DOMAIN Blank /\ UpToDate(device', Ctx', reveal)
    BY <1>0, <2>1, <2>2, CaughtUp DEF UpToDate
  <2> QED
    BY <1>0, <2>1, <2>3, SameScratch, Within
<1>5. CASE Restart
  <2>1. PICK s \in Configured :
           scratch' \in StartRound([phase |-> "collecting", round |-> 1, present |-> present, scratch |-> s])
    BY <1>5 DEF Restart
  <2>2. DOMAIN scratch' = Shape
    BY <1>0, <2>1, ConfiguredShaped, OpensShaped
  <2> QED
    BY <1>5, <2>2, OpeningShows DEF Restart
<1>6. CASE EngineSteps
  <2>1. me' = me
    BY <1>6 DEF EngineSteps
  <2>2. CASE AdvanceCollecting /\ reveal' = <<RevealFrame(Ctx')>>
             /\ Receives(Dealt(Seen(OnReveal(device, reveal'[1]), Ctx'), Ctx'))
    BY <2>1, <2>2, CloseShows
  <2>3. CASE AdvanceDisputing /\ reveal' = reveal /\ Receives(Seen(device, Ctx'))
    BY <2>1, <2>3, DisputesShow
  <2>4. CASE (AdvanceVoting \/ AdvanceGuessing) /\ reveal' = <<ResultFrame(Ctx')>>
             /\ Receives(Seen(OnReveal(device, reveal'[1]), Ctx'))
    BY <2>1, <2>4, ResultShows
  <2>5. CASE Opens
    <3>1. UNCHANGED <<game, present>> /\ phase = "leaderboard"
      BY <2>5 DEF Opens, AdvanceLeaderboard
    <3>2. CASE phase' = "complete"
      BY <2>1, <2>5, <3>1, <3>2, EndShows DEF Opens, AdvanceLeaderboard
    <3>3. CASE phase' # "complete"
      <4>1. phase' = "collecting" /\ scratch' \in StartRound([Ctx EXCEPT !.round = round + 1])
        BY <2>5, <3>3 DEF Opens, AdvanceLeaderboard
      <4>2. DOMAIN scratch' = Shape
        <5>1. [Ctx EXCEPT !.round = round + 1].scratch = scratch
          BY DEF Ctx
        <5> QED
          BY <1>0, <4>1, <5>1, OpensShaped
      <4> QED
        BY <2>1, <2>5, <3>1, <3>3, <4>1, <4>2, OpeningShows DEF Opens
    <3> QED
      BY <3>2, <3>3
  <2> QED
    BY <1>6, <2>2, <2>3, <2>4, <2>5 DEF EngineSteps, Closes
<1>7. ASSUME NEW p \in Players, AnotherPlays(p) PROVE ScreenInv'
  <2>1. (\E m : scratch' = CollectMove(Ctx, p, m)) \/ (\E v : scratch' = CollectVote(Ctx, p, v))
    BY <1>7 DEF AnotherPlays, SubmitMove, SubmitVote
  <2>2. SameTelling(scratch, scratch')
    BY <1>0, <2>1, MoveTells, VoteTells DEF Ctx
  <2>3. UNCHANGED <<game, phase, round, present, me, reveal, device>>
    BY <1>7 DEF AnotherPlays, SubmitMove, SubmitVote, mine
  <2> QED
    BY <1>0, <2>2, <2>3, Within DEF SamePicture
<1>8. ASSUME NEW p \in Players, Comings(p) PROVE ScreenInv'
  <2>1. UNCHANGED <<game, phase, round, scratch, me, reveal>> /\ Ctx'.phase = phase
    BY <1>8 DEF Comings, Disconnect, Join, Ctx
  <2>2. DOMAIN device' = DOMAIN Blank
    <3>1. device' = device \/ device' = Seen(device, Ctx') \/ device' = CatchUp(device, Ctx')
      BY <1>8 DEF Comings, Receives
    <3>2. DOMAIN Seen(device, Ctx') = DOMAIN Blank /\ DOMAIN CatchUp(device, Ctx') = DOMAIN Blank
      BY <1>0, Folded, CaughtUp
    <3> QED
      BY <1>0, <3>1, <3>2
  <2>3. me \in present' => \/ me \in present /\ SamePicture(device, device')
                           \/ UpToDate(device', Ctx', reveal)
    <3> SUFFICES ASSUME me \in present'
                 PROVE  \/ me \in present /\ SamePicture(device, device')
                        \/ UpToDate(device', Ctx', reveal)
      OBVIOUS
    <3>1. CASE p = me
      <4>1. device' = CatchUp(device, Ctx')
        BY <1>8, <3>1 DEF Comings, Disconnect
      <4> QED
        BY <1>0, <4>1, CaughtUp DEF UpToDate
    <3>2. CASE p # me
      <4>1. me \in present /\ device' = Seen(device, Ctx')
        BY <1>8, <3>2 DEF Comings, Disconnect, Join, Receives
      <4>2. device.phase = phase
        BY <4>1 DEF ScreenInv, DeviceInv
      <4> QED
        BY <1>0, <2>1, <4>1, <4>2, Folded DEF SamePicture
    <3> QED
      BY <3>1, <3>2
  <2> QED
    BY <1>0, <2>1, <2>2, <2>3, SameScratch, Within
<1>9. CASE UNCHANGED <<vars, mine>>
  <2>1. UNCHANGED <<game, phase, round, present, scratch, me, reveal, device>>
    BY <1>9 DEF vars, mine
  <2> QED
    BY <1>0, <2>1, SameScratch, Within DEF SamePicture
<1> QED
  BY <1>1, <1>2, <1>3, <1>4, <1>5, <1>6, <1>7, <1>8, <1>9 DEF NextRemote

LEMMA ScreenCorrect == SpecRemote => []ScreenInv
  BY ScreenInit, ScreenStep, PTL DEF SpecRemote

\* SecretsKept: at any table of any size, however its frames, reloads, reconnects and
\* restarts fall out, no connected device is sent what its player is not to know yet.
THEOREM SecretsStayKept == SpecRemote => []SecretsKept
<1>1. ScreenInv => SecretsKept
  <2> SUFFICES ASSUME ScreenInv, me \in present, Leaks(Ctx, device) PROVE FALSE
    BY DEF SecretsKept
  <2>1. /\ game \in Registered
        /\ device.private = Private(Ctx) /\ Ctx.phase = phase /\ Ctx.scratch = scratch
        /\ phase = "collecting" => device.reveals = <<>>
        /\ phase = "guessing" => \E f : device.reveals = <<f>> /\ Closing(f)
    BY DEF ScreenInv, TableInv, DeviceInv, RevealInv, Ctx, None
  <2>2. CASE game = "trivia"
    BY <2>1, <2>2 DEF Leaks, Trivia!Leaks, Trivia!RoundReveal, Trivia!Latest, Trivia!None
  <2>3. CASE game = "liar-liar"
    BY <2>1, <2>3 DEF Leaks, LiarLiar!Leaks, LiarLiar!PickResult, LiarLiar!Latest, LiarLiar!None, Closing
  <2>4. CASE game = "zinger"
    BY <2>1, <2>4 DEF Leaks, Zinger!Leaks, Zinger!PickResult, Zinger!Latest, Zinger!None, Closing
  <2>5. CASE game = "odd-bird"
    BY <2>1, <2>5 DEF Leaks, OddBird!Leaks, OddBird!PickResult, OddBird!Latest, OddBird!None, Closing, Private
  <2>6. CASE game = "same-branch"
    BY <2>1, <2>6 DEF Leaks, SameBranch!Leaks, SameBranch!PickReveal, SameBranch!Latest, SameBranch!None, Private,
                      SameBranch!Private
  <2>7. CASE game = "sketchy"
    BY <2>1, <2>7 DEF Leaks, Sketchy!Leaks, Sketchy!PickResult, Sketchy!Latest, Sketchy!None, Closing, Private
  <2>8. CASE game = "lone-leaf"
    <3>1. LoneLeaf!PickResult(device) = LoneLeaf!None
      BY <2>1, <2>8 DEF Leaks, LoneLeaf!Leaks, LoneLeaf!PickResult, LoneLeaf!Latest, LoneLeaf!None, Closing
    <3>2. LoneLeaf!PickSurvivors(device) = <<>> \/ \E f : LoneLeaf!PickSurvivors(device) = <<f>> /\ Closing(f)
      <4>1. CASE device.reveals = <<>>
        BY <4>1 DEF LoneLeaf!PickSurvivors, LoneLeaf!Latest, LoneLeaf!None
      <4>2. ASSUME NEW f, device.reveals = <<f>>, Closing(f)
            PROVE  LoneLeaf!PickSurvivors(device) = <<f>>
        <5> DEFINE fits == {i \in DOMAIN device.reveals : "seed" \notin DOMAIN device.reveals[i]}
        <5>1. fits = {1}
          BY <2>8, <4>2 DEF Closing
        <5> QED
          BY <4>2, <5>1 DEF LoneLeaf!PickSurvivors, LoneLeaf!Latest
      <4> QED
        BY <2>1, <2>8, <4>1, <4>2 DEF Leaks, LoneLeaf!Leaks
    <3>3. \A r \in LoneLeaf!Range(LoneLeaf!PickSurvivors(device)) : r.survivors \cap {"seed", "token"} = {}
      BY <2>8, <3>2 DEF Closing, LoneLeaf!Range
    <3> QED
      BY <2>1, <2>8, <3>1, <3>3 DEF Leaks, LoneLeaf!Leaks, LoneLeaf!None, Private, LoneLeaf!Private
  <2> QED
    BY <2>1, <2>2, <2>3, <2>4, <2>5, <2>6, <2>7, <2>8 DEF Registered
<1> QED
  BY <1>1, ScreenCorrect, PTL

\* CatchUpIsComplete: a device that was there all along, in and out, reloaded or restarted,
\* paints what one that joins now would paint, in every phase of every game.
THEOREM CatchUpStaysComplete == SpecRemote => []CatchUpIsComplete
<1>1. ScreenInv => CatchUpIsComplete
  <2> SUFFICES ASSUME ScreenInv, me \in present PROVE Painted(device) = Painted(CatchUp(Blank, Ctx))
    BY DEF CatchUpIsComplete
  <2> DEFINE e == CatchUp(Blank, Ctx)
  <2>1. game \in Registered /\ (reveal = None \/ \E f : reveal = <<f>>) /\ Ctx.phase = phase
    BY DEF ScreenInv, TableInv, RevealInv, Ctx
  <2>2. e.phase = phase /\ e.prompt = <<Prompt(Ctx)>> /\ e.private = Private(Ctx) /\ e.reveals = reveal
    BY <2>1, CaughtUp
  <2>3. device.phase = phase /\ device.prompt = <<Prompt(Ctx)>> /\ device.private = Private(Ctx)
    BY DEF ScreenInv, DeviceInv
  <2> HIDE DEF e
  <2>4. CASE device.reveals = reveal
    BY <2>1, <2>2, <2>3, <2>4, SamePainted DEF SamePicture, e
  <2>5. CASE device.reveals # reveal
    <3>1. PICK f : device.reveals = <<f, reveal[1]>> /\ Closing(f)
      BY <2>5 DEF ScreenInv, DeviceInv
    <3>2. phase \in {"leaderboard", "complete"} /\ Result(reveal[1]) /\ reveal = <<reveal[1]>>
      BY <2>5 DEF ScreenInv, DeviceInv, RevealInv
    <3> QED
      BY <2>1, <2>2, <2>3, <3>1, <3>2, ResultPainted DEF e
  <2> QED
    BY <2>4, <2>5
<1> QED
  BY <1>1, ScreenCorrect, PTL

-----------------------------------------------------------------------------
(* The device of one player: what it remembers, against what the engine has. *)

\* What the fields of a scratch range over.
Typed(s) ==
    CASE game = "trivia"      -> DOMAIN s.submitted = Players
      [] game = "liar-liar"   -> /\ DOMAIN s.submissions = Players /\ DOMAIN s.guesses = Players
                                 /\ \A p \in Players : s.submissions[p] \notin LiarLiar!Truths
                                 /\ s.options \subseteq {"truth"} \cup Players
      [] game = "zinger"      -> s.submissions \subseteq Players /\ s.authors \subseteq Players /\ DOMAIN s.votes = Players
      [] game = "odd-bird"    -> /\ DOMAIN s.accusations = Players /\ s.oddBird \in Players
                                 /\ s.roost \in Roosts /\ s.roostOptions \subseteq Roosts
      [] game = "same-branch" -> s.guesses \in [Players -> Int]
      [] game = "sketchy"     -> /\ s.stage \in {"draw", "sketch"} /\ s.assignments \in [Players -> Seeds]
                                 /\ DOMAIN s.decoys = Players /\ DOMAIN s.guesses = Players
                                 /\ s.stage = "sketch" => /\ s.featured \in Players
                                                          /\ \A p \in Players : s.decoys[p] # Sketchy!TrueSeed(s)
                                 /\ s.options \subseteq {"truth"} \cup Players
      [] game = "lone-leaf"   -> DOMAIN s.leaves = Players

\* There is something to pick while the table guesses.
Offered(s) ==
    CASE game = "liar-liar" -> "truth" \in s.options
      [] game = "zinger"    -> s.authors # {}
      [] game = "odd-bird"  -> s.roost \in s.roostOptions
      [] game = "sketchy"   -> s.stage = "sketch" /\ "truth" \in s.options
      [] OTHER              -> TRUE

SeatsInv == present \subseteq Players /\ Typed(scratch) /\ (phase = "guessing" => Offered(scratch))

\* What the owner of the device may say, and whether they have voted.
Sayable(s, m) ==
    CASE game = "trivia"      -> m \in Trivia!Answers
      [] game = "liar-liar"   -> m \in LiarLiar!Answers \ {"blank"}
      [] game = "zinger"      -> m = "zinger"
      [] game = "odd-bird"    -> m = "flush"
      [] game = "same-branch" -> IF me = s.reader THEN m = [text |-> "words"] ELSE \E v \in 0 .. 100 : m = [number |-> v]
      [] game = "sketchy"     -> IF s.stage = "draw" THEN m = "strokes"
                                 ELSE me # s.featured /\ m \in Sketchy!Descriptions \ {"blank"}
      [] game = "lone-leaf"   -> me # s.seeker /\ m \in LoneLeaf!Leaves \ {"blank"}

HasVoted(s) ==
    CASE game \in {"liar-liar", "sketchy"} -> s.guesses[me] # Nobody
      [] game = "zinger"    -> s.votes[me] # Nobody
      [] game = "odd-bird"  -> me \in OddBird!Decided(s)
      [] game = "lone-leaf" -> s.guess # Nobody
      [] OTHER              -> TRUE

\* What of a message must be known when it arrives in another round than its own.
Sendable(m) ==
    /\ m.kind \in {"move", "vote"}
    /\ game = "same-branch" => m.body = [text |-> "words"] \/ \E v \in 0 .. 100 : m.body = [number |-> v]
    /\ game = "lone-leaf" => m.body # Nobody

Says(m, kind) == m # None /\ m[1].kind = kind

MailSound(d, m) ==
    /\ m # None => Sendable(m[1])
    /\ Says(m, "move") => d.sent \in {None, <<m[1].body>>}

\* What the flags of a device mean at a table, where nothing was lost or forgotten.
FlagsMean(d, m, c) ==
    /\ d.sent # None \/ d.voted => d.round <= c.round
    /\ Says(m, "move") /\ d.sent # None /\ c.phase = "collecting" => Sayable(c.scratch, m[1].body)
    /\ d.round = c.round /\ d.sent # None /\ ~d.rejected /\ ~Says(m, "move") => Held(c) = d.sent
    /\ d.round = c.round /\ d.voted => c.phase # "collecting"
    /\ d.round = c.round /\ d.voted /\ c.phase = "guessing" /\ ~Says(m, "vote") => HasVoted(c.scratch)

\* And what a refusal means on any device that is connected.
RefusalMeans(c) == game # "odd-bird" /\ (game = "trivia" => Held(c) # None)

LockInv ==
    /\ round \in Nat /\ device.round \in Nat
    /\ me \in present => device.round = round
    /\ mail # None => me \in present
    /\ MailSound(device, mail)
    /\ ~excused => FlagsMean(device, mail, Ctx)
    /\ me \in present /\ device.rejected => RefusalMeans(Ctx)

FrameInv == phase = "guessing" => reveal = <<RevealFrame(Ctx)>>

\* The seats of a game, as its module has them.
LEMMA SeatsOf ==
  /\ game = "trivia"      => Trivia!Players = Players
  /\ game = "liar-liar"   => LiarLiar!Players = Players
  /\ game = "zinger"      => Zinger!Players = Players
  /\ game = "odd-bird"    => OddBird!Players = Players
  /\ game = "same-branch" => SameBranch!Players = Players
  /\ game = "sketchy"     => Sketchy!Players = Players
  /\ game = "lone-leaf"   => LoneLeaf!Players = Players
  BY DEF Players, Range, Trivia!Players, Trivia!Range, LiarLiar!Players, LiarLiar!Range, Zinger!Players, Zinger!Range,
         OddBird!Players, OddBird!Range, SameBranch!Players, SameBranch!Range, Sketchy!Players, Sketchy!Range,
         LoneLeaf!Players, LoneLeaf!Range

LEMMA Nobodies ==
  /\ Nobody = "nobody" /\ LiarLiar!Nobody = "nobody" /\ Zinger!Nobody = "nobody" /\ OddBird!Nobody = "nobody"
  /\ Trivia!Nobody = "nobody" /\ SameBranch!Nobody = "nobody" /\ Sketchy!Nobody = "nobody" /\ LoneLeaf!Nobody = "nobody"
  BY DEF Nobody, Trivia!Nobody, LiarLiar!Nobody, Zinger!Nobody, OddBird!Nobody, SameBranch!Nobody, Sketchy!Nobody,
         LoneLeaf!Nobody

LEMMA SomeoneSits ==
  ASSUME game \in Registered
  PROVE  Nobody \notin Players /\ "truth" \notin Players
<1>1. Tables[game] \in Seq(Range(Tables[game]) \ {Nobody, "truth"})
  BY RemotesAssumption
<1>2. \A i \in DOMAIN Tables[game] : Tables[game][i] \in Range(Tables[game]) \ {Nobody, "truth"}
  BY <1>1
<1> QED
  BY <1>2 DEF Players, Range

LEMMA MoveTyped ==
  ASSUME NEW c, NEW p \in Players, NEW m, game \in Registered, DOMAIN c.scratch = Shape, Typed(c.scratch),
         game = "same-branch" => "text" \in DOMAIN m \/ m.number \in Int
  PROVE  Typed(CollectMove(c, p, m))
<1>1. CASE game = "trivia"
  BY <1>1, SeatsOf DEF Typed, Shape, CollectMove, Trivia!CollectMove
<1>2. CASE game = "liar-liar"
  BY <1>2, SeatsOf DEF Typed, Shape, CollectMove, LiarLiar!CollectMove, LiarLiar!Refused, LiarLiar!Taken
<1>3. CASE game = "zinger"
  BY <1>3, SeatsOf DEF Typed, Shape, CollectMove, Zinger!CollectMove
<1>4. CASE game = "odd-bird"
  BY <1>4, SeatsOf DEF Typed, Shape, CollectMove, OddBird!CollectMove
<1>5. CASE game = "same-branch"
  BY <1>5, SeatsOf DEF Typed, Shape, CollectMove, SameBranch!CollectMove, SameBranch!ClampToBranch
<1>6. CASE game = "sketchy"
  <2>1. CASE c.scratch.stage = "draw"
    BY <1>6, <2>1, SeatsOf DEF Typed, Shape, CollectMove, Sketchy!CollectMove, Sketchy!TrueSeed
  <2>2. CASE c.scratch.stage = "sketch"
    BY <1>6, <2>2, SeatsOf DEF Typed, Shape, CollectMove, Sketchy!CollectMove, Sketchy!Refused, Sketchy!Taken,
                               Sketchy!TrueSeed
  <2> QED
    BY <1>6, <2>1, <2>2 DEF Typed
<1>7. CASE game = "lone-leaf"
  BY <1>7, SeatsOf DEF Typed, Shape, CollectMove, LoneLeaf!CollectMove
<1> QED
  BY <1>1, <1>2, <1>3, <1>4, <1>5, <1>6, <1>7 DEF Registered

LEMMA VoteTyped ==
  ASSUME NEW c, NEW p \in Players, NEW v, game \in Registered, DOMAIN c.scratch = Shape, Typed(c.scratch)
  PROVE  Typed(CollectVote(c, p, v)) /\ (Offered(c.scratch) => Offered(CollectVote(c, p, v)))
<1>1. CASE game = "trivia"
  BY <1>1, SeatsOf DEF Typed, Offered, Shape, CollectVote, Trivia!CollectVote
<1>2. CASE game = "liar-liar"
  BY <1>2, SeatsOf DEF Typed, Offered, Shape, CollectVote, LiarLiar!CollectVote
<1>3. CASE game = "zinger"
  BY <1>3, SeatsOf DEF Typed, Offered, Shape, CollectVote, Zinger!CollectVote
<1>4. CASE game = "odd-bird"
  BY <1>4, SeatsOf DEF Typed, Offered, Shape, CollectVote, OddBird!CollectVote
<1>5. CASE game = "same-branch"
  BY <1>5 DEF Offered, CollectVote
<1>6. CASE game = "sketchy"
  BY <1>6, SeatsOf DEF Typed, Offered, Shape, CollectVote, Sketchy!CollectVote, Sketchy!TrueSeed
<1>7. CASE game = "lone-leaf"
  BY <1>7, SeatsOf DEF Typed, Offered, Shape, CollectVote, LoneLeaf!CollectVote
<1> QED
  BY <1>1, <1>2, <1>3, <1>4, <1>5, <1>6, <1>7 DEF Registered

LEMMA RevealTyped ==
  ASSUME NEW c, NEW r \in Reveal(c), game \in Registered, DOMAIN c.scratch = Shape, Typed(c.scratch)
  PROVE  Typed(r.scratch) /\ (r.guess => Offered(r.scratch))
<1>1. CASE game = "trivia"
  <2>1. \E w : r.scratch = [c.scratch EXCEPT !.wrong = w]
    BY <1>1 DEF Reveal, Trivia!Reveal, Trivia!Revealed
  <2> QED
    BY <1>1, <2>1 DEF Typed, Offered, Shape
<1>2. CASE game = "liar-liar"
  <2>1. r.scratch = [c.scratch EXCEPT !.options = {LiarLiar!Truth} \cup LiarLiar!Having(c.scratch.submissions),
                                      !.guesses = LiarLiar!Unset]
    BY <1>2 DEF Reveal, LiarLiar!Reveal, LiarLiar!Revealed
  <2> QED
    BY <1>2, <2>1, SeatsOf DEF Typed, Offered, Shape, LiarLiar!Truth, LiarLiar!Having, LiarLiar!Unset
<1>3. CASE game = "zinger"
  <2> DEFINE shown(pair) == [c.scratch EXCEPT !.authors = pair, !.votes = Zinger!Unset]
  <2>1. \/ r \in {Zinger!Revealed(shown({}), Zinger!NoPoints, FALSE)}
        \/ r \in {Zinger!Revealed(shown(pair), Zinger!NoPoints, TRUE) :
                     pair \in {q \in SUBSET c.scratch.submissions : Zinger!Cardinality(q) = 2}}
    BY <1>3, Zenon DEF Reveal, Zinger!Reveal
  <2>2. \/ r.scratch = shown({}) /\ r.guess = FALSE
        \/ \E pair \in SUBSET c.scratch.submissions : r.scratch = shown(pair) /\ Cardinality(pair) = 2
    <3> HIDE DEF shown
    <3> QED
      BY <2>1, SameCounts DEF Zinger!Revealed
  <2>3. \A pair : shown(pair).authors = pair /\ shown(pair).votes = Zinger!Unset
                  /\ shown(pair).submissions = c.scratch.submissions
    BY <1>3 DEF Shape
  <2> HIDE DEF shown
  <2>4. \A pair : Cardinality(pair) = 2 => pair # {}
    BY FS_EmptySet
  <2>5. DOMAIN Zinger!Unset = Players /\ c.scratch.submissions \subseteq Players
    BY <1>3, SeatsOf DEF Zinger!Unset, Typed
  <2>6. CASE r.scratch = shown({}) /\ r.guess = FALSE
    BY <1>3, <2>3, <2>5, <2>6 DEF Typed, Offered
  <2>7. ASSUME NEW pair \in SUBSET c.scratch.submissions, r.scratch = shown(pair), Cardinality(pair) = 2
        PROVE  Typed(r.scratch) /\ Offered(r.scratch)
    BY <1>3, <2>3, <2>4, <2>5, <2>7 DEF Typed, Offered
  <2> QED
    BY <2>2, <2>6, <2>7
<1>4. CASE game = "odd-bird"
  <2> DEFINE shown(options) == [c.scratch EXCEPT !.roostOptions = options, !.accusations = OddBird!Unset,
                                                 !.guess = OddBird!Nobody]
  <2>1. \E d \in SUBSET (Roosts \ {c.scratch.roost}) :
           r = OddBird!Revealed(shown({c.scratch.roost} \cup d), OddBird!NoPoints, TRUE)
    BY <1>4 DEF Reveal, OddBird!Reveal
  <2>2. \A options : /\ shown(options).roostOptions = options /\ shown(options).accusations = OddBird!Unset
                     /\ shown(options).roost = c.scratch.roost /\ shown(options).oddBird = c.scratch.oddBird
    BY <1>4 DEF Shape
  <2> HIDE DEF shown
  <2>3. PICK d \in SUBSET (Roosts \ {c.scratch.roost}) :
             r = OddBird!Revealed(shown({c.scratch.roost} \cup d), OddBird!NoPoints, TRUE)
    BY <2>1
  <2>5. r.scratch = shown({c.scratch.roost} \cup d)
    BY <2>3 DEF OddBird!Revealed
  <2>4. DOMAIN OddBird!Unset = Players
    BY <1>4, SeatsOf DEF OddBird!Unset
  <2> QED
    BY <1>4, <2>2, <2>4, <2>5 DEF Typed, Offered
<1>5. CASE game = "same-branch"
  BY <1>5 DEF Typed, Offered, Reveal, SameBranch!Reveal, SameBranch!Revealed
<1>6. CASE game = "sketchy"
  <2>1. \/ r.scratch = c.scratch /\ r.guess = FALSE
        \/ /\ c.scratch.stage # "draw"
           /\ r.scratch = [c.scratch EXCEPT !.options = {Sketchy!Truth} \cup Sketchy!Having(c.scratch.decoys),
                                            !.guesses = Sketchy!Unset]
    BY <1>6 DEF Reveal, Sketchy!Reveal, Sketchy!Revealed
  <2>2. CASE r.scratch = c.scratch /\ r.guess = FALSE
    BY <2>2
  <2>3. CASE /\ c.scratch.stage # "draw"
             /\ r.scratch = [c.scratch EXCEPT !.options = {Sketchy!Truth} \cup Sketchy!Having(c.scratch.decoys),
                                              !.guesses = Sketchy!Unset]
    <3>1. /\ r.scratch.options = {Sketchy!Truth} \cup Sketchy!Having(c.scratch.decoys)
          /\ r.scratch.guesses = Sketchy!Unset
          /\ \A f \in {"stage", "assignments", "decoys", "featured"} : r.scratch[f] = c.scratch[f]
      BY <1>6, <2>3 DEF Shape
    <3>2. Sketchy!TrueSeed(r.scratch) = Sketchy!TrueSeed(c.scratch)
      BY <3>1 DEF Sketchy!TrueSeed
    <3>3. DOMAIN r.scratch.guesses = Players /\ r.scratch.options \subseteq {"truth"} \cup Players /\ "truth" \in r.scratch.options
      BY <1>6, <3>1, SeatsOf DEF Sketchy!Truth, Sketchy!Having, Sketchy!Unset
    <3>4. c.scratch.stage = "sketch"
      BY <1>6, <2>3 DEF Typed
    <3> QED
      BY <1>6, <3>1, <3>2, <3>3, <3>4 DEF Typed, Offered
  <2> QED
    BY <2>1, <2>2, <2>3
<1>7. CASE game = "lone-leaf"
  <2>1. r.scratch = [c.scratch EXCEPT !.survivors = LoneLeaf!Survivors(c.scratch.leaves), !.guess = LoneLeaf!Nobody]
    BY <1>7 DEF Reveal, LoneLeaf!Reveal, LoneLeaf!Revealed
  <2> QED
    BY <1>7, <2>1 DEF Typed, Offered, Shape
<1> QED
  BY <1>1, <1>2, <1>3, <1>4, <1>5, <1>6, <1>7 DEF Registered

\* A round opens on a scratch of the same kind, the first on whatever was configured.
LEMMA OpensTyped ==
  ASSUME NEW c, game \in Registered, DOMAIN c.scratch = Shape, c.round \in Nat \ {0}, c.round = 1 \/ Typed(c.scratch),
         NEW t \in StartRound(c)
  PROVE  Typed(t)
<1>1. CASE game = "trivia"
  <2>1. t.submitted = Trivia!Unset
    BY <1>1 DEF Shape, StartRound, Trivia!StartRound
  <2> QED
    BY <1>1, <2>1, SeatsOf DEF Typed, Trivia!Unset
<1>2. CASE game = "liar-liar"
  <2>1. t.submissions = LiarLiar!Unset /\ t.guesses = LiarLiar!Unset /\ t.options = {}
    BY <1>2 DEF Shape, StartRound, LiarLiar!StartRound
  <2> QED
    BY <1>2, <2>1, SeatsOf DEF Typed, LiarLiar!Unset, LiarLiar!Truths, LiarLiar!Nobody
<1>3. CASE game = "zinger"
  <2>1. t.submissions = {} /\ t.authors = {} /\ t.votes = Zinger!Unset
    BY <1>3 DEF Shape, StartRound, Zinger!StartRound
  <2> QED
    BY <1>3, <2>1, SeatsOf DEF Typed, Zinger!Unset
<1>4. CASE game = "odd-bird"
  <2>1. t \in OddBird!StartRound(c)
    BY <1>4 DEF StartRound
  <2>2. \E roost \in Roosts, bird \in Players : \E deal : t = OddBird!Seated(c.scratch, roost, bird, deal)
    BY <1>4, <2>1, SeatsOf DEF OddBird!StartRound
  <2> QED
    BY <1>4, <2>2, SeatsOf DEF OddBird!Seated, OddBird!Unset, Typed, Shape
<1>5. CASE game = "same-branch"
  <2> DEFINE hidden(spectrum, bud) ==
                 [c.scratch EXCEPT !.used = @ \cup {spectrum}, !.bud = bud, !.reader = SameBranch!ReaderFor(c.round),
                                   !.hunch = FALSE, !.guesses = [p \in SameBranch!Players |-> -1]]
  <2>1. \E spectrum, bud : t = hidden(spectrum, bud)
    <3>1. t \in UNION {{hidden(spectrum, bud) : bud \in Buds} :
                         spectrum \in SameBranch!Unused(Spectrums, c.scratch)}
      BY <1>5, Zenon DEF StartRound, SameBranch!StartRound
    <3> HIDE DEF hidden
    <3> QED
      BY <3>1
  <2>2. \A spectrum, bud : hidden(spectrum, bud).guesses = [p \in SameBranch!Players |-> -1]
    BY <1>5 DEF Shape
  <2> HIDE DEF hidden
  <2> QED
    BY <1>5, <2>1, <2>2, SeatsOf DEF Typed
<1>6. CASE game = "sketchy"
  <2> DEFINE s == Sketchy!Cleared(c.scratch)
             i == Sketchy!FeatureIndex(c.round)
             seats == Tables["sketchy"]
  <2>1. /\ DOMAIN s = Shape /\ s.decoys = Sketchy!Unset /\ s.guesses = Sketchy!Unset /\ s.options = {}
        /\ s.assignments = c.scratch.assignments
    BY <1>6 DEF Sketchy!Cleared, Shape
  <2>2. DOMAIN Sketchy!Unset = Players /\ \A p \in Players : Sketchy!Unset[p] = Nobody
    BY <1>6, SeatsOf, Nobodies DEF Sketchy!Unset
  <2>3. Nobody \notin Seeds
    BY RemotesAssumption
  <2>4. CASE i = 0
    <3>1. t \in {[s EXCEPT !.stage = "draw", !.assignments = a, !.used = @ \cup Sketchy!Range(a), !.sketches = {}] :
                    a \in {b \in [Players -> Sketchy!Unused(Seeds, s)] : Sketchy!IsInjective(b)}}
      BY <1>6, <2>4, SeatsOf DEF StartRound, Sketchy!StartRound
    <3> HIDE DEF s, i
    <3>2. t.stage = "draw" /\ t.assignments \in [Players -> Seeds] /\ t.decoys = s.decoys /\ t.guesses = s.guesses
          /\ t.options = s.options
      BY <1>6, <2>1, <3>1 DEF Shape, Sketchy!Unused
    <3> QED
      BY <1>6, <2>1, <2>2, <3>2 DEF Typed
  <2>5. CASE i # 0
    <3>1. t = [s EXCEPT !.stage = "sketch", !.featured = seats[i]]
      BY <1>6, <2>5 DEF StartRound, Sketchy!StartRound
    <3>2. seats \in Seq(Range(seats)) /\ Players = Range(seats)
      BY <1>6, RemotesAssumption DEF Players, Registered
    <3>3. Len(seats) \in Nat
      BY <3>2
    <3>4. i = (c.round - 1) % (1 + Len(seats))
      BY DEF Sketchy!FeatureIndex
    <3>5. c.round - 1 \in Nat /\ 1 + Len(seats) > 0
      BY <3>3
    <3>6. i \in 1 .. Len(seats)
      BY <2>5, <3>3, <3>4, <3>5
    <3>7. seats[i] \in Players
      BY <3>2, <3>6
    <3>8. c.round # 1
      <4>1. \A n \in Nat : 0 % (1 + n) = 0
        OBVIOUS
      <4>2. c.round = 1 => c.round - 1 = 0
        OBVIOUS
      <4> QED
        BY <2>5, <3>3, <3>4, <4>1, <4>2
    <3>9. c.scratch.assignments \in [Players -> Seeds]
      BY <1>6, <3>8 DEF Typed
    <3> HIDE DEF s, i, seats
    <3>10. t.stage = "sketch" /\ t.assignments = c.scratch.assignments /\ t.decoys = s.decoys /\ t.guesses = s.guesses
           /\ t.options = s.options /\ t.featured = seats[i]
      BY <1>6, <2>1, <3>1 DEF Shape
    <3>11. t.assignments[t.featured] \in Seeds
      BY <3>7, <3>9, <3>10
    <3> QED
      BY <1>6, <2>1, <2>2, <2>3, <3>7, <3>9, <3>10, <3>11 DEF Typed, Sketchy!TrueSeed
  <2> QED
    BY <2>4, <2>5
<1>7. CASE game = "lone-leaf"
  <2>1. t.leaves = LoneLeaf!Unset
    BY <1>7 DEF Shape, StartRound, LoneLeaf!StartRound
  <2> QED
    BY <1>7, <2>1, SeatsOf DEF Typed, LoneLeaf!Unset
<1> QED
  BY <1>1, <1>2, <1>3, <1>4, <1>5, <1>6, <1>7 DEF Registered

-----------------------------------------------------------------------------
(* What the engine holds of the owner, and what another's message does to it. *)

LEMMA TextsAreTexts ==
  /\ Nobody \notin LiarLiar!Answers /\ Nobody \notin Sketchy!Descriptions /\ Nobody \notin LoneLeaf!Leaves
  /\ Nobody \notin Trivia!Answers
  BY RemotesAssumption, Nobodies DEF LiarLiar!Answers, LiarLiar!Truths, Sketchy!Descriptions, LoneLeaf!Leaves,
     Trivia!Answers

\* What is taken is held as it was sent.
LEMMA HeldAfterOwn ==
  ASSUME NEW c, NEW e, NEW m, game \in Registered, me \in Players, DOMAIN c.scratch = Shape, Typed(c.scratch),
         Sayable(c.scratch, m), ~Refused(c, me, m), e.scratch = CollectMove(c, me, m)
  PROVE  Held(e) = <<m>>
<1>1. CASE game = "trivia"
  <2>1. e.scratch.submitted[me] = m
    BY <1>1 DEF Typed, Shape, Refused, CollectMove, Trivia!CollectMove
  <2> QED
    BY <1>1, <2>1, TextsAreTexts, Nobodies DEF Held, Trivia!Held, Sayable
<1>2. CASE game = "liar-liar"
  <2>1. e.scratch.submissions[me] = m
    BY <1>2 DEF Typed, Shape, Refused, CollectMove, LiarLiar!CollectMove
  <2> QED
    BY <1>2, <2>1, TextsAreTexts, Nobodies DEF Held, LiarLiar!Held, Sayable
<1>3. CASE game = "zinger"
  BY <1>3 DEF Shape, Refused, CollectMove, Zinger!CollectMove, Held, Zinger!Held, Sayable
<1>4. CASE game = "odd-bird"
  BY <1>4 DEF Shape, Refused, CollectMove, OddBird!CollectMove, Held, OddBird!Held, Sayable
<1>5. CASE game = "same-branch"
  <2>1. CASE me = c.scratch.reader
    BY <1>5, <2>1 DEF Shape, Refused, CollectMove, SameBranch!CollectMove, Held, SameBranch!Held, Sayable
  <2>2. CASE me # c.scratch.reader
    <3>1. PICK v \in 0 .. 100 : m = [number |-> v]
      BY <1>5, <2>2 DEF Sayable
    <3>2. e.scratch.guesses[me] = v /\ e.scratch.reader = c.scratch.reader
      BY <1>5, <2>2, <3>1 DEF Typed, Shape, Refused, CollectMove, SameBranch!CollectMove, SameBranch!ClampToBranch
    <3> QED
      BY <1>5, <2>2, <3>1, <3>2 DEF Held, SameBranch!Held
  <2> QED
    BY <2>1, <2>2
<1>6. CASE game = "sketchy"
  <2>1. CASE c.scratch.stage = "draw"
    BY <1>6, <2>1 DEF Shape, Refused, CollectMove, Sketchy!CollectMove, Held, Sketchy!Held, Sayable
  <2>2. CASE c.scratch.stage # "draw"
    <3>1. e.scratch.decoys[me] = m /\ e.scratch.stage = c.scratch.stage
      BY <1>6, <2>2 DEF Typed, Shape, Refused, CollectMove, Sketchy!CollectMove, Sayable
    <3> QED
      BY <1>6, <2>2, <3>1, TextsAreTexts, Nobodies DEF Held, Sketchy!Held, Sayable
  <2> QED
    BY <2>1, <2>2
<1>7. CASE game = "lone-leaf"
  <2>1. e.scratch.leaves[me] = m
    BY <1>7 DEF Typed, Shape, Refused, CollectMove, LoneLeaf!CollectMove
  <2> QED
    BY <1>7, <2>1, TextsAreTexts, Nobodies DEF Held, LoneLeaf!Held, Sayable
<1> QED
  BY <1>1, <1>2, <1>3, <1>4, <1>5, <1>6, <1>7 DEF Registered

\* Another's message leaves it alone, but for the flush that anyone may call.
LEMMA HeldByOthers ==
  ASSUME NEW c, NEW e, NEW m, NEW p, p # me, game \in Registered, DOMAIN c.scratch = Shape, Typed(c.scratch),
         me \in Players, e.scratch = CollectMove(c, p, m)
  PROVE  Held(e) = Held(c) \/ (game = "odd-bird" /\ Held(e) = <<"flush">>)
<1>1. CASE game = "trivia"
  <2>1. e.scratch.submitted[me] = c.scratch.submitted[me]
    BY <1>1 DEF Typed, Shape, CollectMove, Trivia!CollectMove
  <2> QED
    BY <1>1, <2>1 DEF Held, Trivia!Held
<1>2. CASE game = "liar-liar"
  <2>1. e.scratch.submissions[me] = c.scratch.submissions[me]
    BY <1>2 DEF Typed, Shape, CollectMove, LiarLiar!CollectMove
  <2> QED
    BY <1>2, <2>1 DEF Held, LiarLiar!Held
<1>3. CASE game = "zinger"
  BY <1>3 DEF Shape, CollectMove, Zinger!CollectMove, Held, Zinger!Held
<1>4. CASE game = "odd-bird"
  BY <1>4 DEF Shape, CollectMove, OddBird!CollectMove, Held, OddBird!Held
<1>5. CASE game = "same-branch"
  <2>1. /\ e.scratch.guesses[me] = c.scratch.guesses[me] /\ e.scratch.reader = c.scratch.reader
        /\ me = c.scratch.reader => e.scratch.hunch = c.scratch.hunch
    <3>1. \/ e.scratch = c.scratch
          \/ p = c.scratch.reader /\ e.scratch = [c.scratch EXCEPT !.hunch = TRUE]
          \/ \E v : e.scratch = [c.scratch EXCEPT !.guesses[p] = v]
      BY <1>5 DEF CollectMove, SameBranch!CollectMove
    <3>2. c.scratch.guesses \in [Players -> Int] /\ {"guesses", "reader", "hunch"} \subseteq DOMAIN c.scratch
      BY <1>5 DEF Typed, Shape
    <3> QED
      BY <3>1, <3>2
  <2> QED
    BY <1>5, <2>1 DEF Held, SameBranch!Held
<1>6. CASE game = "sketchy"
  <2>1. /\ e.scratch.stage = c.scratch.stage /\ e.scratch.decoys[me] = c.scratch.decoys[me]
        /\ me \in e.scratch.sketches <=> me \in c.scratch.sketches
    BY <1>6 DEF Typed, Shape, CollectMove, Sketchy!CollectMove
  <2> QED
    BY <1>6, <2>1 DEF Held, Sketchy!Held
<1>7. CASE game = "lone-leaf"
  <2>1. e.scratch.leaves[me] = c.scratch.leaves[me]
    BY <1>7 DEF Typed, Shape, CollectMove, LoneLeaf!CollectMove
  <2> QED
    BY <1>7, <2>1 DEF Held, LoneLeaf!Held
<1> QED
  BY <1>1, <1>2, <1>3, <1>4, <1>5, <1>6, <1>7 DEF Registered

\* The fields it is read from.
Answered ==
    CASE game = "trivia"      -> {"submitted"}
      [] game = "liar-liar"   -> {"submissions"}
      [] game = "zinger"      -> {"submissions"}
      [] game = "odd-bird"    -> {"flushCalled"}
      [] game = "same-branch" -> {"reader", "hunch", "guesses"}
      [] game = "sketchy"     -> {"stage", "sketches", "decoys"}
      [] game = "lone-leaf"   -> {"leaves"}

LEMMA SameHeld ==
  ASSUME NEW c, NEW e, game \in Registered, \A f \in Answered : e.scratch[f] = c.scratch[f]
  PROVE  Held(e) = Held(c)
<1>1. CASE game = "trivia"
  BY <1>1 DEF Answered, Held, Trivia!Held
<1>2. CASE game = "liar-liar"
  BY <1>2 DEF Answered, Held, LiarLiar!Held
<1>3. CASE game = "zinger"
  BY <1>3 DEF Answered, Held, Zinger!Held
<1>4. CASE game = "odd-bird"
  BY <1>4 DEF Answered, Held, OddBird!Held
<1>5. CASE game = "same-branch"
  BY <1>5 DEF Answered, Held, SameBranch!Held
<1>6. CASE game = "sketchy"
  BY <1>6 DEF Answered, Held, Sketchy!Held
<1>7. CASE game = "lone-leaf"
  BY <1>7 DEF Answered, Held, LoneLeaf!Held
<1> QED
  BY <1>1, <1>2, <1>3, <1>4, <1>5, <1>6, <1>7 DEF Registered

LEMMA VoteAnswered ==
  ASSUME NEW c, NEW p, NEW v, game \in Registered, DOMAIN c.scratch = Shape
  PROVE  \A f \in Answered : CollectVote(c, p, v)[f] = c.scratch[f]
<1>1. CASE game = "trivia"
  BY <1>1 DEF Answered, Shape, CollectVote, Trivia!CollectVote
<1>2. CASE game = "liar-liar"
  BY <1>2 DEF Answered, Shape, CollectVote, LiarLiar!CollectVote
<1>3. CASE game = "zinger"
  BY <1>3 DEF Answered, Shape, CollectVote, Zinger!CollectVote
<1>4. CASE game = "odd-bird"
  BY <1>4 DEF Answered, Shape, CollectVote, OddBird!CollectVote
<1>5. CASE game = "same-branch"
  BY <1>5 DEF Answered, Shape, CollectVote
<1>6. CASE game = "sketchy"
  BY <1>6 DEF Answered, Shape, CollectVote, Sketchy!CollectVote
<1>7. CASE game = "lone-leaf"
  BY <1>7 DEF Answered, Shape, CollectVote, LoneLeaf!CollectVote
<1> QED
  BY <1>1, <1>2, <1>3, <1>4, <1>5, <1>6, <1>7 DEF Registered

LEMMA RevealAnswered ==
  ASSUME NEW c, NEW r \in Reveal(c), game \in Registered, DOMAIN c.scratch = Shape
  PROVE  \A f \in Answered : r.scratch[f] = c.scratch[f]
<1>1. CASE game = "trivia"
  <2>1. \E w : r.scratch = [c.scratch EXCEPT !.wrong = w]
    BY <1>1 DEF Reveal, Trivia!Reveal, Trivia!Revealed
  <2> QED
    BY <1>1, <2>1 DEF Answered, Shape
<1>2. CASE game = "liar-liar"
  <2>1. r.scratch = [c.scratch EXCEPT !.options = {LiarLiar!Truth} \cup LiarLiar!Having(c.scratch.submissions),
                                      !.guesses = LiarLiar!Unset]
    BY <1>2 DEF Reveal, LiarLiar!Reveal, LiarLiar!Revealed
  <2> QED
    BY <1>2, <2>1 DEF Answered, Shape
<1>3. CASE game = "zinger"
  <2> DEFINE shown(pair) == [c.scratch EXCEPT !.authors = pair, !.votes = Zinger!Unset]
  <2>1. \/ r \in {Zinger!Revealed(shown({}), Zinger!NoPoints, FALSE)}
        \/ r \in {Zinger!Revealed(shown(pair), Zinger!NoPoints, TRUE) :
                     pair \in {q \in SUBSET c.scratch.submissions : Zinger!Cardinality(q) = 2}}
    BY <1>3, Zenon DEF Reveal, Zinger!Reveal
  <2>2. \E pair : r.scratch = shown(pair)
    <3> HIDE DEF shown
    <3> QED
      BY <2>1 DEF Zinger!Revealed
  <2>3. \A pair : shown(pair).submissions = c.scratch.submissions
    BY <1>3 DEF Shape
  <2> HIDE DEF shown
  <2> QED
    BY <1>3, <2>2, <2>3 DEF Answered
<1>4. CASE game = "odd-bird"
  <2> DEFINE shown(options) == [c.scratch EXCEPT !.roostOptions = options, !.accusations = OddBird!Unset,
                                                 !.guess = OddBird!Nobody]
  <2>1. \E options : r = OddBird!Revealed(shown(options), OddBird!NoPoints, TRUE)
    BY <1>4 DEF Reveal, OddBird!Reveal
  <2>2. \A options : shown(options).flushCalled = c.scratch.flushCalled
    BY <1>4 DEF Shape
  <2> HIDE DEF shown
  <2> QED
    BY <1>4, <2>1, <2>2 DEF OddBird!Revealed, Answered
<1>5. CASE game = "same-branch"
  BY <1>5 DEF Answered, Reveal, SameBranch!Reveal, SameBranch!Revealed
<1>6. CASE game = "sketchy"
  <2>1. \/ r.scratch = c.scratch
        \/ r.scratch = [c.scratch EXCEPT !.options = {Sketchy!Truth} \cup Sketchy!Having(c.scratch.decoys),
                                         !.guesses = Sketchy!Unset]
    BY <1>6 DEF Reveal, Sketchy!Reveal, Sketchy!Revealed
  <2> QED
    BY <1>6, <2>1 DEF Answered, Shape
<1>7. CASE game = "lone-leaf"
  <2>1. r.scratch = [c.scratch EXCEPT !.survivors = LoneLeaf!Survivors(c.scratch.leaves), !.guess = LoneLeaf!Nobody]
    BY <1>7 DEF Reveal, LoneLeaf!Reveal, LoneLeaf!Revealed
  <2> QED
    BY <1>7, <2>1 DEF Answered, Shape
<1> QED
  BY <1>1, <1>2, <1>3, <1>4, <1>5, <1>6, <1>7 DEF Registered

\* A refusal changes nothing, and no game refuses a call of the flush; Trivia refuses
\* only a second answer.
LEMMA RefusalKeeps ==
  ASSUME NEW c, NEW m, game \in Registered, Refused(c, me, m)
  PROVE  /\ CollectMove(c, me, m) = c.scratch /\ game # "odd-bird"
         /\ game = "trivia" => Held(c) # None
<1>1. CASE game = "trivia"
  BY <1>1 DEF Refused, CollectMove, Trivia!CollectMove, Trivia!Refused, Held, Trivia!Held, None
<1>2. CASE game # "trivia"
  BY <1>2 DEF Registered, Refused, CollectMove, LiarLiar!CollectMove, Zinger!CollectMove, OddBird!Refused,
              SameBranch!CollectMove, Sketchy!CollectMove, LoneLeaf!CollectMove
<1> QED
  BY <1>1, <1>2

\* A vote that changes anything is the voter's.
LEMMA VoteCounts ==
  ASSUME NEW c, NEW v, game \in Registered, me \in Players, c.phase = "guessing", DOMAIN c.scratch = Shape,
         Typed(c.scratch), game = "lone-leaf" => v # Nobody, CollectVote(c, me, v) # c.scratch
  PROVE  HasVoted(CollectVote(c, me, v))
<1>1. CASE game = "trivia"
  BY <1>1 DEF HasVoted
<1>2. CASE game = "liar-liar"
  <2>1. v \in c.scratch.options /\ CollectVote(c, me, v) = [c.scratch EXCEPT !.guesses[me] = v]
    BY <1>2 DEF CollectVote, LiarLiar!CollectVote
  <2>2. v # Nobody
    BY <1>2, <2>1, SomeoneSits, Nobodies DEF Typed
  <2> QED
    BY <1>2, <2>1, <2>2 DEF HasVoted, Typed, Shape
<1>3. CASE game = "zinger"
  <2>1. v \in c.scratch.authors /\ CollectVote(c, me, v) = [c.scratch EXCEPT !.votes[me] = v]
    BY <1>3 DEF CollectVote, Zinger!CollectVote
  <2>2. v # Nobody
    BY <1>3, <2>1, SomeoneSits DEF Typed
  <2> QED
    BY <1>3, <2>1, <2>2 DEF HasVoted, Typed, Shape
<1>4. CASE game = "odd-bird"
  <2>1. \/ /\ me = c.scratch.oddBird /\ v.target \in c.scratch.roostOptions
           /\ CollectVote(c, me, v) = [c.scratch EXCEPT !.guess = v.target]
        \/ /\ v.target \in Players
           /\ CollectVote(c, me, v) = [c.scratch EXCEPT !.accusations[me] = v.target]
    BY <1>4, SeatsOf DEF CollectVote, OddBird!CollectVote
  <2>2. v.target # Nobody
    BY <1>4, <2>1, SomeoneSits, RemotesAssumption DEF Typed
  <2>3. CASE /\ me = c.scratch.oddBird /\ v.target \in c.scratch.roostOptions
             /\ CollectVote(c, me, v) = [c.scratch EXCEPT !.guess = v.target]
    BY <1>4, <2>2, <2>3, Nobodies DEF HasVoted, OddBird!Decided, Shape
  <2>4. CASE CollectVote(c, me, v) = [c.scratch EXCEPT !.accusations[me] = v.target]
    <3>1. CollectVote(c, me, v).accusations[me] = v.target
      BY <1>4, <2>4 DEF Typed, Shape
    <3> QED
      BY <1>4, <2>2, <3>1, Nobodies, SeatsOf DEF HasVoted, OddBird!Decided, OddBird!Having
  <2> QED
    BY <2>1, <2>3, <2>4
<1>5. CASE game = "same-branch"
  BY <1>5 DEF HasVoted
<1>6. CASE game = "sketchy"
  <2>1. v \in c.scratch.options /\ CollectVote(c, me, v) = [c.scratch EXCEPT !.guesses[me] = v]
    BY <1>6 DEF CollectVote, Sketchy!CollectVote
  <2>2. v # Nobody
    BY <1>6, <2>1, SomeoneSits, Nobodies DEF Typed
  <2> QED
    BY <1>6, <2>1, <2>2 DEF HasVoted, Typed, Shape
<1>7. CASE game = "lone-leaf"
  BY <1>7 DEF HasVoted, Shape, CollectVote, LoneLeaf!CollectVote
<1> QED
  BY <1>1, <1>2, <1>3, <1>4, <1>5, <1>6, <1>7 DEF Registered

\* And stays it whatever the others vote.
LEMMA VotedStays ==
  ASSUME NEW c, NEW p, NEW v \in Votes(c, p), p # me, game \in Registered, me \in Players, DOMAIN c.scratch = Shape,
         Typed(c.scratch), HasVoted(c.scratch)
  PROVE  HasVoted(CollectVote(c, p, v))
<1>1. CASE game = "trivia"
  BY <1>1 DEF HasVoted
<1>2. CASE game = "liar-liar"
  <2>1. CollectVote(c, p, v).guesses[me] = c.scratch.guesses[me]
    BY <1>2 DEF CollectVote, LiarLiar!CollectVote, Typed, Shape
  <2> QED
    BY <1>2, <2>1 DEF HasVoted
<1>3. CASE game = "zinger"
  <2>1. CollectVote(c, p, v).votes[me] = c.scratch.votes[me]
    BY <1>3 DEF CollectVote, Zinger!CollectVote, Typed, Shape
  <2> QED
    BY <1>3, <2>1 DEF HasVoted
<1>4. CASE game = "odd-bird"
  <2>1. \/ CollectVote(c, p, v) = c.scratch
        \/ /\ v.target \in c.scratch.roostOptions
           /\ CollectVote(c, p, v) = [c.scratch EXCEPT !.guess = v.target]
        \/ CollectVote(c, p, v) = [c.scratch EXCEPT !.accusations[p] = v.target]
    BY <1>4 DEF CollectVote, OddBird!CollectVote
  <2>2. CASE v.target \in c.scratch.roostOptions /\ CollectVote(c, p, v) = [c.scratch EXCEPT !.guess = v.target]
    <3>1. v.target # Nobody
      BY <1>4, <2>2, RemotesAssumption DEF Typed
    <3>2. /\ CollectVote(c, p, v).accusations = c.scratch.accusations
          /\ CollectVote(c, p, v).oddBird = c.scratch.oddBird /\ CollectVote(c, p, v).guess # Nobody
      BY <1>4, <2>2, <3>1 DEF Shape
    <3> QED
      BY <1>4, <3>2, Nobodies DEF HasVoted, OddBird!Decided
  <2>3. CASE CollectVote(c, p, v) = [c.scratch EXCEPT !.accusations[p] = v.target]
    <3>1. /\ CollectVote(c, p, v).accusations[me] = c.scratch.accusations[me]
          /\ CollectVote(c, p, v).oddBird = c.scratch.oddBird /\ CollectVote(c, p, v).guess = c.scratch.guess
      BY <1>4, <2>3 DEF Shape, Typed
    <3> QED
      BY <1>4, <3>1, Nobodies DEF HasVoted, OddBird!Decided, OddBird!Having
  <2> QED
    BY <1>4, <2>1, <2>2, <2>3
<1>5. CASE game = "same-branch"
  BY <1>5 DEF HasVoted
<1>6. CASE game = "sketchy"
  <2>1. CollectVote(c, p, v).guesses[me] = c.scratch.guesses[me]
    BY <1>6 DEF CollectVote, Sketchy!CollectVote, Typed, Shape
  <2> QED
    BY <1>6, <2>1 DEF HasVoted
<1>7. CASE game = "lone-leaf"
  <2>1. v \in LoneLeaf!Leaves
    BY <1>7 DEF Votes, LoneLeaf!Votes
  <2> QED
    BY <1>7, <2>1, TextsAreTexts DEF HasVoted, Shape, CollectVote, LoneLeaf!CollectVote
<1> QED
  BY <1>1, <1>2, <1>3, <1>4, <1>5, <1>6, <1>7 DEF Registered

LEMMA SayableStays ==
  ASSUME NEW s, NEW t, NEW m, game \in Registered, DOMAIN s = Shape, SameTelling(s, t), Sayable(s, m)
  PROVE  Sayable(t, m)
<1>1. CASE game = "same-branch"
  BY <1>1 DEF SameTelling, Told, Shape, Sayable
<1>2. CASE game = "sketchy"
  BY <1>2 DEF SameTelling, Told, Shape, Sayable
<1>3. CASE game = "lone-leaf"
  BY <1>3 DEF SameTelling, Told, Shape, Sayable
<1>4. CASE game \notin {"same-branch", "sketchy", "lone-leaf"}
  BY <1>4 DEF Sayable, Registered
<1> QED
  BY <1>1, <1>2, <1>3, <1>4

-----------------------------------------------------------------------------
(* What a device remembers by itself.                                        *)

\* A device of another round forgets it.
Fresher(d, e, n) ==
    /\ e.round = n
    /\ e.sent = IF n = d.round THEN d.sent ELSE None
    /\ e.voted = IF n = d.round THEN d.voted ELSE FALSE

LEMMA SeenLocks ==
  ASSUME NEW d, NEW c, game \in Registered, DOMAIN d = DOMAIN Blank
  PROVE  Fresher(d, Seen(d, c), c.round) /\ Seen(d, c).rejected = d.rejected
  BY DEF Seen, OnState, Blank, Fresher

LEMMA DealtLocks ==
  ASSUME NEW d, NEW c, game \in Registered, DOMAIN d = DOMAIN Blank
  PROVE  /\ Dealt(d, c).round = d.round /\ Dealt(d, c).sent = d.sent /\ Dealt(d, c).voted = d.voted
         /\ Dealt(d, c).rejected = d.rejected
  BY DEF Dealt, OnPrivate, Blank

LEMMA OpenedLocks ==
  ASSUME NEW d, NEW c, game \in Registered, DOMAIN d = DOMAIN Blank
  PROVE  Fresher(d, Opened(d, c), c.round) /\ Opened(d, c).rejected = FALSE
<1> DEFINE p == OnPrompt(d, c, Prompt(c))
<1>1. DOMAIN p = DOMAIN Blank /\ p.round = d.round /\ p.sent = d.sent /\ p.voted = d.voted /\ p.rejected = FALSE
  BY DEF OnPrompt, Blank
<1> HIDE DEF p
<1>2. DOMAIN Seen(p, c) = DOMAIN Blank /\ Fresher(p, Seen(p, c), c.round) /\ Seen(p, c).rejected = FALSE
  BY <1>1, Folded, SeenLocks
<1>3. Opened(d, c) = Dealt(Seen(p, c), c)
  BY DEF Opened, p
<1>4. Fresher(d, Seen(p, c), c.round)
  BY <1>1, <1>2 DEF Fresher
<1>5. Opened(d, c).round = Seen(p, c).round /\ Opened(d, c).sent = Seen(p, c).sent
      /\ Opened(d, c).voted = Seen(p, c).voted /\ Opened(d, c).rejected = Seen(p, c).rejected
  BY <1>2, <1>3, DealtLocks
<1> QED
  BY <1>2, <1>4, <1>5 DEF Fresher

LEMMA CaughtUpLocks ==
  ASSUME NEW d, NEW c, game \in Registered, DOMAIN d = DOMAIN Blank
  PROVE  Fresher(d, CatchUp(d, c), c.round) /\ CatchUp(d, c).rejected = FALSE
<1> DEFINE p == OnPrompt(d, c, Prompt(c))
           q == Replayed(p)
<1>1. DOMAIN p = DOMAIN Blank /\ p.round = d.round /\ p.sent = d.sent /\ p.voted = d.voted /\ p.rejected = FALSE
  BY DEF OnPrompt, Blank
<1>2. DOMAIN q = DOMAIN Blank /\ q.round = d.round /\ q.sent = d.sent /\ q.voted = d.voted /\ q.rejected = FALSE
  <2> HIDE DEF p
  <2> QED
    BY <1>1 DEF Replayed, OnReveal, Blank
<1> HIDE DEF p, q
<1>3. DOMAIN Seen(q, c) = DOMAIN Blank /\ Fresher(q, Seen(q, c), c.round) /\ Seen(q, c).rejected = FALSE
  BY <1>2, Folded, SeenLocks
<1>4. CatchUp(d, c) = Dealt(Seen(q, c), c)
  BY DEF CatchUp, p, q
<1>5. Fresher(d, Seen(q, c), c.round)
  BY <1>2, <1>3 DEF Fresher
<1>6. CatchUp(d, c).round = Seen(q, c).round /\ CatchUp(d, c).sent = Seen(q, c).sent
      /\ CatchUp(d, c).voted = Seen(q, c).voted /\ CatchUp(d, c).rejected = Seen(q, c).rejected
  BY <1>3, <1>4, DealtLocks
<1> QED
  BY <1>3, <1>5, <1>6 DEF Fresher

LEMMA RevealLocks ==
  ASSUME NEW d, NEW f, DOMAIN d = DOMAIN Blank
  PROVE  /\ DOMAIN OnReveal(d, f) = DOMAIN Blank
         /\ \A x \in {"round", "sent", "voted", "rejected"} : OnReveal(d, f)[x] = d[x]
  BY DEF OnReveal, Blank

\* A tap: what is said is remembered, and that a vote was cast.
LEMMA TapLocks ==
  ASSUME NEW d, NEW m, game \in Registered, DOMAIN d = DOMAIN Blank
  PROVE  /\ Tapped(d, m).round = d.round /\ Tapped(d, m).rejected = d.rejected
         /\ m.kind = "move" => Tapped(d, m).sent = <<m.body>> /\ Tapped(d, m).voted = d.voted
         /\ m.kind = "vote" /\ game # "same-branch" => Tapped(d, m).sent = d.sent
<1>1. CASE game = "trivia"
  BY <1>1 DEF Blank, Tapped, Trivia!Tapped
<1>2. CASE game = "liar-liar"
  BY <1>2 DEF Blank, Tapped, LiarLiar!Tapped
<1>3. CASE game = "zinger"
  BY <1>3 DEF Blank, Tapped, Zinger!Tapped
<1>4. CASE game = "odd-bird"
  BY <1>4 DEF Blank, Tapped, OddBird!Tapped
<1>5. CASE game = "same-branch"
  BY <1>5 DEF Blank, Tapped, SameBranch!Tapped
<1>6. CASE game = "sketchy"
  BY <1>6 DEF Blank, Tapped, Sketchy!Tapped
<1>7. CASE game = "lone-leaf"
  BY <1>7 DEF Blank, Tapped, LoneLeaf!Tapped
<1> QED
  BY <1>1, <1>2, <1>3, <1>4, <1>5, <1>6, <1>7 DEF Registered

LEMMA ControlsSay ==
  ASSUME ScreenInv, me \in present, NEW m \in Controls(device)
  PROVE  /\ Sendable(m)
         /\ m.kind = "move" => phase = "collecting" /\ Sayable(scratch, m.body)
         /\ m.kind = "vote" => phase \in {"disputing", "voting", "guessing"} /\ game # "same-branch"
<1>0. /\ game \in Registered /\ device.phase = phase /\ device.prompt = <<Prompt(Ctx)>> /\ Ctx.scratch = scratch
      /\ DOMAIN scratch = Shape
  BY DEF ScreenInv, TableInv, DeviceInv, Ctx
<1>1. CASE game = "trivia"
  BY <1>0, <1>1 DEF Controls, Trivia!Controls, Trivia!AnswerForm, Trivia!DisputeButton, Trivia!Ballots, Trivia!Say,
                    Trivia!Vote, Trivia!Answers, Sendable, Sayable
<1>2. CASE game = "liar-liar"
  BY <1>0, <1>2 DEF Controls, LiarLiar!Controls, LiarLiar!Say, LiarLiar!Vote, Sendable, Sayable
<1>3. CASE game = "zinger"
  BY <1>0, <1>3 DEF Controls, Zinger!Controls, Zinger!VoteButtons, Zinger!Say, Zinger!Vote, Sendable, Sayable
<1>4. CASE game = "odd-bird"
  <2>1. CASE phase = "collecting"
    BY <1>0, <1>4, <2>1 DEF Controls, OddBird!Controls, OddBird!Say, Sendable, Sayable
  <2>2. CASE phase = "guessing"
    <3>1. m \in OddBird!FlushPanel(device, me)
      BY <1>0, <1>4, <2>2 DEF Controls, OddBird!Controls
    <3>2. m.kind = "vote"
      BY <3>1 DEF OddBird!FlushPanel, OddBird!Vote
    <3> QED
      BY <1>4, <2>2, <3>2 DEF Sendable
  <2>3. CASE phase \notin {"collecting", "guessing"}
    BY <1>0, <1>4, <2>3 DEF Controls, OddBird!Controls
  <2> QED
    BY <2>1, <2>2, <2>3
<1>5. CASE game = "same-branch"
  <2>1. device.prompt = <<[branch |-> scratch.used, reader |-> scratch.reader]>>
    BY <1>0, <1>5 DEF Prompt, SameBranch!Prompt
  <2>2. SameBranch!IsReader(device, me) <=> me = scratch.reader
    BY <2>1 DEF SameBranch!IsReader, SameBranch!Range
  <2>3. m.kind = "move" /\ phase = "collecting"
    BY <1>0, <1>5 DEF Controls, SameBranch!Controls, SameBranch!Dial, SameBranch!Say
  <2>4. CASE me = scratch.reader
    BY <1>0, <1>5, <2>2, <2>3, <2>4 DEF Controls, SameBranch!Controls, SameBranch!Say, Sendable, Sayable
  <2>5. CASE me # scratch.reader
    <3>1. \E v \in 0 .. 100 : m.body = [number |-> v]
      BY <1>0, <1>5, <2>2, <2>5 DEF Controls, SameBranch!Controls, SameBranch!Dial, SameBranch!Say
    <3> QED
      BY <1>5, <2>3, <2>5, <3>1 DEF Sendable, Sayable
  <2> QED
    BY <2>4, <2>5
<1>6. CASE game = "sketchy"
  <2>1. CASE phase = "collecting"
    <3>1. m \in Sketchy!Form(device, me)
      BY <1>0, <1>6, <2>1 DEF Controls, Sketchy!Controls
    <3>2. device.prompt[1] = Sketchy!Prompt(Ctx)
      BY <1>0, <1>6 DEF Prompt
    <3>3. CASE scratch.stage = "draw"
      BY <1>0, <1>6, <2>1, <3>1, <3>2, <3>3 DEF Sketchy!Form, Sketchy!Prompt, Sketchy!Say, Sendable, Sayable
    <3>4. CASE scratch.stage # "draw"
      BY <1>0, <1>6, <2>1, <3>1, <3>2, <3>4 DEF Sketchy!Form, Sketchy!Prompt, Sketchy!Say, Sendable, Sayable
    <3> QED
      BY <3>3, <3>4
  <2>2. CASE phase = "guessing"
    BY <1>0, <1>6, <2>2 DEF Controls, Sketchy!Controls, Sketchy!GuessButtons, Sketchy!Vote, Sendable
  <2>3. CASE phase \notin {"collecting", "guessing"}
    BY <1>0, <1>6, <2>3 DEF Controls, Sketchy!Controls
  <2> QED
    BY <2>1, <2>2, <2>3
<1>7. CASE game = "lone-leaf"
  <2>1. LoneLeaf!IsSeeker(device, me) <=> me = scratch.seeker
    BY <1>0, <1>7 DEF Prompt, LoneLeaf!Prompt, LoneLeaf!IsSeeker, LoneLeaf!Range
  <2>2. CASE phase = "collecting"
    BY <1>0, <1>7, <2>1, <2>2, TextsAreTexts DEF Controls, LoneLeaf!Controls, LoneLeaf!LeafForm, LoneLeaf!Say, Sendable, Sayable
  <2>3. CASE phase = "guessing"
    BY <1>0, <1>7, <2>1, <2>3, TextsAreTexts DEF Controls, LoneLeaf!Controls, LoneLeaf!GuessForm, LoneLeaf!Vote, Sendable
  <2>4. CASE phase \notin {"collecting", "guessing"}
    BY <1>0, <1>7, <2>4 DEF Controls, LoneLeaf!Controls
  <2> QED
    BY <2>2, <2>3, <2>4
<1> QED
  BY <1>0, <1>1, <1>2, <1>3, <1>4, <1>5, <1>6, <1>7 DEF Registered

LEMMA SeatsInit == InitRemote => SeatsInv
<1> SUFFICES ASSUME InitRemote PROVE SeatsInv
  OBVIOUS
<1>1. game \in Registered /\ phase = "collecting" /\ present = Players
  BY DEF InitRemote, Init
<1>2. PICK s \in Configured :
         scratch \in StartRound([phase |-> "collecting", round |-> 1, present |-> Players, scratch |-> s])
  BY DEF InitRemote, Init
<1>3. Typed(scratch)
  BY <1>1, <1>2, ConfiguredShaped, OpensTyped
<1> QED
  BY <1>1, <1>3 DEF SeatsInv

LEMMA NextSeats ==
  ASSUME game' = game, me' = me
  PROVE  /\ Players' = Players
         /\ Typed(scratch)' <=> Typed(scratch')
         /\ Offered(scratch)' <=> Offered(scratch')
         /\ MailSound(device, mail)' <=> MailSound(device', mail')
         /\ FlagsMean(device, mail, Ctx)' <=> FlagsMean(device', mail', Ctx')
         /\ RefusalMeans(Ctx)' <=> RefusalMeans(Ctx')
         /\ RevealFrame(Ctx)' = RevealFrame(Ctx')
<1>1. Players' = Players
  BY DEF Players
<1>2. Typed(scratch)' <=> Typed(scratch')
  BY <1>1 DEF Typed
<1>3. Offered(scratch)' <=> Offered(scratch')
  BY DEF Offered
<1>4. MailSound(device, mail)' <=> MailSound(device', mail')
  BY DEF MailSound, Sendable, Says
<1>5. FlagsMean(device, mail, Ctx)' <=> FlagsMean(device', mail', Ctx')
  <2>1. Held(Ctx)' = Held(Ctx')
    BY DEF Held
  <2>2. HasVoted(Ctx.scratch)' <=> HasVoted(Ctx'.scratch)
    BY DEF HasVoted
  <2>3. Sayable(Ctx.scratch, mail[1].body)' <=> Sayable(Ctx'.scratch, mail'[1].body)
    BY DEF Sayable
  <2> QED
    BY <2>1, <2>2, <2>3 DEF FlagsMean, Says
<1>6. RefusalMeans(Ctx)' <=> RefusalMeans(Ctx')
  BY DEF RefusalMeans, Held
<1>8. RevealFrame(Ctx)' = RevealFrame(Ctx')
  BY DEF RevealFrame
<1> QED
  BY <1>1, <1>2, <1>3, <1>4, <1>5, <1>6, <1>8

LEMMA SeatsStay ==
  ASSUME game' = game, me' = me, present' \subseteq Players, Typed(scratch'), phase' = "guessing" => Offered(scratch')
  PROVE  SeatsInv'
  BY NextSeats DEF SeatsInv

\* The table is scored from what is there.
LEMMA TableIsScored ==
  ASSUME TableInv, AdvanceVoting \/ AdvanceGuessing
  PROVE  scratch' = scratch /\ phase' = "leaderboard"
<1>1. CASE AdvanceVoting
  <2>1. game = "trivia" /\ scratch' = DisputeVote(Ctx).scratch
    BY <1>1 DEF AdvanceVoting, AdvanceScoring, TableInv
  <2> QED
    BY <1>1, <2>1, ScoringTells DEF Ctx, AdvanceVoting, AdvanceScoring, TableInv
<1>2. CASE AdvanceGuessing
  <2>1. game \notin {"trivia", "same-branch"} /\ scratch' = ResolveDecision(Ctx).scratch
    BY <1>2 DEF AdvanceGuessing, AdvanceScoring, TableInv
  <2> QED
    BY <1>2, <2>1, ScoringTells DEF Ctx, AdvanceGuessing, AdvanceScoring, TableInv
<1> QED
  BY <1>1, <1>2

LEMMA SeatsStep == ScreenInv /\ SeatsInv /\ LockInv /\ [NextRemote]_<<vars, mine>> => SeatsInv'
<1> SUFFICES ASSUME ScreenInv, SeatsInv, LockInv, [NextRemote]_<<vars, mine>> PROVE SeatsInv'
  OBVIOUS
<1>0. /\ game \in Registered /\ DOMAIN Ctx.scratch = Shape /\ Ctx.scratch = scratch /\ Ctx.phase = phase
      /\ present \subseteq Players /\ Typed(scratch) /\ (phase = "guessing" => Offered(scratch)) /\ round \in Nat
  BY DEF ScreenInv, TableInv, SeatsInv, LockInv, Ctx
<1>1. CASE Tap \/ Ignored \/ Reload \/ UNCHANGED <<vars, mine>>
  <2>1. UNCHANGED <<game, phase, present, scratch, me>>
    BY <1>1 DEF Tap, Ignored, Reload, vars, mine
  <2> QED
    BY <1>0, <2>1, SeatsStay
<1>2. CASE Deliver
  <2>1. UNCHANGED <<game, phase, present, me>> /\ me \in Players
    BY <1>0, <1>2 DEF Deliver, Wanted, LockInv
  <2>2. CASE mail[1].kind = "move"
    <3>1. phase = "collecting" /\ scratch' = CollectMove(Ctx, me, Body)
      BY <1>2, <2>2 DEF Deliver, Wanted
    <3>2. game = "same-branch" => "text" \in DOMAIN Body \/ Body.number \in Int
      <4>1. game = "same-branch" => Body = [text |-> "words"] \/ \E v \in 0 .. 100 : Body = [number |-> v]
        BY <1>2 DEF Deliver, Wanted, LockInv, MailSound, Sendable, Body
      <4> QED
        BY <4>1
    <3> QED
      BY <1>0, <2>1, <3>1, <3>2, MoveTyped, SeatsStay
  <2>3. CASE mail[1].kind # "move"
    <3>1. scratch' = CollectVote(Ctx, me, Body)
      BY <1>2, <2>3 DEF Deliver
    <3> QED
      BY <1>0, <2>1, <3>1, VoteTyped, SeatsStay
  <2> QED
    BY <2>2, <2>3
<1>3. CASE Restart
  <2>1. PICK s \in Configured :
           scratch' \in StartRound([phase |-> "collecting", round |-> 1, present |-> present, scratch |-> s])
    BY <1>3 DEF Restart
  <2>2. Typed(scratch')
    BY <1>0, <2>1, ConfiguredShaped, OpensTyped
  <2> QED
    BY <1>0, <1>3, <2>2, SeatsStay DEF Restart
<1>4. CASE EngineSteps
  <2>1. me' = me
    BY <1>4 DEF EngineSteps
  <2>2. CASE AdvanceCollecting
    <3>1. PICK r \in Reveal(Ctx) : scratch' = r.scratch /\ phase' = IF r.guess THEN "guessing" ELSE "disputing"
      BY <2>2 DEF AdvanceCollecting
    <3>2. Typed(r.scratch) /\ (r.guess => Offered(r.scratch))
      BY <1>0, <3>1, RevealTyped
    <3> QED
      BY <1>0, <2>1, <2>2, <3>1, <3>2, SeatsStay DEF AdvanceCollecting
  <2>3. CASE AdvanceDisputing
    BY <1>0, <2>1, <2>3, SeatsStay DEF AdvanceDisputing
  <2>4. CASE AdvanceVoting \/ AdvanceGuessing
    <3>1. UNCHANGED <<game, present>>
      BY <2>4 DEF AdvanceVoting, AdvanceGuessing, AdvanceScoring
    <3>2. scratch' = scratch /\ phase' = "leaderboard"
      BY <2>4, TableIsScored DEF ScreenInv
    <3> QED
      BY <1>0, <2>1, <3>1, <3>2, SeatsStay
  <2>5. CASE AdvanceLeaderboard
    <3>1. CASE phase' = "complete"
      <4>1. UNCHANGED <<game, present, scratch>>
        BY <2>5, <3>1 DEF AdvanceLeaderboard
      <4> QED
        BY <1>0, <2>1, <3>1, <4>1, SeatsStay
    <3>2. CASE phase' # "complete"
      <4> DEFINE c == [Ctx EXCEPT !.round = round + 1]
      <4>1. UNCHANGED <<game, present>> /\ phase' = "collecting" /\ scratch' \in StartRound(c)
        BY <2>5, <3>2 DEF AdvanceLeaderboard
      <4>2. c.scratch = scratch /\ c.round = round + 1
        BY DEF Ctx
      <4> HIDE DEF c
      <4>3. c.round \in Nat \ {0}
        BY <1>0, <4>2
      <4> QED
        BY <1>0, <2>1, <4>1, <4>2, <4>3, OpensTyped, SeatsStay
    <3> QED
      BY <3>1, <3>2
  <2> QED
    BY <1>4, <2>2, <2>3, <2>4, <2>5 DEF EngineSteps, Closes, Opens
<1>5. ASSUME NEW p \in Players, AnotherPlays(p) PROVE SeatsInv'
  <2>1. UNCHANGED <<game, phase, present, me>>
    BY <1>5 DEF AnotherPlays, SubmitMove, SubmitVote, mine
  <2>2. CASE SubmitMove(p)
    <3>1. PICK m \in Moves(Ctx, p) : scratch' = CollectMove(Ctx, p, m)
      BY <2>2 DEF SubmitMove
    <3>2. game = "same-branch" => "text" \in DOMAIN m \/ m.number \in Int
      BY <3>1, RemotesAssumption DEF Moves, SameBranch!Moves
    <3>3. phase = "collecting"
      BY <2>2 DEF SubmitMove
    <3> QED
      BY <1>0, <2>1, <3>1, <3>2, <3>3, MoveTyped, SeatsStay
  <2>3. CASE SubmitVote(p)
    <3>1. PICK v : scratch' = CollectVote(Ctx, p, v)
      BY <2>3 DEF SubmitVote
    <3> QED
      BY <1>0, <2>1, <3>1, VoteTyped, SeatsStay
  <2> QED
    BY <1>5, <2>2, <2>3 DEF AnotherPlays
<1>6. ASSUME NEW p \in Players, Comings(p) PROVE SeatsInv'
  <2>1. UNCHANGED <<game, phase, scratch, me>> /\ present' \subseteq Players
    BY <1>0, <1>6 DEF Comings, Disconnect, Join
  <2> QED
    BY <1>0, <2>1, SeatsStay
<1> QED
  BY <1>1, <1>2, <1>3, <1>4, <1>5, <1>6 DEF NextRemote

\* A device that remembers nothing claims nothing.
LEMMA NothingClaimed ==
  ASSUME NEW d, NEW m, NEW c, d.sent = None, ~d.voted
  PROVE  FlagsMean(d, m, c)
  BY DEF FlagsMean

\* The flags speak of the same table.
LEMMA SameClaims ==
  ASSUME NEW d, NEW e, NEW m, NEW c, FlagsMean(d, m, c), e.round = d.round, e.sent = d.sent, e.voted = d.voted,
         e.rejected = d.rejected
  PROVE  FlagsMean(e, m, c)
  BY DEF FlagsMean

LEMMA LockInit == InitRemote => LockInv
<1> SUFFICES ASSUME InitRemote PROVE LockInv
  OBVIOUS
<1>1. game \in Registered /\ round = 1 /\ present = Players /\ mail = None /\ Ctx.round = 1
  BY DEF InitRemote, Init, Ctx
<1>2. me \in Players => Fresher(Blank, device, 1) /\ device.rejected = FALSE
  BY <1>1, OpenedLocks DEF InitRemote
<1>3. me \notin Players => device = Blank
  BY DEF InitRemote
<1>4. device.sent = None /\ device.voted = FALSE /\ device.rejected = FALSE /\ device.round \in {0, 1}
      /\ (me \in Players => device.round = 1)
  <2>1. Blank.round = 0 /\ Blank.sent = None /\ Blank.voted = FALSE /\ Blank.rejected = FALSE
    BY DEF Blank
  <2>2. CASE me \in Players
    <3>1. device.round = 1 /\ device.sent = None /\ device.rejected = FALSE
      BY <1>2, <2>1, <2>2 DEF Fresher
    <3>2. device.voted = FALSE
      BY <1>2, <2>1, <2>2 DEF Fresher
    <3> QED
      BY <3>1, <3>2
  <2>3. CASE me \notin Players
    BY <1>3, <2>1, <2>3
  <2> QED
    BY <2>2, <2>3
<1>5. FlagsMean(device, mail, Ctx)
  BY <1>4, NothingClaimed
<1> QED
  BY <1>1, <1>4, <1>5 DEF LockInv, MailSound, Says

\* The invariant after a step, in the state it leads to.
LEMMA LocksStay ==
  ASSUME game' = game, me' = me, round' \in Nat, device'.round \in Nat,
         me \in present' => device'.round = round', mail' # None => me \in present',
         MailSound(device', mail'), ~excused' => FlagsMean(device', mail', Ctx'),
         me \in present' /\ device'.rejected => RefusalMeans(Ctx')
  PROVE  LockInv'
  BY NextSeats DEF LockInv

LEMMA TapStep ==
  ASSUME ScreenInv, SeatsInv, LockInv, Tap
  PROVE  LockInv'
<1>1. PICK m \in Controls(device) : device' = Tapped(device, m) /\ mail' = IF me \in present THEN <<m, device.round>> ELSE None
  BY DEF Tap
<1>2. UNCHANGED <<game, phase, round, present, scratch, me>> /\ mail = None /\ excused' = (excused \/ me \notin present)
  BY DEF Tap, vars
<1>3. Ctx' = Ctx
  BY <1>2 DEF Ctx
<1>4. game \in Registered /\ DOMAIN device = DOMAIN Blank
  BY DEF ScreenInv, TableInv, DeviceInv
<1>5. device'.round = device.round /\ device'.rejected = device.rejected
  BY <1>1, <1>4, TapLocks
<1>6. CASE me \notin present
  BY <1>1, <1>2, <1>3, <1>5, <1>6, LocksStay DEF LockInv, MailSound, Says
<1>7. CASE me \in present
  <2>1. mail' # None /\ mail'[1] = m
    BY <1>1, <1>7 DEF None
  <2>2. /\ Sendable(m)
        /\ m.kind = "move" => phase = "collecting" /\ Sayable(scratch, m.body)
        /\ m.kind = "vote" => phase \in {"disputing", "voting", "guessing"} /\ game # "same-branch"
    BY <1>7, ControlsSay
  <2>3. /\ m.kind = "move" => device'.sent = <<m.body>> /\ device'.voted = device.voted
        /\ m.kind = "vote" => device'.sent = device.sent
    BY <1>1, <1>4, <2>2, TapLocks
  <2>4. MailSound(device', mail')
    BY <2>1, <2>2, <2>3 DEF MailSound, Says
  <2>5. Ctx.phase = phase /\ Ctx.round = round /\ Ctx.scratch = scratch /\ device.round = round /\ round \in Nat
    BY <1>7 DEF Ctx, LockInv
  <2>6. ASSUME ~excused' PROVE FlagsMean(device', mail', Ctx)
    <3>1. FlagsMean(device, None, Ctx)
      BY <1>2, <2>6 DEF LockInv
    <3>2. CASE m.kind = "move"
      BY <1>5, <2>1, <2>2, <2>3, <2>5, <3>1, <3>2 DEF FlagsMean, Says
    <3>3. CASE m.kind = "vote"
      BY <1>5, <2>1, <2>2, <2>3, <2>5, <3>1, <3>3 DEF FlagsMean, Says
    <3> QED
      BY <2>2, <3>2, <3>3 DEF Sendable
  <2> QED
    BY <1>2, <1>3, <1>5, <1>7, <2>4, <2>5, <2>6, LocksStay DEF LockInv
<1> QED
  BY <1>6, <1>7

LEMMA DeliverStep ==
  ASSUME ScreenInv, SeatsInv, LockInv, Deliver
  PROVE  LockInv'
<1>1. /\ UNCHANGED <<game, phase, round, present, me>> /\ mail # None /\ mail' = None /\ me \in present
      /\ device.round = round /\ round \in Nat
  BY DEF Deliver, Wanted, LockInv
<1>2. /\ game \in Registered /\ DOMAIN device = DOMAIN Blank /\ DOMAIN Ctx.scratch = Shape /\ Ctx.scratch = scratch
      /\ Ctx.phase = phase /\ Ctx.round = round /\ Typed(scratch) /\ me \in Players
      /\ Ctx'.phase = phase /\ Ctx'.round = round /\ Ctx'.scratch = scratch'
  BY <1>1 DEF ScreenInv, TableInv, DeviceInv, SeatsInv, Ctx
<1>3. Sendable(mail[1]) /\ (mail[1].kind = "move" => device.sent \in {None, <<Body>>})
  BY <1>1 DEF LockInv, MailSound, Says, Body
<1>4. MailSound(device', mail')
  BY <1>1 DEF MailSound, Says
<1>5. CASE mail[1].kind = "move"
  <2>1. phase = "collecting" /\ scratch' = CollectMove(Ctx, me, Body)
    BY <1>5 DEF Deliver, Wanted
  <2>2. CASE Refused(Ctx, me, Body)
    <3>1. device' = OnRejected(device) /\ excused' = (excused \/ (mail[1].kind # "move" /\ scratch' = scratch))
      BY <1>5, <2>2 DEF Deliver
    <3>2. scratch' = scratch /\ RefusalMeans(Ctx)
      BY <1>2, <2>1, <2>2, RefusalKeeps DEF RefusalMeans
    <3>3. Ctx' = Ctx
      BY <1>1, <3>2 DEF Ctx
    <3>4. device'.round = device.round /\ device'.sent = device.sent /\ device'.voted = device.voted
          /\ device'.rejected = TRUE
      BY <1>2, <3>1 DEF OnRejected, Blank
    <3>5. ~excused' => FlagsMean(device', mail', Ctx)
      BY <1>1, <1>2, <2>1, <1>5, <3>1, <3>4 DEF LockInv, FlagsMean, Says
    <3> QED
      BY <1>1, <1>4, <3>2, <3>3, <3>4, <3>5, LocksStay
  <2>3. CASE ~Refused(Ctx, me, Body)
    <3>1. device' = device /\ excused' = (excused \/ device.rejected)
      BY <1>5, <2>3 DEF Deliver
    <3>2. Sayable(scratch, Body) => Held(Ctx') = <<Body>>
      BY <1>2, <2>1, <2>3, HeldAfterOwn
    <3>3. ASSUME ~excused' PROVE FlagsMean(device', mail', Ctx')
      <4>1. FlagsMean(device, mail, Ctx) /\ ~device.rejected
        BY <3>1, <3>3 DEF LockInv
      <4>2. device.sent # None => Sayable(scratch, Body)
        BY <1>1, <1>2, <1>5, <2>1, <4>1 DEF FlagsMean, Says, Body
      <4> QED
        BY <1>1, <1>2, <1>3, <1>5, <2>1, <3>1, <3>2, <4>1, <4>2 DEF FlagsMean, Says
    <3>4. device.rejected => RefusalMeans(Ctx')
      <4> SUFFICES ASSUME device.rejected PROVE RefusalMeans(Ctx')
        OBVIOUS
      <4>1. RefusalMeans(Ctx)
        BY <1>1 DEF LockInv
      <4>2. ASSUME game = "trivia" PROVE FALSE
        <5>1. scratch.submitted[me] = Trivia!Nobody
          BY <1>2, <2>3, <4>2 DEF Refused, Trivia!Refused
        <5>2. Held(Ctx) = None
          BY <1>2, <4>2, <5>1 DEF Held, Trivia!Held, Trivia!None, None
        <5> QED
          BY <4>1, <4>2, <5>2 DEF RefusalMeans
      <4> QED
        BY <4>1, <4>2 DEF RefusalMeans
    <3> QED
      BY <1>1, <1>4, <3>1, <3>3, <3>4, LocksStay
  <2> QED
    BY <2>2, <2>3
<1>6. CASE mail[1].kind # "move"
  <2>1. /\ phase \in {"disputing", "voting", "guessing"} /\ scratch' = CollectVote(Ctx, me, Body) /\ device' = device
        /\ excused' = (excused \/ scratch' = scratch)
    BY <1>6 DEF Deliver, Wanted
  <2>2. Held(Ctx') = Held(Ctx)
    BY <1>2, <2>1, VoteAnswered, SameHeld
  <2>3. ASSUME ~excused' PROVE FlagsMean(device', mail', Ctx')
    <3>1. FlagsMean(device, mail, Ctx) /\ scratch' # scratch
      BY <2>1, <2>3 DEF LockInv
    <3>2. phase = "guessing" => HasVoted(scratch')
      <4>1. game = "lone-leaf" => Body # Nobody
        BY <1>3 DEF Sendable, Body
      <4> QED
        BY <1>2, <2>1, <3>1, <4>1, VoteCounts
    <3> QED
      BY <1>1, <1>2, <1>6, <2>1, <2>2, <3>1, <3>2 DEF FlagsMean, Says
  <2>4. device.rejected => RefusalMeans(Ctx')
    BY <1>1, <2>2 DEF LockInv, RefusalMeans
  <2> QED
    BY <1>1, <1>4, <2>1, <2>3, <2>4, LocksStay
<1> QED
  BY <1>5, <1>6

LEMMA ReloadStep ==
  ASSUME ScreenInv, SeatsInv, LockInv, Reload
  PROVE  LockInv'
<1>1. UNCHANGED <<game, phase, round, present, scratch, me, mail>> /\ device' = CatchUp(Blank, Ctx) /\ mail = None
      /\ round \in Nat /\ game \in Registered /\ Ctx.round = round
  BY DEF Reload, LockInv, vars, ScreenInv, TableInv, Ctx
<1>2. Fresher(Blank, device', round) /\ device'.rejected = FALSE
  BY <1>1, CaughtUpLocks
<1>3. device'.round = round /\ device'.sent = None /\ device'.voted = FALSE
  BY <1>2 DEF Fresher, Blank
<1>4. FlagsMean(device', mail', Ctx')
  BY <1>3, NothingClaimed
<1> QED
  BY <1>1, <1>2, <1>3, <1>4, LocksStay DEF MailSound, Says

\* A round opens on the device, or out of its sight, and the flags of another
\* round, or none, are what is left.
LEMMA OpeningStep ==
  ASSUME ScreenInv, LockInv, UNCHANGED <<game, present, me, mail>>, round' \in Nat, Receives(Opened(device, Ctx')),
         ~excused' => /\ device'.round # round' \/ (device'.sent = None /\ ~device'.voted)
                      /\ me \notin present => (device.sent = None /\ ~device.voted) \/ device.round <= round'
  PROVE  LockInv'
<1>1. game \in Registered /\ DOMAIN device = DOMAIN Blank /\ Ctx'.round = round'
  BY DEF ScreenInv, TableInv, DeviceInv, Ctx
<1>2. CASE me \in present
  <2>1. device' = Opened(device, Ctx')
    BY <1>2 DEF Receives
  <2>2. Fresher(device, device', round') /\ device'.rejected = FALSE
    BY <1>1, <2>1, OpenedLocks
  <2>3. device'.round = round' /\ (device'.sent = device.sent \/ device'.sent = None)
    BY <2>2 DEF Fresher
  <2>4. MailSound(device', mail')
    BY <2>3 DEF LockInv, MailSound
  <2>5. ~excused' => FlagsMean(device', mail', Ctx')
    BY <2>3, NothingClaimed
  <2> QED
    BY <1>2, <2>2, <2>3, <2>4, <2>5, LocksStay
<1>3. CASE me \notin present
  <2>1. device' = device /\ mail' = None
    BY <1>3 DEF Receives, LockInv
  <2>2. ~excused' => FlagsMean(device', mail', Ctx')
    BY <1>1, <1>3, <2>1 DEF FlagsMean, Says
  <2> QED
    BY <1>3, <2>1, <2>2, LocksStay DEF LockInv, MailSound, Says
<1> QED
  BY <1>2, <1>3

\* Nobody's device stays blank, for it has no controls.
Unowned == me \notin Players => device = Blank

LEMMA BlankHasNoControls == game \in Registered => Controls(Blank) = {}
<1>1. Blank.phase = "configuring"
  BY DEF Blank
<1> QED
  BY <1>1 DEF Registered, Controls, Trivia!Controls, LiarLiar!Controls, Zinger!Controls, OddBird!Controls,
              SameBranch!Controls, Sketchy!Controls, LoneLeaf!Controls

LEMMA UnownedStep == ScreenInv /\ SeatsInv /\ LockInv /\ Unowned /\ [NextRemote]_<<vars, mine>> => Unowned'
<1> SUFFICES ASSUME ScreenInv, SeatsInv, LockInv, Unowned, [NextRemote]_<<vars, mine>>, me' \notin Players'
             PROVE  device' = Blank
  BY DEF Unowned
<1>1. game' = game /\ me' = me
  BY DEF NextRemote, Tap, Deliver, Ignored, Reload, Restart, EngineSteps, Closes, Opens, AdvanceCollecting, AdvanceDisputing,
         AdvanceVoting, AdvanceGuessing, AdvanceScoring, AdvanceLeaderboard, AnotherPlays, SubmitMove, SubmitVote, Comings,
         Disconnect, Join, vars, mine
<1>2. me \notin Players /\ device = Blank /\ me \notin present /\ mail = None /\ game \in Registered
  BY <1>1 DEF Players, Unowned, SeatsInv, LockInv, ScreenInv, TableInv
<1>3. ~Tap /\ ~Deliver /\ ~Reload
  BY <1>2, BlankHasNoControls DEF Tap, Deliver, Wanted, Reload
<1>4. Ignored \/ Restart \/ EngineSteps \/ UNCHANGED <<vars, mine>> \/ \E p \in Players : AnotherPlays(p) \/ Comings(p)
  BY <1>3 DEF NextRemote
<1> QED
  BY <1>2, <1>4 DEF Ignored, Restart, EngineSteps, Closes, Opens, AnotherPlays, Comings, Receives, mine

\* What the device has seen of its own round leaves it as it was.
LEMMA KeptLocks ==
  ASSUME LockInv, NEW x, Receives(x), Fresher(device, x, round), x.rejected = device.rejected
  PROVE  device'.round = device.round /\ device'.sent = device.sent /\ device'.voted = device.voted
         /\ device'.rejected = device.rejected
<1>1. CASE me \in present
  <2>1. device.round = round /\ device' = x
    BY <1>1 DEF LockInv, Receives
  <2>2. x.voted = device.voted
    BY <2>1 DEF Fresher
  <2> QED
    BY <2>1, <2>2 DEF Fresher
<1>2. CASE me \notin present
  BY <1>2 DEF Receives
<1> QED
  BY <1>1, <1>2

\* Whatever happens within the round, the flags stay true of the table.
LEMMA SameRoundStep ==
  ASSUME ScreenInv, SeatsInv, LockInv, Unowned, UNCHANGED <<game, round, me, mail>>, me \in present' <=> me \in present,
         device'.round = device.round, device'.sent = device.sent, device'.voted = device.voted,
         device'.rejected = device.rejected, ~excused' => ~excused,
         me \in Players => Held(Ctx') = Held(Ctx) \/ (game = "odd-bird" /\ Held(Ctx') = <<"flush">>),
         phase' = "collecting" => phase = "collecting" /\ \A m : Sayable(scratch, m) => Sayable(scratch', m),
         phase = "guessing" /\ phase' = "guessing" /\ me \in Players /\ HasVoted(scratch) => HasVoted(scratch'),
         phase \notin {"collecting", "guessing"} => phase' # "guessing"
  PROVE  LockInv'
<1>1. /\ Ctx.round = round /\ Ctx'.round = round /\ Ctx.phase = phase /\ Ctx'.phase = phase'
      /\ Ctx.scratch = scratch /\ Ctx'.scratch = scratch'
  BY DEF Ctx
<1>2. MailSound(device', mail')
  BY DEF LockInv, MailSound
<1>3. game = "odd-bird" => Held(Ctx) \in {None, <<"flush">>}
  BY DEF Held, OddBird!Held, OddBird!None, None
<1>4. me \in present => me \in Players
  BY DEF SeatsInv
<1>5. me \in present' /\ device'.rejected => RefusalMeans(Ctx')
  <2> SUFFICES ASSUME me \in present, device.rejected PROVE RefusalMeans(Ctx')
    OBVIOUS
  <2>1. RefusalMeans(Ctx) /\ me \in Players
    BY <1>4 DEF LockInv
  <2> QED
    BY <2>1 DEF RefusalMeans
<1>6. ~excused' => FlagsMean(device', mail', Ctx')
  <2> SUFFICES ASSUME ~excused' PROVE FlagsMean(device', mail', Ctx')
    OBVIOUS
  <2>1. FlagsMean(device, mail, Ctx)
    BY DEF LockInv
  <2>2. CASE me \notin Players
    <3>1. device.sent = None /\ device.voted = FALSE
      BY <2>2 DEF Unowned, Blank
    <3> QED
      BY <3>1, NothingClaimed
  <2>3. CASE me \in Players
    <3>1. device.sent # None \/ device.voted => device.round <= round
      BY <1>1, <2>1 DEF FlagsMean
    <3>2. Says(mail, "move") /\ device.sent # None /\ phase' = "collecting" => Sayable(scratch', mail[1].body)
      BY <1>1, <2>1 DEF FlagsMean
    <3>3. device.round = round /\ device.sent # None /\ ~device.rejected /\ ~Says(mail, "move") => Held(Ctx') = device.sent
      BY <1>1, <1>3, <2>1, <2>3 DEF FlagsMean
    <3>4. device.round = round /\ device.voted => phase' # "collecting"
      BY <1>1, <2>1 DEF FlagsMean
    <3>5. device.round = round /\ device.voted /\ phase' = "guessing" /\ ~Says(mail, "vote") => HasVoted(scratch')
      BY <1>1, <2>1, <2>3 DEF FlagsMean
    <3> QED
      BY <1>1, <3>1, <3>2, <3>3, <3>4, <3>5 DEF FlagsMean
  <2> QED
    BY <2>2, <2>3
<1> QED
  BY <1>2, <1>5, <1>6, LocksStay DEF LockInv

LEMMA IgnoredStep ==
  ASSUME LockInv, Ignored
  PROVE  LockInv'
<1>1. UNCHANGED <<game, phase, round, present, scratch, me, device>> /\ mail' = None /\ excused' = TRUE
  BY DEF Ignored, vars
<1>2. Ctx' = Ctx
  BY <1>1 DEF Ctx
<1> QED
  BY <1>1, <1>2, LocksStay DEF LockInv, MailSound, Says

LEMMA RestartStep ==
  ASSUME ScreenInv, LockInv, Restart
  PROVE  LockInv'
<1>1. /\ UNCHANGED <<game, present, me, mail>> /\ round' = 1 /\ Receives(Opened(device, Ctx'))
      /\ ~excused' => device'.round # device.round \/ (device'.sent = None /\ ~device'.voted /\ mail = None)
  BY DEF Restart, Excused
<1>2. game \in Registered /\ DOMAIN device = DOMAIN Blank /\ Ctx'.round = 1
  BY <1>1 DEF ScreenInv, TableInv, DeviceInv, Ctx
<1>3. CASE me \in present
  <2>1. device' = Opened(device, Ctx')
    BY <1>1, <1>3 DEF Receives
  <2>2. Fresher(device, device', 1)
    BY <1>2, <2>1, OpenedLocks
  <2>3. device'.round = 1 /\ (device.round # 1 => device'.sent = None)
    BY <2>2 DEF Fresher
  <2>4. device.round # 1 => device'.voted = FALSE
    BY <2>2 DEF Fresher
  <2>5. device.round = 1 => device'.voted = device.voted
    BY <2>2 DEF Fresher
  <2>6. ~excused' => device'.sent = None /\ ~device'.voted
    BY <1>1, <2>3, <2>4
  <2> QED
    BY <1>1, <1>3, <2>6, OpeningStep
<1>4. CASE me \notin present
  <2>1. device' = device
    BY <1>1, <1>4 DEF Receives
  <2>2. ~excused' => device.sent = None /\ ~device.voted
    BY <1>1, <2>1
  <2> QED
    BY <1>1, <2>1, <2>2, OpeningStep
<1> QED
  BY <1>3, <1>4

LEMMA ClosesStep ==
  ASSUME ScreenInv, SeatsInv, LockInv, Unowned, Closes, UNCHANGED <<me, mail>>, Excused(FALSE)
  PROVE  LockInv'
<1>1. /\ game \in Registered /\ DOMAIN device = DOMAIN Blank /\ DOMAIN Ctx.scratch = Shape /\ Ctx.scratch = scratch
      /\ Ctx'.scratch = scratch' /\ Ctx'.round = round'
  BY DEF ScreenInv, TableInv, DeviceInv, Ctx
<1>2. ASSUME AdvanceCollecting, Receives(Dealt(Seen(OnReveal(device, reveal'[1]), Ctx'), Ctx')) PROVE LockInv'
  <2> DEFINE d == OnReveal(device, reveal'[1])
             x == Dealt(Seen(d, Ctx'), Ctx')
  <2>1. UNCHANGED <<game, round, present>> /\ phase = "collecting" /\ phase' # "collecting"
    BY <1>2 DEF AdvanceCollecting
  <2>2. DOMAIN d = DOMAIN Blank /\ \A f \in {"round", "sent", "voted", "rejected"} : d[f] = device[f]
    BY <1>1, RevealLocks
  <2>3. Receives(x)
    BY <1>2
  <2> HIDE DEF d
  <2>4. DOMAIN Seen(d, Ctx') = DOMAIN Blank /\ Fresher(d, Seen(d, Ctx'), round) /\ Seen(d, Ctx').rejected = d.rejected
    BY <1>1, <2>1, <2>2, Folded, SeenLocks
  <2>5. x.round = Seen(d, Ctx').round /\ x.sent = Seen(d, Ctx').sent /\ x.voted = Seen(d, Ctx').voted
        /\ x.rejected = Seen(d, Ctx').rejected
    BY <1>1, <2>4, DealtLocks
  <2> HIDE DEF x
  <2>6. x.rejected = device.rejected /\ Fresher(device, x, round)
    <3>1. Fresher(device, Seen(d, Ctx'), round)
      BY <2>2, <2>4 DEF Fresher
    <3> QED
      BY <2>2, <2>4, <2>5, <3>1 DEF Fresher
  <2>7. device'.round = device.round /\ device'.sent = device.sent /\ device'.voted = device.voted
        /\ device'.rejected = device.rejected
    BY <2>3, <2>6, KeptLocks
  <2>8. Held(Ctx') = Held(Ctx)
    <3>1. PICK r \in Reveal(Ctx) : scratch' = r.scratch
      BY <1>2 DEF AdvanceCollecting
    <3> QED
      BY <1>1, <3>1, RevealAnswered, SameHeld
  <2>9. ~excused' => ~excused
    BY <2>7 DEF Excused
  <2> QED
    BY <2>1, <2>7, <2>8, <2>9, SameRoundStep
<1>3. ASSUME AdvanceDisputing, Receives(Seen(device, Ctx')) PROVE LockInv'
  <2>1. UNCHANGED <<game, round, present, scratch>> /\ phase = "disputing" /\ phase' \notin {"collecting", "guessing"}
    BY <1>3 DEF AdvanceDisputing
  <2>2. Fresher(device, Seen(device, Ctx'), round) /\ Seen(device, Ctx').rejected = device.rejected
    BY <1>1, <2>1, SeenLocks
  <2>3. device'.round = device.round /\ device'.sent = device.sent /\ device'.voted = device.voted
        /\ device'.rejected = device.rejected
    BY <1>3, <2>2, KeptLocks
  <2>4. Held(Ctx') = Held(Ctx) /\ (~excused' => ~excused)
    BY <1>1, <2>1, <2>3, SameHeld DEF Excused
  <2> QED
    BY <2>1, <2>3, <2>4, SameRoundStep
<1>4. ASSUME AdvanceVoting \/ AdvanceGuessing, Receives(Seen(OnReveal(device, reveal'[1]), Ctx')) PROVE LockInv'
  <2> DEFINE d == OnReveal(device, reveal'[1])
             x == Seen(d, Ctx')
  <2>1. UNCHANGED <<game, round, present>> /\ scratch' = scratch /\ phase' = "leaderboard"
    BY <1>4, TableIsScored DEF AdvanceVoting, AdvanceGuessing, AdvanceScoring, ScreenInv
  <2>2. DOMAIN d = DOMAIN Blank /\ \A f \in {"round", "sent", "voted", "rejected"} : d[f] = device[f]
    BY <1>1, RevealLocks
  <2>3. Receives(x)
    BY <1>4
  <2> HIDE DEF d
  <2>4. Fresher(d, x, round) /\ x.rejected = d.rejected
    BY <1>1, <2>1, <2>2, SeenLocks
  <2> HIDE DEF x
  <2>5. Fresher(device, x, round) /\ x.rejected = device.rejected
    BY <2>2, <2>4 DEF Fresher
  <2>6. device'.round = device.round /\ device'.sent = device.sent /\ device'.voted = device.voted
        /\ device'.rejected = device.rejected
    BY <2>3, <2>5, KeptLocks
  <2>7. Held(Ctx') = Held(Ctx) /\ (~excused' => ~excused)
    BY <1>1, <2>1, <2>6, SameHeld DEF Excused
  <2> QED
    BY <2>1, <2>6, <2>7, SameRoundStep
<1> QED
  BY <1>2, <1>3, <1>4 DEF Closes

LEMMA OpensStep ==
  ASSUME ScreenInv, SeatsInv, LockInv, Unowned, Opens, UNCHANGED <<me, mail>>, Excused(FALSE)
  PROVE  LockInv'
<1>1. /\ game \in Registered /\ DOMAIN device = DOMAIN Blank /\ DOMAIN Ctx.scratch = Shape /\ Ctx.scratch = scratch
      /\ Ctx'.scratch = scratch' /\ Ctx'.round = round' /\ round \in Nat /\ Ctx.round = round
      /\ UNCHANGED <<game, present>> /\ phase = "leaderboard"
  BY DEF ScreenInv, TableInv, DeviceInv, LockInv, Ctx, Opens, AdvanceLeaderboard
<1>2. CASE phase' = "complete"
  <2>1. UNCHANGED <<round, scratch>> /\ Receives(Seen(device, Ctx'))
    BY <1>2 DEF Opens, AdvanceLeaderboard
  <2>2. Fresher(device, Seen(device, Ctx'), round) /\ Seen(device, Ctx').rejected = device.rejected
    BY <1>1, <2>1, SeenLocks
  <2>3. device'.round = device.round /\ device'.sent = device.sent /\ device'.voted = device.voted
        /\ device'.rejected = device.rejected
    BY <2>1, <2>2, KeptLocks
  <2>4. Held(Ctx') = Held(Ctx) /\ (~excused' => ~excused)
    BY <1>1, <2>1, <2>3, SameHeld DEF Excused
  <2> QED
    BY <1>1, <1>2, <2>1, <2>3, <2>4, SameRoundStep
<1>3. CASE phase' # "complete"
  <2>1. round' = round + 1 /\ Receives(Opened(device, Ctx'))
    BY <1>3 DEF Opens, AdvanceLeaderboard
  <2>2. CASE me \in present
    <3>1. device' = Opened(device, Ctx') /\ device.round = round
      BY <2>1, <2>2 DEF Receives, LockInv
    <3>2. Fresher(device, device', round')
      BY <1>1, <3>1, OpenedLocks
    <3>3. device.round # round'
      BY <1>1, <2>1, <3>1
    <3>4. device'.voted = FALSE
      BY <3>2, <3>3 DEF Fresher
    <3>5. device'.sent = None /\ ~device'.voted
      BY <3>2, <3>3, <3>4 DEF Fresher
    <3> QED
      BY <1>1, <2>1, <2>2, <3>5, OpeningStep
  <2>3. CASE me \notin present
    <3>1. device' = device
      BY <2>1, <2>3 DEF Receives
    <3>2. ~excused' => FlagsMean(device, mail, Ctx)
      BY <3>1 DEF Excused, LockInv
    <3>3. ~excused' => (device.sent = None /\ ~device.voted) \/ device.round <= round
      BY <1>1, <3>2 DEF FlagsMean
    <3>4. device.round \in Nat
      BY DEF LockInv
    <3>5. ~excused' => (device.sent = None /\ ~device.voted) \/ (device.round # round + 1 /\ device.round <= round + 1)
      BY <1>1, <3>3, <3>4
    <3> QED
      BY <1>1, <2>1, <2>3, <3>1, <3>5, OpeningStep
  <2> QED
    BY <2>2, <2>3
<1> QED
  BY <1>2, <1>3

LEMMA AnotherStep ==
  ASSUME ScreenInv, SeatsInv, LockInv, Unowned, NEW p \in Players, AnotherPlays(p)
  PROVE  LockInv'
<1>1. /\ game \in Registered /\ DOMAIN Ctx.scratch = Shape /\ Ctx.scratch = scratch /\ DOMAIN scratch = Shape
      /\ Ctx'.scratch = scratch' /\ Typed(scratch) /\ Ctx.phase = phase
      /\ UNCHANGED <<game, phase, round, present, me, mail, device, excused>> /\ p # me
  BY DEF ScreenInv, TableInv, SeatsInv, Ctx, AnotherPlays, SubmitMove, SubmitVote, mine
<1>2. CASE SubmitMove(p)
  <2>1. PICK m : scratch' = CollectMove(Ctx, p, m)
    BY <1>2 DEF SubmitMove
  <2>2. phase = "collecting"
    BY <1>2 DEF SubmitMove
  <2>3. me \in Players => Held(Ctx') = Held(Ctx) \/ (game = "odd-bird" /\ Held(Ctx') = <<"flush">>)
    BY <1>1, <2>1, HeldByOthers
  <2>4. SameTelling(scratch, scratch')
    BY <1>1, <2>1, MoveTells
  <2>5. \A x : Sayable(scratch, x) => Sayable(scratch', x)
    BY <1>1, <2>4, SayableStays
  <2> QED
    BY <1>1, <2>2, <2>3, <2>5, SameRoundStep
<1>3. CASE SubmitVote(p)
  <2>1. PICK v \in Votes(Ctx, p) : scratch' = CollectVote(Ctx, p, v)
    BY <1>3 DEF SubmitVote
  <2>2. phase # "collecting"
    BY <1>3 DEF SubmitVote
  <2>3. Held(Ctx') = Held(Ctx)
    BY <1>1, <2>1, VoteAnswered, SameHeld
  <2>4. me \in Players /\ HasVoted(scratch) => HasVoted(scratch')
    BY <1>1, <2>1, VotedStays
  <2> QED
    BY <1>1, <2>2, <2>3, <2>4, SameRoundStep
<1> QED
  BY <1>2, <1>3 DEF AnotherPlays

LEMMA ComingsStep ==
  ASSUME ScreenInv, SeatsInv, LockInv, Unowned, NEW p \in Players, Comings(p)
  PROVE  LockInv'
<1>1. /\ game \in Registered /\ DOMAIN device = DOMAIN Blank /\ Ctx.scratch = scratch /\ Ctx'.scratch = scratch'
      /\ UNCHANGED <<game, phase, round, scratch, me>> /\ Ctx'.round = round /\ Ctx.round = round
      /\ Ctx.phase = phase /\ Ctx'.phase = phase /\ round \in Nat
  BY DEF ScreenInv, TableInv, DeviceInv, LockInv, Ctx, Comings, Disconnect, Join
<1>2. Held(Ctx') = Held(Ctx)
  BY <1>1, SameHeld
<1>3. CASE p # me
  <2>1. /\ Receives(Seen(device, Ctx')) /\ mail' = mail /\ Excused(FALSE) /\ (me \in present' <=> me \in present)
    BY <1>3 DEF Comings, Disconnect, Join
  <2>2. Fresher(device, Seen(device, Ctx'), round) /\ Seen(device, Ctx').rejected = device.rejected
    BY <1>1, SeenLocks
  <2>3. device'.round = device.round /\ device'.sent = device.sent /\ device'.voted = device.voted
        /\ device'.rejected = device.rejected
    BY <2>1, <2>2, KeptLocks
  <2>4. ~excused' => ~excused
    BY <2>1, <2>3 DEF Excused
  <2> QED
    BY <1>1, <1>2, <2>1, <2>3, <2>4, SameRoundStep
<1>4. CASE p = me /\ Disconnect(p)
  <2>1. present' = present \ {me} /\ me \in present
    BY <1>4 DEF Disconnect
  <2>2. device' = device /\ mail' = None /\ Excused(mail # None)
    BY <1>4, <2>1 DEF Comings, Disconnect, Join
  <2>3. ~excused' => ~excused /\ mail = None
    BY <2>2 DEF Excused
  <2>4. ~excused' => FlagsMean(device', mail', Ctx')
    BY <1>1, <1>2, <2>2, <2>3 DEF LockInv, FlagsMean, Says
  <2> QED
    BY <1>1, <2>1, <2>2, <2>4, LocksStay DEF LockInv, MailSound, Says
<1>5. CASE p = me /\ Join(p)
  <2>1. me \notin present
    BY <1>5 DEF Join
  <2>2. device' = CatchUp(device, Ctx') /\ mail' = mail /\ mail = None /\ Excused(device.rejected /\ device'.sent # None)
    BY <1>5, <2>1 DEF Comings, Disconnect, Join, LockInv
  <2>3. Fresher(device, device', round) /\ device'.rejected = FALSE
    BY <1>1, <2>2, CaughtUpLocks
  <2>4. device'.round = round /\ (device.round # round => device'.sent = None)
        /\ (device.round = round => device'.sent = device.sent)
    BY <2>3 DEF Fresher
  <2>5. device.round # round => device'.voted = FALSE
    BY <2>3 DEF Fresher
  <2>6. device.round = round => device'.voted = device.voted
    BY <2>3 DEF Fresher
  <2>7. ~excused' => FlagsMean(device', mail', Ctx')
    <3>1. CASE device.round # round
      BY <2>4, <2>5, <3>1, NothingClaimed
    <3>2. CASE device.round = round
      <4> SUFFICES ASSUME ~excused' PROVE FlagsMean(device', None, Ctx')
        BY <2>2
      <4>1. ~excused /\ (device.rejected => device.sent = None)
        BY <2>2, <2>4, <3>2 DEF Excused
      <4>2. FlagsMean(device, None, Ctx)
        BY <2>2, <4>1 DEF LockInv
      <4> QED
        BY <1>1, <1>2, <2>3, <2>4, <2>6, <3>2, <4>1, <4>2 DEF FlagsMean, Says
    <3> QED
      BY <3>1, <3>2
  <2> QED
    BY <1>1, <2>2, <2>3, <2>4, <2>7, LocksStay DEF MailSound, Says
<1> QED
  BY <1>3, <1>4, <1>5 DEF Comings

LEMMA LockStep == ScreenInv /\ SeatsInv /\ LockInv /\ Unowned /\ [NextRemote]_<<vars, mine>> => LockInv'
<1> SUFFICES ASSUME ScreenInv, SeatsInv, LockInv, Unowned, [NextRemote]_<<vars, mine>> PROVE LockInv'
  OBVIOUS
<1>1. CASE UNCHANGED <<vars, mine>>
  <2>1. UNCHANGED <<game, phase, round, present, scratch, me, device, mail, excused>>
    BY <1>1 DEF vars, mine
  <2>2. Ctx' = Ctx
    BY <2>1 DEF Ctx
  <2> QED
    BY <2>1, <2>2, LocksStay DEF LockInv
<1>2. CASE EngineSteps
  BY <1>2, ClosesStep, OpensStep DEF EngineSteps
<1> QED
  BY <1>1, <1>2, TapStep, DeliverStep, IgnoredStep, ReloadStep, RestartStep, AnotherStep, ComingsStep DEF NextRemote

-----------------------------------------------------------------------------
(* The frame the table guesses from.                                         *)

LEMMA VoteFrame ==
  ASSUME NEW c, NEW e, NEW p, NEW v, game \in Registered, game \notin {"trivia", "same-branch"}, DOMAIN c.scratch = Shape,
         e.scratch = CollectVote(c, p, v)
  PROVE  RevealFrame(e) = RevealFrame(c)
<1>1. CASE game = "liar-liar"
  <2>1. e.scratch.options = c.scratch.options /\ e.scratch.submissions = c.scratch.submissions
    BY <1>1 DEF CollectVote, LiarLiar!CollectVote, Shape
  <2>2. \A o : LiarLiar!Text(e.scratch, o) = LiarLiar!Text(c.scratch, o)
    BY <2>1 DEF LiarLiar!Text
  <2> QED
    BY <1>1, <2>1, <2>2 DEF RevealFrame, LiarLiar!RevealFrame
<1>2. CASE game = "zinger"
  <2>1. e.scratch.authors = c.scratch.authors
    BY <1>2 DEF CollectVote, Zinger!CollectVote, Shape
  <2> QED
    BY <1>2, <2>1 DEF RevealFrame, Zinger!RevealFrame
<1>3. CASE game = "odd-bird"
  <2>1. e.scratch.roostOptions = c.scratch.roostOptions
    BY <1>3 DEF CollectVote, OddBird!CollectVote, Shape
  <2> QED
    BY <1>3, <2>1 DEF RevealFrame, OddBird!RevealFrame
<1>4. CASE game = "sketchy"
  <2>1. \A f \in {"stage", "sketches", "featured", "options", "decoys", "assignments"} : e.scratch[f] = c.scratch[f]
    BY <1>4 DEF CollectVote, Sketchy!CollectVote, Shape
  <2>2. \A o : Sketchy!Text(e.scratch, o) = Sketchy!Text(c.scratch, o)
    BY <2>1 DEF Sketchy!Text, Sketchy!TrueSeed
  <2> QED
    BY <1>4, <2>1, <2>2 DEF RevealFrame, Sketchy!RevealFrame
<1>5. CASE game = "lone-leaf"
  <2>1. e.scratch.survivors = c.scratch.survivors /\ e.scratch.leaves = c.scratch.leaves
    BY <1>5 DEF CollectVote, LoneLeaf!CollectVote, Shape
  <2> QED
    BY <1>5, <2>1 DEF RevealFrame, LoneLeaf!RevealFrame
<1> QED
  BY <1>1, <1>2, <1>3, <1>4, <1>5 DEF Registered

LEMMA FrameRead ==
  ASSUME NEW c, NEW e, game \in Registered, e.scratch = c.scratch, e.round = c.round
  PROVE  RevealFrame(e) = RevealFrame(c)
  BY DEF Registered, RevealFrame, Trivia!RevealFrame, LiarLiar!RevealFrame, Zinger!RevealFrame, OddBird!RevealFrame,
         SameBranch!RevealFrame, Sketchy!RevealFrame, LoneLeaf!RevealFrame

LEMMA FrameStep == ScreenInv /\ SeatsInv /\ LockInv /\ FrameInv /\ [NextRemote]_<<vars, mine>> => FrameInv'
<1> SUFFICES ASSUME ScreenInv, SeatsInv, LockInv, FrameInv, [NextRemote]_<<vars, mine>>, phase' = "guessing"
             PROVE  (reveal = <<RevealFrame(Ctx)>>)'
  BY DEF FrameInv
<1>1. game \in Registered /\ DOMAIN Ctx.scratch = Shape /\ Ctx.round = round /\ Ctx'.round = round'
      /\ Ctx.scratch = scratch /\ Ctx'.scratch = scratch'
  BY DEF ScreenInv, TableInv, Ctx
<1>2. CASE AdvanceCollecting /\ EngineSteps
  <2>1. reveal' = <<RevealFrame(Ctx')>> /\ game' = game /\ me' = me
    BY <1>2 DEF EngineSteps, Closes, Opens, AdvanceCollecting, AdvanceDisputing, AdvanceVoting, AdvanceGuessing,
                AdvanceScoring, AdvanceLeaderboard
  <2> QED
    BY <2>1, NextSeats
<1>3. CASE ~(AdvanceCollecting /\ EngineSteps)
  <2>1. /\ phase = "guessing" /\ UNCHANGED <<game, phase, round, me, reveal>>
        /\ scratch' = scratch \/ \E p, v : scratch' = CollectVote(Ctx, p, v)
    <3>1. CASE Tap \/ Ignored \/ Reload \/ UNCHANGED <<vars, mine>>
      BY <3>1 DEF Tap, Ignored, Reload, vars, mine
    <3>2. CASE Deliver
      BY <3>2 DEF Deliver, Wanted
    <3>3. CASE EngineSteps
      BY <1>3, <3>3, TableIsScored DEF EngineSteps, Closes, Opens, AdvanceDisputing, AdvanceLeaderboard, ScreenInv
    <3>4. CASE \E p \in Players : AnotherPlays(p)
      BY <3>4 DEF AnotherPlays, SubmitMove, SubmitVote, mine
    <3>5. CASE \E p \in Players : Comings(p)
      BY <3>5 DEF Comings, Disconnect, Join
    <3> QED
      BY <3>1, <3>2, <3>3, <3>4, <3>5 DEF NextRemote, Restart
  <2>2. RevealFrame(Ctx') = RevealFrame(Ctx)
    <3>1. game \notin {"trivia", "same-branch"}
      BY <2>1 DEF ScreenInv, TableInv
    <3> QED
      BY <1>1, <2>1, <3>1, VoteFrame, FrameRead
  <2> QED
    BY <2>1, <2>2, NextSeats DEF FrameInv
<1> QED
  BY <1>2, <1>3

LEMMA DeviceCorrect == SpecRemote => [](ScreenInv /\ SeatsInv /\ LockInv /\ Unowned /\ FrameInv)
<1>1. InitRemote => ScreenInv /\ SeatsInv /\ LockInv /\ Unowned /\ FrameInv
  BY ScreenInit, SeatsInit, LockInit DEF InitRemote, Init, Unowned, FrameInv
<1>2. ScreenInv /\ SeatsInv /\ LockInv /\ Unowned /\ FrameInv /\ [NextRemote]_<<vars, mine>>
      => (ScreenInv /\ SeatsInv /\ LockInv /\ Unowned /\ FrameInv)'
  BY ScreenStep, SeatsStep, LockStep, UnownedStep, FrameStep
<1> QED
  BY <1>1, <1>2, PTL DEF SpecRemote

\* Once what is on the line has been dealt with, a device says it has locked in
\* only what the engine holds for its player, unless it says it was refused (the
\* "locked in" state of every Remote).  Rounds that are excused are left out: those
\* in which a message was lost, ignored or not counted, a refusal forgotten or
\* outlived, or the game begun again under the same number, up to a reload.
THEOREM LockedInStaysHeld == SpecRemote => []LockedInMeansHeld
<1>1. LockInv => LockedInMeansHeld
  <2> SUFFICES ASSUME LockInv, Watching, ~excused, device.sent # None, ~device.rejected PROVE Held(Ctx) = device.sent
    BY DEF LockedInMeansHeld
  <2>1. Ctx.round = round /\ device.round = round /\ ~Says(mail, "move") /\ FlagsMean(device, mail, Ctx)
    BY DEF LockInv, Watching, Ctx, Says
  <2> QED
    BY <2>1 DEF FlagsMean
<1> QED
  BY <1>1, DeviceCorrect, PTL

-----------------------------------------------------------------------------
(* Nobody is locked out.                                                     *)

\* Of more texts than there are other players, one is not theirs.
LEMMA SpareText ==
  ASSUME NEW S, NEW p \in S, IsFiniteSet(S), NEW D, IsFiniteSet(D), Cardinality(D) >= Cardinality(S), NEW f
  PROVE  \E m \in D : \A q \in S \ {p} : f[q] # m
<1> DEFINE others == S \ {p}
           g == [q \in others |-> f[q]]
           theirs == {f[q] : q \in others}
<1>1. IsFiniteSet(others) /\ Cardinality(others) = Cardinality(S) - 1 /\ Cardinality(S) \in Nat /\ Cardinality(D) \in Nat
  BY FS_RemoveElement, FS_CardinalityType
<1>2. g \in Surjection(others, theirs)
  BY DEF Surjection
<1>3. IsFiniteSet(theirs) /\ Cardinality(theirs) <= Cardinality(others)
  <2> HIDE DEF g, theirs, others
  <2> QED
    BY <1>1, <1>2, FS_Surjection
<1>4. Cardinality(theirs) \in Nat
  BY <1>3, FS_CardinalityType
<1>5. ASSUME D \subseteq theirs PROVE FALSE
  <2>1. Cardinality(D) <= Cardinality(theirs)
    BY <1>3, <1>5, FS_Subset
  <2> HIDE DEF theirs, others
  <2> QED
    BY <1>1, <1>3, <1>4, <2>1
<1> QED
  BY <1>5

LEMMA SeatsFinite ==
  ASSUME game \in Registered
  PROVE  IsFiniteSet(Players)
<1>1. Tables[game] \in Seq(Range(Tables[game]) \ {Nobody, "truth"})
  BY RemotesAssumption
<1>2. Tables[game] \in [1 .. Len(Tables[game]) -> Range(Tables[game])] /\ DOMAIN Tables[game] = 1 .. Len(Tables[game])
      /\ Len(Tables[game]) \in Nat
  BY <1>1
<1>3. Tables[game] \in Surjection(1 .. Len(Tables[game]), Players)
  BY <1>2 DEF Surjection, Range, Players
<1>4. IsFiniteSet(1 .. Len(Tables[game]))
  BY <1>2, FS_Interval
<1> QED
  BY <1>3, <1>4, FS_Surjection

\* What the owner alone would have said, and done.
LEMMA AloneIs ==
  ASSUME NEW t
  PROVE  /\ [Alone EXCEPT !.scratch = t].scratch = t /\ [Alone EXCEPT !.scratch = t].present = {me}
         /\ Alone.scratch = scratch /\ Alone.present = {me}
  BY DEF Alone, Ctx

\* What the device shows a player who is awaited, and claims of them.
Awaited ==
    /\ game \in Registered /\ DOMAIN scratch = Shape /\ Typed(scratch) /\ me \in Players
    /\ device.phase = phase /\ device.prompt = <<Prompt(Ctx)>> /\ device.private = Private(Ctx)
    /\ Ctx.scratch = scratch /\ Ctx.phase = phase
    /\ device.sent # None /\ ~device.rejected => Held(Ctx) = device.sent
    /\ device.rejected => RefusalMeans(Ctx)
    /\ phase = "guessing" => /\ Offered(scratch) /\ game \notin {"trivia", "same-branch"}
                             /\ device.reveals = <<RevealFrame(Ctx)>>
                             /\ device.voted => HasVoted(scratch)

LEMMA WatchingAwaits ==
  ASSUME ScreenInv, SeatsInv, LockInv, FrameInv, Watching, ~excused
  PROVE  Awaited
<1>1. /\ game \in Registered /\ DOMAIN scratch = Shape /\ Typed(scratch) /\ me \in Players
      /\ device.phase = phase /\ device.prompt = <<Prompt(Ctx)>> /\ device.private = Private(Ctx)
      /\ Ctx.scratch = scratch /\ Ctx.phase = phase /\ Ctx.round = round /\ device.round = round
      /\ ~Says(mail, "move") /\ ~Says(mail, "vote") /\ me \in present
  BY DEF ScreenInv, TableInv, DeviceInv, SeatsInv, LockInv, Watching, Ctx, Says
<1>2. FlagsMean(device, mail, Ctx) /\ (device.rejected => RefusalMeans(Ctx))
  BY <1>1 DEF LockInv
<1>3. device.sent # None /\ ~device.rejected => Held(Ctx) = device.sent
  BY <1>1, <1>2 DEF FlagsMean
<1>4. phase = "guessing" /\ device.voted => HasVoted(scratch)
  BY <1>1, <1>2 DEF FlagsMean
<1>5. phase = "guessing" => /\ Offered(scratch) /\ game \notin {"trivia", "same-branch"}
                            /\ device.reveals = <<RevealFrame(Ctx)>>
  BY <1>1 DEF SeatsInv, ScreenInv, TableInv, DeviceInv, FrameInv
<1> QED
  BY <1>1, <1>2, <1>3, <1>4, <1>5 DEF Awaited

LEMMA CanAnswer ==
  ASSUME Awaited, phase = "collecting", me \notin Subject, ~AllSubmitted(Alone)
  PROVE  \E m \in Controls(device) : AllSubmitted([Alone EXCEPT !.scratch = CollectMove(Ctx, me, m.body)])
<1>0. /\ game \in Registered /\ DOMAIN scratch = Shape /\ Typed(scratch) /\ me \in Players /\ device.phase = "collecting"
      /\ device.prompt = <<Prompt(Ctx)>> /\ Ctx.scratch = scratch
  BY DEF Awaited
<1>1. CASE game = "trivia"
  <2> DEFINE m == Trivia!Say("right")
             t == CollectMove(Ctx, me, m.body)
  <2>1. scratch.submitted[me] = Trivia!Nobody
    BY <1>0, <1>1, AloneIs, SeatsOf DEF AllSubmitted, Trivia!AllSubmitted, Trivia!Everyone, Trivia!Having
  <2>2. Held(Ctx) = None
    BY <1>0, <1>1, <2>1 DEF Held, Trivia!Held, Trivia!None, None
  <2>3. device.sent = None /\ ~device.rejected
    BY <1>1, <2>2 DEF Awaited, RefusalMeans
  <2>4. m \in Controls(device)
    BY <1>0, <1>1, <2>3 DEF Controls, Trivia!Controls, Trivia!AnswerForm, Trivia!Answers, Trivia!None, None
  <2>5. t.submitted[me] = "right"
    BY <1>0, <1>1, <2>1 DEF CollectMove, Trivia!CollectMove, Trivia!Refused, Trivia!Say, Typed, Shape
  <2> HIDE DEF m, t
  <2>6. AllSubmitted([Alone EXCEPT !.scratch = t])
    BY <1>0, <1>1, <2>5, AloneIs, SeatsOf, Nobodies DEF AllSubmitted, Trivia!AllSubmitted, Trivia!Everyone, Trivia!Having
  <2> QED
    BY <2>4, <2>6 DEF t
<1>2. CASE game = "liar-liar"
  <2>1. PICK x \in Fakes : \A q \in Players \ {me} : scratch.submissions[q] # x
    <3>1. IsFiniteSet(Fakes) /\ Cardinality(Fakes) >= Cardinality(Players) /\ IsFiniteSet(Players)
      BY <1>0, <1>2, RemotesAssumption, SeatsFinite DEF Players
    <3> QED
      BY <1>0, <3>1, SpareText
  <2> DEFINE m == LiarLiar!Say(x)
             t == CollectMove(Ctx, me, m.body)
  <2>2. x \notin LiarLiar!Truths /\ x # "blank" /\ x # Nobody
    BY RemotesAssumption
  <2>3. m \in Controls(device)
    BY <1>0, <1>2, <2>2 DEF Controls, LiarLiar!Controls, LiarLiar!Answers
  <2>4. t.submissions[me] = x
    BY <1>0, <1>2, <2>1, <2>2, SeatsOf
       DEF CollectMove, LiarLiar!CollectMove, LiarLiar!Refused, LiarLiar!Taken, LiarLiar!Say, Typed, Shape
  <2> HIDE DEF m, t
  <2>5. AllSubmitted([Alone EXCEPT !.scratch = t])
    BY <1>0, <1>2, <2>2, <2>4, AloneIs, SeatsOf, Nobodies
       DEF AllSubmitted, LiarLiar!AllSubmitted, LiarLiar!Everyone, LiarLiar!Having
  <2> QED
    BY <2>3, <2>5 DEF t
<1>3. CASE game = "zinger"
  <2> DEFINE m == Zinger!Say("zinger")
             t == CollectMove(Ctx, me, m.body)
  <2>1. m \in Controls(device)
    BY <1>0, <1>3 DEF Controls, Zinger!Controls
  <2>2. me \in t.submissions
    BY <1>0, <1>3 DEF CollectMove, Zinger!CollectMove, Zinger!Refused, Zinger!Say, Shape
  <2> HIDE DEF m, t
  <2>3. AllSubmitted([Alone EXCEPT !.scratch = t])
    BY <1>3, <2>2, AloneIs DEF AllSubmitted, Zinger!AllSubmitted, Zinger!Everyone
  <2> QED
    BY <2>1, <2>3 DEF t
<1>4. CASE game = "odd-bird"
  <2> DEFINE m == OddBird!Say("flush")
             t == CollectMove(Ctx, me, m.body)
  <2>1. Held(Ctx) = None
    BY <1>0, <1>4, AloneIs DEF AllSubmitted, OddBird!AllSubmitted, Held, OddBird!Held, OddBird!None, None
  <2>2. device.sent = None
    BY <1>4, <2>1 DEF Awaited, RefusalMeans
  <2>3. m \in Controls(device)
    BY <1>0, <1>4, <2>2 DEF Controls, OddBird!Controls, OddBird!None, None
  <2>4. t.flushCalled = TRUE
    BY <1>0, <1>4 DEF CollectMove, OddBird!CollectMove, OddBird!Say, Shape
  <2> HIDE DEF m, t
  <2>5. AllSubmitted([Alone EXCEPT !.scratch = t])
    BY <1>4, <2>4, AloneIs DEF AllSubmitted, OddBird!AllSubmitted
  <2> QED
    BY <2>3, <2>5 DEF t
<1>5. CASE game = "same-branch"
  <2>1. device.prompt = <<[branch |-> scratch.used, reader |-> scratch.reader]>>
    BY <1>0, <1>5 DEF Prompt, SameBranch!Prompt
  <2>2. SameBranch!IsReader(device, me) <=> me = scratch.reader
    BY <2>1 DEF SameBranch!IsReader, SameBranch!Range
  <2>3. device.prompt # SameBranch!None
    BY <2>1 DEF SameBranch!None
  <2>4. CASE me = scratch.reader
    <3> DEFINE m == SameBranch!Say([text |-> "words"])
               t == CollectMove(Ctx, me, m.body)
    <3>1. m \in Controls(device)
      BY <1>0, <1>5, <2>2, <2>3, <2>4 DEF Controls, SameBranch!Controls
    <3>2. ~SameBranch!Refused(Ctx, me, [text |-> "words"])
      <4>1. [text |-> "words"].text # [text |-> "blank"].text
        OBVIOUS
      <4> QED
        BY <1>0, <2>4, <4>1 DEF SameBranch!Refused
    <3>3. t = [scratch EXCEPT !.hunch = TRUE]
      BY <1>0, <1>5, <2>4, <3>2 DEF CollectMove, SameBranch!CollectMove, SameBranch!Say
    <3>4. t.hunch = TRUE /\ t.reader = me
      BY <1>0, <1>5, <2>4, <3>3 DEF Shape
    <3> HIDE DEF m, t
    <3>5. AllSubmitted([Alone EXCEPT !.scratch = t])
      BY <1>5, <3>4, AloneIs DEF AllSubmitted, SameBranch!AllSubmitted
    <3> QED
      BY <3>1, <3>5 DEF t
  <2>5. CASE me # scratch.reader
    <3>1. PICK v \in Sliders \cap 0 .. 100 : TRUE
      BY RemotesAssumption
    <3> DEFINE m == SameBranch!Say([number |-> v])
               t == CollectMove(Ctx, me, m.body)
    <3>2. ~(scratch.guesses[me] >= 0)
      BY <1>0, <1>5, <2>5, AloneIs, SeatsOf DEF AllSubmitted, SameBranch!AllSubmitted, SameBranch!Guessers
    <3>3. Held(Ctx) = None
      BY <1>0, <1>5, <2>5, <3>2 DEF Held, SameBranch!Held, SameBranch!None, None
    <3>4. device.sent = None \/ device.rejected
      BY <3>3 DEF Awaited
    <3>5. m \in Controls(device)
      BY <1>0, <1>5, <2>2, <2>3, <2>5, <3>4 DEF Controls, SameBranch!Controls, SameBranch!Dial, SameBranch!None, None
    <3>6. ~SameBranch!Refused(Ctx, me, [number |-> v]) /\ "text" \notin DOMAIN [number |-> v]
      <4>1. \A x : DOMAIN [number |-> v] # DOMAIN [text |-> x]
        OBVIOUS
      <4> QED
        BY <4>1 DEF SameBranch!Refused
    <3>7. t = [scratch EXCEPT !.guesses[me] = SameBranch!ClampToBranch(v)]
      BY <1>0, <1>5, <2>5, <3>6 DEF CollectMove, SameBranch!CollectMove, SameBranch!Say
    <3>8. SameBranch!ClampToBranch(v) >= 0
      BY <3>1 DEF SameBranch!ClampToBranch
    <3>9. t.guesses[me] >= 0 /\ t.reader = scratch.reader
      BY <1>0, <1>5, <3>7, <3>8 DEF Shape, Typed
    <3> HIDE DEF m, t
    <3>10. AllSubmitted([Alone EXCEPT !.scratch = t])
      BY <1>0, <1>5, <2>5, <3>9, AloneIs, SeatsOf DEF AllSubmitted, SameBranch!AllSubmitted, SameBranch!Guessers
    <3> QED
      BY <3>5, <3>10 DEF t
  <2> QED
    BY <2>4, <2>5
<1>6. CASE game = "sketchy"
  <2>1. device.prompt[1] = Sketchy!Prompt(Ctx) /\ device.prompt # Sketchy!None
    BY <1>0, <1>6 DEF Prompt, Sketchy!None
  <2>2. CASE scratch.stage = "draw"
    <3> DEFINE m == Sketchy!Say("strokes")
               t == CollectMove(Ctx, me, m.body)
    <3>1. device.prompt[1].stage = "draw"
      BY <1>0, <2>1, <2>2 DEF Sketchy!Prompt
    <3>2. m \in Controls(device)
      BY <1>0, <1>6, <2>1, <3>1 DEF Controls, Sketchy!Controls, Sketchy!Form
    <3>3. me \in t.sketches /\ t.stage = "draw"
      BY <1>0, <1>6, <2>2 DEF CollectMove, Sketchy!CollectMove, Sketchy!Refused, Sketchy!Say, Shape
    <3> HIDE DEF m, t
    <3>4. AllSubmitted([Alone EXCEPT !.scratch = t])
      BY <1>6, <3>3, AloneIs DEF AllSubmitted, Sketchy!AllSubmitted, Sketchy!Everyone
    <3> QED
      BY <3>2, <3>4 DEF t
  <2>3. CASE scratch.stage = "sketch"
    <3>1. PICK x \in Decoys : \A q \in Players \ {me} : scratch.decoys[q] # x
      <4>1. IsFiniteSet(Decoys) /\ Cardinality(Decoys) >= Cardinality(Players) /\ IsFiniteSet(Players)
        BY <1>0, <1>6, RemotesAssumption, SeatsFinite DEF Players
      <4> QED
        BY <1>0, <4>1, SpareText
    <3> DEFINE m == Sketchy!Say(x)
               t == CollectMove(Ctx, me, m.body)
    <3>2. me # scratch.featured
      BY <1>6 DEF Subject
    <3>3. x # Sketchy!TrueSeed(scratch) /\ x # "blank" /\ x # Nobody
      BY <1>0, <1>6, <2>3, RemotesAssumption DEF Typed, Sketchy!TrueSeed
    <3>4. device.prompt[1].stage = "sketch" /\ device.prompt[1].featured = scratch.featured
      BY <1>0, <2>1, <2>3 DEF Sketchy!Prompt
    <3>5. m \in Controls(device)
      BY <1>0, <1>6, <2>1, <3>2, <3>3, <3>4 DEF Controls, Sketchy!Controls, Sketchy!Form, Sketchy!Descriptions
    <3>6. t = [scratch EXCEPT !.decoys[me] = x]
      BY <1>0, <1>6, <2>3, <3>1, <3>2, <3>3, SeatsOf
         DEF CollectMove, Sketchy!CollectMove, Sketchy!Refused, Sketchy!Taken, Sketchy!Say
    <3>7. t.decoys[me] = x /\ t.featured = scratch.featured /\ t.stage = "sketch"
      BY <1>0, <1>6, <2>3, <3>6 DEF Shape, Typed
    <3> HIDE DEF m, t
    <3>8. AllSubmitted([Alone EXCEPT !.scratch = t])
      BY <1>0, <1>6, <3>2, <3>3, <3>7, AloneIs, SeatsOf, Nobodies
         DEF AllSubmitted, Sketchy!AllSubmitted, Sketchy!Writers, Sketchy!Having
    <3> QED
      BY <3>5, <3>8 DEF t
  <2> QED
    BY <1>0, <1>6, <2>2, <2>3 DEF Typed
<1>7. CASE game = "lone-leaf"
  <2> DEFINE m == LoneLeaf!Say("seed")
             t == CollectMove(Ctx, me, m.body)
  <2>1. me # scratch.seeker
    BY <1>7 DEF Subject
  <2>2. ~LoneLeaf!IsSeeker(device, me)
    BY <1>0, <1>7, <2>1 DEF Prompt, LoneLeaf!Prompt, LoneLeaf!IsSeeker, LoneLeaf!Range
  <2>3. m \in Controls(device)
    BY <1>0, <1>7, <2>2 DEF Controls, LoneLeaf!Controls, LoneLeaf!LeafForm, LoneLeaf!Leaves
  <2>4. t = [scratch EXCEPT !.leaves[me] = "seed"]
    BY <1>0, <1>7, <2>1 DEF CollectMove, LoneLeaf!CollectMove, LoneLeaf!Refused, LoneLeaf!Say
  <2>5. t.leaves[me] = "seed" /\ t.seeker = scratch.seeker
    BY <1>0, <1>7, <2>4 DEF Shape, Typed
  <2> HIDE DEF m, t
  <2>6. AllSubmitted([Alone EXCEPT !.scratch = t])
    BY <1>0, <1>7, <2>1, <2>5, AloneIs, SeatsOf, Nobodies DEF AllSubmitted, LoneLeaf!AllSubmitted, LoneLeaf!Writers, LoneLeaf!Having
  <2> QED
    BY <2>3, <2>6 DEF t
<1> QED
  BY <1>0, <1>1, <1>2, <1>3, <1>4, <1>5, <1>6, <1>7 DEF Registered

LEMMA OnlyOne == (CHOOSE i \in {1} : \A j \in {1} : j <= i) = 1
  OBVIOUS

LEMMA CanGuess ==
  ASSUME Awaited, phase = "guessing", me \notin Subject, ~AllDecided(Alone)
  PROVE  \E m \in Controls(device) : AllDecided([Alone EXCEPT !.scratch = CollectVote(Ctx, me, m.body)])
<1>0. /\ game \in Registered /\ DOMAIN scratch = Shape /\ Typed(scratch) /\ me \in Players /\ device.phase = "guessing"
      /\ Ctx.scratch = scratch /\ Offered(scratch) /\ game \notin {"trivia", "same-branch"}
      /\ device.reveals = <<RevealFrame(Ctx)>>
  BY DEF Awaited
<1>1. CASE game = "liar-liar"
  <2> DEFINE f == LiarLiar!RevealFrame(Ctx)
             o == [id |-> "truth", text |-> "answer"]
             m == LiarLiar!Vote("truth")
             t == CollectVote(Ctx, me, m.body)
  <2>1. ~device.voted
    BY <1>0, <1>1, AloneIs, SeatsOf, Nobodies
       DEF Awaited, HasVoted, AllDecided, LiarLiar!AllDecided, LiarLiar!Everyone, LiarLiar!Having
  <2>2. LiarLiar!PickOptions(device) = <<f>>
    <3>1. device.reveals = <<f>> /\ "truth" \notin DOMAIN f
      BY <1>0, <1>1 DEF RevealFrame, LiarLiar!RevealFrame
    <3> HIDE DEF f
    <3>2. {i \in DOMAIN device.reveals : "truth" \notin DOMAIN device.reveals[i]} = {1}
      BY <3>1
    <3> QED
      BY <3>1, <3>2, OnlyOne DEF LiarLiar!PickOptions, LiarLiar!Latest
  <2>3. o \in f.options
    BY <1>0, <1>1 DEF LiarLiar!RevealFrame, LiarLiar!Text, LiarLiar!Truth, Offered
  <2>4. "answer" \notin LiarLiar!OwnLie(device)
    <3> SUFFICES ASSUME ~device.rejected PROVE "answer" \notin LiarLiar!Range(device.sent)
      BY DEF LiarLiar!OwnLie
    <3>1. CASE device.sent = None
      BY <3>1 DEF None, LiarLiar!Range
    <3>2. CASE device.sent # None
      <4>1. Held(Ctx) = device.sent
        BY <3>2 DEF Awaited
      <4>2. device.sent = <<scratch.submissions[me]>>
        BY <1>0, <1>1, <3>2, <4>1 DEF Held, LiarLiar!Held, LiarLiar!None, None
      <4>3. scratch.submissions[me] # "answer"
        BY <1>0, <1>1 DEF Typed, LiarLiar!Truths
      <4> QED
        BY <4>2, <4>3 DEF LiarLiar!Range
    <3> QED
      BY <3>1, <3>2
  <2>5. m \in Controls(device)
    <3>1. f \in LiarLiar!Range(LiarLiar!PickOptions(device))
      BY <2>2 DEF LiarLiar!Range
    <3>2. o.id = "truth" /\ o.text = "answer"
      OBVIOUS
    <3> HIDE DEF f, o
    <3>3. o \in {x \in UNION {r.options : r \in LiarLiar!Range(LiarLiar!PickOptions(device))} :
                    x.text \notin LiarLiar!OwnLie(device)}
      BY <2>3, <2>4, <3>1, <3>2
    <3> QED
      BY <1>0, <1>1, <2>1, <3>2, <3>3 DEF Controls, LiarLiar!Controls
  <2>6. t = [scratch EXCEPT !.guesses[me] = "truth"]
    BY <1>0, <1>1, SomeoneSits DEF CollectVote, LiarLiar!CollectVote, LiarLiar!Vote, Offered
  <2>7. t.guesses[me] = "truth"
    BY <1>0, <1>1, <2>6 DEF Shape, Typed
  <2> HIDE DEF m, t
  <2>8. AllDecided([Alone EXCEPT !.scratch = t])
    BY <1>0, <1>1, <2>7, AloneIs, SeatsOf, Nobodies DEF AllDecided, LiarLiar!AllDecided, LiarLiar!Everyone, LiarLiar!Having
  <2> QED
    BY <2>5, <2>8 DEF t
<1>2. CASE game = "zinger"
  <2>1. PICK a \in scratch.authors : TRUE
    BY <1>0, <1>2 DEF Offered
  <2> DEFINE f == Zinger!RevealFrame(Ctx)
             m == Zinger!Vote(a)
             t == CollectVote(Ctx, me, m.body)
  <2>2. me \notin scratch.authors /\ a \in Players /\ a # Nobody
    BY <1>0, <1>2, SomeoneSits DEF Subject, Typed
  <2>3. ~device.voted
    BY <1>0, <1>2, <2>2, AloneIs, SeatsOf, Nobodies
       DEF Awaited, HasVoted, AllDecided, Zinger!AllDecided, Zinger!Eligible, Zinger!Having
  <2>4. Zinger!PickFaceOff(device) = <<f>>
    <3>1. device.reveals = <<f>> /\ "winner" \notin DOMAIN f
      BY <1>0, <1>2 DEF RevealFrame, Zinger!RevealFrame
    <3> HIDE DEF f
    <3>2. {i \in DOMAIN device.reveals : "winner" \notin DOMAIN device.reveals[i]} = {1}
      BY <3>1
    <3> QED
      BY <3>1, <3>2, OnlyOne DEF Zinger!PickFaceOff, Zinger!Latest
  <2>5. f.options = scratch.authors /\ f.authorIds = scratch.authors
    BY <1>0 DEF Zinger!RevealFrame
  <2>6. m \in Controls(device)
    <3> HIDE DEF f
    <3>1. f \in {x \in Zinger!Range(Zinger!PickFaceOff(device)) : me \notin x.authorIds}
      BY <2>2, <2>4, <2>5 DEF Zinger!Range
    <3>2. a \in UNION {r.options : r \in {x \in Zinger!Range(Zinger!PickFaceOff(device)) : me \notin x.authorIds}}
      BY <2>5, <3>1
    <3> QED
      BY <1>0, <1>2, <2>3, <3>2 DEF Controls, Zinger!Controls, Zinger!VoteButtons
  <2>7. t = [scratch EXCEPT !.votes[me] = a]
    BY <1>0, <1>2, <2>2 DEF CollectVote, Zinger!CollectVote, Zinger!Vote
  <2>8. t.votes[me] = a /\ t.authors = scratch.authors
    BY <1>0, <1>2, <2>7 DEF Shape, Typed
  <2> HIDE DEF m, t
  <2>9. AllDecided([Alone EXCEPT !.scratch = t])
    BY <1>0, <1>2, <2>2, <2>8, AloneIs, SeatsOf, Nobodies DEF AllDecided, Zinger!AllDecided, Zinger!Eligible, Zinger!Having
  <2> QED
    BY <2>6, <2>9 DEF t
<1>3. CASE game = "odd-bird"
  <2> DEFINE f == OddBird!RevealFrame(Ctx)
  <2>1. ~device.voted
    BY <1>0, <1>3, AloneIs DEF Awaited, HasVoted, AllDecided, OddBird!AllDecided, OddBird!Everyone
  <2>2. OddBird!PickFlush(device) = <<f>>
    <3>1. device.reveals = <<f>> /\ "roost" \notin DOMAIN f
      BY <1>0, <1>3 DEF RevealFrame, OddBird!RevealFrame
    <3> HIDE DEF f
    <3>2. {i \in DOMAIN device.reveals : "roost" \notin DOMAIN device.reveals[i]} = {1}
      BY <3>1
    <3> QED
      BY <3>1, <3>2, OnlyOne DEF OddBird!PickFlush, OddBird!Latest
  <2>3. f.players = Players /\ f.roostOptions = scratch.roostOptions
    BY <1>0, <1>3, SeatsOf DEF OddBird!RevealFrame
  <2> HIDE DEF f
  <2>4. f \in OddBird!Range(OddBird!PickFlush(device))
    BY <2>2 DEF OddBird!Range
  <2>5. OddBird!IsOddBird(device) <=> me = scratch.oddBird
    <3>1. device.private = OddBird!Private(Ctx, me)
      BY <1>3 DEF Awaited, Private
    <3>2. PICK card : device.private = <<card>> /\ (card.role = "odd-bird" <=> me = scratch.oddBird)
      BY <1>0, <3>1 DEF OddBird!Private
    <3> QED
      BY <3>2 DEF OddBird!IsOddBird, OddBird!Range
  <2>6. Controls(device) = OddBird!FlushPanel(device, me)
    BY <1>0, <1>3 DEF Controls, OddBird!Controls
  <2>7. CASE me = scratch.oddBird
    <3> DEFINE v == [kind |-> "roost", target |-> scratch.roost]
               m == OddBird!Vote(v)
               t == CollectVote(Ctx, me, m.body)
    <3>1. m \in Controls(device)
      BY <1>0, <1>3, <2>1, <2>3, <2>4, <2>5, <2>6, <2>7 DEF OddBird!FlushPanel, Offered
    <3>2. t = [scratch EXCEPT !.guess = scratch.roost]
      BY <1>0, <1>3, <2>7 DEF CollectVote, OddBird!CollectVote, OddBird!Vote, Offered
    <3>3. t.guess = scratch.roost /\ t.oddBird = me /\ scratch.roost # OddBird!Nobody
      BY <1>0, <1>3, <2>7, <3>2, RemotesAssumption, Nobodies DEF Shape, Typed
    <3> HIDE DEF m, t
    <3>4. AllDecided([Alone EXCEPT !.scratch = t])
      BY <1>3, <3>3, AloneIs DEF AllDecided, OddBird!AllDecided, OddBird!Everyone, OddBird!Decided
    <3> QED
      BY <3>1, <3>4 DEF t
  <2>8. CASE me # scratch.oddBird
    <3> DEFINE v == [kind |-> "accuse", target |-> scratch.oddBird]
               m == OddBird!Vote(v)
               t == CollectVote(Ctx, me, m.body)
    <3>1. scratch.oddBird \in Players \ {me}
      BY <1>0, <1>3, <2>8 DEF Typed
    <3>2. m \in Controls(device)
      BY <2>1, <2>3, <2>4, <2>5, <2>6, <2>8, <3>1 DEF OddBird!FlushPanel
    <3>3. t = [scratch EXCEPT !.accusations[me] = scratch.oddBird]
      BY <1>0, <1>3, <2>8, <3>1, SeatsOf DEF CollectVote, OddBird!CollectVote, OddBird!Vote
    <3>4. t.accusations[me] = scratch.oddBird /\ scratch.oddBird # OddBird!Nobody
      BY <1>0, <1>3, <3>1, <3>3, SomeoneSits, Nobodies DEF Shape, Typed
    <3> HIDE DEF m, t
    <3>5. AllDecided([Alone EXCEPT !.scratch = t])
      BY <1>0, <1>3, <3>4, AloneIs, SeatsOf DEF AllDecided, OddBird!AllDecided, OddBird!Everyone, OddBird!Decided, OddBird!Having
    <3> QED
      BY <3>2, <3>5 DEF t
  <2> QED
    BY <2>7, <2>8
<1>4. CASE game = "sketchy"
  <2> DEFINE f == Sketchy!RevealFrame(Ctx)
             o == [id |-> "truth", text |-> Sketchy!TrueSeed(scratch)]
             m == Sketchy!Vote("truth")
             t == CollectVote(Ctx, me, m.body)
  <2>1. me # scratch.featured /\ scratch.stage = "sketch" /\ "truth" \in scratch.options
    BY <1>0, <1>4 DEF Subject, Offered
  <2>2. ~device.voted
    BY <1>0, <1>4, <2>1, AloneIs, SeatsOf, Nobodies
       DEF Awaited, HasVoted, AllDecided, Sketchy!AllDecided, Sketchy!Writers, Sketchy!Having
  <2>3. f.stage = "sketch" /\ f.featured = scratch.featured /\ o \in f.options
    BY <1>0, <2>1 DEF Sketchy!RevealFrame, Sketchy!Text, Sketchy!Truth
  <2>4. Sketchy!PickOptions(device) = <<f>>
    <3>1. device.reveals = <<f>>
      BY <1>0, <1>4 DEF RevealFrame
    <3> HIDE DEF f
    <3>2. {i \in DOMAIN device.reveals : device.reveals[i].stage = "sketch"} = {1}
      BY <2>3, <3>1
    <3> QED
      BY <3>1, <3>2, OnlyOne DEF Sketchy!PickOptions, Sketchy!Latest
  <2>5. Sketchy!TrueSeed(scratch) \notin Sketchy!OwnDecoy(device)
    <3> SUFFICES ASSUME ~device.rejected PROVE Sketchy!TrueSeed(scratch) \notin Sketchy!Range(device.sent)
      BY DEF Sketchy!OwnDecoy
    <3>1. CASE device.sent = None
      BY <3>1 DEF None, Sketchy!Range
    <3>2. CASE device.sent # None
      <4>1. Held(Ctx) = device.sent
        BY <3>2 DEF Awaited
      <4>2. device.sent = <<scratch.decoys[me]>>
        BY <1>0, <1>4, <2>1, <3>2, <4>1 DEF Held, Sketchy!Held, Sketchy!None, None
      <4>3. scratch.decoys[me] # Sketchy!TrueSeed(scratch)
        BY <1>0, <1>4, <2>1 DEF Typed
      <4> QED
        BY <4>2, <4>3 DEF Sketchy!Range
    <3> QED
      BY <3>1, <3>2
  <2>6. m \in Controls(device)
    <3>1. o.id = "truth" /\ o.text = Sketchy!TrueSeed(scratch)
      OBVIOUS
    <3> HIDE DEF f, o
    <3>2. f \in {x \in Sketchy!Range(Sketchy!PickOptions(device)) : x.featured # me}
      BY <2>1, <2>3, <2>4 DEF Sketchy!Range
    <3> DEFINE offered == UNION {r.options : r \in {x \in Sketchy!Range(Sketchy!PickOptions(device)) : x.featured # me}}
    <3>3. o \in offered
      BY <2>3, <3>2
    <3>4. Controls(device) = {Sketchy!Vote(x.id) : x \in {y \in offered : y.text \notin Sketchy!OwnDecoy(device)}}
      BY <1>0, <1>4, <2>2 DEF Controls, Sketchy!Controls, Sketchy!GuessButtons
    <3> HIDE DEF offered
    <3> QED
      BY <2>5, <3>1, <3>3, <3>4
  <2>7. t = [scratch EXCEPT !.guesses[me] = "truth"]
    BY <1>0, <1>4, <2>1, SomeoneSits DEF CollectVote, Sketchy!CollectVote, Sketchy!Vote
  <2>8. t.guesses[me] = "truth" /\ t.featured = scratch.featured
    BY <1>0, <1>4, <2>7 DEF Shape, Typed
  <2> HIDE DEF m, t
  <2>9. AllDecided([Alone EXCEPT !.scratch = t])
    BY <1>0, <1>4, <2>1, <2>8, AloneIs, SeatsOf, Nobodies DEF AllDecided, Sketchy!AllDecided, Sketchy!Writers, Sketchy!Having
  <2> QED
    BY <2>6, <2>9 DEF t
<1>5. CASE game = "lone-leaf"
  <2> DEFINE m == LoneLeaf!Vote("seed")
             t == CollectVote(Ctx, me, m.body)
  <2>1. me = scratch.seeker
    BY <1>0, <1>5 DEF Subject
  <2>2. ~device.voted
    BY <1>0, <1>5, AloneIs, Nobodies DEF Awaited, HasVoted, AllDecided, LoneLeaf!AllDecided
  <2>3. LoneLeaf!IsSeeker(device, me)
    <3>1. device.prompt = <<[seeker |-> scratch.seeker]>>
      BY <1>0, <1>5 DEF Awaited, Prompt, LoneLeaf!Prompt
    <3> QED
      BY <2>1, <3>1 DEF LoneLeaf!IsSeeker, LoneLeaf!Range
  <2>4. m \in Controls(device)
    BY <1>0, <1>5, <2>2, <2>3 DEF Controls, LoneLeaf!Controls, LoneLeaf!GuessForm, LoneLeaf!Leaves
  <2>5. t = [scratch EXCEPT !.guess = "seed"]
    BY <1>0, <1>5, <2>1 DEF CollectVote, LoneLeaf!CollectVote, LoneLeaf!Vote
  <2>6. t.guess = "seed"
    BY <1>0, <1>5, <2>5 DEF Shape
  <2> HIDE DEF m, t
  <2>7. AllDecided([Alone EXCEPT !.scratch = t])
    BY <1>5, <2>6, AloneIs, Nobodies DEF AllDecided, LoneLeaf!AllDecided
  <2> QED
    BY <2>4, <2>7 DEF t
<1> QED
  BY <1>0, <1>1, <1>2, <1>3, <1>4, <1>5 DEF Registered

\* While the engine waits for a player whose device is connected, the device
\* offers a control that ends the wait: nothing a Remote remembers of what was
\* sent, voted or refused locks its player out of the round, except in the rounds
\* that are excused (see LockedInStaysHeld), up to a reload.
THEOREM NobodyStaysLockedOut == SpecRemote => []NobodyLockedOut
<1>1. ScreenInv /\ SeatsInv /\ LockInv /\ FrameInv => NobodyLockedOut
  BY WatchingAwaits, CanAnswer, CanGuess DEF NobodyLockedOut
<1> QED
  BY <1>1, DeviceCorrect, PTL

-----------------------------------------------------------------------------
(* The table can close: one message each, in the order of the seats.         *)

\* What holds at the start and goes from each seat to the next holds of the last.
LEMMA Upward ==
  ASSUME NEW n \in Nat, NEW I, 0 \in I, \A i \in 1 .. n : i - 1 \in I => i \in I
  PROVE  \A i \in 0 .. n : i \in I
<1> DEFINE B == {i \in 0 .. n : i \notin I}
           f == [i \in 0 .. n |-> i]
<1>1. ASSUME B # {} PROVE FALSE
  <2>1. \A i \in B : f[i] \in Nat /\ f[i] = i
    OBVIOUS
  <2>2. PICK i \in B : \A j \in B : f[i] <= f[j]
    <3> HIDE DEF f, B
    <3> QED
      BY <1>1, <2>1, Least
  <2>3. i \in 1 .. n /\ i - 1 \in 0 .. n
    OBVIOUS
  <2>4. i - 1 \notin B
    BY <2>1, <2>2
  <2> QED
    BY <2>3, <2>4
<1> QED
  BY <1>1

\* One thing more from the seat whose turn it is: a message, or its points.
Speaks(kind, c, p, m) == IF kind = "move" THEN CollectMove(c, p, m) ELSE CollectVote(c, p, m)
InTurn(kind, choice, s, i) ==
    LET p == Tables[game][i]
    IN  CASE kind = "points" -> s + choice[p]
          [] OTHER -> IF p \in present THEN Speaks(kind, [Ctx EXCEPT !.scratch = s], p, choice[p]) ELSE s
Before(kind) == IF kind = "points" THEN 0 ELSE scratch
Afterwards(kind, choice) ==
    CASE kind = "move" -> After(CollectMove, choice)
      [] kind = "vote" -> After(CollectVote, choice)
      [] OTHER -> FoldLeft(LAMBDA sum, p : sum + choice[p], 0, Tables[game])

LEMMA LastSeat ==
  ASSUME NEW n \in Nat, NEW s \in SUBSET (1 .. n), n \in s
  PROVE  Max(s) = n
<1>1. \A m \in s : (\A j \in s : m >= j) => m = n
  OBVIOUS
<1>2. \A j \in s : n >= j
  OBVIOUS
<1> QED
  BY <1>1, <1>2 DEF Max

\* The table in turn, seat by seat.
LEMMA TurnByTurn ==
  ASSUME NEW kind \in {"move", "vote", "points"}, NEW choice, Len(Tables[game]) \in Nat,
         DOMAIN Tables[game] = 1 .. Len(Tables[game])
  PROVE  \E trail : /\ trail[0] = Before(kind) /\ trail[Len(Tables[game])] = Afterwards(kind, choice)
                    /\ \A i \in 1 .. Len(Tables[game]) : trail[i] = InTurn(kind, choice, trail[i - 1], i)
<1> DEFINE n == Len(Tables[game])
           G(s, i) == InTurn(kind, choice, s, i)
           Fold(f, S) == f = [s \in SUBSET S |-> IF s = {} THEN Before(kind) ELSE G(f[s \ {Max(s)}], Max(s))]
           I == {k \in 0 .. n : \E f : Fold(f, 1 .. k)}
<1>1. 0 \in I
  <2>1. 1 .. 0 = {}
    OBVIOUS
  <2> HIDE DEF G
  <2> DEFINE g == [s \in {{}} |-> Before(kind)]
  <2>2. Fold(g, {})
    <3>1. SUBSET {} = {{}} /\ \A s \in {{}} : s = {}
      OBVIOUS
    <3> QED
      BY <3>1
  <2>3. \E f : Fold(f, 1 .. 0)
    <3> HIDE DEF Fold, g
    <3> QED
      BY <2>1, <2>2
  <2>4. 0 \in 0 .. n
    OBVIOUS
  <2> HIDE DEF Fold, n, g
  <2> QED
    BY <2>3, <2>4
<1>2. ASSUME NEW k \in 1 .. n, k - 1 \in I PROVE k \in I
  <2> DEFINE lower == 1 .. k - 1
  <2>1. PICK f : Fold(f, lower)
    BY <1>2
  <2> HIDE DEF G
  <2> DEFINE g == [s \in SUBSET (1 .. k) |-> IF k \in s THEN G(f[s \ {k}], k) ELSE f[s]]
  <2>2. ASSUME NEW s \in SUBSET (1 .. k)
        PROVE  g[s] = IF s = {} THEN Before(kind) ELSE G(g[s \ {Max(s)}], Max(s))
    <3>1. CASE k \in s
      <4>1. Max(s) = k
        BY <3>1, LastSeat
      <4>2. s \ {k} \in SUBSET (1 .. k) /\ k \notin s \ {k}
        OBVIOUS
      <4> QED
        BY <3>1, <4>1, <4>2
    <3>2. CASE k \notin s
      <4>1. s \in SUBSET lower
        BY <3>2
      <4>2. f[s] = IF s = {} THEN Before(kind) ELSE G(f[s \ {Max(s)}], Max(s))
        BY <2>1, <4>1
      <4>3. s \ {Max(s)} \in SUBSET (1 .. k) /\ k \notin s \ {Max(s)}
        BY <3>2
      <4> QED
        BY <3>2, <4>2, <4>3
    <3> QED
      BY <3>1, <3>2
  <2>3. Fold(g, 1 .. k)
    <3>1. g = [s \in SUBSET (1 .. k) |-> g[s]]
      OBVIOUS
    <3> HIDE DEF g
    <3> QED
      BY <2>2, <3>1
  <2>4. \E h : Fold(h, 1 .. k)
    <3> HIDE DEF Fold, g
    <3> QED
      BY <2>3
  <2>5. k \in 0 .. n
    OBVIOUS
  <2> HIDE DEF Fold, n, g
  <2> QED
    BY <2>4, <2>5
<1>3. \E f : Fold(f, 1 .. n)
  <2>1. \A k \in 0 .. n : k \in I
    <3> HIDE DEF I, n
    <3> QED
      BY <1>1, <1>2, Upward DEF n
  <2>2. n \in I
    <3> HIDE DEF I
    <3> QED
      BY <2>1
  <2> HIDE DEF Fold, n
  <2> QED
    BY <2>2
<1> DEFINE iter == CHOOSE f : Fold(f, 1 .. n)
<1>4. Fold(iter, 1 .. n)
  BY <1>3
<1>5. Afterwards(kind, choice) = iter[1 .. n]
  <2>1. CASE kind = "move"
    BY <2>1 DEF Afterwards, After, FoldLeft, MapThenFoldSet, InTurn, Speaks, Before
  <2>2. CASE kind = "vote"
    BY <2>2 DEF Afterwards, After, FoldLeft, MapThenFoldSet, InTurn, Speaks, Before
  <2>3. CASE kind = "points"
    BY <2>3 DEF Afterwards, FoldLeft, MapThenFoldSet, InTurn, Before
  <2> QED
    BY <2>1, <2>2, <2>3
<1> DEFINE trail == [i \in 0 .. n |-> iter[1 .. i]]
<1>6. trail[0] = Before(kind) /\ trail[n] = iter[1 .. n]
  <2>1. 1 .. 0 = {}
    OBVIOUS
  <2>2. iter[{}] = Before(kind)
    BY <1>4
  <2> QED
    BY <2>1, <2>2
<1>7. ASSUME NEW i \in 1 .. n PROVE trail[i] = G(trail[i - 1], i)
  <2>1. 1 .. i \in SUBSET (1 .. n) /\ 1 .. i # {} /\ i \in 1 .. i /\ (1 .. i) \ {i} = 1 .. (i - 1)
    OBVIOUS
  <2>2. Max(1 .. i) = i
    BY <2>1, LastSeat
  <2>3. iter[1 .. i] = G(iter[1 .. (i - 1)], i)
    <3> HIDE DEF iter, G
    <3> QED
      BY <1>4, <2>1, <2>2
  <2> HIDE DEF iter
  <2> QED
    BY <2>3
<1> HIDE DEF trail, iter
<1> QED
  BY <1>5, <1>6, <1>7

\* The seats of the two test games.
LEMMA TestSeats ==
  ASSUME game \in Games \cap {"stub", "decider"}
  PROVE  /\ game = "stub" => StubGame!Players = Players
         /\ game = "decider" => DeciderGame!Players = Players
         /\ StubGame!Nobody = "nobody" /\ DeciderGame!Nobody = "nobody"
         /\ Nobody \notin Players /\ "truth" \notin Players
<1>1. Tables[game] \in Seq(Range(Tables[game]) \ {"nobody", "truth"})
  BY RoundGamesAssumption
<1>2. \A i \in DOMAIN Tables[game] : Tables[game][i] \in Range(Tables[game]) \ {"nobody", "truth"}
  BY <1>1
<1>3. Nobody \notin Players /\ "truth" \notin Players
  BY <1>2, Nobodies DEF Players, Range
<1> QED
  BY <1>3 DEF Players, Range, StubGame!Players, StubGame!Range, DeciderGame!Players, DeciderGame!Range,
     StubGame!Nobody, DeciderGame!Nobody

LEMMA Played == game \in Games => game \in Registered \/ game \in Games \cap {"stub", "decider"}
  BY RoundGamesAssumption DEF Registered

\* The roster of a game, seat by seat.
LEMMA RosterIsASequence ==
  ASSUME game \in Games
  PROVE  /\ Len(Tables[game]) \in Nat /\ DOMAIN Tables[game] = 1 .. Len(Tables[game])
         /\ \A i \in 1 .. Len(Tables[game]) : Tables[game][i] \in Players
         /\ \A p \in Players : \E i \in 1 .. Len(Tables[game]) : Tables[game][i] = p
         /\ IsFiniteSet(Players)
<1>1. Tables[game] \in Seq(Range(Tables[game]) \ {Nobody, "truth"})
  BY Played, Nobodies, RemotesAssumption, RoundGamesAssumption
<1>2. Len(Tables[game]) \in Nat /\ DOMAIN Tables[game] = 1 .. Len(Tables[game])
      /\ Tables[game] \in [1 .. Len(Tables[game]) -> Range(Tables[game])]
  BY <1>1
<1>3. Tables[game] \in Surjection(1 .. Len(Tables[game]), Players)
  BY <1>2 DEF Surjection, Range, Players
<1>4. IsFiniteSet(Players)
  BY <1>2, <1>3, FS_Interval, FS_Surjection
<1> QED
  BY <1>2, <1>4 DEF Players, Range

\* The scratch of any of the nine games.
Sound(s) ==
    CASE game = "stub"    -> /\ DOMAIN s = {"rounds", "submitted", "correct", "disputers", "ballots"}
                             /\ DOMAIN s.submitted = Players
      [] game = "decider" -> /\ DOMAIN s = {"rounds", "submitted", "guesses"}
                             /\ DOMAIN s.submitted = Players /\ DOMAIN s.guesses = Players
      [] OTHER            -> DOMAIN s = Shape /\ Typed(s)

LEMMA SoundMove ==
  ASSUME NEW c, NEW p \in Players, NEW m, game \in Games, Sound(c.scratch),
         game = "same-branch" => "text" \in DOMAIN m \/ m.number \in Int
  PROVE  Sound(CollectMove(c, p, m))
<1>1. CASE game \in Registered
  <2>1. DOMAIN c.scratch = Shape /\ Typed(c.scratch)
    BY <1>1 DEF Sound, Registered
  <2>2. DOMAIN CollectMove(c, p, m) = Shape
    BY <1>1, <2>1, MoveTells DEF SameTelling
  <2>3. Typed(CollectMove(c, p, m))
    BY <1>1, <2>1, MoveTyped
  <2> QED
    BY <1>1, <2>2, <2>3 DEF Sound, Registered
<1>2. CASE game = "stub"
  BY <1>2 DEF Sound, CollectMove, StubGame!CollectMove
<1>3. CASE game = "decider"
  BY <1>3 DEF Sound, CollectMove, DeciderGame!CollectMove
<1> QED
  BY <1>1, <1>2, <1>3, Played

LEMMA SoundVote ==
  ASSUME NEW c, NEW p \in Players, NEW v, game \in Games, Sound(c.scratch)
  PROVE  Sound(CollectVote(c, p, v)) /\ (Offered(c.scratch) => Offered(CollectVote(c, p, v)))
<1>1. CASE game \in Registered
  <2>1. DOMAIN c.scratch = Shape /\ Typed(c.scratch)
    BY <1>1 DEF Sound, Registered
  <2>2. DOMAIN CollectVote(c, p, v) = Shape
    BY <1>1, <2>1, VoteTells DEF SameTelling
  <2>3. Typed(CollectVote(c, p, v)) /\ (Offered(c.scratch) => Offered(CollectVote(c, p, v)))
    BY <1>1, <2>1, VoteTyped
  <2> QED
    BY <1>1, <2>2, <2>3 DEF Sound, Registered
<1>2. CASE game = "stub"
  BY <1>2 DEF Sound, Offered, CollectVote, StubGame!CollectVote, StubGame!Disputes, StubGame!Judges
<1>3. CASE game = "decider"
  BY <1>3 DEF Sound, Offered, CollectVote, DeciderGame!CollectVote
<1> QED
  BY <1>1, <1>2, <1>3, Played

LEMMA SoundReveal ==
  ASSUME NEW c, NEW r \in Reveal(c), game \in Games, Sound(c.scratch)
  PROVE  Sound(r.scratch) /\ (r.guess => Offered(r.scratch))
<1>1. CASE game \in Registered
  <2>1. DOMAIN c.scratch = Shape /\ Typed(c.scratch)
    BY <1>1 DEF Sound, Registered
  <2>2. DOMAIN r.scratch = Shape
    BY <1>1, <2>1, RevealTells DEF SameTelling
  <2>3. Typed(r.scratch) /\ (r.guess => Offered(r.scratch))
    BY <1>1, <2>1, RevealTyped
  <2> QED
    BY <1>1, <2>2, <2>3 DEF Sound, Registered
<1>2. CASE game = "stub"
  BY <1>2 DEF Sound, Offered, Reveal, StubGame!Reveal, StubGame!Revealed
<1>3. CASE game = "decider"
  BY <1>3 DEF Sound, Offered, Reveal, DeciderGame!Reveal, DeciderGame!Revealed
<1> QED
  BY <1>1, <1>2, <1>3, Played

LEMMA SoundOpens ==
  ASSUME NEW c, game \in Games, c.round \in Nat \ {0},
         Sound(c.scratch) \/ (c.round = 1 /\ c.scratch \in Configured), NEW t \in StartRound(c)
  PROVE  Sound(t)
<1>1. CASE game \in Registered
  <2>1. DOMAIN c.scratch = Shape /\ (c.round = 1 \/ Typed(c.scratch))
    BY <1>1, ConfiguredShaped DEF Sound, Registered
  <2>2. DOMAIN t = Shape /\ Typed(t)
    BY <1>1, <2>1, OpensShaped, OpensTyped
  <2> QED
    BY <1>1, <2>2 DEF Sound, Registered
<1>2. CASE game = "stub"
  <2>1. DOMAIN c.scratch = {"rounds", "submitted", "correct", "disputers", "ballots"}
    BY <1>2 DEF Sound, Configured, StubGame!Configured, StubGame!Fresh
  <2>2. t = [c.scratch EXCEPT !.submitted = StubGame!Unset, !.correct = {}, !.disputers = {},
                              !.ballots = StubGame!NoBallots]
    BY <1>2 DEF StartRound, StubGame!StartRound
  <2>3. DOMAIN StubGame!Unset = Players
    BY <1>2, TestSeats DEF StubGame!Unset
  <2> QED
    BY <1>2, <2>1, <2>2, <2>3 DEF Sound
<1>3. CASE game = "decider"
  <2>1. DOMAIN c.scratch = {"rounds", "submitted", "guesses"}
    BY <1>3 DEF Sound, Configured, DeciderGame!Configured, DeciderGame!Fresh
  <2>2. t = [c.scratch EXCEPT !.submitted = DeciderGame!Unset, !.guesses = DeciderGame!Unset]
    BY <1>3 DEF StartRound, DeciderGame!StartRound
  <2>3. DOMAIN DeciderGame!Unset = Players
    BY <1>3, TestSeats DEF DeciderGame!Unset
  <2> QED
    BY <1>3, <2>1, <2>2, <2>3 DEF Sound
<1> QED
  BY <1>1, <1>2, <1>3, Played

\* Points change no scratch.
LEMMA SoundScores ==
  ASSUME NEW c, game \in Games
  PROVE  /\ game \in {"trivia", "stub"} => DisputeVote(c).scratch = c.scratch
         /\ game \notin {"trivia", "stub", "same-branch"} => ResolveDecision(c).scratch = c.scratch
<1>1. CASE game \in Registered
  BY <1>1, ScoringTells DEF Registered
<1>2. CASE game = "stub"
  BY <1>2 DEF DisputeVote, StubGame!DisputeVote, StubGame!Resolved
<1>3. CASE game = "decider"
  BY <1>3 DEF ResolveDecision, DeciderGame!ResolveDecision, DeciderGame!Resolved
<1> QED
  BY <1>1, <1>2, <1>3, Played

TableSound == present \subseteq Players /\ Sound(scratch) /\ (phase = "guessing" => Offered(scratch))

LEMMA TableStays ==
  ASSUME game' = game, present' \subseteq Players, Sound(scratch'), phase' = "guessing" => Offered(scratch')
  PROVE  TableSound'
<1>1. Players' = Players /\ (Sound(scratch)' <=> Sound(scratch')) /\ (Offered(scratch)' <=> Offered(scratch'))
  BY DEF Players, Sound, Typed, Shape, Offered
<1> QED
  BY <1>1 DEF TableSound

LEMMA TableCorrect == Spec => [](ModeInv /\ TableSound)
<1>1. Init => TableSound
  <2> SUFFICES ASSUME Init PROVE TableSound
    OBVIOUS
  <2>1. PICK s \in Configured :
             scratch \in StartRound([phase |-> "collecting", round |-> 1, present |-> Players, scratch |-> s])
    BY DEF Init
  <2>2. game \in Games /\ present = Players /\ phase = "collecting"
    BY DEF Init
  <2>3. Sound(scratch)
    BY <2>1, <2>2, SoundOpens
  <2> QED
    BY <2>2, <2>3 DEF TableSound
<1>2. ModeInv /\ TableSound /\ [Next]_vars => TableSound'
  <2> SUFFICES ASSUME ModeInv, TableSound, [Next]_vars PROVE TableSound'
    OBVIOUS
  <2>0. /\ game \in Games /\ Ctx.scratch = scratch /\ Ctx.phase = phase /\ round \in Nat \ {0}
        /\ present \subseteq Players /\ Sound(scratch) /\ (phase = "guessing" => Offered(scratch))
    BY DEF ModeInv, TableSound, Ctx
  <2>1. ASSUME NEW p \in Players, SubmitMove(p) PROVE TableSound'
    <3>1. PICK m \in Moves(Ctx, p) : scratch' = CollectMove(Ctx, p, m)
      BY <2>1 DEF SubmitMove
    <3>2. game = "same-branch" => "text" \in DOMAIN m \/ m.number \in Int
      BY <3>1, RemotesAssumption DEF Moves, SameBranch!Moves
    <3>3. UNCHANGED <<game, phase, present>> /\ phase = "collecting"
      BY <2>1 DEF SubmitMove
    <3> QED
      BY <2>0, <3>1, <3>2, <3>3, SoundMove, TableStays
  <2>2. ASSUME NEW p \in Players, SubmitVote(p) PROVE TableSound'
    <3>1. PICK v : scratch' = CollectVote(Ctx, p, v)
      BY <2>2 DEF SubmitVote
    <3>2. UNCHANGED <<game, phase, present>>
      BY <2>2 DEF SubmitVote
    <3> QED
      BY <2>0, <3>1, <3>2, SoundVote, TableStays
  <2>3. ASSUME NEW p \in Players, Disconnect(p) \/ Join(p) PROVE TableSound'
    <3>1. UNCHANGED <<game, phase, scratch>> /\ present' \subseteq Players
      BY <2>0, <2>3 DEF Disconnect, Join
    <3> QED
      BY <2>0, <3>1, TableStays
  <2>4. CASE AdvanceCollecting
    <3>1. PICK r \in Reveal(Ctx) : scratch' = r.scratch /\ phase' = IF r.guess THEN "guessing" ELSE "disputing"
      BY <2>4 DEF AdvanceCollecting
    <3>2. Sound(r.scratch) /\ (r.guess => Offered(r.scratch))
      BY <2>0, <3>1, SoundReveal
    <3> QED
      BY <2>0, <2>4, <3>1, <3>2, TableStays DEF AdvanceCollecting
  <2>5. CASE AdvanceDisputing
    <3>1. UNCHANGED <<game, present, scratch>> /\ phase' # "guessing"
      BY <2>5 DEF AdvanceDisputing
    <3> QED
      BY <2>0, <3>1, TableStays
  <2>6. CASE AdvanceVoting
    <3>1. UNCHANGED <<game, present>> /\ phase' = "leaderboard" /\ scratch' = DisputeVote(Ctx).scratch /\ phase = "voting"
      BY <2>6 DEF AdvanceVoting, AdvanceScoring
    <3>2. scratch' = scratch
      BY <2>0, <3>1, SoundScores DEF ModeInv
    <3> QED
      BY <2>0, <3>1, <3>2, TableStays
  <2>7. CASE AdvanceGuessing
    <3>1. UNCHANGED <<game, present>> /\ phase' = "leaderboard" /\ scratch' = ResolveDecision(Ctx).scratch
          /\ phase = "guessing"
      BY <2>7 DEF AdvanceGuessing, AdvanceScoring
    <3>2. scratch' = scratch
      BY <2>0, <3>1, SoundScores DEF ModeInv
    <3> QED
      BY <2>0, <3>1, <3>2, TableStays
  <2>8. CASE AdvanceLeaderboard
    <3>1. CASE phase' = "complete"
      <4>1. UNCHANGED <<game, present, scratch>>
        BY <2>8, <3>1 DEF AdvanceLeaderboard
      <4> QED
        BY <2>0, <3>1, <4>1, TableStays
    <3>2. CASE phase' # "complete"
      <4> DEFINE c == [Ctx EXCEPT !.round = round + 1]
      <4>1. UNCHANGED <<game, present>> /\ phase' = "collecting" /\ scratch' \in StartRound(c)
        BY <2>8, <3>2 DEF AdvanceLeaderboard
      <4>2. c.scratch = scratch /\ c.round = round + 1
        BY DEF Ctx
      <4> HIDE DEF c
      <4>3. c.round \in Nat \ {0}
        BY <2>0, <4>2
      <4>4. Sound(scratch')
        BY <2>0, <4>1, <4>2, <4>3, SoundOpens
      <4> QED
        BY <2>0, <4>1, <4>4, TableStays
    <3> QED
      BY <3>1, <3>2
  <2>9. CASE UNCHANGED vars
    BY <2>0, <2>9, TableStays DEF vars
  <2> QED
    BY <2>1, <2>2, <2>3, <2>4, <2>5, <2>6, <2>7, <2>8, <2>9 DEF Next
<1> QED
  BY <1>1, <1>2, ModeCorrect, PTL DEF Spec

\* Of as many texts as players, those without one can have one each that nobody has.
LEMMA SpareTexts ==
  ASSUME NEW P, IsFiniteSet(P), NEW S \in SUBSET P, NEW D, IsFiniteSet(D), Cardinality(D) >= Cardinality(P),
         NEW U, NEW f \in [P -> U]
  PROVE  \E g \in [S -> D] : IsInjective(g) /\ \A p \in S, q \in P \ S : g[p] # f[q]
<1> DEFINE others == P \ S
           h == [q \in others |-> f[q]]
           theirs == {f[q] : q \in others}
           spare == D \ theirs
<1>1. /\ IsFiniteSet(others) /\ IsFiniteSet(S) /\ Cardinality(S) \in Nat /\ Cardinality(others) \in Nat
      /\ Cardinality(others) + Cardinality(S) = Cardinality(P)
  <2>1. IsFiniteSet(others) /\ IsFiniteSet(S)
    BY FS_Subset
  <2>2. others \cap S = {} /\ others \cup S = P
    OBVIOUS
  <2> HIDE DEF others
  <2> QED
    BY <2>1, <2>2, DisjointUnion, FS_CardinalityType
<1>2. h \in Surjection(others, theirs)
  BY DEF Surjection
<1>3. IsFiniteSet(theirs) /\ Cardinality(theirs) <= Cardinality(others) /\ Cardinality(theirs) \in Nat
  <2> HIDE DEF h, theirs, others
  <2> QED
    BY <1>1, <1>2, FS_Surjection, FS_CardinalityType
<1>4. IsFiniteSet(spare) /\ Cardinality(S) <= Cardinality(spare)
  <2>1. Cardinality(spare) = Cardinality(D) - Cardinality(D \cap theirs) /\ IsFiniteSet(spare)
    BY FS_Difference
  <2>2. D \cap theirs \in SUBSET theirs
    OBVIOUS
  <2>3. IsFiniteSet(D \cap theirs) /\ Cardinality(D \cap theirs) <= Cardinality(theirs) /\ Cardinality(D \cap theirs) \in Nat
    <3> HIDE DEF theirs
    <3> QED
      BY <1>3, <2>2, FS_Subset, FS_CardinalityType
  <2>4. Cardinality(D) \in Nat
    BY FS_CardinalityType
  <2> HIDE DEF spare, theirs, others
  <2> QED
    BY <1>1, <1>3, <2>1, <2>3, <2>4
<1>5. PICK g \in [S -> spare] : IsInjective(g)
  <2> HIDE DEF spare
  <2> QED
    BY <1>1, <1>4, DealtOneEach
<1> QED
  BY <1>5

\* The players a game no longer waits for, and those it never did.
Heard(s) ==
    CASE game \in {"trivia", "stub", "decider"} -> Having(s.submitted)
      [] game = "liar-liar"   -> Having(s.submissions)
      [] game = "zinger"      -> s.submissions
      [] game = "odd-bird"    -> {p \in Players : s.flushCalled = TRUE}
      [] game = "same-branch" -> {p \in Players : IF p = s.reader THEN s.hunch = TRUE ELSE s.guesses[p] >= 0}
      [] game = "sketchy"     -> IF s.stage = "draw" THEN s.sketches ELSE {s.featured} \cup Having(s.decoys)
      [] game = "lone-leaf"   -> {s.seeker} \cup Having(s.leaves)

\* The games whose texts must differ, what there is to invent, and what is refused.
Worded == game \in {"liar-liar", "decider"} \/ (game = "sketchy" /\ scratch.stage = "sketch")
Texts(s) == CASE game = "liar-liar" -> s.submissions [] game = "sketchy" -> s.decoys [] OTHER -> s.submitted
Invented == IF game = "sketchy" THEN Decoys ELSE Fakes
Idle == IF game = "decider" THEN "truth" ELSE "blank"

\* What each can say for the table to be done: a text that is nobody's.
Fit(choice) ==
    \A p \in present :
        CASE game \in {"trivia", "stub"} -> choice[p] = "right"
          [] game = "zinger"      -> choice[p] = "zinger"
          [] game = "odd-bird"    -> choice[p] = "flush"
          [] game = "same-branch" -> IF p = scratch.reader THEN choice[p] = [text |-> "words"]
                                     ELSE \E v \in Sliders \cap 0 .. 100 : choice[p] = [number |-> v]
          [] game = "sketchy" /\ scratch.stage = "draw" -> choice[p] = "strokes"
          [] game = "lone-leaf"   -> choice[p] = "seed"
          [] OTHER -> IF p \in Heard(scratch) THEN choice[p] = Idle
                      ELSE /\ choice[p] \in Invented
                           /\ \A q \in Players : Texts(scratch)[q] # choice[p]
                           /\ \A q \in present \ {p} : choice[q] # choice[p]

SaidSoFar(s, choice) ==
    /\ Sound(s)
    /\ game \in Registered => SameTelling(scratch, s)
    /\ Heard(scratch) \subseteq Heard(s)
    /\ Worded => \A q \in Players : \/ Texts(s)[q] = Texts(scratch)[q]
                                    \/ q \in present /\ Texts(s)[q] = choice[q]

LEMMA TextsLeft ==
  ASSUME TableSound, game \in Games, phase = "collecting", Worded
  PROVE  \E choice \in [present -> UNION {Moves(Ctx, p) : p \in present}] : Fit(choice)
<1> DEFINE S == present \ Heard(scratch)
<1>0. present \subseteq Players /\ Sound(scratch) /\ Ctx.scratch = scratch
  BY DEF TableSound, Ctx
<1>1. IsFiniteSet(Players) /\ IsFiniteSet(Invented) /\ Cardinality(Invented) >= Cardinality(Players)
  <2>1. CASE game \in Registered
    BY <2>1, RosterIsASequence, RemotesAssumption DEF Invented, Worded, Players, Registered
  <2>2. CASE game = "decider"
    BY <2>2, RosterIsASequence, RoundGamesAssumption DEF Invented, Players
  <2> QED
    BY <2>1, <2>2, Played DEF Worded
<1>3. PICK g \in [S -> Invented] : IsInjective(g) /\ \A p \in S, q \in Players \ S : g[p] # Texts(scratch)[q]
  <2> DEFINE texts == [q \in Players |-> Texts(scratch)[q]]
             said == {Texts(scratch)[q] : q \in Players}
  <2>1. S \in SUBSET Players /\ texts \in [Players -> said] /\ \A q \in Players : texts[q] = Texts(scratch)[q]
    BY <1>0
  <2> HIDE DEF S, texts, said
  <2>2. PICK g \in [S -> Invented] : IsInjective(g) /\ \A p \in S, q \in Players \ S : g[p] # texts[q]
    BY <1>1, <2>1, SpareTexts
  <2> QED
    BY <2>1, <2>2
<1>4. \A q \in S : Texts(scratch)[q] = Nobody
  <2>1. DOMAIN Texts(scratch) = Players
    BY <1>0 DEF Worded, Texts, Sound, Typed
  <2>2. Having(Texts(scratch)) \subseteq Heard(scratch)
    BY <1>0 DEF Worded, Texts, Heard
  <2> QED
    BY <1>0, <2>1, <2>2 DEF Having
<1>5. Nobody \notin Invented /\ Idle \notin Invented /\ \A p \in present : Invented \cup {Idle} \subseteq Moves(Ctx, p)
  <2>1. CASE game = "liar-liar"
    BY <2>1, RemotesAssumption DEF Invented, Idle, Moves, LiarLiar!Moves, LiarLiar!Answers
  <2>2. CASE game = "sketchy" /\ scratch.stage = "sketch"
    BY <1>0, <2>2, RemotesAssumption DEF Invented, Idle, Moves, Sketchy!Moves, Sketchy!Descriptions
  <2>3. CASE game = "decider"
    BY <2>3, RoundGamesAssumption, Nobodies DEF Invented, Idle, Moves, DeciderGame!Moves, DeciderGame!Truth
  <2> QED
    BY <2>1, <2>2, <2>3 DEF Worded
<1> DEFINE choice == [p \in present |-> IF p \in S THEN g[p] ELSE Idle]
<1>6. choice \in [present -> UNION {Moves(Ctx, p) : p \in present}]
  <2>1. \A p \in present : choice[p] \in Moves(Ctx, p)
    BY <1>3, <1>5
  <2> HIDE DEF choice
  <2>2. choice = [p \in present |-> choice[p]]
    BY DEF choice
  <2> QED
    BY <2>1, <2>2
<1>7. ASSUME NEW p \in present
      PROVE  IF p \in Heard(scratch) THEN choice[p] = Idle
             ELSE /\ choice[p] \in Invented
                  /\ \A q \in Players : Texts(scratch)[q] # choice[p]
                  /\ \A q \in present \ {p} : choice[q] # choice[p]
  <2>1. CASE p \in Heard(scratch)
    BY <2>1
  <2>2. CASE p \in S
    <3>1. choice[p] = g[p] /\ g[p] \in Invented
      BY <1>3, <2>2
    <3>2. \A q \in Players : Texts(scratch)[q] # g[p]
      <4> HIDE DEF S
      <4> QED
        BY <1>3, <1>4, <1>5, <2>2, <3>1
    <3>3. ASSUME NEW q \in present \ {p} PROVE choice[q] # g[p]
      <4>1. CASE q \in S
        <5> HIDE DEF S
        <5> QED
          BY <1>3, <2>2, <4>1 DEF IsInjective
      <4>2. CASE q \notin S
        BY <1>5, <3>1, <4>2
      <4> QED
        BY <4>1, <4>2
    <3> HIDE DEF choice
    <3> QED
      BY <2>2, <3>1, <3>2, <3>3
  <2> QED
    BY <2>1, <2>2
<1>8. Fit(choice)
  <2> HIDE DEF choice
  <2> QED
    BY <1>7 DEF Fit, Worded
<1> QED
  BY <1>6, <1>8

LEMMA SomethingFits ==
  ASSUME TableSound, game \in Games, phase = "collecting"
  PROVE  \E choice \in [present -> UNION {Moves(Ctx, p) : p \in present}] : Fit(choice)
<1>0. Ctx.scratch = scratch
  BY DEF Ctx
<1>1. PICK v \in Sliders \cap 0 .. 100 : TRUE
  BY RemotesAssumption
<1> DEFINE said(p) ==
             CASE game \in {"trivia", "stub"} -> "right"
               [] game = "zinger"      -> "zinger"
               [] game = "odd-bird"    -> "flush"
               [] game = "same-branch" -> IF p = scratch.reader THEN [text |-> "words"] ELSE [number |-> v]
               [] game = "sketchy"     -> "strokes"
               [] game = "lone-leaf"   -> "seed"
           choice == [p \in present |-> said(p)]
<1>2. ASSUME ~Worded, NEW p \in present PROVE said(p) \in Moves(Ctx, p)
  BY <1>0, <1>1, <1>2, Played
     DEF Worded, Registered, Moves, Trivia!Moves, Trivia!Answers, StubGame!Moves, StubGame!Answers, Zinger!Moves,
         OddBird!Moves, SameBranch!Moves, Sketchy!Moves, Sketchy!Drawings, LoneLeaf!Moves, LoneLeaf!Leaves,
         TableSound, Sound, Typed
<1>3. CASE ~Worded
  <2>1. choice \in [present -> UNION {Moves(Ctx, p) : p \in present}]
    <3> HIDE DEF said
    <3> QED
      BY <1>2, <1>3
  <2>2. Fit(choice)
    BY <1>1, <1>3, Played DEF Fit, Worded, Registered, TableSound, Sound, Typed
  <2> QED
    BY <2>1, <2>2
<1> QED
  BY <1>3, TextsLeft

LEMMA TellsOn ==
  ASSUME game \in Registered, NEW s, NEW t, NEW u, DOMAIN s = Shape, SameTelling(s, t), SameTelling(t, u)
  PROVE  SameTelling(s, u)
<1>1. game = "sketchy" => t.stage = s.stage
  BY DEF SameTelling, Told, Shape
<1> QED
  BY <1>1 DEF SameTelling

\* One player's word on the way: what was said stays said, and theirs counts.
LEMMA WordCounts ==
  ASSUME TableSound, game \in Games, NEW choice, Fit(choice), NEW c, c.present = present, SaidSoFar(c.scratch, choice),
         NEW p \in present
  PROVE  LET t == CollectMove(c, p, choice[p])
         IN  SaidSoFar(t, choice) /\ Heard(c.scratch) \cup {p} \subseteq Heard(t)
<1> DEFINE m == choice[p]
           s == c.scratch
           t == CollectMove(c, p, m)
<1>0. p \in Players /\ Sound(s) /\ Sound(scratch) /\ (game \in Registered => SameTelling(scratch, s))
  BY DEF TableSound, SaidSoFar
<1>1. Sound(t)
  <2>1. game = "same-branch" => "text" \in DOMAIN m \/ m.number \in Int
    <3> SUFFICES ASSUME game = "same-branch" PROVE "text" \in DOMAIN m \/ m.number \in Int
      OBVIOUS
    <3>1. m = [text |-> "words"] \/ \E v \in Sliders \cap 0 .. 100 : m = [number |-> v]
      BY DEF Fit
    <3> HIDE DEF m
    <3> QED
      BY <3>1
  <2> QED
    BY <1>0, <2>1, SoundMove
<1>2. game \in Registered => SameTelling(scratch, t)
  <2> SUFFICES ASSUME game \in Registered PROVE SameTelling(scratch, t)
    OBVIOUS
  <2>1. SameTelling(s, t)
    BY <1>0, MoveTells DEF Sound, Registered
  <2> HIDE DEF t
  <2> QED
    BY <1>0, <2>1, TellsOn DEF Sound, Registered
<1>3. ASSUME ~Worded PROVE Heard(s) \cup {p} \subseteq Heard(t)
  <2>1. CASE game = "trivia"
    <3>1. m = "right"
      BY <2>1 DEF Fit
    <3>2. \/ t = s /\ s.submitted[p] # Nobody
          \/ t = [s EXCEPT !.submitted[p] = "right"]
      BY <2>1, <3>1, Nobodies DEF CollectMove, Trivia!CollectMove, Trivia!Refused
    <3> HIDE DEF t, m
    <3> QED
      BY <1>0, <2>1, <3>2, Nobodies DEF Heard, Having, Sound, Typed, Shape
  <2>2. CASE game = "stub"
    <3>1. t = [s EXCEPT !.submitted[p] = "right"]
      BY <2>2 DEF Fit, CollectMove, StubGame!CollectMove
    <3> HIDE DEF t, m
    <3> QED
      BY <1>0, <2>2, <3>1, Nobodies DEF Heard, Having, Sound
  <2>3. CASE game = "zinger"
    <3>1. t = [s EXCEPT !.submissions = @ \cup {p}]
      BY <2>3 DEF Fit, CollectMove, Zinger!CollectMove, Zinger!Refused
    <3> HIDE DEF t, m
    <3> QED
      BY <1>0, <2>3, <3>1 DEF Heard, Sound, Shape
  <2>4. CASE game = "odd-bird"
    <3>1. t = [s EXCEPT !.flushCalled = TRUE]
      BY <2>4 DEF Fit, CollectMove, OddBird!CollectMove
    <3> HIDE DEF t, m
    <3> QED
      BY <1>0, <2>4, <3>1 DEF Heard, Sound, Shape
  <2>5. CASE game = "same-branch"
    <3>1. s.reader = scratch.reader
      BY <1>0, <2>5 DEF SameTelling, Told, Sound, Shape, Registered
    <3>2. CASE p = scratch.reader
      <4>1. m = [text |-> "words"]
        BY <2>5, <3>2 DEF Fit
      <4>2. m # [text |-> "blank"]
        <5>1. [text |-> "words"].text # [text |-> "blank"].text
          OBVIOUS
        <5> QED
          BY <4>1, <5>1
      <4>3. t = [s EXCEPT !.hunch = TRUE]
        BY <2>5, <3>1, <3>2, <4>2 DEF CollectMove, SameBranch!CollectMove, SameBranch!Refused
      <4> HIDE DEF t, m
      <4>4. t.hunch = TRUE /\ t.reader = s.reader /\ t.guesses = s.guesses
        BY <1>0, <2>5, <4>3 DEF Sound, Shape
      <4> QED
        BY <1>0, <2>5, <3>1, <3>2, <4>4 DEF Heard
    <3>3. CASE p # scratch.reader
      <4>1. PICK v \in Sliders \cap 0 .. 100 : m = [number |-> v]
        BY <2>5, <3>3 DEF Fit
      <4>2. m # [text |-> "words"] /\ "text" \notin DOMAIN m /\ m.number = v
        <5>1. DOMAIN [number |-> v] # DOMAIN [text |-> "words"]
          OBVIOUS
        <5> QED
          BY <4>1, <5>1
      <4>3. t = [s EXCEPT !.guesses[p] = SameBranch!ClampToBranch(v)]
        BY <2>5, <3>1, <3>3, <4>2 DEF CollectMove, SameBranch!CollectMove, SameBranch!Refused
      <4>4. SameBranch!ClampToBranch(v) >= 0
        BY <4>1 DEF SameBranch!ClampToBranch
      <4> HIDE DEF t, m
      <4>5. t.guesses[p] >= 0 /\ t.reader = s.reader /\ t.hunch = s.hunch
            /\ \A q \in Players \ {p} : t.guesses[q] = s.guesses[q]
        BY <1>0, <2>5, <4>3, <4>4 DEF Sound, Typed, Shape
      <4> QED
        BY <1>0, <2>5, <3>1, <3>3, <4>5 DEF Heard
    <3> QED
      BY <3>2, <3>3
  <2>6. CASE game = "sketchy"
    <3>1. scratch.stage = "draw" /\ s.stage = "draw"
      BY <1>0, <1>3, <2>6 DEF Worded, Sound, Typed, SameTelling, Told, Shape, Registered
    <3>2. t = [s EXCEPT !.sketches = @ \cup {p}]
      BY <2>6, <3>1 DEF Fit, CollectMove, Sketchy!CollectMove, Sketchy!Refused
    <3> HIDE DEF t, m
    <3> QED
      BY <1>0, <2>6, <3>1, <3>2 DEF Heard, Sound, Shape
  <2>7. CASE game = "lone-leaf"
    <3>1. m = "seed"
      BY <2>7 DEF Fit
    <3>2. \/ t = s /\ p = s.seeker
          \/ t = [s EXCEPT !.leaves[p] = "seed"]
      BY <2>7, <3>1 DEF CollectMove, LoneLeaf!CollectMove, LoneLeaf!Refused
    <3> HIDE DEF t, m
    <3> QED
      BY <1>0, <2>7, <3>2, Nobodies DEF Heard, Having, Sound, Typed, Shape
  <2> QED
    BY <1>3, <2>1, <2>2, <2>3, <2>4, <2>5, <2>6, <2>7, Played DEF Registered, Worded
<1>4. ASSUME Worded, p \in Heard(scratch) PROVE t = s
  <2>1. m = Idle
    BY <1>4 DEF Fit, Worded
  <2>2. CASE game = "liar-liar"
    BY <2>1, <2>2 DEF Idle, CollectMove, LiarLiar!CollectMove, LiarLiar!Refused
  <2>3. CASE game = "decider"
    BY <2>1, <2>3 DEF Idle, CollectMove, DeciderGame!CollectMove, DeciderGame!Taken, DeciderGame!Truth
  <2>4. CASE game = "sketchy"
    <3>1. s.stage = "sketch"
      BY <1>0, <1>4, <2>4 DEF Worded, SameTelling, Told, Sound, Shape, Registered
    <3> QED
      BY <2>1, <2>4, <3>1 DEF Idle, CollectMove, Sketchy!CollectMove, Sketchy!Refused
  <2> QED
    BY <1>4, <2>2, <2>3, <2>4 DEF Worded
<1>5. ASSUME Worded, p \notin Heard(scratch)
      PROVE  /\ Texts(t) = [Texts(s) EXCEPT ![p] = m] /\ m # Nobody
             /\ game = "sketchy" => t.featured = s.featured /\ t.stage = "sketch" /\ s.stage = "sketch"
  <2>1. /\ m \in Invented /\ \A q \in Players : Texts(scratch)[q] # m
        /\ \A q \in present \ {p} : choice[q] # m
    BY <1>5 DEF Fit, Worded
  <2>2. \A q \in Players \ {p} : Texts(s)[q] # m
    BY <1>5, <2>1 DEF SaidSoFar
  <2>3. CASE game = "liar-liar"
    <3>1. m \notin LiarLiar!Truths /\ m # "blank" /\ m # Nobody
      BY <2>1, <2>3, RemotesAssumption DEF Invented
    <3>2. t = [s EXCEPT !.submissions[p] = m]
      BY <2>2, <2>3, <3>1, SeatsOf
         DEF Texts, CollectMove, LiarLiar!CollectMove, LiarLiar!Refused, LiarLiar!Taken
    <3> HIDE DEF t, m
    <3> QED
      BY <1>0, <2>3, <3>1, <3>2 DEF Texts, Sound, Shape
  <2>4. CASE game = "decider"
    <3>1. m # "truth" /\ m # Nobody
      BY <2>1, <2>4, RoundGamesAssumption, Nobodies DEF Invented
    <3>2. t = [s EXCEPT !.submitted[p] = m]
      BY <2>2, <2>4, <3>1, TestSeats DEF Texts, CollectMove, DeciderGame!CollectMove, DeciderGame!Taken, DeciderGame!Truth
    <3> HIDE DEF t, m
    <3> QED
      BY <1>0, <2>4, <3>1, <3>2 DEF Texts, Sound
  <2>5. CASE game = "sketchy"
    <3>1. s.stage = "sketch" /\ s.featured = scratch.featured /\ scratch.stage = "sketch"
      BY <1>0, <1>5, <2>5 DEF Worded, SameTelling, Told, Sound, Shape, Registered
    <3>2. p # s.featured
      BY <1>5, <2>5, <3>1 DEF Heard
    <3>3. m # Sketchy!TrueSeed(s) /\ m # "blank" /\ m # Nobody
      <4>1. Sketchy!TrueSeed(s) \in Seeds
        BY <1>0, <2>5, <3>1 DEF Sound, Typed, Sketchy!TrueSeed
      <4> QED
        BY <2>1, <2>5, <4>1, RemotesAssumption DEF Invented
    <3>4. t = [s EXCEPT !.decoys[p] = m]
      BY <2>2, <2>5, <3>1, <3>2, <3>3, SeatsOf
         DEF Texts, CollectMove, Sketchy!CollectMove, Sketchy!Refused, Sketchy!Taken
    <3> HIDE DEF t, m
    <3> QED
      BY <1>0, <2>5, <3>1, <3>3, <3>4 DEF Texts, Sound, Shape
  <2> QED
    BY <1>5, <2>3, <2>4, <2>5 DEF Worded
<1>6. ASSUME Worded, p \notin Heard(scratch) PROVE Heard(s) \cup {p} \subseteq Heard(t)
  <2>1. Heard(s) = (IF game = "sketchy" THEN {s.featured} ELSE {}) \cup Having(Texts(s))
    BY <1>5, <1>6 DEF Worded, Heard, Texts
  <2>2. Heard(t) = (IF game = "sketchy" THEN {t.featured} ELSE {}) \cup Having(Texts(t))
    BY <1>5, <1>6 DEF Worded, Heard, Texts
  <2>3. DOMAIN Texts(s) = Players
    BY <1>0, <1>6 DEF Worded, Texts, Sound, Typed
  <2> HIDE DEF t, m, s
  <2>4. Having(Texts(s)) \cup {p} \subseteq Having(Texts(t))
    BY <1>0, <1>5, <1>6, <2>3 DEF Having
  <2> QED
    BY <1>5, <1>6, <2>1, <2>2, <2>4
<1>7. Heard(s) \cup {p} \subseteq Heard(t)
  BY <1>3, <1>4, <1>6 DEF SaidSoFar
<1>8. ASSUME Worded, NEW q \in Players
      PROVE  Texts(t)[q] = Texts(scratch)[q] \/ (q \in present /\ Texts(t)[q] = choice[q])
  <2>1. Texts(s)[q] = Texts(scratch)[q] \/ (q \in present /\ Texts(s)[q] = choice[q])
    BY <1>8 DEF SaidSoFar
  <2>2. DOMAIN Texts(s) = Players
    BY <1>0, <1>8 DEF Worded, Texts, Sound, Typed
  <2>3. Texts(t)[q] = Texts(s)[q] \/ (q = p /\ Texts(t)[q] = choice[q])
    <3>1. CASE p \in Heard(scratch)
      BY <1>4, <1>8, <3>1
    <3>2. CASE p \notin Heard(scratch)
      <4> HIDE DEF t, s
      <4> QED
        BY <1>5, <1>8, <2>2, <3>2
    <3> QED
      BY <3>1, <3>2
  <2> QED
    BY <2>1, <2>3
<1> HIDE DEF t
<1> QED
  BY <1>1, <1>2, <1>7, <1>8 DEF SaidSoFar, t

\* A table of which each has been heard is done.
LEMMA AllHeard ==
  ASSUME TableSound, game \in Games, present \ Subject # {}, phase = "collecting", NEW s, Sound(s),
         game \in Registered => SameTelling(scratch, s), present \subseteq Heard(s)
  PROVE  AllSubmitted([Ctx EXCEPT !.scratch = s])
<1> DEFINE c == [Ctx EXCEPT !.scratch = s]
<1>0. c.scratch = s /\ c.present = present /\ present \subseteq Players /\ present # {} /\ Sound(scratch)
  BY DEF Ctx, TableSound
<1> SUFFICES AllSubmitted(c)
  OBVIOUS
<1> HIDE DEF c
<1>1. CASE game = "trivia"
  BY <1>0, <1>1, SeatsOf, Nobodies DEF AllSubmitted, Trivia!AllSubmitted, Trivia!Everyone, Trivia!Having, Heard, Having
<1>2. CASE game = "liar-liar"
  BY <1>0, <1>2, SeatsOf, Nobodies
     DEF AllSubmitted, LiarLiar!AllSubmitted, LiarLiar!Everyone, LiarLiar!Having, Heard, Having
<1>3. CASE game = "zinger"
  BY <1>0, <1>3 DEF AllSubmitted, Zinger!AllSubmitted, Zinger!Everyone, Heard
<1>4. CASE game = "odd-bird"
  BY <1>0, <1>4 DEF AllSubmitted, OddBird!AllSubmitted, Heard
<1>5. CASE game = "same-branch"
  BY <1>0, <1>5, SeatsOf DEF AllSubmitted, SameBranch!AllSubmitted, SameBranch!Guessers, Heard
<1>6. CASE game = "sketchy"
  <2>1. s.stage = scratch.stage /\ s.featured = scratch.featured
    BY <1>0, <1>6 DEF SameTelling, Told, Sound, Shape, Registered
  <2>2. CASE s.stage = "draw"
    BY <1>0, <1>6, <2>2 DEF AllSubmitted, Sketchy!AllSubmitted, Sketchy!Everyone, Heard
  <2>3. CASE s.stage # "draw"
    BY <1>0, <1>6, <2>1, <2>3, SeatsOf, Nobodies
       DEF AllSubmitted, Sketchy!AllSubmitted, Sketchy!Writers, Sketchy!Having, Heard, Having, Subject
  <2> QED
    BY <2>2, <2>3
<1>7. CASE game = "lone-leaf"
  <2>1. s.seeker = scratch.seeker
    BY <1>0, <1>7 DEF SameTelling, Told, Sound, Shape, Registered
  <2> QED
    BY <1>0, <1>7, <2>1, SeatsOf, Nobodies
       DEF AllSubmitted, LoneLeaf!AllSubmitted, LoneLeaf!Writers, LoneLeaf!Having, Heard, Having, Subject
<1>8. CASE game = "stub"
  BY <1>0, <1>8, TestSeats, Nobodies DEF AllSubmitted, StubGame!AllSubmitted, StubGame!Everyone, StubGame!Having, Heard, Having
<1>9. CASE game = "decider"
  BY <1>0, <1>9, TestSeats, Nobodies
     DEF AllSubmitted, DeciderGame!AllSubmitted, DeciderGame!Everyone, DeciderGame!Having, Heard, Having
<1> QED
  BY <1>1, <1>2, <1>3, <1>4, <1>5, <1>6, <1>7, <1>8, <1>9, Played DEF Registered

LEMMA AnswersCanClose ==
  ASSUME TableSound, game \in Games, phase = "collecting", present \ Subject # {}
  PROVE  \E choice \in [present -> UNION {Moves(Ctx, p) : p \in present}] :
             AllSubmitted([Ctx EXCEPT !.scratch = After(CollectMove, choice)])
<1>1. PICK choice \in [present -> UNION {Moves(Ctx, p) : p \in present}] : Fit(choice)
  BY SomethingFits
<1> DEFINE n == Len(Tables[game])
           seat(i) == Tables[game][i]
<1>2. PICK trail : /\ trail[0] = scratch /\ trail[n] = Afterwards("move", choice)
                   /\ \A i \in 1 .. n : trail[i] = InTurn("move", choice, trail[i - 1], i)
  BY RosterIsASequence, TurnByTurn DEF Before
<1> DEFINE I == {i \in 0 .. n : /\ SaidSoFar(trail[i], choice)
                                /\ \A j \in 1 .. i : seat(j) \in present => seat(j) \in Heard(trail[i])}
<1>3. n \in Nat /\ (\A i \in 1 .. n : seat(i) \in Players) /\ (\A p \in Players : \E i \in 1 .. n : seat(i) = p)
  BY RosterIsASequence
<1> HIDE DEF n, seat
<1>4. 0 \in I
  <2>1. SaidSoFar(scratch, choice)
    BY DEF SaidSoFar, TableSound, SameTelling
  <2> QED
    BY <1>2, <1>3, <2>1
<1>5. ASSUME NEW i \in 1 .. n, i - 1 \in I PROVE i \in I
  <2> DEFINE s == trail[i - 1]
             c == [Ctx EXCEPT !.scratch = s]
             t == trail[i]
  <2>1. SaidSoFar(s, choice) /\ \A j \in 1 .. i - 1 : seat(j) \in present => seat(j) \in Heard(s)
    BY <1>5
  <2>2. c.scratch = s /\ c.present = present
    BY DEF Ctx
  <2>3. t = IF seat(i) \in present THEN CollectMove(c, seat(i), choice[seat(i)]) ELSE s
    BY <1>2 DEF InTurn, Speaks, seat
  <2> HIDE DEF s, c, t
  <2>4. CASE seat(i) \in present
    <3>1. SaidSoFar(t, choice) /\ Heard(s) \cup {seat(i)} \subseteq Heard(t)
      BY <1>1, <2>1, <2>2, <2>3, <2>4, WordCounts
    <3>2. ASSUME NEW j \in 1 .. i, seat(j) \in present PROVE seat(j) \in Heard(t)
      <4>1. j = i \/ j \in 1 .. i - 1
        BY <1>3
      <4> QED
        BY <2>1, <3>1, <3>2, <4>1
    <3> QED
      BY <3>1, <3>2 DEF t
  <2>5. CASE seat(i) \notin present
    <3>1. ASSUME NEW j \in 1 .. i, seat(j) \in present PROVE seat(j) \in Heard(t)
      <4>1. j \in 1 .. i - 1
        BY <1>3, <2>5, <3>1
      <4> QED
        BY <2>1, <2>3, <2>5, <3>1, <4>1
    <3> QED
      BY <2>1, <2>3, <2>5, <3>1 DEF t
  <2> QED
    BY <2>4, <2>5
<1>6. n \in I
  <2>1. \A i \in 0 .. n : i \in I
    <3> HIDE DEF I
    <3> QED
      BY <1>3, <1>4, <1>5, Upward
  <2> HIDE DEF I
  <2> QED
    BY <1>3, <2>1
<1> DEFINE t == trail[n]
<1>7. SaidSoFar(t, choice) /\ present \subseteq Heard(t)
  <2>1. SaidSoFar(t, choice) /\ \A j \in 1 .. n : seat(j) \in present => seat(j) \in Heard(t)
    BY <1>6
  <2>2. present \subseteq Players
    BY DEF TableSound
  <2> HIDE DEF t
  <2> QED
    BY <1>3, <2>1, <2>2
<1>8. t = After(CollectMove, choice)
  BY <1>2 DEF Afterwards
<1> HIDE DEF t
<1>9. AllSubmitted([Ctx EXCEPT !.scratch = t])
  BY <1>7, AllHeard DEF SaidSoFar
<1> QED
  BY <1>8, <1>9

\* The players whose guess a game no longer waits for, and those who have none.
Settled(s) ==
    CASE game \in {"liar-liar", "decider"} -> Having(s.guesses)
      [] game = "zinger"    -> s.authors \cup Having(s.votes)
      [] game = "odd-bird"  -> OddBird!Decided(s)
      [] game = "sketchy"   -> {s.featured} \cup Having(s.guesses)
      [] game = "lone-leaf" -> {p \in Players : p = s.seeker => s.guess # Nobody}

\* A guess each can make: at the truth, at an author, at a roost or the odd bird.
Guess(p) ==
    CASE game = "zinger"    -> CHOOSE a \in scratch.authors : TRUE
      [] game = "odd-bird"  -> IF p = scratch.oddBird THEN [kind |-> "roost", target |-> scratch.roost]
                               ELSE [kind |-> "accuse", target |-> scratch.oddBird]
      [] game = "lone-leaf" -> "seed"
      [] OTHER              -> "truth"
Guesses == [p \in present |-> Guess(p)]

GuessedSoFar(s) ==
    /\ Sound(s) /\ Offered(s)
    /\ game \in Registered => SameTelling(scratch, s)
    /\ game = "zinger" => s.authors = scratch.authors

GuessingGames == {"liar-liar", "zinger", "odd-bird", "sketchy", "lone-leaf", "decider"}

LEMMA Guessing == ModeInv /\ phase = "guessing" => game \in GuessingGames /\ game \in Games
  BY Played DEF ModeInv, GuessingGames, Registered

LEMMA GuessesOnOffer ==
  ASSUME TableSound, phase = "guessing", game \in GuessingGames, game \in Games
  PROVE  Guesses \in [present -> UNION {Votes(Ctx, p) : p \in present}]
<1>0. Ctx.scratch = scratch /\ Sound(scratch) /\ Offered(scratch) /\ present \subseteq Players
  BY DEF TableSound, Ctx
<1>1. ASSUME NEW p \in present PROVE Guess(p) \in Votes(Ctx, p)
  <2>1. CASE game = "liar-liar"
    BY <1>0, <2>1 DEF Guess, Votes, LiarLiar!Votes, Offered
  <2>2. CASE game = "zinger"
    BY <1>0, <2>2 DEF Guess, Votes, Zinger!Votes, Offered
  <2>3. CASE game = "odd-bird"
    BY <1>0, <2>3, SeatsOf DEF Guess, Votes, OddBird!Votes, Sound, Typed
  <2>4. CASE game = "sketchy"
    BY <1>0, <2>4 DEF Guess, Votes, Sketchy!Votes, Offered
  <2>5. CASE game = "lone-leaf"
    BY <1>0, <2>5 DEF Guess, Votes, LoneLeaf!Votes, LoneLeaf!Leaves
  <2>6. CASE game = "decider"
    BY <1>0, <2>6 DEF Guess, Votes, DeciderGame!Votes, DeciderGame!Options, DeciderGame!Truth
  <2> QED
    BY <2>1, <2>2, <2>3, <2>4, <2>5, <2>6 DEF GuessingGames
<1> QED
  BY <1>1 DEF Guesses

\* One player's guess on the way.
LEMMA GuessCounts ==
  ASSUME TableSound, phase = "guessing", game \in GuessingGames, game \in Games,
         NEW c, c.phase = "guessing", GuessedSoFar(c.scratch), NEW p \in present
  PROVE  LET t == CollectVote(c, p, Guesses[p])
         IN  GuessedSoFar(t) /\ Settled(c.scratch) \cup ({p} \ Subject) \subseteq Settled(t)
<1> DEFINE m == Guesses[p]
           s == c.scratch
           t == CollectVote(c, p, m)
<1> SUFFICES GuessedSoFar(t) /\ Settled(s) \cup ({p} \ Subject) \subseteq Settled(t)
  OBVIOUS
<1>0. /\ p \in Players /\ Sound(s) /\ Offered(s) /\ Sound(scratch) /\ Offered(scratch)
      /\ (game \in Registered => SameTelling(scratch, s)) /\ m = Guess(p)
      /\ Nobody \notin Players /\ "truth" \notin Players
  BY SomeoneSits, TestSeats, Played DEF TableSound, GuessedSoFar, Guesses
<1>1. Sound(t) /\ Offered(t)
  BY <1>0, SoundVote
<1>2. game \in Registered => SameTelling(scratch, t)
  <2> SUFFICES ASSUME game \in Registered PROVE SameTelling(scratch, t)
    OBVIOUS
  <2>1. SameTelling(s, t)
    BY <1>0, VoteTells DEF Sound, Registered
  <2> HIDE DEF t
  <2> QED
    BY <1>0, <2>1, TellsOn DEF Sound, Registered
<1>3. CASE game = "liar-liar"
  <2>1. t = [s EXCEPT !.guesses[p] = "truth"]
    BY <1>0, <1>3 DEF Guess, CollectVote, LiarLiar!CollectVote, Offered
  <2> HIDE DEF t, m
  <2> QED
    BY <1>0, <1>1, <1>2, <1>3, <2>1, Nobodies DEF GuessedSoFar, Settled, Having, Sound, Typed, Shape
<1>4. CASE game = "zinger"
  <2>1. s.authors = scratch.authors /\ m \in s.authors
    BY <1>0, <1>4 DEF GuessedSoFar, Guess, Offered
  <2>2. CASE p \in s.authors
    <3>1. t = s
      BY <1>4, <2>2 DEF CollectVote, Zinger!CollectVote
    <3>2. p \in Subject
      BY <1>4, <2>1, <2>2 DEF Subject
    <3> HIDE DEF t, m
    <3> QED
      BY <1>1, <1>2, <2>1, <3>1, <3>2 DEF GuessedSoFar
  <2>3. CASE p \notin s.authors
    <3>1. t = [s EXCEPT !.votes[p] = m]
      BY <1>4, <2>1, <2>3 DEF CollectVote, Zinger!CollectVote
    <3>2. m # Nobody
      BY <1>0, <1>4, <2>1 DEF Sound, Typed
    <3> HIDE DEF t, m
    <3> QED
      BY <1>0, <1>1, <1>2, <1>4, <2>1, <3>1, <3>2 DEF GuessedSoFar, Settled, Having, Sound, Typed, Shape
  <2> QED
    BY <2>2, <2>3
<1>5. CASE game = "odd-bird"
  <2>1. s.oddBird = scratch.oddBird /\ s.roost = scratch.roost /\ s.oddBird \in Players /\ s.roost \in Roosts
    BY <1>0, <1>5 DEF SameTelling, Told, Sound, Typed, Shape, Registered
  <2>2. CASE p = s.oddBird
    <3>1. m = [kind |-> "roost", target |-> s.roost] /\ s.roost \in s.roostOptions
      BY <1>0, <1>5, <2>1, <2>2 DEF Guess, Offered
    <3>2. t = [s EXCEPT !.guess = s.roost]
      BY <1>5, <2>2, <3>1 DEF CollectVote, OddBird!CollectVote
    <3>3. s.roost # Nobody
      BY <2>1, RemotesAssumption
    <3> HIDE DEF t, m
    <3> QED
      BY <1>0, <1>1, <1>2, <1>5, <2>1, <2>2, <3>2, <3>3, SeatsOf, Nobodies
         DEF GuessedSoFar, Settled, OddBird!Decided, OddBird!Having, Sound, Shape
  <2>3. CASE p # s.oddBird
    <3>1. m = [kind |-> "accuse", target |-> s.oddBird]
      BY <1>0, <1>5, <2>1, <2>3 DEF Guess
    <3>2. t = [s EXCEPT !.accusations[p] = s.oddBird]
      BY <1>0, <1>5, <2>1, <2>3, <3>1, SeatsOf DEF CollectVote, OddBird!CollectVote
    <3> HIDE DEF t, m
    <3> QED
      BY <1>0, <1>1, <1>2, <1>5, <2>1, <2>3, <3>2, SeatsOf, Nobodies
         DEF GuessedSoFar, Settled, OddBird!Decided, OddBird!Having, Sound, Typed, Shape
  <2> QED
    BY <2>2, <2>3
<1>6. CASE game = "sketchy"
  <2>1. s.featured = scratch.featured
    BY <1>0, <1>6 DEF SameTelling, Told, Sound, Shape, Registered
  <2>2. CASE p = s.featured
    <3>1. t = s
      BY <1>6, <2>2 DEF CollectVote, Sketchy!CollectVote
    <3>2. p \in Subject
      BY <1>6, <2>1, <2>2 DEF Subject
    <3> HIDE DEF t, m
    <3> QED
      BY <1>1, <1>2, <1>6, <3>1, <3>2 DEF GuessedSoFar
  <2>3. CASE p # s.featured
    <3>1. t = [s EXCEPT !.guesses[p] = "truth"]
      BY <1>0, <1>6, <2>3 DEF Guess, CollectVote, Sketchy!CollectVote, Offered
    <3> HIDE DEF t, m
    <3> QED
      BY <1>0, <1>1, <1>2, <1>6, <3>1, Nobodies DEF GuessedSoFar, Settled, Having, Sound, Typed, Shape
  <2> QED
    BY <2>2, <2>3
<1>7. CASE game = "lone-leaf"
  <2>1. \/ t = s /\ p # s.seeker
        \/ t = [s EXCEPT !.guess = "seed"]
    BY <1>0, <1>7 DEF Guess, CollectVote, LoneLeaf!CollectVote
  <2> HIDE DEF t, m
  <2> QED
    BY <1>0, <1>1, <1>2, <1>7, <2>1, Nobodies DEF GuessedSoFar, Settled, Sound, Shape
<1>8. CASE game = "decider"
  <2>1. t = [s EXCEPT !.guesses[p] = "truth"]
    BY <1>0, <1>8 DEF Guess, CollectVote, DeciderGame!CollectVote
  <2> HIDE DEF t, m
  <2> QED
    BY <1>0, <1>1, <1>2, <1>8, <2>1, Nobodies DEF GuessedSoFar, Settled, Having, Sound, Registered
<1> QED
  BY <1>3, <1>4, <1>5, <1>6, <1>7, <1>8 DEF GuessingGames

LEMMA AllSettled ==
  ASSUME TableSound, game \in Games, game \in GuessingGames, present \ Subject # {}, phase = "guessing",
         NEW s, GuessedSoFar(s), present \ Subject \subseteq Settled(s)
  PROVE  AllDecided([Ctx EXCEPT !.scratch = s])
<1> DEFINE c == [Ctx EXCEPT !.scratch = s]
<1>0. /\ c.scratch = s /\ c.present = present /\ present \subseteq Players /\ present # {}
      /\ Sound(s) /\ Sound(scratch) /\ (game \in Registered => SameTelling(scratch, s))
  BY DEF Ctx, TableSound, GuessedSoFar
<1> SUFFICES AllDecided(c)
  OBVIOUS
<1> HIDE DEF c
<1>2. CASE game = "liar-liar"
  BY <1>0, <1>2, SeatsOf, Nobodies
     DEF AllDecided, LiarLiar!AllDecided, LiarLiar!Everyone, LiarLiar!Having, Settled, Having, Subject
<1>3. CASE game = "zinger"
  <2>1. s.authors = scratch.authors /\ Subject = scratch.authors
    BY <1>3 DEF GuessedSoFar, Subject
  <2> QED
    BY <1>0, <1>3, <2>1, SeatsOf, Nobodies
       DEF AllDecided, Zinger!AllDecided, Zinger!Eligible, Zinger!Having, Settled, Having
<1>4. CASE game = "odd-bird"
  BY <1>0, <1>4 DEF AllDecided, OddBird!AllDecided, OddBird!Everyone, Settled, Subject
<1>6. CASE game = "sketchy"
  <2>1. s.featured = scratch.featured /\ Subject = {scratch.featured}
    BY <1>0, <1>6 DEF SameTelling, Told, Sound, Shape, Registered, Subject
  <2> QED
    BY <1>0, <1>6, <2>1, SeatsOf, Nobodies
       DEF AllDecided, Sketchy!AllDecided, Sketchy!Writers, Sketchy!Having, Settled, Having
<1>7. CASE game = "lone-leaf"
  <2>1. s.seeker = scratch.seeker /\ Subject = Players \ {scratch.seeker}
    BY <1>0, <1>7 DEF SameTelling, Told, Sound, Shape, Registered, Subject
  <2> QED
    BY <1>0, <1>7, <2>1, Nobodies DEF AllDecided, LoneLeaf!AllDecided, Settled
<1>9. CASE game = "decider"
  BY <1>0, <1>9, TestSeats, Nobodies
     DEF AllDecided, DeciderGame!AllDecided, DeciderGame!Everyone, DeciderGame!Having, Settled, Having, Subject
<1> QED
  BY <1>2, <1>3, <1>4, <1>6, <1>7, <1>9 DEF GuessingGames

LEMMA GuessesCanClose ==
  ASSUME TableSound, game \in Games, game \in GuessingGames, phase = "guessing", present \ Subject # {}
  PROVE  \E choice \in [present -> UNION {Votes(Ctx, p) : p \in present}] :
             AllDecided([Ctx EXCEPT !.scratch = After(CollectVote, choice)])
<1> DEFINE n == Len(Tables[game])
           seat(i) == Tables[game][i]
           awaited(i) == seat(i) \in present \ Subject
<1>2. PICK trail : /\ trail[0] = scratch /\ trail[n] = Afterwards("vote", Guesses)
                   /\ \A i \in 1 .. n : trail[i] = InTurn("vote", Guesses, trail[i - 1], i)
  BY RosterIsASequence, TurnByTurn DEF Before
<1> DEFINE I == {i \in 0 .. n : GuessedSoFar(trail[i]) /\ \A j \in 1 .. i : awaited(j) => seat(j) \in Settled(trail[i])}
<1>3. n \in Nat /\ (\A i \in 1 .. n : seat(i) \in Players) /\ (\A p \in Players : \E i \in 1 .. n : seat(i) = p)
  BY RosterIsASequence
<1> HIDE DEF n, seat
<1>4. 0 \in I
  <2>1. GuessedSoFar(scratch)
    BY DEF GuessedSoFar, TableSound, SameTelling
  <2> QED
    BY <1>2, <1>3, <2>1
<1>5. ASSUME NEW i \in 1 .. n, i - 1 \in I PROVE i \in I
  <2> DEFINE s == trail[i - 1]
             c == [Ctx EXCEPT !.scratch = s]
             t == trail[i]
  <2>1. GuessedSoFar(s) /\ \A j \in 1 .. i - 1 : awaited(j) => seat(j) \in Settled(s)
    BY <1>5
  <2>2. c.scratch = s /\ c.phase = "guessing"
    BY DEF Ctx
  <2>3. t = IF seat(i) \in present THEN CollectVote(c, seat(i), Guesses[seat(i)]) ELSE s
    BY <1>2 DEF InTurn, Speaks, seat
  <2> HIDE DEF s, c, t
  <2>4. GuessedSoFar(t) /\ Settled(s) \cup ({seat(i)} \cap (present \ Subject)) \subseteq Settled(t)
    <3>1. CASE seat(i) \in present
      BY <2>1, <2>2, <2>3, <3>1, GuessCounts
    <3>2. CASE seat(i) \notin present
      BY <2>1, <2>3, <3>2
    <3> QED
      BY <3>1, <3>2
  <2>5. ASSUME NEW j \in 1 .. i, awaited(j) PROVE seat(j) \in Settled(t)
    <3>1. j = i \/ j \in 1 .. i - 1
      BY <1>3
    <3> QED
      BY <2>1, <2>4, <2>5, <3>1
  <2> QED
    BY <2>4, <2>5 DEF t
<1>6. n \in I
  <2>1. \A i \in 0 .. n : i \in I
    <3> HIDE DEF I
    <3> QED
      BY <1>3, <1>4, <1>5, Upward
  <2> HIDE DEF I
  <2> QED
    BY <1>3, <2>1
<1> DEFINE t == trail[n]
<1>7. GuessedSoFar(t) /\ present \ Subject \subseteq Settled(t)
  <2>1. GuessedSoFar(t) /\ \A j \in 1 .. n : awaited(j) => seat(j) \in Settled(t)
    BY <1>6
  <2>2. present \subseteq Players
    BY DEF TableSound
  <2> HIDE DEF t
  <2> QED
    BY <1>3, <2>1, <2>2
<1>8. t = After(CollectVote, Guesses)
  BY <1>2 DEF Afterwards
<1> HIDE DEF t
<1>9. AllDecided([Ctx EXCEPT !.scratch = t])
  BY <1>7, AllSettled
<1>10. Guesses \in [present -> UNION {Votes(Ctx, p) : p \in present}]
  BY GuessesOnOffer
<1> QED
  BY <1>8, <1>9, <1>10

\* Whatever was sent, refused, replaced or lost, the players who are connected can
\* close the answers and the guesses themselves (allSubmitted and allDecided of
\* every game), at a table of any size that knows as many lies as it has players.
THEOREM TablesCanAlwaysClose == Spec => []TableCanClose
<1>1. ModeInv /\ TableSound => TableCanClose
  <2> SUFFICES ASSUME ModeInv, TableSound PROVE TableCanClose
    OBVIOUS
  <2>1. game \in Games
    BY DEF ModeInv
  <2>2. phase = "collecting" /\ present \ Subject # {} =>
            \E choice \in [present -> UNION {Moves(Ctx, p) : p \in present}] :
                AllSubmitted([Ctx EXCEPT !.scratch = After(CollectMove, choice)])
    BY <2>1, AnswersCanClose
  <2>3. phase = "guessing" /\ present \ Subject # {} =>
            \E choice \in [present -> UNION {Votes(Ctx, p) : p \in present}] :
                AllDecided([Ctx EXCEPT !.scratch = After(CollectVote, choice)])
    BY <2>1, Guessing, GuessesCanClose
  <2> QED
    BY <2>2, <2>3 DEF TableCanClose
<1> QED
  BY <1>1, TableCorrect, PTL

-----------------------------------------------------------------------------
(* What a finished round paid.                                               *)

\* The seats up to one of them: each is another player, and the last of them ends the table.
SeatsTo(i) == {Tables[game][j] : j \in 1 .. i}

LEMMA SeatsGrow ==
  ASSUME game \in Games
  PROVE  /\ SeatsTo(0) = {} /\ SeatsTo(Len(Tables[game])) = Players
         /\ \A i \in 1 .. Len(Tables[game]) : /\ SeatsTo(i) = SeatsTo(i - 1) \cup {Tables[game][i]}
                                              /\ Tables[game][i] \in Players \ SeatsTo(i - 1)
                                              /\ SeatsTo(i - 1) \subseteq Players
<1> DEFINE n == Len(Tables[game])
           seat(i) == Tables[game][i]
<1>1. /\ n \in Nat /\ (\A i \in 1 .. n : seat(i) \in Players) /\ (\A p \in Players : \E i \in 1 .. n : seat(i) = p)
      /\ \A i, j \in 1 .. n : seat(i) = seat(j) => i = j
  BY RosterIsASequence, RoundGamesAssumption DEF IsInjective
<1>2. \A i : SeatsTo(i) = {seat(j) : j \in 1 .. i}
  BY DEF SeatsTo
<1> HIDE DEF n, seat
<1>3. SeatsTo(0) = {} /\ SeatsTo(n) = Players
  <2>1. 1 .. 0 = {}
    OBVIOUS
  <2>2. SeatsTo(0) = {}
    BY <2>1 DEF SeatsTo
  <2>3. SeatsTo(n) = {seat(j) : j \in 1 .. n}
    BY <1>2
  <2> QED
    BY <1>1, <2>2, <2>3
<1>4. ASSUME NEW i \in 1 .. n
      PROVE  /\ SeatsTo(i) = SeatsTo(i - 1) \cup {seat(i)} /\ seat(i) \in Players \ SeatsTo(i - 1)
             /\ SeatsTo(i - 1) \subseteq Players
  <2>1. 1 .. i = (1 .. i - 1) \cup {i} /\ \A j \in 1 .. i - 1 : j \in 1 .. n /\ j # i
    BY <1>1
  <2> QED
    BY <1>1, <1>2, <2>1
<1> QED
  BY <1>3, <1>4 DEF n, seat

LEMMA SumByTurn ==
  ASSUME game \in Games, NEW pay
  PROVE  \E sum : /\ sum[0] = 0 /\ sum[Len(Tables[game])] = Afterwards("points", pay)
                  /\ \A i \in 1 .. Len(Tables[game]) : sum[i] = sum[i - 1] + pay[Tables[game][i]]
<1>1. PICK sum : /\ sum[0] = Before("points") /\ sum[Len(Tables[game])] = Afterwards("points", pay)
                 /\ \A i \in 1 .. Len(Tables[game]) : sum[i] = InTurn("points", pay, sum[i - 1], i)
  <2>1. "points" \in {"move", "vote", "points"}
    OBVIOUS
  <2>2. Len(Tables[game]) \in Nat /\ DOMAIN Tables[game] = 1 .. Len(Tables[game])
    BY RosterIsASequence
  <2> QED
    BY <2>1, <2>2, TurnByTurn
<1>2. Before("points") = 0 /\ \A s, i : InTurn("points", pay, s, i) = s + pay[Tables[game][i]]
  BY DEF Before, InTurn
<1> QED
  BY <1>1, <1>2

\* A table that pays one player pays what that player gets.
LEMMA OnePaid ==
  ASSUME game \in Games, NEW pay, NEW a, \A p \in Players \ {a} : pay[p] = 0, a \in Players => pay[a] \in Int
  PROVE  Afterwards("points", pay) = IF a \in Players THEN pay[a] ELSE 0
<1> DEFINE n == Len(Tables[game])
           seat(i) == Tables[game][i]
           paid(i) == IF a \in SeatsTo(i) THEN pay[a] ELSE 0
<1>1. PICK sum : /\ sum[0] = 0 /\ sum[n] = Afterwards("points", pay)
                 /\ \A i \in 1 .. n : sum[i] = sum[i - 1] + pay[seat(i)]
  BY SumByTurn
<1>2. n \in Nat /\ SeatsTo(0) = {} /\ SeatsTo(n) = Players
  BY RosterIsASequence, SeatsGrow
<1>3. \A i \in 1 .. n : /\ SeatsTo(i) = SeatsTo(i - 1) \cup {seat(i)} /\ seat(i) \in Players \ SeatsTo(i - 1)
                        /\ SeatsTo(i - 1) \subseteq Players
  BY SeatsGrow
<1> HIDE DEF n, seat
<1> DEFINE I == {i \in 0 .. n : sum[i] = paid(i)}
<1>4. 0 \in I
  BY <1>1, <1>2
<1>5. ASSUME NEW i \in 1 .. n, i - 1 \in I PROVE i \in I
  <2>1. sum[i] = paid(i - 1) + pay[seat(i)]
    BY <1>1, <1>5
  <2>2. CASE seat(i) = a
    BY <1>3, <2>1, <2>2
  <2>3. CASE seat(i) # a
    <3>1. pay[seat(i)] = 0 /\ paid(i) = paid(i - 1) /\ paid(i - 1) \in Int
      BY <1>3, <2>3
    <3> QED
      BY <2>1, <3>1
  <2> QED
    BY <2>2, <2>3
<1>6. n \in I
  <2> HIDE DEF I
  <2>1. \A i \in 0 .. n : i \in I
    BY <1>2, <1>4, <1>5, Upward
  <2> QED
    BY <1>2, <2>1
<1> QED
  BY <1>1, <1>2, <1>6

\* Paid by author or paid by guess, every guess pays once and the truth twice that.
LEMMA GuessesPaid ==
  ASSUME game \in Games, NEW pay, NEW g, DOMAIN g = Players,
         \A p \in Players : g[p] \in Players \cup {"truth", Nobody},
         \A p \in Players : pay[p] = (IF g[p] = "truth" THEN 100 ELSE 0)
                                     + 50 * Cardinality({q \in Players : g[q] = p})
  PROVE  Afterwards("points", pay) = 50 * Cardinality(Having(g)) + 50 * Cardinality({p \in Players : g[p] = "truth"})
<1> DEFINE n == Len(Tables[game])
           seat(i) == Tables[game][i]
           pickers(p) == {q \in Players : g[q] = p}
           right(i) == {q \in SeatsTo(i) : g[q] = "truth"}
           fooled(i) == {q \in Players : g[q] \in SeatsTo(i)}
<1>1. PICK sum : /\ sum[0] = 0 /\ sum[n] = Afterwards("points", pay)
                 /\ \A i \in 1 .. n : sum[i] = sum[i - 1] + pay[seat(i)]
  BY SumByTurn
<1>2. n \in Nat /\ IsFiniteSet(Players) /\ SeatsTo(0) = {} /\ SeatsTo(n) = Players
  BY RosterIsASequence, SeatsGrow
<1>3. \A i \in 1 .. n : /\ SeatsTo(i) = SeatsTo(i - 1) \cup {seat(i)} /\ seat(i) \in Players \ SeatsTo(i - 1)
                        /\ SeatsTo(i - 1) \subseteq Players
  BY SeatsGrow
<1> HIDE DEF n, seat
<1> DEFINE I == {i \in 0 .. n : sum[i] = 100 * Cardinality(right(i)) + 50 * Cardinality(fooled(i))}
<1>4. 0 \in I
  <2>1. right(0) = {} /\ fooled(0) = {}
    BY <1>2
  <2> QED
    BY <1>1, <1>2, <2>1, FS_EmptySet
<1>5. ASSUME NEW i \in 1 .. n, i - 1 \in I PROVE i \in I
  <2> DEFINE p == seat(i)
  <2>1. /\ right(i - 1) \subseteq Players /\ fooled(i - 1) \subseteq Players /\ pickers(p) \subseteq Players
        /\ p \in Players /\ p \notin right(i - 1) /\ fooled(i - 1) \cap pickers(p) = {}
    BY <1>3
  <2>2. /\ IsFiniteSet(right(i - 1)) /\ IsFiniteSet(fooled(i - 1)) /\ IsFiniteSet(pickers(p))
        /\ Cardinality(right(i - 1)) \in Nat /\ Cardinality(fooled(i - 1)) \in Nat /\ Cardinality(pickers(p)) \in Nat
    <3> HIDE DEF right, fooled, pickers, p
    <3> QED
      BY <1>2, <2>1, FS_Subset, FS_CardinalityType
  <2>3. right(i) = (IF g[p] = "truth" THEN right(i - 1) \cup {p} ELSE right(i - 1))
        /\ fooled(i) = fooled(i - 1) \cup pickers(p)
    BY <1>3
  <2>4. pay[p] = (IF g[p] = "truth" THEN 100 ELSE 0) + 50 * Cardinality(pickers(p))
    BY <2>1
  <2>5. sum[i] = 100 * Cardinality(right(i - 1)) + 50 * Cardinality(fooled(i - 1)) + pay[p]
    BY <1>1, <1>5
  <2> HIDE DEF right, fooled, pickers, p
  <2>6. Cardinality(fooled(i)) = Cardinality(fooled(i - 1)) + Cardinality(pickers(p))
    BY <2>1, <2>2, <2>3, DisjointUnion
  <2>7. Cardinality(right(i)) = Cardinality(right(i - 1)) + (IF g[p] = "truth" THEN 1 ELSE 0)
    <3>1. Cardinality(right(i - 1) \cup {p}) = Cardinality(right(i - 1)) + 1
      BY <2>1, <2>2, FS_AddElement
    <3> QED
      BY <2>2, <2>3, <3>1
  <2> QED
    BY <2>2, <2>4, <2>5, <2>6, <2>7
<1>6. n \in I
  <2> HIDE DEF I
  <2>1. \A i \in 0 .. n : i \in I
    BY <1>2, <1>4, <1>5, Upward
  <2> QED
    BY <1>2, <2>1
<1>7. right(n) = {p \in Players : g[p] = "truth"} /\ Having(g) = right(n) \cup fooled(n) /\ right(n) \cap fooled(n) = {}
      /\ right(n) \subseteq Players /\ fooled(n) \subseteq Players
  <2>1. Nobody \notin Players /\ "truth" \notin Players /\ Nobody # "truth"
    BY Played, SomeoneSits, TestSeats, Nobodies
  <2> QED
    BY <1>2, <2>1 DEF Having
<1>8. /\ Cardinality(right(n)) \in Nat /\ Cardinality(fooled(n)) \in Nat
      /\ Cardinality(Having(g)) = Cardinality(right(n)) + Cardinality(fooled(n))
  <2> HIDE DEF right, fooled
  <2> QED
    BY <1>2, <1>7, FS_Subset, FS_CardinalityType, DisjointUnion
<1>9. sum[n] = 100 * Cardinality(right(n)) + 50 * Cardinality(fooled(n))
  BY <1>6
<1> HIDE DEF right, fooled
<1> QED
  BY <1>1, <1>7, <1>8, <1>9

\* Who may have voted, and for what.
Entered(s, ph, r) ==
    CASE game = "trivia"      -> /\ ph = "collecting" => s.disputers = {}
                                 /\ s.disputers \subseteq s.wrong
                                 /\ \A p \in s.wrong : s.submitted[p] = "wrong" /\ s.plan[r] = "open"
      [] game = "stub"        -> IF ph = "collecting" THEN s.disputers = {}
                                 ELSE /\ s.correct = {p \in Players : s.submitted[p] = "right"}
                                      /\ s.disputers \cap s.correct = {}
      [] game = "liar-liar"   -> \A p \in Players : s.guesses[p] \in Players \cup {"truth", Nobody}
      [] game = "decider"     -> \A p \in Players :
                                     /\ s.guesses[p] \in Players \cup {"truth", Nobody} /\ s.guesses[p] # p
                                     /\ s.guesses[p] \in Players => s.submitted[s.guesses[p]] # Nobody
                                     /\ ph = "collecting" => s.guesses[p] = Nobody
      [] game = "sketchy"     -> /\ \A p \in Players : s.guesses[p] \in Players \cup {"truth", Nobody}
                                 /\ ph = "disputing" => s.stage = "draw"
                                 /\ s.stage = "draw" => /\ s.featured = Nobody /\ s.options = {}
                                                        /\ \A p \in Players : s.guesses[p] = Nobody
                                 /\ s.stage = "sketch" => /\ s.decoys[s.featured] = Nobody
                                                          /\ s.guesses[s.featured] = Nobody
                                                          /\ s.featured \notin s.options
                                                          /\ \A p \in Players : s.guesses[p] # s.featured
      [] game = "same-branch" -> s.reader \in Players /\ s.guesses[s.reader] = -1
      [] OTHER                -> TRUE

LEMMA TheSeats ==
  ASSUME game \in Games
  PROVE  /\ Nobody = "nobody" /\ Nobody \notin Players /\ "truth" \notin Players
         /\ game = "stub" => StubGame!Players = Players /\ StubGame!Nobody = Nobody
         /\ game = "decider" => DeciderGame!Players = Players /\ DeciderGame!Nobody = Nobody
  BY Played, Nobodies, SomeoneSits, TestSeats

LEMMA NothingEntered ==
  /\ game = "liar-liar" => LiarLiar!Unset = [p \in Players |-> Nobody]
  /\ game = "sketchy" => Sketchy!Unset = [p \in Players |-> Nobody]
<1>1. CASE game = "liar-liar"
  <2>1. LiarLiar!Players = Players /\ LiarLiar!Nobody = Nobody
    BY <1>1, SeatsOf, Nobodies
  <2> QED
    BY <1>1, <2>1 DEF LiarLiar!Unset
<1>2. CASE game = "sketchy"
  <2>1. Sketchy!Players = Players /\ Sketchy!Nobody = Nobody
    BY <1>2, SeatsOf, Nobodies
  <2> QED
    BY <1>2, <2>1 DEF Sketchy!Unset
<1> QED
  BY <1>1, <1>2

LEMMA EnteredMove ==
  ASSUME game \in Games, NEW c, NEW p \in Players, NEW m, NEW r, Sound(c.scratch), Entered(c.scratch, "collecting", r)
  PROVE  Entered(CollectMove(c, p, m), "collecting", r)
<1> DEFINE s == c.scratch
<1>0. game \in Registered => DOMAIN s = Shape /\ Typed(s)
  BY DEF Sound, Registered
<1>1. CASE game = "trivia"
  BY <1>0, <1>1, Nobodies, SeatsOf DEF Entered, Registered, Typed, Shape, CollectMove, Trivia!CollectMove, Trivia!Refused
<1>2. CASE game = "stub"
  BY <1>2 DEF Entered, Sound, CollectMove, StubGame!CollectMove
<1>3. CASE game = "liar-liar"
  BY <1>0, <1>3 DEF Entered, Registered, Typed, Shape, CollectMove, LiarLiar!CollectMove
<1>4. CASE game = "decider"
  BY <1>4, TheSeats DEF Entered, Sound, CollectMove, DeciderGame!CollectMove
<1>5. CASE game = "sketchy"
  <2>1. DOMAIN s = Shape /\ Typed(s) /\ Entered(s, "collecting", r)
    BY <1>0, <1>5 DEF Registered
  <2>2. CASE s.stage = "draw"
    BY <1>5, <2>1, <2>2 DEF Entered, Typed, Shape, CollectMove, Sketchy!CollectMove
  <2>3. CASE s.stage = "sketch"
    BY <1>5, <2>1, <2>3 DEF Entered, Typed, Shape, CollectMove, Sketchy!CollectMove
  <2> QED
    BY <1>5, <2>1, <2>2, <2>3 DEF Typed
<1>6. CASE game = "same-branch"
  BY <1>0, <1>6 DEF Entered, Registered, Typed, Shape, CollectMove, SameBranch!CollectMove
<1>7. CASE game \in {"zinger", "odd-bird", "lone-leaf"}
  BY <1>7 DEF Entered
<1> QED
  BY <1>1, <1>2, <1>3, <1>4, <1>5, <1>6, <1>7, Played DEF Registered

LEMMA EnteredVote ==
  ASSUME game \in Games, NEW c, NEW p \in Players, NEW v \in Votes(c, p), NEW r, Sound(c.scratch),
         c.phase \in {"disputing", "voting", "guessing"}, Entered(c.scratch, c.phase, r)
  PROVE  Entered(CollectVote(c, p, v), c.phase, r)
<1> DEFINE s == c.scratch
           t == CollectVote(c, p, v)
<1>0. game \in Registered => DOMAIN s = Shape /\ Typed(s)
  BY DEF Sound, Registered
<1>1. CASE game = "trivia"
  BY <1>0, <1>1 DEF Entered, Registered, Typed, Shape, CollectVote, Trivia!CollectVote, Trivia!MayDispute
<1>2. CASE game = "stub"
  BY <1>2 DEF Entered, Sound, CollectVote, StubGame!CollectVote, StubGame!Disputes, StubGame!Judges
<1>3. CASE game = "liar-liar"
  BY <1>0, <1>3 DEF Entered, Registered, Typed, Shape, CollectVote, LiarLiar!CollectVote
<1>4. CASE game = "decider"
  <2>1. v \in {"truth"} \cup {q \in Players : s.submitted[q] # Nobody}
    BY <1>4, TheSeats DEF Votes, DeciderGame!Votes, DeciderGame!Options, DeciderGame!Truth, DeciderGame!Having
  <2>2. t = s \/ (v # p /\ t = [s EXCEPT !.guesses[p] = v])
    BY <1>4 DEF CollectVote, DeciderGame!CollectVote
  <2>3. CASE t = s
    BY <2>3
  <2>4. CASE v # p /\ t = [s EXCEPT !.guesses[p] = v]
    <3>1. t.submitted = s.submitted /\ t.guesses = [s.guesses EXCEPT ![p] = v]
          /\ DOMAIN s.guesses = Players
      BY <1>4, <2>4 DEF Sound
    <3>2. \A q \in Players : t.guesses[q] = IF q = p THEN v ELSE s.guesses[q]
      BY <3>1
    <3> HIDE DEF t
    <3>3. c.phase # "collecting" /\ Nobody \notin Players /\ "truth" \notin Players
      BY TheSeats
    <3>4. \A q \in Players : /\ s.guesses[q] \in Players \cup {"truth", Nobody} /\ s.guesses[q] # q
                             /\ s.guesses[q] \in Players => s.submitted[s.guesses[q]] # Nobody
      BY <1>4 DEF Entered
    <3>5. \A q \in Players : /\ t.guesses[q] \in Players \cup {"truth", Nobody} /\ t.guesses[q] # q
                             /\ t.guesses[q] \in Players => t.submitted[t.guesses[q]] # Nobody
      BY <2>1, <2>4, <3>1, <3>2, <3>3, <3>4
    <3>6. Entered(t, c.phase, r)
      BY <1>4, <3>3, <3>5 DEF Entered
    <3> QED
      BY <3>6 DEF t
  <2> QED
    BY <2>2, <2>3, <2>4
<1>5. CASE game = "sketchy"
  <2>1. DOMAIN s = Shape /\ Typed(s) /\ Entered(s, c.phase, r) /\ v \in s.options
    BY <1>0, <1>5 DEF Registered, Votes, Sketchy!Votes
  <2>2. s.stage = "sketch" /\ s.featured \in Players /\ s.options \subseteq {"truth"} \cup Players
    BY <1>5, <2>1 DEF Entered, Typed
  <2>3. t = s \/ (p # s.featured /\ t = [s EXCEPT !.guesses[p] = v])
    BY <1>5 DEF CollectVote, Sketchy!CollectVote
  <2>4. CASE t = s
    BY <2>4
  <2>5. CASE p # s.featured /\ t = [s EXCEPT !.guesses[p] = v]
    <3>1. /\ t.featured = s.featured /\ t.options = s.options /\ t.stage = s.stage /\ t.decoys = s.decoys
          /\ t.guesses = [s.guesses EXCEPT ![p] = v] /\ DOMAIN s.guesses = Players
      BY <1>5, <2>1, <2>5 DEF Typed, Shape
    <3> QED
      BY <1>5, <2>1, <2>2, <2>5, <3>1 DEF Entered
  <2> QED
    BY <2>3, <2>4, <2>5
<1>6. CASE game = "same-branch"
  BY <1>6 DEF CollectVote
<1>7. CASE game \in {"zinger", "odd-bird", "lone-leaf"}
  BY <1>7 DEF Entered
<1> QED
  BY <1>1, <1>2, <1>3, <1>4, <1>5, <1>6, <1>7, Played DEF Registered

LEMMA EnteredReveal ==
  ASSUME game \in Games, NEW c, NEW t \in Reveal(c), Sound(c.scratch), Entered(c.scratch, "collecting", c.round)
  PROVE  Entered(t.scratch, IF t.guess THEN "guessing" ELSE "disputing", c.round)
<1> DEFINE s == c.scratch
<1>0. game \in Registered => DOMAIN s = Shape /\ Typed(s)
  BY DEF Sound, Registered
<1>1. CASE game = "trivia"
  <2>1. \E w : /\ t.scratch = [s EXCEPT !.wrong = w]
               /\ \A p \in w : s.submitted[p] = "wrong" /\ s.plan[c.round] = "open"
    <3> DEFINE w == IF s.plan[c.round] = "open" THEN {p \in Trivia!Players : s.submitted[p] = "wrong"} ELSE {}
    <3>1. t.scratch = [s EXCEPT !.wrong = w]
      BY <1>1 DEF Reveal, Trivia!Reveal, Trivia!Revealed
    <3>2. \A p \in w : s.submitted[p] = "wrong" /\ s.plan[c.round] = "open"
      OBVIOUS
    <3> HIDE DEF w
    <3> QED
      BY <3>1, <3>2
  <2> QED
    BY <1>0, <1>1, <2>1 DEF Entered, Registered, Shape
<1>2. CASE game = "stub"
  <2>1. t.scratch = [s EXCEPT !.correct = {p \in Players : s.submitted[p] = "right"}]
    BY <1>2, TheSeats DEF Reveal, StubGame!Reveal, StubGame!Revealed, StubGame!Correct
  <2> QED
    BY <1>2, <2>1 DEF Entered, Sound
<1>3. CASE game = "liar-liar"
  <2>1. t.scratch.guesses = [p \in Players |-> Nobody]
    <3>1. DOMAIN s = Shape
      BY <1>0, <1>3 DEF Registered
    <3>2. t.scratch = [s EXCEPT !.options = {LiarLiar!Truth} \cup LiarLiar!Having(s.submissions),
                                !.guesses = LiarLiar!Unset]
      BY <1>3 DEF Reveal, LiarLiar!Reveal, LiarLiar!Revealed
    <3>3. t.scratch.guesses = LiarLiar!Unset
      BY <1>3, <3>1, <3>2 DEF Shape
    <3> QED
      BY <1>3, <3>3, NothingEntered
  <2> QED
    BY <1>3, <2>1 DEF Entered
<1>4. CASE game = "decider"
  <2>1. t.scratch = s
    BY <1>4 DEF Reveal, DeciderGame!Reveal, DeciderGame!Revealed
  <2> QED
    BY <1>4, <2>1 DEF Entered
<1>5. CASE game = "sketchy"
  <2>1. DOMAIN s = Shape /\ Typed(s) /\ Entered(s, "collecting", c.round)
    BY <1>0, <1>5 DEF Registered
  <2>2. CASE s.stage = "draw"
    <3>1. t.scratch = s /\ t.guess = FALSE
      BY <1>5, <2>2 DEF Reveal, Sketchy!Reveal, Sketchy!Revealed
    <3> QED
      BY <1>5, <2>1, <2>2, <3>1 DEF Entered
  <2>3. CASE s.stage = "sketch"
    <3>1. t.scratch = [s EXCEPT !.options = {"truth"} \cup {p \in Players : s.decoys[p] # Nobody},
                                !.guesses = [p \in Players |-> Nobody]] /\ t.guess = TRUE
      BY <1>5, <2>3, SeatsOf, Nobodies
         DEF Reveal, Sketchy!Reveal, Sketchy!Revealed, Sketchy!Unset, Sketchy!Truth, Sketchy!Having
    <3>2. s.featured \in Players /\ s.decoys[s.featured] = Nobody
      BY <1>5, <2>1, <2>3 DEF Entered, Typed
    <3> QED
      BY <1>5, <2>1, <2>3, <3>1, <3>2, TheSeats DEF Entered, Shape
  <2> QED
    BY <1>5, <2>1, <2>2, <2>3 DEF Typed
<1>6. CASE game = "same-branch"
  BY <1>6 DEF Entered, Reveal, SameBranch!Reveal, SameBranch!Revealed
<1>7. CASE game \in {"zinger", "odd-bird", "lone-leaf"}
  BY <1>7 DEF Entered
<1> QED
  BY <1>1, <1>2, <1>3, <1>4, <1>5, <1>6, <1>7, Played DEF Registered

LEMMA EnteredOpens ==
  ASSUME game \in Games, NEW c, c.round \in Nat \ {0},
         Sound(c.scratch) \/ (c.round = 1 /\ c.scratch \in Configured), NEW t \in StartRound(c)
  PROVE  Entered(t, "collecting", c.round)
<1> DEFINE s == c.scratch
<1>0. game \in Registered => DOMAIN s = Shape
  BY ConfiguredShaped DEF Sound, Registered
<1>1. CASE game = "trivia"
  <2>1. t.wrong = {} /\ t.disputers = {}
    BY <1>0, <1>1 DEF StartRound, Trivia!StartRound, Registered, Shape
  <2> QED
    BY <1>1, <2>1 DEF Entered
<1>2. CASE game = "stub"
  <2>1. DOMAIN s = {"rounds", "submitted", "correct", "disputers", "ballots"}
    BY <1>2 DEF Sound, Configured, StubGame!Configured, StubGame!Fresh
  <2>2. t.disputers = {}
    BY <1>2, <2>1 DEF StartRound, StubGame!StartRound
  <2> QED
    BY <1>2, <2>2 DEF Entered
<1>3. CASE game = "liar-liar"
  <2>1. t.guesses = [p \in Players |-> Nobody]
    <3>1. t.guesses = LiarLiar!Unset
      BY <1>0, <1>3 DEF StartRound, LiarLiar!StartRound, Registered, Shape
    <3> QED
      BY <1>3, <3>1, NothingEntered
  <2> QED
    BY <1>3, <2>1 DEF Entered
<1>4. CASE game = "decider"
  <2>1. DOMAIN s = {"rounds", "submitted", "guesses"}
    BY <1>4 DEF Sound, Configured, DeciderGame!Configured, DeciderGame!Fresh
  <2>2. t.guesses = [p \in Players |-> Nobody]
    BY <1>4, <2>1, TheSeats DEF StartRound, DeciderGame!StartRound, DeciderGame!Unset
  <2> QED
    BY <1>4, <2>2, TheSeats DEF Entered
<1>5. CASE game = "sketchy"
  <2>0. game \in Registered /\ DOMAIN s = Shape
    BY <1>0, <1>5 DEF Registered
  <2>1. /\ t.featured = Nobody \/ t.stage = "sketch"
        /\ t.stage \in {"draw", "sketch"} /\ t.options = {}
        /\ t.decoys = [p \in Players |-> Nobody] /\ t.guesses = [p \in Players |-> Nobody]
    <3> DEFINE u == Sketchy!Cleared(s)
    <3>1. /\ DOMAIN u = Shape /\ u.featured = Nobody /\ u.options = {}
          /\ u.decoys = [p \in Players |-> Nobody] /\ u.guesses = [p \in Players |-> Nobody]
      BY <1>5, <2>0, NothingEntered, Nobodies DEF Sketchy!Cleared, Shape
    <3>2. \/ \E a : t = [u EXCEPT !.stage = "draw", !.assignments = a, !.used = @ \cup Sketchy!Range(a), !.sketches = {}]
          \/ \E p : t = [u EXCEPT !.stage = "sketch", !.featured = p]
      <4>1. CASE Sketchy!FeatureIndex(c.round) = 0
        BY <1>5, <4>1 DEF StartRound, Sketchy!StartRound
      <4>2. CASE ~(Sketchy!FeatureIndex(c.round) = 0)
        BY <1>5, <4>2 DEF StartRound, Sketchy!StartRound
      <4> QED
        BY <4>1, <4>2
    <3> HIDE DEF u
    <3> QED
      BY <1>5, <3>1, <3>2 DEF Shape
  <2>2. t.stage = "sketch" => t.featured \in Players
    <3>1. Sound(t)
      BY SoundOpens
    <3> QED
      BY <1>5, <3>1 DEF Sound, Typed
  <2> QED
    BY <1>5, <2>1, <2>2, TheSeats DEF Entered
<1>6. CASE game = "same-branch"
  <2>0. game \in Registered /\ DOMAIN s = Shape
    BY <1>0, <1>6 DEF Registered
  <2>1. t.reader = SameBranch!ReaderFor(c.round) /\ t.guesses = [p \in Players |-> -1]
    <3>1. PICK spectrum : t \in {[s EXCEPT !.used = @ \cup {spectrum}, !.bud = bud,
                                           !.reader = SameBranch!ReaderFor(c.round), !.hunch = FALSE,
                                           !.guesses = [p \in SameBranch!Players |-> -1]] : bud \in Buds}
      BY <1>6 DEF StartRound, SameBranch!StartRound
    <3> QED
      BY <1>6, <2>0, <3>1, SeatsOf DEF Shape
  <2>2. SameBranch!ReaderFor(c.round) \in Players
    <3>1. Len(Tables[game]) \in Nat \ {0}
      <4>1. Tables[game] \in Seq(Range(Tables[game]) \ {Nobody, "truth"}) /\ Tables[game] # <<>>
        BY <1>6, RemotesAssumption, RoundGamesAssumption DEF Registered
      <4> QED
        BY <4>1
    <3>2. ((c.round - 1) % Len(Tables[game])) + 1 \in 1 .. Len(Tables[game])
      BY <3>1
    <3> QED
      BY <1>6, <3>2, RosterIsASequence DEF SameBranch!ReaderFor
  <2> QED
    BY <1>6, <2>1, <2>2 DEF Entered
<1>7. CASE game \in {"zinger", "odd-bird", "lone-leaf"}
  BY <1>7 DEF Entered
<1> QED
  BY <1>1, <1>2, <1>3, <1>4, <1>5, <1>6, <1>7, Played DEF Registered

LEMMA TotalIs ==
  ASSUME NEW pay, game' = game, roundScores' = pay
  PROVE  Total' = Afterwards("points", pay)
  BY DEF Total, Afterwards, FoldLeft, MapThenFoldSet

LEMMA NobodyPaid ==
  ASSUME game \in Games, NEW pay, \A p \in Players : pay[p] = 0
  PROVE  Afterwards("points", pay) = 0
<1>1. Nobody \notin Players
  BY TheSeats
<1>2. \A p \in Players \ {Nobody} : pay[p] = 0
  OBVIOUS
<1> QED
  BY <1>1, <1>2, OnePaid

LEMMA CountsAreNumbers ==
  ASSUME game \in Games, NEW S \in SUBSET Players
  PROVE  IsFiniteSet(S) /\ Cardinality(S) \in Nat
  BY RosterIsASequence, FS_Subset, FS_CardinalityType

\* An author is paid for the players the fake fooled, a reader for the truth.
LEMMA GuessersPoints ==
  ASSUME game \in {"liar-liar", "sketchy", "decider"}, game \in Games, NEW c, NEW p \in Players,
         Sound(c.scratch), NEW r, Entered(c.scratch, "guessing", r),
         game = "decider" => DeciderApart(c.scratch)
  PROVE  ResolveDecision(c).points[p] = (IF c.scratch.guesses[p] = "truth" THEN 100 ELSE 0)
                                        + 50 * Cardinality({q \in Players : c.scratch.guesses[q] = p})
<1> DEFINE s == c.scratch
<1>1. CASE game = "liar-liar"
  <2>1. LiarLiar!Players = Players
    BY <1>1, SeatsOf
  <2>2. ResolveDecision(c) = LiarLiar!ResolveDecision(c)
    BY <1>1 DEF ResolveDecision
  <2>3. LiarLiar!ResolveDecision(c).points[p] = (IF p \in {q \in Players : s.guesses[q] = "truth"} THEN 100 ELSE 0)
                                       + 50 * LiarLiar!Cardinality({q \in Players : s.guesses[q] = p})
    BY <2>1 DEF LiarLiar!ResolveDecision, LiarLiar!Resolved, LiarLiar!Truth
  <2> QED
    BY <2>2, <2>3, SameCounts
<1>2. CASE game = "sketchy"
  <2>1. Sketchy!Players = Players
    BY <1>2, SeatsOf
  <2>2. ResolveDecision(c) = Sketchy!ResolveDecision(c)
    BY <1>2 DEF ResolveDecision
  <2>3. Sketchy!ResolveDecision(c).points[p] = (IF p \in {q \in Players : s.guesses[q] = "truth"} THEN 100 ELSE 0)
                                       + 50 * Sketchy!Cardinality({q \in Players : s.guesses[q] = p})
    BY <2>1 DEF Sketchy!ResolveDecision, Sketchy!Resolved, Sketchy!Truth
  <2> QED
    BY <2>2, <2>3, SameCounts
<1>3. CASE game = "decider"
  <2>1. DeciderGame!Players = Players /\ DeciderGame!Nobody = Nobody /\ Nobody \notin Players /\ "truth" \notin Players
    BY <1>3, TheSeats
  <2>2. ResolveDecision(c).points[p] = (IF s.guesses[p] = "truth" THEN 100 ELSE 0)
                                       + 50 * Cardinality(DeciderGame!Fooled(s, p))
    <3>1. ResolveDecision(c) = DeciderGame!ResolveDecision(c)
      BY <1>3 DEF ResolveDecision
    <3>2. DeciderGame!ResolveDecision(c).points[p] = (IF s.guesses[p] = "truth" THEN 100 ELSE 0)
                                                     + 50 * DeciderGame!Cardinality(DeciderGame!Fooled(s, p))
      BY <2>1 DEF DeciderGame!ResolveDecision, DeciderGame!Resolved, DeciderGame!Truth
    <3>3. \A S : DeciderGame!Cardinality(S) = Cardinality(S)
      BY Zenon DEF DeciderGame!Cardinality, Cardinality
    <3> QED
      BY <3>1, <3>2, <3>3
  <2>3. ASSUME NEW q \in Players PROVE q \in DeciderGame!Fooled(s, p) <=> s.guesses[q] = p
    <3>1. /\ s.guesses[q] \in Players \cup {"truth", Nobody} /\ s.guesses[q] # q
          /\ s.guesses[q] \in Players => s.submitted[s.guesses[q]] # Nobody
      BY <1>3 DEF Entered
    <3>2. \A a, b \in Players : a # b /\ s.submitted[a] = s.submitted[b] => s.submitted[a] = Nobody
      BY <1>3, <2>1 DEF DeciderApart, Distinct
    <3>3. q \in DeciderGame!Fooled(s, p) <=> /\ q # p /\ s.guesses[q] \notin {Nobody, "truth"}
                                             /\ s.submitted[s.guesses[q]] = s.submitted[p]
      BY <2>1 DEF DeciderGame!Fooled, DeciderGame!Text, DeciderGame!Truth
    <3> QED
      BY <2>1, <3>1, <3>2, <3>3
  <2>4. DeciderGame!Fooled(s, p) = {q \in Players : s.guesses[q] = p}
    <3>1. DeciderGame!Fooled(s, p) \subseteq Players
      BY <2>1 DEF DeciderGame!Fooled
    <3> QED
      BY <2>3, <3>1
  <2> QED
    BY <2>2, <2>4
<1> QED
  BY <1>1, <1>2, <1>3

\* One author of the face-off at most has more votes than the other.
LEMMA WinnerPaid ==
  ASSUME game = "zinger", game \in Games, NEW c, Sound(c.scratch),
         NEW pay, \A p \in Players : pay[p] = ResolveDecision(c).points[p]
  PROVE  /\ Cardinality({p \in Players : pay[p] > 0}) <= 1 /\ \A p \in Players : pay[p] \in Int
         /\ Afterwards("points", pay) <= Cardinality({p \in Players : c.scratch.votes[p] # Nobody}) + 3
<1> DEFINE s == c.scratch
           tally(a) == Cardinality({p \in Players : s.votes[p] = a})
           won == Zinger!Winner(s)
           bonus == IF Zinger!Swept(c) THEN 3 ELSE 0
           voters == {p \in Players : s.votes[p] # Nobody}
<1>0. s.authors \subseteq Players /\ Zinger!Players = Players /\ Nobody \notin Players /\ IsFiniteSet(Players)
  BY SeatsOf, TheSeats, RosterIsASequence DEF Sound, Typed
<1>10. ASSUME NEW a PROVE Zinger!Tally(s, a) = tally(a)
  <2>1. {p \in Zinger!Players : s.votes[p] = a} = {p \in Players : s.votes[p] = a}
    BY <1>0
  <2>2. Zinger!Tally(s, a) = Zinger!Cardinality({p \in Zinger!Players : s.votes[p] = a})
    BY DEF Zinger!Tally
  <2> QED
    BY <2>1, <2>2, SameCounts
<1>1. \A a \in won, b \in won : a # b => tally(a) > tally(b)
  <2> HIDE DEF tally
  <2> QED
    BY <1>10 DEF Zinger!Winner
<1>2. \A a : tally(a) \in Nat
  <2>1. \A a : {p \in Players : s.votes[p] = a} \in SUBSET Players
    OBVIOUS
  <2> QED
    BY <2>1, CountsAreNumbers
<1>3. \A p \in Players : pay[p] = IF p \notin won THEN 0 ELSE tally(p) + bonus
  <2>1. ResolveDecision(c).points = [p \in Zinger!Players |-> IF p \notin won THEN 0 ELSE Zinger!Tally(s, p) + bonus]
    BY DEF ResolveDecision, Zinger!ResolveDecision, Zinger!Resolved, Zinger!CleanSweepBonus
  <2> HIDE DEF tally, won, bonus
  <2> QED
    BY <1>0, <1>10, <2>1
<1>4. won \subseteq Players
  BY <1>0 DEF Zinger!Winner
<1>5. voters \in SUBSET Players /\ Cardinality(voters) \in Nat
  BY CountsAreNumbers
<1>6. \A a \in won : tally(a) <= Cardinality(voters)
  <2>1. \A a \in won : {p \in Players : s.votes[p] = a} \in SUBSET voters
    BY <1>0, <1>4
  <2> QED
    BY <1>5, <2>1, CountsAreNumbers, FS_Subset
<1>7. bonus \in 0 .. 3
  OBVIOUS
<1> HIDE DEF won, tally, bonus, voters
<1>8. CASE won = {}
  <2>1. \A p \in Players : pay[p] = 0
    BY <1>3, <1>8
  <2>2. {p \in Players : pay[p] > 0} = {}
    BY <2>1
  <2> QED
    BY <1>5, <2>1, <2>2, NobodyPaid, FS_EmptySet DEF voters
<1>9. CASE won # {}
  <2>1. PICK a \in won : TRUE
    BY <1>9
  <2>2. \A p \in Players \ {a} : p \notin won
    BY <1>1, <1>2, <2>1
  <2>3. pay[a] = tally(a) + bonus /\ a \in Players /\ pay[a] \in Int /\ \A p \in Players \ {a} : pay[p] = 0
    BY <1>2, <1>3, <1>4, <1>7, <2>1, <2>2
  <2>4. Afterwards("points", pay) = pay[a]
    BY <2>3, OnePaid
  <2>5. Cardinality({p \in Players : pay[p] > 0}) <= 1
    <3>1. {p \in Players : pay[p] > 0} \in SUBSET {a}
      BY <2>3
    <3>2. IsFiniteSet({a}) /\ Cardinality({a}) = 1
      BY FS_Singleton
    <3> HIDE DEF s
    <3> QED
      BY <3>1, <3>2, FS_Subset
  <2>6. pay[a] <= Cardinality(voters) + 3
    BY <1>2, <1>5, <1>6, <1>7, <2>1, <2>3
  <2> QED
    BY <2>3, <2>4, <2>5, <2>6 DEF voters
<1> QED
  BY <1>8, <1>9

\* What the reveal itself pays: nothing, but for a right answer and a guess at the bud.
RevealPays(s, r, p) ==
    CASE game = "trivia" /\ s.submitted[p] = "right" -> Trivia!Points(s.plan[r])
      [] game = "stub" /\ s.submitted[p] = "right"   -> 100
      [] OTHER -> 0
PaidByReveal(s, r, pay) ==
    IF game = "same-branch" THEN pay[s.reader] = 0 ELSE \A p \in Players : pay[p] = RevealPays(s, r, p)

AlwaysGuessed == {"liar-liar", "decider", "odd-bird", "lone-leaf"}

PaidInv ==
    /\ Entered(scratch, phase, round)
    /\ phase \in {"collecting", "guessing"} => \A p \in Players : roundScores[p] = 0
    /\ phase = "disputing" => game \notin AlwaysGuessed
    /\ phase \in {"disputing", "voting"} => PaidByReveal(scratch, round, roundScores)
    /\ PointsAddUp

LEMMA PaidPrimed ==
  ASSUME game' = game, Entered(scratch', phase', round'),
         phase' \in {"collecting", "guessing"} => \A p \in Players : roundScores'[p] = 0,
         phase' = "disputing" => game \notin AlwaysGuessed,
         phase' \in {"disputing", "voting"} => PaidByReveal(scratch', round', roundScores'),
         PointsAddUp'
  PROVE  PaidInv'
<1>1. Players' = Players
  BY DEF Players
<1>2. Entered(scratch, phase, round)' <=> Entered(scratch', phase', round')
  BY <1>1 DEF Entered
<1>3. PaidByReveal(scratch, round, roundScores)' <=> PaidByReveal(scratch', round', roundScores')
  BY <1>1 DEF PaidByReveal, RevealPays
<1> QED
  BY <1>1, <1>2, <1>3 DEF PaidInv

LEMMA EnteredLater ==
  ASSUME NEW s, NEW ph, NEW later, NEW r, Entered(s, ph, r), ph # "collecting", later \notin {"collecting", "disputing"}
  PROVE  Entered(s, later, r)
  BY DEF Entered

LEMMA RevealPaid ==
  ASSUME game \in Games, NEW c, NEW t \in Reveal(c), Sound(c.scratch), Entered(c.scratch, "collecting", c.round)
  PROVE  /\ t.guess => \A p \in Players : t.points[p] = 0
         /\ ~ t.guess => PaidByReveal(t.scratch, c.round, t.points) /\ game \notin AlwaysGuessed
<1> DEFINE s == c.scratch
<1>0. game \in Registered => DOMAIN s = Shape /\ Typed(s)
  BY DEF Sound, Registered
<1>1. CASE game = "trivia"
  <2>1. t.guess = FALSE /\ \E w : t.scratch = [s EXCEPT !.wrong = w]
    BY <1>1 DEF Reveal, Trivia!Reveal, Trivia!Revealed
  <2>2. \A p \in Players : t.points[p] = IF s.submitted[p] = "right" THEN Trivia!Points(s.plan[c.round]) ELSE 0
    BY <1>1, SeatsOf DEF Reveal, Trivia!Reveal, Trivia!Revealed
  <2>3. t.scratch.submitted = s.submitted /\ t.scratch.plan = s.plan
    BY <1>0, <1>1, <2>1 DEF Registered, Shape
  <2> QED
    BY <1>1, <2>1, <2>2, <2>3 DEF PaidByReveal, RevealPays, AlwaysGuessed
<1>2. CASE game = "stub"
  <2>1. t.guess = FALSE /\ \E w : t.scratch = [s EXCEPT !.correct = w]
    BY <1>2 DEF Reveal, StubGame!Reveal, StubGame!Revealed
  <2>2. \A p \in Players : t.points[p] = IF s.submitted[p] = "right" THEN 100 ELSE 0
    BY <1>2, TheSeats DEF Reveal, StubGame!Reveal, StubGame!Revealed, StubGame!Correct
  <2>3. t.scratch.submitted = s.submitted
    BY <1>2, <2>1 DEF Sound
  <2> QED
    BY <1>2, <2>1, <2>2, <2>3 DEF PaidByReveal, RevealPays, AlwaysGuessed
<1>3. CASE game = "liar-liar"
  <2>1. t.guess = TRUE /\ t.points = LiarLiar!NoPoints
    BY <1>3 DEF Reveal, LiarLiar!Reveal, LiarLiar!Revealed
  <2> QED
    BY <1>3, <2>1, SeatsOf DEF LiarLiar!NoPoints
<1>4. CASE game = "decider"
  <2>1. t.guess = TRUE /\ t.points = DeciderGame!NoPoints
    BY <1>4 DEF Reveal, DeciderGame!Reveal, DeciderGame!Revealed
  <2> QED
    BY <1>4, <2>1, TheSeats DEF DeciderGame!NoPoints
<1>5. CASE game = "sketchy"
  <2>1. t.points = Sketchy!NoPoints
    BY <1>5 DEF Reveal, Sketchy!Reveal, Sketchy!Revealed
  <2> QED
    BY <1>5, <2>1, SeatsOf DEF Sketchy!NoPoints, PaidByReveal, RevealPays, AlwaysGuessed
<1>6. CASE game = "same-branch"
  <2>1. t.guess = FALSE /\ t.scratch = s
    BY <1>6 DEF Reveal, SameBranch!Reveal, SameBranch!Revealed
  <2>2. \A p \in Players : s.guesses[p] = -1 => t.points[p] = 0
    BY <1>6, SeatsOf DEF Reveal, SameBranch!Reveal, SameBranch!Revealed, SameBranch!Guessers
  <2>3. s.reader \in Players /\ s.guesses[s.reader] = -1
    BY <1>6 DEF Entered
  <2> QED
    BY <1>6, <2>1, <2>2, <2>3 DEF PaidByReveal, AlwaysGuessed
<1>7. CASE game = "zinger"
  <2>1. t.points = Zinger!NoPoints
    <3> DEFINE shown(pair) == [s EXCEPT !.authors = pair, !.votes = Zinger!Unset]
    <3>1. \/ t \in {Zinger!Revealed(shown({}), Zinger!NoPoints, FALSE)}
          \/ t \in {Zinger!Revealed(shown(pair), Zinger!NoPoints, TRUE) :
                       pair \in {q \in SUBSET s.submissions : Zinger!Cardinality(q) = 2}}
      BY <1>7, Zenon DEF Reveal, Zinger!Reveal
    <3> HIDE DEF shown
    <3> QED
      BY <3>1 DEF Zinger!Revealed
  <2> QED
    BY <1>7, <2>1, SeatsOf DEF Zinger!NoPoints, PaidByReveal, RevealPays, AlwaysGuessed
<1>8. CASE game = "odd-bird"
  <2>1. t.guess = TRUE /\ t.points = OddBird!NoPoints
    <3>1. \E d : t = OddBird!Revealed([s EXCEPT !.roostOptions = {s.roost} \cup d, !.accusations = OddBird!Unset,
                                               !.guess = OddBird!Nobody], OddBird!NoPoints, TRUE)
      BY <1>8 DEF Reveal, OddBird!Reveal
    <3> QED
      BY <3>1 DEF OddBird!Revealed
  <2> QED
    BY <1>8, <2>1, SeatsOf DEF OddBird!NoPoints
<1>9. CASE game = "lone-leaf"
  <2>1. t.guess = TRUE /\ t.points = LoneLeaf!NoPoints
    BY <1>9 DEF Reveal, LoneLeaf!Reveal, LoneLeaf!Revealed
  <2> QED
    BY <1>9, <2>1, SeatsOf DEF LoneLeaf!NoPoints
<1> QED
  BY <1>1, <1>2, <1>3, <1>4, <1>5, <1>6, <1>7, <1>8, <1>9, Played DEF Registered

LEMMA VotePaysNothing ==
  ASSUME game \in Games, NEW c, NEW p \in Players, NEW v, NEW r, NEW pay, Sound(c.scratch), PaidByReveal(c.scratch, r, pay)
  PROVE  PaidByReveal(CollectVote(c, p, v), r, pay)
<1> DEFINE s == c.scratch
           t == CollectVote(c, p, v)
<1>1. CASE game = "trivia"
  <2>1. t.submitted = s.submitted /\ t.plan = s.plan
    BY <1>1 DEF Sound, Shape, CollectVote, Trivia!CollectVote
  <2> QED
    BY <1>1, <2>1 DEF PaidByReveal, RevealPays
<1>2. CASE game = "stub"
  <2>1. t.submitted = s.submitted
    BY <1>2 DEF Sound, CollectVote, StubGame!CollectVote, StubGame!Disputes, StubGame!Judges
  <2> QED
    BY <1>2, <2>1 DEF PaidByReveal, RevealPays
<1>3. CASE game = "same-branch"
  BY <1>3 DEF CollectVote
<1>4. CASE game \notin {"trivia", "stub", "same-branch"}
  BY <1>4 DEF PaidByReveal, RevealPays
<1> QED
  BY <1>1, <1>2, <1>3, <1>4

\* The property of any points of any scratch.
AddUpIn(s, r, pay) ==
    LET total == Afterwards("points", pay)
    IN  CASE game = "trivia" ->
               \A p \in Players :
                   CASE s.submitted[p] = "right" -> pay[p] = Trivia!Points(s.plan[r])
                     [] s.submitted[p] = "wrong" /\ s.plan[r] = "open" -> pay[p] \in {0, 50}
                     [] OTHER -> pay[p] = 0
          [] game = "stub" ->
               \A p \in Players :
                   pay[p] \in (IF s.submitted[p] = "right" THEN {100} ELSE IF p \in s.disputers THEN {0, 50} ELSE {0})
          [] game \in {"liar-liar", "sketchy", "decider"} ->
               /\ total = 50 * Cardinality(Having(s.guesses))
                          + 50 * Cardinality({p \in Players : s.guesses[p] = "truth"})
               /\ game = "sketchy" /\ s.featured # Nobody => pay[s.featured] = 0
          [] game = "zinger" ->
               /\ Cardinality({p \in Players : pay[p] > 0}) <= 1
               /\ total <= Cardinality(Having(s.votes)) + 3
          [] game = "odd-bird" ->
               \E caught \in BOOLEAN : \A p \in Players :
                   IF p = s.oddBird THEN pay[p] \in (IF caught THEN {0, 150} ELSE {100, 250})
                   ELSE pay[p] = (IF caught THEN 100 ELSE 0)
          [] game = "same-branch" -> pay[s.reader] = 0
          [] game = "lone-leaf" -> \A p, q \in Players : pay[p] = pay[q]

LEMMA AddsUp ==
  ASSUME game \in Games, game' = game, AddUpIn(scratch', round', roundScores')
  PROVE  PointsAddUp'
<1>1. Players' = Players
  BY DEF Players
<1>2. Total' = Afterwards("points", roundScores')
  BY TotalIs
<1>3. Guessed("truth")' = {p \in Players : scratch'.guesses[p] = "truth"}
  BY <1>1 DEF Guessed
<1>4. CASE game \in {"liar-liar", "sketchy", "decider"}
  BY <1>1, <1>2, <1>3, <1>4 DEF PointsAddUp, AddUpIn, Having
<1>5. CASE game = "zinger"
  BY <1>1, <1>2, <1>5 DEF PointsAddUp, AddUpIn, Having, Zinger!CleanSweepBonus
<1>6. CASE game = "trivia"
  BY <1>1, <1>6 DEF PointsAddUp, AddUpIn
<1>7. CASE game = "stub"
  BY <1>1, <1>7 DEF PointsAddUp, AddUpIn
<1>8. CASE game = "odd-bird"
  BY <1>1, <1>8 DEF PointsAddUp, AddUpIn
<1>9. CASE game = "same-branch"
  BY <1>1, <1>9 DEF PointsAddUp, AddUpIn
<1>10. CASE game = "lone-leaf"
  BY <1>1, <1>10 DEF PointsAddUp, AddUpIn
<1> QED
  BY <1>4, <1>5, <1>6, <1>7, <1>8, <1>9, <1>10, Played DEF Registered

LEMMA SamePoints ==
  ASSUME game \in Games, UNCHANGED <<game, scratch, round, roundScores>>, PointsAddUp,
         phase' \in {"leaderboard", "complete"} => phase \in {"leaderboard", "complete"}
  PROVE  PointsAddUp'
<1>1. CASE phase' \notin {"leaderboard", "complete"}
  BY <1>1 DEF PointsAddUp
<1>2. CASE phase \in {"leaderboard", "complete"}
  <2>1. Total = Afterwards("points", roundScores)
    BY DEF Total, Afterwards
  <2>2. AddUpIn(scratch, round, roundScores)
    <3>1. CASE game \in {"liar-liar", "sketchy", "decider"}
      BY <1>2, <2>1, <3>1 DEF PointsAddUp, AddUpIn, Guessed
    <3>2. CASE game = "zinger"
      BY <1>2, <2>1, <3>2 DEF PointsAddUp, AddUpIn, Zinger!CleanSweepBonus
    <3>3. CASE game \in {"trivia", "stub", "same-branch"}
      BY <1>2, <3>3 DEF PointsAddUp, AddUpIn
    <3>4. CASE game \in {"odd-bird", "lone-leaf"}
      BY <1>2, <3>4 DEF PointsAddUp, AddUpIn
    <3> QED
      BY <3>1, <3>2, <3>3, <3>4, Played DEF Registered
  <2> QED
    BY <2>2, AddsUp
<1> QED
  BY <1>1, <1>2

\* The leaderboard without a dispute: what the reveal paid stays.
LEMMA UndisputedAddsUp ==
  ASSUME game \in Games \ AlwaysGuessed, NEW s, NEW r, NEW pay, Sound(s), Entered(s, "disputing", r), PaidByReveal(s, r, pay)
  PROVE  AddUpIn(s, r, pay)
<1>0. game \in Registered => DOMAIN s = Shape /\ Typed(s)
  BY DEF Sound, Registered
<1>1. CASE game = "trivia"
  BY <1>1 DEF PaidByReveal, RevealPays, AddUpIn
<1>2. CASE game = "stub"
  BY <1>2 DEF PaidByReveal, RevealPays, AddUpIn
<1>3. CASE game = "sketchy"
  <2>1. DOMAIN s.guesses = Players /\ s.featured = Nobody /\ \A p \in Players : s.guesses[p] = Nobody
    BY <1>0, <1>3 DEF Registered, Typed, Entered
  <2>2. Having(s.guesses) = {} /\ {p \in Players : s.guesses[p] = "truth"} = {}
    BY <2>1, TheSeats DEF Having
  <2>3. Afterwards("points", pay) = 0
    BY <1>3, NobodyPaid DEF PaidByReveal, RevealPays
  <2> QED
    BY <1>3, <2>1, <2>2, <2>3, FS_EmptySet DEF AddUpIn
<1>4. CASE game = "zinger"
  <2>1. \A p \in Players : pay[p] = 0
    BY <1>4 DEF PaidByReveal, RevealPays
  <2>2. {p \in Players : pay[p] > 0} = {}
    BY <2>1
  <2>3. Afterwards("points", pay) = 0
    BY <2>1, NobodyPaid
  <2>4. Cardinality(Having(s.votes)) \in Nat
    <3>1. Having(s.votes) \in SUBSET Players
      BY <1>0, <1>4 DEF Registered, Typed, Having
    <3> QED
      BY <3>1, CountsAreNumbers
  <2>5. Cardinality({p \in Players : pay[p] > 0}) <= 1
    BY <2>2, FS_EmptySet
  <2> QED
    BY <1>4, <2>3, <2>4, <2>5 DEF AddUpIn
<1>5. CASE game = "same-branch"
  BY <1>5 DEF PaidByReveal, AddUpIn
<1> QED
  BY <1>1, <1>2, <1>3, <1>4, <1>5, Played DEF Registered, AlwaysGuessed

\* The table overturns what the reveal did not pay, and nothing else.
LEMMA DisputesAddUp ==
  ASSUME game \in Games \cap {"trivia", "stub"}, NEW c, NEW pay, NEW paid, Sound(c.scratch),
         Entered(c.scratch, "voting", c.round), PaidByReveal(c.scratch, c.round, pay),
         \A p \in Players : paid[p] = pay[p] + DisputeVote(c).points[p]
  PROVE  AddUpIn(c.scratch, c.round, paid)
<1> DEFINE s == c.scratch
<1>1. CASE game = "trivia"
  <2>1. \A p \in Players : DisputeVote(c).points[p] = IF p \in s.disputers /\ Trivia!Upheld(c, p) THEN 50 ELSE 0
    BY <1>1, SeatsOf DEF DisputeVote, Trivia!DisputeVote, Trivia!Resolved, Trivia!DisputePoints
  <2>2. \A p \in Players : pay[p] = IF s.submitted[p] = "right" THEN Trivia!Points(s.plan[c.round]) ELSE 0
    BY <1>1 DEF PaidByReveal, RevealPays
  <2>3. Trivia!Points(s.plan[c.round]) \in Int
    BY DEF Trivia!Points
  <2>4. \A p \in s.disputers : s.submitted[p] = "wrong" /\ s.plan[c.round] = "open"
    BY <1>1 DEF Entered
  <2>5. ASSUME NEW p \in Players
        PROVE  CASE s.submitted[p] = "right" -> paid[p] = Trivia!Points(s.plan[c.round])
                 [] s.submitted[p] = "wrong" /\ s.plan[c.round] = "open" -> paid[p] \in {0, 50}
                 [] OTHER -> paid[p] = 0
    BY <2>1, <2>2, <2>3, <2>4
  <2> QED
    BY <1>1, <2>5 DEF AddUpIn
<1>2. CASE game = "stub"
  <2>1. StubGame!Upheld(s) \subseteq s.disputers
    BY DEF StubGame!Upheld
  <2>2. \A p \in Players : DisputeVote(c).points[p] = IF p \in StubGame!Upheld(s) THEN 50 ELSE 0
    BY <1>2, TheSeats DEF DisputeVote, StubGame!DisputeVote, StubGame!Resolved
  <2>3. \A p \in Players : pay[p] = IF s.submitted[p] = "right" THEN 100 ELSE 0
    BY <1>2 DEF PaidByReveal, RevealPays
  <2>4. \A p \in Players : s.submitted[p] = "right" => p \notin s.disputers
    BY <1>2 DEF Entered
  <2>5. \A p \in Players :
           paid[p] \in (IF s.submitted[p] = "right" THEN {100} ELSE IF p \in s.disputers THEN {0, 50} ELSE {0})
    BY <2>1, <2>2, <2>3, <2>4
  <2> QED
    BY <1>2, <2>5 DEF AddUpIn
<1> QED
  BY <1>1, <1>2

\* A decision guess pays its round from nothing.
LEMMA GuessesAddUp ==
  ASSUME game \in Games \ {"trivia", "stub", "same-branch"}, NEW c, NEW r, NEW pay, Sound(c.scratch),
         Entered(c.scratch, "guessing", r), game = "decider" => DeciderApart(c.scratch),
         \A p \in Players : pay[p] = 0 + ResolveDecision(c).points[p]
  PROVE  AddUpIn(c.scratch, r, pay)
<1> DEFINE s == c.scratch
           gain(p) == ResolveDecision(c).points[p]
<1>0. game \in Registered => DOMAIN s = Shape /\ Typed(s)
  BY DEF Sound, Registered
<1>1. CASE game \in {"liar-liar", "sketchy", "decider"}
  <2>1. DOMAIN s.guesses = Players /\ \A p \in Players : s.guesses[p] \in Players \cup {"truth", Nobody}
    BY <1>0, <1>1 DEF Sound, Registered, Typed, Entered
  <2>2. ASSUME NEW p \in Players
        PROVE  pay[p] = (IF s.guesses[p] = "truth" THEN 100 ELSE 0) + 50 * Cardinality({q \in Players : s.guesses[q] = p})
    <3>1. gain(p) = (IF s.guesses[p] = "truth" THEN 100 ELSE 0) + 50 * Cardinality({q \in Players : s.guesses[q] = p})
      BY <1>1, GuessersPoints
    <3>2. {q \in Players : s.guesses[q] = p} \in SUBSET Players
      OBVIOUS
    <3>3. Cardinality({q \in Players : s.guesses[q] = p}) \in Nat
      BY <3>2, CountsAreNumbers
    <3>4. pay[p] = 0 + gain(p)
      OBVIOUS
    <3> HIDE DEF gain
    <3> QED
      BY <3>1, <3>3, <3>4
  <2>3. Afterwards("points", pay) = 50 * Cardinality(Having(s.guesses))
                                    + 50 * Cardinality({p \in Players : s.guesses[p] = "truth"})
    <3> DEFINE g == s.guesses
    <3> HIDE DEF g
    <3>1. DOMAIN g = Players /\ \A p \in Players : g[p] \in Players \cup {"truth", Nobody}
      BY <2>1 DEF g
    <3>2. \A p \in Players : pay[p] = (IF g[p] = "truth" THEN 100 ELSE 0) + 50 * Cardinality({q \in Players : g[q] = p})
      BY <2>2 DEF g
    <3>3. Afterwards("points", pay) = 50 * Cardinality(Having(g)) + 50 * Cardinality({p \in Players : g[p] = "truth"})
      <4>1. game \in Games
        OBVIOUS
      <4> QED
        BY <3>1, <3>2, <4>1, GuessesPaid, SMTT(30)
    <3> QED
      BY <3>3 DEF g
  <2>4. ASSUME game = "sketchy", s.featured # Nobody PROVE pay[s.featured] = 0
    <3>1. s.featured \in Players /\ s.guesses[s.featured] = Nobody /\ \A q \in Players : s.guesses[q] # s.featured
      BY <1>0, <2>4 DEF Registered, Typed, Entered
    <3>2. {q \in Players : s.guesses[q] = s.featured} = {} /\ s.guesses[s.featured] # "truth"
      BY <3>1, TheSeats
    <3>3. pay[s.featured] = (IF s.guesses[s.featured] = "truth" THEN 100 ELSE 0)
                            + 50 * Cardinality({q \in Players : s.guesses[q] = s.featured})
      BY <2>2, <3>1, Zenon
    <3> QED
      BY <3>2, <3>3, FS_EmptySet
  <2> QED
    BY <1>1, <2>3, <2>4 DEF AddUpIn
<1>2. CASE game = "zinger"
  <2>1. {p \in Players : s.votes[p] # Nobody} = Having(s.votes)
    BY <1>0, <1>2 DEF Registered, Typed, Having
  <2>2. ASSUME NEW gains, \A p \in Players : gains[p] = ResolveDecision(c).points[p]
        PROVE  /\ Cardinality({p \in Players : gains[p] > 0}) <= 1 /\ \A p \in Players : gains[p] \in Int
               /\ Afterwards("points", gains) <= Cardinality({p \in Players : s.votes[p] # Nobody}) + 3
    BY <1>2, <2>2, WinnerPaid, Zenon
  <2>3. \A p \in Players : pay[p] = ResolveDecision(c).points[p]
    <3> DEFINE gains == [p \in Players |-> ResolveDecision(c).points[p]]
    <3>1. \A p \in Players : gains[p] \in Int
      <4>1. \A p \in Players : gains[p] = ResolveDecision(c).points[p]
        OBVIOUS
      <4> HIDE DEF gains
      <4> QED
        BY <2>2, <4>1
    <3> QED
      BY <3>1
  <2>4. /\ Cardinality({p \in Players : pay[p] > 0}) <= 1
        /\ Afterwards("points", pay) <= Cardinality({p \in Players : s.votes[p] # Nobody}) + 3
    BY <2>2, <2>3, Zenon
  <2> QED
    BY <1>2, <2>1, <2>4 DEF AddUpIn
<1>3. CASE game = "odd-bird"
  <2> DEFINE caught == OddBird!Flushed(s) = {s.oddBird}
  <2>1. \A p \in Players : gain(p) = IF p # s.oddBird THEN (IF caught THEN 100 ELSE 0)
                                     ELSE (IF caught THEN 0 ELSE 100) + (IF s.guess = s.roost THEN 150 ELSE 0)
    <3>1. OddBird!Players = Players /\ ResolveDecision(c) = OddBird!ResolveDecision(c)
      BY <1>3, SeatsOf DEF ResolveDecision
    <3>2. OddBird!ResolveDecision(c).points = [p \in OddBird!Players |->
              IF p # s.oddBird THEN (IF caught THEN 100 ELSE 0)
              ELSE (IF caught THEN 0 ELSE 100) + (IF s.guess = s.roost THEN 150 ELSE 0)]
      BY DEF OddBird!ResolveDecision, OddBird!Resolved
    <3> QED
      BY <3>1, <3>2
  <2>2. caught \in BOOLEAN /\ \A p \in Players : pay[p] = 0 + gain(p)
    OBVIOUS
  <2> HIDE DEF caught, gain
  <2>3. \A p \in Players : IF p = s.oddBird THEN pay[p] \in (IF caught THEN {0, 150} ELSE {100, 250})
                           ELSE pay[p] = (IF caught THEN 100 ELSE 0)
    BY <2>1, <2>2
  <2> QED
    BY <1>3, <2>2, <2>3 DEF AddUpIn
<1>4. CASE game = "lone-leaf"
  <2>1. \A p \in Players : gain(p) = IF s.guess \in {"seed", "alias"} THEN 1 ELSE 0
    BY <1>4, SeatsOf DEF ResolveDecision, LoneLeaf!ResolveDecision, LoneLeaf!Resolved
  <2> QED
    BY <1>4, <2>1 DEF AddUpIn
<1> QED
  BY <1>1, <1>2, <1>3, <1>4, Played DEF Registered

LEMMA PaidInit == Init => PaidInv
<1> SUFFICES ASSUME Init PROVE PaidInv
  OBVIOUS
<1>1. PICK s \in Configured :
           scratch \in StartRound([phase |-> "collecting", round |-> 1, present |-> Players, scratch |-> s])
  BY DEF Init
<1>2. game \in Games /\ phase = "collecting" /\ round = 1 /\ roundScores = [p \in Players |-> 0]
  BY DEF Init
<1>3. Entered(scratch, "collecting", 1)
  BY <1>1, <1>2, EnteredOpens
<1> QED
  BY <1>2, <1>3 DEF PaidInv, PointsAddUp

LEMMA PaidStep == ModeInv /\ TableSound /\ ApartInv /\ PaidInv /\ [Next]_vars => PaidInv'
<1> SUFFICES ASSUME ModeInv, TableSound, ApartInv, PaidInv, [Next]_vars PROVE PaidInv'
  OBVIOUS
<1>0. /\ game \in Games /\ round \in Nat \ {0} /\ Sound(scratch) /\ game' = game
      /\ Ctx.scratch = scratch /\ Ctx.phase = phase /\ Ctx.round = round
      /\ game = "decider" => DeciderApart(scratch)
  BY GameStays DEF ModeInv, TableSound, Ctx, ApartInv, ApartIn, ApartGames
<1>1. /\ Entered(scratch, phase, round) /\ PointsAddUp
      /\ phase \in {"collecting", "guessing"} => \A p \in Players : roundScores[p] = 0
      /\ phase = "disputing" => game \notin AlwaysGuessed
      /\ phase \in {"disputing", "voting"} => PaidByReveal(scratch, round, roundScores)
  BY DEF PaidInv
<1>2. ASSUME UNCHANGED <<phase, round, scratch, roundScores>> PROVE PaidInv'
  <2>1. PointsAddUp'
    BY <1>0, <1>1, <1>2, SamePoints
  <2> QED
    BY <1>0, <1>1, <1>2, <2>1, PaidPrimed
<1>3. ASSUME NEW p \in Players, SubmitMove(p) PROVE PaidInv'
  <2>1. PICK m : scratch' = CollectMove(Ctx, p, m)
    BY <1>3 DEF SubmitMove
  <2>2. phase = "collecting" /\ UNCHANGED <<phase, round, roundScores>>
    BY <1>3 DEF SubmitMove
  <2>3. Entered(scratch', "collecting", round)
    BY <1>0, <1>1, <2>1, <2>2, EnteredMove
  <2>4. PointsAddUp'
    BY <2>2 DEF PointsAddUp
  <2> QED
    BY <1>0, <1>1, <2>2, <2>3, <2>4, PaidPrimed
<1>4. ASSUME NEW p \in Players, SubmitVote(p) PROVE PaidInv'
  <2>1. PICK v \in Votes(Ctx, p) : scratch' = CollectVote(Ctx, p, v)
    BY <1>4 DEF SubmitVote
  <2>2. phase \in {"disputing", "voting", "guessing"} /\ UNCHANGED <<phase, round, roundScores>>
    BY <1>4 DEF SubmitVote
  <2>3. Entered(scratch', phase, round)
    BY <1>0, <1>1, <2>1, <2>2, EnteredVote
  <2>4. phase \in {"disputing", "voting"} => PaidByReveal(scratch', round, roundScores)
    BY <1>0, <1>1, <2>1, VotePaysNothing
  <2>5. PointsAddUp'
    BY <2>2 DEF PointsAddUp
  <2> QED
    BY <1>0, <1>1, <2>2, <2>3, <2>4, <2>5, PaidPrimed
<1>5. ASSUME NEW p \in Players, Disconnect(p) \/ Join(p) PROVE PaidInv'
  BY <1>2, <1>5 DEF Disconnect, Join
<1>6. CASE AdvanceCollecting
  <2>1. PICK r \in Reveal(Ctx) : /\ scratch' = r.scratch /\ roundScores' = Paid(r.points)
                                 /\ phase' = IF r.guess THEN "guessing" ELSE "disputing"
    BY <1>6 DEF AdvanceCollecting
  <2>2. phase = "collecting" /\ round' = round
    BY <1>6 DEF AdvanceCollecting
  <2>3. Entered(scratch', phase', round)
    BY <1>0, <1>1, <2>1, <2>2, EnteredReveal
  <2>4. /\ r.guess => \A p \in Players : r.points[p] = 0
        /\ ~ r.guess => PaidByReveal(r.scratch, round, r.points) /\ game \notin AlwaysGuessed
    BY <1>0, <1>1, <2>1, <2>2, RevealPaid
  <2>5. \A p \in Players : roundScores'[p] = 0 + r.points[p]
    BY <1>1, <2>1, <2>2 DEF Paid
  <2>6. r.guess => \A p \in Players : roundScores'[p] = 0
    BY <2>4, <2>5
  <2>7. ~ r.guess => PaidByReveal(scratch', round, roundScores')
    <3> SUFFICES ASSUME ~ r.guess PROVE PaidByReveal(scratch', round, roundScores')
      OBVIOUS
    <3>1. CASE game = "same-branch"
      <4>1. scratch'.reader \in Players
        BY <2>3, <3>1 DEF Entered
      <4> QED
        BY <2>1, <2>4, <2>5, <3>1, <4>1 DEF PaidByReveal
    <3>2. CASE game # "same-branch"
      <4>1. \A p \in Players : RevealPays(scratch', round, p) \in Int
        BY DEF RevealPays, Trivia!Points
      <4> QED
        BY <2>1, <2>4, <2>5, <3>2, <4>1 DEF PaidByReveal
    <3> QED
      BY <3>1, <3>2
  <2>8. PointsAddUp'
    BY <2>1 DEF PointsAddUp
  <2>9. phase' = "guessing" <=> r.guess
    BY <2>1
  <2>10. phase' \in {"guessing", "disputing"}
    BY <2>1
  <2> QED
    BY <1>0, <2>2, <2>3, <2>4, <2>6, <2>7, <2>8, <2>9, <2>10, PaidPrimed
<1>7. CASE AdvanceDisputing
  <2>1. phase = "disputing" /\ phase' \in {"leaderboard", "voting"} /\ UNCHANGED <<round, scratch, roundScores>>
    BY <1>7 DEF AdvanceDisputing
  <2>2. Entered(scratch', phase', round')
    BY <1>1, <2>1, EnteredLater
  <2>3. PointsAddUp'
    BY <1>0, <1>1, <2>1, UndisputedAddsUp, AddsUp
  <2> QED
    BY <1>0, <1>1, <2>1, <2>2, <2>3, PaidPrimed
<1>8. CASE AdvanceVoting
  <2>1. /\ phase = "voting" /\ phase' = "leaderboard" /\ round' = round
        /\ scratch' = DisputeVote(Ctx).scratch /\ roundScores' = Paid(DisputeVote(Ctx).points)
    BY <1>8 DEF AdvanceVoting, AdvanceScoring
  <2>2. game \in {"trivia", "stub"} /\ scratch' = scratch
    BY <1>0, <2>1, SoundScores DEF ModeInv
  <2>3. \A p \in Players : roundScores'[p] = roundScores[p] + DisputeVote(Ctx).points[p]
    BY <2>1 DEF Paid
  <2>4. AddUpIn(scratch', round', roundScores')
    BY <1>0, <1>1, <2>1, <2>2, <2>3, DisputesAddUp
  <2>5. PointsAddUp'
    BY <1>0, <2>4, AddsUp
  <2>6. Entered(scratch', phase', round')
    BY <1>1, <2>1, <2>2, EnteredLater
  <2> QED
    BY <1>0, <2>1, <2>5, <2>6, PaidPrimed
<1>9. CASE AdvanceGuessing
  <2>1. /\ phase = "guessing" /\ phase' = "leaderboard" /\ round' = round
        /\ scratch' = ResolveDecision(Ctx).scratch /\ roundScores' = Paid(ResolveDecision(Ctx).points)
    BY <1>9 DEF AdvanceGuessing, AdvanceScoring
  <2>2. game \notin {"trivia", "stub", "same-branch"} /\ scratch' = scratch
    BY <1>0, <2>1, SoundScores DEF ModeInv
  <2>3. \A p \in Players : roundScores'[p] = 0 + ResolveDecision(Ctx).points[p]
    BY <1>1, <2>1 DEF Paid
  <2>4. AddUpIn(scratch', round', roundScores')
    BY <1>0, <1>1, <2>1, <2>2, <2>3, GuessesAddUp
  <2>5. PointsAddUp'
    BY <1>0, <2>4, AddsUp
  <2>6. Entered(scratch', phase', round')
    BY <1>1, <2>1, <2>2, EnteredLater
  <2> QED
    BY <1>0, <2>1, <2>5, <2>6, PaidPrimed
<1>10. CASE AdvanceLeaderboard
  <2>1. CASE round >= LastRound
    <3>1. phase = "leaderboard" /\ phase' = "complete" /\ UNCHANGED <<round, scratch, roundScores>>
      BY <1>10, <2>1 DEF AdvanceLeaderboard
    <3>2. PointsAddUp'
      BY <1>0, <1>1, <3>1, SamePoints
    <3>3. Entered(scratch', phase', round')
      BY <1>1, <3>1, EnteredLater
    <3> QED
      BY <1>0, <3>1, <3>2, <3>3, PaidPrimed
  <2>2. CASE ~ (round >= LastRound)
    <3> DEFINE c == [Ctx EXCEPT !.round = round + 1]
    <3>1. /\ phase' = "collecting" /\ round' = round + 1 /\ roundScores' = [p \in Players |-> 0]
          /\ scratch' \in StartRound(c)
      BY <1>10, <2>2 DEF AdvanceLeaderboard
    <3>2. c.scratch = scratch /\ c.round = round + 1
      BY DEF Ctx
    <3> HIDE DEF c
    <3>3. c.round \in Nat \ {0}
      BY <1>0, <3>2
    <3>4. Entered(scratch', "collecting", round')
      BY <1>0, <3>1, <3>2, <3>3, EnteredOpens
    <3>5. PointsAddUp'
      BY <3>1 DEF PointsAddUp
    <3> QED
      BY <1>0, <3>1, <3>4, <3>5, PaidPrimed
  <2> QED
    BY <2>1, <2>2
<1>11. CASE UNCHANGED vars
  BY <1>2, <1>11 DEF vars
<1> QED
  BY <1>3, <1>4, <1>5, <1>6, <1>7, <1>8, <1>9, <1>10, <1>11 DEF Next

\* What a finished round paid adds up, against what was done in it (resolveDecision, the
\* dispute vote and the reveal of the nine games): an answer is paid by the reveal or by the table
\* and not by both, every guess pays one player, one side of a face-off wins, a grove shares,
\* and nobody is paid for work on their own round. For every table, bank and text.
THEOREM PointsAlwaysAddUp == Spec => []PointsAddUp
<1>1. Init => PaidInv
  BY PaidInit
<1>2. ModeInv /\ TableSound /\ ApartInv /\ PaidInv /\ [Next]_vars => PaidInv'
  BY PaidStep
<1>3. PaidInv => PointsAddUp
  BY DEF PaidInv
<1> QED
  BY <1>1, <1>2, <1>3, TableCorrect, ApartCorrect, PTL DEF Spec
================================================================================
