------------------------------ MODULE GameOptions ------------------------------
(***************************************************************************)
(* What a host sets up in the lobby, game by game: the draft its panels    *)
(* edit, what the page lets through to Start, and what the game's own      *)
(* validateConfig makes of it when the engine is handed the start.  The    *)
(* two sides are separate code, each with its own ranges and lists; the    *)
(* page's are named Page..., the game's Game....                           *)
(*                                                                         *)
(* A number field holds a sequence: empty when the field is (NaN on the    *)
(* page, null once it is sent), <<n>> for the whole number n, and          *)
(* <<n, n + 1>> for a number between the two.  A category list never       *)
(* repeats (a chip is pressed or not), so it is a set.                     *)
(***************************************************************************)
EXTENDS Integers, Sequences, FiniteSets

CONSTANT Typed          \* what a host may type into a number field

Numbers == {v \in Seq(Int) : Len(v) <= 2}

ASSUME OptionsAssumption == Typed \subseteq Numbers

Within(v, range) == \E n \in range : v = <<n>>

\* The game reads an absent value, and a null, as its default.
Sent(v, default) == IF v = <<>> THEN <<default>> ELSE v
Taken(v, default, range) == Within(Sent(v, default), range)

\* A choice of categories: Random, or <<the chips that are pressed>>.
Random == <<>>

\* The two buttons and the chips: Pick opens on the first theme, and at the
\* cap only a pressed chip can be pressed.
Repicked(c, themes, first, cap) ==
    {Random, IF c \in {Random, <<{}>>} THEN <<{first}>> ELSE c}
      \cup (IF c = Random THEN {} ELSE
              {<<c[1] \ {t}>> : t \in c[1]}
              \cup {<<c[1] \cup {t}>> : t \in IF Cardinality(c[1]) < cap THEN themes \ c[1] ELSE {}})

Listed(c, known, most) ==
    \/ c = Random
    \/ c[1] # {} /\ c[1] \subseteq known /\ Cardinality(c[1]) <= most

\* A difficulty band is a pair of ratings, picked by the name of a preset.
Bands == {<<1, 4>>, <<3, 6>>, <<4, 8>>, <<6, 10>>}
BandFits(b) == b[1] \in 1 .. 10 /\ b[2] \in 1 .. 10 /\ b[1] <= b[2]

-----------------------------------------------------------------------------
(* Trivial Matters: categories (none pressed is Random), a duration or a   *)
(* mix of one's own, a difficulty, the pace and the three answer windows.  *)

PageTriviaThemes == {"Nature", "Food", "Animals", "Science", "People", "Places", "Things",
                     "History", "Movies", "Music"}
GameTriviaThemes == {"Nature", "Food", "Animals", "Science", "People", "Places", "Things",
                     "History", "Movies", "Music"}

Mix(choice, truth, open) == [choice |-> choice, truth |-> truth, open |-> open]
NoQuestions == Mix(<<0>>, <<0>>, <<0>>)

PageMixes == [fast     |-> Mix(<<3>>, <<2>>, <<1>>),   standard |-> Mix(<<6>>, <<4>>, <<2>>),
              long     |-> Mix(<<12>>, <<8>>, <<4>>),  marathon |-> Mix(<<24>>, <<16>>, <<8>>)]
GameMixes == [fast     |-> Mix(3, 2, 1),   standard |-> Mix(6, 4, 2),
              long     |-> Mix(12, 8, 4),  marathon |-> Mix(24, 16, 8)]

TriviaDefault ==
    [categories |-> {}, duration |-> "standard", custom |-> <<>>, band |-> <<3, 6>>,
     autoAdvance |-> TRUE, advanceAfter |-> <<5>>,
     choiceTime |-> <<20>>, truthTime |-> <<15>>, openTime |-> <<60>>]

\* compositionOf and totalRoundsOf.
MixOf(d) ==
    IF d.duration # "custom" THEN PageMixes[d.duration]
    ELSE IF d.custom = <<>> THEN NoQuestions ELSE d.custom[1]
CountOf(mix) == mix.choice[1] + mix.truth[1] + mix.open[1]
TriviaAsks(d) == CountOf(MixOf(d))

\* The counts of one's own mix show once that is the duration.
CountEdits(d) ==
    LET mix == MixOf(d)
    IN IF d.duration # "custom" THEN {}
       ELSE {[d EXCEPT !.custom = <<[mix EXCEPT !.choice = v]>>] : v \in Typed}
            \cup {[d EXCEPT !.custom = <<[mix EXCEPT !.truth = v]>>] : v \in Typed}
            \cup {[d EXCEPT !.custom = <<[mix EXCEPT !.open = v]>>] : v \in Typed}

TriviaBandEdits(d) == {[d EXCEPT !.band = b] : b \in Bands}

\* One's own mix opens on the one it was left at, or on the preset that was on.
TriviaEdits(d) ==
    {[d EXCEPT !.categories = {}]}
      \cup {[d EXCEPT !.categories = @ \ {t}] : t \in d.categories}
      \cup {[d EXCEPT !.categories = @ \cup {t}] : t \in PageTriviaThemes}
      \cup {[d EXCEPT !.duration = p] : p \in DOMAIN PageMixes}
      \cup {[d EXCEPT !.duration = "custom",
                      !.custom = IF @ = <<>> THEN <<MixOf(d)>> ELSE @]}
      \cup CountEdits(d) \cup TriviaBandEdits(d)

\* The dwell cannot be typed while auto-advance is off.
TriviaAdvancedEdits(d) ==
    {[d EXCEPT !.autoAdvance = ~@]}
      \cup (IF d.autoAdvance THEN {[d EXCEPT !.advanceAfter = v] : v \in Typed} ELSE {})
      \cup {[d EXCEPT !.choiceTime = v] : v \in Typed}
      \cup {[d EXCEPT !.truthTime = v] : v \in Typed}
      \cup {[d EXCEPT !.openTime = v] : v \in Typed}

\* validateTriviaConfig: the dwell is looked at whether auto-advance is on or off.
TriviaAccepts(d) ==
    /\ d.categories \subseteq PageTriviaThemes
    /\ d.duration \in DOMAIN PageMixes \cup {"custom"}
    /\ d.duration = "custom" =>
          /\ d.custom # <<>>
          /\ Within(d.custom[1].choice, 0 .. 30)
          /\ Within(d.custom[1].truth, 0 .. 30)
          /\ Within(d.custom[1].open, 0 .. 30)
          /\ CountOf(d.custom[1]) \in 1 .. 60
    /\ BandFits(d.band)
    /\ Within(d.advanceAfter, 1 .. 60)
    /\ Within(d.choiceTime, 5 .. 180)
    /\ Within(d.truthTime, 5 .. 180)
    /\ Within(d.openTime, 10 .. 180)

\* resolveComposition: a count the host left empty is none of that type.
TriviaPlan(d) ==
    IF d.duration # "custom" THEN GameMixes[d.duration]
    ELSE Mix(Sent(d.custom[1].choice, 0)[1], Sent(d.custom[1].truth, 0)[1],
             Sent(d.custom[1].open, 0)[1])
Questions(plan) == plan.choice + plan.truth + plan.open

\* validateConfig.
TriviaTakes(d) ==
    /\ d.categories \subseteq GameTriviaThemes
    /\ \/ d.duration \in DOMAIN GameMixes
       \/ /\ d.duration = "custom" /\ d.custom # <<>>
          /\ Taken(d.custom[1].choice, 0, 0 .. 30)
          /\ Taken(d.custom[1].truth, 0, 0 .. 30)
          /\ Taken(d.custom[1].open, 0, 0 .. 30)
          /\ Questions(TriviaPlan(d)) \in 1 .. 60
    /\ BandFits(d.band)
    /\ Taken(d.advanceAfter, 5, 1 .. 60)
    /\ Taken(d.choiceTime, 20, 5 .. 180)
    /\ Taken(d.truthTime, 15, 5 .. 180)
    /\ Taken(d.openTime, 60, 10 .. 180)

-----------------------------------------------------------------------------
(* Lone Leaf: up to three of nine themes, rounds by preset or by number, a *)
(* difficulty, the pace and the two windows.                               *)

PageLeafThemes == {"nature", "everyday", "places", "food", "animals", "feelings", "celebrities",
                   "movies", "historical"}
GameLeafThemes == {"nature", "everyday", "places", "food", "animals", "feelings", "celebrities",
                   "movies", "historical"}

LeafDefault ==
    [categories |-> Random, rounds |-> <<10>>, band |-> <<3, 6>>,
     autoAdvance |-> TRUE, advanceAfter |-> <<5>>, clueTime |-> <<60>>, guessTime |-> <<60>>]

LeafRounds == {<<5>>, <<10>>, <<20>>, <<40>>}
LeafRoundEdits(d) == {[d EXCEPT !.rounds = v] : v \in LeafRounds \cup Typed}
LeafBandEdits(d)  == {[d EXCEPT !.band = b] : b \in Bands}
LeafEdits(d) ==
    {[d EXCEPT !.categories = c] : c \in Repicked(d.categories, PageLeafThemes, "nature", 3)}
      \cup LeafRoundEdits(d) \cup LeafBandEdits(d)

LeafAdvancedEdits(d) ==
    {[d EXCEPT !.autoAdvance = ~@]}
      \cup (IF d.autoAdvance THEN {[d EXCEPT !.advanceAfter = v] : v \in Typed} ELSE {})
      \cup {[d EXCEPT !.clueTime = v] : v \in Typed}
      \cup {[d EXCEPT !.guessTime = v] : v \in Typed}

\* validateLoneLeafConfig: the dwell is looked at only when it is in use.
LeafAccepts(d) ==
    /\ Within(d.rounds, 1 .. 100)
    /\ BandFits(d.band)
    /\ Listed(d.categories, PageLeafThemes, 3)
    /\ d.autoAdvance => Within(d.advanceAfter, 1 .. 60)
    /\ Within(d.clueTime, 15 .. 180)
    /\ Within(d.guessTime, 15 .. 180)

LeafTakes(d) ==
    /\ Listed(d.categories, GameLeafThemes, 3)
    /\ Taken(d.rounds, 10, 1 .. 100)
    /\ BandFits(d.band)
    /\ d.autoAdvance => Taken(d.advanceAfter, 5, 1 .. 60)
    /\ Taken(d.clueTime, 60, 15 .. 180)
    /\ Taken(d.guessTime, 60, 15 .. 180)

-----------------------------------------------------------------------------
(* Same Branch, Liar Liar, Odd Bird and Zinger: categories, rounds, and    *)
(* for Same Branch whose score counts.                                     *)

PageBranchThemes == {"senses", "feelings", "everyday", "nature", "people", "wild"}
GameBranchThemes == {"senses", "feelings", "everyday", "nature", "people", "wild"}
BranchModes == {"free", "coop"}

BranchDefault == [categories |-> Random, rounds |-> <<5>>, mode |-> "free"]
BranchEdits(d) ==
    {[d EXCEPT !.categories = c] : c \in Repicked(d.categories, PageBranchThemes, "senses", 3)}
      \cup {[d EXCEPT !.mode = m] : m \in BranchModes}
      \cup {[d EXCEPT !.rounds = v] : v \in Typed}
BranchAccepts(d) ==
    Within(d.rounds, 1 .. 100) /\ Listed(d.categories, PageBranchThemes, 3) /\ d.mode \in BranchModes
BranchTakes(d) ==
    Listed(d.categories, GameBranchThemes, 3) /\ Taken(d.rounds, 5, 1 .. 100) /\ d.mode \in BranchModes

PageLiarThemes == {"people", "places", "events", "sports", "food", "nature", "animals", "things"}
GameLiarThemes == {"people", "places", "events", "sports", "food", "nature", "animals", "things"}

LiarDefault == [categories |-> Random, rounds |-> <<10>>]
LiarEdits(d) ==
    {[d EXCEPT !.categories = c] : c \in Repicked(d.categories, PageLiarThemes, "people", 3)}
      \cup {[d EXCEPT !.rounds = v] : v \in Typed}
LiarAccepts(d) == Within(d.rounds, 1 .. 100) /\ Listed(d.categories, PageLiarThemes, 3)
LiarTakes(d)   == Listed(d.categories, GameLiarThemes, 3) /\ Taken(d.rounds, 10, 1 .. 100)

\* Any number of roosts, so the chips have no cap.
PageBirdThemes == {"everyday", "outdoors", "travel", "events", "fantastical"}
GameBirdThemes == {"everyday", "outdoors", "travel", "events", "fantastical"}

BirdDefault == [categories |-> Random]
BirdEdits(d) ==
    {[d EXCEPT !.categories = c] :
        c \in Repicked(d.categories, PageBirdThemes, "everyday", Cardinality(PageBirdThemes))}
BirdAccepts(d) == Listed(d.categories, PageBirdThemes, Cardinality(PageBirdThemes))
BirdTakes(d)   == Listed(d.categories, GameBirdThemes, Cardinality(GameBirdThemes))

ZingerDefault    == [rounds |-> <<8>>]
ZingerEdits(d)   == {[d EXCEPT !.rounds = v] : v \in Typed}
ZingerAccepts(d) == Within(d.rounds, 1 .. 100)
ZingerTakes(d)   == Taken(d.rounds, 8, 1 .. 100)

-----------------------------------------------------------------------------
(* Sketchy: its rounds are cycles, of one drawing and one guess at each    *)
(* player's sketch.                                                        *)

SketchyDefault == [rounds |-> <<5>>, autoAdvance |-> TRUE, advanceAfter |-> <<5>>]
SketchyRounds  == {<<3>>, <<5>>, <<7>>, <<15>>}
SketchyEdits(d) == {[d EXCEPT !.rounds = v] : v \in SketchyRounds \cup Typed}
SketchyAdvancedEdits(d) ==
    {[d EXCEPT !.autoAdvance = ~@]}
      \cup (IF d.autoAdvance THEN {[d EXCEPT !.advanceAfter = v] : v \in Typed} ELSE {})
SketchyAccepts(d) == Within(d.rounds, 1 .. 15) /\ Within(d.advanceAfter, 1 .. 60)
SketchyTakes(d)   == Taken(d.rounds, 5, 1 .. 15) /\ Taken(d.advanceAfter, 5, 1 .. 60)

-----------------------------------------------------------------------------
(* The live games.                                                         *)

BramblesDefault  == [sprints |-> <<6>>, sprintTime |-> <<60>>]
BramblesEdits(d) ==
    {[d EXCEPT !.sprints = v] : v \in Typed} \cup {[d EXCEPT !.sprintTime = v] : v \in Typed}
BramblesAccepts(d) ==
    Within(d.sprints, 2 .. 20) /\ d.sprints[1] % 2 = 0 /\ Within(d.sprintTime, 30 .. 180)
BramblesTakes(d) ==
    /\ Taken(d.sprints, 6, 2 .. 20) /\ Sent(d.sprints, 6)[1] % 2 = 0
    /\ Taken(d.sprintTime, 60, 30 .. 180)

NightleafDefault  == [tiers |-> <<4>>, buds |-> <<3>>, fireflies |-> <<1>>]
NightleafEdits(d) ==
    {[d EXCEPT !.tiers = v] : v \in Typed} \cup {[d EXCEPT !.buds = v] : v \in Typed}
      \cup {[d EXCEPT !.fireflies = v] : v \in Typed}
NightleafAccepts(d) ==
    Within(d.tiers, 1 .. 12) /\ Within(d.buds, 1 .. 5) /\ Within(d.fireflies, 0 .. 5)
NightleafTakes(d) ==
    Taken(d.tiers, 4, 1 .. 12) /\ Taken(d.buds, 3, 1 .. 5) /\ Taken(d.fireflies, 1, 0 .. 5)

\* A plain list: the page wants one category at least, the game reads none as all.
PageGroveThemes == {"nature", "places", "objects", "creatures"}
GameGroveThemes == {"nature", "places", "objects", "creatures"}

GroveDefault    == [categories |-> PageGroveThemes]
GroveEdits(d)   == {[d EXCEPT !.categories = IF t \in @ THEN @ \ {t} ELSE @ \cup {t}] :
                        t \in PageGroveThemes}
GroveAccepts(d) == d.categories # {} /\ d.categories \subseteq PageGroveThemes
GroveTakes(d)   == d.categories \subseteq GameGroveThemes

\* Checkers and Reversi have the one switch; chess and Teeter Tower have none.
HintsDefault  == [showAvailableMoves |-> TRUE]
HintsEdits(d) == {[d EXCEPT !.showAvailableMoves = ~@]}
NoOptions     == [ready |-> TRUE]

-----------------------------------------------------------------------------
(* The room page: the draft a picked game opens on, the edits its panels   *)
(* offer, whether Start is let through, and the rounds it asks for; and on *)
(* the other side whether configure takes the draft and the rounds it      *)
(* plans.                                                                  *)

OptionGames == {"trivia", "lone-leaf", "same-branch", "liar-liar", "odd-bird", "zinger", "sketchy",
                "brambles", "nightleaf", "whispergrove", "checkers", "reversi", "chess",
                "teeter-tower"}

DefaultOf(g) ==
    CASE g = "trivia"       -> TriviaDefault
      [] g = "lone-leaf"    -> LeafDefault
      [] g = "same-branch"  -> BranchDefault
      [] g = "liar-liar"    -> LiarDefault
      [] g = "odd-bird"     -> BirdDefault
      [] g = "zinger"       -> ZingerDefault
      [] g = "sketchy"      -> SketchyDefault
      [] g = "brambles"     -> BramblesDefault
      [] g = "nightleaf"    -> NightleafDefault
      [] g = "whispergrove" -> GroveDefault
      [] g \in {"checkers", "reversi"} -> HintsDefault
      [] OTHER              -> NoOptions

EditsOf(g, d) ==
    CASE g = "trivia"       -> TriviaEdits(d) \cup TriviaAdvancedEdits(d)
      [] g = "lone-leaf"    -> LeafEdits(d) \cup LeafAdvancedEdits(d)
      [] g = "same-branch"  -> BranchEdits(d)
      [] g = "liar-liar"    -> LiarEdits(d)
      [] g = "odd-bird"     -> BirdEdits(d)
      [] g = "zinger"       -> ZingerEdits(d)
      [] g = "sketchy"      -> SketchyEdits(d) \cup SketchyAdvancedEdits(d)
      [] g = "brambles"     -> BramblesEdits(d)
      [] g = "nightleaf"    -> NightleafEdits(d)
      [] g = "whispergrove" -> GroveEdits(d)
      [] g \in {"checkers", "reversi"} -> HintsEdits(d)
      [] OTHER              -> {}

Accepts(g, d) ==
    /\ g = "trivia"       => TriviaAccepts(d)
    /\ g = "lone-leaf"    => LeafAccepts(d)
    /\ g = "same-branch"  => BranchAccepts(d)
    /\ g = "liar-liar"    => LiarAccepts(d)
    /\ g = "odd-bird"     => BirdAccepts(d)
    /\ g = "zinger"       => ZingerAccepts(d)
    /\ g = "sketchy"      => SketchyAccepts(d)
    /\ g = "brambles"     => BramblesAccepts(d)
    /\ g = "nightleaf"    => NightleafAccepts(d)
    /\ g = "whispergrove" => GroveAccepts(d)

AskedOf(g, d) ==
    CASE g = "trivia"       -> TriviaAsks(d)
      [] g \in {"lone-leaf", "same-branch", "liar-liar", "zinger", "sketchy"} -> d.rounds[1]
      [] g = "brambles"     -> d.sprints[1]
      [] g = "nightleaf"    -> d.tiers[1]
      [] g = "teeter-tower" -> 53
      [] OTHER              -> 1

Takes(g, d) ==
    /\ g = "trivia"       => TriviaTakes(d)
    /\ g = "lone-leaf"    => LeafTakes(d)
    /\ g = "same-branch"  => BranchTakes(d)
    /\ g = "liar-liar"    => LiarTakes(d)
    /\ g = "odd-bird"     => BirdTakes(d)
    /\ g = "zinger"       => ZingerTakes(d)
    /\ g = "sketchy"      => SketchyTakes(d)
    /\ g = "brambles"     => BramblesTakes(d)
    /\ g = "nightleaf"    => NightleafTakes(d)
    /\ g = "whispergrove" => GroveTakes(d)

PlannedOf(g, d, players) ==
    CASE g = "trivia"       -> Questions(TriviaPlan(d))
      [] g = "lone-leaf"    -> Sent(d.rounds, 10)[1]
      [] g = "same-branch"  -> Sent(d.rounds, 5)[1]
      [] g = "liar-liar"    -> Sent(d.rounds, 10)[1]
      [] g = "zinger"       -> Sent(d.rounds, 8)[1]
      [] g = "sketchy"      -> Sent(d.rounds, 5)[1] * (1 + players)
      [] g = "nightleaf"    -> Sent(d.tiers, 4)[1]
      [] g = "teeter-tower" -> 53
      [] OTHER              -> 1

-----------------------------------------------------------------------------
(* What holds of every draft.                                              *)

Picks(themes, cap) == {Random} \cup {<<s>> : s \in {u \in SUBSET themes : Cardinality(u) <= cap}}

Mixes == [choice : Numbers, truth : Numbers, open : Numbers]

TriviaDrafts ==
    {d \in [categories : SUBSET PageTriviaThemes, duration : DOMAIN PageMixes \cup {"custom"},
             custom : {c \in Seq(Mixes) : Len(c) <= 1}, band : Bands, autoAdvance : BOOLEAN,
             advanceAfter : Numbers, choiceTime : Numbers, truthTime : Numbers,
             openTime : Numbers] : d.duration = "custom" => d.custom # <<>>}
LeafDrafts ==
    [categories : Picks(PageLeafThemes, 3), rounds : Numbers, band : Bands,
     autoAdvance : BOOLEAN, advanceAfter : Numbers, clueTime : Numbers, guessTime : Numbers]
BranchDrafts  == [categories : Picks(PageBranchThemes, 3), rounds : Numbers, mode : BranchModes]
SketchyDrafts == [rounds : Numbers, autoAdvance : BOOLEAN, advanceAfter : Numbers]

DraftsOf(g) ==
    CASE g = "trivia"       -> TriviaDrafts
      [] g = "lone-leaf"    -> LeafDrafts
      [] g = "same-branch"  -> BranchDrafts
      [] g = "liar-liar"    -> [categories : Picks(PageLiarThemes, 3), rounds : Numbers]
      [] g = "odd-bird"     -> [categories : Picks(PageBirdThemes, Cardinality(PageBirdThemes))]
      [] g = "zinger"       -> [rounds : Numbers]
      [] g = "sketchy"      -> SketchyDrafts
      [] g = "brambles"     -> [sprints : Numbers, sprintTime : Numbers]
      [] g = "nightleaf"    -> [tiers : Numbers, buds : Numbers, fireflies : Numbers]
      [] g = "whispergrove" -> [categories : SUBSET PageGroveThemes]
      [] g \in {"checkers", "reversi"} -> [showAvailableMoves : BOOLEAN]
      [] OTHER              -> {NoOptions}

\* No field is left empty, nor the list of word categories.
Filled(g, d) ==
    /\ g = "trivia" =>
           /\ <<>> \notin {d.advanceAfter, d.choiceTime, d.truthTime, d.openTime}
           /\ d.duration = "custom" =>
                 <<>> \notin {d.custom[1].choice, d.custom[1].truth, d.custom[1].open}
    /\ g = "lone-leaf" =>
           /\ <<>> \notin {d.rounds, d.clueTime, d.guessTime}
           /\ d.autoAdvance => d.advanceAfter # <<>>
    /\ g \in {"same-branch", "liar-liar", "zinger"} => d.rounds # <<>>
    /\ g = "sketchy"      => <<>> \notin {d.rounds, d.advanceAfter}
    /\ g = "brambles"     => <<>> \notin {d.sprints, d.sprintTime}
    /\ g = "nightleaf"    => <<>> \notin {d.tiers, d.buds, d.fireflies}
    /\ g = "whispergrove" => d.categories # {}
=============================================================================
