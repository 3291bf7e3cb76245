---------------------------- MODULE RulesProofs ----------------------------
(***************************************************************************)
(* What holds of the rules for any thresholds, prices and settings: of the *)
(* rows of a rule, of what a screen concludes, of what is decided about a  *)
(* position, and of the replay of a ticker.                                *)
(***************************************************************************)
EXTENDS RuleConfigs, Screens, Decisions, Backtest, SumProofs, TLAPS

-----------------------------------------------------------------------------
(* Numbers.                                                                *)

LEMMA MinOfTwo ==
    ASSUME NEW a \in Int, NEW b \in Int
    PROVE  Min({a, b}) \in {a, b} /\ Min({a, b}) <= a /\ Min({a, b}) <= b
<1>1. \E x \in {a, b} : \A y \in {a, b} : x =< y
  OBVIOUS
<1> QED
  BY <1>1 DEF Min

LEMMA MaxOfTwo ==
    ASSUME NEW a \in Int, NEW b \in Int
    PROVE  Max({a, b}) \in {a, b} /\ Max({a, b}) >= a /\ Max({a, b}) >= b
<1>1. \E x \in {a, b} : \A y \in {a, b} : x >= y
  OBVIOUS
<1> QED
  BY <1>1 DEF Max

\* Rounding down: what is divided and multiplied again is no more than before.
LEMMA Quotient ==
    ASSUME NEW a \in Nat, NEW b \in Nat \ {0}
    PROVE  a \div b \in Nat /\ (a \div b) * b <= a
OBVIOUS

LEMMA Scaled ==
    ASSUME NEW a \in Int, NEW b \in Int, NEW d \in Nat, a <= b
    PROVE  a * d <= b * d
OBVIOUS

\* Shared among fewer, everybody gets at least as much.
LEMMA SharedByFewer ==
    ASSUME NEW a \in Nat, NEW m \in Nat \ {0}, NEW n \in Nat \ {0}, m <= n
    PROVE  a \div m >= a \div n
<1> DEFINE p == a \div m
           q == a \div n
<1>1. p \in Nat /\ q \in Nat /\ a < (p + 1) * m /\ q * n <= a
  OBVIOUS
<1> HIDE DEF p, q
<1>2. q * m <= q * n
  BY <1>1
<1>3. q >= p + 1 => q * m >= (p + 1) * m
  BY <1>1, Scaled
<1>4. q * m \in Int /\ q * n \in Int /\ (p + 1) * m \in Int
  BY <1>1
<1>5. p >= q
  BY <1>1, <1>2, <1>3, <1>4
<1> QED
  BY <1>5 DEF p, q

\* Numbers have a least.
LEMMA LeastOf ==
    ASSUME NEW T, T \subseteq Nat, T # {}
    PROVE  \E m \in T : \A n \in T : m <= n
<1> SUFFICES ASSUME \A m \in T : \E n \in T : n < m PROVE FALSE
  OBVIOUS
<1> DEFINE S == {n \in Nat : \A k \in 0..n : k \notin T}
<1>1. 0 \notin T
  OBVIOUS
<1>2. 0 \in S
  BY <1>1
<1>3. \A n \in Nat : n \in S => n + 1 \in S
  <2>1. ASSUME NEW n \in Nat, n \in S PROVE n + 1 \in S
    <3>1. n + 1 \notin T
      <4>1. ASSUME n + 1 \in T PROVE FALSE
        <5>1. PICK j \in T : j < n + 1
          BY <4>1
        <5>2. j \in 0..n
          BY <5>1
        <5> QED
          BY <5>1, <5>2, <2>1
      <4> QED
        BY <4>1
    <3>2. \A k \in 0..(n + 1) : k \in 0..n \/ k = n + 1
      BY <2>1
    <3> QED
      BY <2>1, <3>1, <3>2
  <2> QED
    BY <2>1
<1>4. Nat \subseteq S
  <2> HIDE DEF S
  <2> QED
    BY <1>2, <1>3, NatSetInduction
<1>5. PICK t : t \in T
  OBVIOUS
<1>6. t \in Nat /\ t \in 0..t
  BY <1>5
<1> QED
  BY <1>4, <1>5, <1>6

\* How many there are of two.
LEMMA CountOfTwo ==
    ASSUME NEW P \in SUBSET (1..2)
    PROVE  Cardinality(P) = (IF 1 \in P THEN 1 ELSE 0) + (IF 2 \in P THEN 1 ELSE 0)
<1>1. Cardinality({}) = 0 /\ Cardinality({1}) = 1 /\ Cardinality({2}) = 1
  BY FS_EmptySet, FS_Singleton
<1>2. Cardinality({1, 2}) = 2
  <2>0. 2 \notin {1}
    OBVIOUS
  <2>1. IsFiniteSet({1}) /\ 2 \notin {1}
    BY <2>0, FS_Singleton
  <2>2. Cardinality({1} \cup {2}) = Cardinality({1}) + 1
    BY <2>1, FS_AddElement
  <2> QED
    BY <1>1, <2>2
<1>3. 1..2 = {1, 2}
  OBVIOUS
<1>4. CASE 1 \in P /\ 2 \in P
  <2>1. P = {1, 2}
    BY <1>3, <1>4
  <2> QED
    BY <2>1, <1>2, <1>4
<1>5. CASE 1 \in P /\ 2 \notin P
  <2>1. P = {1}
    BY <1>3, <1>5
  <2> QED
    BY <2>1, <1>1, <1>5
<1>6. CASE 1 \notin P /\ 2 \in P
  <2>1. P = {2}
    BY <1>3, <1>6
  <2> QED
    BY <2>1, <1>1, <1>6
<1>7. CASE 1 \notin P /\ 2 \notin P
  <2>1. P = {}
    BY <1>3, <1>7
  <2> QED
    BY <2>1, <1>1, <1>7
<1> QED
  BY <1>4, <1>5, <1>6, <1>7

-----------------------------------------------------------------------------
(* The rows of a rule.                                                     *)

LEMMA RcInitTyped == RcInit => RcTypeOK
BY RcAssumption DEF RcInit, RcTypeOK, RuleRow, NoCopy

\* A clone and a migrated row are rows again.
LEMMA ClonesTyped ==
    ASSUME RcTypeOK
    PROVE  /\ \A who \in {"superadmin", "admin"} : CloneBy(who) \in RuleRow
           /\ Cloned \in RuleRow
BY DEF RcTypeOK, RuleRow, CloneBy, Cloned

LEMMA MigratedTyped ==
    ASSUME NEW row \in RuleRow
    PROVE  Migrated(row) \in RuleRow
BY RcAssumption DEF Migrated, RuleRow

LEMMA RcStepTyped == RcTypeOK /\ [RcNext]_rcVars => RcTypeOK'
<1> SUFFICES ASSUME RcTypeOK, [RcNext]_rcVars PROVE RcTypeOK'
  OBVIOUS
<1>a. /\ rcSetting \in RcSettings /\ template \in RuleRow /\ copy \in RuleRow
      /\ override \in SUBSET BOOLEAN
  BY DEF RcTypeOK
<1>b. RcAsked \subseteq Int
  BY RcAssumption
<1>1. CASE CreateOrganisation
  BY <1>1, <1>a, ClonesTyped DEF CreateOrganisation, RcTypeOK
<1>2. CASE Migrate
  <2>1. [template EXCEPT !.by = "migration"] \in RuleRow
    BY <1>a DEF RuleRow
  <2> QED
    BY <1>2, <1>a, <2>1, MigratedTyped DEF Migrate, RcTypeOK
<1>3. CASE ToggleGlobal
  BY <1>3, <1>a DEF ToggleGlobal, RcTypeOK, RuleRow
<1>4. CASE ToggleTier
  BY <1>4, <1>a DEF ToggleTier, RcTypeOK, RuleRow
<1>5. CASE ToggleRule
  <2>1. Cloned \in RuleRow
    BY ClonesTyped
  <2>2. [Cloned EXCEPT !.enabled = ~Cloned.enabled] \in RuleRow
    BY <2>1 DEF RuleRow
  <2> QED
    BY <1>5, <1>a, <2>1, <2>2 DEF ToggleRule, RcTypeOK
<1>6. CASE NextSignal
  BY <1>6, <1>a DEF NextSignal, RcTypeOK
<1>7. ASSUME NEW t \in RcAsked, TierThreshold(t) \/ UpdateThreshold(t) \/ McpThreshold(t)
      PROVE  RcTypeOK'
  <2>1. Cloned \in RuleRow
    BY ClonesTyped
  <2>2. [Cloned EXCEPT !.threshold = t] \in RuleRow /\ [copy EXCEPT !.threshold = t] \in RuleRow
    BY <1>a, <1>b, <2>1 DEF RuleRow
  <2>3. [template EXCEPT !.tier = {t}, !.by = "superadmin"] \in RuleRow
    BY <1>a DEF RuleRow
  <2> QED
    BY <1>7, <1>a, <2>1, <2>2, <2>3 DEF TierThreshold, UpdateThreshold, McpThreshold, RcTypeOK
<1>8. ASSUME NEW on \in BOOLEAN, CmdRule(on) \/ McpSwitch(on) \/ OverrideRule(on) \/ SyncAll(on)
      PROVE  RcTypeOK'
  <2>1. /\ [copy EXCEPT !.enabled = on, !.by = "agent"] \in RuleRow
        /\ [copy EXCEPT !.enabled = on] \in RuleRow
    BY <1>a DEF RuleRow
  <2>2. /\ [template EXCEPT !.by = "sync"] \in RuleRow
        /\ [template EXCEPT !.by = "sync", !.scope = copy.scope] \in RuleRow
    BY <1>a DEF RuleRow
  <2> QED
    BY <1>8, <1>a, <2>1, <2>2 DEF CmdRule, McpSwitch, OverrideRule, SyncAll, RcTypeOK
<1>9. CASE UNCHANGED rcVars
  BY <1>9, <1>a DEF rcVars, RcTypeOK
<1> QED
  BY <1>1, <1>2, <1>3, <1>4, <1>5, <1>6, <1>7, <1>8, <1>9 DEF RcNext

\* Every column of the rows keeps its type, whoever writes them.
THEOREM RcTypeCorrect == RcSpec => []RcTypeOK
BY RcInitTyped, RcStepTyped, PTL DEF RcSpec

-----------------------------------------------------------------------------
\* A row that applies a mandatory rule to equities.
Applied(row) == row.enabled /\ ~row.off /\ row.scope \in {"BOTH", "EQUITY"}

\* The template of a mandatory rule applies it, and so does every copy: what a
\* clone, a sync or a migration takes over is a row that applies the rule.
MandatoryInv ==
    /\ template.by # "none"
    /\ Is("mandatory") => Applied(template) /\ (HasCopy => Applied(copy))
    /\ HasCopy => copy.scope \in {"BOTH", "EQUITY"}

LEMMA MandatoryInit == RcInit => MandatoryInv
BY DEF RcInit, MandatoryInv, Applied, Is, HasCopy, NoCopy

LEMMA MandatoryStep == RcTypeOK /\ MandatoryInv /\ [RcNext]_rcVars => MandatoryInv'
<1> SUFFICES ASSUME RcTypeOK, MandatoryInv, [RcNext]_rcVars PROVE MandatoryInv'
  OBVIOUS
<1> USE DEF MandatoryInv, Applied, Is, HasCopy, RcTypeOK, RuleRow
<1>1. CASE CreateOrganisation
  BY <1>1 DEF CreateOrganisation, CloneBy
<1>2. CASE Migrate
  BY <1>2 DEF Migrate, Migrated
<1>3. CASE ToggleGlobal \/ ToggleTier
  BY <1>3 DEF ToggleGlobal, ToggleTier
<1>4. CASE ToggleRule
  BY <1>4 DEF ToggleRule, Cloned, CloneBy
<1>5. CASE NextSignal
  BY <1>5 DEF NextSignal
<1>6. ASSUME NEW t \in RcAsked, TierThreshold(t) \/ UpdateThreshold(t) \/ McpThreshold(t)
      PROVE  MandatoryInv'
  BY <1>6 DEF TierThreshold, UpdateThreshold, McpThreshold, Cloned, CloneBy
<1>7. ASSUME NEW on \in BOOLEAN, CmdRule(on) \/ McpSwitch(on) \/ OverrideRule(on) \/ SyncAll(on)
      PROVE  MandatoryInv'
  <2>1. CASE CmdRule(on) \/ McpSwitch(on)
    BY <2>1 DEF CmdRule, McpSwitch
  <2>2. CASE OverrideRule(on)
    BY <2>2 DEF OverrideRule
  <2>3. CASE SyncAll(on)
    BY <2>3 DEF SyncAll
  <2> QED
    BY <1>7, <2>1, <2>2, <2>3
<1>8. CASE UNCHANGED rcVars
  BY <1>8 DEF rcVars
<1> QED
  BY <1>1, <1>2, <1>3, <1>4, <1>5, <1>6, <1>7, <1>8 DEF RcNext

LEMMA InvMeansIt == MandatoryInv => SwitchesMeanIt
BY DEF MandatoryInv, Applied, SwitchesMeanIt, MandatoryStaysOn, OffMeansOff, RuleOn, Overridden, Is, HasCopy

\* A mandatory rule of an organisation that has it is applied, and a rule that
\* is switched off is not, whoever toggles, clones, syncs, migrates or
\* overrides it, in whatever order and with whatever thresholds.
THEOREM SwitchesAreMeant == RcSpec => []SwitchesMeanIt
<1>1. RcTypeOK /\ MandatoryInv /\ [RcNext]_rcVars => RcTypeOK' /\ MandatoryInv'
  BY RcStepTyped, MandatoryStep
<1> QED
  BY <1>1, RcInitTyped, MandatoryInit, InvMeansIt, PTL DEF RcSpec

-----------------------------------------------------------------------------
\* The super admin's tier threshold has no bounds, and no clone or sync takes
\* it for the threshold of the row.
BoundsInv == InBounds(template.threshold) /\ InBounds(copy.threshold)

LEMMA BoundsStep == RcTypeOK /\ BoundsInv /\ [RcNext]_rcVars => BoundsInv'
<1> SUFFICES ASSUME RcTypeOK, BoundsInv, [RcNext]_rcVars PROVE BoundsInv'
  OBVIOUS
<1>a. template \in RuleRow /\ copy \in RuleRow /\ {RcOld, RcNew} \subseteq RcMin..RcMax
  BY RcAssumption DEF RcTypeOK
<1> USE <1>a DEF BoundsInv, InBounds, RuleRow
<1>1. CASE CreateOrganisation \/ ToggleRule
  BY <1>1 DEF CreateOrganisation, ToggleRule, Cloned, CloneBy
<1>2. CASE Migrate
  BY <1>2 DEF Migrate, Migrated
<1>3. CASE ToggleGlobal \/ ToggleTier \/ NextSignal
  BY <1>3 DEF ToggleGlobal, ToggleTier, NextSignal
<1>4. ASSUME NEW t \in RcAsked, TierThreshold(t) \/ UpdateThreshold(t) \/ McpThreshold(t)
      PROVE  BoundsInv'
  BY <1>4 DEF TierThreshold, UpdateThreshold, McpThreshold, Cloned, CloneBy
<1>5. ASSUME NEW on \in BOOLEAN, CmdRule(on) \/ McpSwitch(on) \/ OverrideRule(on) \/ SyncAll(on)
      PROVE  BoundsInv'
  BY <1>5 DEF CmdRule, McpSwitch, OverrideRule, SyncAll
<1>6. CASE UNCHANGED rcVars
  BY <1>6 DEF rcVars
<1> QED
  BY <1>1, <1>2, <1>3, <1>4, <1>5, <1>6 DEF RcNext

\* No page, tool, sync or migration leaves an organisation's threshold outside
\* the bounds of its rule, if the template's defaults are inside them.
THEOREM ThresholdStaysInBounds == RcSpec => []ThresholdInBounds
<1>1. RcInit => BoundsInv
  BY RcAssumption DEF RcInit, BoundsInv, InBounds, NoCopy
<1>2. BoundsInv => ThresholdInBounds
  BY DEF BoundsInv, ThresholdInBounds
<1>3. RcTypeOK /\ BoundsInv /\ [RcNext]_rcVars => RcTypeOK' /\ BoundsInv'
  BY RcStepTyped, BoundsStep
<1> QED
  BY <1>1, <1>2, <1>3, RcInitTyped, PTL DEF RcSpec

-----------------------------------------------------------------------------
(* The screens.                                                            *)

ScQuestion ==
    /\ Asked("trend") => screening.x \in TrendQuestions
    /\ Asked("fundamentals") => screening.x \in FundamentalQuestions
    /\ Asked("coin") => screening.x \in CoinQuestions
    /\ Asked("regime") => screening.x \in RegimeQuestions
    /\ Asked("sector") => screening.x \in SectorQuestions
    /\ Asked("breakout") => screening.x \in BreakoutQuestions
    /\ Asked("screen") => screening.x \in ScreenQuestions
    /\ Asked("rating") => screening.x \in RatingQuestions

LEMMA ScAsked == ScSpec => []ScQuestion
<1>1. ScInit => ScQuestion
  BY DEF ScInit, ScNothing, ScQuestion, Asked
<1>2. ScQuestion /\ [ScNext]_scVars => ScQuestion'
  BY DEF ScQuestion, Asked, ScNext, scVars, ScAsk, AskTrend, AskFundamentals, AskCoin, AskRegime,
         AskSector, AskVcp, AskBreakout, AskScreen, AskRating
<1> QED
  BY <1>1, <1>2, PTL DEF ScSpec

\* A stock that one of the screens signals is signalled by all of them, is
\* tradable and has its fundamentals; one that somebody asked for is kept.
THEOREM ScreensKeepTheSame == ScSpec => []ScreensAgreeAndKeep
<1>1. ASSUME NEW x \in ScreenQuestions
      PROVE  /\ FundOK(x) => 4 * x.score.fundMet >= 3 * x.score.fundOn
             /\ x.bars \in {30, 100, 250} /\ x.sector \in BOOLEAN /\ x.coin \in BOOLEAN
             /\ x.vcp \in BOOLEAN /\ x.crypto \in BOOLEAN
  BY <1>1 DEF ScreenQuestions, Scores, FundOK, Enough
<1>2. ScQuestion => ScreensAgree
  <2> SUFFICES ASSUME ScQuestion, Asked("screen"), ~screening.x.crypto, screening.x.bars >= 200,
                      "signal" \in {DailyScreen(screening.x), ForcedScreen(screening.x),
                                    SingleScreen(screening.x)}
               PROVE  /\ {DailyScreen(screening.x), ForcedScreen(screening.x),
                          SingleScreen(screening.x)} = {"signal"}
                      /\ Tradable(screening.x)
                      /\ 4 * screening.x.score.fundMet >= 3 * screening.x.score.fundOn
    BY DEF ScreensAgree
  <2> DEFINE x == screening.x
  <2>1. x \in ScreenQuestions
    BY DEF ScQuestion
  <2>2. x.bars = 250
    BY <1>1, <2>1
  <2> HIDE DEF x
  <2>3. ~x.crypto /\ "signal" \in {DailyScreen(x), ForcedScreen(x), SingleScreen(x)}
    BY DEF x
  <2>4. NearMiss(x) # "signal"
    BY DEF NearMiss
  <2>5. Tradable(x) /\ TrendOK(x) /\ FundOK(x) /\ x.vcp /\ x.sector
    BY <2>2, <2>3, <2>4 DEF DailyScreen, ForcedScreen, SingleScreen
  <2>6. DailyScreen(x) = "signal" /\ ForcedScreen(x) = "signal" /\ SingleScreen(x) = "signal"
    BY <2>2, <2>3, <2>5 DEF DailyScreen, ForcedScreen, SingleScreen
  <2> QED
    BY <1>1, <2>1, <2>5, <2>6 DEF x
<1>3. ScQuestion => AskedForIsKept
  BY DEF AskedForIsKept, SingleScreen
<1> QED
  BY <1>2, <1>3, ScAsked, PTL DEF ScreensAgreeAndKeep

-----------------------------------------------------------------------------
(* Doing better.                                                           *)

LEMMA QuarterIsBetter ==
    ASSUME NEW x \in FundamentalQuestions, NEW now \in ScQuarters, now > x.now
    PROVE  FundamentalsMet(x) \subseteq FundamentalsMet([x EXCEPT !.now = now])
<1> DEFINE y == [x EXCEPT !.now = now]
<1>1. /\ x.now \in Int /\ x.last \in Int /\ x.ago \in Int /\ x.lastAgo \in Int /\ now \in Int
      /\ x.rest \in Int /\ x.restAgo \in Int /\ x.quarters \in Int
  <2>1. /\ x.now \in ScQuarters /\ x.last \in ScQuarters /\ x.ago \in ScQuarters
        /\ x.lastAgo \in ScQuarters /\ x.rest \in {0, 4} /\ x.restAgo \in {-4, 0, 4}
        /\ x.quarters \in {4, 5, 6, 8}
    BY DEF FundamentalQuestions
  <2>2. \A q \in ScQuarters : q \in Int
    BY ScAssumption
  <2>3. x.rest \in Int /\ x.restAgo \in Int /\ x.quarters \in Int
    BY <2>1
  <2> QED
    BY <2>1, <2>2, <2>3
<1>2. /\ y.now = now /\ y.last = x.last /\ y.ago = x.ago /\ y.lastAgo = x.lastAgo
      /\ y.rest = x.rest /\ y.restAgo = x.restAgo /\ y.quarters = x.quarters /\ y.other = x.other
  BY DEF FundamentalQuestions
<1> HIDE DEF y
<1>3. GrewFrom(x.now, x.ago) => GrewFrom(y.now, y.ago)
  BY <1>1, <1>2 DEF GrewFrom
<1>4. Accelerates(x) => Accelerates(y)
  <2> DEFINE before == Growth(x.last, x.lastAgo)
             g == Growth(x.now, x.ago)
             h == Growth(now, x.ago)
  <2>1. before[2] \in Nat /\ before[1] \in Int
    BY <1>1 DEF Growth
  <2>2. g[2] = h[2] /\ g[1] <= h[1] /\ g[1] \in Int /\ h[1] \in Int /\ g[2] \in Nat
    BY <1>1 DEF Growth
  <2> HIDE DEF before, g, h
  <2>3. g[1] * before[2] <= h[1] * before[2]
    BY <2>1, <2>2, Scaled
  <2>4. Exceeds(g, before) => Exceeds(h, before)
    <3>1. /\ g[1] * before[2] \in Int /\ h[1] * before[2] \in Int
          /\ before[1] * g[2] \in Int /\ before[1] * g[2] = before[1] * h[2]
      BY <2>1, <2>2
    <3> QED
      BY <2>3, <3>1 DEF Exceeds
  <2> QED
    BY <1>2, <2>4 DEF Accelerates, before, g, h
<1>5. Annual(x) => Annual(y)
  BY <1>1, <1>2 DEF Annual, GrewFrom
<1> QED
  BY <1>2, <1>3, <1>4, <1>5 DEF FundamentalsMet, y

LEMMA UnknownIsNoWorse ==
    ASSUME NEW x \in FundamentalQuestions
    PROVE  /\ \A q \in {4, 5, 6} :
                 q < x.quarters => FundamentalsMet(x) \subseteq FundamentalsMet([x EXCEPT !.quarters = q])
           /\ \A f \in {"roe", "margin", "owned"} :
                 FundamentalsMet(x) \subseteq FundamentalsMet([x EXCEPT !.other[f] = -1])
<1>1. x.quarters \in {4, 5, 6, 8}
  BY DEF FundamentalQuestions
<1>2. ASSUME NEW q \in {4, 5, 6}, q < x.quarters
      PROVE  FundamentalsMet(x) \subseteq FundamentalsMet([x EXCEPT !.quarters = q])
  <2> DEFINE y == [x EXCEPT !.quarters = q]
  <2>1. /\ y.now = x.now /\ y.last = x.last /\ y.ago = x.ago /\ y.lastAgo = x.lastAgo
        /\ y.rest = x.rest /\ y.restAgo = x.restAgo /\ y.quarters = q /\ y.other = x.other
    BY DEF FundamentalQuestions
  <2> HIDE DEF y
  <2>2. Accelerates(x) => Accelerates(y)
    BY <1>1, <1>2, <2>1 DEF Accelerates
  <2>3. Annual(y)
    BY <1>1, <1>2, <2>1 DEF Annual
  <2>4. x.quarters < 5 => y.quarters < 5
    BY <1>1, <1>2, <2>1
  <2> QED
    BY <2>1, <2>2, <2>3, <2>4 DEF FundamentalsMet, y
<1>3. ASSUME NEW f \in {"roe", "margin", "owned"}
      PROVE  FundamentalsMet(x) \subseteq FundamentalsMet([x EXCEPT !.other[f] = -1])
  <2> DEFINE y == [x EXCEPT !.other[f] = -1]
  <2>1. /\ y.now = x.now /\ y.last = x.last /\ y.ago = x.ago /\ y.lastAgo = x.lastAgo
        /\ y.rest = x.rest /\ y.restAgo = x.restAgo /\ y.quarters = x.quarters
        /\ y.other = [x.other EXCEPT ![f] = -1]
    BY DEF FundamentalQuestions
  <2> HIDE DEF y
  <2>2. \A g \in {"sales", "roe", "margin", "owned"} :
           y.other[g] = IF g = f THEN -1 ELSE x.other[g]
    <3>1. x.other \in ScOther
      BY DEF FundamentalQuestions
    <3>2. DOMAIN x.other = {"sales", "roe", "margin", "owned"}
      BY <3>1 DEF ScOther
    <3> QED
      BY <2>1, <3>2
  <2>3. /\ y.other.sales = x.other.sales
        /\ y.other.roe = -1 \/ y.other.roe = x.other.roe
        /\ y.other.margin = -1 \/ y.other.margin = x.other.margin
        /\ y.other.owned = -1 \/ y.other.owned = x.other.owned
    BY <2>2
  <2>4. (Accelerates(x) <=> Accelerates(y)) /\ (Annual(x) <=> Annual(y))
    BY <2>1 DEF Accelerates, Annual
  <2> QED
    BY <2>1, <2>3, <2>4 DEF FundamentalsMet, y
<1> QED
  BY <1>2, <1>3

\* The answer of the coin rules, rule by rule.
LEMMA CoinPasses ==
    ASSUME NEW x
    PROVE  CoinOK(x) <=> /\ x.coin = "BTC" => x.above
                         /\ x.coin \in {"BTC", "ETH"} \/ x.cap = -1 \/ x.cap >= 100
                         /\ VolumeOK(x)
                         /\ x.atr = 0 \/ 3 * x.atr >= 2 * x.stopMin
                         /\ x.depth >= 15
                         /\ x.momentum
                         /\ RewardOK(x)
<1> DEFINE Met(c) ==
        CASE c = "regime" -> x.coin = "BTC" => x.above
          [] c = "cap" -> x.coin \in {"BTC", "ETH"} \/ x.cap = -1 \/ x.cap >= 100
          [] c = "volume" -> VolumeOK(x)
          [] c = "stop" -> x.atr = 0 \/ 3 * x.atr >= 2 * x.stopMin
          [] c = "depth" -> x.depth >= 15
          [] c = "momentum" -> x.momentum
          [] c = "reward" -> RewardOK(x)
          [] OTHER -> TRUE
<1>1. CoinOK(x) <=> \A c \in CoinRules : Met(c)
  BY DEF CoinOK, CoinMet
<1>2. /\ Met("regime") <=> (x.coin = "BTC" => x.above)
      /\ Met("cap") <=> x.coin \in {"BTC", "ETH"} \/ x.cap = -1 \/ x.cap >= 100
      /\ Met("volume") <=> VolumeOK(x)
      /\ Met("stop") <=> x.atr = 0 \/ 3 * x.atr >= 2 * x.stopMin
      /\ Met("depth") <=> x.depth >= 15
      /\ Met("momentum") <=> x.momentum
      /\ Met("reward") <=> RewardOK(x)
      /\ Met("risk") /\ Met("strength")
  OBVIOUS
<1> HIDE DEF Met
<1> QED
  BY <1>1, <1>2 DEF CoinRules

LEMMA CoinIsBetter ==
    ASSUME NEW x \in CoinQuestions, CoinOK(x)
    PROVE  /\ CoinOK([x EXCEPT !.depth = 20, !.momentum = TRUE, !.volume = 9, !.cap = -1])
           /\ \A a \in {30, 50, 80} :
                 x.atr \in 1..a => CoinOK([x EXCEPT !.atr = a]) \/ ~RewardOK([x EXCEPT !.atr = a])
<1> DEFINE y == [x EXCEPT !.depth = 20, !.momentum = TRUE, !.volume = 9, !.cap = -1]
<1>1. /\ y.coin = x.coin /\ y.above = x.above /\ y.cap = -1 /\ y.volume = 9 /\ y.atr = x.atr
      /\ y.stopMin = x.stopMin /\ y.rrMin = x.rrMin /\ y.depth = 20 /\ y.momentum = TRUE
  BY DEF CoinQuestions
<1> HIDE DEF y
<1>2. CoinOK(y)
  <2>1. VolumeOK(y)
    BY <1>1 DEF VolumeOK
  <2>2. RewardOK(y)
    BY <1>1, CoinPasses DEF RewardOK
  <2> QED
    BY <2>1, <2>2, <1>1, CoinPasses
<1>3. ASSUME NEW a \in {30, 50, 80}, x.atr \in 1..a
      PROVE  CoinOK([x EXCEPT !.atr = a]) \/ ~RewardOK([x EXCEPT !.atr = a])
  <2> DEFINE z == [x EXCEPT !.atr = a]
  <2>1. /\ z.coin = x.coin /\ z.above = x.above /\ z.cap = x.cap /\ z.volume = x.volume
        /\ z.estimate = x.estimate /\ z.atr = a /\ z.stopMin = x.stopMin /\ z.rrMin = x.rrMin
        /\ z.depth = x.depth /\ z.momentum = x.momentum
    BY DEF CoinQuestions
  <2> HIDE DEF z
  <2>2. VolumeOK(x) => VolumeOK(z)
    BY <2>1 DEF VolumeOK
  <2>3. 3 * x.atr >= 2 * x.stopMin => 3 * a >= 2 * x.stopMin
    <3>1. x.stopMin \in {50, 100} /\ x.atr \in Nat /\ a \in Nat /\ x.atr <= a
      BY <1>3 DEF CoinQuestions
    <3> QED
      BY <3>1
  <2>4. x.atr # 0
    BY <1>3
  <2> QED
    BY <2>1, <2>2, <2>3, <2>4, CoinPasses DEF z
<1> QED
  BY <1>2, <1>3 DEF y

\* What a market still misses shrinks when one more criterion is met.
LEMMA RegimeIsBetter ==
    ASSUME NEW x \in RegimeQuestions
    PROVE  /\ \A r \in RegimeRules :
                 SizeMultiplier(Regime(x)) <= SizeMultiplier(Regime([x EXCEPT !.met = @ \cup {r}]))
           /\ Judged(x) # {} /\ Judged(x) \cap x.met = {} => Regime(x) = "BEAR"
<1>1. x.on \in SUBSET RegimeRules /\ x.met \in SUBSET RegimeRules
  BY DEF RegimeQuestions
<1>2. ASSUME NEW r \in RegimeRules
      PROVE  SizeMultiplier(Regime(x)) <= SizeMultiplier(Regime([x EXCEPT !.met = @ \cup {r}]))
  <2> DEFINE y == [x EXCEPT !.met = @ \cup {r}]
             m == Judged(x) \ x.met
             n == Judged(y) \ y.met
  <2>1. y.on = x.on /\ y.crypto = x.crypto /\ y.met = x.met \cup {r}
    BY DEF RegimeQuestions
  <2>2. Judged(y) = Judged(x)
    BY <2>1 DEF Judged
  <2>3. n \subseteq m
    BY <2>1, <2>2
  <2> HIDE DEF y
  <2>4. Regime(x) = "BULL" => Regime(y) = "BULL"
    BY <2>3 DEF Regime
  <2>5. Regime(x) = "CAUTION" => Regime(y) \in {"BULL", "CAUTION"}
    <3> SUFFICES ASSUME Regime(x) = "CAUTION", n # {} PROVE Regime(y) = "CAUTION"
      BY DEF Regime
    <3>1. Cardinality(Judged(x)) > 1 /\ Cardinality(m) = 1 /\ m # {}
      BY DEF Regime
    <3>2. IsFiniteSet(m)
      <4>1. m \subseteq {"index", "breadth", "distribution"}
        BY <1>1 DEF Judged, RegimeRules
      <4>2. IsFiniteSet({"index", "breadth", "distribution"})
        <5>1. IsFiniteSet({} \cup {"index"})
          BY FS_EmptySet, FS_AddElement
        <5>2. IsFiniteSet(({} \cup {"index"}) \cup {"breadth"})
          BY <5>1, FS_AddElement
        <5>3. IsFiniteSet((({} \cup {"index"}) \cup {"breadth"}) \cup {"distribution"})
          BY <5>2, FS_AddElement
        <5>4. {"index", "breadth", "distribution"}
                = (({} \cup {"index"}) \cup {"breadth"}) \cup {"distribution"}
          OBVIOUS
        <5> QED
          BY <5>3, <5>4
      <4> QED
        BY <4>1, <4>2, FS_Subset
    <3>3. PICK e : m = {e}
      BY <3>1, <3>2, FS_Singleton
    <3>4. n = m
      BY <3>3, <2>3
    <3> QED
      BY <3>1, <3>4, <2>2 DEF Regime
  <2>6. Regime(x) \in {"BULL", "CAUTION", "BEAR"} /\ Regime(y) \in {"BULL", "CAUTION", "BEAR"}
    BY DEF Regime
  <2>7. SizeMultiplier("BULL") = 100 /\ SizeMultiplier("CAUTION") = 50 /\ SizeMultiplier("BEAR") = 0
    BY DEF SizeMultiplier
  <2> QED
    BY <2>4, <2>5, <2>6, <2>7 DEF y
<1>3. Judged(x) # {} /\ Judged(x) \cap x.met = {} => Regime(x) = "BEAR"
  <2> SUFFICES ASSUME Judged(x) # {}, Judged(x) \cap x.met = {} PROVE Regime(x) = "BEAR"
    OBVIOUS
  <2>1. Judged(x) \ x.met = Judged(x)
    OBVIOUS
  <2>2. ~(Cardinality(Judged(x)) > 1 /\ Cardinality(Judged(x)) = 1)
    OBVIOUS
  <2> QED
    BY <2>1, <2>2 DEF Regime
<1> QED
  BY <1>2, <1>3

\* Fewer minutes project the same volume to more.
LEMMA EarlierIsMore ==
    ASSUME NEW x \in BreakoutQuestions
    PROVE  /\ x.close \in 100..105 /\ x.volume >= 150 => BreaksOut(x)
           /\ BreaksOut(x) => \A m \in 1..x.minute : BreaksOut([x EXCEPT !.minute = m])
<1>1. /\ x.volume \in {0, 10, 80, 150} /\ x.minute \in {0, 1, 13, 195, 389, 390}
      /\ x.crypto \in BOOLEAN
  BY DEF BreakoutQuestions
<1>2. \A v \in Nat, m \in 1..389 : (v * 390) \div m >= v
  OBVIOUS
<1>3. \A v \in {0, 10, 80, 150}, m \in 1..389, n \in 1..389 :
         m <= n => (v * 390) \div m >= (v * 390) \div n
  <2> TAKE v \in {0, 10, 80, 150}, m \in 1..389, n \in 1..389
  <2>1. v * 390 \in Nat /\ m \in Nat \ {0} /\ n \in Nat \ {0}
    OBVIOUS
  <2> QED
    BY <2>1, SharedByFewer
<1>4. x.volume >= 150 => Projected(x) >= 150
  BY <1>1, <1>2 DEF Projected, ScDay
<1>5. ASSUME NEW m \in 1..x.minute, BreaksOut(x) PROVE BreaksOut([x EXCEPT !.minute = m])
  <2> DEFINE y == [x EXCEPT !.minute = m]
  <2>1. y.minute = m /\ y.volume = x.volume /\ y.crypto = x.crypto /\ y.close = x.close
    BY DEF BreakoutQuestions
  <2> HIDE DEF y
  <2>2. Projected(y) >= Projected(x)
    <3>1. CASE x.crypto
      BY <3>1, <2>1, <1>1 DEF Projected
    <3>2. CASE ~x.crypto /\ m = 390
      BY <3>2, <2>1, <1>1, <1>5 DEF Projected, ScDay
    <3>3. CASE ~x.crypto /\ m \in 1..389 /\ x.minute = 390
      BY <3>3, <2>1, <1>1, <1>2 DEF Projected, ScDay
    <3>4. CASE ~x.crypto /\ m \in 1..389 /\ x.minute \in 1..389
      BY <3>4, <2>1, <1>1, <1>3, <1>5 DEF Projected, ScDay
    <3> QED
      BY <3>1, <3>2, <3>3, <3>4, <1>1, <1>5
  <2> QED
    BY <2>1, <2>2, <1>1, <1>5 DEF BreaksOut, Projected, ScDay, y
<1> QED
  BY <1>1, <1>4, <1>5 DEF BreaksOut

\* The sectors before another in the order of their medians.
SectorsBefore(x, s) ==
    {o \in 1..ScSectors : x.median[o] > x.median[s] \/ (x.median[o] = x.median[s] /\ o < s)}

\* Those that lead are the first ones: with fewer than wanted, the first of the
\* others would have fewer before it than it is said to have.
LEMMA FirstOnesLead ==
    ASSUME NEW x \in SectorQuestions
    PROVE  LET leading == {s \in 1..ScSectors : Leads(x, s)}
           IN  /\ \A s \in leading, o \in (1..ScSectors) \ leading : x.median[s] >= x.median[o]
               /\ ScSectors >= 3 => 100 * Cardinality(leading) >= ScSectors * x.top
<1> DEFINE all == 1..ScSectors
           leading == {s \in all : Leads(x, s)}
           before(s) == SectorsBefore(x, s)
           n(s) == Cardinality(before(s))
           k == Cohort(x)
<1>a. ScSectors \in Nat
  BY ScAssumption
<1>1. /\ \A s \in all : x.median[s] \in Int /\ s \in Int
      /\ x.top \in {20, 34, 50, 100}
  BY <1>a DEF SectorQuestions
<1>2. IsFiniteSet(all) /\ Cardinality(all) = ScSectors
  BY <1>a, FS_Interval
<1>3. \A s \in all : before(s) \in SUBSET all
  BY DEF SectorsBefore
<1>4. \A s \in all : IsFiniteSet(before(s)) /\ n(s) \in Nat
  BY <1>2, <1>3, FS_Subset, FS_CardinalityType
<1>5. \A s \in all : Rank(x, s) = 1 + n(s)
  BY DEF Rank, SectorsBefore
<1>6. \A o, s \in all : o \in before(s) <=> x.median[o] > x.median[s]
                                            \/ (x.median[o] = x.median[s] /\ o < s)
  BY DEF SectorsBefore
<1>7. \A o, s \in all : o \in before(s) => n(o) < n(s)
  <2> SUFFICES ASSUME NEW o \in all, NEW s \in all, o \in before(s) PROVE n(o) < n(s)
    OBVIOUS
  <2>1. \A p \in all : p \in before(o) => p \in before(s)
    BY <1>1, <1>6
  <2>2. o \notin before(o)
    BY <1>1, <1>6
  <2>3. before(o) \in SUBSET (before(s) \ {o})
    BY <1>3, <2>1, <2>2
  <2>4. IsFiniteSet(before(s) \ {o}) /\ Cardinality(before(s) \ {o}) = n(s) - 1
    BY <1>4, FS_RemoveElement
  <2> HIDE DEF before
  <2>5. n(o) <= n(s) - 1
    BY <2>3, <2>4, FS_Subset
  <2> QED
    BY <2>5, <1>4
<1>8. \A o, s \in all : o = s \/ o \in before(s) \/ s \in before(o)
  BY <1>1, <1>6
<1>9. k \in Nat /\ (ScSectors >= 3 => 1 <= k /\ k <= ScSectors /\ 100 * k >= ScSectors * x.top)
  <2> DEFINE c == (ScSectors * x.top + 99) \div 100
  <2>1. ScSectors * x.top \in Nat /\ (x.top \in Nat /\ x.top <= 100)
    BY <1>a, <1>1
  <2>2. c \in Nat /\ 100 * c >= ScSectors * x.top /\ (ScSectors * x.top <= 100 * ScSectors => c <= ScSectors)
    BY <2>1, <1>a
  <2>3. ScSectors * x.top <= 100 * ScSectors
    BY <1>a, <1>1
  <2> HIDE DEF c
  <2>4. \E m \in {1, c} : \A y \in {1, c} : m >= y
    BY <2>2
  <2>5. Max({1, c}) \in {1, c} /\ Max({1, c}) >= 1 /\ Max({1, c}) >= c
    BY <2>4 DEF Max
  <2>6. k = Max({1, c})
    BY DEF Cohort, c
  <2> QED
    BY <1>a, <2>1, <2>2, <2>3, <2>5, <2>6
<1>10. \A s \in all : s \in leading <=> ScSectors >= 3 /\ n(s) < k
  BY <1>4, <1>5, <1>9 DEF Leads
<1> HIDE DEF before, k, leading
<1>11. \A s \in leading, o \in all \ leading : x.median[s] >= x.median[o]
  <2> SUFFICES ASSUME NEW s \in leading, NEW o \in all \ leading PROVE x.median[s] >= x.median[o]
    OBVIOUS
  <2>1. s \in all /\ o \in all
    BY DEF leading
  <2>2. n(s) < k /\ ~(n(o) < k)
    BY <1>10, <2>1
  <2>3. o \notin before(s)
    BY <1>4, <1>7, <1>9, <2>1, <2>2
  <2> QED
    BY <1>1, <1>6, <2>1, <2>3
<1>12. ASSUME ScSectors >= 3 PROVE Cardinality(leading) >= k
  <2>1. leading \in SUBSET all
    BY DEF leading
  <2>2. IsFiniteSet(leading) /\ Cardinality(leading) \in Nat
    BY <2>1, <1>2, FS_Subset, FS_CardinalityType
  <2>3. CASE leading = all
    BY <2>3, <1>2, <1>9, <1>12
  <2>4. CASE leading # all
    <3> DEFINE T == {n(s) : s \in all \ leading}
    <3>1. T \subseteq Nat /\ T # {}
      BY <2>1, <2>4, <1>4
    <3>2. PICK m \in T : \A j \in T : m <= j
      BY <3>1, LeastOf
    <3>3. PICK s \in all \ leading : m = n(s)
      BY <3>2
    <3>4. \A o \in before(s) : o \in leading
      <4>1. ASSUME NEW o \in before(s), o \notin leading PROVE FALSE
        <5>1. o \in all /\ n(o) \in T
          BY <4>1, <1>3, <3>3
        <5>2. n(o) < n(s) /\ n(s) <= n(o)
          BY <5>1, <4>1, <1>7, <3>2, <3>3
        <5> QED
          BY <5>1, <5>2, <1>4, <3>3
      <4> QED
        BY <4>1
    <3>5. n(s) <= Cardinality(leading)
      BY <3>4, <2>2, FS_Subset
    <3>6. ~(n(s) < k) /\ n(s) \in Nat
      BY <1>4, <1>10, <1>12, <3>3
    <3> QED
      BY <3>5, <3>6, <2>2, <1>9
  <2> QED
    BY <2>3, <2>4
<1>13. ScSectors >= 3 => 100 * Cardinality(leading) >= ScSectors * x.top
  <2>1. leading \in SUBSET all
    BY DEF leading
  <2>2. Cardinality(leading) \in Nat
    BY <2>1, <1>2, FS_Subset, FS_CardinalityType
  <2>3. ScSectors * x.top \in Nat
    BY <1>a, <1>1
  <2> QED
    BY <2>2, <2>3, <1>9, <1>12
<1> QED
  BY <1>11, <1>13 DEF leading

-----------------------------------------------------------------------------
(* The rating.                                                             *)

\* What a peer adds to the rank of a stock, in halves.
Beats(own, peer) == IF peer = NoYear THEN 0 ELSE IF peer < own THEN 2 ELSE IF peer = own THEN 1 ELSE 0
Counts(peer) == IF peer = NoYear THEN 0 ELSE 1

LEMMA RatingIs ==
    ASSUME NEW x \in RatingQuestions
    PROVE  LET own == Performance(x.gains)
           IN  Rating(x) = (100 * (Beats(own, x.peers[1]) + Beats(own, x.peers[2]) + 2))
                             \div (2 * (Counts(x.peers[1]) + Counts(x.peers[2]) + 1))
<1> DEFINE own == Performance(x.gains)
           ranked == {p \in 1..2 : x.peers[p] # NoYear}
           below == {p \in ranked : x.peers[p] < own}
           ties == {p \in ranked : x.peers[p] = own}
<1>1. Rating(x) = (100 * (2 * Cardinality(below) + Cardinality(ties) + 2))
                    \div (2 * (Cardinality(ranked) + 1))
  BY DEF Rating
<1>2. /\ x.peers[1] \in Int /\ x.peers[2] \in Int /\ own \in Int
  <2>1. \A q \in 1..4 : x.gains[q] \in {-2, 0, 3}
    BY DEF RatingQuestions
  <2>2. x.gains[1] \in Int /\ x.gains[2] \in Int /\ x.gains[3] \in Int /\ x.gains[4] \in Int
    BY <2>1
  <2>3. \A p \in 1..2 : x.peers[p] \in {NoYear, -2, 0, 4}
    BY DEF RatingQuestions
  <2> QED
    BY <2>2, <2>3 DEF Performance, NoYear
<1>3. /\ ranked \in SUBSET (1..2) /\ below \in SUBSET (1..2) /\ ties \in SUBSET (1..2)
  OBVIOUS
<1>4. \A p \in 1..2 : /\ p \in ranked <=> x.peers[p] # NoYear
                      /\ p \in below <=> x.peers[p] # NoYear /\ x.peers[p] < own
                      /\ p \in ties <=> x.peers[p] # NoYear /\ x.peers[p] = own
  OBVIOUS
<1> HIDE DEF own, ranked, below, ties
<1>5. Cardinality(ranked) = Counts(x.peers[1]) + Counts(x.peers[2])
  BY <1>3, <1>4, CountOfTwo DEF Counts
<1>6. 2 * Cardinality(below) + Cardinality(ties) = Beats(own, x.peers[1]) + Beats(own, x.peers[2])
  <2>1. /\ Cardinality(below) = (IF 1 \in below THEN 1 ELSE 0) + (IF 2 \in below THEN 1 ELSE 0)
        /\ Cardinality(ties) = (IF 1 \in ties THEN 1 ELSE 0) + (IF 2 \in ties THEN 1 ELSE 0)
    BY <1>3, CountOfTwo
  <2>2. \A p \in 1..2 : Beats(own, x.peers[p]) = 2 * (IF p \in below THEN 1 ELSE 0)
                                                  + (IF p \in ties THEN 1 ELSE 0)
    BY <1>2, <1>4 DEF Beats
  <2> QED
    BY <2>1, <2>2
<1> QED
  BY <1>1, <1>5, <1>6 DEF own

LEMMA BetterYearIsBetter ==
    ASSUME NEW x \in RatingQuestions
    PROVE  /\ Rating(x) \in 1..100
           /\ \A q \in 1..3 : x.gains[q] > x.gains[4] =>
                 Rating(x) <= Rating([x EXCEPT !.gains[q] = x.gains[4], !.gains[4] = x.gains[q]])
<1> DEFINE own == Performance(x.gains)
           c == Counts(x.peers[1]) + Counts(x.peers[2])
           b == Beats(own, x.peers[1]) + Beats(own, x.peers[2])
<1>1. Rating(x) = (100 * (b + 2)) \div (2 * (c + 1))
  BY RatingIs
<1>a. \A q \in 1..4 : x.gains[q] \in {-2, 0, 3}
  BY DEF RatingQuestions
<1>b. x.gains[1] \in Int /\ x.gains[2] \in Int /\ x.gains[3] \in Int /\ x.gains[4] \in Int
  BY <1>a
<1>c. own \in Int
  BY <1>b DEF Performance
<1>d. x.peers[1] \in Int /\ x.peers[2] \in Int
  <2>1. \A p \in 1..2 : x.peers[p] \in {NoYear, -2, 0, 4}
    BY DEF RatingQuestions
  <2> QED
    BY <2>1 DEF NoYear
<1>2. c \in 0..2 /\ b \in 0..(2 * c)
  BY DEF Beats, Counts
<1>3. Rating(x) \in 1..100
  <2> HIDE DEF b, c
  <2> QED
    BY <1>1, <1>2
<1>4. ASSUME NEW q \in 1..3, x.gains[q] > x.gains[4]
      PROVE  Rating(x) <= Rating([x EXCEPT !.gains[q] = x.gains[4], !.gains[4] = x.gains[q]])
  <2> DEFINE y == [x EXCEPT !.gains[q] = x.gains[4], !.gains[4] = x.gains[q]]
             more == Performance(y.gains)
             d == Beats(more, x.peers[1]) + Beats(more, x.peers[2])
  <2>1. /\ y.peers = x.peers /\ y \in RatingQuestions
        /\ \A p \in 1..4 : y.gains[p] = IF p = 4 THEN x.gains[q] ELSE IF p = q THEN x.gains[4]
                                        ELSE x.gains[p]
    <3> DEFINE g == [p \in 1..4 |-> IF p = 4 THEN x.gains[q] ELSE IF p = q THEN x.gains[4]
                                    ELSE x.gains[p]]
    <3>1. x.gains \in [1..4 -> {-2, 0, 3}] /\ x.peers \in [1..2 -> {NoYear, -2, 0, 4}]
      BY DEF RatingQuestions
    <3>2. g \in [1..4 -> {-2, 0, 3}]
      BY <1>a
    <3>3. y.gains = g
      BY <3>1 DEF RatingQuestions
    <3>4. y = [x EXCEPT !.gains = g]
      BY <3>3 DEF RatingQuestions
    <3> HIDE DEF g
    <3>5. y.peers = x.peers /\ y \in RatingQuestions
      BY <3>1, <3>2, <3>4 DEF RatingQuestions
    <3> QED
      BY <3>3, <3>5 DEF g
  <2>2. Rating(y) = (100 * (d + 2)) \div (2 * (c + 1))
    BY <2>1, RatingIs
  <2>3. more = own + (x.gains[q] - x.gains[4]) /\ more \in Int /\ own < more
    BY <2>1, <1>4, <1>b DEF Performance
  <2> HIDE DEF more, own, y
  <2>4. \A peer \in Int : Beats(own, peer) <= Beats(more, peer)
    BY <2>3, <1>c DEF Beats
  <2>5. b <= d /\ d \in Int
    BY <2>4, <1>d DEF Beats
  <2> HIDE DEF b, c, d
  <2>6. (100 * (b + 2)) \div (2 * (c + 1)) <= (100 * (d + 2)) \div (2 * (c + 1))
    BY <1>2, <2>5
  <2> QED
    BY <1>1, <2>2, <2>6 DEF y
<1> QED
  BY <1>3, <1>4

\* Doing better never costs a stock anything: for any earnings, any number of
\* sectors, and every answer of the rules for coins, the market, the breakout
\* and the rating.
THEOREM BetterIsNoWorse == ScSpec => []BetterNeverHurts
<1>1. ScQuestion => BetterQuarterNeverHurts /\ MissingNeverHurts
  BY QuarterIsBetter, UnknownIsNoWorse DEF ScQuestion, BetterQuarterNeverHurts, MissingNeverHurts
<1>2. ScQuestion => BetterCoinNeverHurts
  BY CoinIsBetter DEF ScQuestion, BetterCoinNeverHurts
<1>3. ScQuestion => RegimeIsMonotone
  BY RegimeIsBetter DEF ScQuestion, RegimeIsMonotone
<1>4. ScQuestion => LeadersAreTheTop
  BY FirstOnesLead DEF ScQuestion, LeadersAreTheTop
<1>5. ScQuestion => EarlierProjectsMore
  BY EarlierIsMore DEF ScQuestion, EarlierProjectsMore
<1>6. ScQuestion => LatelyCountsMore
  BY BetterYearIsBetter DEF ScQuestion, LatelyCountsMore
<1>7. ScQuestion => BetterNeverHurts
  BY <1>1, <1>2, <1>3, <1>4, <1>5, <1>6 DEF BetterNeverHurts
<1> QED
  BY <1>7, ScAsked, PTL

-----------------------------------------------------------------------------
(* The trend template and the patterns.                                    *)

TrendCriteria ==
    {"over200", "over150", "150over200", "rising", "50over", "over50", "low", "high", "rs"}

\* The criteria of the template, one by one.
LEMMA TrendIs ==
    ASSUME NEW x
    PROVE  /\ TrendMet(x) \in SUBSET TrendCriteria
           /\ "over200" \in TrendMet(x) <=> x.close > x.ma200 /\ x.ma200 > 0
           /\ "over150" \in TrendMet(x) <=> x.close > x.ma150 /\ x.ma150 > 0
           /\ "150over200" \in TrendMet(x) <=> x.ma150 > x.ma200 /\ x.ma200 > 0
           /\ "rising" \in TrendMet(x) <=> x.ma200 > x.before /\ x.before > 0
           /\ "50over" \in TrendMet(x) <=> x.ma50 > x.ma150 /\ x.ma50 > x.ma200 /\ x.ma50 > 0
           /\ "over50" \in TrendMet(x) <=> x.close > x.ma50 /\ x.ma50 > 0
           /\ "low" \in TrendMet(x) <=> x.low > 0 /\ 10 * x.close >= 13 * x.low
           /\ "high" \in TrendMet(x) <=> x.high > 0 /\ 4 * x.close >= 3 * x.high
BY DEF TrendMet, TrendCriteria

LEMMA FiveOfTheTrend ==
    /\ IsFiniteSet({"50over", "over50", "low", "high", "rs"})
    /\ Cardinality({"50over", "over50", "low", "high", "rs"}) = 5
<1>1. IsFiniteSet({"rs"}) /\ Cardinality({"rs"}) = 1
  BY FS_Singleton
<1>2. IsFiniteSet({"high", "rs"}) /\ Cardinality({"high", "rs"}) = 2
  <2>1. {"high", "rs"} = {"rs"} \cup {"high"} /\ "high" \notin {"rs"}
    OBVIOUS
  <2> QED
    BY <1>1, <2>1, FS_AddElement
<1>3. IsFiniteSet({"low", "high", "rs"}) /\ Cardinality({"low", "high", "rs"}) = 3
  <2>1. {"low", "high", "rs"} = {"high", "rs"} \cup {"low"} /\ "low" \notin {"high", "rs"}
    OBVIOUS
  <2> QED
    BY <1>2, <2>1, FS_AddElement
<1>4. /\ IsFiniteSet({"over50", "low", "high", "rs"})
      /\ Cardinality({"over50", "low", "high", "rs"}) = 4
  <2>1. /\ {"over50", "low", "high", "rs"} = {"low", "high", "rs"} \cup {"over50"}
        /\ "over50" \notin {"low", "high", "rs"}
    OBVIOUS
  <2> QED
    BY <1>3, <2>1, FS_AddElement
<1>5. /\ {"50over", "over50", "low", "high", "rs"} = {"over50", "low", "high", "rs"} \cup {"50over"}
      /\ "50over" \notin {"over50", "low", "high", "rs"}
  OBVIOUS
<1> QED
  BY <1>4, <1>5, FS_AddElement

LEMMA NineOfTheTrend == IsFiniteSet(TrendCriteria) /\ Cardinality(TrendCriteria) = 9
<1> DEFINE five == {"50over", "over50", "low", "high", "rs"}
           six == five \cup {"rising"}
           seven == six \cup {"150over200"}
           eight == seven \cup {"over150"}
<1>1. IsFiniteSet(five) /\ Cardinality(five) = 5
  BY FiveOfTheTrend
<1>2. /\ "rising" \notin five /\ "150over200" \notin six /\ "over150" \notin seven
      /\ "over200" \notin eight /\ TrendCriteria = eight \cup {"over200"}
  BY DEF TrendCriteria
<1> HIDE DEF five
<1>3. IsFiniteSet(six) /\ Cardinality(six) = 6
  BY <1>1, <1>2, FS_AddElement
<1> HIDE DEF six
<1>4. IsFiniteSet(seven) /\ Cardinality(seven) = 7
  BY <1>3, <1>2, FS_AddElement
<1> HIDE DEF seven
<1>5. IsFiniteSet(eight) /\ Cardinality(eight) = 8
  BY <1>4, <1>2, FS_AddElement
<1> HIDE DEF eight
<1> QED
  BY <1>5, <1>2, FS_AddElement

LEMMA AveragesAreNeeded ==
    ASSUME NEW x \in TrendQuestions
    PROVE  /\ x.ma150 = 0 /\ x.ma200 = 0 => Cardinality(TrendMet(x)) < 6
           /\ Cardinality(TrendMet(x)) = 9 =>
                 /\ x.close > x.ma50 /\ x.ma50 > x.ma150 /\ x.ma150 > x.ma200
                 /\ x.ma200 > x.before /\ x.before > 0 /\ x.low > 0 /\ x.high > 0
<1>1. ASSUME x.ma150 = 0, x.ma200 = 0 PROVE Cardinality(TrendMet(x)) < 6
  <2> DEFINE five == {"50over", "over50", "low", "high", "rs"}
  <2>1. x.before \in Nat
    BY ScAssumption DEF TrendQuestions
  <2>2. /\ "over200" \notin TrendMet(x) /\ "over150" \notin TrendMet(x)
        /\ "150over200" \notin TrendMet(x) /\ "rising" \notin TrendMet(x)
    BY <1>1, <2>1, TrendIs
  <2>3. TrendMet(x) \in SUBSET five
    BY <2>2, TrendIs DEF TrendCriteria
  <2>4. IsFiniteSet(five) /\ Cardinality(five) = 5
    BY FiveOfTheTrend
  <2> HIDE DEF five
  <2>5. Cardinality(TrendMet(x)) <= 5 /\ Cardinality(TrendMet(x)) \in Nat
    BY <2>3, <2>4, FS_Subset, FS_CardinalityType
  <2> QED
    BY <2>5
<1>2. ASSUME Cardinality(TrendMet(x)) = 9 PROVE TrendMet(x) = TrendCriteria
  BY <1>2, TrendIs, NineOfTheTrend, FS_Subset
<1>3. Cardinality(TrendMet(x)) = 9 =>
         "over200" \in TrendMet(x) /\ "over150" \in TrendMet(x) /\ "150over200" \in TrendMet(x)
         /\ "rising" \in TrendMet(x) /\ "50over" \in TrendMet(x) /\ "over50" \in TrendMet(x)
         /\ "low" \in TrendMet(x) /\ "high" \in TrendMet(x)
  BY <1>2 DEF TrendCriteria
<1> QED
  BY <1>1, <1>3, TrendIs

-----------------------------------------------------------------------------
(* The legs of a pattern.                                                  *)

\* The legs that are taken by bar i.
TakenNext(x, taken, i) ==
    IF i = 0 THEN [kept |-> <<>>, done |-> FALSE]
    ELSE IF \E g \in Legs(x) : g.from = i
           THEN TakeLeg(x, taken[i - 1], CHOOSE g \in Legs(x) : g.from = i)
    ELSE taken[i - 1]

LEMMA TakenExists ==
    ASSUME NEW x
    PROVE  \E f : f = [i \in 0..ScLength |-> TakenNext(x, f, i)]
<1> DEFINE N == {k \in Nat : \E f : f = [i \in 0..k |-> TakenNext(x, f, i)]}
<1>1. 0 \in N
  <2> DEFINE f == [i \in 0..0 |-> [kept |-> <<>>, done |-> FALSE]]
  <2>1. \A i \in 0..0 : TakenNext(x, f, i) = [kept |-> <<>>, done |-> FALSE]
    BY DEF TakenNext
  <2>2. f = [i \in 0..0 |-> TakenNext(x, f, i)]
    BY <2>1
  <2> HIDE DEF f
  <2> QED
    BY <2>2
<1>2. ASSUME NEW k \in Nat, k \in N PROVE k + 1 \in N
  <2>1. PICK f : f = [i \in 0..k |-> TakenNext(x, f, i)]
    BY <1>2
  <2> DEFINE h == [i \in 0..(k + 1) |-> IF i <= k THEN f[i] ELSE TakenNext(x, f, i)]
  <2>2. ASSUME NEW i \in 0..(k + 1) PROVE h[i] = TakenNext(x, h, i)
    <3>1. h[i] = TakenNext(x, f, i)
      BY <2>1
    <3>2. i # 0 => i - 1 \in 0..k /\ i - 1 \in 0..(k + 1)
      OBVIOUS
    <3>3. i # 0 => h[i - 1] = f[i - 1]
      BY <3>2
    <3> HIDE DEF h
    <3> QED
      BY <3>1, <3>3 DEF TakenNext
  <2>3. h = [i \in 0..(k + 1) |-> TakenNext(x, h, i)]
    <3>1. h = [i \in 0..(k + 1) |-> h[i]]
      OBVIOUS
    <3> HIDE DEF h
    <3> QED
      BY <2>2, <3>1
  <2> HIDE DEF h
  <2> QED
    BY <2>3
<1> HIDE DEF N
<1>3. Nat \subseteq N
  BY <1>1, <1>2, NatSetInduction
<1>4. ScLength \in N
  BY <1>3, ScAssumption
<1> QED
  BY <1>4 DEF N

LEMMA TakenIs ==
    ASSUME NEW x, NEW i \in 0..ScLength
    PROVE  TakenBy(x)[i] = TakenNext(x, TakenBy(x), i)
<1> DEFINE t == TakenBy(x)
<1>1. t = CHOOSE f : f = [j \in 0..ScLength |-> TakenNext(x, f, j)]
  BY DEF TakenBy, TakenNext
<1>2. t = [j \in 0..ScLength |-> TakenNext(x, t, j)]
  <2> HIDE DEF t
  <2> QED
    BY <1>1, TakenExists
<1> HIDE DEF t
<1>3. t[i] = TakenNext(x, t, i)
  BY <1>2
<1> QED
  BY <1>3 DEF t

\* What the legs that are kept have in common by bar i.
KeptTighten(x, acc, i) ==
    /\ acc \in [kept : Seq(Legs(x)), done : BOOLEAN]
    /\ \A j \in 1..Len(acc.kept) : acc.kept[j].from <= i
    /\ \A j \in 2..Len(acc.kept) : /\ acc.kept[j - 1].from < acc.kept[j].from
                                   /\ Shallower(x, acc.kept[j], acc.kept[j - 1])

LEMMA LegIs ==
    ASSUME NEW x, NEW g \in Legs(x)
    PROVE  /\ g.from \in Nat /\ g.to \in Nat /\ g.from < g.to
           /\ x.bars[g.from].high > x.bars[g.to].low
<1>1. /\ g.from \in PivotHighs(x) /\ g.to \in PivotLows(x) /\ g.to \in NextLow(x, g.from)
      /\ x.bars[g.from].high > x.bars[g.to].low
  BY DEF Legs
<1> DEFINE later == {l \in PivotLows(x) : l > g.from}
<1>2. g.from \in Nat /\ PivotLows(x) \subseteq Nat
  BY <1>1, ScAssumption DEF PivotHighs, PivotLows
<1>3. later # {} /\ g.to = Min(later)
  BY <1>1 DEF NextLow
<1>4. \E m \in later : \A n \in later : m <= n
  <2>1. later \subseteq Nat
    BY <1>2
  <2> HIDE DEF later
  <2> QED
    BY <1>3, <2>1, LeastOf
<1>5. Min(later) \in later
  <2> HIDE DEF later
  <2> QED
    BY <1>4 DEF Min
<1> QED
  BY <1>1, <1>2, <1>3, <1>5

LEMMA TakeLegTightens ==
    ASSUME NEW x, NEW i \in Nat, NEW acc, KeptTighten(x, acc, i),
           NEW g \in Legs(x), g.from = i + 1
    PROVE  KeptTighten(x, TakeLeg(x, acc, g), i + 1)
<1> DEFINE kept == acc.kept
           n == Len(kept)
<1>1. /\ kept \in Seq(Legs(x)) /\ acc.done \in BOOLEAN /\ n \in Nat
      /\ \A j \in 1..n : kept[j].from <= i /\ kept[j] \in Legs(x)
      /\ \A j \in 2..n : kept[j - 1].from < kept[j].from /\ Shallower(x, kept[j], kept[j - 1])
  BY DEF KeptTighten
<1>2. \A j \in 1..n : kept[j].from \in Nat
  BY <1>1, LegIs
<1>3. KeptTighten(x, acc, i + 1)
  BY <1>1, <1>2 DEF KeptTighten
<1>4. KeptTighten(x, [acc EXCEPT !.done = TRUE], i + 1)
  BY <1>3 DEF KeptTighten
<1>5. KeptTighten(x, [acc EXCEPT !.kept = <<g>>], i + 1)
  <2> DEFINE one == [acc EXCEPT !.kept = <<g>>]
  <2>1. one.kept = <<g>> /\ one \in [kept : Seq(Legs(x)), done : BOOLEAN]
    <3>1. acc \in [kept : Seq(Legs(x)), done : BOOLEAN]
      BY DEF KeptTighten
    <3>2. <<g>> \in Seq(Legs(x))
      OBVIOUS
    <3>3. one = [kept |-> <<g>>, done |-> acc.done]
      BY <3>1
    <3> QED
      BY <1>1, <3>2, <3>3
  <2> HIDE DEF one
  <2>2. Len(one.kept) = 1 /\ one.kept[1] = g
    BY <2>1
  <2> QED
    BY <2>1, <2>2 DEF KeptTighten
<1>6. ASSUME kept = <<>> \/ Shallower(x, g, Last(kept))
      PROVE  KeptTighten(x, [acc EXCEPT !.kept = Append(@, g)], i + 1)
  <2> DEFINE more == [acc EXCEPT !.kept = Append(@, g)]
  <2>1. more.kept = Append(kept, g) /\ more \in [kept : Seq(Legs(x)), done : BOOLEAN]
    <3>1. acc \in [kept : Seq(Legs(x)), done : BOOLEAN]
      BY DEF KeptTighten
    <3>2. Append(kept, g) \in Seq(Legs(x))
      BY <1>1
    <3>3. \A s : [acc EXCEPT !.kept = s] = [kept |-> s, done |-> acc.done]
      BY <3>1
    <3>4. more = [kept |-> Append(kept, g), done |-> acc.done]
      <4> DEFINE s == Append(kept, g)
      <4>1. more = [acc EXCEPT !.kept = s]
        OBVIOUS
      <4> HIDE DEF s, more
      <4> QED
        BY <4>1, <3>3 DEF s
    <3> QED
      BY <1>1, <3>2, <3>4
  <2> HIDE DEF more
  <2>2. /\ Len(more.kept) = n + 1 /\ more.kept[n + 1] = g
        /\ \A j \in 1..n : more.kept[j] = kept[j]
    BY <1>1, <2>1
  <2>3. \A j \in 1..(n + 1) : more.kept[j].from <= i + 1
    BY <1>1, <1>2, <2>2
  <2>4. ASSUME NEW j \in 2..(n + 1)
        PROVE  /\ more.kept[j - 1].from < more.kept[j].from
               /\ Shallower(x, more.kept[j], more.kept[j - 1])
    <3>1. CASE j = n + 1
      <4>1. n \in 1..n /\ j - 1 = n /\ kept # <<>>
        BY <3>1, <2>4, <1>1
      <4>2. Last(kept) = kept[n] /\ Shallower(x, g, kept[n])
        BY <4>1, <1>6 DEF Last
      <4> HIDE DEF n, kept
      <4>3. kept[n].from <= i /\ kept[n].from \in Nat
        BY <4>1, <1>1, <1>2
      <4> QED
        BY <3>1, <4>1, <4>2, <4>3, <2>2
    <3>2. CASE j \in 2..n
      <4>1. j \in 1..n /\ j - 1 \in 1..n
        BY <3>2, <1>1
      <4> QED
        BY <3>2, <4>1, <1>1, <2>2
    <3> QED
      BY <2>4, <3>1, <3>2, <1>1
  <2> QED
    BY <2>1, <2>2, <2>3, <2>4 DEF KeptTighten
<1> QED
  BY <1>3, <1>4, <1>5, <1>6 DEF TakeLeg

LEMMA TakenTightens ==
    ASSUME NEW x
    PROVE  KeptTighten(x, TakenBy(x)[ScLength], ScLength)
<1> DEFINE N == {i \in Nat : i <= ScLength => KeptTighten(x, TakenBy(x)[i], i)}
<1>a. ScLength \in Nat
  BY ScAssumption
<1>1. 0 \in N
  <2>1. TakenBy(x)[0] = [kept |-> <<>>, done |-> FALSE]
    <3>1. 0 \in 0..ScLength
      BY <1>a
    <3> QED
      BY <3>1, TakenIs DEF TakenNext
  <2>2. KeptTighten(x, [kept |-> <<>>, done |-> FALSE], 0)
    BY DEF KeptTighten
  <2> QED
    BY <2>1, <2>2
<1>2. ASSUME NEW i \in Nat, i \in N PROVE i + 1 \in N
  <2> SUFFICES ASSUME i + 1 <= ScLength PROVE KeptTighten(x, TakenBy(x)[i + 1], i + 1)
    OBVIOUS
  <2>1. KeptTighten(x, TakenBy(x)[i], i)
    BY <1>2, <1>a
  <2>2. i + 1 \in 0..ScLength /\ i + 1 # 0 /\ (i + 1) - 1 = i
    BY <1>a
  <2>3. TakenBy(x)[i + 1] = TakenNext(x, TakenBy(x), i + 1)
    BY <2>2, TakenIs
  <2> DEFINE t == TakenBy(x)[i]
             g == CHOOSE g \in Legs(x) : g.from = i + 1
  <2>4. TakenBy(x)[i + 1] = IF \E h \in Legs(x) : h.from = i + 1 THEN TakeLeg(x, t, g) ELSE t
    BY <2>2, <2>3 DEF TakenNext
  <2>5. CASE \E h \in Legs(x) : h.from = i + 1
    <3>1. g \in Legs(x) /\ g.from = i + 1
      BY <2>5
    <3> HIDE DEF g, t
    <3>2. KeptTighten(x, TakeLeg(x, t, g), i + 1)
      BY <2>1, <3>1, TakeLegTightens DEF t
    <3> QED
      BY <2>4, <2>5, <3>2
  <2>6. CASE ~\E h \in Legs(x) : h.from = i + 1
    <3>1. \A j \in 1..Len(t.kept) : t.kept[j].from \in Nat
      BY <2>1, LegIs DEF KeptTighten
    <3>2. KeptTighten(x, t, i + 1)
      <4> HIDE DEF g
      <4> QED
        BY <2>1, <3>1 DEF KeptTighten
    <3> QED
      BY <2>4, <2>6, <3>2
  <2> QED
    BY <2>5, <2>6
<1> HIDE DEF N
<1>3. Nat \subseteq N
  BY <1>1, <1>2, NatSetInduction
<1> QED
  BY <1>3, <1>a DEF N

LEMMA LegsTightenWhenDetected ==
    ASSUME NEW x, Detected(x)
    PROVE  LET kept == Tightening(x)
           IN  /\ \A i \in 1..Len(kept) : kept[i].from < kept[i].to
               /\ \A i \in 2..Len(kept) : /\ kept[i - 1].from < kept[i].from
                                          /\ Shallower(x, kept[i], kept[i - 1])
               /\ StopPrice(x) < PivotPrice(x)
<1> DEFINE kept == Tightening(x)
           n == Len(kept)
<1>1. /\ kept \in Seq(Legs(x))
      /\ \A j \in 2..n : kept[j - 1].from < kept[j].from /\ Shallower(x, kept[j], kept[j - 1])
  BY TakenTightens DEF KeptTighten, Tightening
<1>2. n >= 2
  BY DEF Detected, ScContractions
<1> HIDE DEF kept
<1>3. n \in Nat /\ \A i \in 1..n : kept[i] \in Legs(x)
  BY <1>1
<1>4. \A i \in 1..n : kept[i].from < kept[i].to
  BY <1>3, LegIs
<1>5. x.bars[kept[n].from].high > x.bars[kept[n].to].low
  BY <1>2, <1>3, LegIs
<1>6. StopPrice(x) = x.bars[kept[n].to].low /\ PivotPrice(x) = x.bars[kept[n].from].high
  BY DEF StopPrice, PivotPrice, Last, kept
<1>7. StopPrice(x) < PivotPrice(x)
  BY <1>5, <1>6
<1> QED
  BY <1>1, <1>4, <1>7 DEF kept

\* What passes as a trend has every average, in order, and what is detected as a
\* pattern has legs that follow and tighten, in a window of any length.
THEOREM PatternsInOrder == ScSpec => []PatternsAreOrdered
<1>1. ScQuestion => TrendNeedsAverages
  BY AveragesAreNeeded DEF ScQuestion, TrendNeedsAverages
<1>2. LegsTighten
  BY LegsTightenWhenDetected DEF LegsTighten
<1> QED
  BY <1>1, <1>2, ScAsked, PTL DEF PatternsAreOrdered

-----------------------------------------------------------------------------
(* The exit rules.                                                         *)

\* A question is one that is in the set it was taken from.
DcQuestion ==
    /\ Deciding("exit") => asking.x \in ExitQuestions
    /\ Deciding("size") => asking.x \in SizeQuestions
    /\ Deciding("addon") => asking.x \in AddOnQuestions
    /\ Deciding("geometry") => asking.x \in GeometryQuestions

LEMMA DcAsked == DcSpec => []DcQuestion
<1>1. DcInit => DcQuestion
  BY DEF DcInit, DcNothing, DcQuestion, Deciding
<1>2. DcQuestion /\ [DcNext]_dcVars => DcQuestion'
  BY DEF DcQuestion, Deciding, DcNext, dcVars, DcAsk, AskExit, AskSize, AskAddOn, AskGeometry, AskMoney
<1> QED
  BY <1>1, <1>2, PTL DEF DcSpec

\* What a rule may name.
ExitReasons == {"STOP_LOSS", "FAILED_BREAKOUT", "TIME_STOP", "EARNINGS_AVOID", "PROFIT_TARGET_1",
                "PROFIT_TARGET_2", "CLIMAX_TOP", "TRAILING_STOP"}
ExitSignal == [reason : ExitReasons, kind : {"FULL", "PARTIAL"}]

\* What holds of the elements of two sequences holds of their concatenation.
LEMMA Concatenated ==
    ASSUME NEW S, NEW a \in Seq(S), NEW b \in Seq(S), NEW T,
           \A i \in 1..Len(a) : a[i] \in T, \A i \in 1..Len(b) : b[i] \in T
    PROVE  /\ a \o b \in Seq(S)
           /\ \A i \in 1..Len(a \o b) : (a \o b)[i] \in T
           /\ a # <<>> => a \o b # <<>> /\ (a \o b)[1] = a[1] /\ a[1] \in T
<1>1. Len(a \o b) = Len(a) + Len(b) /\ a \o b \in Seq(S) /\ Len(a) \in Nat /\ Len(b) \in Nat
  OBVIOUS
<1>2. \A i \in 1..Len(a \o b) : (a \o b)[i] = IF i <= Len(a) THEN a[i] ELSE b[i - Len(a)]
  OBVIOUS
<1>3. \A i \in 1..Len(a \o b) : (a \o b)[i] \in T
  <2> TAKE i \in 1..Len(a \o b)
  <2>1. CASE i <= Len(a)
    BY <2>1, <1>1, <1>2
  <2>2. CASE i > Len(a)
    BY <2>2, <1>1, <1>2
  <2> QED
    BY <2>1, <2>2, <1>1
<1>4. a # <<>> => Len(a) >= 1
  BY <1>1
<1> QED
  BY <1>1, <1>2, <1>3, <1>4

\* What protects sells whole.
LEMMA DefensiveIsFull ==
    ASSUME NEW x
    PROVE  /\ Defensive(x) \in Seq(ExitSignal)
           /\ \A i \in 1..Len(Defensive(x)) :
                 Defensive(x)[i] \in
                   {s \in ExitSignal : s.kind = "FULL"
                                       /\ (Tight(x) => s.reason \in {"STOP_LOSS", "EARNINGS_AVOID"})}
<1> DEFINE T == {s \in ExitSignal : s.kind = "FULL"
                                    /\ (Tight(x) => s.reason \in {"STOP_LOSS", "EARNINGS_AVOID"})}
           Says(s) == s \in Seq(ExitSignal) /\ \A i \in 1..Len(s) : s[i] \in T
<1>1. Says(<<>>)
  OBVIOUS
<1>2. ASSUME NEW reason \in ExitReasons,
             Tight(x) => reason \in {"STOP_LOSS", "EARNINGS_AVOID"}
      PROVE  Says(<<[reason |-> reason, kind |-> "FULL"]>>)
  <2> DEFINE t == [reason |-> reason, kind |-> "FULL"]
  <2>1. t \in T
    BY <1>2 DEF ExitSignal
  <2> HIDE DEF t
  <2>2. t \in ExitSignal
    BY <2>1
  <2>3. Says(<<t>>)
    BY <2>1, <2>2
  <2> QED
    BY <2>3 DEF t
<1>3. ASSUME NEW a, NEW b, Says(a), Says(b) PROVE Says(a \o b)
  BY <1>3, Concatenated
<1> HIDE DEF Says
<1>4. Says(Defensive(x))
  <2>1. Says(Signal(x, EnabledIn(x, "failed") /\ x.days = "early" /\ x.under,
                     "FAILED_BREAKOUT", "FULL"))
    BY <1>1, <1>2 DEF Signal, ExitReasons
  <2>2. Says(Signal(x, EnabledIn(x, "time") /\ x.days = "late" /\ x.gain < 10, "TIME_STOP",
                     "FULL"))
    BY <1>1, <1>2 DEF Signal, ExitReasons
  <2>3. Says(Signal(x, EnabledIn(x, "earnings") /\ x.earnings = "close" /\ ~(EnabledIn(x,
                     "cushion") /\ x.gain >= 10), "EARNINGS_AVOID", "FULL"))
    BY <1>1, <1>2 DEF Signal, ExitReasons
  <2> QED
    BY <2>1, <2>2, <2>3, <1>3 DEF Defensive
<1> QED
  BY <1>4 DEF Says

LEMMA OffensiveIsSale ==
    ASSUME NEW x
    PROVE  /\ Offensive(x) \in Seq(ExitSignal)
           /\ \A i \in 1..Len(Offensive(x)) :
                 Offensive(x)[i] \in
                   {s \in ExitSignal : Tight(x) => s.reason \in {"STOP_LOSS", "EARNINGS_AVOID"}}
<1> DEFINE T == {s \in ExitSignal : Tight(x) => s.reason \in {"STOP_LOSS", "EARNINGS_AVOID"}}
           Says(s) == s \in Seq(ExitSignal) /\ \A i \in 1..Len(s) : s[i] \in T
<1>1. Says(<<>>)
  OBVIOUS
<1>2. ASSUME NEW reason \in ExitReasons, NEW kind \in {"FULL", "PARTIAL"},
             Tight(x) => reason \in {"STOP_LOSS", "EARNINGS_AVOID"}
      PROVE  Says(<<[reason |-> reason, kind |-> kind]>>)
  <2> DEFINE t == [reason |-> reason, kind |-> kind]
  <2>1. t \in T
    BY <1>2 DEF ExitSignal
  <2> HIDE DEF t
  <2>2. t \in ExitSignal
    BY <2>1
  <2>3. Says(<<t>>)
    BY <2>1, <2>2
  <2> QED
    BY <2>3 DEF t
<1>3. ASSUME NEW a, NEW b, Says(a), Says(b) PROVE Says(a \o b)
  BY <1>3, Concatenated
<1> HIDE DEF Says
<1>4. Says(Offensive(x))
  <2>1. Says(Signal(x, EnabledIn(x, "target1") /\ x.gain >= 20, "PROFIT_TARGET_1", "PARTIAL"))
    BY <1>1, <1>2 DEF Signal, ExitReasons
  <2>2. Says(Signal(x, EnabledIn(x, "target2") /\ x.gain >= 40 /\ (EnabledIn(x, "giveback")
                     => x.back), "PROFIT_TARGET_2", "FULL"))
    BY <1>1, <1>2 DEF Signal, ExitReasons
  <2>3. Says(Signal(x, EnabledIn(x, "climax") /\ x.climax /\ x.gain >= 50, "CLIMAX_TOP", "FULL"))
    BY <1>1, <1>2 DEF Signal, ExitReasons
  <2>4. Says(Signal(x, EnabledIn(x, "parabolic") /\ x.weeks = "up", "CLIMAX_TOP", "PARTIAL"))
    BY <1>1, <1>2 DEF Signal, ExitReasons
  <2>5. Says(Signal(x, EnabledIn(x, "ma50") /\ x.broken, "TRAILING_STOP", "FULL"))
    BY <1>1, <1>2 DEF Signal, ExitReasons
  <2> QED
    BY <2>1, <2>2, <2>3, <2>4, <2>5, <1>3 DEF Offensive
<1> QED
  BY <1>4 DEF Says

\* The first signal protects when any does, and three tight weeks silence the
\* others, for every answer the prices can give and any rule switched off.
THEOREM DefenceIsCarriedOut == DcSpec => []ExitOrder
<1>1. ExitOrder
  <2> DEFINE x == asking.x
  <2>1. CASE x.stop
    <3>1. ExitSignals(x) = <<[reason |-> "STOP_LOSS", kind |-> "FULL"]>>
      BY <2>1 DEF ExitSignals, Signal
    <3>2. CarriedOut(x) = {[reason |-> "STOP_LOSS", kind |-> "FULL"]}
      BY <3>1 DEF CarriedOut
    <3> QED
      BY <3>2 DEF ExitOrder, DefenceComesFirst, TightWeeksHold
  <2>2. CASE ~x.stop
    <3> DEFINE d == Defensive(x)
               T == {s \in ExitSignal : Tight(x) => s.reason \in {"STOP_LOSS", "EARNINGS_AVOID"}}
    <3>1. /\ d \in Seq(ExitSignal) /\ Offensive(x) \in Seq(ExitSignal)
          /\ \A i \in 1..Len(d) : d[i].kind = "FULL" /\ d[i] \in T
          /\ \A i \in 1..Len(Offensive(x)) : Offensive(x)[i] \in T
      BY DefensiveIsFull, OffensiveIsSale
    <3>2. CarriedOut(x) = IF d \o Offensive(x) = <<>> THEN {} ELSE {(d \o Offensive(x))[1]}
      BY <2>2 DEF CarriedOut, ExitSignals
    <3> HIDE DEF d, T
    <3>3. /\ d \o Offensive(x) \in Seq(ExitSignal)
          /\ \A i \in 1..Len(d \o Offensive(x)) : (d \o Offensive(x))[i] \in T
          /\ d # <<>> => d \o Offensive(x) # <<>> /\ (d \o Offensive(x))[1] = d[1]
      BY <3>1, Concatenated
    <3>4. d # <<>> => \E s \in CarriedOut(x) : s.kind = "FULL"
      BY <3>1, <3>2, <3>3
    <3>5. \A s \in CarriedOut(x) : s \in T
      <4>1. d \o Offensive(x) # <<>> => 1 \in 1..Len(d \o Offensive(x))
        BY <3>3
      <4> QED
        BY <4>1, <3>2, <3>3
    <3> QED
      BY <2>2, <3>4, <3>5 DEF ExitOrder, DefenceComesFirst, TightWeeksHold, d, T
  <2> QED
    BY <2>1, <2>2
<1> QED
  BY <1>1, PTL

-----------------------------------------------------------------------------
(* The plan of a trade.                                                    *)

LEMMA LeastOne ==
    ASSUME NEW n \in Nat
    PROVE  /\ AtLeastOne(n) \in {1, n} /\ AtLeastOne(n) \in Nat
           /\ AtLeastOne(n) >= 1 /\ AtLeastOne(n) >= n
<1>1. n \in Int /\ 1 \in Int
  OBVIOUS
<1>2. Max({1, n}) \in {1, n} /\ Max({1, n}) >= 1 /\ Max({1, n}) >= n
  BY <1>1, MaxOfTwo
<1> QED
  BY <1>2 DEF AtLeastOne

\* An entry within its caps.  It may be a single share when the caps allow none.
LEMMA CappedWithinCapital ==
    ASSUME NEW x \in SizeQuestions, x.risk > 0
    PROVE  /\ CappedSize(x) \in Nat
           /\ CappedSize(x) <= 1 \/ 100 * (CappedSize(x) * x.entry) <= x.capital * x.capPct
<1> DEFINE budget == x.capital * x.capPct
           cap == PositionCap(x)
           byRisk == AtLeastOne((x.capital * x.riskPct * x.multiplier) \div (10000 * x.risk))
           byShare == AtLeastOne(cap \div x.entry)
           byVolume == IF x.volume > 0 THEN {VolumeCap(x)} ELSE {}
           all == {byRisk, byShare} \cup byVolume
<1>1. /\ x.capital \in Nat /\ x.entry \in Nat \ {0} /\ x.risk \in Nat \ {0} /\ x.volume \in Nat
      /\ x.multiplier \in {0, 50, 100} /\ x.riskPct \in {1, 2} /\ x.capPct \in {10, 30}
  <2>1. /\ x.capital \in DcCapital /\ x.entry \in DcPrice /\ x.risk \in DcRisk /\ x.volume \in DcVolume
        /\ x.multiplier \in {0, 50, 100} /\ x.riskPct \in {1, 2} /\ x.capPct \in {10, 30}
    BY DEF SizeQuestions
  <2>2. x.risk \in Int
    BY <2>1, DcAssumption
  <2>3. x.capital \in Nat /\ x.volume \in Nat
    BY <2>1, DcAssumption
  <2>4. x.entry \in Nat \ {0}
    BY <2>1, DcAssumption
  <2>5. x.risk \in Nat \ {0}
    BY <2>2
  <2> QED
    BY <2>1, <2>3, <2>4, <2>5
<1>2. budget \in Nat /\ 100 * (budget \div 100) <= budget
  BY <1>1
<1>3. cap \in Nat /\ 100 * cap <= budget
  BY <1>1, <1>2 DEF PositionCap
<1> DEFINE n == cap \div x.entry
<1> HIDE DEF budget, cap
<1>4. n \in Nat /\ n * x.entry <= cap
  BY <1>1, <1>3, Quotient
<1> HIDE DEF n
<1>5. byShare \in {1, n}
  BY <1>4, LeastOne DEF n
<1>6. byRisk \in Nat
  <2>1. x.capital * x.riskPct \in Nat /\ 10000 * x.risk \in Nat \ {0}
    BY <1>1
  <2>2. (x.capital * x.riskPct) * x.multiplier \in Nat
    BY <2>1, <1>1
  <2>3. (x.capital * x.riskPct * x.multiplier) \div (10000 * x.risk) \in Nat
    BY <2>1, <2>2, Quotient
  <2> QED
    BY <2>3, LeastOne
<1>7. byVolume \subseteq Nat
  BY <1>1, LeastOne DEF VolumeCap
<1>8. CappedSize(x) = Min(all)
  BY DEF CappedSize, cap
<1> HIDE DEF byRisk, byShare, byVolume
<1>9. Min(all) \in all /\ Min(all) <= byShare
  <2>1. byShare \in Nat
    BY <1>4, <1>5
  <2>2. byVolume = {} \/ \E v \in Nat : byVolume = {v}
    BY <1>7 DEF byVolume
  <2>3. \E m \in all : \A y \in all : m =< y
    <3>1. CASE byVolume = {}
      BY <3>1, <2>1, <1>6
    <3>2. ASSUME NEW v \in Nat, byVolume = {v} PROVE \E m \in all : \A y \in all : m =< y
      <4>1. all = {byRisk, byShare, v}
        BY <3>2
      <4>2. CASE byRisk <= byShare /\ byRisk <= v
        BY <4>1, <4>2, <2>1, <1>6
      <4>3. CASE byShare <= byRisk /\ byShare <= v
        BY <4>1, <4>3, <2>1, <1>6
      <4>4. CASE v <= byRisk /\ v <= byShare
        BY <4>1, <4>4, <2>1, <1>6
      <4> QED
        BY <4>2, <4>3, <4>4, <3>2, <2>1, <1>6
    <3> QED
      BY <2>2, <3>1, <3>2
  <2> QED
    BY <2>3 DEF Min
<1>10. Min(all) \in Nat /\ (Min(all) <= 1 \/ Min(all) <= n)
  <2>1. byShare \in Nat /\ (byShare = 1 \/ byShare = n)
    BY <1>4, <1>5
  <2>2. Min(all) \in Nat
    BY <2>1, <1>6, <1>7, <1>9
  <2> HIDE DEF all
  <2> QED
    BY <2>1, <2>2, <1>9
<1>11. Min(all) <= n => Min(all) * x.entry <= n * x.entry
  BY <1>1, <1>4, <1>10
<1> QED
  BY <1>1, <1>3, <1>4, <1>8, <1>10, <1>11 DEF budget

LEMMA SizeIsWithin ==
    ASSUME NEW x \in SizeQuestions
    PROVE  \/ PositionSize(x) <= 1
           \/ 100 * PositionSize(x) * x.entry <= x.capital * x.capPct
<1>1. /\ x.capital \in Nat /\ x.entry \in Nat \ {0} /\ x.risk \in Int
      /\ x.capPct \in {10, 30} /\ x.commission \in {1, 6}
  BY DcAssumption DEF SizeQuestions
<1>2. CASE x.multiplier = 0 \/ x.risk <= 0
  BY <1>2 DEF PositionSize
<1>3. CASE ~(x.multiplier = 0 \/ x.risk <= 0)
  <2> DEFINE size == CappedSize(x)
             fee == WorthTheFee(x)
             budget == x.capital * x.capPct
  <2>1. size \in Nat /\ (size <= 1 \/ 100 * (size * x.entry) <= budget)
    BY <1>1, <1>3, CappedWithinCapital
  <2>2. fee \in Nat
    <3>1. 100 * x.commission + x.entry - 1 \in Nat
      BY <1>1
    <3> QED
      BY <1>1, <3>1, Quotient DEF WorthTheFee
  <2>3. PositionSize(x) = IF 100 * x.commission <= size * x.entry THEN size
                          ELSE IF 100 * fee * x.entry > budget THEN 0
                          ELSE Max({size, fee})
    BY <1>3 DEF PositionSize
  <2>4. budget \in Nat
    BY <1>1
  <2> HIDE DEF size, fee, budget
  <2>5. Max({size, fee}) \in {size, fee}
    <3>1. size \in Int /\ fee \in Int
      BY <2>1, <2>2
    <3> QED
      BY <3>1, MaxOfTwo
  <2>6. 100 * size * x.entry = 100 * (size * x.entry)
    BY <1>1, <2>1
  <2>7. PositionSize(x) \in {0, size} \/ (PositionSize(x) = fee /\ ~(100 * fee * x.entry > budget))
    BY <2>3, <2>5
  <2>8. 100 * fee * x.entry \in Nat
    BY <1>1, <2>2
  <2> QED
    BY <2>1, <2>2, <2>4, <2>6, <2>7, <2>8 DEF budget
<1> QED
  BY <1>2, <1>3

LEMMA GeometryIsOrdered ==
    ASSUME NEW x \in GeometryQuestions, x.pivot = 0, Geometry(x).pivot > 0
    PROVE  LET g == Geometry(x) IN g.stop > 0 /\ g.stop < g.pivot /\ g.pivot < g.target
<1> DEFINE pivot == IF x.high > 0 THEN x.high ELSE x.close
<1>1. x.high \in Nat /\ x.high % 25 = 0 /\ x.close \in Nat /\ x.close % 25 = 0 /\ x.atr \in Nat
  BY DcAssumption DEF GeometryQuestions
<1>2. Geometry(x) = [pivot |-> pivot, stop |-> FallbackStop(pivot, x.atr),
                     target |-> (pivot * 120) \div 100]
  BY DEF Geometry
<1>3. pivot \in Nat /\ pivot % 25 = 0 /\ pivot > 0
  BY <1>1, <1>2
<1> HIDE DEF pivot
<1>4. PICK k \in Nat : pivot = 25 * k /\ k >= 1
  <2>1. pivot = 25 * (pivot \div 25) + (pivot % 25) /\ pivot \div 25 \in Nat
    BY <1>3
  <2> QED
    BY <2>1, <1>3
<1>5. (pivot * 92) \div 100 = 23 * k /\ (pivot * 120) \div 100 = 30 * k
  BY <1>4
<1>6. FallbackStop(pivot, x.atr) > 0 /\ FallbackStop(pivot, x.atr) < pivot
  BY <1>1, <1>4, <1>5 DEF FallbackStop
<1> QED
  BY <1>2, <1>4, <1>5, <1>6

LEMMA AddOnsAreSmaller ==
    ASSUME NEW x \in AddOnQuestions
    PROVE  LET first == AddOnSize([x EXCEPT !.count = 0])
               second == AddOnSize([x EXCEPT !.count = 1, !.tenths = @ + first])
           IN  second <= first /\ (first > 10 => 2 * first <= x.tenths)
<1> DEFINE t == x.tenths
           f == AtLeastOne(t \div 20)
           s == AtLeastOne((((t + 10 * f) * 2) \div 3) \div 40)
           one == [x EXCEPT !.count = 0]
           first == AddOnSize(one)
           two == [x EXCEPT !.count = 1, !.tenths = @ + first]
<1>1. t \in {4, 10, 20, 30, 70, 150} /\ x.gain \in {0, 2, 5} /\ t \in Nat
  BY DEF AddOnQuestions
<1>2. one.count = 0 /\ one.tenths = t /\ one.gain = x.gain
  BY DEF AddOnQuestions
<1>3. first = IF x.gain < 2 THEN 0 ELSE 10 * f
  BY <1>1, <1>2 DEF AddOnSize, Tranche
<1>4. f \in Nat /\ (f = 1 \/ f = t \div 20) /\ f >= 1 /\ f >= t \div 20
  <2>1. t \div 20 \in Nat
    BY <1>1
  <2> QED
    BY <2>1, LeastOne
<1>5. two.count = 1 /\ two.tenths = t + first /\ two.gain = x.gain
  BY DEF AddOnQuestions
<1> HIDE DEF one, two, first, f, t
<1>6. AddOnSize(two) = IF x.gain < 2 THEN 0 ELSE 10 * s
  BY <1>1, <1>3, <1>5 DEF AddOnSize, Tranche
<1>7. s <= f
  <2> DEFINE q == (((t + 10 * f) * 2) \div 3) \div 40
  <2>1. q \in Nat /\ q <= f
    BY <1>1, <1>4
  <2> HIDE DEF q
  <2>2. AtLeastOne(q) \in {1, q}
    BY <2>1, LeastOne
  <2> QED
    BY <2>1, <2>2, <1>4 DEF q
<1>8. s \in Int
  <2> DEFINE q == (((t + 10 * f) * 2) \div 3) \div 40
  <2>1. q \in Nat
    BY <1>1, <1>4
  <2> QED
    BY <2>1, LeastOne
<1> HIDE DEF s
<1>9. AddOnSize(two) <= first
  BY <1>1, <1>3, <1>4, <1>6, <1>7, <1>8
<1>10. first > 10 => 2 * first <= t
  BY <1>1, <1>3, <1>4
<1> QED
  BY <1>9, <1>10 DEF two, first, one, t

\* The size of an entry, the levels of its plan and its add-ons, for any
\* capital, prices, risks and volumes.
THEOREM PlansAreSound == DcSpec => []PlanIsSound
<1>1. DcQuestion => PlanIsSound
  BY SizeIsWithin, GeometryIsOrdered, AddOnsAreSmaller
     DEF DcQuestion, PlanIsSound, SizeWithinCapital, GeometryOrdered, AddOnsShrink
<1> QED
  BY <1>1, DcAsked, PTL

-----------------------------------------------------------------------------
(* The replay of a ticker.                                                 *)

BtTrade == [entered : Nat, entry : Nat, qty : Nat, left : Nat, exit : Nat,
            why : {"stop", "rule", "end"}]

LEMMA TradesAreTyped ==
    ASSUME NEW s \in Seq(BtTrade), NEW i \in 1..Len(s)
    PROVE  s[i] \in BtTrade /\ s[i].left \in Nat /\ s[i].entered \in Nat
<1>1. s[i] \in BtTrade
  OBVIOUS
<1> QED
  BY <1>1 DEF BtTrade

\* Prices are numbers.
LEMMA PricesAreNumbers == \A p \in BtPrices : p \in Nat /\ p \in Int
BY BtAssumption

\* The clock and the bar of the day, and a signal of a day that is past.
ReplayTyped ==
    /\ btDay \in 0..BtDays
    /\ btBar \in BtBars
    /\ \/ btSignal = NoSignal
       \/ btSignal \in [day : 1..btDay, pivot : BtPrices, stop : BtPrices]
            /\ btSignal.stop < btSignal.pivot

\* A position was opened on a day that is past, above its stop and within the
\* risk, and after the last trade ended.
PositionOfReplay ==
    \/ btPosition = NoPosition
    \/ /\ btPosition \in [day : 1..btDay, entry : BtPrices, stop : BtPrices, qty : Nat \ {0}]
       /\ btPosition.entry > btPosition.stop
       /\ LossWithinRisk
       /\ \A i \in 1..Len(btTrades) : btTrades[i].left < btPosition.day

TradesOfReplay ==
    /\ btTrades \in Seq(BtTrade)
    /\ \A i \in 1..Len(btTrades) : btTrades[i].left <= btDay
    /\ TradesDoNotOverlap

ReplayInv == ReplayTyped /\ PositionOfReplay /\ TradesOfReplay

LEMMA ReplayInit == BtInit => ReplayInv
<1> SUFFICES ASSUME BtInit PROVE ReplayInv
  OBVIOUS
<1>1. ReplayTyped /\ PositionOfReplay
  BY BtAssumption DEF BtInit, ReplayTyped, PositionOfReplay
<1>2. btTrades = <<>> /\ btDay = 0
  BY DEF BtInit
<1>3. TradesOfReplay
  BY <1>2 DEF TradesOfReplay, TradesDoNotOverlap
<1> QED
  BY <1>1, <1>3 DEF ReplayInv

\* A day that passes: the clock goes forward, and what was found stays past.
LEMMA DayPasses ==
    ASSUME ReplayTyped, NextDay
    PROVE  /\ btDay' \in 1..BtDays /\ btDay < btDay' /\ btBar' \in BtBars
           /\ btDay \in Nat
           /\ btBar'.open \in BtPrices /\ btBar'.close \in BtPrices
           /\ btBar'.low \in BtPrices /\ btBar'.high \in BtPrices
           /\ btBar'.low <= btBar'.open /\ btBar'.open <= btBar'.high
           /\ btBar'.low <= btBar'.close /\ btBar'.close <= btBar'.high
<1>1. btBar' \in BtBars /\ btDay' \in {btDay + 1, btDay + 3} /\ btDay' <= BtDays
  BY DEF NextDay
<1> QED
  BY <1>1, BtAssumption DEF ReplayTyped, BtBars

\* A trade that is booked comes after those before it.
LEMMA TradeBooked ==
    ASSUME ReplayInv, btPosition # NoPosition,
           NEW price \in Nat, NEW why \in {"stop", "rule", "end"},
           NEW day \in Nat, btDay' = day, day >= btDay,
           day > btDay \/ why = "end",
           btTrades' = Append(btTrades, [entered |-> btPosition.day, entry |-> btPosition.entry,
                                         qty |-> btPosition.qty, left |-> day,
                                         exit |-> price, why |-> why])
    PROVE  TradesOfReplay' /\ Last(btTrades').exit = price
<1> DEFINE t == [entered |-> btPosition.day, entry |-> btPosition.entry,
                 qty |-> btPosition.qty, left |-> day, exit |-> price, why |-> why]
           n == Len(btTrades)
<1>1. /\ btPosition \in [day : 1..btDay, entry : BtPrices, stop : BtPrices, qty : Nat \ {0}]
      /\ \A i \in 1..n : btTrades[i].left < btPosition.day
      /\ btDay \in Nat /\ btTrades \in Seq(BtTrade) /\ BtPrices \subseteq Nat
  BY BtAssumption DEF ReplayInv, PositionOfReplay, ReplayTyped, TradesOfReplay
<1>2. t \in BtTrade
  <2>1. btPosition.day \in 1..btDay /\ btPosition.entry \in BtPrices /\ btPosition.qty \in Nat
    BY <1>1
  <2>2. btPosition.day \in Nat
    BY <2>1, <1>1
  <2>3. btPosition.entry \in Nat
    BY <2>1, PricesAreNumbers
  <2> QED
    BY <2>1, <2>2, <2>3 DEF BtTrade
<1>3. /\ btTrades' = Append(btTrades, t) /\ btTrades' \in Seq(BtTrade)
      /\ n \in Nat /\ Len(btTrades') = n + 1 /\ btTrades'[n + 1] = t
      /\ \A i \in 1..n : btTrades'[i] = btTrades[i]
  BY <1>1, <1>2
<1> HIDE DEF t, n
<1>4. \A i \in 1..n : btTrades[i].left \in Nat /\ btTrades[i].left <= btDay
  BY <1>1, TradesAreTyped DEF ReplayInv, TradesOfReplay, n
<1>5. t.left = day /\ t.exit = price /\ t.entered = btPosition.day /\ t.why = why
  BY DEF t
<1>6. btTrades'[Len(btTrades')] = t
  BY <1>3
<1>7. \A i \in 1..Len(btTrades') : btTrades'[i].left <= btDay'
  <2> TAKE i \in 1..Len(btTrades')
  <2>1. CASE i = n + 1
    BY <2>1, <1>3, <1>5
  <2>2. CASE i \in 1..n
    BY <2>2, <1>1, <1>3, <1>4
  <2> QED
    BY <2>1, <2>2, <1>3
<1>8. TradesDoNotOverlap'
  <2> SUFFICES ASSUME NEW i \in 1..Len(btTrades')
               PROVE  /\ btTrades'[i].entered < btTrades'[i].left \/ btTrades'[i].why = "end"
                      /\ i > 1 => btTrades'[i - 1].left < btTrades'[i].entered
    BY DEF TradesDoNotOverlap
  <2>1. CASE i = n + 1
    <3>1. i > 1 => i - 1 \in 1..n
      BY <2>1, <1>3
    <3>2. i > 1 => btTrades'[i - 1] = btTrades[i - 1] /\ btTrades[i - 1].left < btPosition.day
      BY <3>1, <1>1, <1>3
    <3>3. btPosition.day \in Nat /\ btPosition.day <= btDay
      BY <1>1
    <3> QED
      BY <3>2, <3>3, <2>1, <1>1, <1>3, <1>5
  <2>2. CASE i \in 1..n
    <3>1. i > 1 => i - 1 \in 1..n
      BY <2>2, <1>3
    <3> QED
      BY <3>1, <2>2, <1>3 DEF ReplayInv, TradesOfReplay, TradesDoNotOverlap, n
  <2> QED
    BY <2>1, <2>2, <1>3
<1> QED
  BY <1>3, <1>5, <1>6, <1>7, <1>8 DEF TradesOfReplay, Last

\* What a signal is bought for: at least its pivot and the opening, above its
\* stop, and no more than the risk allows.
LEMMA BoughtWithinRisk ==
    ASSUME NEW pivot \in BtPrices, NEW stop \in BtPrices, NEW open \in BtPrices,
           stop < pivot, NEW signal, signal.stop = stop
    PROVE  LET price == Max({pivot, open})
               qty == QtyOf(price, signal)
           IN  /\ price \in {pivot, open} /\ price >= pivot /\ price >= open
               /\ qty \in Nat \ {0}
               /\ qty > 1 => qty * (price - stop) <= BtRisk
<1>1. pivot \in Nat /\ stop \in Nat /\ open \in Nat /\ BtRisk \in Nat
  BY BtAssumption
<1> DEFINE price == Max({pivot, open})
           risk == price - stop
           n == BtRisk \div risk
<1>2. price \in {pivot, open} /\ price >= pivot /\ price >= open
  BY <1>1, MaxOfTwo
<1>3. price \in Nat /\ risk \in Nat \ {0} /\ price > signal.stop
  BY <1>1, <1>2
<1>4. QtyOf(price, signal) = Max({1, n})
  BY <1>3 DEF QtyOf
<1> HIDE DEF price, risk
<1>5. n \in Nat /\ n * risk <= BtRisk
  BY <1>1, <1>3, Quotient
<1> HIDE DEF n
<1>6. Max({1, n}) \in {1, n} /\ Max({1, n}) >= 1
  BY <1>5, MaxOfTwo
<1>7. QtyOf(price, signal) \in Nat \ {0}
  BY <1>4, <1>5, <1>6
<1>8. QtyOf(price, signal) > 1 => QtyOf(price, signal) * risk <= BtRisk
  BY <1>4, <1>5, <1>6
<1> QED
  BY <1>2, <1>7, <1>8 DEF price, risk

\* A position that is held keeps what it was.
LEMMA PositionHeld ==
    ASSUME ReplayInv, UNCHANGED <<btPosition, btTrades>>, btDay' \in Nat, btDay' >= btDay
    PROVE  PositionOfReplay' /\ TradesOfReplay'
<1>1. btDay \in Nat
  BY BtAssumption DEF ReplayInv, ReplayTyped
<1>2. PositionOfReplay'
  BY <1>1 DEF ReplayInv, PositionOfReplay, LossWithinRisk
<1>3. \A i \in 1..Len(btTrades) : btTrades[i].left \in Nat
  BY TradesAreTyped DEF ReplayInv, TradesOfReplay
<1>4. TradesOfReplay'
  BY <1>1, <1>3 DEF ReplayInv, TradesOfReplay, TradesDoNotOverlap
<1> QED
  BY <1>2, <1>4

LEMMA ReplayStep ==
    ReplayInv /\ [BtNext]_btVars => ReplayInv' /\ (FillsAreTraded \/ UNCHANGED btVars)
<1> SUFFICES ASSUME ReplayInv, [BtNext]_btVars
             PROVE  ReplayInv' /\ (FillsAreTraded \/ UNCHANGED btVars)
  OBVIOUS
<1>a. BtPrices \subseteq Nat \ {0} /\ BtDays \in Nat
  BY BtAssumption
<1>b. ReplayTyped
  BY DEF ReplayInv
<1>c. LossWithinRisk /\ ReplayTyped' /\ PositionOfReplay' /\ TradesOfReplay' => ReplayInv'
  BY DEF ReplayInv
<1>1. ASSUME NextDay, btPosition # NoPosition, btPosition' = NoPosition, btSignal' = NoSignal,
             NEW price \in Nat, NEW why \in {"stop", "rule"}, btTrades' = Sold(price, why),
             price \in btBar'.low..btBar'.high
      PROVE  ReplayInv' /\ FillsAreTraded
  <2>1. TradesOfReplay' /\ Last(btTrades').exit = price
    BY <1>1, <1>b, DayPasses, TradeBooked DEF Sold
  <2>2. ReplayTyped' /\ PositionOfReplay'
    BY <1>1, <1>b, DayPasses DEF ReplayTyped, PositionOfReplay
  <2> QED
    BY <2>1, <2>2, <1>1 DEF ReplayInv, FillsAreTraded
<1>2. CASE StopHit
  <2>1. btPosition.stop \in BtPrices
    BY <1>2 DEF StopHit, ReplayInv, PositionOfReplay
  <2>2. NextDay /\ btBar'.low <= btPosition.stop
    BY <1>2 DEF StopHit
  <2>3. /\ btBar'.low \in Nat /\ btBar'.open \in Nat /\ btBar'.high \in Nat
        /\ btBar'.low <= btBar'.open /\ btBar'.open <= btBar'.high
    BY <2>2, <1>a, <1>b, DayPasses
  <2>4. /\ StopFill(btPosition.stop, btBar'.open) \in {btPosition.stop, btBar'.open}
        /\ StopFill(btPosition.stop, btBar'.open) <= btBar'.open
    <3>1. btPosition.stop \in Int /\ btBar'.open \in Int
      BY <2>1, <2>3, PricesAreNumbers
    <3> QED
      BY <3>1, MinOfTwo DEF StopFill
  <2>5. /\ StopFill(btPosition.stop, btBar'.open) \in Nat
        /\ StopFill(btPosition.stop, btBar'.open) \in btBar'.low..btBar'.high
    BY <2>1, <2>2, <2>3, <2>4, PricesAreNumbers
  <2> QED
    BY <2>5, <1>1, <1>2 DEF StopHit
<1>3. CASE RuleSells
  <2>1. NextDay
    BY <1>3 DEF RuleSells
  <2>2. btBar'.close \in Nat /\ btBar'.close \in btBar'.low..btBar'.high
    BY <2>1, <1>b, PricesAreNumbers, DayPasses
  <2> QED
    BY <2>2, <1>1, <1>3 DEF RuleSells
<1>4. CASE Hold
  <2>1. NextDay
    BY <1>4 DEF Hold
  <2>2. btDay' \in Nat /\ btDay' >= btDay /\ UNCHANGED <<btSignal, btPosition, btTrades>>
    BY <2>1, <1>4, <1>b, DayPasses DEF Hold
  <2>3. ReplayTyped'
    BY <2>1, <2>2, <1>b, DayPasses DEF ReplayTyped
  <2> QED
    BY <2>2, <2>3, PositionHeld DEF ReplayInv, FillsAreTraded
<1>5. CASE Enter
  <2>1. NextDay /\ btSignal # NoSignal /\ btSignal' = NoSignal /\ UNCHANGED btTrades
    BY <1>5 DEF Enter
  <2> DEFINE price == Max({btSignal.pivot, btBar'.open})
             qty == QtyOf(price, btSignal)
  <2>2. btPosition' = [day |-> btDay', entry |-> price, stop |-> btSignal.stop, qty |-> qty]
    BY <1>5 DEF Enter
  <2>3. btSignal.pivot \in BtPrices /\ btSignal.stop \in BtPrices /\ btSignal.stop < btSignal.pivot
    BY <2>1, <1>b DEF ReplayTyped
  <2>4. btBar'.open \in BtPrices /\ btBar'.low <= btBar'.open /\ btBar'.open <= btBar'.high
    BY <2>1, <1>b, DayPasses
  <2>5. /\ price \in {btSignal.pivot, btBar'.open} /\ price >= btSignal.pivot /\ price >= btBar'.open
        /\ qty \in Nat \ {0} /\ (qty > 1 => qty * (price - btSignal.stop) <= BtRisk)
    BY <2>3, <2>4, BoughtWithinRisk
  <2> HIDE DEF price, qty
  <2>6. btDay' \in 1..BtDays /\ btDay < btDay' /\ btDay \in Nat
    BY <2>1, <1>b, DayPasses
  <2>7. ReplayTyped'
    BY <2>1, <1>b, DayPasses DEF ReplayTyped
  <2>8. \A i \in 1..Len(btTrades) : btTrades[i].left \in Nat /\ btTrades[i].left <= btDay
    BY TradesAreTyped DEF ReplayInv, TradesOfReplay
  <2>9. TradesOfReplay'
    BY <2>1, <2>6, <2>8 DEF ReplayInv, TradesOfReplay, TradesDoNotOverlap
  <2>10. PositionOfReplay'
    <3>1. btPosition' \in [day : 1..btDay', entry : BtPrices, stop : BtPrices, qty : Nat \ {0}]
      BY <2>2, <2>3, <2>4, <2>5, <2>6, <1>a
    <3>2. price > btSignal.stop
      BY <2>3, <2>4, <2>5, PricesAreNumbers
    <3>3. LossWithinRisk'
      BY <2>2, <2>5 DEF LossWithinRisk
    <3>4. \A i \in 1..Len(btTrades') : btTrades'[i].left < btPosition'.day
      BY <2>1, <2>2, <2>6, <2>8
    <3> QED
      BY <2>2, <3>1, <3>2, <3>3, <3>4 DEF PositionOfReplay
  <2>11. FillsAreTraded
    <3>1. "price" \in btOn => btBar'.close >= btSignal.pivot
      BY <1>5 DEF Enter, Breakout
    <3>2. btBar'.low \in Nat /\ btBar'.high \in Nat /\ btBar'.close \in Nat /\ btBar'.close <= btBar'.high
      BY <2>1, <1>a, <1>b, DayPasses
    <3>3. "price" \in btOn => price \in btBar'.low..btBar'.high
      BY <3>1, <3>2, <2>3, <2>4, <2>5, PricesAreNumbers
    <3> QED
      BY <3>3, <2>1, <2>2 DEF FillsAreTraded
  <2> QED
    BY <2>7, <2>9, <2>10, <2>11 DEF ReplayInv
<1>6. CASE Wait
  <2>1. NextDay /\ UNCHANGED <<btPosition, btTrades>> /\ btSignal' \in {NoSignal, btSignal}
    BY <1>6 DEF Wait
  <2>2. ReplayTyped' /\ btDay' \in Nat /\ btDay' >= btDay
    BY <2>1, <1>b, DayPasses DEF ReplayTyped
  <2> QED
    BY <2>1, <2>2, PositionHeld DEF ReplayInv, FillsAreTraded
<1>7. CASE LookForPattern
  <2>1. NextDay /\ UNCHANGED <<btPosition, btTrades>>
    BY <1>7 DEF LookForPattern
  <2>2. btDay' \in 1..BtDays /\ btDay' >= btDay /\ btBar' \in BtBars
    BY <2>1, <1>b, DayPasses
  <2>3. ReplayTyped'
    <3>1. CASE UNCHANGED btSignal
      BY <3>1, <2>1, <1>b, DayPasses DEF ReplayTyped
    <3>2. CASE ~UNCHANGED btSignal
      <4>1. PICK pivot \in BtPrices, stop \in BtPrices :
               stop < pivot /\ btSignal' = [day |-> btDay', pivot |-> pivot, stop |-> stop]
        BY <3>2, <1>7 DEF LookForPattern
      <4> QED
        BY <4>1, <2>2 DEF ReplayTyped
    <3> QED
      BY <3>1, <3>2
  <2> QED
    BY <2>1, <2>2, <2>3, PositionHeld DEF ReplayInv, FillsAreTraded
<1>8. CASE EndOfTest
  <2>1. /\ btPosition # NoPosition /\ btPosition' = NoPosition
        /\ UNCHANGED <<btDay, btBar, btSignal>>
    BY <1>8 DEF EndOfTest
  <2>2. /\ btBar.close \in Nat /\ btBar.close \in btBar.low..btBar.high /\ btDay \in Nat
    <3>1. btBar \in BtBars /\ btDay \in Nat
      BY <1>a, <1>b DEF ReplayTyped
    <3>2. /\ btBar.close \in BtPrices /\ btBar.low \in BtPrices /\ btBar.high \in BtPrices
          /\ btBar.low <= btBar.close /\ btBar.close <= btBar.high
      BY <3>1 DEF BtBars
    <3> QED
      BY <3>1, <3>2, PricesAreNumbers
  <2>3. TradesOfReplay' /\ Last(btTrades').exit = btBar.close
    BY <1>8, <2>1, <2>2, TradeBooked DEF EndOfTest
  <2>4. ReplayTyped' /\ PositionOfReplay'
    BY <2>1, <1>b DEF ReplayTyped, PositionOfReplay
  <2> QED
    BY <2>1, <2>2, <2>3, <2>4 DEF ReplayInv, FillsAreTraded
<1>9. CASE UNCHANGED btVars
  BY <1>9 DEF btVars, ReplayInv, ReplayTyped, PositionOfReplay, TradesOfReplay,
              LossWithinRisk, TradesDoNotOverlap
<1> QED
  BY <1>2, <1>3, <1>4, <1>5, <1>6, <1>7, <1>8, <1>9 DEF BtNext

\* What the replay books could have been traded, for any prices, days and
\* settings: at a price of the day, one position at a time, within the risk.
THEOREM ReplayCouldBeTraded == BtSpec => ReplayIsSound
<1>1. ReplayInv => LossWithinRisk /\ TradesDoNotOverlap
  <2>1. btPosition = NoPosition => LossWithinRisk
    BY DEF NoPosition, LossWithinRisk
  <2> QED
    BY <2>1 DEF ReplayInv, PositionOfReplay, TradesOfReplay
<1>2. ReplayInv /\ [BtNext]_btVars
        => ReplayInv' /\ [FillsAreTraded /\ TradesDoNotOverlap' /\ LossWithinRisk']_btVars
  <2> SUFFICES ASSUME ReplayInv, [BtNext]_btVars
               PROVE  ReplayInv' /\ [FillsAreTraded /\ TradesDoNotOverlap' /\ LossWithinRisk']_btVars
    OBVIOUS
  <2>1. ReplayInv' /\ (FillsAreTraded \/ UNCHANGED btVars)
    BY ReplayStep
  <2>2. ReplayInv' => LossWithinRisk' /\ TradesDoNotOverlap'
    BY <1>1, PTL
  <2> QED
    BY <2>1, <2>2
<1> QED
  BY <1>2, ReplayInit, PTL DEF BtSpec, ReplayIsSound
=============================================================================
