CONSTANTS
    tutorial = tutorial
    story = story
    Absent = Absent
    GuideKey = {tutorial, story}
    FixtureBase <- MCBase
    FixtureBag <- MCBag
    HeroFrame <- MCHeroFrame
    HeroSeed <- MCHeroes
    StartupFrame <- MCStartupFrame
    Uid = 300
    LegacyDocument <- MCLegacy
    LegacyDiamond = {132}
    CapturedBase <- MCCapturedBase
    Reward <- MCReward
    HeroId = {10001, 10002}
    LevelNum = 2
    Lineup <- MCLineup
    Quantity = 6
    MaxVersion = 3
SPECIFICATION Spec
CHECK_DEADLOCK FALSE
INVARIANTS
    TypeOK
    StartupShowsState
    ReadingIsStable
PROPERTIES
    MergeIsNarrow
    DiamondsStayInStep
