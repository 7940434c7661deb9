SPECIFICATION FairSystemSpec
CONSTANTS
    Counts <- MCCounts
    Sizes <- MCSizes
    Interval = 2
    Horizon = 7
    MaxTime = 3
    MaxEvents = 2
    MaxFails = 1
    Instants = {0, 1, 2, 3, 4, 5, 6, 7}
    Clocks <- MCClocks
    Sides <- MCSides
    Fighters <- MCFighters
    MaxHp = 6
    MaxMinions = 2
    KillLists <- MCKillLists
    Crews <- MCCrews
    Golds <- MCGolds
    Leads <- MCLeads
    ObjectiveEvents <- MCObjectiveEvents
    PlayerEvents <- MCPlayerEvents
    Encounters <- MCEncounters
    Progress <- MCProgress
    Models <- MCModels
    MaxMade = 3
    One = 100000
    Points <- MCPoints
    WardLists <- MCWardLists
    Prospects <- MCProspects
    SnapTimes <- MCSnapTimes
    EventTimes <- MCEventTimes
    MaxGap = 2
    MaxPage = 2
    MaxRecords = 5
INVARIANTS
    TypeOK
    SourcesExhausted
    IntentsAreJudged
    ReadsAreMonotone
    EveryKillCounted
    BaronShownWhileItLasts
    LookupsAgree
    SamplesAreNear
    ValidMeansCovered
    FightsAreSeenBefore
    WavesAreMirrored
    OpponentsAgree
    WastefulIffWaveLost
    FightsAreDecided
    WindowsHaveVerdicts
    ScalingMatchesPhases
    LeadsNeverHurt
    RecommendedIsNotBlamed
    OwnKillsAreSeen
    DangerIsTakenForAttack
    OneBaronWindowPerPeriod
    MistakesMoveFrequencies
    OwnWardsOnlyHelp
    AutoDecodes
    PagingSkipsNothing
PROPERTIES
    ImplementsPipelineContract
    AnalysisCompletes
CHECK_DEADLOCK FALSE
