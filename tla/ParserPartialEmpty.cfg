SPECIFICATION SystemSpec
CONSTANTS
    Counts <- MCCounts
    Sizes <- MCSizes
    Interval = 2
    Horizon = 2
    MaxTime = 3
    MaxEvents = 1
    MaxFails = 0
    Instants = {0}
    Clocks = {}
    Sides = {}
    Fighters = {}
    MaxHp = 1
    MaxMinions = 0
    KillLists = {}
    Crews = {}
    Golds = {}
    Leads = {}
    ObjectiveEvents = {}
    PlayerEvents = {}
    Encounters = {}
    Progress = {}
    Models = {}
    MaxMade = 0
    One = 100000
    Points = {}
    WardLists = {}
    Prospects = {}
    SnapTimes = {}
    EventTimes = {}
    MaxGap = 2
    MaxPage = 1
    MaxRecords = 0
INVARIANT PartialHasTimeline
CHECK_DEADLOCK FALSE
