SPECIFICATION OfflineSpec
CONSTANTS
    Width = 6
    Base = 2
    Places = 2
    FloatBits = 5
    FloatExp = 5
    EnumValues <- MCEnumValues
    Whole = TRUE
    Symbols <- MCSymbols
    Rules <- MCRules
    Operands <- MCOperands
    Bare <- MCBare
    Files <- MCFiles
    Props <- MCProps
    Points <- MCPoints
    Dates <- MCDates
    Stamps <- MCStamps
    Zones <- MCZones
    MaxStored = 1
    RateUnit = 2
    MaxBase = 60
    CanonOf <- MCCanonOf
    FamilyOf <- MCFamilyOf
    Cones <- MCCones
    Bases <- MCBases
    Schedules <- MCSchedules
    Durations <- MCDurations
    Scenarios <- MCScenarios
    Replays <- MCReplays
    MaxTick = 9
INVARIANTS
  WordsAreExact
  OrderIsCoherent
  ConversionsHold
  ObjectsAgree
  TableFollowsCells
  CalendarIsInvertible
  GridIsExact
  SourcesTakePrecedence
  DiffExplainsReplay
