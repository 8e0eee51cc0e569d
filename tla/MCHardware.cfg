SPECIFICATION Spec
CONSTANTS
    Width = 8
    Base = 2
    Places = 2
    FloatBits = 5
    FloatExp = 5
    EnumValues <- MCEnums
    Scripts <- MCScripts
    FnOf <- MCFnOf
    Resolves <- MCResolves
    Symbols <- MCSymbols
    EnumMembers = {"Mode.On"}
    Anchored = {}
    Catalogue <- MCCatalogue
    CanModel <- MCCanModel
    Body <- MCBody
    Worlds <- MCWorlds
    Startup = {"boot"}
    Every <- MCEvery
    MaxTick = 2
INVARIANTS
  ElapsedSpansExecutions
  TraceAccountsForAnswers
  ReportHolds
CHECK_DEADLOCK FALSE
