SPECIFICATION Spec
CONSTANTS
    Width = 3
    Base = 2
    Places = 1
    FloatBits = 3
    FloatExp = 2
    EnumValues <- MCEnumValues
    Functions = {"main", "other", "f", "g"}
    Scheduled = {"main", "other"}
    Signatures <- MCSignatures
    Channels <- MCChannels
    MemberNames <- MCMemberNames
    Programs <- MCPrograms
    Expressions <- MCExpressions
    Statements <- MCStatements
    DefaultUnseeded = TRUE
    MaxCallDepth = 2
    MaxRuns = 3
PROPERTIES
  CallsAreLexical
  SlotsKeepTheirFamily
  EvaluationEnds
CHECK_DEADLOCK FALSE
