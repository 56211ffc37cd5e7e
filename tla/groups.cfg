SPECIFICATION Spec
CONSTANTS
  p1 = p1
  p2 = p2
  p3 = p3
  Pids <- MCPids
  Infos <- MCInfos
  UidName <- MCUidName
  EnvName <- MCEnvName
  Texts <- MCTexts
  NoText = NoText
  Filters <- MCFilters
  Names <- MCNames
  Invalid = invalid
  Tokens <- MCTokens
  Wide <- MCWide
  Numbers <- MCNumbers
  Attributes <- MCAttributes
  Family <- MCFamily
  New <- MCNew
  Height <- MCHeight
  Asked <- MCAsked
  Lists <- MCLists
  Scans <- MCScans
  Other = Other
INVARIANTS
  Partitioned
  ListsFaithful
  FirstMatch
  UssExact
  ReportsInOrder
PROPERTIES
  AnswersMeant
  AllShown
