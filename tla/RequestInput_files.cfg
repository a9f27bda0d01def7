SPECIFICATION InputSpec
CONSTANTS
  Mapping <- RIMapping
  Path <- RIPath
  Method <- RIMethod
  Param = {"author"}
  Letter <- RILetter
  Finds <- RIFinds
  Methods <- RIMethods
  Queries <- RIQueries
  Length <- RILength
  Unparsable = {"broken"}
  Letters <- RILetters
  Last <- RILast
  Names <- RINames
  Key = {"path", "method", "queries", "uri", "verb"}
  Value <- RIValue
  None = None
  Text <- RIText
  Segments <- RISegments
  Parameters <- RIParameters
  UrlOf <- RIUrlOf
  MethodOf <- RIMethodOf
  Header = {"uri", "verb"}
  HeaderConfigs <- RIHeaderConfigs
  Bodies <- RIBodies
INVARIANTS
  InputTypeOK
  OneMostImportant
  DescribedIsFound
  HeadersWin
  PoliciesSeeMapped
  NamedIsMapped
CHECK_DEADLOCK FALSE
