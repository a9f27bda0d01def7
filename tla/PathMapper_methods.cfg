SPECIFICATION Spec
CONSTANTS
  Mapping <- MCMapping
  Path <- MCPath
  Method <- MCMethod
  Param = {"author", "page"}
  Letter <- MCLetter
  Finds <- MCFinds
  Methods <- MCMethods
  Queries <- MCQueries
  Length <- MCLength
  Unparsable = {"broken"}
  Letters <- MCLetters
  Last <- MCLast
  Names <- MCNames
INVARIANT
  MethodsRespected
CHECK_DEADLOCK FALSE
