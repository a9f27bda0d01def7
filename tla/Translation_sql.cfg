SPECIFICATION Spec
CONSTANTS
  Datastore = {"pg", "my", "no"}
  Pool = {"pg", "my"}
  Table = {"t", "u", "w"}
  Schema = {"t", "u"}
  Collection = {"t", "w"}
  Name <- MCName
  Nested <- MCNested
  Column = {"a"}
  Iterator = {"i", "j", "k"}
  LocalVar = {"x"}
  Value = {0, 1, 2, 3}
  Sent <- MCSent
  Quoted <- MCQuoted
  Queries <- MCQueries
  Databases <- MCDatabases
  Collections <- MCCollections
  None = None
CHECK_DEADLOCK FALSE
INVARIANTS
  TypeOK
  AnswersQuery
  NothingMissed
  DocumentsAnswered
  DocumentsNotMissed
  MixturesRefused
