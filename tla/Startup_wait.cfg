SPECIFICATION FairSpec
CONSTANTS
  pg = pg
  mysql = mysql
  odd = odd
  mongo = mongo
  Sql = {pg, mysql, odd}
  Mongo = {mongo}
  BadMetadata = {odd}
  MaxPings <- TwentyPings
  None = None
  other = other
  Alias = {pg, mysql, odd, mongo, other}
  Schema = {"s1", "s2"}
  Entity = {"t", "u", "v", "c", "n", "o", "e"}
  Kind = {"postgres", "mysql", "mongo"}
  KindOf <- MCKindOf
  Operator = {"eq", "abs", "len"}
  Text = {"default", "custom", "one", "two"}
  Defaults <- MCDefaults
  Configs <- MCConfigs
INVARIANTS
  TypeOK
  SqlAnswered
  NamesHaveOneMeaning
  AritiesAgree
  AgreeingFilesServed
PROPERTY
  StartupEnds
