SPECIFICATION Spec
CONSTANTS
  pg = pg
  mongo = mongo
  odd = odd
  other = other
  lost = lost
  sql = sql
  c1 = c1
  c2 = c2
  raw = raw
  p = p
  q = q
  bad = bad
  Mapping <- AnyMapping
  Of <- Owner
  Datastore = {pg, mongo, odd}
  Policy = {p, q, bad, other}
  Query = {sql, c1, c2, raw, lost}
  Sql = {pg, odd}
  Broken = {odd}
  Invalid = {raw}
  Residue <- FourPolicies
  DryRun = FALSE
INVARIANTS
  TypeOK
  AllowsJustified
  DenialsJustified
PROPERTY
  SteadyAnswers
