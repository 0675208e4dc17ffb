\* Two runs asking one question, two local writers and another process, two
\* promotions, with the fairness of the loop and the database.
CONSTANTS
  a1 = a1  prod = prod  w1 = w1  w2 = w2
  r1 = r1  r2 = r2  r3 = r3
  None = None
  Agents <- Agents1
  Environments <- Envs1
  Runs <- Runs2
  Writers <- Writers2
  MaxWrites = 2
SPECIFICATION FairSpec
INVARIANTS TypeOK LocalPromotionIsSeen NothingIsKept OneQueryPerQuestion EditsStayPrivate
PROPERTIES KeepsTheLookupPromise QueriesOutliveRuns LookupsEnd
