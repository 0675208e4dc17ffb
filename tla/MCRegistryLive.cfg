\* Locks and the pool under fairness: three clients and two connections, so that
\* one may hold a lock, another wait for it with the last connection and a third
\* wait for the pool; two versions, so that two may create, and one create while
\* others publish and bind.  Nothing else varies: one configuration, one text.
\* No symmetry: a temporal property is checked.
CONSTANTS
  k1 = k1  e1 = e1  e2 = e2  c1 = c1  c2 = c2  c3 = c3
  good = good  bad = bad  t1 = t1  t2 = t2  odd = odd
  None = None
  AgentKeys <- Keys1
  Environments <- Envs1
  Clients <- Clients3
  Bodies <- OneBody
  Runnable <- OneBody
  Texts <- OneText
  Usable <- OneText
  HasVersions = FALSE
  Authored <- OneLabel
  Archives <- NoHistory
  PoolSize = 2
  MaxVersion = 2
SPECIFICATION FairSpec
PROPERTY OperationsEnd
