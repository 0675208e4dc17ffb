\* Definitions whose author wrote the prompt snapshot: is what publication
\* accepts always able to instruct an agent?
CONSTANTS
  k1 = k1  e1 = e1  e2 = e2  c1 = c1  c2 = c2  c3 = c3
  good = good  bad = bad  t1 = t1  t2 = t2  odd = odd
  None = None
  AgentKeys <- Keys1
  Environments <- Envs1
  Clients <- Clients2
  Bodies <- OneBody
  Runnable <- OneBody
  Texts <- TextsWithOdd
  Usable <- OneText
  HasVersions = FALSE
  Authored <- AuthoredFixed
  Archives <- NoHistory
  PoolSize = 2
  MaxVersion = 2
SPECIFICATION Spec
SYMMETRY ClientSymmetry
INVARIANTS PublishedIsUsable
