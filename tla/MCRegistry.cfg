\* Three clients on two connections, every operation, an author moving the label:
\* the safety properties of the registry, and that it keeps RegistryPromise.
CONSTANTS
  k1 = k1  e1 = e1  e2 = e2  c1 = c1  c2 = c2  c3 = c3
  good = good  bad = bad  t1 = t1  t2 = t2  odd = odd
  None = None
  AgentKeys <- Keys1
  Environments <- Envs1
  Clients <- Clients3
  Bodies <- AllBodies
  Runnable <- OneBody
  Texts <- TextsAndOdd
  Usable <- AllTexts
  HasVersions = TRUE
  Authored <- AuthoredLabel
  Archives <- OldHistory
  PoolSize = 2
  MaxVersion = 2
SPECIFICATION Spec
SYMMETRY ClientSymmetry
INVARIANTS TypeOK LiveIsARelease DraftsNeverCollide
PROPERTIES PublishedNeverChanges ReleaseShipsItsOwn KeepsThePromise
