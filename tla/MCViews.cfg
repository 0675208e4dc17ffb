\* Two clients, one without a model key, two versions, three promotions.
CONSTANTS
  c1 = c1  c2 = c2  dev = dev  production = production  nano = nano  sol = sol  first = first  second = second
  None = None
  Environments <- TwoEnvironments
  ENVIRONMENT = dev
  Models <- TwoModels
  Texts <- TwoTexts
  Clients <- TwoClients
  Keyed <- TheSecond
  MaxVersion = 2
  MaxBinds = 3
SYMMETRY Symmetry
SPECIFICATION Spec
INVARIANTS TypeOK TellsOfOneVersion VariantsKeepTheInstructions
PROPERTIES ListsHoldWhenTold
