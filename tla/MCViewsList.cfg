\* One version, bound to two environments.
CONSTANTS
  c1 = c1  c2 = c2  dev = dev  production = production  nano = nano  sol = sol  first = first  second = second
  None = None
  Environments <- TwoEnvironments
  ENVIRONMENT = dev
  Models <- TwoModels
  Texts <- TwoTexts
  Clients <- OneClient
  Keyed <- NoClient
  MaxVersion = 1
  MaxBinds = 1
SPECIFICATION Spec
PROPERTIES ListsShowWhoRunsWhat
