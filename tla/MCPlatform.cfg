\* Two migrations, one run, two providers, a processor of the host's; six settings.
CONSTANTS
  m1 = m1  m2 = m2  r1 = r1  openai = openai  gateway = gateway  own = own
  None = None
  Migrators <- TwoMigrators
  Runs <- OneRun
  Providers <- TheTwo
  AppProcessors <- OwnProcessor
  Settings <- SixSettings
SPECIFICATION LiveSpec
INVARIANTS TypeOK SchemaIsWholeOrAbsent NothingIsPostedToOpenAI QuietDoctorMeansServing
PROPERTIES OthersProcessorsStay QuietCloseMissesOnlyTheLate PlatformsAreDisposed
