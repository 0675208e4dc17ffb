\* Prompts at a service with two labels and two versions, and prompts in a file
\* that is edited, reshaped and removed; references of every kind.
CONSTANTS
  None = None
  Tokens <- SomeTokens
  Providers <- BothProviders
  Raws <- SomeRaws
  Labels <- TwoLabels
  Drafts <- SomeDrafts
  Requests <- ManyRequests
  MaxVersions = 2
SPECIFICATION Spec
INVARIANTS TypeOK PublishedMeansTheSame AcceptsExactlyTheOpenNames
  ValuesAreNotScanned OnlyBlanksAreRefused
