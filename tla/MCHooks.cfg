SPECIFICATION LiveSpec
CONSTANTS
  t = t
  Thread = {t}
  NoPolicy = NoPolicy
  AtCwd = AtCwd
  AnyType = AnyType
  ExternalRoot = "ext"
  ExternalPrimary <- Primary
  Aliases <- Links
  MaxNames = 8
  FilesOnDisk <- None
  DirectoriesOnDisk <- None
  Dotted = {}
  Section <- Sections2
  Asked <- Calls
  Entries <- Listed
  MaxChunk = 2
INVARIANTS TypeOK DoneAsSomeRulesSay JudgedIsActedOn ListingComplete ForgetsWhatItRemoved
PROPERTIES CallsReturn
