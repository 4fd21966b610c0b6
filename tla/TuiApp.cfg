CONSTANTS
  Ids = {"web", "dns"}
  Names = {"alice", "bob"}
  Addresses = {"addr"}
  BadTexts = {"typo"}
  KeyTexts = {"kA", "kA ", "junk"}
  DecodedKey <- MCDecodedKey
  Files <- MCFiles
  Rewrites <- MCRewrites
  None = None
  Torn = Torn
  MaxEdits = 2
SPECIFICATION TuiSpec
INVARIANTS TuiTypeOK DaemonNeverPanics SavedFileStarts CleanMeansSaved OnlyEditErrors GrantsAreOffered
PROPERTY OnlyChosenTouched
