SPECIFICATION FairSpec
CONSTANTS
  Keys = {k}
  Channels = {mail, chat}
  Named = {mail}
  Slots = {1, 2, 3}
  MaxAttempts = 2
  MaxFlips = 2
  MaxOps = 1
  MaxFailures = 1
  MaxCrashes = 1
INVARIANTS NoNeedlessResend
PROPERTIES StaysWatched ClearedIsResolved LastingIsNotified RetriesEnd
