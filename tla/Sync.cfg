\* two revisions of the pages, a sync from a request, a failure and a restart;
\* two revisions of the tools, one preview, one mishap
CONSTANTS
  Thread = {loop, req}
  Loop = loop
  Starter = starter
  Nobody = Nobody
  MaxRev = 2
  MaxBuild = 1
  RequestLimit = 1
  FaultLimit = 1
  CrashLimit = 1
  Job = {j1}
  OfferLimit = 2
  MishapLimit = 1
SPECIFICATION SyncSpec
INVARIANTS SyncTypeOK QuietSyncApplies FilesTellTheTruth ShownOnce
INVARIANTS DamageIsBehind QuietPreviewIsMade
PROPERTIES NoDowngrade ChannelsArrive
