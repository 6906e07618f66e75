SPECIFICATION FairSpec
CONSTANTS
  Methods <- AllMethods
  Providers <- AllProviders
  MaxUpload = 2
  Replies <- AllReplies
  ClientLimit = 2
INVARIANTS
  WritesRunOnce
  HandlerSeesWholeUpload
  SuccessMeansServed
PROPERTIES
  CommandEnds
