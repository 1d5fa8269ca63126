SPECIFICATION LinkFairSpec
CONSTANTS
  MaxNgap = 3
  MaxPhantom = 2
INVARIANTS
  LinkTypeOK
  ReplyMeansReady
  AllOrNone
  IntactInOrder
  PagedUeIsKnown
PROPERTY SetUpEnds
PROPERTY AllTaken
CHECK_DEADLOCK FALSE
