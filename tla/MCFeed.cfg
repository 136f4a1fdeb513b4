SPECIFICATION FeedSpec
CONSTANTS
  Numbers = {1, 2, 3, 4}
  Entries <- JustNumbers
  Browsers = {"b1"}
  FeedCapacity = 2
  RecentRows = 2
  MaxRows = 3
  WireCapacity = 1
INVARIANTS
  FramesComeOnceInOrder
  OnlyLaggardsMiss
  RowsRepeatOnlyRaces
PROPERTIES
  SubscribersCatchUp
  AbandonedSessionsEnd
