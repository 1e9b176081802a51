CONSTANTS
  Instruments = {x, y}
  Readers = {r1, r2}
  MaxFeed = 2
  Limits = {1, 3}
  MaxEvents = 3
SPECIFICATION Spec
INVARIANTS
  SnapshotConsistent
  FeedIsTheTail
  AnswersNeverGoBack
SYMMETRY Symmetry
