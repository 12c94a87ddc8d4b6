\* The graph snapshot of notes the creator made.
CONSTANTS
  w1 = w1
  w2 = w2
  Writer <- TwoWriters
  Kinds <- ReviewedKinds
  Related = {}
  Slug <- TwoSlugs
  MaxId = 2
  MaxCreations = 3
  MaxIrregular = 1
SYMMETRY WriterSymmetry
SPECIFICATION Spec
INVARIANT SnapshotCounts
CHECK_DEADLOCK FALSE
