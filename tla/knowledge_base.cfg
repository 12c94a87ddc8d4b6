\* Two runs of kb_new_artifact.py and an agent that writes one note itself.
CONSTANTS
  w1 = w1
  w2 = w2
  Writer <- TwoWriters
  Kinds <- ReviewedKinds
  Related = {}
  Slug <- TwoSlugs
  MaxId = 2
  MaxCreations = 3
  MaxIrregular = 1
SYMMETRY WriterSymmetry
SPECIFICATION Spec
INVARIANTS ChainHolds OwnLinksKept UniqueIds CreatedNotesValidate
CHECK_DEADLOCK FALSE
