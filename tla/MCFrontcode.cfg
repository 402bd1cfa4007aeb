CONSTANTS
  a = a
  b = b
  FileName = {f, g}
  Creator = {p}
  Reader = {r}
  Chunk <- MCChunk
  MaxChunks = 2
  MaxUploads = 4
  MaxCommits = 3
  Shape = {s1, s2}
  None = None
SYMMETRY Symmetry
SPECIFICATION Spec
INVARIANTS FilesInv LiveAsReviewed StreamsWhole
