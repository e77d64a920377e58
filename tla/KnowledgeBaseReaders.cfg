\* Two uploads, of one file or of two.
SPECIFICATION Spec
CONSTANTS
  Files = {f, g}
  Uploads = 2
  LastChunk = 2
  PageSize = 2
  ScrollLimit = 5
  TopK = 2
  Winners = 2
  None = None
INVARIANTS ListingIsExact ContextIsSound CitationIsTheSource
