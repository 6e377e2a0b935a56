CONSTANTS
  h1 = h1
  h2 = h2
  h3 = h3
  h4 = h4
  LongTexts = 11
  ShortTexts = 1
  Drafts <- MCDrafts
  Characters = {"a", " "}
  Blank = " "
  Pages = {1, 2}
  MaxChars = 4
  Overlaps = {0, 1}
  MaxChunks = 4
  MaxTextChars = 14
  Urls <- MCUrls
  Allowed = {h1, h2, h3}
  Secure = {h1, h2}
  Addresses = {p1, p2, q}
  Public = {p1, p2}
  MaxRedirects = 2
  Timeout = 3
  MaxBytes = 1
  Sizes = {1, 2}
SPECIFICATION Spec
INVARIANT ChunksFaithful
INVARIANT FetchKeepsPolicy
CHECK_DEADLOCK FALSE
