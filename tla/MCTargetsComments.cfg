SPECIFICATION Spec
CONSTANTS
  Hits = {h1, h2}
  Defaults = 0
  MaxLines = 4
  Kinds = {"blank", "comment", "target"}
INVARIANTS CommentsIgnored
