SPECIFICATION Spec
CONSTANTS
  Hits = {h1, h2}
  Defaults = 3
  MaxLines = 5
  Kinds = {"blank", "target", "header"}
INVARIANTS RequestsFaithful
