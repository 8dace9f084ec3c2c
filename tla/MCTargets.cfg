SPECIFICATION Spec
CONSTANTS
  Hits = {h1, h2, h3}
  Defaults = 2
  MaxLines = 5
  Kinds = {"blank", "comment", "header", "body", "target", "path", "badurl", "nourl", "bad", "broken"}
SYMMETRY Symmetry
INVARIANTS TargetsInOrder RequestsFaithful
