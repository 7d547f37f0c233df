\* A second raw device behind the first.
SPECIFICATION Spec
CONSTANT MaxLines = 3
INVARIANT RawSkipped
