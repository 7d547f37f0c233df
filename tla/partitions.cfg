\* Every tree of up to five lines.
SPECIFICATION Spec
CONSTANT MaxLines = 5
INVARIANTS TypeOK KeepsUnderneath DisksAreLines
