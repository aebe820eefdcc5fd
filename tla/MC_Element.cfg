CONSTANTS
    Names = {a, b}
    Values = {v1, v2}
    NULL = NULL
    ValueTypes = {"string", "int"}
    MaxChildren = 3
    MaxAttrs = 2
SYMMETRY MCSymmetry
SPECIFICATION Spec
INVARIANT RemoveWhitespaceCorrect
INVARIANT IndentCorrect
INVARIANT RemoveAllCorrect
INVARIANT VTypeTextCorrect
PROPERTY SetAttributeRead
