CONSTANTS
    Tasks = {t1, t2}
    Names = {a, b}
    MaxTime = 2
    MaxVersion = 1
SPECIFICATION Spec
INVARIANTS OwnAnswers MissesPredateEntry
PROPERTY Frozen
SYMMETRY Symmetry
