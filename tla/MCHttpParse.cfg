CONSTANTS
    CodeBytes <- EdgeBytes
    MaxBytes = 7
SPECIFICATION Spec
INVARIANTS TameLinesParse PanicsExactly LengthsAgree StatusIsSafe
CONSTRAINT OneStatus
