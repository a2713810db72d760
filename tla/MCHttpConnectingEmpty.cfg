CONSTANT MaxAddrs = 2
SPECIFICATION Spec
INVARIANT ErrAlwaysRecorded
