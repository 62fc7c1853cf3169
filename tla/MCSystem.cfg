SPECIFICATION MCSpec
INVARIANT ProgramKept
INVARIANT UserDataSound
INVARIANT ProgramsSound
PROPERTY StepsKeepTheirWord
CHECK_DEADLOCK FALSE
