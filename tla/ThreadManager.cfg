SPECIFICATION Spec
CONSTANTS
    Thread = {t1, t2, t3}
    Launcher = {l1, l2}
    Destroyer = destroyer
    LateStreams = 1
INVARIANTS JoinsOnlyTheLeaving CleanWithoutLate
PROPERTIES StreamsStart ExitEnds
