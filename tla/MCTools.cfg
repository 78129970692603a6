SPECIFICATION Spec
CONSTANTS
    c1 = c1
    c2 = c2
    c3 = c3
    c4 = c4
    u = u
    None = None
    Keep = Keep
    Notes = {1, 2, 3}
    Calls = {c1, c2, c3, c4}
    Users = {u}
    Tasks <- MCTasks
    Casts <- MCCasts
INVARIANTS TypeOK EditsKept Undoable AnswersHonest
PROPERTIES AllOrNothing Answered
CHECK_DEADLOCK FALSE
