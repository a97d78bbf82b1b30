SPECIFICATION Spec
CONSTANTS
    Requests = {c1, c2, c3}
    Users = {u}
    Posts = {p1, p2}
    Tables = {likes}
    HasKey = TRUE
INVARIANTS
    AnswersAddUp
PROPERTIES
    EngagesAtOnce
    BatchTells
SYMMETRY MCSymmetry
CHECK_DEADLOCK FALSE
