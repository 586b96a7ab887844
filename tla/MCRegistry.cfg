SPECIFICATION Spec
CONSTANTS
    Agents = {a1, a2, a3}
    Names = {n1, n2}
    NoAgent = NoAgent
    Outsider = Outsider
SYMMETRY Symmetry
INVARIANTS
    TypeOK
    RevokedIsGone
    GivenKeysAreRevocable
    NamesakesMet
    RefusedHadARival
    KnownToItself
CHECK_DEADLOCK FALSE
