\* Two calls that make any of the writes, each with up to two retries, and two
\* events to re-send, one in a batch.
SPECIFICATION MCSpec
CONSTANTS
    Calls = {c1, c2}
    MaxRetries = 2
    IdKeys = {k1}
    NoKey = NoKey
    NoCall = NoCall
    Backlog = 2
    Sinces = {1, 2}
    Limits = {1}
SYMMETRY MCSymmetry
CHECK_DEADLOCK FALSE
INVARIANTS
    TypeOK
    EffectsAreBounded
    OneOpenPerKey
    LastSetterWins
    AnswersAreTrue
