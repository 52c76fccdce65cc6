SPECIFICATION FairSpec
CONSTANTS
    none = none
    w1 = w1
    w2 = w2
    Renders = {a, b, c}
    WebRenders = {a}
    Renderers = {w1, w2}
    Devices = {d}
    Target <- MCTarget
    NoRender = none
    MaxFaults = 2
INVARIANT TypeOK
INVARIANT BacklogBounded
INVARIANT NeverBackwards
INVARIANT AnswerIsTrue
PROPERTY HandledEventually
CHECK_DEADLOCK FALSE
CONSTRAINT FaultBound
CONSTRAINT OneHasMongo
