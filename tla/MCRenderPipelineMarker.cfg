SPECIFICATION Spec
CONSTANTS
    none = none
    w1 = w1
    w2 = w2
    Renders = {a, b}
    WebRenders = {a}
    Renderers = {w1}
    Devices = {d}
    Target <- MCTarget
    NoRender = none
    MaxFaults = 0
INVARIANT ProcessedIsKnown
CHECK_DEADLOCK FALSE
