SPECIFICATION Spec
CONSTANTS
    Workers = {w1}
    Threshold = 2
    Cooldown = 2
    Never = Never
    MaxLag = 1
INVARIANTS
    HalfOpenProbeDecides
