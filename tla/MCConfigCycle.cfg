CONSTANTS
    ra = ra
    rb = rb
    rc = rc
    rd = rd
    Loaders = {l1}
    Names = {ra, rb, rc, rd}
    MaxDepth = 5
    None = None
    Configs <- CyclicConfigs
SPECIFICATION Spec
INVARIANT CyclesAreFound
CHECK_DEADLOCK FALSE
