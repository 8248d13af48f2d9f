CONSTANTS
    ra = ra
    rb = rb
    rc = rc
    rd = rd
    Loaders = {l1}
    Names = {ra, rb, rc, rd}
    MaxDepth = 5
    None = None
    Configs <- TriggerConfigs
SPECIFICATION Spec
INVARIANT HandlersAreThere
CHECK_DEADLOCK FALSE
