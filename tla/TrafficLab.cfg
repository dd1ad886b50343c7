SPECIFICATION Spec
CONSTANTS
    Panels <- MCPanels
    Draws <- MCDraws
    PerLane = 1
    CheckInterval = 2
    MaxIters = 2
    Rates = {0, 240}
    Cycles = {5}
    Lanes = {2, 9}
    Speeds = {100, 1000}
    Grids = {1, 2}
    MaxChanges = 2
INVARIANT CacheFaithful
PROPERTY JunctionEmpties
