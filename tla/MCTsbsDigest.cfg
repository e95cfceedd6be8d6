SPECIFICATION DigestSpec
CONSTANTS
    before = before
    after = after
    Builds = {before, after}
    Outputs <- MCOutputs
    Grain = 10
    Tolerance = 2
INVARIANTS
    VerdictIsRight
