SPECIFICATION ShadowSpec
CONSTANTS
    Lab = {"GOAL", "CARD"}
    Obs <- MCObs
    LineOf <- MCLineOf
    Worker = {w1, w2}
    MaxFaults = 1
SYMMETRY MCSymmetry
CONSTRAINT OneColdAtMost
INVARIANTS OneBetPerFixture BetsHaveDecisions PickedFixtureHasBet
