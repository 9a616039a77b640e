CONSTANTS
    Configs <- MCConfigs
    Workers = {1, 2, 3}
    Earlier <- MCEarlier
    Files <- MCFiles
    Scenarios = {"semantic"}
    DefaultTopK = 1
    Gain <- MCGain
    Services <- MCServices
SPECIFICATION Spec
INVARIANTS PassMeansVisible HonestPasses ScoresCanBeRead PassMeansIsolated KeepingPasses ConformanceTells
PROPERTY RunEnds
