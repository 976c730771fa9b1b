SPECIFICATION ProviderSpec
CONSTANTS
    Chains <- UnnamedCalls
    Answers <- EffectThenIdempotent
    MaxText = 1
    MaxTurns = 2
    ProviderRetries = 0
    MaxFaults = 0
INVARIANT EffectsBlockReplay
