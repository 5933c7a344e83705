SPECIFICATION FairSpec
CONSTANTS
    Id = {a, b, c, e}
    Digest = {d1, d2}
    None = None
    MaxMishaps = 2
    MaxPushes = 1
INVARIANTS OneRuns OneProbe ReplacedIsProbed
PROPERTIES ProvenKept Converges LeftoversCleared
