CONSTANTS
    m1 = m1
    m2 = m2
    Macs = {m1, m2}
    RangeStart = 1
    RangeEnd = 2
    Configs <- MCConfigs
SPECIFICATION Spec
INVARIANTS TypeOK IndexesAgree NoTwoBound StaticKept
