\* Two saves that overlap; nothing is killed and nothing fails.
CONSTANTS
    Put = {s1, s2}
    Manual = {run}
    Worker = worker
    a = a
    b = b
    ka = ka
    kb = kb
    Project = {a, b}
    Key = {ka, kb}
    KeyOf <- MCKeyOf
    NoUrl = noUrl
    NoKey = noKey
    Keep = keep
    NoPassword = noPassword
    NoSection = noSection
    Garbled = garbled
    Body <- MCBody
    SeedFile <- MCSeedFile
    SeedRemote <- MCSeedRemote
    MaxCrashes = 0
    MaxFaults = 0

SPECIFICATION Spec

INVARIANT OtherSectionsKept

CHECK_DEADLOCK FALSE
