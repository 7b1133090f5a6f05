SPECIFICATION Spec
CONSTANTS
    Users = {boss, other}
    Browsers = {b1}
    Requests = {r1, r2}
    Office = {boss}
    Codes = {c1, c2}
    Links = {l1}
    Devices = {d1}
    Keys = {1, 2, 3}
    Lost = Lost
    Held = {"customer", "office", "other"}
    Changing = {other}
    MaxAttempts = 2
    Changes = 1
    None = None
SYMMETRY Interchangeable
CHECK_DEADLOCK FALSE
INVARIANTS
    TypeOK
    GuessesLimited
    TokenOpensOneSession
    OfficeAlwaysChallenged
