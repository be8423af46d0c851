SPECIFICATION Spec
CONSTANTS
    Users = {u1}
    Tokens = {t1, t2, t3}
    Handlers = {h1, h2}
    NoUser = NoUser
    NoToken = NoToken
    MaxSessions = 2
    TTL = 1
    Retention = 1
    MaxTime = 2
SYMMETRY Symmetry
INVARIANTS
    TypeOK
    SessionCap
    RotationRetiresParent
    OnlyOverlapSurvivesWipe
PROPERTY
    RotatedRowsRetained
