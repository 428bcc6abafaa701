\* Two daemons started on one path, which may hold debris of a third.
CONSTANTS
    Daemons = {d1, d2}
    NoFile = NoFile
    Debris = Debris

SPECIFICATION ListenerSpec

INVARIANT NobodyInvisible
