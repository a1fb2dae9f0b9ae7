SPECIFICATION Spec
CONSTANTS
    Sources = {"src1", "src2"}
    Caches = {"ccache", "sccachedir"}
    Confs <- Everything
    Envs <- AllEnvs
CHECK_DEADLOCK FALSE
INVARIANTS
    TypeOK
    CleanExit
    DbusFindable
    SourcesBound
    CleanupExclusive
PROPERTIES
    KeepsPromise
    SignalEndsProcess
