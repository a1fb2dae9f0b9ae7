SPECIFICATION Spec
CONSTANTS
    Sources = {"src1", "src2"}
    Caches = {"ccache", "sccachedir"}
    Confs <- OnlyYpkg
    Envs <- OnlySignal
CHECK_DEADLOCK FALSE
INVARIANTS
    NoOrphans
