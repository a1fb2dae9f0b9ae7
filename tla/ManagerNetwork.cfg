SPECIFICATION Spec
CONSTANTS
    Sources = {"src1", "src2"}
    Caches = {"ccache", "sccachedir"}
    Confs <- OnlyYpkg
    Envs <- Quiet
CHECK_DEADLOCK FALSE
INVARIANTS
    BuildOffline
