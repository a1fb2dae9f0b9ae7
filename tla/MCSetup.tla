------------------------------ MODULE MCSetup ------------------------------
(* Configuration files for Setup: each sets other keys, some set the same.  *)
EXTENDS Setup

MCConfigFile ==
    [tmpfs |-> [enable_tmpfs |-> TRUE],
     size  |-> [tmpfs_size |-> "8G"],
     local |-> [default_profile |-> "local", enable_history |-> TRUE, enable_tmpfs |-> FALSE,
                tmpfs_size |-> "", overlay_root_dir |-> "/srv"]]
=============================================================================
