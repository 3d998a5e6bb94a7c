--------------------------- MODULE MCDockerRuntime ---------------------------
(* DockerRuntime for TLC.  The bounds are the cfg's.                         *)
EXTENDS DockerRuntime
=============================================================================
