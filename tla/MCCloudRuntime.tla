--------------------------- MODULE MCCloudRuntime ---------------------------
(* One runtime that is requested up to three times, and one worker.          *)
EXTENDS CloudRuntime
=============================================================================
