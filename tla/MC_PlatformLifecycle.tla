------------------------ MODULE MC_PlatformLifecycle ------------------------
(* Model-checking instance of PlatformLifecycle: the pointer sentinels are *)
(* model values; each cfg bounds the device count NVML may report.         *)
EXTENDS PlatformLifecycle

CONSTANTS nullptr, deleted

=============================================================================
