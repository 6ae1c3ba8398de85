----------------------------- MODULE MCPowerFds -----------------------------
(* An instance of PowerFds for TLC: a field that app profiles and camera   *)
(* constraints share, and fields of their own that start as 0.             *)
EXTENDS PowerFds

MCProfiles == {<<"app_min_freq", "app_max_freq", "app_max_online_cpus">>}

MCCameraCaps == {<<"app_min_freq", "fd_cpu_freq_max", "fd_max_online_cpus">>}
=============================================================================
