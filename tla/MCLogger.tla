------------------------------ MODULE MCLogger ------------------------------
(* Instances of Logger for TLC: the three sinks of logger_sinks_config.c. *)
EXTENDS Logger

CONSTANTS console, callback, etw

MCSinks == {console, callback, etw}
MCRegistering == {etw}
MCAllSinks == <<console, callback, etw>>

(* The array of the build, none, one without the registering sink, and one *)
(* that names the registering sink twice, whose initialisation must fail.  *)
MCConfigs == {MCAllSinks, <<>>, <<console>>, <<etw, etw>>}
=============================================================================
