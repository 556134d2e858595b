----------------------------- MODULE MCTaskServer -----------------------------
(* Two callers of one server with a task.                                      *)
EXTENDS TaskServer

MCCallers == {1, 2}
MCConfigs == {"narrow", "wide"}
MCToolNames == {"terminal"}
MCKeys == {"k"}
===============================================================================
