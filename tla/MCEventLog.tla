----------------------------- MODULE MCEventLog -----------------------------
(***************************************************************************)
(* Small logging configurations for EventLog.                              *)
(***************************************************************************)
EXTENDS EventLog

LogConfig(level, max, retained) ==
    [level |-> level, max |-> max, retained |-> retained]

FewConfigs ==
    {LogConfig("off", 1, 2), LogConfig("normal", 1, 2),
     LogConfig("normal", 3, 0), LogConfig("trace", 2, 1),
     LogConfig("trace", 0, 1)}
=============================================================================
