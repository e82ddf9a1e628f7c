---------------------------- MODULE MCLoggerUplink ----------------------------
(* LoggerUplink with times scaled down; their order is the code's.             *)
EXTENDS LoggerUplink, MCLoggerSettings
=============================================================================
