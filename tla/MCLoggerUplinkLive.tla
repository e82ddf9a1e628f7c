-------------------------- MODULE MCLoggerUplinkLive --------------------------
EXTENDS LoggerUplinkLive, MCLoggerSettings
=============================================================================
