----------------------------- MODULE MCPushLog -----------------------------
\* The instance TLC runs: push_log.cfg.
EXTENDS PushLog

=============================================================================
