---------------------------- MODULE MCTransport ----------------------------
\* The instances TLC runs: transport.cfg, and by hand transport_empty.cfg.
EXTENDS Transport

=============================================================================
