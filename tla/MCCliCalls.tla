----------------------------- MODULE MCCliCalls -----------------------------
EXTENDS CliCalls, TLC

CONSTANTS a, b
=============================================================================
