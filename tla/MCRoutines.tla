----------------------------- MODULE MCRoutines -----------------------------
\* Routines with connectors that deliver the same message.
EXTENDS Routines

=============================================================================
