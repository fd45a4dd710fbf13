------------------------------- MODULE MCTimer -------------------------------
EXTENDS Timer

=============================================================================
