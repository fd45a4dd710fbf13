------------------------------ MODULE MCLoader ------------------------------
EXTENDS Loader

\* Data that reads like EOT and FRX, for whoever takes it for commands.
MCFile == <<4, 8, 1>>

=============================================================================
