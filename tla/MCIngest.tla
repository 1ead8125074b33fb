------------------------------ MODULE MCIngest ------------------------------
\* A small instance of Ingest; the bounds are in the configurations.
EXTENDS Ingest
=============================================================================
