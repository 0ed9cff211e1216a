----------------------------- MODULE MCIngest -----------------------------
EXTENDS Ingest
=============================================================================
