------------------------------ MODULE MCSyncer ------------------------------
EXTENDS Syncer
=============================================================================
