-------------------------- MODULE MCOrderbookSync --------------------------
EXTENDS OrderbookSync
=============================================================================
