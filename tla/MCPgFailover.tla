------------------------------ MODULE MCPgFailover ------------------------------
EXTENDS PgFailover

CONSTANTS n1, n2, n3

\* The three nodes, in the order of PATRONI_ENDPOINTS.
Three == <<n1, n2, n3>>
=============================================================================
