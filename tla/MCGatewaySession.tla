-------------------------- MODULE MCGatewaySession --------------------------
EXTENDS GatewaySession, TLC

\* Two clients for one process of the pool; the window is filled by the two
\* transactions and not by the account.
CONSTANTS alice, bob, q1

MCScript == <<"ACCOUNT", "EOF", "TRANSACTION", "TRANSACTION", "EOF">>
=============================================================================
