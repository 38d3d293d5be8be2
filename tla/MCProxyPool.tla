---------------------------- MODULE MCProxyPool -----------------------------
(* A small instance of ProxyPool for TLC. *)
EXTENDS ProxyPool

CONSTANTS x, y, f1, f2

MCProxies == <<x, y>>
=============================================================================
