---------------------------- MODULE MCUhmResolver -----------------------------
(* UhmResolver for TLC: one client, a host and a service, and an address of  *)
(* each family, one of which the server listens on.                          *)
EXTENDS UhmResolver, TLC

CONSTANTS c1, v1, v2, h1, h2, srv, a4, a6, bad, t1

MCFamily == [a \in Addr |-> CASE a = a6  -> "ipv6"
                              [] a = bad -> "invalid"
                              [] OTHER   -> "ipv4"]
MCDomainNames == {<<>>, <<h1>>}
===============================================================================
