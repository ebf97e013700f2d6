-------------------------- MODULE MCGatewayLifecycle --------------------------
(* Two gateways and one thread that runs discoveries.                        *)
EXTENDS GatewayLifecycle, TLC

CONSTANTS m1, m2, t1, s1, s2, p1, p2, p3

MCMacs == {m1, m2}
MCThreads == {t1}
MCSlots == {s1, s2}
MCPolls == {p1, p2, p3}
MCOperator == {"rediscover", "retry", "cancel", "shutdown"}
================================================================================
