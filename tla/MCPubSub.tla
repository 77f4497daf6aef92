------------------------------ MODULE MCPubSub ------------------------------
(* Two nodes, two channels, two concurrent publishers: see MCPubSub.cfg.   *)
EXTENDS PubSub

CONSTANTS p1, p2, c1, c2

MCMaxMessages == [p \in Publishers |-> [ch \in Channels |->
  CASE p = p1 /\ ch = c1 -> 2
    [] p = p2 /\ ch = c1 -> 1
    [] OTHER -> 0]]
=============================================================================
