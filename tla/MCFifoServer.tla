---------------------------- MODULE MCFifoServer ----------------------------
(***************************************************************************)
(* Two clients for TLC, and how they use the server: one of them alone,    *)
(* killed at any choice of moments, or both, which wait for their answers  *)
(* or may be killed anywhere; with and without a request that brings the   *)
(* server down.                                                            *)
(***************************************************************************)
EXTENDS FifoServer

CONSTANTS c1, c2

MCClients == {c1, c2}

Usage(clients, requests, unreadable, kills) ==
  [clients |-> clients, requests |-> requests, unreadable |-> unreadable, kills |-> kills]

Second == [client |-> c1, number |-> 2]

MCUsages ==
  {Usage({c1}, 3, bad, kills) : bad \in {{}, {Second}}, kills \in SUBSET Moments} \cup
  {Usage(MCClients, 2, {}, {}), Usage(MCClients, 2, {Second}, {}),
   Usage(MCClients, 2, {}, Moments)}

OneTwice == {Usage({c1}, 2, {}, {})}
=============================================================================
