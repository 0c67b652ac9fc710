------------------------- MODULE MCRequestPipeline --------------------------
(* Two requests of two clients, one of them without an address, and one    *)
(* restart.  Two kinds and three settings meet every branch of the         *)
(* inspection: the address is clean or trusted, the other is an attack     *)
(* that is blocked, refused by posture or only monitored, and two of one   *)
(* client meet the limiter.                                                *)
EXTENDS RequestPipeline

CONSTANTS r1, r2, addr

MCRequests == {r1, r2}
MCClients == {addr, Unknown}

Kind(client, writes, attack) ==
  [client |-> client, writes |-> writes, attack |-> attack]
MCKinds == {Kind(Unknown, TRUE, TRUE), Kind(addr, FALSE, FALSE)}

Setting(posture, limiting, trusted) ==
  [posture |-> posture, limiting |-> limiting, trusted |-> trusted]
MCFileConfig == Setting("Standard", TRUE, {})
MCSettings ==
  {MCFileConfig, Setting("UnderAttack", FALSE, {}),
   Setting("Monitor", TRUE, {addr})}
=============================================================================
