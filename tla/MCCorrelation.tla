---------------------------- MODULE MCCorrelation ----------------------------
(* Values of the constants of Correlation: messages that between them make *)
(* every rule match, with thresholds of one or two and short windows.  The *)
(* store's tests name the fields as Go does, the proxy does not; the first *)
(* run mixes both.                                                         *)
EXTENDS Correlation

Message(names, ip, path, country, attack, blocked) ==
  [names |-> names, ip |-> ip, path |-> path, country |-> country,
   host |-> IF names = "Go" THEN "site" ELSE "",
   attack |-> attack, blocked |-> blocked, ok |-> ~blocked, sent |-> 1]

GoMessages ==
  {Message("Go", "a", "/", "fr", "xss", TRUE),
   Message("Go", "a", "/x", "de", "sql_injection", FALSE),
   Message("Go", "b", "/", "fr", "sql_injection", FALSE)}

MixedMessages == GoMessages \cup {Message("proxy", "a", "/", "", "", FALSE)}

ProxyMessages ==
  {Message("proxy", "a", "/", "", "", FALSE), Message("proxy", "b", "/", "", "", FALSE)}

Thresholds == [r \in Rules |-> IF r \in {"brute_force", "data_exfil"} THEN 1 ELSE 2]
Windows == [r \in Rules |-> IF r = "rapid_scan" THEN 1 ELSE 3]
=============================================================================
