------------------------------- MODULE Tables -------------------------------
(***************************************************************************)
(* What an operator edits through the Go API: the rules, the blacklist and *)
(* the agents, rows of the database (go/internal/db/store_duckdb.go), and  *)
(* the posture, a field of the process (go/internal/api/config.go).  A     *)
(* handler is one statement, or one assignment under a mutex; one that     *)
(* refuses its request, or finds no row for it, changes nothing and is     *)
(* left out.  (The proxy reads none of this.)                              *)
(***************************************************************************)
EXTENDS Naturals, Functions

CONSTANTS
  RuleIds,     \* the ids of rules: the seeds' and those that createRule draws
  Seeds,       \* the rules that seedDefaults inserts
  Addresses,   \* what an operator puts on the blacklist
  Reasons,     \* and why
  NoReason,
  Agents,      \* the ids that registerAgent draws
  Postures,
  FilePosture, \* the posture the process starts with
  SeedPosture, \* the posture of the row that seedDefaults inserts
  MaxEdits,    \* bound: edits of the tables
  MaxStarts    \* bound: starts of the process

ASSUME TablesAssumption ==
  /\ Seeds \subseteq RuleIds
  /\ NoReason \notin Reasons
  /\ {FilePosture, SeedPosture} \subseteq Postures
  /\ MaxEdits \in Nat /\ MaxStarts \in Nat \ {0}

VARIABLES
  rules,      \* id |-> enabled
  blacklist,  \* ip |-> reason
  agentRows,  \* the agents in system_config
  postureRow, \* the posture in system_config
  cfgPosture, \* s.cfg.Posture
  starts,     \* starts of the process so far
  edits,      \* edits so far
  ruleEdit,   \* history: the last edit of each rule, and after which start
  banEdit,    \* history: the last reason given for each address
  postureEdit \* history: the posture last chosen, and after which start

database == <<rules, blacklist, agentRows, postureRow>>
edited == <<ruleEdit, banEdit, postureEdit>>
tablesVars == <<database, cfgPosture, starts, edits, edited>>

Edit(kind) == [kind |-> kind, start |-> starts]

(* The tables are made and seeded by the first start.                      *)
TablesInit ==
  /\ rules = [r \in Seeds |-> TRUE]
  /\ blacklist = [ip \in {} |-> NoReason]
  /\ agentRows = {}
  /\ postureRow = SeedPosture
  /\ cfgPosture = FilePosture
  /\ starts = 1
  /\ edits = 0
  /\ ruleEdit = [r \in RuleIds |-> [kind |-> "none", start |-> 0]]
  /\ banEdit = [ip \in Addresses |-> NoReason]
  /\ postureEdit = [kind |-> FilePosture, start |-> 0]

Counting == edits < MaxEdits /\ edits' = edits + 1

(* A table after an insertion that overwrites, and after a deletion.       *)
With(table, key, value) ==
  [k \in DOMAIN table \cup {key} |-> IF k = key THEN value ELSE table[k]]

Without(table, key) == Restrict(table, DOMAIN table \ {key})

-----------------------------------------------------------------------------
(* Rules.  createRule draws a fresh id.                                    *)

EditRule(r, kind) ==
  /\ Counting
  /\ ruleEdit' = [ruleEdit EXCEPT ![r] = Edit(kind)]
  /\ UNCHANGED <<blacklist, agentRows, postureRow, cfgPosture, starts, banEdit,
                 postureEdit>>

CreateRule(r) ==
  /\ r \notin Seeds /\ ruleEdit[r].kind = "none"
  /\ rules' = With(rules, r, TRUE)
  /\ EditRule(r, "on")

ToggleRule(r, active) ==
  /\ r \in DOMAIN rules
  /\ rules' = [rules EXCEPT ![r] = active]
  /\ EditRule(r, IF active THEN "on" ELSE "off")

DeleteRule(r) ==
  /\ r \in DOMAIN rules
  /\ rules' = Without(rules, r)
  /\ EditRule(r, "deleted")

(* The blacklist.  An address twice is not a conflict: the later reason    *)
(* replaces the earlier one, and the row keeps its id and its date.        *)

EditBan(ip, reason) ==
  /\ Counting
  /\ banEdit' = [banEdit EXCEPT ![ip] = reason]
  /\ UNCHANGED <<rules, agentRows, postureRow, cfgPosture, starts, ruleEdit,
                 postureEdit>>

AddBlacklist(ip, reason) ==
  /\ blacklist' = With(blacklist, ip, reason)
  /\ EditBan(ip, reason)

RemoveBlacklist(ip) ==
  /\ ip \in DOMAIN blacklist
  /\ blacklist' = Without(blacklist, ip)
  /\ EditBan(ip, NoReason)

(* Agents are only ever added.                                             *)
RegisterAgent(a) ==
  /\ Counting
  /\ a \notin agentRows
  /\ agentRows' = agentRows \cup {a}
  /\ UNCHANGED <<rules, blacklist, postureRow, cfgPosture, starts, edited>>

(* setPosture, setMitigationPosture and updateConfig.                      *)
SetPosture(p) ==
  /\ Counting
  /\ cfgPosture' = p
  /\ postureEdit' = Edit(p)
  /\ UNCHANGED <<database, starts, ruleEdit, banEdit>>

-----------------------------------------------------------------------------
SeededAfresh == [r \in DOMAIN rules \cup Seeds |-> r \in Seeds \/ rules[r]]

(* Rows are inserted where none has their key.                             *)
Seeded == [r \in DOMAIN rules \cup Seeds |-> r \in DOMAIN rules => rules[r]]

(* The process starts again: the posture is the file's.                    *)
Restart ==
  /\ starts < MaxStarts
  /\ starts' = starts + 1
  /\ rules' = Seeded
  /\ cfgPosture' = FilePosture
  /\ UNCHANGED <<blacklist, agentRows, postureRow, edits, edited>>

TablesNext ==
  \/ \E r \in RuleIds :
       \/ CreateRule(r) \/ DeleteRule(r)
       \/ \E active \in BOOLEAN : ToggleRule(r, active)
  \/ \E ip \in Addresses :
       \/ RemoveBlacklist(ip)
       \/ \E reason \in Reasons : AddBlacklist(ip, reason)
  \/ \E a \in Agents : RegisterAgent(a)
  \/ \E p \in Postures : SetPosture(p)
  \/ Restart

TablesSpec == TablesInit /\ [][TablesNext]_tablesVars

-----------------------------------------------------------------------------
TablesTypeOK ==
  /\ DOMAIN rules \subseteq RuleIds /\ Range(rules) \subseteq BOOLEAN
  /\ DOMAIN blacklist \subseteq Addresses /\ Range(blacklist) \subseteq Reasons
  /\ agentRows \subseteq Agents
  /\ {postureRow, cfgPosture} \subseteq Postures
  /\ starts \in 1 .. MaxStarts /\ edits \in 0 .. MaxEdits

(* A seed nobody edited, or one deleted before the last start.             *)
Sown(r) ==
  /\ r \in Seeds
  /\ \/ ruleEdit[r].kind = "none"
     \/ ruleEdit[r].kind = "deleted" /\ ruleEdit[r].start < starts

(* After any edits and restarts the tables are as the last edit of each    *)
(* row left them, but for the built-in rules: one that was deleted is back *)
(* after a restart, enabled, while one that was switched off stays off.    *)
(* The posture answered is the one chosen since the last start, if any,    *)
(* and the row that GetDashboardStats reads never hears of it.             *)
TablesFollowEdits ==
  /\ DOMAIN rules = {r \in RuleIds : ruleEdit[r].kind \in {"on", "off"} \/ Sown(r)}
  /\ \A r \in DOMAIN rules : rules[r] <=> ruleEdit[r].kind # "off"
  /\ DOMAIN blacklist = {ip \in Addresses : banEdit[ip] # NoReason}
  /\ \A ip \in DOMAIN blacklist : blacklist[ip] = banEdit[ip]
  /\ cfgPosture =
       IF postureEdit.start = starts THEN postureEdit.kind ELSE FilePosture
  /\ postureRow = SeedPosture
=============================================================================
