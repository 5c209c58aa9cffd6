----------------------------- MODULE MCToolBatch ---------------------------
(* Small instances of ToolBatch for TLC. *)
EXTENDS ToolBatch, TLC

MCOps == {"write", "command", "other", "memory", "read"}

MCKind == [op \in MCOps |->
  CASE op = "write" -> "write" [] op = "memory" -> "memory" [] op = "read" -> "read"
    [] OTHER -> "command"]

(* PermissionPolicy in on-risk mode; "other" is outside the command allowlist. *)
MCPolicy == [op \in MCOps |->
  CASE op \in {"write", "command"} -> "ask" [] op = "other" -> "deny" [] OTHER -> "allow"]

(* PermissionPolicy in trusted mode. *)
MCTrusted == [MCPolicy EXCEPT !["command"] = "allow"]

MCWritten == [op \in MCOps |-> "new"]

WriteThenCommand == <<"write", "command">>
Assorted == <<"write", "other", "read", "memory", "command">>

Symmetric == Permutations(Runs)
============================================================================
