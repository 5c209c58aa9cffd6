-------------------------- MODULE OperationLedger --------------------------
(***************************************************************************)
(* The two repositories that govern state-changing operations:             *)
(* runtime/adapters/operation_ledger_json.py and approval_json.py, keyed   *)
(* by operation key, and the outside world the operations change.          *)
(*                                                                         *)
(*   ledger     operation_ledger/<key>.json: status, the Run that wrote it *)
(*              last, fingerprints before and after execution              *)
(*   approvals  approvals/<key>.json: the human decision and the           *)
(*              fingerprint of the target it was asked for                 *)
(*   file       content of the workspace file the write operations target  *)
(*   effects    how often the effect of an operation reached the world     *)
(*                                                                         *)
(* Every repository method reads and writes its record under one flock, so *)
(* it is one step; the operators below are its precondition and the record *)
(* it leaves.  Record history, observation text and timestamps are left    *)
(* out.                                                                    *)
(***************************************************************************)
EXTENDS Naturals

CONSTANTS Ops,       \* operation keys
          Runs,      \* Run identities
          NoRun,     \* the Run of a record that does not exist
          Kind,      \* [Ops -> Kinds], the action of the tool
          Contents,  \* contents of the target file
          Original,  \* its content at the start
          Written    \* [Ops -> Contents], what a successful write leaves

Kinds == {"read", "write", "memory", "command"}

Unset == "unset"   \* no fingerprint was taken

ASSUME OperationAssumption ==
  /\ Unset \notin Contents
  /\ NoRun \notin Runs
  /\ Kind \in [Ops -> Kinds]
  /\ Original \in Contents
  /\ Written \in [Ops -> Contents]

VARIABLES ledger, approvals, file, effects

ledgerVars == <<ledger, approvals, file, effects>>

(* A fingerprint is the content of the file for a write; for a command and *)
(* for a memory write it is a digest of the arguments, hence constant.     *)
Fixed == "arguments"
Prints == Contents \cup {Fixed, Unset}

Fingerprint(op) == IF Kind[op] = "write" THEN file ELSE Fixed

RecordStates == {"none", "planned", "pending", "approved", "executing", "executed", "failed"}
Records   == [status : RecordStates, run : Runs \cup {NoRun}, pre : Prints, post : Prints]
NoRecord  == [status |-> "none", run |-> NoRun, pre |-> Unset, post |-> Unset]
Tracked   == {op \in Ops : Kind[op] # "read"}

ApprovalStates == {"none", "pending", "approved", "rejected", "stale"}
Approvals  == [status : ApprovalStates, print : Prints]
NoApproval == [status |-> "none", print |-> Unset]

MaxEffects == 2   \* effects saturates: two is already once too often

LedgerTypeOK ==
  /\ ledger \in [Ops -> Records]
  /\ approvals \in [Ops -> Approvals]
  /\ file \in Contents
  /\ effects \in [Ops -> 0..MaxEffects]

LedgerInit ==
  /\ ledger = [op \in Ops |-> NoRecord]
  /\ approvals = [op \in Ops |-> NoApproval]
  /\ file = Original
  /\ effects = [op \in Ops |-> 0]

----------------------------------------------------------------------------
(* OperationRecord.transition *)
Moved(op, status, r) == [ledger EXCEPT ![op].status = status, ![op].run = r]

(* ensure_planned creates the record, an existing one is left alone. *)
Planned(op, status, r, print) ==
  IF ledger[op].status = "none"
  THEN [ledger EXCEPT ![op] = [status |-> status, run |-> r, pre |-> print, post |-> Unset]]
  ELSE ledger

(* Fault: only what was executed is protected. *)
CanReopenExecuting(op) == ledger[op].status # "executed"

(* record_pending and record_approved refuse a record that was executed or *)
(* is executing, and accept a failed one.                                  *)
CanReopen(op) == ledger[op].status \notin {"executing", "executed"}

Pending(op, r, print) == [Moved(op, "pending", r) EXCEPT ![op].pre = print]

(* Fault: a claim may be repeated while the record says executing. *)
CanExecuteAgain(op) == ledger[op].status \in {"approved", "executing"}

(* record_executing is the execution claim: only an approved record. *)
CanExecute(op) == ledger[op].status = "approved"

(* _finish_execution: only the claimant commits a result. *)
CanFinish(op, r) == ledger[op].status = "executing" /\ ledger[op].run = r

Finished(op, r, status) ==
  [Moved(op, status, r) EXCEPT ![op].post = Fingerprint(op)]

(* A failure the next proposal may retry: a write or memory record whose   *)
(* fingerprints prove that the target did not change.                      *)
Unchanged(record) == record.pre # Unset /\ record.post # Unset /\ record.pre = record.post

(* Fault: a failed command counts as unchanged, its fingerprint being constant. *)
FailedUnlessUnchanged(op) ==
  /\ ledger[op].status = "failed"
  /\ ~Unchanged(ledger[op])

FailedForGood(op) ==
  /\ ledger[op].status = "failed"
  /\ Kind[op] = "command" \/ ~Unchanged(ledger[op])

----------------------------------------------------------------------------
(* ApprovalRepository.request: a stale request is replaced by a fresh one. *)
Requestable(approval) == approval.status \in {"none", "stale"}
Requested(op, print) ==
  IF Requestable(approvals[op])
  THEN [approvals EXCEPT ![op] = [status |-> "pending", print |-> print]]
  ELSE approvals

(* ApprovalRepository.decide, by the operator at any time. *)
Decide(op, decision) ==
  /\ approvals[op].status = "pending"
  /\ approvals' = [approvals EXCEPT ![op].status = decision]
  /\ UNCHANGED <<ledger, file, effects>>

(* mark_stale raises unless the request is approved or already stale. *)
CanMarkStale(op) == approvals[op].status \in {"approved", "stale"}

(* Someone else changes the target file. *)
Drift(content) ==
  /\ content # file
  /\ file' = content
  /\ UNCHANGED <<ledger, approvals, effects>>
============================================================================
