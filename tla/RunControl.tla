----------------------------- MODULE RunControl -----------------------------
(***************************************************************************)
(* RunController (control.py): the in-memory mailbox through which another *)
(* thread pauses, cancels or steers the Run of its process.  One object    *)
(* serves every Run of a console session: a signal is bound to a Run, or   *)
(* unbound and then meant for whichever Run polls next.                    *)
(*                                                                         *)
(*   terminal   the pause or cancel waiting under each key                 *)
(*   steers     whether guidance is waiting under each key; how much of it *)
(*              makes no difference, a boundary drains all                 *)
(*                                                                         *)
(* Nothing here is durable: a crash of the process empties the mailbox.    *)
(***************************************************************************)
EXTENDS Naturals

(* "run": bound to the Run now executing; "any": no run_id given. *)
Keys == {"run", "any"}
Signals == {"none", "pause", "cancel"}

VARIABLES terminal, steers

controlVars == <<terminal, steers>>

ControlTypeOK == terminal \in [Keys -> Signals] /\ steers \in [Keys -> BOOLEAN]

ControlInit ==
  /\ terminal = [k \in Keys |-> "none"]
  /\ steers = [k \in Keys |-> FALSE]

(* Fault: the latest signal wins. *)
SetLatest(k, signal) ==
  terminal' = [terminal EXCEPT ![k] = signal] /\ UNCHANGED steers

(* pause and cancel: within one key a later pause does not replace a cancel. *)
SetTerminal(k, signal) ==
  /\ terminal' = [terminal EXCEPT ![k] = IF @ = "cancel" THEN @ ELSE signal]
  /\ UNCHANGED steers

Steer(k) == steers' = [steers EXCEPT ![k] = TRUE] /\ UNCHANGED terminal

Requested == \E k \in Keys : terminal[k] # "none"
Steered   == \E k \in Keys : steers[k]

(* take_terminal: the signal bound to the Run first, then the unbound one. *)
TakeTerminal(signal) ==
  /\ Requested
  /\ LET key == IF terminal["run"] # "none" THEN "run" ELSE "any"
     IN  signal = terminal[key] /\ terminal' = [terminal EXCEPT ![key] = "none"]
  /\ UNCHANGED steers

DrainSteers == steers' = [k \in Keys |-> FALSE] /\ UNCHANGED terminal

(* The next Run has another id: nobody polls what was bound to the last one. *)
Unbind ==
  /\ terminal' = [terminal EXCEPT !["run"] = "none"]
  /\ steers' = [steers EXCEPT !["run"] = FALSE]

EmptyMailbox ==
  /\ terminal' = [k \in Keys |-> "none"]
  /\ steers' = [k \in Keys |-> FALSE]
=============================================================================
