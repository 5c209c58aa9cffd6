---------------------------- MODULE LiveHandoff ----------------------------
(***************************************************************************)
(* LiveHandoffRuntime (multi_agent/application/live_handoff.py): versions  *)
(* of semantic evidence that a running producer hands to a consumer        *)
(* started early.  Every operation runs under the runtime's one lock and   *)
(* is an action here; those of the coordinator are conjoined by Fanout.    *)
(*                                                                         *)
(*   attempt, worker, sealed   per task: current attempt (0: none), the    *)
(*             state of its worker, the attempt whose candidate was merged *)
(*   events    every accepted event, latest the newest READY or UPDATE of  *)
(*             each <<producer, consumer>> edge                            *)
(*   mailbox   per task, the events to hand over at its next model step    *)
(*   consumed  per edge, the version the consumer's model has seen         *)
(*   delivered per task, the events that entered its model input           *)
(*                                                                         *)
(* An event's text is what it is about: for a FEEDBACK the attempt of the  *)
(* producer it answers.  A rejected publication changes nothing and has no *)
(* action; the coordination log is written with the lock held and left out.*)
(***************************************************************************)
EXTENDS FanoutPlan

CONSTANTS Tasks,
          MaxVersion   \* bound on the versions published on one edge

VARIABLES plan, attempt, worker, sealed, latest, mailbox, consumed, delivered, events

liveVars == <<attempt, worker, sealed, latest, mailbox, consumed, delivered, events>>

Edges == Tasks \X Tasks
Attempts == 0..2
WorkerStates == {"pending", "running", "finished", "failed", "integration_authorized",
                 "integrated"}
Events == [type : {"READY", "FEEDBACK", "UPDATE"}, from : Tasks, to : Tasks,
           version : 1..MaxVersion, attempt : 1..2, about : Attempts]
NoEvent == [type |-> "none"]
Unread == [version |-> 0, attempt |-> 0]

LiveTypeOK ==
  /\ attempt \in [Tasks -> Attempts]
  /\ worker \in [Tasks -> WorkerStates]
  /\ sealed \in [Tasks -> Attempts]
  /\ events \subseteq Events
  /\ latest \in [Edges -> Events \cup {NoEvent}]
  /\ mailbox \in [Tasks -> Seq(Events)]
  /\ consumed \in [Edges -> [version : 0..MaxVersion, attempt : Attempts]]
  /\ delivered \in [Tasks -> SUBSET Events]

LiveInit ==
  /\ attempt = [t \in Tasks |-> 0]
  /\ worker = [t \in Tasks |-> "pending"]
  /\ sealed = [t \in Tasks |-> 0]
  /\ events = {}
  /\ latest = [e \in Edges |-> NoEvent]
  /\ mailbox = [t \in Tasks |-> <<>>]
  /\ consumed = [e \in Edges |-> Unread]
  /\ delivered = [t \in Tasks |-> {}]

Producers(t) == Upstream(plan.live, t)
Current(event) == attempt[event.from] = event.attempt
HasLatest(p, c) == latest[<<p, c>>] # NoEvent /\ Current(latest[<<p, c>>])

----------------------------------------------------------------------------
(* Fault: what others offer is not sent to the new attempt again. *)
InvalidateMailbox(t) ==
  /\ sealed' = [sealed EXCEPT ![t] = 0]
  /\ latest' = [e \in Edges |-> IF e[1] = t THEN NoEvent ELSE latest[e]]
  /\ consumed' = [e \in Edges |-> IF t \in {e[1], e[2]} THEN Unread ELSE consumed[e]]
  /\ mailbox' = [u \in Tasks |-> IF u = t THEN <<>>
                   ELSE Kept(mailbox[u], {event \in Events : event.from # t})]
  /\ delivered' = [delivered EXCEPT ![t] = {}]

(* What a retry of t leaves of the previous attempt: nothing it published, *)
(* consumed or was sent, except that what others still offer it is sent    *)
(* again.                                                                  *)
InvalidateAttempt(t) ==
  LET kept == [e \in Edges |-> IF e[1] = t THEN NoEvent ELSE latest[e]]
      offered == {kept[e] : e \in {d \in Edges : d[2] = t /\ kept[d] # NoEvent}}
  IN  /\ sealed' = [sealed EXCEPT ![t] = 0]
      /\ latest' = kept
      /\ consumed' = [e \in Edges |-> IF t \in {e[1], e[2]} THEN Unread ELSE consumed[e]]
      /\ mailbox' = [u \in Tasks |->
           IF u = t THEN SetToSeq(offered)
           ELSE Kept(mailbox[u], {event \in Events : event.from # t})]
      /\ delivered' = [delivered EXCEPT ![t] = {}]

BeginAttempt(t, n) ==
  /\ n > attempt[t]
  /\ IF attempt[t] = 0 THEN UNCHANGED <<sealed, latest, consumed, mailbox, delivered>>
                       ELSE InvalidateAttempt(t)
  /\ attempt' = [attempt EXCEPT ![t] = n]
  /\ worker' = [worker EXCEPT ![t] = "running"]
  /\ UNCHANGED events

FinishAttempt(t, success) ==
  /\ worker[t] = "running"
  /\ worker' = [worker EXCEPT ![t] = IF success THEN "finished" ELSE "failed"]
  /\ UNCHANGED <<attempt, sealed, latest, mailbox, consumed, delivered, events>>

(* Every inbound edge offers a current version of a producer that has not failed. *)
LiveReady(t) ==
  \A p \in Producers(t) : HasLatest(p, t) /\ worker[p] # "failed"

----------------------------------------------------------------------------
Publish(event) ==
  /\ worker[event.from] = "running"
  /\ event \notin events
  /\ events' = events \cup {event}
  /\ latest' = IF event.type = "FEEDBACK" THEN latest
               ELSE [latest EXCEPT ![<<event.from, event.to>>] = event]
  /\ mailbox' = [mailbox EXCEPT ![event.to] = Append(@, event)]
  /\ UNCHANGED <<attempt, worker, sealed, consumed, delivered>>

PublishReady(p, c) ==
  /\ <<p, c>> \in plan.live
  /\ latest[<<p, c>>] = NoEvent
  /\ Publish([type |-> "READY", from |-> p, to |-> c, version |-> 1,
              attempt |-> attempt[p], about |-> 0])

(* A FEEDBACK of this edge that entered the producer's model input and     *)
(* whose author was not restarted since.                                   *)
IsCause(event, p, c) ==
  /\ event.type = "FEEDBACK" /\ event.from = c /\ event.to = p
  /\ event \in delivered[p]
  /\ Current(event)

PublishUpdate(p, c) ==
  LET newest == latest[<<p, c>>] IN
  /\ <<p, c>> \in plan.live
  /\ newest # NoEvent
  /\ newest.version < MaxVersion
  /\ \E cause \in delivered[p] : IsCause(cause, p, c)
  /\ Publish([type |-> "UPDATE", from |-> p, to |-> c, version |-> newest.version + 1,
              attempt |-> attempt[p], about |-> 0])

PublishFeedback(c, p) ==
  LET seen == consumed[<<p, c>>] IN
  /\ <<p, c>> \in plan.live
  /\ worker[p] = "running"
  /\ seen # Unread
  /\ Publish([type |-> "FEEDBACK", from |-> c, to |-> p, version |-> seen.version,
              attempt |-> attempt[c], about |-> seen.attempt])

(* The newest version among the handed over events, or what was seen before. *)
SeenAfter(handed, p, c) ==
  LET forward == Kept(handed, {event \in Events :
                   event.from = p /\ event.type # "FEEDBACK"})
  IN  IF forward = <<>> THEN consumed[<<p, c>>]
      ELSE [version |-> Last(forward).version, attempt |-> Last(forward).attempt]

DrainMailbox(t) ==
  LET handed == Kept(mailbox[t], {event \in Events : Current(event)}) IN
  /\ worker[t] = "running"
  /\ mailbox[t] # <<>>
  /\ mailbox' = [mailbox EXCEPT ![t] = <<>>]
  /\ delivered' = [delivered EXCEPT ![t] = @ \cup ToSet(handed)]
  /\ consumed' = [e \in Edges |->
       IF e[2] = t THEN SeenAfter(handed, e[1], t) ELSE consumed[e]]
  /\ UNCHANGED <<attempt, worker, sealed, latest, events>>

----------------------------------------------------------------------------
(* Fault: any version seen is good enough. *)
SawSomething(t) ==
  \A p \in Producers(t) : sealed[p] = attempt[p] /\ consumed[<<p, t>>] # Unread

(* The consumer saw exactly the last version of each producer, whose       *)
(* current attempt is merged and can publish nothing more.                 *)
IsFresh(t) ==
  \A p \in Producers(t) :
    /\ sealed[p] = attempt[p]
    /\ HasLatest(p, t)
    /\ consumed[<<p, t>>] = [version |-> latest[<<p, t>>].version,
                             attempt |-> latest[<<p, t>>].attempt]

AuthorizeIntegration(t) ==
  /\ worker[t] = "finished"
  /\ IsFresh(t)
  /\ worker' = [worker EXCEPT ![t] = "integration_authorized"]
  /\ UNCHANGED <<attempt, sealed, latest, mailbox, consumed, delivered, events>>

SealIntegration(t, success) ==
  /\ worker[t] \in {"finished", "integration_authorized"}
  /\ worker' = [worker EXCEPT ![t] = IF success THEN "integrated" ELSE "failed"]
  /\ sealed' = [sealed EXCEPT ![t] = IF success THEN attempt[t] ELSE 0]
  /\ UNCHANGED <<attempt, latest, mailbox, consumed, delivered, events>>

----------------------------------------------------------------------------
(* No version is lost on its way: what a producer offers to a running      *)
(* consumer is either what the consumer's model has seen or waits in its   *)
(* mailbox, whatever was retried meanwhile (publish, drain_mailbox and     *)
(* _invalidate_attempt_locked).                                            *)
NoLostHandoff ==
  \A e \in plan.live :
    (worker[e[2]] = "running" /\ HasLatest(e[1], e[2])) =>
      LET newest == latest[e] IN
      \/ consumed[e] = [version |-> newest.version, attempt |-> newest.attempt]
      \/ \E i \in DOMAIN mailbox[e[2]] : mailbox[e[2]][i] = newest

============================================================================
