---------------------------- MODULE ThreadContext ---------------------------
(***************************************************************************)
(* What the model is told of a long Thread: the journal, the digest that   *)
(* stands for its older part, and the Runs that page through the rest and  *)
(* move it into the digest before they call the model.                     *)
(*                                                                         *)
(*   journal   conversation.jsonl                                          *)
(*   context   context_state.json: its revision, the covered sequence and  *)
(*             the digest of the items up to it                            *)
(*   active, owner   thread.json: the active Turn, each Turn's current Run *)
(*   ckpt      the context_revision in the checkpoint of a Run             *)
(*                                                                         *)
(* A Run is a process; rev is session.context_revision, base the state it  *)
(* loaded, page the items it holds (journal positions in model order), and *)
(* more says that the journal goes on behind the page.  A Turn is named by *)
(* the Run that starts it.  Claims and terminal states are in RunOwnership *)
(* and AgentLoop; here they only decide who may append.                    *)
(*                                                                         *)
(* Every step reads or writes one file under the Thread lock, so a         *)
(* superseded Run that is still alive comes between any two of them, and a *)
(* process may die between any two.                                        *)
(***************************************************************************)
EXTENDS Naturals, SequencesExt, FiniteSetsExt

CONSTANTS MaxRuns,    \* bound on the Runs of the Thread
          MaxAlive,   \* bound on the Runs alive at a time
          MaxItems,   \* bound on the items of the journal
          PageLimit,  \* items of a page
          Lookahead,  \* items read to complete the last batch of a page
          Batches,    \* tool batches the model may propose
          Faults      \* "crash": a process dies; "cancel": it is cancelled before its first step

ASSUME ContextAssumption ==
  /\ MaxRuns \in Nat \ {0} /\ MaxAlive \in Nat \ {0} /\ MaxItems \in Nat /\ PageLimit \in Nat \ {0}
  /\ Lookahead \in Nat /\ Batches \subseteq Seq({"ask", "write", "check"})
  /\ \A b \in Batches : b # <<>> /\ Len(b) + 1 <= Lookahead
  /\ Faults \subseteq {"crash", "cancel"}

Runs == 1..MaxRuns

VARIABLES journal, context, active, owner, ckpt, turn, pc, rev, base, page, more

threadVars == <<active, owner>>
localVars  == <<rev, base, page, more>>
vars == <<journal, context, threadVars, ckpt, turn, pc, localVars>>

----------------------------------------------------------------------------
(* Items: the human "input" of a Turn, a "steer" or an "answer" of its     *)
(* operator, a "batch" of calls, a "tool" result, the "final" answer.      *)
Kinds   == {"input", "steer", "answer", "batch", "tool", "final"}
Results == {"ask", "write", "check", "fail"}
Item(kind, t, calls) == [kind |-> kind, turn |-> t, calls |-> calls]
Human(i) == journal[i].kind \in {"steer", "answer"}
Result(i) == IF journal[i].kind = "tool" THEN journal[i].calls[1] ELSE "none"

(* The items of the batch at b: it ends with the result of its last call,  *)
(* and an item of another kind than a result or an answer breaks it.       *)
ResultsAt(b, end) == {i \in b + 1..end : journal[i].kind = "tool"}
IsComplete(b, end) ==
  \E e \in b + 1..end : /\ Cardinality(ResultsAt(b, e)) = Len(journal[b].calls)
                        /\ \A i \in b + 1..e : journal[i].kind \in {"tool", "answer"}
IsBroken(b, end) ==
  ~IsComplete(b, end) /\ \E i \in b + 1..end : journal[i].kind \notin {"tool", "answer"}
BatchesIn(first, last) == {i \in first..last : journal[i].kind = "batch"}

(* The batch the last step left open, 0 if there is none. *)
OpenBatch ==
  LET open == {b \in BatchesIn(1, Len(journal)) :
                 ~IsComplete(b, Len(journal)) /\ ~IsBroken(b, Len(journal))}
  IN  IF open = {} THEN 0 ELSE Max(open)

(* load_transaction_safe_conversation_page: up to PageLimit items, then as *)
(* few more as complete the last batch.  <<>> stands for the RuntimeError  *)
(* of a batch that is broken, or not complete in the lookahead.            *)
PageEnd(after) ==
  LET last == Min({after + PageLimit, Len(journal)})
      whole == {e \in last..Min({last + Lookahead, Len(journal)}) :
                  \A b \in BatchesIn(after + 1, e) : IsComplete(b, e)}
  IN  IF whole = {} THEN 0 ELSE Min(whole)

(* _normalize_conversation_transactions, one item after the other: what is *)
(* said in an open batch is held until its results are complete.           *)
Open(after, n) == \E b \in BatchesIn(after + 1, n) : ~IsComplete(b, n)
Normalized(after, last) ==
  LET read[n \in 0..last] ==
        LET before == read[n - 1]
        IN  IF n <= after THEN [said |-> <<>>, held |-> <<>>]
            ELSE IF ~Open(after, n)
                 THEN [said |-> Append(before.said, n) \o before.held, held |-> <<>>]
            ELSE IF journal[n].kind = "answer"
                 THEN [before EXCEPT !.held = Append(@, n)]
                 ELSE [before EXCEPT !.said = Append(@, n)]
  IN  read[last].said

(* Fault: a segment ends with the results, the answer starts another. *)
SplitJoins(items, k) == journal[items[k]].kind = "tool"

(* _group_history_segments: results stay with their calls, and the answer  *)
(* of a question with its batch.                                           *)
Joins(items, k) ==
  \/ journal[items[k]].kind = "tool"
  \/ /\ journal[items[k]].kind = "answer"
     /\ k > 1 /\ journal[items[k - 1]].kind = "tool"
     /\ \E j \in 1..k - 1 : /\ journal[items[j]].kind = "batch"
                            /\ "ask" \in Range(journal[items[j]].calls)
                            /\ \A l \in j + 1..k - 1 : journal[items[l]].kind = "tool"

(* Where a segment of the items ends. *)
Ends(items) == {k \in DOMAIN items : k = Len(items) \/ ~Joins(items, k + 1)}

----------------------------------------------------------------------------
(* A digest: the Turn whose human updates it keeps, the items it stands    *)
(* for, these updates, and the validation that still holds (0: none).      *)
NoDigest == [turn |-> 0, items |-> <<>>, updates |-> {}, evidence |-> 0]
Latest(S) == IF S = {} THEN 0 ELSE Max(S)
Writes(S) == {i \in S : Result(i) = "write"}
ValidIn(S) == Latest({i \in S : Result(i) = "check" /\ \A w \in Writes(S) : w < i})

(* _build_digest of one segment. *)
Build(t, items) ==
  [turn |-> t, items |-> items,
   updates |-> {i \in Range(items) : Human(i) /\ journal[i].turn = t},
   evidence |-> ValidIn(Range(items))]

(* _merge_digest: a write in the newer part ends the older validation. *)
Merge(previous, delta) ==
  IF previous = NoDigest THEN delta
  ELSE [turn |-> previous.turn,
        items |-> previous.items \o delta.items,
        updates |-> previous.updates \cup delta.updates,
        evidence |-> IF delta.evidence # 0 \/ Writes(Range(delta.items)) # {}
                     THEN delta.evidence ELSE previous.evidence]

(* The rolling digest over the segments up to cut, each built on its own   *)
(* and merged, and the whole merged into the old one.                      *)
Rolled(previous, t, items, cut) ==
  LET roll[k \in 0..cut] ==
        LET before == roll[k - 1]
        IN  IF k = 0 THEN [sum |-> NoDigest, from |-> 1]
            ELSE IF k \in Ends(items)
                 THEN [sum |-> Merge(before.sum, Build(t, SubSeq(items, before.from, k))),
                       from |-> k + 1]
            ELSE before
  IN  Merge(previous, roll[cut].sum)

(* Fault: the updates of the old Turn stay. *)
RetargetedKeepingUpdates(t) ==
  [context EXCEPT !.rev = @ + 1,
                  !.digest = IF @ = NoDigest THEN @ ELSE [@ EXCEPT !.turn = t]]

(* with_started_turn_snapshot: the digest goes over to the new Turn, which *)
(* has no updates yet; the snapshot itself makes a new revision.           *)
Retargeted(t) ==
  [context EXCEPT !.rev = @ + 1,
                  !.digest = IF @ = NoDigest THEN @ ELSE [@ EXCEPT !.turn = t, !.updates = {}]]

----------------------------------------------------------------------------
Points == {"new", "planned", "claimed", "session", "batch", "load", "page", "tail", "window",
           "mark", "model", "ended"}
Digests == [turn : 0..MaxRuns, items : Seq(1..MaxItems), updates : SUBSET (1..MaxItems),
            evidence : 0..MaxItems]
Contexts == [rev : Nat, covered : 0..MaxItems, digest : Digests]
EmptyContext == [rev |-> 0, covered |-> 0, digest |-> NoDigest]

(* Types; no process and no checkpoint holds a revision that is not        *)
(* durable, and the digest covers nothing that is not in the journal.      *)
TypeOK ==
  /\ journal \in Seq([kind : Kinds, turn : Runs, calls : Seq(Results)])
  /\ Len(journal) <= MaxItems
  /\ context \in Contexts /\ context.covered <= Len(journal)
  /\ active \in 0..MaxRuns /\ owner \in [Runs -> 0..MaxRuns]
  /\ turn \in [Runs -> 0..MaxRuns] /\ pc \in [Runs -> Points]
  /\ base \in [Runs -> Contexts] /\ page \in [Runs -> Seq(1..MaxItems)]
  /\ more \in [Runs -> BOOLEAN]
  /\ \A r \in Runs : rev[r] \in 0..context.rev /\ ckpt[r] \in 0..context.rev

Init ==
  /\ journal = <<>> /\ context = EmptyContext
  /\ active = 0 /\ owner = [t \in Runs |-> 0]
  /\ ckpt = [r \in Runs |-> 0] /\ turn = [r \in Runs |-> 0]
  /\ pc = [r \in Runs |-> "new"] /\ rev = [r \in Runs |-> 0]
  /\ base = [r \in Runs |-> EmptyContext]
  /\ page = [r \in Runs |-> <<>>] /\ more = [r \in Runs |-> FALSE]

At(r, point) == pc[r] = point
Goto(r, point) == pc' = [pc EXCEPT ![r] = point]
NextRun(r) ==
  /\ At(r, "new") /\ \A q \in 1..r - 1 : ~At(q, "new")
  /\ Cardinality({q \in Runs : pc[q] \notin {"new", "ended"}}) < MaxAlive
Rest(n) == Len(journal) + n <= MaxItems

(* _append_unlocked accepts a new item of the current Run of the active    *)
(* Turn only.                                                              *)
MayAppend(r) == active = turn[r] /\ owner[turn[r]] = r

(* The Run is over, with its local state. *)
End(r) ==
  /\ Goto(r, "ended")
  /\ base' = [base EXCEPT ![r] = EmptyContext] /\ page' = [page EXCEPT ![r] = <<>>]
  /\ more' = [more EXCEPT ![r] = FALSE] /\ rev' = [rev EXCEPT ![r] = 0]

----------------------------------------------------------------------------
(* _plan_thread_run for a new Turn reads the revision its claim expects. *)
Plan(r) ==
  /\ NextRun(r) /\ active = 0
  /\ turn' = [turn EXCEPT ![r] = r] /\ rev' = [rev EXCEPT ![r] = context.rev]
  /\ Goto(r, "planned")
  /\ UNCHANGED <<journal, context, threadVars, ckpt, base, page, more>>

(* start_turn, in one critical section: the snapshot and the digest of the *)
(* new Turn, if the revision is still the planned one, then its first item. *)
(* A crash in between leaves the context state without the Turn.           *)
Start(r) ==
  /\ At(r, "planned")
  /\ IF active # 0 \/ context.rev # rev[r]
     THEN End(r) /\ UNCHANGED <<journal, context, threadVars, ckpt>>
     ELSE /\ Rest(1)
          /\ context' = Retargeted(r)
          /\ \/ /\ journal' = Append(journal, Item("input", r, <<>>))
                /\ active' = r /\ owner' = [owner EXCEPT ![r] = r]
                /\ ckpt' = [ckpt EXCEPT ![r] = rev[r]]
                /\ Goto(r, "claimed") /\ UNCHANGED localVars
             \/ "crash" \in Faults /\ End(r) /\ UNCHANGED <<journal, threadVars, ckpt>>
  /\ UNCHANGED turn

(* A resume of the active Turn: the new Run copies the revision of the     *)
(* checkpoint it continues and takes the place of the current Run, whether *)
(* or not that is still alive.                                             *)
Resume(r) ==
  /\ NextRun(r) /\ active # 0
  /\ turn' = [turn EXCEPT ![r] = active] /\ owner' = [owner EXCEPT ![active] = r]
  /\ rev' = [rev EXCEPT ![r] = ckpt[owner[active]]]
  /\ ckpt' = [ckpt EXCEPT ![r] = ckpt[owner[active]]]
  /\ Goto(r, "claimed")
  /\ UNCHANGED <<journal, context, active, base, page, more>>

(* create_session: the durable revision, unless the request is ahead of it, *)
(* and record_run, which refuses a Run that is no longer current.          *)
CreateSession(r) ==
  /\ At(r, "claimed")
  /\ IF MayAppend(r) /\ rev[r] <= context.rev
     THEN /\ rev' = [rev EXCEPT ![r] = context.rev]
          /\ ckpt' = [ckpt EXCEPT ![r] = context.rev]
          /\ Goto(r, "session") /\ UNCHANGED <<base, page, more>>
     ELSE End(r) /\ UNCHANGED ckpt
  /\ UNCHANGED <<journal, context, threadVars, turn>>

(* A cancel at the boundary before_run ends the Turn as it is. *)
Cancel(r) ==
  /\ "cancel" \in Faults /\ At(r, "session")
  /\ IF MayAppend(r) THEN active' = 0 ELSE UNCHANGED active
  /\ End(r)
  /\ UNCHANGED <<journal, context, owner, ckpt, turn>>

(* _refresh_conversation_view at the end of prepare_run, then the open     *)
(* batch, if there is one, or the first model step.                        *)
RefreshView(r) ==
  /\ At(r, "session")
  /\ rev' = [rev EXCEPT ![r] = context.rev]
  /\ Goto(r, IF OpenBatch # 0 THEN "batch" ELSE "load")
  /\ UNCHANGED <<journal, context, threadVars, ckpt, turn, base, page, more>>

(* The next item of the open batch: its answer, before the result of the   *)
(* question, or the next result.  A question is a barrier: no other call   *)
(* of its batch is executed.                                               *)
Observe(r) ==
  /\ At(r, "batch")
  /\ IF ~MayAppend(r) \/ OpenBatch = 0
     THEN End(r) /\ UNCHANGED journal
     ELSE LET b == OpenBatch
              n == Cardinality(ResultsAt(b, Len(journal))) + 1
              call == journal[b].calls[n]
              answered == \E i \in b..Len(journal) : journal[i].kind = "answer"
              barred == call # "ask" /\ "ask" \in Range(journal[b].calls)
              outcomes == CASE barred -> {"fail"}
                            [] call = "write" -> {"write", "fail"}
                            [] OTHER -> {call}
          IN  /\ Rest(1)
              /\ IF call = "ask" /\ ~answered
                 THEN journal' = Append(journal, Item("answer", turn[r], <<>>))
                 ELSE \E o \in outcomes : journal' = Append(journal, Item("tool", turn[r], <<o>>))
              /\ Goto(r, IF n = Len(journal[b].calls) /\ Len(journal') - b >= Len(journal[b].calls)
                              /\ journal'[Len(journal')].kind = "tool"
                         THEN "load" ELSE "batch")
              /\ UNCHANGED localVars
  /\ UNCHANGED <<context, threadVars, ckpt, turn>>

----------------------------------------------------------------------------
(* _refresh_thread_context_view, first read: a state of another revision   *)
(* ends the Run.                                                           *)
LoadState(r) ==
  /\ At(r, "load")
  /\ IF context.rev # rev[r] THEN End(r)
     ELSE base' = [base EXCEPT ![r] = context] /\ Goto(r, "page") /\ UNCHANGED <<rev, page, more>>
  /\ UNCHANGED <<journal, context, threadVars, ckpt, turn>>

(* Second read: the page behind the covered sequence. *)
LoadPage(r) ==
  /\ At(r, "page")
  /\ LET last == PageEnd(base[r].covered)
     IN  IF last = 0 THEN End(r)
         ELSE /\ page' = [page EXCEPT ![r] = Normalized(base[r].covered, last)]
              /\ Goto(r, "tail") /\ UNCHANGED <<rev, base, more>>
  /\ UNCHANGED <<journal, context, threadVars, ckpt, turn>>

LastLoaded(r) == IF page[r] = <<>> THEN base[r].covered ELSE Max(Range(page[r]))

(* Fault: a page that is not exactly full is taken for the last one. *)
ReadTailBySize(r) ==
  /\ At(r, "tail")
  /\ more' = [more EXCEPT ![r] = Len(page[r]) = PageLimit]
  /\ Goto(r, "window")
  /\ UNCHANGED <<journal, context, threadVars, ckpt, turn, rev, base, page>>

(* Third read: is there more in the journal? *)
ReadTail(r) ==
  /\ At(r, "tail")
  /\ more' = [more EXCEPT ![r] = Len(journal) > LastLoaded(r)]
  /\ Goto(r, "window")
  /\ UNCHANGED <<journal, context, threadVars, ckpt, turn, rev, base, page>>

OwnDigest(r) == base[r].digest = NoDigest \/ base[r].digest.turn = turn[r]

(* PromptWindowManager.prepare keeps the whole page, or finds no prefix to *)
(* compact: the model gets it, unless the journal goes on.                 *)
KeepPage(r) ==
  /\ At(r, "window")
  /\ IF OwnDigest(r) /\ ~more[r]
     THEN Goto(r, "model") /\ UNCHANGED localVars
     ELSE End(r)
  /\ UNCHANGED <<journal, context, threadVars, ckpt, turn>>

Saved(r, cut) ==
  [rev |-> context.rev + 1,
   covered |-> Max(Range(SubSeq(page[r], 1, cut))),
   digest |-> Rolled(base[r].digest, turn[r], page[r], cut)]

(* The Run goes on with what it saved and the items behind the cut. *)
Adopt(r, cut) ==
  /\ context' = Saved(r, cut)
  /\ base' = [base EXCEPT ![r] = Saved(r, cut)]
  /\ page' = [page EXCEPT ![r] = SubSeq(page[r], cut + 1, Len(page[r]))]
  /\ rev' = [rev EXCEPT ![r] = context.rev + 1]
  /\ Goto(r, "mark") /\ UNCHANGED more

(* Fault: the last writer wins. *)
CompactAnyway(r) ==
  /\ At(r, "window") /\ OwnDigest(r)
  /\ \E cut \in Ends(page[r]) \ {Len(page[r])} : Adopt(r, cut)
  /\ UNCHANGED <<journal, threadVars, ckpt, turn>>

(* _save_thread_digest: a proper prefix of the segments goes into the      *)
(* digest, if the state on disk is still the one that was loaded.          *)
Compact(r) ==
  /\ At(r, "window") /\ OwnDigest(r)
  /\ \E cut \in Ends(page[r]) \ {Len(page[r])} :
       IF context.rev = base[r].rev
       THEN Adopt(r, cut)
       ELSE End(r) /\ UNCHANGED context
  /\ UNCHANGED <<journal, threadVars, ckpt, turn>>

(* Fault: the checkpoint is one revision ahead. *)
MarkAhead(r) ==
  /\ At(r, "mark")
  /\ ckpt' = [ckpt EXCEPT ![r] = rev[r] + 1]
  /\ Goto(r, IF more[r] THEN "load" ELSE "model")
  /\ UNCHANGED <<journal, context, threadVars, turn, localVars>>

(* The checkpoint follows; then the next page, or the model. *)
Mark(r) ==
  /\ At(r, "mark")
  /\ ckpt' = [ckpt EXCEPT ![r] = rev[r]]
  /\ Goto(r, IF more[r] THEN "load" ELSE "model")
  /\ UNCHANGED <<journal, context, threadVars, turn, localVars>>

----------------------------------------------------------------------------
(* The Run goes on with what the model or the operator said: guidance, a   *)
(* batch, or the accepted answer, which ends the Turn.  Its next view is   *)
(* read anew.                                                              *)
DropView(r) ==
  /\ base' = [base EXCEPT ![r] = EmptyContext] /\ page' = [page EXCEPT ![r] = <<>>]
  /\ more' = [more EXCEPT ![r] = FALSE] /\ UNCHANGED rev

Say(r, item, next) ==
  /\ At(r, "model") /\ MayAppend(r) /\ Rest(1)
  /\ journal' = Append(journal, item)
  /\ DropView(r) /\ Goto(r, next)
  /\ UNCHANGED <<context, owner, ckpt, turn>>

Steer(r) == Say(r, Item("steer", turn[r], <<>>), "load") /\ UNCHANGED active
Propose(r) ==
  \E b \in Batches : /\ Rest(Len(b) + IF "ask" \in Range(b) THEN 2 ELSE 1)
                     /\ Say(r, Item("batch", turn[r], b), "batch")
                     /\ UNCHANGED active
Finish(r) == Say(r, Item("final", turn[r], <<>>), "ended") /\ active' = 0

(* What a superseded Run would append is refused. *)
Refused(r) ==
  /\ At(r, "model") /\ ~MayAppend(r)
  /\ End(r)
  /\ UNCHANGED <<journal, context, threadVars, ckpt, turn>>

Crash(r) ==
  /\ "crash" \in Faults /\ pc[r] \notin {"new", "ended"}
  /\ End(r)
  /\ UNCHANGED <<journal, context, threadVars, ckpt, turn>>

Prepare(r) == LoadState(r) \/ LoadPage(r) \/ ReadTail(r) \/ KeepPage(r) \/ Compact(r) \/ Mark(r)
Work(r) == \/ Start(r) \/ CreateSession(r) \/ Cancel(r) \/ RefreshView(r) \/ Observe(r)
           \/ Prepare(r) \/ Steer(r) \/ Propose(r) \/ Finish(r) \/ Refused(r)

Next == \E r \in Runs : Plan(r) \/ Resume(r) \/ Work(r) \/ Crash(r)

Spec == Init /\ [][Next]_vars

----------------------------------------------------------------------------
(* When the Run that owns the Turn calls the model, the digest and the     *)
(* window together are the whole journal, every item once.                 *)
CompleteRequest ==
  \A r \in Runs :
    At(r, "model") /\ MayAppend(r) =>
      LET told == base[r].digest.items \o page[r]
      IN  Range(told) = 1..Len(journal) /\ Len(told) = Len(journal)

(* Whoever saved it, the stored digest stands for the items up to the      *)
(* covered sequence, each once, never for half a batch, and the validation *)
(* it keeps is the last one, with no write after it.                       *)
DigestIsExact ==
  LET covered == 1..context.covered
      items == context.digest.items
  IN  /\ Range(items) = covered /\ Len(items) = context.covered
      /\ \A b \in BatchesIn(1, context.covered) : IsComplete(b, context.covered)
      /\ context.digest.evidence = ValidIn(covered)

(* What the humans of a Turn said in it reaches every model call of that   *)
(* Turn, in the window or among the updates of the digest, and the updates *)
(* of other Turns do not.                                                  *)
AuthorityKept ==
  \A r \in Runs :
    At(r, "model") =>
      LET digest == base[r].digest
          said == {i \in Range(digest.items) : Human(i) /\ journal[i].turn = turn[r]}
      IN  digest.updates = said

(* No save undoes another: every version of the context state is made from *)
(* the one before it, whose digest it contains.                            *)
DigestOnlyGrows ==
  [][/\ context' # context => context'.rev = context.rev + 1
     /\ context'.covered >= context.covered
     /\ IsPrefix(context.digest.items, context'.digest.items)]_vars
=============================================================================
