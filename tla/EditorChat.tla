------------------------------ MODULE EditorChat ------------------------------
(***************************************************************************)
(* The chat beside a post: what its author asked, what the agent's runs    *)
(* did, what editors decided.  Several transactions write it at once.      *)
(*                                                                         *)
(* Each row that is added trims the oldest rows beyond a limit.  The       *)
(* session does not flush on its own: the rows that are counted are those  *)
(* that others have committed and those this transaction has flushed, not  *)
(* the row just added.  Rows that somebody is deleting are locked.         *)
(*                                                                         *)
(* A run commits its first rows before it calls the model, takes a         *)
(* savepoint when the model has answered, and adds the rest; a failure     *)
(* goes back to the savepoint and adds an error.                           *)
(***************************************************************************)
EXTENDS Naturals, Sequences, FiniteSets

CONSTANTS
  Requests,    \* transactions: turns, runs, decisions, clearings
  Limit,       \* MAX_MESSAGES_PER_POST
  MaxOverlap,  \* bound: transactions at once
  MaxFaults    \* bound: failures and deaths

ConstantsOK == Limit \in Nat /\ MaxFaults \in Nat

VARIABLES
  chat,    \* content_item_ai_chat_messages of the post: created_at of each
  clock,   \* created_at of the last row
  tx,      \* what a transaction is at
  faults

vars == <<chat, clock, tx, faults>>

Kinds == {"user", "assistant", "running", "context", "draft", "package", "completed",
          "result", "error", "decision"}

(* What each kind of transaction does, one step after the other *)

Steps == Kinds \cup {"flush", "commit", "savepoint", "clear"}

Started(asked) ==
  (IF asked THEN <<"user">> ELSE <<>>) \o <<"running", "flush", "commit">>

\* An approval adds what became of the draft.
Decided(approved) == <<"decision", "result">> \o (IF approved THEN <<"result">> ELSE <<>>)

\* What the model has proposed: nothing, a package of sources, a draft, or a
\* draft that the policy resolves at once.
Outcomes == {"nothing", "package", "draft", "approved", "rejected"}
Proposed(what) ==
  CASE what = "nothing" -> <<"completed">>
    [] what \in {"package", "draft"} -> <<what, "flush", "completed", "result">>
    [] OTHER -> <<"draft">> \o Decided(what = "approved") \o <<"flush", "completed", "result">>

Runs(asked, what) ==
  Started(asked) \o <<"savepoint", "context", "flush">> \o Proposed(what) \o <<"commit">>

\* The last one: approved sources have their run in the same session.
Programs ==
  {<<"user", "assistant", "commit">>, <<"clear", "commit">>}
    \cup {Runs(asked, what) : asked \in BOOLEAN, what \in Outcomes}
    \cup {Decided(approved) \o <<"flush", "commit">> : approved \in BOOLEAN}
    \cup {Decided(FALSE) \o <<"flush">> \o Runs(asked, "draft") : asked \in BOOLEAN}

\* Fields: todo, the steps that are left; added, rows that are not flushed;
\* flushed, and removed, what the database knows of this transaction; doomed,
\* rows it is about to delete; saved, what goes back to the savepoint, if there
\* is one; running, a run that would report its failure; alone, no other
\* transaction was there.
Idle == [state |-> "idle"]

Over == {[state |-> "done"], [state |-> "dead"]}
Rows == SUBSET (1..clock)

TypeOK ==
  /\ clock \in Nat /\ chat \in Rows /\ faults \in 0..MaxFaults
  /\ tx \in [Requests -> {Idle} \cup Over \cup
       [state : {"open"}, todo : Seq(Steps), added : Rows, flushed : Rows, removed : Rows,
        doomed : Rows, saved : {<<>>} \cup (Rows \X Rows), running : BOOLEAN, alone : BOOLEAN]]

Init ==
  /\ chat = {} /\ clock = 0 /\ faults = 0
  /\ tx = [r \in Requests |-> Idle]

Open == {r \in Requests : tx[r].state = "open"}
Fault == faults < MaxFaults /\ faults' = faults + 1

Step(r) == Head(tx[r].todo)
At(r, steps) == r \in Open /\ tx[r].doomed = {} /\ Step(r) \in steps

-----------------------------------------------------------------------------
Begin(r, program) ==
  /\ tx[r] = Idle /\ Cardinality(Open) < MaxOverlap
  /\ tx' = [s \in Requests |->
       IF s = r THEN [state |-> "open", todo |-> program, added |-> {}, flushed |-> {},
                      removed |-> {}, doomed |-> {}, saved |-> <<>>, running |-> FALSE,
                      alone |-> Open = {}]
       ELSE IF s \in Open THEN [tx[s] EXCEPT !.alone = FALSE] ELSE tx[s]]
  /\ UNCHANGED <<chat, clock, faults>>

\* What the transaction sees of the chat.
Seen(r) == (chat \ tx[r].removed) \cup tx[r].flushed

Oldest(rows, n) == {m \in rows : Cardinality({o \in rows : o < m}) < n}

\* Variant: one row makes room for one.
TrimmedByOne(rows) == IF Cardinality(rows) <= Limit THEN {} ELSE Oldest(rows, 1)

Excess(rows) == IF Cardinality(rows) <= Limit THEN {} ELSE Oldest(rows, Cardinality(rows) - Limit)

AppendEvent(r) ==
  /\ At(r, Kinds)
  /\ clock' = clock + 1
  /\ tx' = [tx EXCEPT ![r].todo = Tail(@), ![r].doomed = Excess(Seen(r)),
                      ![r].added = @ \cup {clock + 1},
                      ![r].running = @ \/ Step(r) = "running"]
  /\ UNCHANGED <<chat, faults>>

\* A row that another transaction deletes is waited for.
Unlocked(r, rows) == \A s \in Open \ {r} : tx[s].removed \cap rows = {}

Trim(r) ==
  /\ r \in Open /\ tx[r].doomed # {} /\ Unlocked(r, tx[r].doomed)
  /\ tx' = [tx EXCEPT ![r].doomed = {}, ![r].flushed = @ \ tx[r].doomed,
                      ![r].removed = @ \cup (tx[r].doomed \cap chat)]
  /\ UNCHANGED <<chat, clock, faults>>

Clear(r) ==
  /\ At(r, {"clear"}) /\ Unlocked(r, chat)
  /\ tx' = [tx EXCEPT ![r].todo = Tail(@), ![r].removed = chat]
  /\ UNCHANGED <<chat, clock, faults>>

Flush(r) ==
  /\ At(r, {"flush"})
  /\ tx' = [tx EXCEPT ![r].todo = Tail(@), ![r].added = {},
                      ![r].flushed = @ \cup tx[r].added]
  /\ UNCHANGED <<chat, clock, faults>>

Savepoint(r) ==
  /\ At(r, {"savepoint"})
  /\ tx' = [tx EXCEPT ![r].todo = Tail(@), ![r].saved = <<tx[r].flushed, tx[r].removed>>]
  /\ UNCHANGED <<chat, clock, faults>>

\* A commit flushes.  A run goes on with the next transaction.
Commit(r) ==
  /\ At(r, {"commit"})
  /\ chat' = (chat \ tx[r].removed) \cup tx[r].flushed \cup tx[r].added
  /\ tx' = [tx EXCEPT ![r] =
       IF Len(tx[r].todo) = 1 THEN [state |-> "done"]
       ELSE [tx[r] EXCEPT !.todo = Tail(tx[r].todo), !.added = {}, !.flushed = {}, !.removed = {}]]
  /\ UNCHANGED <<clock, faults>>

\* A run reports that it failed.
Fail(r) ==
  /\ r \in Open /\ tx[r].running /\ Fault
  /\ tx' = [tx EXCEPT ![r].todo = <<"error", "commit">>, ![r].doomed = {}, ![r].running = FALSE,
                      ![r].added = IF tx[r].saved = <<>> THEN @ ELSE {},
                      ![r].flushed = IF tx[r].saved = <<>> THEN @ ELSE tx[r].saved[1],
                      ![r].removed = IF tx[r].saved = <<>> THEN @ ELSE tx[r].saved[2]]
  /\ UNCHANGED <<chat, clock>>

\* Everything else that fails, and a death, leaves what was committed.
Abort(r) ==
  /\ r \in Open /\ Fault
  /\ tx' = [tx EXCEPT ![r] = [state |-> "dead"]]
  /\ UNCHANGED <<chat, clock>>

Next ==
  \E r \in Requests :
    \/ \E program \in Programs : Begin(r, program)
    \/ AppendEvent(r) \/ Trim(r) \/ Clear(r) \/ Flush(r) \/ Savepoint(r) \/ Commit(r)
    \/ Fail(r) \/ Abort(r)

Spec == Init /\ [][Next]_vars

-----------------------------------------------------------------------------
(* Properties *)

\* What a transaction adds after the last flush before its last count.
Unflushed == 3

\* Whatever was added by transactions that did not see each other's rows, by
\* failures and by waiting deletions: one that has the chat for itself brings
\* it back to the limit, but for the rows it could not count.
AloneKeepsLimit ==
  [][\A r \in Open : tx[r].alone /\ chat' # chat => Cardinality(chat') <= Limit + Unflushed]_vars
=============================================================================
