------------------------------ MODULE RowLocks ------------------------------
(***************************************************************************)
(* PostgreSQL row locks, as the handlers use them.  A transaction is the    *)
(* sequence of its lock statements; it holds the locks of the statements    *)
(* it has passed until it ends, so what it holds is its place in the        *)
(* sequence.  The database is external; the modes and the clashes are those *)
(* of the statements the handlers issue:                                    *)
(*   SELECT ... FOR UPDATE, DELETE               "update"                   *)
(*   UPDATE of columns that are no key           "no_key_update"            *)
(*   SELECT ... FOR SHARE                        "share"                    *)
(*   the foreign key check of an INSERT          "key_share"                *)
(*   an unlocked read                            "read"                     *)
(***************************************************************************)
EXTENDS Integers, Sequences

CONSTANT Procs     \* API requests being served, each on its own connection

VARIABLES
  script,          \* lock statements of the transaction a process runs
  pc               \* number of those statements passed, plus one; 0 when idle

lockVars == <<script, pc>>

Clashes ==
  {<<"key_share", "update">>,
   <<"share", "no_key_update">>, <<"share", "update">>,
   <<"no_key_update", "no_key_update">>, <<"no_key_update", "update">>,
   <<"update", "update">>}

Clash(m, n) == <<m, n>> \in Clashes \/ <<n, m>> \in Clashes

Take(table, id, mode) == [table |-> table, row |-> <<table, id>>, mode |-> mode]

Running(p) == pc[p] > 0

Waiting(p) == pc[p] \in 1 .. Len(script[p])

Step(p) == script[p][pc[p]]

Held(p) == {script[p][i] : i \in 1 .. pc[p] - 1}

Denies(lock, row, mode) == lock.row = row /\ Clash(lock.mode, mode)

\* No transaction holds the row in a mode that clashes with this one.
Free(row, mode) == \A q \in Procs : \A lock \in Held(q) : ~ Denies(lock, row, mode)

WaitsFor(p, q) ==
  /\ p # q
  /\ Waiting(p)
  /\ \E lock \in Held(q) : Denies(lock, Step(p).row, Step(p).mode)

Blocked(p) == \E q \in Procs : WaitsFor(p, q)

\* Members of the set all wait for each other: the database aborts one.
Deadlocked(D) == D # {} /\ \A p \in D : \E q \in D : WaitsFor(p, q)

-----------------------------------------------------------------------------
Begin(p, statements) ==
  /\ ~ Running(p)
  /\ script' = [script EXCEPT ![p] = statements]
  /\ pc' = [pc EXCEPT ![p] = 1]

Pass(p) ==
  /\ Waiting(p)
  /\ ~ Blocked(p)
  /\ pc' = [pc EXCEPT ![p] = @ + 1]
  /\ UNCHANGED script

\* COMMIT and ROLLBACK release every lock.
End(p) ==
  /\ Running(p)
  /\ pc' = [pc EXCEPT ![p] = 0]
  /\ script' = [script EXCEPT ![p] = <<>>]

Idle == /\ script = [p \in Procs |-> <<>>]
        /\ pc = [p \in Procs |-> 0]
=============================================================================
