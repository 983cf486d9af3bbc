---------------------------- MODULE RoutineOrder ----------------------------
(***************************************************************************)
(* The order of a household's routine groups.  The handlers keep positions  *)
(* dense and an index keeps them unique.  PostgreSQL checks the index row   *)
(* by row: a statement that moves several rows, in whatever order it meets  *)
(* them, fails on a position that another row has yet to leave.  A          *)
(* statement sees the rows committed when it began, and its own             *)
(* transaction's; a row that another transaction wrote is waited for, and   *)
(* then read again.                                                        *)
(*                                                                         *)
(* What belongs to a group, and what it is called, is left out.  A failed   *)
(* check, a collision and a lost connection all end in a rollback, GiveUp.  *)
(***************************************************************************)
EXTENDS Integers, FiniteSets, Functions

CONSTANTS
  Procs,            \* requests being served
  Groups,           \* routine_groups.id, a bound on the groups a run creates
  MaxVersion,       \* bound on routine_groups.version
  CreatesOverlap    \* whether groups are created while others are changed

ASSUME RoutineAssumption ==
  IsFiniteSet(Groups) /\ MaxVersion \in Nat /\ CreatesOverlap \in BOOLEAN

VARIABLES
  row,        \* committed rows of routine_groups
  own,        \* rows a transaction wrote, and holds locked
  serving,    \* the request a process works on
  step,       \* the statement it has come to
  count,      \* what it counted
  left        \* the rows its statement has still to write, with a position

vars == <<row, own, serving, step, count, left>>

None == [g \in {} |-> 0]

NoRequest == [op |-> "none", seen |-> None, order |-> None]

Rows == [state : {"absent", "active", "archived"}, pos : Nat, version : Nat]

Statements == {"idle", "lock", "count", "insert", "shift", "shifting", "placing",
               "rank", "ranking", "commit"}

TypeOK ==
  /\ row \in [Groups -> Rows]
  /\ \A p \in Procs : DOMAIN own[p] \subseteq Groups /\ own[p] \in [DOMAIN own[p] -> Rows]
  /\ step \in [Procs -> Statements]
  /\ count \in [Procs -> Nat]
  /\ \A p \in Procs : DOMAIN left[p] \subseteq Groups /\ left[p] \in [DOMAIN left[p] -> Nat]

-----------------------------------------------------------------------------
(* Rows as a transaction sees them *)

Latest(p, g) == IF g \in DOMAIN own[p] THEN own[p][g] ELSE row[g]

Visible(p) == {g \in Groups : Latest(p, g).state = "active"}

Active == {g \in Groups : row[g].state = "active"}

Locked(p, g) == \E q \in Procs \ {p} : g \in DOMAIN own[q]

At(r, n) == r.state = "active" /\ r.pos = n

\* The unique index refuses a position that another row has, and waits for a
\* transaction that takes such a row away or brings one.
Occupied(p, g, n) == \E h \in Groups \ {g} : ~ Locked(p, h) /\ At(Latest(p, h), n)

Contended(p, g, n) ==
  \E q \in Procs \ {p} : \E h \in DOMAIN own[q] \ {g} : At(row[h], n) \/ At(own[q][h], n)

-----------------------------------------------------------------------------
Init ==
  /\ row = [g \in Groups |-> [state |-> "absent", pos |-> 0, version |-> 0]]
  /\ own = [p \in Procs |-> None]
  /\ serving = [p \in Procs |-> NoRequest]
  /\ step = [p \in Procs |-> "idle"]
  /\ count = [p \in Procs |-> 0]
  /\ left = [p \in Procs |-> None]

Moves(p, from, to) == step[p] = from /\ step' = [step EXCEPT ![p] = to]

Write(p, g, r) ==
  own' = [own EXCEPT ![p] = [h \in DOMAIN @ \cup {g} |-> IF h = g THEN r ELSE @[h]]]

-----------------------------------------------------------------------------
(* Requests.  A client names the versions it was shown; the page sends an    *)
(* order of all active groups.                                             *)

Seen(S) == [g \in S |-> row[g].version]

Create == [op |-> "Create", seen |-> None, order |-> None]

Change(op, g) == [op |-> op, seen |-> Seen({g}), order |-> None]

Reorder(order) == [op |-> "Reorder", seen |-> Seen(Active), order |-> order]

Requests ==
  {Create}
  \cup {Change(op, g) : op \in {"Update", "Archive"}, g \in Active}
  \cup {Reorder(order) : order \in Bijection(Active, 0 .. Cardinality(Active) - 1)}

MayOverlap(r) ==
  \/ CreatesOverlap
  \/ \A p \in Procs : serving[p] = NoRequest \/ "Create" \notin {r.op, serving[p].op}

First(op) == IF op \in {"Update", "Archive"} THEN "lock" ELSE "count"

Deliver(p, r) ==
  /\ Moves(p, "idle", First(r.op))
  /\ MayOverlap(r)
  /\ r.op = "Reorder" => r.order # None
  /\ \A g \in Groups : row[g].version <= MaxVersion
  /\ serving' = [serving EXCEPT ![p] = r]
  /\ UNCHANGED <<row, own, count, left>>

-----------------------------------------------------------------------------
(* Statements *)

\* SELECT version ... FOR UPDATE, and the update of that row: a new name, or
\* archived_at.  (Archive moves what belongs to the group in between.)
Lock(p, g) ==
  /\ g \in DOMAIN serving[p].seen
  /\ ~ Locked(p, g)
  /\ row[g].state = "active"
  /\ row[g].version = serving[p].seen[g]
  /\ IF serving[p].op = "Update"
     THEN /\ Moves(p, "lock", "commit")
          /\ Write(p, g, [row[g] EXCEPT !.version = @ + 1])
     ELSE /\ Moves(p, "lock", "count")
          /\ Write(p, g, [row[g] EXCEPT !.state = "archived", !.version = @ + 1])
  /\ UNCHANGED <<row, serving, count, left>>

\* SELECT count(*), in Create as the subquery of its INSERT.
Count(p) ==
  LET n == Cardinality(Visible(p))
      r == serving[p]
  IN /\ r.op = "Reorder" => n = Cardinality(DOMAIN r.order)
     /\ Moves(p, "count", IF r.op = "Create" THEN "insert"
                          ELSE IF r.op = "Archive" /\ n = 0 THEN "rank"
                          ELSE "shift")
     /\ count' = [count EXCEPT ![p] = n]
     /\ UNCHANGED <<row, own, serving, left>>

Insert(p, g) ==
  /\ row[g].state = "absent"
  /\ ~ Locked(p, g)
  /\ ~ Contended(p, g, count[p])
  /\ ~ Occupied(p, g, count[p])
  /\ Moves(p, "insert", "commit")
  /\ Write(p, g, [state |-> "active", pos |-> count[p], version |-> 1])
  /\ UNCHANGED <<row, serving, count, left>>

\* Mutants: one short; downwards.
OffsetShort(p) == count[p] - 1
OffsetDown(p) == -count[p]

\* UPDATE ... SET sort_order = sort_order + count
Offset(p) == count[p]

\* Mutants: ranks that start from one; ranks in descending order.
RanksFromOne(p) ==
  [g \in Visible(p) |->
     Cardinality({h \in Visible(p) : Latest(p, h).pos <= Latest(p, g).pos})]
RanksDescending(p) ==
  [g \in Visible(p) |->
     Cardinality({h \in Visible(p) : Latest(p, h).pos > Latest(p, g).pos})]

\* row_number() OVER (ORDER BY sort_order, id) - 1
Ranks(p) ==
  [g \in Visible(p) |->
     Cardinality({h \in Visible(p) : Latest(p, h).pos < Latest(p, g).pos})]

\* A statement over several rows finds them in its snapshot.
Open(p) ==
  /\ \/ /\ Moves(p, "shift", "shifting")
        /\ left' = [left EXCEPT ![p] = [g \in Visible(p) |-> Offset(p)]]
     \/ /\ Moves(p, "rank", "ranking")
        /\ left' = [left EXCEPT ![p] = Ranks(p)]
  /\ UNCHANGED <<row, own, serving, count>>

\* The positions of Reorder are assigned one after the other.
Due(p, g) ==
  /\ g \in DOMAIN left[p]
  /\ step[p] = "placing" => \A h \in DOMAIN left[p] : left[p][g] <= left[p][h]

Target(p, g) ==
  IF step[p] = "shifting" THEN Latest(p, g).pos + left[p][g] ELSE left[p][g]

MatchesUnversioned(p, g) == step[p] # "ranking" => Latest(p, g).state = "active"    \* mutant

\* The WHERE clause, on the row as it is once it is locked.
Matches(p, g) ==
  /\ step[p] # "ranking" => Latest(p, g).state = "active"
  /\ step[p] = "placing" => Latest(p, g).version = serving[p].seen[g]

Moved(p, g) ==
  [Latest(p, g) EXCEPT !.pos = Target(p, g),
                       !.version = IF step[p] = "shifting" THEN @ ELSE @ + 1]

UpdateRow(p, g) ==
  /\ Due(p, g)
  /\ ~ Locked(p, g)
  /\ \/ /\ Matches(p, g)
        /\ ~ Contended(p, g, Target(p, g))
        /\ ~ Occupied(p, g, Target(p, g))
        /\ Write(p, g, Moved(p, g))
     \/ /\ step[p] = "shifting" /\ ~ Matches(p, g)
        /\ UNCHANGED own
  /\ left' = [left EXCEPT ![p] = Restrict(@, DOMAIN @ \ {g})]
  /\ UNCHANGED <<row, serving, step, count>>

Close(p) ==
  /\ left[p] = None
  /\ \/ /\ serving[p].op = "Archive" /\ Moves(p, "shifting", "rank")
        /\ UNCHANGED left
     \/ /\ serving[p].op = "Reorder" /\ Moves(p, "shifting", "placing")
        /\ left' = [left EXCEPT ![p] = serving[p].order]
     \/ /\ Moves(p, "placing", "commit") \/ Moves(p, "ranking", "commit")
        /\ UNCHANGED left
  /\ UNCHANGED <<row, own, serving, count>>

End(p) ==
  /\ own' = [own EXCEPT ![p] = None]
  /\ serving' = [serving EXCEPT ![p] = NoRequest]
  /\ count' = [count EXCEPT ![p] = 0]
  /\ left' = [left EXCEPT ![p] = None]

Commit(p) ==
  /\ Moves(p, "commit", "idle")
  /\ row' = [g \in Groups |-> Latest(p, g)]
  /\ End(p)

GiveUp(p) ==
  /\ step[p] # "idle"
  /\ step' = [step EXCEPT ![p] = "idle"]
  /\ End(p)
  /\ UNCHANGED row

Next ==
  \E p \in Procs :
    \/ \E r \in Requests : Deliver(p, r)
    \/ \E g \in Groups : step[p] = "lock" /\ Lock(p, g)
    \/ Count(p)
    \/ \E g \in Groups : Insert(p, g)
    \/ Open(p)
    \/ \E g \in Groups : UpdateRow(p, g)
    \/ Close(p)
    \/ Commit(p)
    \/ GiveUp(p)

Spec == Init /\ [][Next]_vars

-----------------------------------------------------------------------------
(* Safety *)

\* docs/phase-9-routines-rewards-contract.md:32: active positions are unique
\* and dense.  Create (routines/service.go:149) relies on it: it takes the
\* number of groups for a free position.
Dense == {row[g].pos : g \in Active} = 0 .. Cardinality(Active) - 1

\* The row a statement has come to may not take its position.
Collides(p) ==
  \E g \in Groups : /\ Due(p, g) /\ ~ Locked(p, g) /\ Matches(p, g)
                    /\ Occupied(p, g, Target(p, g))

NeverCollides(op) ==
  \A p \in Procs : serving[p].op = op => ~ Collides(p)

\* routines/service.go:244: moving the complete set out of the destination
\* range first is compatible with the index, in whatever order the rows move.
ReorderNeverCollides == NeverCollides("Reorder")

\* docs/phase-9-routines-rewards-contract.md:43, :62: archiving an active group
\* archives it and compacts the order of the others.
ArchiveNeverCollides == NeverCollides("Archive")

\* A change is made of what its client was shown: whatever other parents
\* commit while it is served, none of the groups it names has moved on.
StaleLoses ==
  [][\A p \in Procs : Commit(p) =>
       \A g \in DOMAIN serving[p].seen : /\ row[g].state = "active"
                                         /\ row[g].version = serving[p].seen[g]]_vars

\* Archiving a group leaves the others in the order in which they were.
ArchiveKeepsOrder ==
  [][\A p \in Procs : (Commit(p) /\ serving[p].op = "Archive") =>
       \A g, h \in Active' : row[g].pos < row[h].pos => row'[g].pos < row'[h].pos]_vars
=============================================================================
