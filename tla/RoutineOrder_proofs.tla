------------------------- MODULE RoutineOrder_proofs -------------------------
(***************************************************************************)
(* What holds of RoutineOrder for any requests and groups.                  *)
(***************************************************************************)
EXTENDS RoutineOrder, FiniteSetTheorems, TLAPS

-----------------------------------------------------------------------------
(* The inductive invariant, with groups created at any time *)

Functional == DOMAIN own = Procs /\ DOMAIN left = Procs /\ DOMAIN serving = Procs

\* An update or an archival names a group, a reorder the groups it puts in order.
IsChange(r) == r.op \in {"Update", "Archive"} /\ \E g \in Groups : DOMAIN r.seen = {g}

IsOrder(r) ==
  LET D == DOMAIN r.order
  IN /\ r.op = "Reorder" /\ DOMAIN r.seen = D /\ D \subseteq Groups /\ D # {}
     /\ r.order \in Bijection(D, 0 .. Cardinality(D) - 1)

\* Before these statements end nothing is written.
Unwritten(p) ==
  \/ step[p] \in {"idle", "lock", "insert"}
  \/ step[p] \in {"count", "shift"} /\ serving[p].op # "Archive"

\* Each operation goes through statements of its own.
Follows(p) ==
  /\ \/ serving[p] = NoRequest /\ step[p] = "idle"
     \/ serving[p] = Create /\ step[p] \in {"count", "insert", "commit"}
     \/ /\ IsChange(serving[p])
        /\ IF serving[p].op = "Update" THEN step[p] \in {"lock", "commit"}
           ELSE step[p] \in {"lock", "count", "shift", "shifting", "rank", "ranking", "commit"}
     \/ /\ IsOrder(serving[p])
        /\ step[p] \in {"count", "shift", "shifting", "placing", "commit"}
  /\ Unwritten(p) => own[p] = None
  /\ step[p] \notin {"shifting", "placing", "ranking"} => left[p] = None

\* Two transactions never hold one row.
Exclusive ==
  \A p, q \in Procs : p # q => DOMAIN own[p] \cap DOMAIN own[q] = {}

AsSeen(p, g) == row[g].state = "active" /\ row[g].version = serving[p].seen[g]

AsFound(p, g) == row[g].state = "active" /\ own[p][g].version = row[g].version

\* A row that was checked is held, and is as it was.
Keeps(p) ==
  /\ (serving[p].op \in {"Update", "Archive"} /\ step[p] # "lock") =>
       \A g \in DOMAIN serving[p].seen : g \in DOMAIN own[p] /\ AsSeen(p, g)
  /\ (serving[p].op = "Reorder" /\ step[p] = "shifting") =>
       \A g \in DOMAIN own[p] : AsFound(p, g)
  /\ (serving[p].op = "Reorder" /\ step[p] \in {"placing", "commit"}) =>
       \A g \in DOMAIN serving[p].seen :
         IF g \in DOMAIN left[p] THEN g \in DOMAIN own[p] => AsFound(p, g)
         ELSE g \in DOMAIN own[p] /\ AsSeen(p, g)

RInv ==
  /\ TypeOK /\ Functional /\ Exclusive
  /\ \A p \in Procs : Follows(p) /\ Keeps(p)

-----------------------------------------------------------------------------
(* The inductive invariant, with groups created by themselves *)

Alone ==
  \A p, q \in Procs : (p # q /\ serving[p] = Create) => serving[q] = NoRequest

Shifted(p, g) ==
  /\ row[g].state = "active"
  /\ own[p][g].state = "active" /\ own[p][g].pos = row[g].pos + count[p]

Placed(p, g, n) == own[p][g].state = "active" /\ own[p][g].pos = n

\* Create takes the number of the groups for the position of a new one.
Creating(p) ==
  /\ step[p] \in {"insert", "commit"} => count[p] = Cardinality(Active)
  /\ step[p] = "commit" =>
       \E g \in Groups : /\ DOMAIN own[p] = {g} /\ row[g].state = "absent"
                         /\ Placed(p, g, count[p])

\* An update leaves state and position.
Updating(p) ==
  step[p] = "commit" =>
    /\ DOMAIN own[p] = DOMAIN serving[p].seen
    /\ \A g \in DOMAIN own[p] : Placed(p, g, row[g].pos)

\* A reorder moves its groups out of the range of positions, and then to their
\* places.  Once it wrote a row, no group can be archived or moved by another.
Reordering(p) ==
  LET D == DOMAIN serving[p].order
      W == DOMAIN own[p]
      L == DOMAIN left[p]
  IN /\ Active \subseteq D
     /\ step[p] # "count" => count[p] = Cardinality(D)
     /\ step[p] = "shifting" =>
          /\ Active \subseteq W \cup L /\ W \cap L = {}
          /\ \A g \in L : left[p][g] = count[p]
          /\ \A g \in W : Shifted(p, g)
     /\ step[p] \in {"placing", "commit"} =>
          /\ Active \subseteq W /\ W \subseteq D /\ L \subseteq D
          /\ \A g \in L : left[p][g] = serving[p].order[g] /\ (g \in W => Shifted(p, g))
          /\ \A g \in D \ L : g \in W /\ Placed(p, g, serving[p].order[g])

\* The groups that stay, and the rank of one of them.
Others(p) == Active \ DOMAIN serving[p].seen

Rank(p, g) == Cardinality({h \in Others(p) : row[h].pos < row[g].pos})

\* An archival holds its group, and with it the set of the others.
Archiving(p) ==
  LET D == DOMAIN serving[p].seen
      W == DOMAIN own[p]
      L == DOMAIN left[p]
  IN step[p] # "lock" =>
     /\ \A g \in D : g \in W /\ own[p][g].state = "archived"
     /\ step[p] \in {"count", "shift"} => W = D
     /\ step[p] # "count" => count[p] = Cardinality(Others(p))
     /\ step[p] = "shifting" =>
          /\ W \cup L = Active /\ W \cap L = {}
          /\ \A g \in L : left[p][g] = count[p]
          /\ \A g \in W \ D : Shifted(p, g)
     /\ step[p] = "rank" => W = Active /\ \A g \in Others(p) : Shifted(p, g)
     /\ step[p] \in {"ranking", "commit"} =>
          /\ W = Active /\ L \subseteq Others(p)
          /\ \A g \in L : left[p][g] = Rank(p, g) /\ Shifted(p, g)
          /\ \A g \in Others(p) \ L : Placed(p, g, Rank(p, g))

Ordering(p) ==
  /\ serving[p] = Create => Creating(p)
  /\ serving[p].op = "Update" => Updating(p)
  /\ serving[p].op = "Reorder" => Reordering(p)
  /\ serving[p].op = "Archive" => Archiving(p)

OInv == Alone /\ Dense /\ \A p \in Procs : Ordering(p)

-----------------------------------------------------------------------------
(* What the helpers write *)

Does(p) ==
  \/ \E r \in Requests : Deliver(p, r)
  \/ \E g \in Groups : step[p] = "lock" /\ Lock(p, g)
  \/ Count(p)
  \/ \E g \in Groups : Insert(p, g)
  \/ Open(p)
  \/ \E g \in Groups : UpdateRow(p, g)
  \/ Close(p)
  \/ Commit(p)
  \/ GiveUp(p)

\* Every step is a step of some request.
LEMMA NextDoes == Next <=> \E p \in Procs : Does(p)
  BY DEF Next, Does

\* A function without arguments is the one that is used for nothing.
LEMMA EmptyIsNone ==
  ASSUME NEW S, NEW f \in [{} -> S]
  PROVE  f = None
  BY DEF None

LEMMA NoneDomain == DOMAIN None = {}
  BY DEF None

\* A row with two columns changed is a row again, with those columns as given.
LEMMA RowFields ==
  ASSUME NEW X, DOMAIN X = {"state", "pos", "version"}, X = [c \in DOMAIN X |-> X[c]],
         X.state \in {"absent", "active", "archived"}, X.pos \in Nat, X.version \in Nat
  PROVE  X \in Rows
  BY SMT DEF Rows

LEMMA ArchivedRow ==
  ASSUME NEW r \in Rows, NEW s \in {"absent", "active", "archived"}, NEW v \in Nat
  PROVE  /\ [r EXCEPT !.state = s, !.version = v] \in Rows
         /\ [r EXCEPT !.state = s, !.version = v].state = s
         /\ [r EXCEPT !.state = s, !.version = v].version = v
<1> DEFINE X == [r EXCEPT !.state = s, !.version = v]
<1>1. r \in [state : {"absent", "active", "archived"}, pos : Nat, version : Nat]
  BY DEF Rows
<1>2. DOMAIN X = {"state", "pos", "version"}
  BY <1>1
<1>3. X.state = s
  BY <1>1
<1>4. X.version = v
  BY <1>1
<1>5. X.pos = r.pos /\ r.pos \in Nat
  BY <1>1
<1>6. X = [c \in DOMAIN X |-> X[c]]
  BY Zenon
<1> HIDE DEF X
<1>7. X \in Rows
  BY <1>2, <1>3, <1>4, <1>5, <1>6, RowFields
<1> QED
  BY <1>3, <1>4, <1>7 DEF X

LEMMA MovedRow ==
  ASSUME NEW r \in Rows, NEW n \in Nat, NEW v \in Nat
  PROVE  /\ [r EXCEPT !.pos = n, !.version = v] \in Rows
         /\ [r EXCEPT !.pos = n, !.version = v].pos = n
         /\ [r EXCEPT !.pos = n, !.version = v].version = v
         /\ [r EXCEPT !.pos = n, !.version = v].state = r.state
<1> DEFINE X == [r EXCEPT !.pos = n, !.version = v]
<1>1. r \in [state : {"absent", "active", "archived"}, pos : Nat, version : Nat]
  BY DEF Rows
<1>2. DOMAIN X = {"state", "pos", "version"}
  BY <1>1
<1>3. X.pos = n
  BY <1>1
<1>4. X.version = v
  BY <1>1
<1>5. X.state = r.state /\ r.state \in {"absent", "active", "archived"}
  BY <1>1
<1>6. X = [c \in DOMAIN X |-> X[c]]
  BY Zenon
<1> HIDE DEF X
<1>7. X \in Rows
  BY <1>2, <1>3, <1>4, <1>5, <1>6, RowFields
<1> QED
  BY <1>3, <1>4, <1>5, <1>7 DEF X

LEMMA RenamedRow ==
  ASSUME NEW r \in Rows
  PROVE  /\ [r EXCEPT !.version = @ + 1] \in Rows
         /\ [r EXCEPT !.version = @ + 1].pos = r.pos
         /\ [r EXCEPT !.version = @ + 1].state = r.state
  BY DEF Rows

LEMMA LatestType ==
  ASSUME TypeOK, NEW p \in Procs, NEW g \in Groups
  PROVE  Latest(p, g) \in Rows
  BY DEF TypeOK, Latest

\* A row that is moved is where it should go, and counts one more version unless
\* it only makes room.
LEMMA MovedEffect ==
  ASSUME NEW p \in Procs, NEW g, Latest(p, g) \in Rows, Target(p, g) \in Nat
  PROVE  /\ Moved(p, g) \in Rows
         /\ Moved(p, g).pos = Target(p, g)
         /\ Moved(p, g).state = Latest(p, g).state
         /\ Moved(p, g).version = IF step[p] = "shifting" THEN Latest(p, g).version
                                  ELSE Latest(p, g).version + 1
<1> DEFINE v == IF step[p] = "shifting" THEN Latest(p, g).version ELSE Latest(p, g).version + 1
           r == Latest(p, g)
           n == Target(p, g)
<1>1. v \in Nat
  BY DEF Rows
<1>2. Moved(p, g) = [r EXCEPT !.pos = n, !.version = v]
  BY DEF Moved
<1>3. r \in Rows /\ n \in Nat
  OBVIOUS
<1> HIDE DEF v, r, n
<1>4. /\ [r EXCEPT !.pos = n, !.version = v] \in Rows
      /\ [r EXCEPT !.pos = n, !.version = v].pos = n
      /\ [r EXCEPT !.pos = n, !.version = v].version = v
      /\ [r EXCEPT !.pos = n, !.version = v].state = r.state
  BY <1>1, <1>3, MovedRow, Zenon
<1>5. Moved(p, g) \in Rows /\ Moved(p, g).pos = n /\ Moved(p, g).version = v /\ Moved(p, g).state = r.state
  BY <1>2, <1>4, Zenon
<1> QED
  BY <1>5 DEF v, r, n

\* A transaction that writes a row holds it, and keeps what it wrote before.
LEMMA WriteEffect ==
  ASSUME Functional, NEW p \in Procs, NEW g, NEW r, Write(p, g, r)
  PROVE  /\ DOMAIN own' = Procs
         /\ \A q \in Procs \ {p} : own'[q] = own[q]
         /\ DOMAIN own'[p] = DOMAIN own[p] \cup {g}
         /\ own'[p][g] = r
         /\ \A h \in DOMAIN own[p] \ {g} : own'[p][h] = own[p][h]
         /\ own'[p] = [h \in DOMAIN own[p] \cup {g} |-> own'[p][h]]
<1> DEFINE F == [h \in DOMAIN own[p] \cup {g} |-> IF h = g THEN r ELSE own[p][h]]
<1>1. own' = [own EXCEPT ![p] = F]
  BY DEF Write
<1> HIDE DEF F
<1>2. own'[p] = F /\ DOMAIN own' = Procs /\ \A q \in Procs \ {p} : own'[q] = own[q]
  BY <1>1 DEF Functional
<1>3. DOMAIN F = DOMAIN own[p] \cup {g} /\ F[g] = r
  BY DEF F
<1>4. \A h \in DOMAIN own[p] \ {g} : F[h] = own[p][h]
  BY DEF F
<1>5. F = [h \in DOMAIN own[p] \cup {g} |-> F[h]]
  BY DEF F
<1> QED
  BY <1>2, <1>3, <1>4, <1>5

LEMMA WriteResult ==
  ASSUME Functional, NEW p \in Procs, NEW g, NEW r, Write(p, g, r)
  PROVE  own'[p][g] = r
  BY DEF Write, Functional

LEMMA WriteType ==
  ASSUME TypeOK, Functional, NEW p \in Procs, NEW g \in Groups, NEW r \in Rows,
         Write(p, g, r)
  PROVE  \A q \in Procs : DOMAIN own'[q] \subseteq Groups /\ own'[q] \in [DOMAIN own'[q] -> Rows]
<1> SUFFICES ASSUME NEW q \in Procs
             PROVE  DOMAIN own'[q] \subseteq Groups /\ own'[q] \in [DOMAIN own'[q] -> Rows]
  OBVIOUS
<1>1. DOMAIN own[q] \subseteq Groups /\ own[q] \in [DOMAIN own[q] -> Rows]
  BY DEF TypeOK
<1>2. CASE q # p
  BY <1>1, <1>2, WriteEffect
<1>3. CASE q = p
  <2>1. /\ DOMAIN own'[p] = DOMAIN own[p] \cup {g}
        /\ own'[p][g] = r
        /\ \A h \in DOMAIN own[p] \ {g} : own'[p][h] = own[p][h]
        /\ own'[p] = [h \in DOMAIN own[p] \cup {g} |-> own'[p][h]]
    BY WriteEffect
  <2>2. \A h \in DOMAIN own[p] \cup {g} : own'[p][h] \in Rows
    BY <1>1, <1>3, <2>1
  <2>3. own'[p] \in [DOMAIN own[p] \cup {g} -> Rows]
    BY <2>1, <2>2
  <2> QED
    BY <1>1, <1>3, <2>1, <2>3
<1> QED
  BY <1>2, <1>3

\* A statement that is done with a row no longer counts it among those left.
LEMMA RestrictEffect ==
  ASSUME Functional, NEW p \in Procs, NEW g,
         left' = [left EXCEPT ![p] = Restrict(@, DOMAIN @ \ {g})]
  PROVE  /\ DOMAIN left' = Procs
         /\ \A q \in Procs \ {p} : left'[q] = left[q]
         /\ DOMAIN left'[p] = DOMAIN left[p] \ {g}
         /\ \A h \in DOMAIN left[p] \ {g} : left'[p][h] = left[p][h]
         /\ left'[p] = [h \in DOMAIN left[p] \ {g} |-> left'[p][h]]
<1> DEFINE F == [h \in DOMAIN left[p] \ {g} |-> left[p][h]]
<1>1. left' = [left EXCEPT ![p] = F]
  BY DEF Restrict
<1> HIDE DEF F
<1>2. left'[p] = F /\ DOMAIN left' = Procs /\ \A q \in Procs \ {p} : left'[q] = left[q]
  BY <1>1 DEF Functional
<1>3. DOMAIN F = DOMAIN left[p] \ {g}
  BY DEF F
<1>4. \A h \in DOMAIN left[p] \ {g} : F[h] = left[p][h]
  BY DEF F
<1>5. F = [h \in DOMAIN left[p] \ {g} |-> F[h]]
  BY DEF F
<1> QED
  BY <1>2, <1>3, <1>4, <1>5

\* The end of a transaction, whichever it is.
LEMMA EndEffect ==
  ASSUME TypeOK, Functional, NEW p \in Procs, End(p)
  PROVE  /\ Functional'
         /\ own'[p] = None /\ serving'[p] = NoRequest /\ count'[p] = 0 /\ left'[p] = None
         /\ \A q \in Procs \ {p} : /\ own'[q] = own[q] /\ serving'[q] = serving[q]
                                  /\ count'[q] = count[q] /\ left'[q] = left[q]
  BY DEF TypeOK, Functional, End

LEMMA MovesEffect ==
  ASSUME TypeOK, NEW p \in Procs, NEW from, NEW to, Moves(p, from, to)
  PROVE  step[p] = from /\ step'[p] = to /\ \A q \in Procs \ {p} : step'[q] = step[q]
  BY DEF TypeOK, Moves

\* A step of one request leaves the others, and the rows they hold, alone.
LEMMA Elsewhere ==
  ASSUME TypeOK, Functional, NEW p \in Procs, Does(p)
  PROVE  /\ Functional'
         /\ \A q \in Procs \ {p} :
              /\ own'[q] = own[q] /\ step'[q] = step[q] /\ serving'[q] = serving[q]
              /\ count'[q] = count[q] /\ left'[q] = left[q]
         /\ \A g \in Groups : g \notin DOMAIN own[p] => row'[g] = row[g]
         /\ row' # row => Commit(p)
<1>1. CASE \E r \in Requests : Deliver(p, r)
  <2>1. PICK r \in Requests : Deliver(p, r)
    BY <1>1
  <2> QED
    BY <2>1, MovesEffect DEF Deliver, Functional
<1>2. CASE \E g \in Groups : step[p] = "lock" /\ Lock(p, g)
  <2>1. PICK g \in Groups : Lock(p, g)
    BY <1>2
  <2>2. \E r, s : Write(p, g, r) /\ Moves(p, "lock", s)
    BY <2>1 DEF Lock
  <2>3. UNCHANGED <<row, serving, count, left>>
    BY <2>1 DEF Lock
  <2> QED
    BY <2>2, <2>3, WriteEffect, MovesEffect DEF Functional
<1>3. CASE Count(p)
  <2>1. \E s : Moves(p, "count", s)
    BY <1>3 DEF Count
  <2>2. UNCHANGED <<row, own, serving, left>>
    BY <1>3 DEF Count
  <2>3. \A q \in Procs \ {p} : count'[q] = count[q]
    BY <1>3 DEF Count, TypeOK
  <2> QED
    BY <2>1, <2>2, <2>3, MovesEffect DEF Functional
<1>4. CASE \E g \in Groups : Insert(p, g)
  <2>1. PICK g \in Groups : Insert(p, g)
    BY <1>4
  <2>2. \E r, s : Write(p, g, r) /\ Moves(p, "insert", s)
    BY <2>1 DEF Insert
  <2>3. UNCHANGED <<row, serving, count, left>>
    BY <2>1 DEF Insert
  <2> QED
    BY <2>2, <2>3, WriteEffect, MovesEffect DEF Functional
<1>5. CASE Open(p)
  <2>1. \E s, t : Moves(p, s, t)
    BY <1>5 DEF Open
  <2>2. UNCHANGED <<row, own, serving, count>>
    BY <1>5 DEF Open
  <2>3. \E f : left' = [left EXCEPT ![p] = f]
    BY <1>5 DEF Open
  <2> QED
    BY <2>1, <2>2, <2>3, MovesEffect DEF Functional
<1>6. CASE \E g \in Groups : UpdateRow(p, g)
  <2>1. PICK g \in Groups : UpdateRow(p, g)
    BY <1>6
  <2>2. UNCHANGED own \/ \E r : Write(p, g, r)
    BY <2>1 DEF UpdateRow
  <2>3. UNCHANGED <<row, serving, step, count>>
    BY <2>1 DEF UpdateRow
  <2>4. left' = [left EXCEPT ![p] = Restrict(@, DOMAIN @ \ {g})]
    BY <2>1 DEF UpdateRow
  <2>5. DOMAIN own' = Procs /\ \A q \in Procs \ {p} : own'[q] = own[q]
    BY <2>2, WriteEffect DEF Functional
  <2>6. DOMAIN left' = Procs /\ \A q \in Procs \ {p} : left'[q] = left[q]
    BY <2>4, RestrictEffect
  <2> QED
    BY <2>3, <2>5, <2>6 DEF Functional
<1>7. CASE Close(p)
  <2>1. \E s, t : Moves(p, s, t)
    BY <1>7 DEF Close
  <2>2. UNCHANGED <<row, own, serving, count>>
    BY <1>7 DEF Close
  <2>3. UNCHANGED left \/ \E f : left' = [left EXCEPT ![p] = f]
    BY <1>7 DEF Close
  <2> QED
    BY <2>1, <2>2, <2>3, MovesEffect DEF Functional
<1>8. CASE Commit(p)
  <2>1. End(p) /\ Moves(p, "commit", "idle")
    BY <1>8 DEF Commit
  <2>2. row' = [g \in Groups |-> Latest(p, g)]
    BY <1>8 DEF Commit
  <2>3. \A g \in Groups : g \notin DOMAIN own[p] => row'[g] = row[g]
    BY <2>2 DEF Latest
  <2> QED
    BY <1>8, <2>1, <2>3, EndEffect, MovesEffect
<1>9. CASE GiveUp(p)
  <2>1. End(p) /\ UNCHANGED row /\ step' = [step EXCEPT ![p] = "idle"]
    BY <1>9 DEF GiveUp
  <2>2. \A q \in Procs \ {p} : step'[q] = step[q]
    BY <2>1 DEF TypeOK
  <2> QED
    BY <2>1, <2>2, EndEffect
<1> QED
  BY <1>1, <1>2, <1>3, <1>4, <1>5, <1>6, <1>7, <1>8, <1>9 DEF Does

-----------------------------------------------------------------------------
(* What is counted is finite *)

LEMMA FiniteRows ==
  ASSUME NEW p
  PROVE  /\ IsFiniteSet(Active) /\ Cardinality(Active) \in Nat
         /\ IsFiniteSet(Visible(p)) /\ Cardinality(Visible(p)) \in Nat
<1>1. \A S \in SUBSET Groups : IsFiniteSet(S) /\ Cardinality(S) \in Nat
  BY RoutineAssumption, FS_Subset, FS_CardinalityType
<1>2. Active \in SUBSET Groups /\ Visible(p) \in SUBSET Groups
  BY DEF Active, Visible
<1> QED
  BY <1>1, <1>2

LEMMA RankType ==
  ASSUME NEW p
  PROVE  DOMAIN Ranks(p) = Visible(p) /\ Ranks(p) \in [Visible(p) -> Nat]
<1>1. \A S \in SUBSET Groups : Cardinality(S) \in Nat
  BY RoutineAssumption, FS_Subset, FS_CardinalityType
<1>2. \A g \in Visible(p) :
        {h \in Visible(p) : Latest(p, h).pos < Latest(p, g).pos} \in SUBSET Groups
  BY DEF Visible
<1> QED
  BY <1>1, <1>2 DEF Ranks

\* What a client may ask for, and what it saw.
LEMMA Asked ==
  ASSUME NEW r \in Requests, r.op = "Reorder" => r.order # None
  PROVE  /\ r = Create \/ IsChange(r) \/ IsOrder(r)
         /\ r.op # "Create" => /\ DOMAIN r.seen \subseteq Active
                               /\ \A g \in DOMAIN r.seen : r.seen[g] = row[g].version
         /\ r.op = "Reorder" => DOMAIN r.seen = Active
<1> DEFINE n == Cardinality(Active)
<1>1. CASE r = Create
  BY <1>1 DEF Create
<1>2. CASE \E op \in {"Update", "Archive"}, g \in Active : r = Change(op, g)
  <2>1. PICK op \in {"Update", "Archive"}, g \in Active : r = Change(op, g)
    BY <1>2
  <2>2. r.op = op /\ DOMAIN r.seen = {g} /\ r.seen[g] = row[g].version
    BY <2>1 DEF Change, Seen
  <2>3. g \in Groups
    BY DEF Active
  <2> QED
    BY <2>2, <2>3 DEF IsChange
<1>3. CASE \E order \in Bijection(Active, 0 .. n - 1) : r = Reorder(order)
  <2>1. PICK order \in Bijection(Active, 0 .. n - 1) : r = Reorder(order)
    BY <1>3
  <2> HIDE DEF n
  <2>2. /\ r.op = "Reorder" /\ r.order = order
        /\ DOMAIN r.seen = Active /\ \A g \in Active : r.seen[g] = row[g].version
    BY <2>1 DEF Reorder, Seen
  <2>3. order \in [Active -> 0 .. n - 1]
    BY <2>1 DEF Bijection, Injection
  <2>4. DOMAIN order = Active
    BY <2>3
  <2>5. Active # {}
    BY <2>2, <2>3, EmptyIsNone
  <2>6. Active \subseteq Groups
    BY DEF Active
  <2>7. IsOrder(r)
    <3>1. r.order \in Bijection(Active, 0 .. Cardinality(Active) - 1)
      BY <2>1, <2>2 DEF n
    <3> QED
      BY <3>1, <2>2, <2>4, <2>5, <2>6 DEF IsOrder
  <2> QED
    BY <2>2, <2>7
<1> QED
  BY <1>1, <1>2, <1>3 DEF Requests

\* The order of a reorder gives each of its groups a position.
LEMMA OrderType ==
  ASSUME NEW r, IsOrder(r)
  PROVE  /\ r.op = "Reorder" /\ DOMAIN r.seen = DOMAIN r.order /\ DOMAIN r.order \subseteq Groups
         /\ IsFiniteSet(DOMAIN r.order) /\ Cardinality(DOMAIN r.order) \in Nat
         /\ DOMAIN r.order # {}
         /\ r.order \in [DOMAIN r.order -> Nat]
         /\ \A g \in DOMAIN r.order : r.order[g] < Cardinality(DOMAIN r.order)
         /\ \A g, h \in DOMAIN r.order : r.order[g] = r.order[h] => g = h
<1> DEFINE D == DOMAIN r.order
           n == Cardinality(D)
<1>1. /\ r.op = "Reorder" /\ DOMAIN r.seen = D /\ D \subseteq Groups /\ D # {}
      /\ r.order \in Bijection(D, 0 .. n - 1)
  BY DEF IsOrder
<1>2. IsFiniteSet(D) /\ n \in Nat
  BY <1>1, RoutineAssumption, FS_Subset, FS_CardinalityType
<1>3. r.order \in [D -> 0 .. n - 1] /\ IsInjective(r.order)
  BY <1>1 DEF Bijection, Injection
<1>4. \A g, h \in D : r.order[g] = r.order[h] => g = h
  BY <1>3 DEF IsInjective
<1> HIDE DEF n
<1>5. \A g \in D : r.order[g] \in Nat /\ r.order[g] < n
  BY <1>2, <1>3
<1>6. r.order \in [D -> Nat]
  BY <1>3, <1>5
<1> QED
  BY <1>1, <1>2, <1>4, <1>5, <1>6 DEF n

LEMMA NatureDiffers ==
  ASSUME NEW r
  PROVE  /\ ~ (IsChange(r) /\ IsOrder(r))
         /\ r \in {Create, NoRequest} => ~ IsChange(r) /\ ~ IsOrder(r)
         /\ IsChange(r) => r.op \in {"Update", "Archive"}
         /\ IsOrder(r) => r.op = "Reorder"
         /\ Create # NoRequest /\ Create.op = "Create" /\ NoRequest.op = "none"
         /\ NoRequest.order = None
  BY DEF IsChange, IsOrder, Create, NoRequest

-----------------------------------------------------------------------------
(* Type correctness *)

LEMMA InitTypes == Init => TypeOK /\ Functional
<1> SUFFICES ASSUME Init PROVE TypeOK /\ Functional
  OBVIOUS
<1>1. \A f : f = None => DOMAIN f = {} /\ f \in [DOMAIN f -> Rows] /\ f \in [DOMAIN f -> Nat]
  BY DEF None
<1>2. row \in [Groups -> Rows]
  BY DEF Init, Rows
<1>3. step \in [Procs -> Statements] /\ count \in [Procs -> Nat]
  BY DEF Init, Statements
<1>4. \A p \in Procs : own[p] = None /\ left[p] = None
  BY DEF Init
<1>5. Functional
  BY DEF Init, Functional
<1> QED
  BY <1>1, <1>2, <1>3, <1>4, <1>5 DEF TypeOK

\* The rows and positions a step writes are rows and positions.
LEMMA TypesStep ==
  ASSUME TypeOK, Functional, NEW p \in Procs, Does(p), Follows(p)
  PROVE  TypeOK'
<1>0. /\ Functional'
      /\ \A q \in Procs \ {p} : own'[q] = own[q] /\ left'[q] = left[q]
      /\ row' # row => Commit(p)
  BY Elsewhere
<1> DEFINE OwnOK(q) == DOMAIN own[q] \subseteq Groups /\ own[q] \in [DOMAIN own[q] -> Rows]
           LeftOK(q) == DOMAIN left[q] \subseteq Groups /\ left[q] \in [DOMAIN left[q] -> Nat]
<1>a. /\ row \in [Groups -> Rows] /\ step \in [Procs -> Statements] /\ count \in [Procs -> Nat]
      /\ \A q \in Procs : OwnOK(q) /\ LeftOK(q)
  BY DEF TypeOK
<1>b. \A f : f = None => DOMAIN f = {} /\ f \in [DOMAIN f -> Rows] /\ f \in [DOMAIN f -> Nat]
  BY DEF None
<1>c. \A g \in Groups : Latest(p, g) \in Rows
  BY LatestType
<1>1. row' \in [Groups -> Rows]
  <2>1. CASE row' = row
    BY <1>a, <2>1
  <2>2. CASE Commit(p)
    BY <1>c, <2>2 DEF Commit
  <2> QED
    BY <1>0, <2>1, <2>2
<1>2. step' \in [Procs -> Statements]
  <2>1. \A r : First(r.op) \in Statements
    BY DEF First, Statements
  <2>2. UNCHANGED step \/ \E s \in Statements : step' = [step EXCEPT ![p] = s]
    <3>1. CASE \E r \in Requests : Deliver(p, r)
      BY <2>1, <3>1 DEF Deliver, Moves
    <3>2. CASE \E g \in Groups : step[p] = "lock" /\ Lock(p, g)
      BY <3>2 DEF Lock, Moves, Statements
    <3>3. CASE Count(p)
      BY <3>3 DEF Count, Moves, Statements
    <3>4. CASE \E g \in Groups : Insert(p, g)
      BY <3>4 DEF Insert, Moves, Statements
    <3>5. CASE Open(p) \/ Close(p)
      BY <3>5 DEF Open, Close, Moves, Statements
    <3>6. CASE \E g \in Groups : UpdateRow(p, g)
      BY <3>6 DEF UpdateRow
    <3>7. CASE Commit(p) \/ GiveUp(p)
      BY <3>7 DEF Commit, GiveUp, Moves, Statements
    <3> QED
      BY <3>1, <3>2, <3>3, <3>4, <3>5, <3>6, <3>7 DEF Does
  <2> QED
    BY <1>a, <2>2
<1>3. count' \in [Procs -> Nat]
  <2>1. UNCHANGED count \/ \E n \in Nat : count' = [count EXCEPT ![p] = n]
    <3>1. CASE Count(p)
      BY <3>1, FiniteRows DEF Count
    <3>2. CASE Commit(p) \/ GiveUp(p)
      BY <3>2 DEF Commit, GiveUp, End
    <3> QED
      BY <3>1, <3>2 DEF Does, Deliver, Lock, Insert, Open, UpdateRow, Close
  <2> QED
    BY <1>a, <2>1
<1>4. \A q \in Procs : OwnOK(q)'
  <2>1. CASE UNCHANGED own
    BY <1>a, <2>1
  <2>2. CASE \E g \in Groups, r \in Rows : Write(p, g, r)
    BY <2>2, WriteType
  <2>3. CASE own'[p] = None
    BY <1>0, <1>a, <1>b, <2>3
  <2>4. UNCHANGED own \/ (\E g \in Groups, r \in Rows : Write(p, g, r)) \/ own'[p] = None
    <3>1. CASE \E g \in Groups : step[p] = "lock" /\ Lock(p, g)
      <4>1. PICK g \in Groups : Lock(p, g)
        BY <3>1
      <4>2. /\ [row[g] EXCEPT !.version = @ + 1] \in Rows
            /\ [row[g] EXCEPT !.state = "archived", !.version = @ + 1] \in Rows
        <5>0. "archived" \in {"absent", "active", "archived"}
          OBVIOUS
        <5>1. row[g] \in Rows /\ row[g].version + 1 \in Nat
          BY <1>a DEF Rows
        <5> QED
          BY <5>0, <5>1, RenamedRow, ArchivedRow, Zenon
      <4>3. \E r \in Rows : Write(p, g, r)
        BY <4>1, <4>2 DEF Lock
      <4> QED
        BY <4>3
    <3>2. CASE \E g \in Groups : Insert(p, g)
      <4>1. PICK g \in Groups : Insert(p, g)
        BY <3>2
      <4>2. [state |-> "active", pos |-> count[p], version |-> 1] \in Rows
        BY <1>a DEF Rows
      <4>3. \E r \in Rows : Write(p, g, r)
        BY <4>1, <4>2 DEF Insert
      <4> QED
        BY <4>3
    <3>3. CASE \E g \in Groups : UpdateRow(p, g)
      <4>1. PICK g \in Groups : UpdateRow(p, g)
        BY <3>3
      <4>2. g \in DOMAIN left[p]
        BY <4>1 DEF UpdateRow, Due
      <4>3. Latest(p, g) \in Rows /\ left[p][g] \in Nat
        BY <1>a, <1>c, <4>2
      <4>4. Target(p, g) \in Nat
        BY <4>3 DEF Target, Rows
      <4>5. Moved(p, g) \in Rows
        BY <4>3, <4>4, MovedEffect
      <4> QED
        BY <4>1, <4>5 DEF UpdateRow
    <3>4. CASE Commit(p) \/ GiveUp(p)
      BY <3>4, EndEffect DEF Commit, GiveUp
    <3> QED
      BY <3>1, <3>2, <3>3, <3>4 DEF Does, Deliver, Count, Open, Close
  <2> QED
    BY <2>1, <2>2, <2>3, <2>4
<1>5. \A q \in Procs : LeftOK(q)'
  <2>0. SUFFICES LeftOK(p)'
    BY <1>0, <1>a
  <2>1. CASE UNCHANGED left
    BY <1>a, <2>1
  <2>2. CASE Open(p)
    <3>1. Visible(p) \subseteq Groups
      BY DEF Visible
    <3>2. Offset(p) \in Nat
      BY <1>a DEF Offset
    <3> DEFINE F == [g \in Visible(p) |-> Offset(p)]
    <3>3. DOMAIN F = Visible(p) /\ F \in [Visible(p) -> Nat]
      BY <3>2
    <3>4. left' = [left EXCEPT ![p] = F] \/ left' = [left EXCEPT ![p] = Ranks(p)]
      BY <2>2 DEF Open
    <3> HIDE DEF F
    <3>5. left'[p] = F \/ left'[p] = Ranks(p)
      BY <3>4 DEF Functional
    <3> QED
      BY <3>1, <3>3, <3>5, RankType
  <2>3. CASE \E g \in Groups : UpdateRow(p, g)
    <3>1. PICK g \in Groups : UpdateRow(p, g)
      BY <2>3
    <3>2. left' = [left EXCEPT ![p] = Restrict(@, DOMAIN @ \ {g})]
      BY <3>1 DEF UpdateRow
    <3>3. /\ DOMAIN left'[p] = DOMAIN left[p] \ {g}
          /\ \A h \in DOMAIN left[p] \ {g} : left'[p][h] = left[p][h]
          /\ left'[p] = [h \in DOMAIN left[p] \ {g} |-> left'[p][h]]
      BY <3>2, RestrictEffect
    <3>4. \A h \in DOMAIN left[p] \ {g} : left'[p][h] \in Nat
      BY <1>a, <3>3
    <3>5. left'[p] \in [DOMAIN left[p] \ {g} -> Nat]
      BY <3>3, <3>4
    <3> QED
      BY <1>a, <3>3, <3>5
  <2>4. CASE Close(p)
    <3>1. CASE UNCHANGED left
      BY <1>a, <3>1
    <3>2. CASE serving[p].op = "Reorder" /\ left' = [left EXCEPT ![p] = serving[p].order]
      <4>1. left'[p] = serving[p].order
        BY <3>2 DEF Functional
      <4>2. IsOrder(serving[p])
        BY <3>2, NatureDiffers DEF Follows
      <4> QED
        BY <4>1, <4>2, OrderType
    <3> QED
      BY <2>4, <3>1, <3>2 DEF Close
  <2>5. CASE left'[p] = None
    BY <1>b, <2>5
  <2>6. UNCHANGED left \/ Open(p) \/ (\E g \in Groups : UpdateRow(p, g)) \/ Close(p) \/ left'[p] = None
    BY EndEffect DEF Does, Deliver, Lock, Count, Insert, Commit, GiveUp
  <2> QED
    BY <2>1, <2>2, <2>3, <2>4, <2>5, <2>6
<1> HIDE DEF OwnOK, LeftOK
<1>6. \A q \in Procs : (DOMAIN own[q] \subseteq Groups /\ own[q] \in [DOMAIN own[q] -> Rows])'
  BY <1>4 DEF OwnOK
<1>7. \A q \in Procs : (DOMAIN left[q] \subseteq Groups /\ left[q] \in [DOMAIN left[q] -> Nat])'
  BY <1>5 DEF LeftOK
<1> QED
  BY <1>1, <1>2, <1>3, <1>6, <1>7 DEF TypeOK

-----------------------------------------------------------------------------
(* What was checked is kept *)

\* A transaction takes rows that no other holds.
LEMMA TakesFree ==
  ASSUME TypeOK, Functional, NEW p \in Procs, Does(p)
  PROVE  \A g \in DOMAIN own'[p] : g \in DOMAIN own[p] \/ ~ Locked(p, g)
<1>1. CASE \E g \in Groups : \E r : Write(p, g, r) /\ ~ Locked(p, g)
  <2>1. PICK g \in Groups : \E r : Write(p, g, r) /\ ~ Locked(p, g)
    BY <1>1
  <2>2. DOMAIN own'[p] = DOMAIN own[p] \cup {g}
    BY <2>1, WriteEffect
  <2> QED
    BY <2>1, <2>2
<1>2. CASE own'[p] = None
  BY <1>2, NoneDomain
<1>3. CASE UNCHANGED own
  BY <1>3
<1>4. CASE Commit(p) \/ GiveUp(p)
  BY <1>2, <1>4, EndEffect DEF Commit, GiveUp
<1>5. CASE \E g \in Groups : step[p] = "lock" /\ Lock(p, g)
  <2>1. \E g \in Groups : \E r : Write(p, g, r) /\ ~ Locked(p, g)
    BY <1>5 DEF Lock
  <2> QED
    BY <1>1, <2>1
<1>6. CASE \E g \in Groups : Insert(p, g)
  <2>1. \E g \in Groups : \E r : Write(p, g, r) /\ ~ Locked(p, g)
    BY <1>6 DEF Insert
  <2> QED
    BY <1>1, <2>1
<1>7. CASE \E g \in Groups : UpdateRow(p, g)
  <2>1. UNCHANGED own \/ \E g \in Groups : \E r : Write(p, g, r) /\ ~ Locked(p, g)
    BY <1>7 DEF UpdateRow
  <2> QED
    BY <1>1, <1>3, <2>1
<1>8. (\/ \E r \in Requests : Deliver(p, r)
       \/ Count(p) \/ Open(p) \/ Close(p)) => UNCHANGED own
  BY DEF Deliver, Count, Open, Close
<1> QED
  BY <1>3, <1>4, <1>5, <1>6, <1>7, <1>8 DEF Does

LEMMA ExclusiveStep ==
  ASSUME TypeOK, Functional, Exclusive, NEW p \in Procs, Does(p)
  PROVE  Exclusive'
<1>1. \A q \in Procs \ {p} : own'[q] = own[q]
  BY Elsewhere
<1>2. \A g \in DOMAIN own'[p] : g \in DOMAIN own[p] \/ ~ Locked(p, g)
  BY TakesFree
<1>3. \A q \in Procs \ {p} : DOMAIN own'[p] \cap DOMAIN own'[q] = {}
  BY <1>1, <1>2 DEF Exclusive, Locked
<1>4. \A q, s \in Procs \ {p} : q # s => DOMAIN own'[q] \cap DOMAIN own'[s] = {}
  BY <1>1 DEF Exclusive
<1> QED
  BY <1>3, <1>4 DEF Exclusive

\* What a transaction holds, another does not change.
LEMMA HeldStays ==
  ASSUME TypeOK, Functional, Exclusive, NEW p \in Procs, Does(p), NEW q \in Procs \ {p}
  PROVE  \A g \in DOMAIN own[q] : row'[g] = row[g]
<1>1. \A g \in DOMAIN own[q] : g \in Groups /\ g \notin DOMAIN own[p]
  BY DEF TypeOK, Exclusive
<1> QED
  BY <1>1, Elsewhere

LEMMA KeepsElsewhere ==
  ASSUME TypeOK, Functional, Exclusive, NEW p \in Procs, Does(p),
         NEW q \in Procs \ {p}, Follows(q), Keeps(q)
  PROVE  Follows(q)' /\ Keeps(q)'
<1>1. /\ own'[q] = own[q] /\ step'[q] = step[q] /\ serving'[q] = serving[q] /\ left'[q] = left[q]
  BY Elsewhere
<1>2. \A g \in DOMAIN own[q] : row'[g] = row[g]
  BY HeldStays
<1>3. Follows(q)'
  BY <1>1 DEF Follows, Unwritten
<1>4. \A g \in DOMAIN own[q] : /\ AsSeen(q, g)' <=> AsSeen(q, g)
                               /\ AsFound(q, g)' <=> AsFound(q, g)
  BY <1>1, <1>2 DEF AsSeen, AsFound
<1>5. Keeps(q)'
  BY <1>1, <1>4 DEF Keeps
<1> QED
  BY <1>3, <1>5

LEMMA KeepsDeliver ==
  ASSUME TypeOK, Functional, NEW p \in Procs, Follows(p), NEW r \in Requests, Deliver(p, r)
  PROVE  Follows(p)' /\ Keeps(p)'
<1>1. /\ step[p] = "idle" /\ step'[p] = First(r.op)
      /\ r.op = "Reorder" => r.order # None
      /\ UNCHANGED <<row, own, count, left>>
  BY MovesEffect DEF Deliver
<1>2. serving'[p] = r
  BY DEF Deliver, Functional
<1>3. r = Create \/ IsChange(r) \/ IsOrder(r)
  BY <1>1, Asked
<1>4. own[p] = None /\ left[p] = None
  BY <1>1 DEF Follows, Unwritten
<1>5. \/ r = Create /\ r.op = "Create" /\ step'[p] = "count"
      \/ IsChange(r) /\ r.op \in {"Update", "Archive"} /\ step'[p] = "lock"
      \/ IsOrder(r) /\ r.op = "Reorder" /\ step'[p] = "count"
  BY <1>1, <1>3, NatureDiffers DEF First
<1>6. Follows(p)'
  BY <1>1, <1>2, <1>4, <1>5 DEF Follows
<1>7. Keeps(p)'
  BY <1>2, <1>5 DEF Keeps
<1> QED
  BY <1>6, <1>7

\* The version is checked on the row that is then held.
LEMMA KeepsLock ==
  ASSUME TypeOK, Functional, NEW p \in Procs, Follows(p), NEW g \in Groups, Lock(p, g)
  PROVE  Follows(p)' /\ Keeps(p)'
<1>1. /\ g \in DOMAIN serving[p].seen /\ AsSeen(p, g)
      /\ UNCHANGED <<row, serving, count, left>>
      /\ \E r : Write(p, g, r)
      /\ \E s : Moves(p, "lock", s)
  BY DEF Lock, AsSeen
<1>2. step[p] = "lock" /\ step'[p] = IF serving[p].op = "Update" THEN "commit" ELSE "count"
  BY MovesEffect DEF Lock
<1>3. IsChange(serving[p]) /\ serving[p].op \in {"Update", "Archive"} /\ left[p] = None
  BY <1>2, NatureDiffers DEF Follows
<1>4. DOMAIN serving[p].seen = {g}
  BY <1>1, <1>3 DEF IsChange
<1>5. g \in DOMAIN own'[p]
  <2>1. PICK r : Write(p, g, r)
    BY <1>1
  <2>2. DOMAIN own'[p] = DOMAIN own[p] \cup {g}
    BY <2>1, WriteEffect
  <2> QED
    BY <2>2
<1>6. Follows(p)'
  BY <1>1, <1>2, <1>3 DEF Follows, Unwritten
<1>7. Keeps(p)'
  BY <1>1, <1>2, <1>3, <1>4, <1>5 DEF Keeps, AsSeen
<1> QED
  BY <1>6, <1>7

\* The statements in between hold what they held.
LEMMA KeepsOthers ==
  ASSUME TypeOK, Functional, NEW p \in Procs, Follows(p), Keeps(p),
         Count(p) \/ (\E g \in Groups : Insert(p, g)) \/ Open(p) \/ Commit(p) \/ GiveUp(p)
  PROVE  Follows(p)' /\ Keeps(p)'
<1>1. CASE Count(p)
  <2>1. /\ UNCHANGED <<row, own, serving, left>>
        /\ step[p] = "count"
        /\ step'[p] = IF serving[p].op = "Create" THEN "insert"
                      ELSE IF serving[p].op = "Archive" /\ Cardinality(Visible(p)) = 0 THEN "rank"
                      ELSE "shift"
    BY <1>1, MovesEffect DEF Count
  <2>2. Follows(p)'
    BY <2>1, NatureDiffers DEF Follows, Unwritten
  <2>3. Keeps(p)'
    BY <2>1 DEF Keeps, AsSeen, AsFound
  <2> QED
    BY <2>2, <2>3
<1>2. CASE \E g \in Groups : Insert(p, g)
  <2>1. /\ UNCHANGED <<row, serving, left>>
        /\ step[p] = "insert" /\ step'[p] = "commit"
    BY <1>2, MovesEffect DEF Insert
  <2>2. serving[p] = Create /\ serving[p].op = "Create"
    BY <2>1, NatureDiffers DEF Follows
  <2>3. Follows(p)'
    BY <2>1, <2>2 DEF Follows, Unwritten
  <2>4. Keeps(p)'
    BY <2>1, <2>2 DEF Keeps
  <2> QED
    BY <2>3, <2>4
<1>3. CASE Open(p)
  <2>1. /\ UNCHANGED <<row, own, serving, count>>
        /\ \/ step[p] = "shift" /\ step'[p] = "shifting"
           \/ step[p] = "rank" /\ step'[p] = "ranking"
    BY <1>3, MovesEffect DEF Open
  <2>2. Follows(p)'
    BY <2>1, NatureDiffers DEF Follows, Unwritten
  <2>3. serving[p].op = "Reorder" => step[p] = "shift" /\ own[p] = None
    BY <2>1, NatureDiffers DEF Follows, Unwritten
  <2>4. Keeps(p)'
    BY <2>1, <2>3, NoneDomain DEF Keeps, AsSeen
  <2> QED
    BY <2>2, <2>4
<1>4. CASE Commit(p) \/ GiveUp(p)
  <2>1. End(p) /\ step'[p] = "idle"
    BY <1>4, MovesEffect DEF Commit, GiveUp, TypeOK
  <2>2. own'[p] = None /\ serving'[p] = NoRequest /\ left'[p] = None
    BY <2>1, EndEffect
  <2>3. Follows(p)'
    BY <2>1, <2>2 DEF Follows
  <2>4. Keeps(p)'
    BY <2>2, NatureDiffers DEF Keeps
  <2> QED
    BY <2>3, <2>4
<1> QED
  BY <1>1, <1>2, <1>3, <1>4

\* Reorder checks the version of a row when it places it.
LEMMA KeepsUpdateRow ==
  ASSUME TypeOK, Functional, NEW p \in Procs, Follows(p), Keeps(p),
         NEW g \in Groups, UpdateRow(p, g)
  PROVE  Follows(p)' /\ Keeps(p)'
<1> DEFINE W == DOMAIN own[p]
           L == DOMAIN left[p]
<1>1. /\ g \in L
      /\ UNCHANGED <<row, serving, step, count>>
      /\ left' = [left EXCEPT ![p] = Restrict(@, DOMAIN @ \ {g})]
      /\ \/ Matches(p, g) /\ Write(p, g, Moved(p, g))
         \/ step[p] = "shifting" /\ UNCHANGED own
  BY DEF UpdateRow, Due
<1>2. DOMAIN left'[p] = L \ {g}
  BY <1>1, RestrictEffect
<1>3. ASSUME Write(p, g, Moved(p, g))
      PROVE  /\ DOMAIN own'[p] = W \cup {g}
             /\ own'[p][g] = Moved(p, g)
             /\ \A h \in W \ {g} : own'[p][h] = own[p][h]
  <2>1. own'[p][g] = Moved(p, g)
    BY <1>3, WriteResult
  <2>2. DOMAIN own'[p] = W \cup {g} /\ \A h \in W \ {g} : own'[p][h] = own[p][h]
    BY <1>3, WriteEffect
  <2> QED
    BY <2>1, <2>2
<1>4. step[p] \in {"shifting", "placing", "ranking"}
  BY <1>1, NoneDomain DEF Follows
<1>5. Follows(p)'
  <2>1. ~ Unwritten(p)' /\ step'[p] = step[p]
    BY <1>1, <1>4, NatureDiffers DEF Unwritten
  <2> QED
    BY <1>1, <1>4, <2>1 DEF Follows
<1>6. CASE serving[p].op # "Reorder"
  <2>1. W \subseteq DOMAIN own'[p]
    BY <1>1, <1>3
  <2>2. Keeps(p)'
    BY <1>1, <1>6, <2>1 DEF Keeps, AsSeen
  <2> QED
    BY <1>5, <2>2
<1>7. CASE serving[p].op = "Reorder" /\ step[p] = "shifting"
  <2>1. \A h \in W : AsFound(p, h)
    BY <1>7 DEF Keeps
  <2>2. CASE UNCHANGED own
    BY <1>1, <1>5, <1>7, <2>1, <2>2 DEF Keeps, AsFound
  <2>3. CASE Matches(p, g) /\ Write(p, g, Moved(p, g))
    <3>1. Latest(p, g).state = "active" /\ Latest(p, g) \in Rows
      BY <1>7, <2>3, LatestType DEF Matches
    <3>2. left[p][g] \in Nat
      BY <1>1 DEF TypeOK
    <3>3. Target(p, g) \in Nat
      BY <1>7, <3>1, <3>2 DEF Target, Rows
    <3>4. Moved(p, g).version = Latest(p, g).version
      BY <1>7, <3>1, <3>3, MovedEffect
    <3>5. row[g].state = "active" /\ Latest(p, g).version = row[g].version
      BY <2>1, <3>1 DEF Latest, AsFound
    <3>6. \A h \in DOMAIN own'[p] : AsFound(p, h)'
      BY <1>1, <1>3, <2>1, <2>3, <3>4, <3>5 DEF AsFound
    <3>7. Keeps(p)'
      BY <1>1, <1>7, <3>6 DEF Keeps
    <3> QED
      BY <1>5, <3>7
  <2> QED
    BY <1>1, <2>2, <2>3
<1>8. CASE serving[p].op = "Reorder" /\ step[p] = "placing"
  <2>1. Matches(p, g) /\ Write(p, g, Moved(p, g))
    BY <1>1, <1>8
  <2>2. Latest(p, g).state = "active" /\ Latest(p, g).version = serving[p].seen[g]
    BY <1>8, <2>1 DEF Matches
  <2>3. IsOrder(serving[p])
    BY <1>8, NatureDiffers DEF Follows
  <2>4. \A h \in DOMAIN serving[p].seen :
          IF h \in L THEN h \in W => AsFound(p, h) ELSE h \in W /\ AsSeen(p, h)
    BY <1>8 DEF Keeps
  <2>5. g \in DOMAIN serving[p].seen => AsSeen(p, g)
    BY <1>1, <2>2, <2>4 DEF Latest, AsFound, AsSeen
  <2>6. \A h \in DOMAIN serving[p].seen :
          IF h \in DOMAIN left'[p] THEN h \in DOMAIN own'[p] => AsFound(p, h)'
          ELSE h \in DOMAIN own'[p] /\ AsSeen(p, h)'
    <3>1. \A h \in W \ {g} : AsFound(p, h)' <=> AsFound(p, h)
      BY <1>1, <1>3, <2>1 DEF AsFound
    <3>2. \A h : AsSeen(p, h)' <=> AsSeen(p, h)
      BY <1>1 DEF AsSeen
    <3> QED
      BY <1>2, <1>3, <2>1, <2>4, <2>5, <3>1, <3>2
  <2>7. Keeps(p)'
    BY <1>1, <1>8, <2>6 DEF Keeps
  <2> QED
    BY <1>5, <2>7
<1>9. serving[p].op = "Reorder" => step[p] # "ranking"
  BY NatureDiffers DEF Follows
<1> QED
  BY <1>4, <1>6, <1>7, <1>8, <1>9

LEMMA KeepsClose ==
  ASSUME TypeOK, Functional, NEW p \in Procs, Follows(p), Keeps(p), Close(p)
  PROVE  Follows(p)' /\ Keeps(p)'
<1>1. UNCHANGED <<row, own, serving, count>> /\ left[p] = None
  BY DEF Close
<1>2. \/ serving[p].op = "Archive" /\ step[p] = "shifting" /\ step'[p] = "rank" /\ left' = left
      \/ /\ serving[p].op = "Reorder" /\ step[p] = "shifting" /\ step'[p] = "placing"
         /\ left' = [left EXCEPT ![p] = serving[p].order]
      \/ step[p] \in {"placing", "ranking"} /\ step'[p] = "commit" /\ left' = left
  BY MovesEffect DEF Close
<1>3. CASE \/ serving[p].op = "Archive" /\ step[p] = "shifting" /\ step'[p] = "rank" /\ left' = left
           \/ step[p] \in {"placing", "ranking"} /\ step'[p] = "commit" /\ left' = left
  <2>1. Follows(p)'
    BY <1>1, <1>2, <1>3, NatureDiffers DEF Follows, Unwritten
  <2>2. serving[p].op = "Reorder" => step[p] # "ranking"
    BY NatureDiffers DEF Follows
  <2>3. Keeps(p)'
    BY <1>1, <1>2, <1>3, <2>2 DEF Keeps, AsSeen, AsFound
  <2> QED
    BY <2>1, <2>3
<1>4. CASE /\ serving[p].op = "Reorder" /\ step[p] = "shifting" /\ step'[p] = "placing"
           /\ left' = [left EXCEPT ![p] = serving[p].order]
  <2>1. left'[p] = serving[p].order
    BY <1>4 DEF Functional
  <2>2. IsOrder(serving[p])
    BY <1>4, NatureDiffers DEF Follows
  <2>3. DOMAIN left'[p] = DOMAIN serving[p].seen
    BY <2>1, <2>2, OrderType
  <2>4. Follows(p)'
    BY <1>1, <1>4, <2>2 DEF Follows, Unwritten
  <2>5. Keeps(p)'
    BY <1>1, <1>4, <2>3 DEF Keeps, AsFound
  <2> QED
    BY <2>4, <2>5
<1> QED
  BY <1>2, <1>3, <1>4

LEMMA RInit == Init => RInv
<1> SUFFICES ASSUME Init PROVE RInv
  OBVIOUS
<1>1. TypeOK /\ Functional
  BY InitTypes
<1>2. \A p \in Procs : /\ own[p] = None /\ left[p] = None
                       /\ serving[p] = NoRequest /\ step[p] = "idle"
  BY DEF Init
<1>3. Exclusive
  BY <1>2, NoneDomain DEF Exclusive
<1>4. \A p \in Procs : Follows(p) /\ Keeps(p)
  BY <1>2, NatureDiffers DEF Follows, Keeps
<1> QED
  BY <1>1, <1>3, <1>4 DEF RInv

LEMMA RStep == RInv /\ [Next]_vars => RInv'
<1> SUFFICES ASSUME RInv, [Next]_vars PROVE RInv'
  OBVIOUS
<1>0. TypeOK /\ Functional /\ Exclusive /\ \A p \in Procs : Follows(p) /\ Keeps(p)
  BY DEF RInv
<1>1. CASE Next
  <2>1. PICK p \in Procs : Does(p)
    BY <1>1, NextDoes
  <2>2. TypeOK' /\ Functional' /\ Exclusive'
    BY <1>0, <2>1, TypesStep, Elsewhere, ExclusiveStep
  <2>3. \A q \in Procs \ {p} : Follows(q)' /\ Keeps(q)'
    BY <1>0, <2>1, KeepsElsewhere
  <2>4. Follows(p)' /\ Keeps(p)'
    <3>1. Follows(p) /\ Keeps(p)
      BY <1>0
    <3>2. CASE \E r \in Requests : Deliver(p, r)
      BY <1>0, <3>1, <3>2, KeepsDeliver
    <3>3. CASE \E g \in Groups : step[p] = "lock" /\ Lock(p, g)
      BY <1>0, <3>1, <3>3, KeepsLock
    <3>4. CASE Count(p) \/ (\E g \in Groups : Insert(p, g)) \/ Open(p) \/ Commit(p) \/ GiveUp(p)
      BY <1>0, <3>1, <3>4, KeepsOthers
    <3>5. CASE \E g \in Groups : UpdateRow(p, g)
      BY <1>0, <3>1, <3>5, KeepsUpdateRow
    <3>6. CASE Close(p)
      BY <1>0, <3>1, <3>6, KeepsClose
    <3> QED
      BY <2>1, <3>2, <3>3, <3>4, <3>5, <3>6 DEF Does
  <2> QED
    BY <2>2, <2>3, <2>4 DEF RInv
<1>2. CASE UNCHANGED vars
  <2>1. /\ row' = row /\ own' = own /\ serving' = serving
        /\ step' = step /\ count' = count /\ left' = left
    BY <1>2 DEF vars
  <2>2. TypeOK' /\ Functional' /\ Exclusive'
    BY <1>0, <2>1 DEF TypeOK, Functional, Exclusive
  <2>3. \A p \in Procs : Follows(p)' /\ Keeps(p)'
    BY <1>0, <2>1 DEF Follows, Unwritten, Keeps, AsSeen, AsFound
  <2> QED
    BY <2>2, <2>3 DEF RInv
<1> QED
  BY <1>1, <1>2

LEMMA RoutinesInvariant == Spec => []RInv
<1>1. Init => RInv
  BY RInit
<1>2. RInv /\ [Next]_vars => RInv'
  BY RStep
<1> QED
  BY <1>1, <1>2, PTL DEF Spec

\* However requests interleave, rows, what a transaction wrote of them and what
\* a statement has left to write stay within their types.
THEOREM TypeCorrect == Spec => []TypeOK
<1>1. RInv => TypeOK
  BY DEF RInv
<1> QED
  BY <1>1, RoutinesInvariant, PTL

\* Update, Archive and Reorder (routines/service.go) never commit over another
\* parent's change: every group they name is still active and at the version the
\* client was shown, whether or not groups are created meanwhile.
THEOREM StaleAlwaysLoses == Spec => StaleLoses
<1> DEFINE Fresh ==
      \A p \in Procs : Commit(p) =>
        \A g \in DOMAIN serving[p].seen : /\ row[g].state = "active"
                                          /\ row[g].version = serving[p].seen[g]
<1>1. ASSUME RInv, NEW p \in Procs, Commit(p), NEW g \in DOMAIN serving[p].seen
      PROVE  row[g].state = "active" /\ row[g].version = serving[p].seen[g]
  <2>1. Follows(p) /\ Keeps(p) /\ step[p] = "commit"
    BY <1>1 DEF RInv, Commit, Moves
  <2>2. serving[p] = Create \/ IsChange(serving[p]) \/ IsOrder(serving[p])
    BY <2>1 DEF Follows
  <2>3. serving[p] # Create
    BY <1>1, NoneDomain DEF Create
  <2>4. CASE IsChange(serving[p])
    BY <1>1, <2>1, <2>4, NatureDiffers DEF Keeps, AsSeen
  <2>5. CASE IsOrder(serving[p])
    <3>1. serving[p].op = "Reorder" /\ left[p] = None
      BY <2>1, <2>5, NatureDiffers DEF Follows
    <3> QED
      BY <1>1, <2>1, <3>1, NoneDomain DEF Keeps, AsSeen
  <2> QED
    BY <2>2, <2>3, <2>4, <2>5
<1>2. RInv /\ [Next]_vars => [Fresh]_vars
  BY <1>1
<1>3. Spec => [][Fresh]_vars
  BY <1>2, RoutinesInvariant, PTL DEF Spec
<1> QED
  BY <1>3 DEF StaleLoses

-----------------------------------------------------------------------------
(* Positions and ranks *)

\* Dense positions are distinct, and below the number of groups.
LEMMA DensePositions ==
  ASSUME TypeOK, Dense
  PROVE  /\ \A g \in Active : row[g].pos \in Nat /\ row[g].pos < Cardinality(Active)
         /\ \A g, h \in Active : row[g].pos = row[h].pos => g = h
<1> DEFINE n == Cardinality(Active)
           P == 0 .. n - 1
           f == [g \in Active |-> row[g].pos]
<1>1. IsFiniteSet(Active) /\ n \in Nat
  BY FiniteRows
<1>2. {row[g].pos : g \in Active} = P
  BY DEF Dense
<1>3. Cardinality(P) = n
  <2>1. Cardinality(P) = IF 0 > n - 1 THEN 0 ELSE n - 1 - 0 + 1
    BY <1>1, FS_Interval
  <2> HIDE DEF n, P
  <2> QED
    BY <1>1, <2>1
<1> HIDE DEF n
<1>4. \A g \in Active : row[g].pos \in P
  BY <1>2
<1>5. \A g \in Active : row[g].pos \in Nat /\ row[g].pos < n
  BY <1>1, <1>4
<1>6. f \in Surjection(Active, P)
  <2>1. f \in [Active -> P]
    BY <1>4
  <2>2. \A i \in P : \E g \in Active : f[g] = i
    BY <1>2
  <2> QED
    BY <2>1, <2>2 DEF Surjection
<1> HIDE DEF P
<1>7. f \in Injection(Active, P)
  <2> HIDE DEF f
  <2>1. Cardinality(P) = Cardinality(Active)
    BY <1>3 DEF n
  <2> QED
    BY <1>1, <1>6, <2>1, FS_Surjection
<1>8. \A g, h \in Active : f[g] = f[h] => g = h
  <2> HIDE DEF f
  <2> QED
    BY <1>7 DEF Injection, IsInjective
<1>9. \A g, h \in Active : row[g].pos = row[h].pos => g = h
  BY <1>8
<1> QED
  BY <1>5, <1>9 DEF n

\* The rank of a row is that of its position, and ranks fill the range.
LEMMA RanksFill ==
  ASSUME TypeOK, Dense, NEW p \in Procs
  PROVE  /\ IsFiniteSet(Others(p)) /\ Cardinality(Others(p)) \in Nat
         /\ \A g, h \in Others(p) : row[g].pos < row[h].pos => Rank(p, g) < Rank(p, h)
         /\ {Rank(p, g) : g \in Others(p)} = 0 .. Cardinality(Others(p)) - 1
<1> DEFINE V == Others(p)
           m == Cardinality(V)
           P == 0 .. m - 1
           Below(g) == {h \in V : row[h].pos < row[g].pos}
           f == [g \in V |-> Rank(p, g)]
<1>1. V \in SUBSET Active /\ V \in SUBSET Groups
  BY DEF Others, Active
<1>2. IsFiniteSet(V) /\ m \in Nat
  BY <1>1, FiniteRows, FS_Subset, FS_CardinalityType
<1>3. \A g \in V : row[g].pos \in Nat
  BY <1>1, DensePositions
<1>4. \A g, h \in V : g # h => row[g].pos < row[h].pos \/ row[h].pos < row[g].pos
  <2>1. \A g, h \in V : g # h => row[g].pos # row[h].pos
    BY <1>1, DensePositions
  <2> HIDE DEF V
  <2> QED
    BY <1>3, <2>1
<1>5. \A g \in V : Rank(p, g) = Cardinality(Below(g))
  BY DEF Rank
<1> HIDE DEF V, m
<1>6. \A S \in SUBSET V : \A T \in SUBSET S :
        /\ Cardinality(S) \in Nat /\ Cardinality(T) \in Nat
        /\ T # S => Cardinality(T) < Cardinality(S)
  <2> SUFFICES ASSUME NEW S \in SUBSET V, NEW T \in SUBSET S
               PROVE  /\ Cardinality(S) \in Nat /\ Cardinality(T) \in Nat
                      /\ T # S => Cardinality(T) < Cardinality(S)
    OBVIOUS
  <2>1. IsFiniteSet(S)
    BY <1>2, FS_Subset
  <2>2. /\ IsFiniteSet(T) /\ Cardinality(T) <= Cardinality(S)
        /\ Cardinality(S) = Cardinality(T) => S = T
    BY <2>1, FS_Subset
  <2>3. Cardinality(S) \in Nat /\ Cardinality(T) \in Nat
    BY <2>1, <2>2, FS_CardinalityType
  <2> QED
    BY <2>2, <2>3
<1>7. ASSUME NEW g \in V, NEW h \in V, row[g].pos < row[h].pos
      PROVE  Rank(p, g) < Rank(p, h)
  <2>1. \A k \in V : row[k].pos < row[g].pos => row[k].pos < row[h].pos
    BY <1>3, <1>7
  <2>2. ~ (row[g].pos < row[g].pos)
    BY <1>3
  <2>3. Below(g) \in SUBSET Below(h) /\ Below(h) \in SUBSET V /\ g \in Below(h) /\ g \notin Below(g)
    BY <1>7, <2>1, <2>2
  <2> HIDE DEF Below
  <2>4. Cardinality(Below(g)) < Cardinality(Below(h))
    BY <1>6, <2>3
  <2> QED
    BY <1>5, <2>4
<1>8. \A g \in V : Rank(p, g) \in P
  <2> SUFFICES ASSUME NEW g \in V PROVE Rank(p, g) \in P
    OBVIOUS
  <2>1. ~ (row[g].pos < row[g].pos)
    BY <1>3
  <2>2. Below(g) \in SUBSET V /\ Below(g) # V /\ V \in SUBSET V
    BY <2>1
  <2> HIDE DEF Below
  <2>3. Cardinality(Below(g)) \in Nat /\ Cardinality(Below(g)) < Cardinality(V)
    BY <1>6, <2>2
  <2>4. Rank(p, g) \in Nat /\ Rank(p, g) < m
    BY <1>5, <2>3 DEF m
  <2> QED
    BY <1>2, <2>4
<1>9. Cardinality(P) = m /\ IsFiniteSet(P)
  <2>1. Cardinality(P) = IF 0 > m - 1 THEN 0 ELSE m - 1 - 0 + 1
    BY <1>2, FS_Interval
  <2>2. IsFiniteSet(P)
    BY <1>2, FS_Interval
  <2> HIDE DEF P
  <2> QED
    BY <1>2, <2>1, <2>2
<1> HIDE DEF P
<1>10. f \in Injection(V, P)
  <2>1. f \in [V -> P]
    BY <1>8
  <2>2. \A g, h \in V : g # h => Rank(p, g) # Rank(p, h)
    <3> SUFFICES ASSUME NEW g \in V, NEW h \in V, g # h PROVE Rank(p, g) # Rank(p, h)
      OBVIOUS
    <3>1. Rank(p, g) \in Nat /\ Rank(p, h) \in Nat
      BY <1>2, <1>8 DEF P
    <3>2. Rank(p, g) < Rank(p, h) \/ Rank(p, h) < Rank(p, g)
      BY <1>4, <1>7
    <3> QED
      BY <3>1, <3>2
  <2>3. \A g, h \in V : f[g] = f[h] => g = h
    BY <2>2
  <2>4. DOMAIN f = V
    OBVIOUS
  <2> HIDE DEF f
  <2> QED
    BY <2>1, <2>3, <2>4 DEF Injection, IsInjective
<1>11. f \in Surjection(V, P)
  <2> HIDE DEF f
  <2> QED
    BY <1>9, <1>10, FS_Injection DEF m
<1>12. \A i \in P : \E g \in V : f[g] = i
  <2> HIDE DEF f
  <2> QED
    BY <1>11 DEF Surjection
<1>13. {Rank(p, g) : g \in V} = P
  BY <1>8, <1>12
<1> QED
  BY <1>2, <1>7, <1>13 DEF V, m, P

-----------------------------------------------------------------------------
(* What a commit does to the order *)

\* The groups and their positions, whatever their names and versions.
SameShape ==
  /\ Active' = Active
  /\ \A g \in Groups : row'[g].state = row[g].state /\ row'[g].pos = row[g].pos

LEMMA NothingCommitted ==
  ASSUME UNCHANGED row
  PROVE  SameShape
  BY DEF SameShape, Active

LEMMA CommitRows ==
  ASSUME TypeOK, Functional, NEW p \in Procs, Commit(p)
  PROVE  /\ step[p] = "commit"
         /\ \A g \in Groups : row'[g] = IF g \in DOMAIN own[p] THEN own[p][g] ELSE row[g]
         /\ own'[p] = None /\ serving'[p] = NoRequest /\ count'[p] = 0 /\ left'[p] = None
         /\ step'[p] = "idle"
<1>1. step[p] = "commit" /\ step'[p] = "idle" /\ End(p)
  BY MovesEffect DEF Commit
<1>2. \A g \in Groups : row'[g] = IF g \in DOMAIN own[p] THEN own[p][g] ELSE row[g]
  BY DEF Commit, Latest
<1> QED
  BY <1>1, <1>2, EndEffect

LEMMA ActiveRows ==
  /\ \A g \in Active : g \in Groups /\ row[g].state = "active"
  /\ \A g \in Groups : row[g].state = "active" => g \in Active
  /\ \A g \in Active' : g \in Groups /\ row'[g].state = "active"
  /\ \A g \in Groups : row'[g].state = "active" => g \in Active'
  BY DEF Active

\* A new group comes last.
LEMMA CommitCreate ==
  ASSUME RInv, NEW p \in Procs, Commit(p), serving[p] = Create, Creating(p), Dense
  PROVE  Dense'
<1>1. TypeOK /\ Functional
  BY DEF RInv
<1>2. /\ step[p] = "commit"
      /\ \A g \in Groups : row'[g] = IF g \in DOMAIN own[p] THEN own[p][g] ELSE row[g]
  BY <1>1, CommitRows
<1> DEFINE n == Cardinality(Active)
<1>3. count[p] = n
  BY <1>2 DEF Creating
<1>4. PICK g \in Groups : DOMAIN own[p] = {g} /\ row[g].state = "absent" /\ Placed(p, g, n)
  BY <1>2, <1>3 DEF Creating
<1>5. g \notin Active
  BY <1>4, ActiveRows
<1>6. row'[g] = own[p][g] /\ row'[g].state = "active" /\ row'[g].pos = n
  BY <1>2, <1>4 DEF Placed
<1>7. \A h \in Groups \ {g} : row'[h] = row[h]
  BY <1>2, <1>4
<1>8. Active' = Active \cup {g}
  BY <1>4, <1>6, <1>7, ActiveRows
<1>9. n \in Nat /\ Cardinality(Active') = n + 1
  BY <1>5, <1>8, FiniteRows, FS_AddElement
<1>10. \A h \in Active : row'[h] = row[h]
  BY <1>5, <1>7, ActiveRows
<1>11. {row'[h].pos : h \in Active'} = {row[h].pos : h \in Active} \cup {n}
  BY <1>6, <1>8, <1>10
<1>12. {row[h].pos : h \in Active} = 0 .. n - 1
  BY DEF Dense
<1> HIDE DEF n
<1>13. (0 .. n - 1) \cup {n} = 0 .. (n + 1) - 1
  BY <1>9
<1> QED
  BY <1>9, <1>11, <1>12, <1>13 DEF Dense

\* A new name moves nothing.
LEMMA CommitUpdate ==
  ASSUME RInv, NEW p \in Procs, Commit(p), serving[p].op = "Update", Updating(p)
  PROVE  SameShape
<1>1. TypeOK /\ Functional /\ Keeps(p)
  BY DEF RInv
<1>2. /\ step[p] = "commit"
      /\ \A g \in Groups : row'[g] = IF g \in DOMAIN own[p] THEN own[p][g] ELSE row[g]
  BY <1>1, CommitRows
<1>3. \A g \in DOMAIN own[p] : /\ own[p][g].state = "active" /\ own[p][g].pos = row[g].pos
                               /\ row[g].state = "active"
  BY <1>1, <1>2 DEF Updating, Placed, Keeps, AsSeen
<1>4. \A g \in Groups : row'[g].state = row[g].state /\ row'[g].pos = row[g].pos
  BY <1>2, <1>3
<1> QED
  BY <1>4, ActiveRows DEF SameShape

\* A reorder that commits held every active group, and put each in its place.
LEMMA CommitReorder ==
  ASSUME RInv, NEW p \in Procs, Commit(p), serving[p].op = "Reorder", Reordering(p)
  PROVE  Dense' /\ Active \subseteq DOMAIN own[p] /\ Active' = Active /\ Active # {}
<1>1. TypeOK /\ Functional /\ Keeps(p) /\ Follows(p)
  BY DEF RInv
<1>2. /\ step[p] = "commit"
      /\ \A g \in Groups : row'[g] = IF g \in DOMAIN own[p] THEN own[p][g] ELSE row[g]
  BY <1>1, CommitRows
<1> DEFINE D == DOMAIN serving[p].order
           W == DOMAIN own[p]
<1>3. IsOrder(serving[p]) /\ left[p] = None
  BY <1>1, <1>2, NatureDiffers DEF Follows
<1>4. DOMAIN serving[p].seen = D /\ D \subseteq Groups /\ D # {}
  BY <1>3, OrderType
<1>5. Active \subseteq W /\ W \subseteq D
  BY <1>2 DEF Reordering
<1>6. \A g \in D : g \in W /\ own[p][g].state = "active" /\ own[p][g].pos = serving[p].order[g]
  BY <1>2, <1>3, NoneDomain DEF Reordering, Placed
<1>7. \A g \in D : row[g].state = "active"
  BY <1>1, <1>2, <1>3, <1>4, NoneDomain DEF Keeps, AsSeen
<1>8. Active = D /\ W = D
  BY <1>4, <1>5, <1>6, <1>7, ActiveRows
<1>9. \A g \in D : row'[g].state = "active" /\ row'[g].pos = serving[p].order[g]
  BY <1>2, <1>4, <1>6
<1>10. \A g \in Groups \ D : row'[g] = row[g]
  BY <1>2, <1>8
<1>11. Active' = D
  BY <1>4, <1>8, <1>9, <1>10, ActiveRows
<1>12. serving[p].order \in Bijection(D, 0 .. Cardinality(D) - 1)
  BY <1>3 DEF IsOrder
<1>13. {serving[p].order[g] : g \in D} = 0 .. Cardinality(D) - 1
  <2> HIDE DEF D
  <2>1. /\ serving[p].order \in [D -> 0 .. Cardinality(D) - 1]
        /\ \A i \in 0 .. Cardinality(D) - 1 : \E g \in D : serving[p].order[g] = i
    BY <1>12 DEF Bijection, Surjection
  <2> QED
    BY <2>1
<1>14. {row'[g].pos : g \in Active'} = {serving[p].order[g] : g \in D}
  BY <1>9, <1>11
<1>15. Dense'
  BY <1>11, <1>13, <1>14 DEF Dense
<1> QED
  BY <1>4, <1>5, <1>8, <1>11, <1>15

\* An archival that commits held every active group, and closed the gap.
LEMMA CommitArchive ==
  ASSUME RInv, NEW p \in Procs, Commit(p), serving[p].op = "Archive", Archiving(p), Dense
  PROVE  /\ Dense' /\ Active \subseteq DOMAIN own[p] /\ Active # {}
         /\ Active' = Others(p)
         /\ \A g \in Others(p) : row'[g].pos = Rank(p, g)
<1>1. TypeOK /\ Functional /\ Keeps(p) /\ Follows(p)
  BY DEF RInv
<1>2. /\ step[p] = "commit"
      /\ \A g \in Groups : row'[g] = IF g \in DOMAIN own[p] THEN own[p][g] ELSE row[g]
  BY <1>1, CommitRows
<1> DEFINE D == DOMAIN serving[p].seen
           W == DOMAIN own[p]
<1>3. IsChange(serving[p]) /\ left[p] = None
  BY <1>1, <1>2, NatureDiffers DEF Follows
<1>4. PICK g \in Groups : D = {g}
  BY <1>3 DEF IsChange
<1>5. W = Active
  BY <1>2 DEF Archiving
<1>6. g \in W /\ own[p][g].state = "archived"
  BY <1>2, <1>4 DEF Archiving
<1>7. \A h \in Others(p) : own[p][h].state = "active" /\ own[p][h].pos = Rank(p, h)
  BY <1>2, <1>3, NoneDomain DEF Archiving, Placed
<1>8. Others(p) = Active \ {g}
  BY <1>4 DEF Others
<1>9. row'[g].state = "archived" /\ \A h \in Groups \ Active : row'[h] = row[h]
  BY <1>2, <1>4, <1>5, <1>6
<1>10. \A h \in Others(p) : row'[h].state = "active" /\ row'[h].pos = Rank(p, h)
  BY <1>2, <1>5, <1>7, <1>8, ActiveRows
<1>11. Active' = Others(p)
  <2>1. \A h \in Groups : row'[h].state = "active" <=> h \in Others(p)
    BY <1>8, <1>9, <1>10, ActiveRows
  <2> QED
    BY <1>8, <2>1, ActiveRows
<1>12. {Rank(p, h) : h \in Others(p)} = 0 .. Cardinality(Others(p)) - 1
  BY <1>1, RanksFill
<1>13. {row'[h].pos : h \in Active'} = {Rank(p, h) : h \in Others(p)}
  BY <1>10, <1>11
<1>14. Dense'
  BY <1>11, <1>12, <1>13 DEF Dense
<1> QED
  BY <1>5, <1>6, <1>10, <1>11, <1>14

-----------------------------------------------------------------------------
(* Requests that do not take a step *)

\* The order of the groups is as it was.
LEMMA OrderingSameShape ==
  ASSUME TypeOK, SameShape, NEW q \in Procs, Ordering(q),
         own'[q] = own[q], step'[q] = step[q], serving'[q] = serving[q],
         count'[q] = count[q], left'[q] = left[q]
  PROVE  Ordering(q)'
<1>1. Active' = Active
  BY DEF SameShape
<1>2. \A g \in Groups : row'[g].state = row[g].state /\ row'[g].pos = row[g].pos
  BY DEF SameShape
<1>3. DOMAIN own[q] \subseteq Groups /\ DOMAIN left[q] \subseteq Groups /\ Active \subseteq Groups
  BY DEF TypeOK, Active
<1>4. \A g \in Groups : Shifted(q, g)' <=> Shifted(q, g)
  BY <1>2 DEF Shifted
<1>5. \A g, n : Placed(q, g, n)' <=> Placed(q, g, n)
  BY DEF Placed
<1>6. Others(q)' = Others(q) /\ Others(q) \subseteq Groups
  BY <1>1, <1>3 DEF Others
<1>7. \A g \in Groups : Rank(q, g)' = Rank(q, g)
  <2> SUFFICES ASSUME NEW g \in Groups PROVE Rank(q, g)' = Rank(q, g)
    OBVIOUS
  <2>1. {h \in Others(q) : row'[h].pos < row'[g].pos} = {h \in Others(q) : row[h].pos < row[g].pos}
    BY <1>2, <1>6
  <2> QED
    BY <1>6, <2>1 DEF Rank
<1>8. Creating(q) => Creating(q)'
  BY <1>1, <1>2 DEF Creating, Placed
<1>9. Updating(q) => Updating(q)'
  BY <1>2, <1>3 DEF Updating, Placed
<1>10. Reordering(q) => Reordering(q)'
  BY <1>1, <1>3, <1>4, <1>5 DEF Reordering
<1>11. Archiving(q) => Archiving(q)'
  <2>1. Others(q) \subseteq Groups /\ Others(q)' = Others(q)
    BY <1>6
  <2> QED
    BY <1>1, <1>3, <1>4, <1>5, <1>7, <2>1 DEF Archiving
<1> QED
  BY <1>8, <1>9, <1>10, <1>11 DEF Ordering

\* Another held every active group: this one holds none, and has yet to begin.
LEMMA OrderingElsewhereHeld ==
  ASSUME RInv, NEW p \in Procs, NEW q \in Procs \ {p}, Ordering(q), serving[q] # Create,
         Active \subseteq DOMAIN own[p], Active # {}, Active' \subseteq Active,
         own'[q] = own[q], step'[q] = step[q], serving'[q] = serving[q],
         count'[q] = count[q], left'[q] = left[q]
  PROVE  Ordering(q)'
<1>1. TypeOK /\ Exclusive /\ Follows(q) /\ Keeps(q)
  BY DEF RInv
<1>2. \A g \in DOMAIN own[q] : row[g].state # "active"
  <2>1. \A g \in DOMAIN own[q] : g \in Groups /\ g \notin DOMAIN own[p]
    BY <1>1 DEF TypeOK, Exclusive
  <2> QED
    BY <2>1, ActiveRows
<1>3. serving[q].op \in {"Update", "Archive"} => step[q] = "lock"
  <2>1. ASSUME serving[q].op \in {"Update", "Archive"}, step[q] # "lock" PROVE FALSE
    <3>1. IsChange(serving[q])
      BY <1>1, <2>1, NatureDiffers DEF Follows
    <3>2. PICK g \in Groups : DOMAIN serving[q].seen = {g}
      BY <3>1 DEF IsChange
    <3>3. g \in DOMAIN own[q] /\ AsSeen(q, g)
      BY <1>1, <2>1, <3>2 DEF Keeps
    <3> QED
      BY <1>2, <3>3 DEF AsSeen
  <2> QED
    BY <2>1
<1>4. CASE serving[q].op = "Update" \/ serving[q].op = "Archive"
  <2>1. step'[q] = "lock"
    BY <1>3, <1>4
  <2> QED
    BY <1>4, <2>1 DEF Ordering, Updating, Archiving
<1>5. CASE serving[q].op = "Reorder"
  <2>1. Reordering(q)
    BY <1>5 DEF Ordering
  <2>2. \A g \in DOMAIN own[q] : ~ Shifted(q, g)
    BY <1>2 DEF Shifted
  <2>3. step[q] = "shifting" => DOMAIN own[q] = {}
    BY <2>1, <2>2 DEF Reordering
  <2>4. step[q] \notin {"placing", "commit"}
    <3>1. PICK g : g \in Active
      OBVIOUS
    <3>2. g \notin DOMAIN own[q]
      BY <1>2, <3>1, ActiveRows
    <3> QED
      BY <2>1, <3>1, <3>2 DEF Reordering
  <2>5. Reordering(q)'
    BY <2>1, <2>3, <2>4 DEF Reordering
  <2> QED
    BY <1>5, <2>5 DEF Ordering
<1>6. CASE serving[q].op \notin {"Update", "Archive", "Reorder"}
  BY <1>6 DEF Ordering
<1> QED
  BY <1>4, <1>5, <1>6

-----------------------------------------------------------------------------
(* The request that takes the step *)

\* The operation decides which part of the invariant speaks of a request.
LEMMA OneOrdering ==
  ASSUME NEW p
  PROVE  /\ serving[p] = Create /\ Creating(p) => Ordering(p)
         /\ serving[p].op = "Update" /\ Updating(p) => Ordering(p)
         /\ serving[p].op = "Reorder" /\ Reordering(p) => Ordering(p)
         /\ serving[p].op = "Archive" /\ Archiving(p) => Ordering(p)
         /\ serving[p] = NoRequest => Ordering(p)
  BY NatureDiffers DEF Ordering

LEMMA NextOrdering ==
  ASSUME NEW p
  PROVE  /\ serving'[p] = Create /\ Creating(p)' => Ordering(p)'
         /\ serving'[p].op = "Update" /\ Updating(p)' => Ordering(p)'
         /\ serving'[p].op = "Reorder" /\ Reordering(p)' => Ordering(p)'
         /\ serving'[p].op = "Archive" /\ Archiving(p)' => Ordering(p)'
         /\ serving'[p] = NoRequest => Ordering(p)'
  BY NatureDiffers DEF Ordering

LEMMA OrderingDeliver ==
  ASSUME RInv, NEW p \in Procs, NEW r \in Requests, Deliver(p, r)
  PROVE  Ordering(p)'
<1>1. TypeOK /\ Functional /\ Follows(p)
  BY DEF RInv
<1>2. /\ step'[p] = First(r.op)
      /\ r.op = "Reorder" => r.order # None
      /\ UNCHANGED <<row, own, count, left>>
  BY <1>1, MovesEffect DEF Deliver
<1>3. serving'[p] = r
  BY <1>1 DEF Deliver, Functional
<1>4. /\ r = Create \/ IsChange(r) \/ IsOrder(r)
      /\ r.op = "Reorder" => DOMAIN r.seen = Active
  BY <1>2, Asked
<1>5. CASE r = Create
  <2>1. step'[p] = "count"
    BY <1>2, <1>5, NatureDiffers DEF First
  <2>2. Creating(p)'
    BY <2>1 DEF Creating
  <2> QED
    BY <1>3, <1>5, <2>2, NextOrdering
<1>6. CASE IsChange(r)
  <2>1. step'[p] = "lock" /\ r.op \in {"Update", "Archive"}
    BY <1>2, <1>6, NatureDiffers DEF First
  <2>2. Updating(p)' /\ Archiving(p)'
    BY <2>1 DEF Updating, Archiving
  <2> QED
    BY <1>3, <2>1, <2>2, NextOrdering
<1>7. CASE IsOrder(r)
  <2>1. step'[p] = "count" /\ r.op = "Reorder" /\ DOMAIN r.order = Active
    BY <1>2, <1>4, <1>7, OrderType DEF First
  <2>2. Active' = Active
    BY <1>2 DEF Active
  <2>3. Reordering(p)'
    BY <1>3, <2>1, <2>2 DEF Reordering
  <2> QED
    BY <1>3, <2>1, <2>3, NextOrdering
<1> QED
  BY <1>4, <1>5, <1>6, <1>7

LEMMA OrderingLock ==
  ASSUME RInv, NEW p \in Procs, NEW g \in Groups, step[p] = "lock", Lock(p, g)
  PROVE  Ordering(p)'
<1>1. TypeOK /\ Functional /\ Follows(p)
  BY DEF RInv
<1>2. /\ g \in DOMAIN serving[p].seen /\ row[g].state = "active"
      /\ UNCHANGED <<row, serving, count, left>>
  BY DEF Lock
<1>3. IsChange(serving[p]) /\ own[p] = None /\ left[p] = None
      /\ serving[p].op \in {"Update", "Archive"}
  BY <1>1, NatureDiffers DEF Follows, Unwritten
<1>4. DOMAIN serving[p].seen = {g}
  BY <1>2, <1>3 DEF IsChange
<1>5. row[g] \in Rows /\ row[g].version + 1 \in Nat
  BY <1>1 DEF TypeOK, Rows
<1>6. CASE serving[p].op = "Update"
  <2>1. PICK r : r = [row[g] EXCEPT !.version = @ + 1] /\ Write(p, g, r)
    BY <1>6 DEF Lock
  <2>2. Write(p, g, r) /\ step'[p] = "commit"
    BY <1>1, <1>6, <2>1, MovesEffect DEF Lock
  <2>3. own'[p][g] = r
    BY <1>1, <2>2, WriteResult
  <2>4. DOMAIN own'[p] = DOMAIN own[p] \cup {g}
    BY <1>1, <2>2, WriteEffect
  <2>5. r.pos = row[g].pos /\ r.state = row[g].state
    BY <1>5, <2>1, RenamedRow
  <2>6. DOMAIN own'[p] = {g} /\ own'[p][g].state = "active" /\ own'[p][g].pos = row[g].pos
    BY <1>2, <1>3, <2>3, <2>4, <2>5, NoneDomain
  <2>7. Updating(p)'
    BY <1>2, <1>4, <2>6 DEF Updating, Placed
  <2> QED
    BY <1>2, <1>6, <2>7, NextOrdering
<1>7. CASE serving[p].op = "Archive"
  <2>1. PICK r : r = [row[g] EXCEPT !.state = "archived", !.version = @ + 1] /\ Write(p, g, r)
    BY <1>7 DEF Lock
  <2>2. Write(p, g, r) /\ step'[p] = "count"
    BY <1>1, <1>7, <2>1, MovesEffect DEF Lock
  <2>3. own'[p][g] = r
    BY <1>1, <2>2, WriteResult
  <2>4. DOMAIN own'[p] = DOMAIN own[p] \cup {g}
    BY <1>1, <2>2, WriteEffect
  <2>5. r.state = "archived"
    <3>1. \A s \in Rows : [s EXCEPT !.state = "archived", !.version = @ + 1].state = "archived"
      BY DEF Rows
    <3>2. [row[g] EXCEPT !.state = "archived", !.version = @ + 1].state = "archived"
      BY <1>5, <3>1, Zenon
    <3> QED
      BY <2>1, <3>2, Zenon
  <2>6. DOMAIN own'[p] = {g} /\ own'[p][g].state = "archived"
    BY <1>3, <2>3, <2>4, <2>5, NoneDomain
  <2>7. Archiving(p)'
    BY <1>2, <1>4, <2>2, <2>6 DEF Archiving
  <2> QED
    BY <1>2, <1>7, <2>7, NextOrdering
<1> QED
  BY <1>3, <1>6, <1>7

\* An archival still holds its group, and sees the others as they are.
LEMMA ArchiveSees ==
  ASSUME RInv, NEW p \in Procs, Ordering(p), serving[p].op = "Archive", step[p] # "lock"
  PROVE  \E g \in Active : /\ DOMAIN serving[p].seen = {g} /\ Others(p) = Active \ {g}
                           /\ g \in DOMAIN own[p] /\ own[p][g].state = "archived"
<1>1. Follows(p) /\ Keeps(p) /\ Archiving(p)
  BY DEF RInv, Ordering
<1>2. IsChange(serving[p])
  BY <1>1, NatureDiffers DEF Follows
<1>3. PICK g \in Groups : DOMAIN serving[p].seen = {g}
  BY <1>2 DEF IsChange
<1>4. row[g].state = "active"
  BY <1>1, <1>3 DEF Keeps, AsSeen
<1>5. g \in DOMAIN own[p] /\ own[p][g].state = "archived"
  BY <1>1, <1>3 DEF Archiving
<1> QED
  BY <1>3, <1>4, <1>5, ActiveRows DEF Others

LEMMA OrderingCount ==
  ASSUME RInv, NEW p \in Procs, Ordering(p), Count(p)
  PROVE  Ordering(p)'
<1>1. TypeOK /\ Functional /\ Follows(p)
  BY DEF RInv
<1> DEFINE n == Cardinality(Visible(p))
<1>2. /\ UNCHANGED <<row, own, serving, left>>
      /\ step[p] = "count"
      /\ step'[p] = IF serving[p].op = "Create" THEN "insert"
                    ELSE IF serving[p].op = "Archive" /\ n = 0 THEN "rank"
                    ELSE "shift"
      /\ serving[p].op = "Reorder" => n = Cardinality(DOMAIN serving[p].order)
  BY <1>1, MovesEffect DEF Count
<1>3. count'[p] = n
  BY <1>1 DEF Count, TypeOK
<1>4. Active' = Active
  BY <1>2 DEF Active
<1>5. serving[p].op # "Archive" => own[p] = None
  BY <1>1, <1>2 DEF Follows, Unwritten
<1> HIDE DEF n
<1>6. CASE serving[p] = Create
  <2>1. step'[p] = "insert" /\ serving[p].op # "Archive"
    BY <1>2, <1>6, NatureDiffers
  <2>2. Visible(p) = Active
    BY <1>5, <2>1, NoneDomain DEF Visible, Active, Latest
  <2>3. count'[p] = Cardinality(Active)
    BY <1>3, <2>2 DEF n
  <2>4. Creating(p)'
    BY <1>4, <2>1, <2>3 DEF Creating
  <2> QED
    BY <1>2, <1>6, <2>4, NextOrdering
<1>7. CASE IsOrder(serving[p])
  <2>1. step'[p] = "shift" /\ serving[p].op = "Reorder"
    BY <1>2, <1>7, NatureDiffers
  <2>2. Active \subseteq DOMAIN serving[p].order
    BY <2>1 DEF Ordering, Reordering
  <2>3. Reordering(p)'
    BY <1>2, <1>3, <1>4, <2>1, <2>2 DEF Reordering
  <2> QED
    BY <1>2, <2>1, <2>3, NextOrdering
<1>8. CASE serving[p].op = "Archive"
  <2>1. PICK g \in Active : /\ DOMAIN serving[p].seen = {g} /\ Others(p) = Active \ {g}
                            /\ g \in DOMAIN own[p] /\ own[p][g].state = "archived"
    BY <1>2, <1>8, ArchiveSees
  <2>2. DOMAIN own[p] = {g}
    BY <1>2, <1>8, <2>1 DEF Ordering, Archiving
  <2>3. Visible(p) = Others(p)
    BY <2>1, <2>2 DEF Visible, Active, Latest
  <2>4. count'[p] = Cardinality(Others(p)) /\ Others(p)' = Others(p)
    BY <1>2, <1>3, <1>4, <2>3 DEF Others, n
  <2>5. CASE step'[p] = "shift"
    <3>1. Archiving(p)'
      BY <1>2, <2>1, <2>2, <2>4, <2>5 DEF Archiving
    <3> QED
      BY <1>2, <1>8, <3>1, NextOrdering
  <2>6. CASE n = 0 /\ step'[p] = "rank"
    <3>1. IsFiniteSet(Visible(p)) /\ Cardinality(Visible(p)) = 0
      BY <2>6, FiniteRows DEF n
    <3>2. Others(p) = {}
      BY <2>3, <3>1, FS_EmptySet
    <3>3. DOMAIN own[p] = Active
      BY <2>1, <2>2, <3>2
    <3>4. Archiving(p)'
      BY <1>2, <1>4, <2>1, <2>4, <2>6, <3>2, <3>3 DEF Archiving
    <3> QED
      BY <1>2, <1>8, <3>4, NextOrdering
  <2> QED
    BY <1>2, <1>8, <2>5, <2>6
<1>9. serving[p] = Create \/ IsOrder(serving[p]) \/ serving[p].op = "Archive"
  BY <1>1, <1>2, NatureDiffers DEF Follows
<1> QED
  BY <1>6, <1>7, <1>8, <1>9

LEMMA OrderingInsert ==
  ASSUME RInv, NEW p \in Procs, Ordering(p), NEW g \in Groups, Insert(p, g)
  PROVE  Ordering(p)'
<1>1. TypeOK /\ Functional /\ Follows(p)
  BY DEF RInv
<1>2. /\ UNCHANGED <<row, serving, count, left>> /\ row[g].state = "absent"
      /\ step[p] = "insert" /\ step'[p] = "commit"
  BY <1>1, MovesEffect DEF Insert
<1>3. serving[p] = Create /\ own[p] = None
  BY <1>1, <1>2, NatureDiffers DEF Follows, Unwritten
<1>4. count[p] = Cardinality(Active) /\ Active' = Active
  BY <1>2, <1>3 DEF Ordering, Creating, Active
<1>5. PICK r : r = [state |-> "active", pos |-> count[p], version |-> 1] /\ Write(p, g, r)
  BY DEF Insert
<1>6. own'[p][g] = r
  BY <1>1, <1>5, WriteResult
<1>7. DOMAIN own'[p] = DOMAIN own[p] \cup {g}
  <2>1. Write(p, g, r)
    BY <1>5
  <2> QED
    BY <1>1, <2>1, WriteEffect
<1>8. DOMAIN own'[p] = {g} /\ own'[p][g].state = "active" /\ own'[p][g].pos = count[p]
  BY <1>3, <1>5, <1>6, <1>7, NoneDomain
<1>9. Creating(p)'
  BY <1>2, <1>4, <1>8 DEF Creating, Placed
<1> QED
  BY <1>2, <1>3, <1>9, NextOrdering

LEMMA OrderingOpen ==
  ASSUME RInv, NEW p \in Procs, Ordering(p), Open(p)
  PROVE  Ordering(p)'
<1>1. TypeOK /\ Functional /\ Follows(p)
  BY DEF RInv
<1>2. UNCHANGED <<row, own, serving, count>>
  BY DEF Open
<1>3. Active' = Active /\ Others(p)' = Others(p)
  BY <1>2 DEF Others, Active
<1>4. \A g : Shifted(p, g)' <=> Shifted(p, g)
  BY <1>2 DEF Shifted
<1>a. \A g : Rank(p, g)' = Rank(p, g)
  BY <1>2, <1>3 DEF Rank
<1>5. CASE step[p] = "shift"
  <2>1. left' = [left EXCEPT ![p] = [g \in Visible(p) |-> Offset(p)]] /\ step'[p] = "shifting"
    BY <1>1, <1>5, MovesEffect DEF Open, Moves
  <2>2. left'[p] = [g \in Visible(p) |-> count[p]]
    BY <1>1, <2>1 DEF Functional, Offset
  <2>3. DOMAIN left'[p] = Visible(p) /\ \A g \in Visible(p) : left'[p][g] = count[p]
    BY <2>2
  <2>4. CASE IsOrder(serving[p])
    <3>1. own[p] = None /\ serving[p].op = "Reorder"
      BY <1>1, <1>5, <2>4, NatureDiffers DEF Follows, Unwritten
    <3>2. Visible(p) = Active
      BY <3>1, NoneDomain DEF Visible, Active, Latest
    <3>3. /\ Active \subseteq DOMAIN serving[p].order
          /\ count[p] = Cardinality(DOMAIN serving[p].order)
      BY <1>5, <3>1 DEF Ordering, Reordering
    <3>4. Reordering(p)'
      BY <1>2, <1>3, <2>1, <2>3, <3>1, <3>2, <3>3, NoneDomain DEF Reordering
    <3> QED
      BY <1>2, <3>1, <3>4, NextOrdering
  <2>5. CASE serving[p].op = "Archive"
    <3>1. PICK g \in Active : /\ DOMAIN serving[p].seen = {g} /\ Others(p) = Active \ {g}
                              /\ g \in DOMAIN own[p] /\ own[p][g].state = "archived"
      BY <1>5, <2>5, ArchiveSees
    <3>2. DOMAIN own[p] = {g} /\ count[p] = Cardinality(Others(p))
      BY <1>5, <2>5, <3>1 DEF Ordering, Archiving
    <3>3. Visible(p) = Others(p)
      BY <3>1, <3>2 DEF Visible, Active, Latest
    <3>4. Archiving(p)'
      BY <1>2, <1>3, <2>1, <2>3, <3>1, <3>2, <3>3 DEF Archiving
    <3> QED
      BY <1>2, <2>5, <3>4, NextOrdering
  <2> QED
    BY <1>1, <1>5, <2>4, <2>5, NatureDiffers DEF Follows
<1>6. CASE step[p] = "rank"
  <2>1. left' = [left EXCEPT ![p] = Ranks(p)] /\ step'[p] = "ranking"
    BY <1>1, <1>6, MovesEffect DEF Open, Moves
  <2>2. left'[p] = Ranks(p)
    BY <1>1, <2>1 DEF Functional
  <2>3. serving[p].op = "Archive"
    BY <1>1, <1>6, NatureDiffers DEF Follows
  <2>4. PICK g \in Active : /\ DOMAIN serving[p].seen = {g} /\ Others(p) = Active \ {g}
                            /\ g \in DOMAIN own[p] /\ own[p][g].state = "archived"
    BY <1>6, <2>3, ArchiveSees
  <2>5. /\ DOMAIN own[p] = Active /\ \A h \in Others(p) : Shifted(p, h)
        /\ count[p] = Cardinality(Others(p))
    BY <1>6, <2>3 DEF Ordering, Archiving
  <2>6. Visible(p) = Others(p)
    <3>1. \A h \in Groups : h \notin Active => row[h].state # "active"
      BY ActiveRows
    <3> QED
      BY <2>4, <2>5, <3>1, ActiveRows DEF Visible, Latest, Shifted
  <2>7. \A h \in Others(p) : Latest(p, h).pos = row[h].pos + count[p]
    BY <2>4, <2>5 DEF Latest, Shifted
  <2>8. \A h \in Others(p) : row[h].pos \in Nat
    BY <1>1, <2>4, ActiveRows DEF TypeOK, Rows
  <2>9. count[p] \in Nat
    BY <1>1 DEF TypeOK
  <2>10. \A h, k \in Others(p) : Latest(p, k).pos < Latest(p, h).pos <=> row[k].pos < row[h].pos
    BY <2>7, <2>8, <2>9
  <2>11. \A h \in Others(p) : Ranks(p)[h] = Rank(p, h)
    <3> SUFFICES ASSUME NEW h \in Others(p) PROVE Ranks(p)[h] = Rank(p, h)
      OBVIOUS
    <3>1. {k \in Others(p) : Latest(p, k).pos < Latest(p, h).pos}
          = {k \in Others(p) : row[k].pos < row[h].pos}
      BY <2>10
    <3>2. Ranks(p)[h] = Cardinality({k \in Others(p) : Latest(p, k).pos < Latest(p, h).pos})
      BY <2>6 DEF Ranks
    <3> QED
      BY <3>1, <3>2 DEF Rank
  <2>12. DOMAIN left'[p] = Others(p) /\ \A h \in Others(p) : left'[p][h] = Rank(p, h)
    BY <2>2, <2>6, <2>11, RankType
  <2>13. Archiving(p)'
    BY <1>2, <1>3, <1>4, <1>a, <2>1, <2>4, <2>5, <2>12 DEF Archiving
  <2> QED
    BY <1>2, <2>3, <2>13, NextOrdering
<1>7. step[p] \in {"shift", "rank"}
  BY DEF Open, Moves
<1> QED
  BY <1>5, <1>6, <1>7

\* What a statement does to the row it has come to.
LEMMA UpdateRowEffect ==
  ASSUME TypeOK, Functional, NEW p \in Procs, NEW g \in Groups, UpdateRow(p, g)
  PROVE  /\ g \in DOMAIN left[p] /\ UNCHANGED <<row, serving, step, count>>
         /\ DOMAIN left'[p] = DOMAIN left[p] \ {g}
         /\ \A h \in DOMAIN left[p] \ {g} : left'[p][h] = left[p][h]
         /\ \/ /\ Matches(p, g)
               /\ DOMAIN own'[p] = DOMAIN own[p] \cup {g}
               /\ \A h \in DOMAIN own[p] \ {g} : own'[p][h] = own[p][h]
               /\ own'[p][g].state = Latest(p, g).state /\ own'[p][g].pos = Target(p, g)
            \/ step[p] = "shifting" /\ ~ Matches(p, g) /\ own' = own
<1>1. /\ g \in DOMAIN left[p] /\ UNCHANGED <<row, serving, step, count>>
      /\ left' = [left EXCEPT ![p] = Restrict(@, DOMAIN @ \ {g})]
  BY DEF UpdateRow, Due
<1>2. /\ DOMAIN left'[p] = DOMAIN left[p] \ {g}
      /\ \A h \in DOMAIN left[p] \ {g} : left'[p][h] = left[p][h]
  BY <1>1, RestrictEffect
<1>3. CASE Matches(p, g) /\ Write(p, g, Moved(p, g))
  <2>1. Latest(p, g) \in Rows /\ left[p][g] \in Nat
    BY <1>1, LatestType DEF TypeOK
  <2>2. Target(p, g) \in Nat
    BY <2>1 DEF Target, Rows
  <2>3. Moved(p, g).pos = Target(p, g) /\ Moved(p, g).state = Latest(p, g).state
    BY <2>1, <2>2, MovedEffect
  <2>4. Write(p, g, Moved(p, g))
    BY <1>3
  <2>5. own'[p][g] = Moved(p, g)
    BY <2>4, WriteResult
  <2>6. DOMAIN own'[p] = DOMAIN own[p] \cup {g}
    BY <2>4, WriteEffect
  <2>7. \A h \in DOMAIN own[p] \ {g} : own'[p][h] = own[p][h]
    BY <2>4, WriteEffect
  <2> QED
    BY <1>1, <1>2, <1>3, <2>3, <2>5, <2>6, <2>7
<1>4. CASE step[p] = "shifting" /\ ~ Matches(p, g) /\ UNCHANGED own
  BY <1>1, <1>2, <1>4
<1> QED
  BY <1>3, <1>4 DEF UpdateRow

LEMMA OrderingUpdateRow ==
  ASSUME RInv, NEW p \in Procs, Ordering(p), NEW g \in Groups, UpdateRow(p, g)
  PROVE  Ordering(p)'
<1> DEFINE W == DOMAIN own[p]
           L == DOMAIN left[p]
<1>1. TypeOK /\ Functional /\ Follows(p)
  BY DEF RInv
<1>2. /\ g \in L /\ row' = row /\ serving' = serving /\ step' = step /\ count' = count
      /\ DOMAIN left'[p] = L \ {g}
      /\ \A h \in L \ {g} : left'[p][h] = left[p][h]
  BY <1>1, UpdateRowEffect
<1>3. \/ /\ Matches(p, g)
         /\ DOMAIN own'[p] = W \cup {g}
         /\ \A h \in W \ {g} : own'[p][h] = own[p][h]
         /\ own'[p][g].state = Latest(p, g).state /\ own'[p][g].pos = Target(p, g)
      \/ step[p] = "shifting" /\ ~ Matches(p, g) /\ own' = own
  BY <1>1, UpdateRowEffect
<1>4. /\ Active' = Active /\ Others(p)' = Others(p)
      /\ \A h : Rank(p, h)' = Rank(p, h)
  BY <1>2 DEF Active, Others, Rank
<1>5. \A h \in W \ {g} : /\ Shifted(p, h)' <=> Shifted(p, h)
                         /\ \A n : Placed(p, h, n)' <=> Placed(p, h, n)
  BY <1>2, <1>3 DEF Shifted, Placed
<1>6. step[p] \in {"shifting", "placing", "ranking"}
  BY <1>1, <1>2, NoneDomain DEF Follows
<1>7. CASE IsOrder(serving[p]) /\ step[p] = "shifting"
  <2>1. serving[p].op = "Reorder"
    BY <1>7, NatureDiffers
  <2> DEFINE D == DOMAIN serving[p].order
  <2>2. /\ Active \subseteq D /\ count[p] = Cardinality(D)
        /\ Active \subseteq W \cup L /\ W \cap L = {}
        /\ \A h \in L : left[p][h] = count[p]
        /\ \A h \in W : Shifted(p, h)
    BY <1>7, <2>1 DEF Ordering, Reordering
  <2>3. g \notin W /\ Latest(p, g) = row[g] /\ left[p][g] = count[p]
    BY <1>2, <2>2 DEF Latest
  <2>4. CASE Matches(p, g) /\ DOMAIN own'[p] = W \cup {g}
             /\ own'[p][g].state = Latest(p, g).state /\ own'[p][g].pos = Target(p, g)
    <3>1. row[g].state = "active"
      BY <1>7, <2>3, <2>4 DEF Matches
    <3>2. Target(p, g) = row[g].pos + count[p]
      BY <1>7, <2>3 DEF Target
    <3>3. Shifted(p, g)'
      BY <1>2, <2>3, <2>4, <3>1, <3>2 DEF Shifted
    <3>4. \A h \in DOMAIN own'[p] : Shifted(p, h)'
      BY <1>5, <2>2, <2>3, <2>4, <3>3
    <3>5. Reordering(p)'
      BY <1>2, <1>4, <1>7, <2>2, <2>4, <3>4 DEF Reordering
    <3> QED
      BY <1>2, <2>1, <3>5, NextOrdering
  <2>5. CASE ~ Matches(p, g) /\ own' = own
    <3>1. g \notin Active
      BY <1>7, <2>3, <2>5, ActiveRows DEF Matches
    <3>2. \A h \in W : Shifted(p, h)'
      BY <1>2, <2>2, <2>5 DEF Shifted
    <3>3. Reordering(p)'
      BY <1>2, <1>4, <1>7, <2>2, <2>5, <3>1, <3>2 DEF Reordering
    <3> QED
      BY <1>2, <2>1, <3>3, NextOrdering
  <2> QED
    BY <1>3, <2>4, <2>5
<1>8. CASE IsOrder(serving[p]) /\ step[p] = "placing"
  <2>1. serving[p].op = "Reorder"
    BY <1>8, NatureDiffers
  <2> DEFINE D == DOMAIN serving[p].order
  <2>2. /\ Active \subseteq D /\ count[p] = Cardinality(D)
        /\ Active \subseteq W /\ W \subseteq D /\ L \subseteq D
        /\ \A h \in L : left[p][h] = serving[p].order[h] /\ (h \in W => Shifted(p, h))
        /\ \A h \in D \ L : h \in W /\ Placed(p, h, serving[p].order[h])
    BY <1>8, <2>1 DEF Ordering, Reordering
  <2>3. /\ Matches(p, g) /\ DOMAIN own'[p] = W \cup {g}
        /\ own'[p][g].state = Latest(p, g).state /\ own'[p][g].pos = Target(p, g)
    BY <1>3, <1>8
  <2>4. own'[p][g].state = "active"
    BY <1>8, <2>3 DEF Matches
  <2>5. own'[p][g].pos = serving[p].order[g]
    BY <1>2, <1>8, <2>2, <2>3 DEF Target
  <2>6. Placed(p, g, serving[p].order[g])'
    BY <1>2, <2>4, <2>5 DEF Placed
  <2>7. \A h \in L \ {g} : /\ left'[p][h] = serving[p].order[h]
                           /\ h \in W \cup {g} => Shifted(p, h)'
    BY <1>2, <1>5, <2>2
  <2>8. \A h \in D \ (L \ {g}) : h \in W \cup {g} /\ Placed(p, h, serving[p].order[h])'
    <3>1. \A h \in D \ L : h \in W \ {g} /\ Placed(p, h, serving[p].order[h])
      BY <1>2, <2>2
    <3>2. \A h \in D \ L : Placed(p, h, serving[p].order[h])'
      <4> SUFFICES ASSUME NEW h \in D \ L PROVE Placed(p, h, serving[p].order[h])'
        OBVIOUS
      <4>1. PICK n : n = serving[p].order[h]
        OBVIOUS
      <4>2. Placed(p, h, n)'
        BY <1>5, <3>1, <4>1
      <4> QED
        BY <1>2, <4>1, <4>2
    <3> QED
      BY <2>6, <3>1, <3>2
  <2>9. Reordering(p)'
    BY <1>2, <1>4, <1>8, <2>2, <2>3, <2>7, <2>8 DEF Reordering
  <2> QED
    BY <1>2, <2>1, <2>9, NextOrdering
<1>9. CASE serving[p].op = "Archive" /\ step[p] = "shifting"
  <2>1. PICK a \in Active : /\ DOMAIN serving[p].seen = {a} /\ Others(p) = Active \ {a}
                            /\ a \in W /\ own[p][a].state = "archived"
    BY <1>9, ArchiveSees
  <2>2. /\ count[p] = Cardinality(Others(p)) /\ W \cup L = Active /\ W \cap L = {}
        /\ \A h \in L : left[p][h] = count[p]
        /\ \A h \in W \ {a} : Shifted(p, h)
    BY <1>9, <2>1 DEF Ordering, Archiving
  <2>3. g \notin W /\ g # a /\ Latest(p, g) = row[g] /\ left[p][g] = count[p] /\ row[g].state = "active"
    BY <1>2, <2>1, <2>2, ActiveRows DEF Latest
  <2>4. Matches(p, g)
    BY <1>9, <2>3 DEF Matches
  <2>5. /\ DOMAIN own'[p] = W \cup {g}
        /\ \A h \in W \ {g} : own'[p][h] = own[p][h]
        /\ own'[p][g].state = Latest(p, g).state /\ own'[p][g].pos = Target(p, g)
    BY <1>3, <2>4
  <2>6. Target(p, g) = row[g].pos + count[p]
    BY <1>9, <2>3 DEF Target
  <2>7. Shifted(p, g)'
    BY <1>2, <2>3, <2>5, <2>6 DEF Shifted
  <2>8. \A h \in (W \cup {g}) \ {a} : Shifted(p, h)'
    BY <1>5, <2>2, <2>3, <2>7
  <2>9. own'[p][a].state = "archived"
    BY <2>1, <2>3, <2>5
  <2>10. Archiving(p)'
    BY <1>2, <1>4, <1>9, <2>1, <2>2, <2>5, <2>8, <2>9 DEF Archiving
  <2> QED
    BY <1>2, <1>9, <2>10, NextOrdering
<1>10. CASE serving[p].op = "Archive" /\ step[p] = "ranking"
  <2>1. PICK a \in Active : /\ DOMAIN serving[p].seen = {a} /\ Others(p) = Active \ {a}
                            /\ a \in W /\ own[p][a].state = "archived"
    BY <1>10, ArchiveSees
  <2>2. /\ count[p] = Cardinality(Others(p)) /\ W = Active /\ L \subseteq Others(p)
        /\ \A h \in L : left[p][h] = Rank(p, h) /\ Shifted(p, h)
        /\ \A h \in Others(p) \ L : Placed(p, h, Rank(p, h))
    BY <1>10, <2>1 DEF Ordering, Archiving
  <2>3. /\ DOMAIN own'[p] = W \cup {g}
        /\ \A h \in W \ {g} : own'[p][h] = own[p][h]
        /\ own'[p][g].state = Latest(p, g).state /\ own'[p][g].pos = Target(p, g)
    BY <1>3, <1>10
  <2>4. g \in Others(p) /\ g # a /\ g \in W
    BY <1>2, <2>1, <2>2
  <2>5. Latest(p, g).state = "active" /\ Target(p, g) = Rank(p, g)
    BY <1>2, <1>10, <2>2, <2>4 DEF Latest, Shifted, Target
  <2>6. Placed(p, g, Rank(p, g))'
    BY <1>4, <2>3, <2>5 DEF Placed
  <2>7. \A h \in L \ {g} : left'[p][h] = Rank(p, h)' /\ Shifted(p, h)'
    BY <1>2, <1>4, <1>5, <2>1, <2>2
  <2>8. \A h \in Others(p) \ (L \ {g}) : Placed(p, h, Rank(p, h))'
    <3> SUFFICES ASSUME NEW h \in Others(p) \ L, h # g PROVE Placed(p, h, Rank(p, h))'
      BY <2>6
    <3>1. h \in W \ {g} /\ Placed(p, h, Rank(p, h))
      BY <2>1, <2>2
    <3>2. own'[p][h] = own[p][h]
      BY <2>3, <3>1
    <3> QED
      BY <1>4, <3>1, <3>2 DEF Placed
  <2>9. own'[p][a].state = "archived"
    BY <2>1, <2>3, <2>4
  <2>10. W \cup {g} = Active
    BY <2>2, <2>4
  <2>11. Archiving(p)'
    BY <1>2, <1>4, <1>10, <2>1, <2>2, <2>3, <2>7, <2>8, <2>9, <2>10 DEF Archiving
  <2> QED
    BY <1>2, <1>10, <2>11, NextOrdering
<1>11. \/ IsOrder(serving[p]) /\ step[p] # "ranking"
       \/ serving[p].op = "Archive" /\ step[p] # "placing"
  BY <1>1, <1>6, NatureDiffers DEF Follows
<1> QED
  BY <1>6, <1>7, <1>8, <1>9, <1>10, <1>11

LEMMA OrderingClose ==
  ASSUME RInv, NEW p \in Procs, Ordering(p), Close(p)
  PROVE  Ordering(p)'
<1> DEFINE W == DOMAIN own[p]
<1>1. TypeOK /\ Functional /\ Follows(p)
  BY DEF RInv
<1>2. /\ UNCHANGED <<row, own, serving, count>> /\ left[p] = None /\ DOMAIN left[p] = {}
      /\ \/ serving[p].op = "Archive" /\ step[p] = "shifting" /\ step'[p] = "rank" /\ left' = left
         \/ /\ serving[p].op = "Reorder" /\ step[p] = "shifting" /\ step'[p] = "placing"
            /\ left' = [left EXCEPT ![p] = serving[p].order]
         \/ step[p] \in {"placing", "ranking"} /\ step'[p] = "commit" /\ left' = left
  BY <1>1, MovesEffect, NoneDomain DEF Close
<1>3. /\ Active' = Active /\ Others(p)' = Others(p)
      /\ \A h : Rank(p, h)' = Rank(p, h)
      /\ \A h : Shifted(p, h)' <=> Shifted(p, h)
  BY <1>2 DEF Active, Others, Rank, Shifted
<1>4. \A h, n : Placed(p, h, n)' <=> Placed(p, h, n)
  BY <1>2 DEF Placed
<1>5. CASE serving[p].op = "Archive" /\ step[p] = "shifting"
  <2>1. step'[p] = "rank"
    BY <1>2, <1>5
  <2>2. PICK a \in Active : /\ DOMAIN serving[p].seen = {a} /\ Others(p) = Active \ {a}
                            /\ a \in W /\ own[p][a].state = "archived"
    BY <1>5, ArchiveSees
  <2>3. /\ count[p] = Cardinality(Others(p)) /\ W = Active
        /\ \A h \in W \ {a} : Shifted(p, h)
    BY <1>2, <1>5, <2>2 DEF Ordering, Archiving
  <2>4. Archiving(p)'
    BY <1>2, <1>3, <2>1, <2>2, <2>3 DEF Archiving
  <2> QED
    BY <1>2, <1>5, <2>4, NextOrdering
<1>6. CASE serving[p].op = "Archive" /\ step[p] = "ranking"
  <2>1. step'[p] = "commit" /\ left' = left
    BY <1>2, <1>6
  <2>2. Archiving(p)
    BY <1>6 DEF Ordering
  <2>3. Archiving(p)'
    BY <1>2, <1>3, <1>4, <1>6, <2>1, <2>2 DEF Archiving
  <2> QED
    BY <1>2, <1>6, <2>3, NextOrdering
<1>7. CASE serving[p].op = "Reorder" /\ step[p] = "shifting"
  <2>1. step'[p] = "placing" /\ left'[p] = serving[p].order
    BY <1>1, <1>2, <1>7 DEF Functional
  <2> DEFINE D == DOMAIN serving[p].order
  <2>2. /\ Active \subseteq D /\ count[p] = Cardinality(D)
        /\ Active \subseteq W
        /\ \A h \in W : Shifted(p, h)
    BY <1>2, <1>7 DEF Ordering, Reordering
  <2>3. W \subseteq Active
    BY <1>1, <2>2, ActiveRows DEF TypeOK, Shifted
  <2>4. Reordering(p)'
    BY <1>2, <1>3, <2>1, <2>2, <2>3 DEF Reordering
  <2> QED
    BY <1>2, <1>7, <2>4, NextOrdering
<1>8. CASE serving[p].op = "Reorder" /\ step[p] = "placing"
  <2>1. step'[p] = "commit" /\ left' = left
    BY <1>2, <1>8
  <2>2. Reordering(p)
    BY <1>8 DEF Ordering
  <2>3. Reordering(p)'
    BY <1>2, <1>3, <1>4, <1>8, <2>1, <2>2 DEF Reordering
  <2> QED
    BY <1>2, <1>8, <2>3, NextOrdering
<1>9. \/ serving[p].op = "Archive" /\ step[p] \in {"shifting", "ranking"}
      \/ serving[p].op = "Reorder" /\ step[p] \in {"shifting", "placing"}
  BY <1>1, <1>2, NatureDiffers DEF Follows
<1> QED
  BY <1>5, <1>6, <1>7, <1>8, <1>9

-----------------------------------------------------------------------------
(* The invariant is inductive when groups are created by themselves *)

LEMMA AloneStep ==
  ASSUME ~ CreatesOverlap, RInv, Alone, NEW p \in Procs, Does(p)
  PROVE  Alone'
<1>1. TypeOK /\ Functional
  BY DEF RInv
<1>2. \A q \in Procs \ {p} : serving'[q] = serving[q]
  BY <1>1, Elsewhere
<1>3. CASE serving'[p] \in {serving[p], NoRequest}
  <2>1. serving'[p] = Create => serving[p] = Create
    BY <1>3, NatureDiffers
  <2> QED
    BY <1>2, <1>3, <2>1 DEF Alone
<1>4. CASE \E r \in Requests : Deliver(p, r)
  <2>1. PICK r \in Requests : Deliver(p, r)
    BY <1>4
  <2>2. serving'[p] = r
    BY <1>1, <2>1 DEF Deliver, Functional
  <2>3. \A q \in Procs : serving[q] = NoRequest \/ "Create" \notin {r.op, serving[q].op}
    BY <2>1 DEF Deliver, MayOverlap
  <2>4. \A q \in Procs \ {p} : serving'[q] = NoRequest \/ (serving'[q] # Create /\ r # Create)
    <3>1. Create.op = "Create"
      BY NatureDiffers
    <3> QED
      BY <1>2, <2>3, <3>1
  <2>5. Create # NoRequest
    BY NatureDiffers
  <2> QED
    BY <1>2, <2>2, <2>4, <2>5 DEF Alone
<1>5. serving'[p] \in {serving[p], NoRequest} \/ \E r \in Requests : Deliver(p, r)
  BY <1>1, EndEffect DEF Does, Lock, Count, Insert, Open, UpdateRow, Close, Commit, GiveUp
<1> QED
  BY <1>3, <1>4, <1>5

LEMMA OwnOrdering ==
  ASSUME RInv, NEW p \in Procs, Ordering(p), Does(p)
  PROVE  Ordering(p)'
<1>1. CASE \E r \in Requests : Deliver(p, r)
  BY <1>1, OrderingDeliver
<1>2. CASE \E g \in Groups : step[p] = "lock" /\ Lock(p, g)
  BY <1>2, OrderingLock
<1>3. CASE Count(p)
  BY <1>3, OrderingCount
<1>4. CASE \E g \in Groups : Insert(p, g)
  BY <1>4, OrderingInsert
<1>5. CASE Open(p)
  BY <1>5, OrderingOpen
<1>6. CASE \E g \in Groups : UpdateRow(p, g)
  BY <1>6, OrderingUpdateRow
<1>7. CASE Close(p)
  BY <1>7, OrderingClose
<1>8. CASE Commit(p) \/ GiveUp(p)
  <2>1. serving'[p] = NoRequest
    BY <1>8, EndEffect DEF RInv, Commit, GiveUp
  <2> QED
    BY <2>1, NextOrdering
<1> QED
  BY <1>1, <1>2, <1>3, <1>4, <1>5, <1>6, <1>7, <1>8 DEF Does

\* Only a commit moves the groups, and it finds the others waiting for them.
LEMMA OrderStep ==
  ASSUME RInv, OInv, NEW p \in Procs, Does(p)
  PROVE  Dense' /\ \A q \in Procs \ {p} : Ordering(q)'
<1>1. TypeOK /\ Functional /\ Follows(p)
  BY DEF RInv
<1>2. Alone /\ Dense /\ \A q \in Procs : Ordering(q)
  BY DEF OInv
<1>3. \A q \in Procs \ {p} :
        /\ own'[q] = own[q] /\ step'[q] = step[q] /\ serving'[q] = serving[q]
        /\ count'[q] = count[q] /\ left'[q] = left[q]
  BY <1>1, Elsewhere
<1>4. CASE SameShape
  <2>1. \A q \in Procs \ {p} : Ordering(q)'
    BY <1>1, <1>2, <1>3, <1>4, OrderingSameShape
  <2>2. Active' = Active /\ \A g \in Active : row'[g].pos = row[g].pos
    BY <1>4, ActiveRows DEF SameShape
  <2>3. {row'[g].pos : g \in Active'} = {row[g].pos : g \in Active}
    BY <2>2
  <2>4. Dense'
    BY <1>2, <2>2, <2>3 DEF Dense
  <2> QED
    BY <2>1, <2>4
<1>5. CASE Commit(p)
  <2>0. step[p] = "commit"
    BY <1>1, <1>5, CommitRows
  <2>1. CASE serving[p] = Create
    <3>1. Creating(p)
      BY <1>2, <2>1 DEF Ordering
    <3>2. Dense'
      BY <1>2, <1>5, <2>1, <3>1, CommitCreate
    <3>3. \A q \in Procs \ {p} : serving'[q] = NoRequest
      BY <1>2, <1>3, <2>1 DEF Alone
    <3> QED
      BY <3>2, <3>3, NextOrdering
  <2>2. CASE serving[p].op = "Update"
    <3>1. Updating(p)
      BY <1>2, <2>2 DEF Ordering
    <3> QED
      BY <1>4, <1>5, <2>2, <3>1, CommitUpdate
  <2>3. CASE serving[p].op \in {"Reorder", "Archive"}
    <3>1. Dense' /\ Active \subseteq DOMAIN own[p] /\ Active' \subseteq Active /\ Active # {}
      <4>1. CASE serving[p].op = "Reorder"
        <5>1. Reordering(p)
          BY <1>2, <4>1 DEF Ordering
        <5> QED
          BY <1>5, <4>1, <5>1, CommitReorder
      <4>2. CASE serving[p].op = "Archive"
        <5>1. Archiving(p)
          BY <1>2, <4>2 DEF Ordering
        <5>2. Dense' /\ Active \subseteq DOMAIN own[p] /\ Active # {} /\ Active' = Others(p)
          BY <1>2, <1>5, <4>2, <5>1, CommitArchive
        <5> QED
          BY <5>2 DEF Others
      <4> QED
        BY <2>3, <4>1, <4>2
    <3>2. \A q \in Procs \ {p} : serving[q] # Create
      BY <1>2, <2>3, NatureDiffers DEF Alone
    <3>3. \A q \in Procs \ {p} : Ordering(q)'
      BY <1>2, <1>3, <3>1, <3>2, OrderingElsewhereHeld
    <3> QED
      BY <3>1, <3>3
  <2>4. serving[p] = Create \/ serving[p].op \in {"Update", "Archive", "Reorder"}
    BY <1>1, <2>0, NatureDiffers DEF Follows
  <2> QED
    BY <2>1, <2>2, <2>3, <2>4
<1>6. row' # row => Commit(p)
  BY <1>1, Elsewhere
<1> QED
  BY <1>4, <1>5, <1>6, NothingCommitted

LEMMA OInit == Init => OInv
<1> SUFFICES ASSUME Init PROVE OInv
  OBVIOUS
<1>1. Active = {}
  BY DEF Init, Active
<1>2. \A p \in Procs : serving[p] = NoRequest
  BY DEF Init
<1>3. Dense
  <2>1. {row[g].pos : g \in Active} = {}
    BY <1>1
  <2>2. Cardinality(Active) = 0
    BY <1>1, FS_EmptySet
  <2>3. 0 .. 0 - 1 = {}
    OBVIOUS
  <2> QED
    BY <2>1, <2>2, <2>3 DEF Dense
<1>4. Alone
  BY <1>2 DEF Alone
<1>5. \A p \in Procs : Ordering(p)
  BY <1>2, OneOrdering
<1> QED
  BY <1>3, <1>4, <1>5 DEF OInv

LEMMA OStep ==
  ASSUME ~ CreatesOverlap
  PROVE  RInv /\ OInv /\ [Next]_vars => OInv'
<1> SUFFICES ASSUME RInv, OInv, [Next]_vars PROVE OInv'
  OBVIOUS
<1>0. TypeOK /\ Alone /\ Dense /\ \A p \in Procs : Ordering(p)
  BY DEF RInv, OInv
<1>1. CASE Next
  <2>1. PICK p \in Procs : Does(p)
    BY <1>1, NextDoes
  <2>2. Alone'
    BY <1>0, <2>1, AloneStep
  <2>3. Dense' /\ \A q \in Procs \ {p} : Ordering(q)'
    BY <2>1, OrderStep
  <2>4. Ordering(p)'
    BY <1>0, <2>1, OwnOrdering
  <2> QED
    BY <2>2, <2>3, <2>4 DEF OInv
<1>2. CASE UNCHANGED vars
  <2>1. /\ row' = row /\ own' = own /\ serving' = serving
        /\ step' = step /\ count' = count /\ left' = left
    BY <1>2 DEF vars
  <2>2. Alone'
    BY <1>0, <2>1 DEF Alone
  <2>3. SameShape /\ Active' = Active
    BY <2>1, NothingCommitted DEF SameShape
  <2>4. Dense'
    BY <1>0, <2>1, <2>3 DEF Dense
  <2>5. \A p \in Procs : Ordering(p)'
    BY <1>0, <2>1, <2>3, OrderingSameShape
  <2> QED
    BY <2>2, <2>4, <2>5 DEF OInv
<1> QED
  BY <1>1, <1>2

LEMMA OrderInvariant ==
  ASSUME ~ CreatesOverlap
  PROVE  Spec => [](RInv /\ OInv)
<1>1. Init => RInv /\ OInv
  BY RInit, OInit
<1>2. RInv /\ OInv /\ [Next]_vars => (RInv /\ OInv)'
  BY RStep, OStep
<1> QED
  BY <1>1, <1>2, PTL DEF Spec

\* docs/phase-9-routines-rewards-contract.md:32: active positions are unique and
\* dense.  Create, Reorder and Archive (routines/service.go:149, :237-273,
\* :398-417) keep them so among any requests that change, archive and reorder,
\* as long as no group is created meanwhile: Create alone locks no row.
THEOREM DenseAlways ==
  ASSUME ~ CreatesOverlap
  PROVE  Spec => []Dense
<1>1. RInv /\ OInv => Dense
  BY DEF OInv
<1> QED
  BY <1>1, OrderInvariant, PTL

\* No row that a reorder has come to finds its position taken, in whatever order
\* it meets them (routines/service.go:244-273): first the rows move out of the
\* range, and then to their places.
THEOREM ReordersNeverCollide ==
  ASSUME ~ CreatesOverlap
  PROVE  Spec => []ReorderNeverCollides
<1>1. ASSUME RInv, OInv, NEW p \in Procs, serving[p].op = "Reorder",
             NEW g \in Groups, Due(p, g), ~ Locked(p, g), Matches(p, g),
             NEW h \in Groups \ {g}, ~ Locked(p, h), At(Latest(p, h), Target(p, g))
      PROVE  FALSE
  <2> DEFINE W == DOMAIN own[p]
             L == DOMAIN left[p]
             D == DOMAIN serving[p].order
             n == Cardinality(Active)
  <2>1. TypeOK /\ Follows(p) /\ Dense /\ Reordering(p)
    BY <1>1 DEF RInv, OInv, Ordering
  <2>2. IsOrder(serving[p]) /\ g \in L /\ step[p] \in {"shifting", "placing"}
    BY <1>1, <2>1, NatureDiffers, NoneDomain DEF Follows, Due
  <2>3. /\ IsFiniteSet(D) /\ Cardinality(D) \in Nat
        /\ \A k \in D : serving[p].order[k] \in Nat /\ serving[p].order[k] < Cardinality(D)
        /\ \A j, k \in D : serving[p].order[j] = serving[p].order[k] => j = k
    BY <2>2, OrderType
  <2>4. /\ Active \subseteq D /\ count[p] = Cardinality(D)
    BY <2>1, <2>2 DEF Reordering
  <2>5. n \in Nat /\ n <= Cardinality(D)
    BY <2>3, <2>4, FiniteRows, FS_Subset
  <2>6. /\ \A k \in Active : row[k].pos \in Nat /\ row[k].pos < n
        /\ \A j, k \in Active : row[j].pos = row[k].pos => j = k
    BY <2>1, DensePositions
  <2>7. Latest(p, h).state = "active" /\ Latest(p, h).pos = Target(p, g)
    BY <1>1 DEF At
  <2>8. \A k \in Groups : row[k].pos \in Nat
    BY <2>1 DEF TypeOK, Rows
  <2> HIDE DEF n
  <2>9. CASE step[p] = "shifting"
    <3>1. /\ W \cap L = {} /\ left[p][g] = count[p]
          /\ \A k \in W : Shifted(p, k)
      BY <2>1, <2>2, <2>9 DEF Reordering
    <3>2. g \notin W /\ Latest(p, g) = row[g]
      BY <2>2, <3>1 DEF Latest
    <3>3. g \in Active
      BY <1>1, <2>9, <3>2, ActiveRows DEF Matches
    <3>4. Target(p, g) = row[g].pos + count[p]
      BY <2>9, <3>1, <3>2 DEF Target
    <3>5. CASE h \in W
      <4>1. row[h].state = "active" /\ own[p][h].pos = row[h].pos + count[p]
        BY <3>1, <3>5 DEF Shifted
      <4>2. h \in Active /\ Latest(p, h).pos = row[h].pos + count[p]
        BY <3>5, <4>1, ActiveRows DEF Latest
      <4>3. row[h].pos = row[g].pos
        BY <2>3, <2>4, <2>7, <2>8, <3>4, <4>2
      <4> QED
        BY <2>6, <3>3, <4>2, <4>3
    <3>6. CASE h \notin W
      <4>1. h \in Active /\ Latest(p, h).pos = row[h].pos
        BY <2>7, <3>6, ActiveRows DEF Latest
      <4>2. row[h].pos < count[p]
        BY <2>3, <2>4, <2>5, <2>6, <4>1
      <4> QED
        BY <2>3, <2>4, <2>7, <2>8, <3>4, <4>1, <4>2
    <3> QED
      BY <3>5, <3>6
  <2>10. CASE step[p] = "placing"
    <3>1. /\ Active \subseteq W /\ W \subseteq D /\ L \subseteq D
          /\ \A k \in L : left[p][k] = serving[p].order[k] /\ (k \in W => Shifted(p, k))
          /\ \A k \in D \ L : k \in W /\ Placed(p, k, serving[p].order[k])
      BY <2>1, <2>10 DEF Reordering
    <3>2. Target(p, g) = serving[p].order[g] /\ g \in D
      BY <2>2, <2>10, <3>1 DEF Target
    <3>3. h \in W
      BY <2>7, <3>1, ActiveRows DEF Latest
    <3>4. Latest(p, h) = own[p][h] /\ h \in D
      BY <3>1, <3>3 DEF Latest
    <3>5. CASE h \in L
      <4>1. own[p][h].pos = row[h].pos + count[p]
        BY <3>1, <3>3, <3>5 DEF Shifted
      <4> QED
        BY <2>3, <2>4, <2>7, <2>8, <3>2, <3>4, <4>1
    <3>6. CASE h \notin L
      <4>1. own[p][h].pos = serving[p].order[h]
        BY <3>1, <3>4, <3>6 DEF Placed
      <4> QED
        BY <2>3, <2>7, <3>2, <3>4, <4>1
    <3> QED
      BY <3>5, <3>6
  <2> QED
    BY <2>2, <2>9, <2>10
<1>2. RInv /\ OInv => ReorderNeverCollides
  BY <1>1 DEF ReorderNeverCollides, NeverCollides, Collides, Occupied
<1> QED
  BY <1>2, OrderInvariant, PTL

\* Archiving a group (routines/service.go:398-417) leaves the others in the order
\* in which they were, whatever else is renamed, archived or reordered meanwhile.
THEOREM ArchivesKeepOrder ==
  ASSUME ~ CreatesOverlap
  PROVE  Spec => ArchiveKeepsOrder
<1> DEFINE Kept ==
      \A p \in Procs : (Commit(p) /\ serving[p].op = "Archive") =>
        \A g, h \in Active' : row[g].pos < row[h].pos => row'[g].pos < row'[h].pos
<1>1. ASSUME RInv, OInv, NEW p \in Procs, Commit(p), serving[p].op = "Archive",
             NEW g \in Active', NEW h \in Active', row[g].pos < row[h].pos
      PROVE  row'[g].pos < row'[h].pos
  <2>1. TypeOK /\ Dense /\ Archiving(p)
    BY <1>1 DEF RInv, OInv, Ordering
  <2>2. Active' = Others(p) /\ \A k \in Others(p) : row'[k].pos = Rank(p, k)
    BY <1>1, <2>1, CommitArchive
  <2> QED
    BY <1>1, <2>1, <2>2, RanksFill
<1>2. RInv /\ OInv /\ [Next]_vars => [Kept]_vars
  BY <1>1
<1>3. Spec => [][Kept]_vars
  BY <1>2, OrderInvariant, PTL DEF Spec
<1> QED
  BY <1>3 DEF ArchiveKeepsOrder

=============================================================================
