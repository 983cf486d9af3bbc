----------------------------- MODULE Scheduling -----------------------------
(***************************************************************************)
(* One habit of a household: its presentation by date (habit_versions), its  *)
(* assignments to children with their ranges of dates, and the occurrences   *)
(* that opening the page of a day generates.                                *)
(*                                                                         *)
(* A generation is two steps, the snapshot of its INSERT and the commit,     *)
(* with the locks it holds in between.  Every other request is one step, its *)
(* commit, which finds the locks it needs free: what it reads it has locked. *)
(* A request that fails on a constraint is rolled back, and takes no step.   *)
(*                                                                         *)
(* A plan stands for the points, the schedule and the routine group of an   *)
(* assignment, a title for the presentation of the habit.  A client may send *)
(* any effective date, also a past one.  Requests carry no If-Match: it can  *)
(* only refuse what is allowed here.                                        *)
(***************************************************************************)
EXTENDS Integers, FiniteSets

CONSTANTS
  Pages,      \* requests that generate occurrences
  Children,   \* the children of the household
  Ids,        \* habit_assignments.id, a bound on the assignments that exist at once
  Plans,      \* what an assignment may ask for
  DueOn,      \* the dates on which each plan has an occurrence
  Titles,     \* what the habit may look like
  MaxDay,     \* bound on the calendar: the days are 1 .. MaxDay
  MaxVersions,   \* bound on the rows of habit_versions
  Opened      \* the days whose pages are opened

Days == 1 .. MaxDay

\* The end of a range that has none, and inactive_from of an active habit.
Never == MaxDay + 1

ASSUME SchedulingAssumption ==
  /\ MaxDay \in Nat \ {0}
  /\ DueOn \in [Plans -> SUBSET Days]
  /\ MaxVersions \in Nat \ {0}
  /\ Opened \subseteq Days

VARIABLES
  inactive,   \* habits.inactive_from
  versions,   \* rows of habit_versions
  asg,        \* rows of habit_assignments, with habit_schedules
  archived,   \* children with archived_at
  occ,        \* rows of occurrences
  ensuring    \* the generation that a page is in, as it began

vars == <<inactive, versions, asg, archived, occ, ensuring>>

None == 0

Assignments ==
  [id : Ids, child : Children, from : Days, until : Days \cup {Never}, plan : Plans,
   supersedes : Ids \cup {None}]

\* tried is whether the occurrence left not_started or has an attempt; late
\* whether it was out of date when it was inserted.
Occurrences ==
  [asg : Ids, child : Children, date : Days, plan : Plans, title : Titles,
   tried : BOOLEAN, late : BOOLEAN]

\* kids and habit are the rows of children and habits that it holds FOR SHARE.
Generations ==
  [date : Days, kids : SUBSET Children, habit : BOOLEAN, rows : SUBSET Occurrences]

Idle == [date |-> None]

TypeOK ==
  /\ inactive \in Days \cup {Never}
  /\ versions \subseteq [from : 0 .. MaxDay, until : 0 .. Never, title : Titles]
  /\ asg \subseteq Assignments
  /\ archived \subseteq Children
  /\ occ \subseteq Occurrences
  /\ \A p \in Pages : ensuring[p] # Idle =>
       /\ ensuring[p].date \in Days
       /\ ensuring[p].kids \subseteq Children
       /\ ensuring[p].habit \in BOOLEAN
       /\ ensuring[p].rows \subseteq Occurrences

-----------------------------------------------------------------------------
(* Rows *)

Covers(r, d) == r.from <= d /\ d <= r.until

\* The exclusion constraint of habit_assignments.
NoOverlap(rows) ==
  \A r, s \in rows :
    (r # s /\ r.child = s.child) => (r.until < s.from \/ s.until < r.from)

\* The foreign key of occurrences, and supersedes_assignment_id.
Attached(os, rows) == \A o \in os : \E a \in rows : a.id = o.asg

Chained(rows) == \A r \in rows : r.supersedes # None => \E s \in rows : s.id = r.supersedes

Unused(a) == ~ \E o \in occ : o.asg = a.id

NewRow(a, v, d) ==
  [asg |-> a.id, child |-> a.child, date |-> d, plan |-> a.plan, title |-> v.title,
   tried |-> FALSE, late |-> FALSE]

Due(a, d) == a.child \notin archived /\ d < inactive /\ d \in DueOn[a.plan]

\* Mutant: the end of a range is forgotten.
RowsUnended(d) ==
  {NewRow(a, v, d) : a \in {b \in asg : b.from <= d /\ Due(b, d)},
                     v \in {w \in versions : Covers(w, d)}}

\* The SELECT of ensureDate.
Rows(d) ==
  {NewRow(a, v, d) : a \in {b \in asg : Covers(b, d) /\ Due(b, d)},
                     v \in {w \in versions : Covers(w, d)}}

\* What a change that takes effect on a date removes.
Unstarted(d) == {o \in occ : o.date >= d /\ ~ o.tried}

\* Mutants: generation does not lock the habit; nor the children.
HabitUnlocked == TRUE
ChildUnlocked(c) == TRUE

\* No generation holds the habit's row, or the child's.
HabitFree == \A p \in Pages : ensuring[p] # Idle => ~ ensuring[p].habit

ChildFree(c) == \A p \in Pages : ensuring[p] # Idle => c \notin ensuring[p].kids

-----------------------------------------------------------------------------
Init ==
  /\ inactive = Never
  /\ \E t \in Titles : versions = {[from |-> 0, until |-> Never, title |-> t]}
  /\ asg = {}
  /\ archived = {}
  /\ occ = {}
  /\ ensuring = [p \in Pages |-> Idle]

-----------------------------------------------------------------------------
(* Occurrences *)

\* A parent may open the page of any date.
Open(p, d) ==
  /\ ensuring[p] = Idle
  /\ ensuring' = [ensuring EXCEPT
       ![p] = [date |-> d, kids |-> Children \ archived, habit |-> d < inactive,
               rows |-> Rows(d)]]
  /\ UNCHANGED <<inactive, versions, asg, archived, occ>>

Exists(r) == \E o \in occ : o.asg = r.asg /\ o.child = r.child /\ o.date = r.date

\* ON CONFLICT DO NOTHING; the foreign keys of new rows look at the assignments
\* as they are now, after waiting for whoever is changing them.
Ensure(p) ==
  LET t == ensuring[p]
      new == {r \in t.rows : ~ Exists(r)}
  IN /\ t # Idle
     /\ Attached(new, asg)
     /\ occ' = occ \cup {[r EXCEPT !.late = r \notin Rows(t.date)] : r \in new}
     /\ ensuring' = [ensuring EXCEPT ![p] = Idle]
     /\ UNCHANGED <<inactive, versions, asg, archived>>

\* A failed foreign key, a lost client, a deadlock.
Abandon(p) ==
  /\ ensuring[p] # Idle
  /\ ensuring' = [ensuring EXCEPT ![p] = Idle]
  /\ UNCHANGED <<inactive, versions, asg, archived, occ>>

\* The child's submission locks the occurrence and finds its source active.  The
\* day has come: which one it is matters to nothing else.
Submit(o) ==
  /\ ~ o.tried
  /\ o.child \notin archived
  /\ o.date < inactive
  /\ \E a \in asg : a.id = o.asg /\ Covers(a, o.date)
  /\ occ' = (occ \ {o}) \cup {[o EXCEPT !.tried = TRUE]}
  /\ UNCHANGED <<inactive, versions, asg, archived, ensuring>>

-----------------------------------------------------------------------------
(* The habit *)

\* Mutant: the version ends on the day on which its successor begins.
RewordedTwice(d, title) ==
  LET v == CHOOSE w \in versions : Covers(w, d)
  IN (versions \ {v}) \cup {[v EXCEPT !.until = d], [v EXCEPT !.from = d, !.title = title]}

Reworded(d, title) ==
  LET v == CHOOSE w \in versions : Covers(w, d)
  IN (versions \ {v})
     \cup IF v.from = d THEN {[v EXCEPT !.title = title]}
          ELSE {[v EXCEPT !.until = d - 1], [v EXCEPT !.from = d, !.title = title]}

UpdateHabit(d, title) ==
  /\ HabitFree
  /\ versions' = Reworded(d, title)
  /\ Cardinality(versions') <= MaxVersions
  /\ occ' = occ \ Unstarted(d)
  /\ UNCHANGED <<inactive, asg, archived, ensuring>>

\* Ranges are closed, then assignments without occurrences deleted, and only
\* then occurrences.
DeactivateHabit(d) ==
  LET open == {a \in asg : a.from < d /\ a.until >= d}
      unborn == {a \in asg : a.from >= d /\ Unused(a)}
  IN /\ HabitFree
     /\ inactive' = IF d < inactive THEN d ELSE inactive
     /\ asg' = (asg \ (open \cup unborn)) \cup {[a EXCEPT !.until = d - 1] : a \in open}
     /\ Chained(asg')
     /\ occ' = occ \ Unstarted(d)
     /\ UNCHANGED <<versions, archived, ensuring>>

-----------------------------------------------------------------------------
(* Assignments *)

\* An id is never given twice: not while a snapshot still names it either.
Free ==
  {id \in Ids : /\ \A a \in asg : a.id # id
                /\ \A p \in Pages : ensuring[p] # Idle =>
                     \A r \in ensuring[p].rows : r.asg # id}

\* All of the children, or none.
Create(kids, d, plan) ==
  /\ HabitFree
  /\ \A c \in kids : ChildFree(c) /\ c \notin archived
  /\ d < inactive
  /\ \E ids \in [kids -> Free] :
       /\ \A c, e \in kids : ids[c] = ids[e] => c = e
       /\ asg' = asg \cup {[id |-> ids[c], child |-> c, from |-> d, until |-> Never,
                            plan |-> plan, supersedes |-> None] : c \in kids}
  /\ NoOverlap(asg')
  /\ UNCHANGED <<inactive, versions, archived, occ, ensuring>>

\* Mutants: the range ends a day late; its rest has no end.
ReplacementsTouching(a, d, plan) ==
  IF a.from = d THEN {{[a EXCEPT !.plan = plan]}}
  ELSE {{[a EXCEPT !.until = d],
         [a EXCEPT !.id = id, !.from = d, !.plan = plan, !.supersedes = a.id]} : id \in Free}
ReplacementsOpenEnded(a, d, plan) ==
  IF a.from = d THEN {{[a EXCEPT !.plan = plan]}}
  ELSE {{[a EXCEPT !.until = d - 1],
         [a EXCEPT !.id = id, !.from = d, !.until = Never, !.plan = plan,
                   !.supersedes = a.id]} : id \in Free}

\* On the first day of its range an assignment is changed in place; later, it
\* ends the day before and another takes the rest of its range.
Replacements(a, d, plan) ==
  IF a.from = d THEN {{[a EXCEPT !.plan = plan]}}
  ELSE {{[a EXCEPT !.until = d - 1],
         [a EXCEPT !.id = id, !.from = d, !.plan = plan, !.supersedes = a.id]} : id \in Free}

\* A new row waits, by its foreign keys, for nobody who only shares the habit or
\* the child.
UpdateAssignment(a, d, plan) ==
  /\ Covers(a, d)
  /\ \E rows \in Replacements(a, d, plan) : asg' = (asg \ {a}) \cup rows
  /\ NoOverlap(asg')
  /\ occ' = occ \ {o \in Unstarted(d) : o.asg = a.id}
  /\ UNCHANGED <<inactive, versions, archived, ensuring>>

EndedBeforeItBegan(a, d) == {[a EXCEPT !.until = d - 1]}    \* mutant

\* A range that already ended is set to end anew, even later.
Ended(a, d) == IF d > a.from THEN {[a EXCEPT !.until = d - 1]} ELSE {}

DeactivateAssignment(a, d) ==
  /\ occ' = occ \ {o \in Unstarted(d) : o.asg = a.id}
  /\ asg' = (asg \ {a}) \cup Ended(a, d)
  /\ Attached(occ', asg') /\ Chained(asg')
  /\ NoOverlap(asg')
  /\ UNCHANGED <<inactive, versions, archived, ensuring>>

-----------------------------------------------------------------------------
Archive(c) ==
  /\ ChildFree(c)
  /\ archived' = archived \cup {c}
  /\ UNCHANGED <<inactive, versions, asg, occ, ensuring>>

Next ==
  \/ \E p \in Pages : Ensure(p) \/ Abandon(p) \/ \E d \in Opened : Open(p, d)
  \/ \E o \in occ : Submit(o)
  \/ \E c \in Children \ archived : Archive(c)
  \/ \E d \in Days :
       \/ \E t \in Titles : UpdateHabit(d, t)
       \/ DeactivateHabit(d)
       \/ \E kids \in SUBSET Children \ {{}}, plan \in Plans : Create(kids, d, plan)
       \/ \E a \in asg, plan \in Plans : UpdateAssignment(a, d, plan)
       \/ \E a \in asg : DeactivateAssignment(a, d)

Spec == Init /\ [][Next]_vars

-----------------------------------------------------------------------------
(* Safety *)

\* docs/phase-5-scheduling-contract.md:24-25: a change of the habit ends one
\* range the day before the next begins.  Generation joins the version of a date
\* (habits/service.go:861): a day with none would have no chores, a day with two
\* would be offered under either.
VersionsTile ==
  \A d \in Days : \E v \in versions : /\ Covers(v, d)
                                       /\ \A w \in versions : Covers(w, d) => w = v

\* Whatever requests run at once, a chore that may still be done looks as the
\* habit does on its date, and the habit is in use on that date: generation and
\* changes of the habit exclude each other by the habit's row
\* (habits/service.go:850, :242, :312).
HabitHolds ==
  \A o \in occ : ~ o.tried =>
    /\ o.date < inactive
    /\ \A v \in versions : Covers(v, o.date) => o.title = v.title

\* A chore that may still be done is what generating it now would make it: its
\* assignment has the date in its range, the same plan, and an occurrence on
\* that date; and however often the assignment is replaced, what is left to do of
\* a child's day is offered once.  Generation does not lock assignments, so a row
\* whose assignment changed after the snapshot is excepted (late).  What was
\* tried stays beside its successor (docs/phase-5-scheduling-contract.md:27-28).
FreshIsCurrent ==
  LET fresh == {o \in occ : ~ o.tried /\ ~ o.late}
  IN \A o \in fresh :
       /\ \E a \in asg : /\ a.id = o.asg /\ a.child = o.child
                         /\ Covers(a, o.date) /\ a.plan = o.plan /\ o.date \in DueOn[a.plan]
       /\ \A u \in fresh : (u.child = o.child /\ u.date = o.date) => u = o

\* A change of an assignment never meets the exclusion constraint
\* (migrations/000008:40), whatever was ended or resumed before it.
SplitNeverCollides ==
  \A a \in asg, d \in Days, plan \in Plans :
    Covers(a, d) => \A rows \in Replacements(a, d, plan) : NoOverlap((asg \ {a}) \cup rows)

Assigned(c, d) == \E a \in asg : a.child = c /\ Covers(a, d)

\* A child's day is gained only by an assignment, or when a range that had ended
\* is set to end later; it is lost only by a deactivation that takes effect by
\* then.  A change of points or schedule leaves no day out, and adds none.
DaysChangeHands ==
  [][\A c \in Children, d \in Days :
       /\ (~ Assigned(c, d) /\ Assigned(c, d)') =>
            \E e \in Days :
              \/ \E kids \in SUBSET Children, plan \in Plans :
                   c \in kids /\ e <= d /\ Create(kids, e, plan)
              \/ \E a \in asg : a.until < d /\ d < e /\ DeactivateAssignment(a, e)
       /\ (Assigned(c, d) /\ ~ Assigned(c, d)') =>
            \E e \in 1 .. d :
              DeactivateHabit(e) \/ \E a \in asg : DeactivateAssignment(a, e)]_vars

\* docs/phase-5-scheduling-contract.md:57: occurrences are generated for active
\* children, whichever of the generation and the archival commits first.
NothingForArchived == [][\A o \in occ' \ occ : o.child \notin archived]_vars
=============================================================================
