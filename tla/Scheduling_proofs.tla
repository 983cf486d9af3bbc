------------------------- MODULE Scheduling_proofs --------------------------
(***************************************************************************)
(* What holds of Scheduling for every household: any pages, children, plans *)
(* and dates.                                                              *)
(***************************************************************************)
EXTENDS Scheduling, TLAPS

-----------------------------------------------------------------------------
(* The inductive invariant *)

EnsuringType == ensuring \in [Pages -> {Idle} \cup Generations]

\* A generation holds what its rows were made from: their children, and the
\* habit, whose versions therefore still say what they said.
GenerationHolds ==
  \A p \in Pages : ensuring[p] # Idle =>
    /\ ensuring[p].kids \cap archived = {}
    /\ \A r \in ensuring[p].rows :
         /\ ensuring[p].habit
         /\ r.child \in ensuring[p].kids
         /\ ~ r.tried
         /\ r.date < inactive
         /\ \A v \in versions : Covers(v, r.date) => r.title = v.title

IInv == TypeOK /\ EnsuringType /\ VersionsTile /\ NoOverlap(asg) /\ GenerationHolds /\ HabitHolds

-----------------------------------------------------------------------------
(* Versions *)

\* Rewording keeps one version for every date, and what the days before look
\* like.
LEMMA RewordingTiles ==
  ASSUME TypeOK, VersionsTile, NEW d \in Days, NEW title \in Titles
  PROVE  /\ Reworded(d, title) \subseteq [from : 0 .. MaxDay, until : 0 .. Never, title : Titles]
         /\ \A e \in Days : \E v \in Reworded(d, title) :
              /\ Covers(v, e)
              /\ \A w \in Reworded(d, title) : Covers(w, e) => w = v
         /\ \A e \in Days : \A v \in versions, w \in Reworded(d, title) :
              (e < d /\ Covers(v, e) /\ Covers(w, e)) => v.title = w.title
<1> DEFINE old == CHOOSE w \in versions : Covers(w, d)
           head == [old EXCEPT !.until = d - 1]
           tail == [old EXCEPT !.from = d, !.title = title]
           whole == [old EXCEPT !.title = title]
<1>1. old \in versions /\ Covers(old, d) /\ \A w \in versions : Covers(w, d) => w = old
  BY DEF VersionsTile
<1>2. versions \subseteq [from : 0 .. MaxDay, until : 0 .. Never, title : Titles]
  BY DEF TypeOK
<1>3. MaxDay \in Nat \ {0} /\ d \in 1 .. MaxDay /\ Never = MaxDay + 1
  BY SchedulingAssumption DEF Days, Never
<1>4. old \in [from : 0 .. MaxDay, until : 0 .. Never, title : Titles]
  BY <1>1, <1>2
<1>5. Reworded(d, title) = (versions \ {old}) \cup IF old.from = d THEN {whole} ELSE {head, tail}
  BY DEF Reworded
<1> HIDE DEF old
<1>9. /\ tail.from = d /\ tail.until = old.until /\ tail.title = title
      /\ head.from = old.from /\ head.until = d - 1 /\ head.title = old.title
      /\ whole.from = old.from /\ whole.until = old.until
  BY <1>4
<1>7. Reworded(d, title) \subseteq [from : 0 .. MaxDay, until : 0 .. Never, title : Titles]
  <2>1. old.from \in 0 .. d
    BY <1>1, <1>3, <1>4 DEF Covers
  <2>2. old.from # d => head \in [from : 0 .. MaxDay, until : 0 .. Never, title : Titles]
    BY <1>3, <1>4, <2>1
  <2>3. tail \in [from : 0 .. MaxDay, until : 0 .. Never, title : Titles]
    <3>1. d \in 0 .. MaxDay
      BY <1>3
    <3> QED BY <1>4, <3>1
  <2>4. whole \in [from : 0 .. MaxDay, until : 0 .. Never, title : Titles]
    BY <1>4
  <2> QED BY <1>2, <1>5, <2>2, <2>3, <2>4
<1> HIDE DEF head, tail, whole
<1>6. ASSUME NEW e \in Days, NEW v \in versions, Covers(v, e),
             \A w \in versions : Covers(w, e) => w = v
      PROVE  \E u \in Reworded(d, title) :
               /\ Covers(u, e)
               /\ \A w \in Reworded(d, title) : Covers(w, e) => w = u
  <2>1. CASE v # old
    <3>1. ~ Covers(old, e)
      BY <1>1, <1>6, <2>1
    <3>2. ~ Covers(whole, e) /\ ~ Covers(head, e) /\ ~ Covers(tail, e)
      BY <1>1, <1>3, <1>4, <1>9, <3>1 DEF Covers, Days
    <3>3. \A w \in Reworded(d, title) : Covers(w, e) => w = v
      BY <1>1, <1>5, <1>6, <3>2 DEF Covers
    <3> QED BY <1>5, <1>6, <2>1, <3>3
  <2>2. CASE v = old /\ old.from = d
    <3>1. Covers(whole, e)
      BY <1>4, <1>6, <1>9, <2>2 DEF Covers
    <3>2. \A w \in Reworded(d, title) : Covers(w, e) => w = whole
      BY <1>5, <1>6, <2>2
    <3> QED BY <3>1, <3>2, <1>5, <2>2
  <2>3. CASE v = old /\ old.from # d /\ e < d
    <3>1. Covers(head, e) /\ ~ Covers(tail, e)
      BY <1>3, <1>4, <1>6, <1>9, <2>3 DEF Covers, Days
    <3>2. \A w \in Reworded(d, title) : Covers(w, e) => w = head
      BY <1>5, <1>6, <2>3, <3>1
    <3> QED BY <3>1, <3>2, <1>5, <2>3
  <2>4. CASE v = old /\ old.from # d /\ ~ (e < d)
    <3>1. Covers(tail, e) /\ ~ Covers(head, e)
      BY <1>3, <1>4, <1>6, <1>9, <2>4 DEF Covers, Days
    <3>2. \A w \in Reworded(d, title) : Covers(w, e) => w = tail
      BY <1>5, <1>6, <2>4, <3>1
    <3> QED BY <3>1, <3>2, <1>5, <2>4
  <2> QED BY <2>1, <2>2, <2>3, <2>4
<1>8. ASSUME NEW e \in Days, NEW v \in versions, NEW w \in Reworded(d, title),
             e < d, Covers(v, e), Covers(w, e)
      PROVE  v.title = w.title
  <2>1. CASE w \in versions
    BY <1>8, <2>1 DEF VersionsTile
  <2>2. CASE w = head
    BY <1>1, <1>3, <1>4, <1>8, <1>9, <2>2 DEF VersionsTile, Covers, Days
  <2>3. w # tail
    BY <1>3, <1>8, <1>9 DEF Covers, Days
  <2>4. old.from = d => w # whole
    BY <1>3, <1>4, <1>8, <1>9 DEF Covers, Days
  <2> QED BY <1>5, <2>1, <2>2, <2>3, <2>4
<1> QED BY <1>6, <1>7, <1>8 DEF VersionsTile

-----------------------------------------------------------------------------
(* Types *)

\* Dates are natural numbers with Never after the last.
LEMMA Dates ==
  /\ MaxDay \in Nat \ {0} /\ Days = 1 .. MaxDay /\ Never = MaxDay + 1
  /\ Days \subseteq Nat \ {0} /\ Opened \subseteq Days
BY SchedulingAssumption DEF Days, Never

\* What a page finds to insert is typed.
LEMMA RowsTyped ==
  ASSUME TypeOK, NEW d \in Days
  PROVE  Rows(d) \subseteq Occurrences
<1> SUFFICES ASSUME NEW r \in Rows(d) PROVE r \in Occurrences
  OBVIOUS
<1>1. PICK a \in asg, v \in versions : r = NewRow(a, v, d)
  BY DEF Rows
<1>2. a \in Assignments /\ v.title \in Titles
  BY DEF TypeOK
<1> QED BY <1>1, <1>2 DEF NewRow, Occurrences, Assignments

LEMMA TypeInit == Init => TypeOK /\ EnsuringType
<1> SUFFICES ASSUME Init PROVE TypeOK /\ EnsuringType
  OBVIOUS
<1>1. EnsuringType
  BY DEF Init, EnsuringType
<1>2. versions \subseteq [from : 0 .. MaxDay, until : 0 .. Never, title : Titles]
  BY Dates DEF Init
<1>3. \A p \in Pages : ensuring[p] = Idle
  BY DEF Init
<1> QED BY <1>1, <1>2, <1>3 DEF Init, TypeOK

\* The parts of TypeOK that each kind of action disturbs.
LEMMA TypeFromParts ==
  ASSUME inactive' \in Days \cup {Never},
         versions' \subseteq [from : 0 .. MaxDay, until : 0 .. Never, title : Titles],
         asg' \subseteq Assignments, archived' \subseteq Children, occ' \subseteq Occurrences,
         EnsuringType'
  PROVE  TypeOK' /\ EnsuringType'
<1>1. \A p \in Pages : ensuring'[p] # Idle =>
        /\ ensuring'[p].date \in Days
        /\ ensuring'[p].kids \subseteq Children
        /\ ensuring'[p].habit \in BOOLEAN
        /\ ensuring'[p].rows \subseteq Occurrences
  BY DEF EnsuringType, Generations
<1> QED BY <1>1 DEF TypeOK

\* Every handler keeps the types.
LEMMA TypeStep ==
  ASSUME TypeOK, EnsuringType, VersionsTile, Next
  PROVE  TypeOK' /\ EnsuringType'
<1> USE DEF TypeOK
<1>1. ASSUME NEW p \in Pages, NEW d \in Opened, Open(p, d)
      PROVE  TypeOK' /\ EnsuringType'
  <2>1. d \in Days
    BY Dates
  <2>2. [date |-> d, kids |-> Children \ archived, habit |-> d < inactive, rows |-> Rows(d)]
          \in Generations
    <3>1. (d < inactive) \in BOOLEAN
      OBVIOUS
    <3>2. Rows(d) \in SUBSET Occurrences
      BY <2>1, RowsTyped
    <3> HIDE DEF TypeOK
    <3> QED BY <2>1, <3>1, <3>2 DEF Generations
  <2>3. EnsuringType'
    BY <1>1, <2>2 DEF Open, EnsuringType
  <2> QED BY <1>1, <2>3, TypeFromParts DEF Open
<1>2. ASSUME NEW p \in Pages, Ensure(p)
      PROVE  TypeOK' /\ EnsuringType'
  <2>1. EnsuringType'
    BY <1>2 DEF Ensure, EnsuringType
  <2>2. \A r \in ensuring[p].rows : r \in Occurrences
    BY <1>2 DEF Ensure
  <2>3. \A r \in Occurrences, b \in BOOLEAN : [r EXCEPT !.late = b] \in Occurrences
    BY DEF Occurrences
  <2>4. \A r : (r \notin Rows(ensuring[p].date)) \in BOOLEAN
    OBVIOUS
  <2>5. occ' \subseteq Occurrences
    BY <1>2, <2>2, <2>3, <2>4 DEF Ensure
  <2> QED BY <1>2, <2>1, <2>5, TypeFromParts DEF Ensure
<1>3. ASSUME NEW p \in Pages, Abandon(p)
      PROVE  TypeOK' /\ EnsuringType'
  <2>1. EnsuringType'
    BY <1>3 DEF Abandon, EnsuringType
  <2> QED BY <1>3, <2>1, TypeFromParts DEF Abandon
<1>4. ASSUME NEW o \in occ, Submit(o)
      PROVE  TypeOK' /\ EnsuringType'
  <2>1. [o EXCEPT !.tried = TRUE] \in Occurrences
    BY DEF Occurrences
  <2>2. occ' \subseteq Occurrences
    BY <1>4, <2>1 DEF Submit
  <2> QED BY <1>4, <2>2, TypeFromParts DEF Submit, EnsuringType
<1>5. ASSUME NEW c \in Children \ archived, Archive(c)
      PROVE  TypeOK' /\ EnsuringType'
  BY <1>5, TypeFromParts DEF Archive, EnsuringType
<1>6. ASSUME NEW d \in Days, NEW title \in Titles, UpdateHabit(d, title)
      PROVE  TypeOK' /\ EnsuringType'
  <2>1. versions' \subseteq [from : 0 .. MaxDay, until : 0 .. Never, title : Titles]
    <3> HIDE DEF TypeOK
    <3> QED BY <1>6, RewordingTiles, Zenon DEF UpdateHabit
  <2> QED BY <1>6, <2>1, TypeFromParts DEF UpdateHabit, EnsuringType
<1>7. ASSUME NEW d \in Days, DeactivateHabit(d)
      PROVE  TypeOK' /\ EnsuringType'
  <2>1. \A a \in asg : a.from < d => [a EXCEPT !.until = d - 1] \in Assignments
    <3> SUFFICES ASSUME NEW a \in asg, a.from < d
                 PROVE  [a EXCEPT !.until = d - 1] \in Assignments
      OBVIOUS
    <3>1. a \in Assignments
      OBVIOUS
    <3>2. d - 1 \in Days
      BY Dates, <3>1 DEF Assignments
    <3> QED BY <3>1, <3>2 DEF Assignments
  <2>2. asg' \subseteq Assignments
    BY <1>7, <2>1 DEF DeactivateHabit
  <2> QED BY <1>7, <2>2, TypeFromParts DEF DeactivateHabit, EnsuringType
<1>8. ASSUME NEW d \in Days, NEW kids \in SUBSET Children \ {{}}, NEW plan \in Plans,
             Create(kids, d, plan)
      PROVE  TypeOK' /\ EnsuringType'
  <2>1. PICK ids \in [kids -> Free] :
          asg' = asg \cup {[id |-> ids[c], child |-> c, from |-> d, until |-> Never,
                            plan |-> plan, supersedes |-> None] : c \in kids}
    BY <1>8 DEF Create
  <2>2. \A c \in kids : [id |-> ids[c], child |-> c, from |-> d, until |-> Never,
                         plan |-> plan, supersedes |-> None] \in Assignments
    BY DEF Assignments, Free
  <2>3. asg' \subseteq Assignments
    BY <2>1, <2>2
  <2> QED BY <1>8, <2>3, TypeFromParts DEF Create, EnsuringType
<1>9. ASSUME NEW d \in Days, NEW a \in asg, NEW plan \in Plans, UpdateAssignment(a, d, plan)
      PROVE  TypeOK' /\ EnsuringType'
  <2>1. a \in Assignments
    OBVIOUS
  <2>2. PICK rows \in Replacements(a, d, plan) : asg' = (asg \ {a}) \cup rows
    BY <1>9 DEF UpdateAssignment
  <2>3. CASE a.from = d
    <3>1. [a EXCEPT !.plan = plan] \in Assignments
      BY <2>1 DEF Assignments
    <3>2. asg' \subseteq Assignments
      BY <2>2, <2>3, <3>1 DEF Replacements
    <3> QED BY <1>9, <3>2, TypeFromParts DEF UpdateAssignment, EnsuringType
  <2>4. CASE a.from # d
    <3>1. PICK id \in Free :
            rows = {[a EXCEPT !.until = d - 1],
                    [a EXCEPT !.id = id, !.from = d, !.plan = plan, !.supersedes = a.id]}
      BY <2>2, <2>4 DEF Replacements
    <3>2. d - 1 \in Days
      BY <1>9, <2>1, <2>4, Dates DEF UpdateAssignment, Covers, Assignments
    <3>3. [a EXCEPT !.until = d - 1] \in Assignments
      BY <2>1, <3>2 DEF Assignments
    <3>4. [a EXCEPT !.id = id, !.from = d, !.plan = plan, !.supersedes = a.id] \in Assignments
      BY <2>1 DEF Assignments, Free
    <3>5. asg' \subseteq Assignments
      BY <2>2, <3>1, <3>3, <3>4
    <3> QED BY <1>9, <3>5, TypeFromParts DEF UpdateAssignment, EnsuringType
  <2> QED BY <2>3, <2>4
<1>10. ASSUME NEW d \in Days, NEW a \in asg, DeactivateAssignment(a, d)
       PROVE  TypeOK' /\ EnsuringType'
  <2>1. a \in Assignments
    OBVIOUS
  <2>2. d > a.from => [a EXCEPT !.until = d - 1] \in Assignments
    <3>1. d > a.from => d - 1 \in Days
      BY <2>1, Dates DEF Assignments
    <3> QED BY <2>1, <3>1 DEF Assignments
  <2>3. asg' \subseteq Assignments
    BY <1>10, <2>2 DEF DeactivateAssignment, Ended
  <2> QED BY <1>10, <2>3, TypeFromParts DEF DeactivateAssignment, EnsuringType
<1> HIDE DEF TypeOK
<1> QED BY <1>1, <1>2, <1>3, <1>4, <1>5, <1>6, <1>7, <1>8, <1>9, <1>10 DEF Next

-----------------------------------------------------------------------------
(* Ranges of dates *)

LEMMA TileInit == Init => VersionsTile /\ NoOverlap(asg)
<1> SUFFICES ASSUME Init PROVE VersionsTile /\ NoOverlap(asg)
  OBVIOUS
<1>1. PICK t \in Titles : versions = {[from |-> 0, until |-> Never, title |-> t]}
  BY DEF Init
<1>2. \A d \in Days : Covers([from |-> 0, until |-> Never, title |-> t], d)
  BY Dates DEF Covers
<1> QED BY <1>1, <1>2 DEF Init, VersionsTile, NoOverlap

\* Only a rewording touches the versions.
LEMMA TileStep ==
  ASSUME TypeOK, VersionsTile, Next
  PROVE  VersionsTile'
<1>1. ASSUME NEW d \in Days, NEW title \in Titles, UpdateHabit(d, title)
      PROVE  VersionsTile'
  <2>1. versions' = Reworded(d, title)
    BY <1>1 DEF UpdateHabit
  <2>2. \A e \in Days : \E v \in Reworded(d, title) :
          /\ Covers(v, e)
          /\ \A w \in Reworded(d, title) : Covers(w, e) => w = v
    BY RewordingTiles
  <2> QED BY <2>1, <2>2 DEF VersionsTile, Covers
<1>2. ASSUME UNCHANGED versions
      PROVE  VersionsTile'
  BY <1>2 DEF VersionsTile, Covers
<1>3. \/ UNCHANGED versions
      \/ \E d \in Days, title \in Titles : UpdateHabit(d, title)
  BY DEF Next, Open, Ensure, Abandon, Submit, Archive, DeactivateHabit, Create,
         UpdateAssignment, DeactivateAssignment
<1> QED BY <1>1, <1>2, <1>3

\* Ending ranges earlier, and removing some, keeps them apart.
LEMMA OverlapStep ==
  ASSUME TypeOK, NoOverlap(asg), Next
  PROVE  NoOverlap(asg')
<1>1. ASSUME NEW d \in Days, DeactivateHabit(d)
      PROVE  NoOverlap(asg')
  <2>1. \A r \in asg' : \E a \in asg :
          /\ r.child = a.child /\ r.from = a.from
          /\ r = a \/ (a.from < d /\ d <= a.until /\ r = [a EXCEPT !.until = d - 1])
    <3> SUFFICES ASSUME NEW r \in asg'
                 PROVE  \E a \in asg :
                          /\ r.child = a.child /\ r.from = a.from
                          /\ r = a \/ (a.from < d /\ d <= a.until /\ r = [a EXCEPT !.until = d - 1])
      OBVIOUS
    <3>1. CASE r \in asg
      BY <3>1
    <3>2. CASE r \notin asg
      <4>1. PICK a \in asg : a.from < d /\ a.until >= d /\ r = [a EXCEPT !.until = d - 1]
        BY <1>1, <3>2 DEF DeactivateHabit
      <4>2. a \in Assignments
        BY DEF TypeOK
      <4> QED BY <4>1, <4>2, Dates DEF Assignments
    <3> QED BY <3>1, <3>2
  <2>2. SUFFICES ASSUME NEW r \in asg', NEW s \in asg', r # s, r.child = s.child
                 PROVE  r.until < s.from \/ s.until < r.from
    BY DEF NoOverlap
  <2>3. PICK a \in asg : /\ r.child = a.child /\ r.from = a.from
                         /\ r = a \/ (a.from < d /\ d <= a.until /\ r = [a EXCEPT !.until = d - 1])
    BY <2>1
  <2>4. PICK b \in asg : /\ s.child = b.child /\ s.from = b.from
                         /\ s = b \/ (b.from < d /\ d <= b.until /\ s = [b EXCEPT !.until = d - 1])
    BY <2>1
  <2>5. a \in Assignments /\ b \in Assignments
    BY DEF TypeOK
  <2>6. CASE a = b
    <3>1. \/ r = a /\ s = [a EXCEPT !.until = d - 1] /\ d <= a.until /\ a.from < d
          \/ s = a /\ r = [a EXCEPT !.until = d - 1] /\ d <= a.until /\ a.from < d
      BY <2>2, <2>3, <2>4, <2>6
    <3>2. a \notin asg'
      BY <1>1, <3>1, <2>5, Dates DEF DeactivateHabit, Assignments
    <3> QED BY <3>1, <3>2
  <2>7. CASE a # b
    <3>1. a.until < b.from \/ b.until < a.from
      BY <2>2, <2>3, <2>4, <2>7 DEF NoOverlap
    <3>2. /\ r.until = a.until \/ (r.until = d - 1 /\ d <= a.until)
          /\ s.until = b.until \/ (s.until = d - 1 /\ d <= b.until)
      BY <2>3, <2>4, <2>5 DEF Assignments
    <3> QED BY <3>1, <3>2, <2>3, <2>4, <2>5, Dates DEF Assignments
  <2> QED BY <2>6, <2>7
<1>2. \/ UNCHANGED asg
      \/ \E d \in Days :
           \/ DeactivateHabit(d)
           \/ \E kids \in SUBSET Children \ {{}}, plan \in Plans : Create(kids, d, plan)
           \/ \E a \in asg, plan \in Plans : UpdateAssignment(a, d, plan)
           \/ \E a \in asg : DeactivateAssignment(a, d)
  BY DEF Next, Open, Ensure, Abandon, Submit, Archive, UpdateHabit
<1>3. ASSUME NEW d \in Days, NEW kids \in SUBSET Children \ {{}}, NEW plan \in Plans,
             Create(kids, d, plan)
      PROVE  NoOverlap(asg')
  BY <1>3 DEF Create
<1>4. ASSUME NEW d \in Days, NEW a \in asg, NEW plan \in Plans, UpdateAssignment(a, d, plan)
      PROVE  NoOverlap(asg')
  BY <1>4 DEF UpdateAssignment
<1>5. ASSUME NEW d \in Days, NEW a \in asg, DeactivateAssignment(a, d)
      PROVE  NoOverlap(asg')
  BY <1>5 DEF DeactivateAssignment
<1> QED BY <1>1, <1>2, <1>3, <1>4, <1>5

-----------------------------------------------------------------------------
(* Generations *)

LEMMA GenerationInit == Init => GenerationHolds /\ HabitHolds
BY DEF Init, GenerationHolds, HabitHolds

\* What a generation rests on is locked until it commits.
LEMMA GenerationStep ==
  ASSUME TypeOK, EnsuringType, VersionsTile, GenerationHolds, Next
  PROVE  GenerationHolds'
<1>1. ASSUME NEW p \in Pages, NEW d \in Opened, Open(p, d)
      PROVE  GenerationHolds'
  <2> DEFINE t == [date |-> d, kids |-> Children \ archived, habit |-> d < inactive,
                   rows |-> Rows(d)]
  <2>1. d \in Days
    BY Dates
  <2>2. ASSUME NEW r \in Rows(d)
        PROVE  /\ d < inactive
               /\ r.child \in Children \ archived
               /\ ~ r.tried
               /\ r.date < inactive
               /\ \A v \in versions : Covers(v, r.date) => r.title = v.title
    <3>1. PICK a \in {b \in asg : Covers(b, d) /\ Due(b, d)}, v \in {w \in versions : Covers(w, d)} :
            r = NewRow(a, v, d)
      BY DEF Rows
    <3>2. r.child = a.child /\ r.date = d /\ r.title = v.title /\ r.tried = FALSE
      BY <3>1 DEF NewRow
    <3>3. a.child \in Children \ archived /\ d < inactive
      BY DEF Due, TypeOK, Assignments
    <3>4. \A w \in versions : Covers(w, d) => w = v
      BY <2>1 DEF VersionsTile
    <3> QED BY <3>2, <3>3, <3>4
  <2>3. \A q \in Pages : ensuring'[q] = IF q = p THEN t ELSE ensuring[q]
    BY <1>1 DEF Open, EnsuringType
  <2>4. UNCHANGED <<inactive, versions, archived>>
    BY <1>1 DEF Open
  <2> SUFFICES ASSUME NEW q \in Pages, ensuring'[q] # Idle
               PROVE  /\ ensuring'[q].kids \cap archived = {}
                      /\ \A r \in ensuring'[q].rows :
                           /\ ensuring'[q].habit
                           /\ r.child \in ensuring'[q].kids
                           /\ ~ r.tried
                           /\ r.date < inactive
                           /\ \A v \in versions : Covers(v, r.date) => r.title = v.title
    BY <2>4 DEF GenerationHolds, Covers
  <2>5. CASE q = p
    <3>1. ensuring'[q].kids = Children \ archived /\ ensuring'[q].rows = Rows(d)
      BY <2>3, <2>5
    <3>2. ensuring'[q].habit = (d < inactive)
      BY <2>3, <2>5
    <3> QED BY <3>1, <3>2, <2>2
  <2>6. CASE q # p
    BY <2>3, <2>6 DEF GenerationHolds
  <2> QED BY <2>5, <2>6
<1>2. ASSUME NEW p \in Pages, Ensure(p) \/ Abandon(p)
      PROVE  GenerationHolds'
  <2>1. \A q \in Pages : ensuring'[q] = IF q = p THEN Idle ELSE ensuring[q]
    BY <1>2 DEF Ensure, Abandon, EnsuringType
  <2>2. UNCHANGED <<inactive, versions, archived>>
    BY <1>2 DEF Ensure, Abandon
  <2> QED BY <2>1, <2>2 DEF GenerationHolds, Covers
<1>3. ASSUME NEW c \in Children \ archived, Archive(c)
      PROVE  GenerationHolds'
  <2>1. UNCHANGED <<inactive, versions, ensuring>> /\ archived' = archived \cup {c}
    BY <1>3 DEF Archive
  <2>2. \A p \in Pages : ensuring[p] # Idle => c \notin ensuring[p].kids
    BY <1>3 DEF Archive, ChildFree
  <2> QED BY <2>1, <2>2 DEF GenerationHolds, Covers
<1>4. ASSUME HabitFree, UNCHANGED <<archived, ensuring>>
      PROVE  GenerationHolds'
  BY <1>4 DEF GenerationHolds, HabitFree, Covers
<1>5. ASSUME UNCHANGED <<inactive, versions, archived, ensuring>>
      PROVE  GenerationHolds'
  BY <1>5 DEF GenerationHolds, Covers
<1>6. \/ \E p \in Pages : Ensure(p) \/ Abandon(p) \/ \E d \in Opened : Open(p, d)
      \/ \E c \in Children \ archived : Archive(c)
      \/ HabitFree /\ UNCHANGED <<archived, ensuring>>
      \/ UNCHANGED <<inactive, versions, archived, ensuring>>
  BY DEF Next, Submit, UpdateHabit, DeactivateHabit, Create, UpdateAssignment,
         DeactivateAssignment
<1> QED BY <1>1, <1>2, <1>3, <1>4, <1>5, <1>6

\* What may still be done agrees with the habit after every handler.
LEMMA HabitStep ==
  ASSUME TypeOK, VersionsTile, GenerationHolds, HabitHolds, Next
  PROVE  HabitHolds'
<1>1. ASSUME NEW p \in Pages, Ensure(p)
      PROVE  HabitHolds'
  <2>1. UNCHANGED <<inactive, versions>>
    BY <1>1 DEF Ensure
  <2>2. ASSUME NEW o \in occ' \ occ
        PROVE  /\ o.date < inactive
               /\ \A v \in versions : Covers(v, o.date) => o.title = v.title
    <3>1. PICK r \in ensuring[p].rows, b \in BOOLEAN : o = [r EXCEPT !.late = b]
      BY <1>1, <2>2 DEF Ensure
    <3>2. r \in Occurrences
      BY <1>1 DEF Ensure, TypeOK
    <3>3. o.date = r.date /\ o.title = r.title
      BY <3>1, <3>2 DEF Occurrences
    <3>4. /\ r.date < inactive
          /\ \A v \in versions : Covers(v, r.date) => r.title = v.title
      BY <1>1 DEF Ensure, GenerationHolds
    <3> QED BY <3>3, <3>4
  <2> QED BY <2>1, <2>2 DEF HabitHolds, Covers
<1>2. ASSUME NEW o \in occ, Submit(o)
      PROVE  HabitHolds'
  <2>1. [o EXCEPT !.tried = TRUE].tried = TRUE
    BY DEF TypeOK, Occurrences
  <2>2. \A u \in occ' : ~ u.tried => u \in occ
    BY <1>2, <2>1 DEF Submit
  <2> QED BY <1>2, <2>2 DEF Submit, HabitHolds, Covers
<1>3. ASSUME NEW d \in Days, NEW title \in Titles, UpdateHabit(d, title)
      PROVE  HabitHolds'
  <2>1. /\ versions' = Reworded(d, title) /\ inactive' = inactive
        /\ occ' = occ \ Unstarted(d)
    BY <1>3 DEF UpdateHabit
  <2>2. ASSUME NEW o \in occ', ~ o.tried, NEW w \in versions', Covers(w, o.date)
        PROVE  o.title = w.title
    <3>1. o \in occ /\ ~ (o.date >= d) /\ o.date \in Days
      BY <2>1, <2>2 DEF Unstarted, TypeOK, Occurrences
    <3>2. o.date < d
      BY <3>1, Dates
    <3>3. PICK v \in versions : Covers(v, o.date)
      BY <3>1 DEF VersionsTile
    <3>4. o.title = v.title
      BY <2>2, <3>1, <3>3 DEF HabitHolds
    <3>5. v.title = w.title
      <4>1. \A e \in Days : \A x \in versions, y \in Reworded(d, title) :
              (e < d /\ Covers(x, e) /\ Covers(y, e)) => x.title = y.title
        BY RewordingTiles
      <4> QED BY <2>1, <2>2, <3>1, <3>2, <3>3, <4>1
    <3> QED BY <3>4, <3>5
  <2> QED BY <2>1, <2>2 DEF HabitHolds, Covers
<1>4. ASSUME NEW d \in Days, DeactivateHabit(d)
      PROVE  HabitHolds'
  <2>1. /\ versions' = versions /\ inactive' = (IF d < inactive THEN d ELSE inactive)
        /\ occ' = occ \ Unstarted(d)
    BY <1>4 DEF DeactivateHabit
  <2>2. ASSUME NEW o \in occ', ~ o.tried
        PROVE  o.date < inactive'
    <3>1. o \in occ /\ ~ (o.date >= d) /\ o.date \in Days
      BY <2>1, <2>2 DEF Unstarted, TypeOK, Occurrences
    <3>2. o.date < inactive
      BY <2>2, <3>1 DEF HabitHolds
    <3> QED BY <2>1, <3>1, <3>2, Dates
  <2> QED BY <2>1, <2>2 DEF HabitHolds, Covers
<1>5. ASSUME UNCHANGED <<inactive, versions>>, occ' \subseteq occ
      PROVE  HabitHolds'
  BY <1>5 DEF HabitHolds, Covers
<1>6. \/ \E p \in Pages : Ensure(p)
      \/ \E o \in occ : Submit(o)
      \/ \E d \in Days, title \in Titles : UpdateHabit(d, title)
      \/ \E d \in Days : DeactivateHabit(d)
      \/ UNCHANGED <<inactive, versions>> /\ occ' \subseteq occ
  BY DEF Next, Open, Abandon, Archive, Create, UpdateAssignment, DeactivateAssignment
<1> QED BY <1>1, <1>2, <1>3, <1>4, <1>5, <1>6

-----------------------------------------------------------------------------
(* Days of a child *)

\* A replacement has the days of what it replaces, and both of its parts are the
\* same child's.
LEMMA ReplacementCovers ==
  ASSUME NEW a \in Assignments, NEW d \in Days, NEW plan \in Plans, Covers(a, d),
         NEW rows \in Replacements(a, d, plan)
  PROVE  /\ \A r \in rows : r.child = a.child /\ a.from <= r.from /\ r.until <= a.until
         /\ \A e \in Days : Covers(a, e) <=> \E r \in rows : Covers(r, e)
         /\ \A r, s \in rows : r # s => (r.until < s.from \/ s.until < r.from)
<1>1. /\ a.from \in Nat /\ a.until \in Nat /\ d \in Nat
      /\ a.from <= d /\ d <= a.until
  BY Dates DEF Assignments, Covers
<1>2. CASE a.from = d
  <2> DEFINE r == [a EXCEPT !.plan = plan]
  <2>1. rows = {r}
    BY <1>2 DEF Replacements
  <2>2. r.child = a.child /\ r.from = a.from /\ r.until = a.until
    BY DEF Assignments
  <2> HIDE DEF r
  <2> QED BY <1>1, <2>1, <2>2 DEF Covers
<1>3. CASE a.from # d
  <2>1. PICK id \in Free :
          rows = {[a EXCEPT !.until = d - 1],
                  [a EXCEPT !.id = id, !.from = d, !.plan = plan, !.supersedes = a.id]}
    BY <1>3 DEF Replacements
  <2> DEFINE r == [a EXCEPT !.until = d - 1]
             s == [a EXCEPT !.id = id, !.from = d, !.plan = plan, !.supersedes = a.id]
  <2>2. r.child = a.child /\ r.from = a.from /\ r.until = d - 1
    BY DEF Assignments
  <2>3. s.child = a.child /\ s.from = d /\ s.until = a.until
    BY DEF Assignments
  <2>4. rows = {r, s}
    BY <2>1
  <2> HIDE DEF r, s
  <2>5. \A e \in Days : Covers(a, e) <=> (Covers(r, e) \/ Covers(s, e))
    BY <1>1, <2>2, <2>3, Dates DEF Covers
  <2>6. \A x \in rows : x.child = a.child /\ a.from <= x.from /\ x.until <= a.until
    BY <1>1, <2>2, <2>3, <2>4
  <2>7. \A x, y \in rows : x # y => (x.until < y.from \/ y.until < x.from)
    BY <1>1, <2>2, <2>3, <2>4
  <2> QED BY <2>4, <2>5, <2>6, <2>7
<1> QED BY <1>2, <1>3

\* The two parts of a split assignment meet no other assignment.
LEMMA SplitsCollideNever == TypeOK /\ NoOverlap(asg) => SplitNeverCollides
<1> SUFFICES ASSUME TypeOK, NoOverlap(asg),
                    NEW a \in asg, NEW d \in Days, NEW plan \in Plans, Covers(a, d),
                    NEW rows \in Replacements(a, d, plan)
             PROVE  NoOverlap((asg \ {a}) \cup rows)
  BY DEF SplitNeverCollides
<1>1. a \in Assignments /\ \A b \in asg : b \in Assignments
  BY DEF TypeOK
<1>2. /\ \A r \in rows : r.child = a.child /\ a.from <= r.from /\ r.until <= a.until
      /\ \A r, s \in rows : r # s => (r.until < s.from \/ s.until < r.from)
  BY <1>1, ReplacementCovers
<1>3. \A r \in rows : r.from \in Nat /\ r.until \in Nat
  <2>1. \A x \in Assignments : x.from \in Nat /\ x.until \in Nat
    BY Dates DEF Assignments
  <2>2. rows \subseteq Assignments
    <3>1. CASE a.from = d
      BY <1>1, <3>1 DEF Replacements, Assignments
    <3>2. CASE a.from # d
      <4>1. d - 1 \in Days
        BY <1>1, <3>2, Dates DEF Covers, Assignments
      <4>2. [a EXCEPT !.until = d - 1] \in Assignments
        BY <1>1, <4>1 DEF Assignments
      <4>3. \A id \in Free :
              [a EXCEPT !.id = id, !.from = d, !.plan = plan, !.supersedes = a.id] \in Assignments
        BY <1>1 DEF Assignments, Free
      <4> QED BY <3>2, <4>2, <4>3 DEF Replacements
    <3> QED BY <3>1, <3>2
  <2> QED BY <2>1, <2>2
<1>4. ASSUME NEW r \in rows, NEW b \in asg \ {a}, r.child = b.child
      PROVE  r.until < b.from \/ b.until < r.from
  <2>1. a.until < b.from \/ b.until < a.from
    BY <1>2, <1>4 DEF NoOverlap
  <2>2. a.from \in Nat /\ a.until \in Nat /\ b.from \in Nat /\ b.until \in Nat
    BY <1>1, Dates DEF Assignments
  <2> QED BY <1>2, <1>3, <2>1, <2>2
<1> QED BY <1>2, <1>4 DEF NoOverlap

\* Who gains and loses which days, handler by handler.
LEMMA DaysStep ==
  ASSUME TypeOK, Next, NEW c \in Children, NEW d \in Days
  PROVE  /\ (~ Assigned(c, d) /\ Assigned(c, d)') =>
              \E e \in Days :
                \/ \E kids \in SUBSET Children, plan \in Plans :
                     c \in kids /\ e <= d /\ Create(kids, e, plan)
                \/ \E a \in asg : a.until < d /\ d < e /\ DeactivateAssignment(a, e)
         /\ (Assigned(c, d) /\ ~ Assigned(c, d)') =>
              \E e \in 1 .. d :
                DeactivateHabit(e) \/ \E a \in asg : DeactivateAssignment(a, e)
<1> DEFINE Gain == ~ Assigned(c, d) /\ Assigned(c, d)'
           Loss == Assigned(c, d) /\ ~ Assigned(c, d)'
<1>0. \A a \in asg : a \in Assignments /\ a.from \in Nat /\ a.until \in Nat
  BY Dates DEF TypeOK, Assignments
<1>a. Assigned(c, d)' <=> \E a \in asg' : a.child = c /\ Covers(a, d)
  BY DEF Assigned, Covers
<1>1. ASSUME NEW e \in Days, DeactivateHabit(e)
      PROVE  ~ Gain /\ (Loss => e \in 1 .. d)
  <2>1. ASSUME NEW r \in asg', r \notin asg
        PROVE  \E a \in asg : /\ r.child = a.child /\ r.from = a.from
                              /\ r.until = e - 1 /\ e - 1 <= a.until
    <3>1. PICK a \in asg : a.from < e /\ a.until >= e /\ r = [a EXCEPT !.until = e - 1]
      BY <1>1, <2>1 DEF DeactivateHabit
    <3> QED BY <1>0, <3>1, Dates DEF Assignments
  <2>2. ~ Gain
    BY <1>0, <1>a, <2>1, Dates DEF Assigned, Covers
  <2>3. ASSUME NEW a \in asg, a.child = c, Covers(a, d), d < e
        PROVE  \E r \in asg' : r.child = c /\ Covers(r, d)
    <3>1. CASE a \in asg'
      BY <2>3, <3>1
    <3>2. CASE a \notin asg'
      <4>1. a.from < e
        BY <1>0, <2>3, Dates DEF Covers
      <4>2. a.until >= e /\ [a EXCEPT !.until = e - 1] \in asg'
        BY <1>0, <1>1, <3>2, <4>1, Dates DEF DeactivateHabit
      <4> QED BY <1>0, <2>3, <4>2, Dates DEF Covers, Assignments
    <3> QED BY <3>1, <3>2
  <2> QED BY <1>a, <2>2, <2>3, Dates DEF Assigned
<1>2. ASSUME NEW e \in Days, NEW kids \in SUBSET Children \ {{}}, NEW plan \in Plans,
             Create(kids, e, plan)
      PROVE  ~ Loss /\ (Gain => c \in kids /\ e <= d)
  <2>1. PICK ids \in [kids -> Free] :
          asg' = asg \cup {[id |-> ids[x], child |-> x, from |-> e, until |-> Never,
                            plan |-> plan, supersedes |-> None] : x \in kids}
    BY <1>2 DEF Create
  <2>2. \A r \in asg' \ asg : r.child \in kids /\ r.from = e
    BY <2>1
  <2> QED BY <1>a, <2>1, <2>2 DEF Assigned, Covers
<1>3. ASSUME NEW e \in Days, NEW a \in asg, NEW plan \in Plans, UpdateAssignment(a, e, plan)
      PROVE  ~ Gain /\ ~ Loss
  <2>1. PICK rows \in Replacements(a, e, plan) : asg' = (asg \ {a}) \cup rows
    BY <1>3 DEF UpdateAssignment
  <2>2. /\ \A r \in rows : r.child = a.child
        /\ Covers(a, d) <=> \E r \in rows : Covers(r, d)
    BY <1>0, <1>3, ReplacementCovers DEF UpdateAssignment
  <2> QED BY <1>a, <2>1, <2>2 DEF Assigned
<1>4. ASSUME NEW e \in Days, NEW a \in asg, DeactivateAssignment(a, e)
      PROVE  (Gain => a.until < d /\ d < e) /\ (Loss => e \in 1 .. d)
  <2>1. asg' = (asg \ {a}) \cup Ended(a, e)
    BY <1>4 DEF DeactivateAssignment
  <2>2. \A r \in Ended(a, e) : r.child = a.child /\ r.from = a.from /\ r.until = e - 1
    BY <1>0 DEF Ended, Assignments
  <2>3. e > a.from => \E r \in Ended(a, e) : TRUE
    BY DEF Ended
  <2>4. Gain => a.until < d /\ d < e
    BY <1>0, <1>a, <2>1, <2>2, Dates DEF Assigned, Covers
  <2>5. Loss => e \in 1 .. d
    BY <1>0, <1>a, <2>1, <2>2, <2>3, Dates DEF Assigned, Covers
  <2> QED BY <2>4, <2>5
<1>5. ASSUME UNCHANGED asg
      PROVE  ~ Gain /\ ~ Loss
  BY <1>5, <1>a DEF Assigned
<1>6. \/ UNCHANGED asg
      \/ \E e \in Days :
           \/ DeactivateHabit(e)
           \/ \E kids \in SUBSET Children \ {{}}, plan \in Plans : Create(kids, e, plan)
           \/ \E a \in asg, plan \in Plans : UpdateAssignment(a, e, plan)
           \/ \E a \in asg : DeactivateAssignment(a, e)
  BY DEF Next, Open, Ensure, Abandon, Submit, Archive, UpdateHabit
<1> HIDE DEF Gain, Loss
<1>7. Gain => \E e \in Days :
                \/ \E kids \in SUBSET Children, plan \in Plans :
                     c \in kids /\ e <= d /\ Create(kids, e, plan)
                \/ \E a \in asg : a.until < d /\ d < e /\ DeactivateAssignment(a, e)
  BY <1>1, <1>2, <1>3, <1>4, <1>5, <1>6
<1>8. Loss => \E e \in 1 .. d :
                DeactivateHabit(e) \/ \E a \in asg : DeactivateAssignment(a, e)
  BY <1>1, <1>2, <1>3, <1>4, <1>5, <1>6
<1> QED BY <1>7, <1>8 DEF Gain, Loss

\* A generation holds the children it inserts for.
LEMMA ArchivedStep ==
  ASSUME TypeOK, GenerationHolds, Next
  PROVE  \A o \in occ' \ occ : o.child \notin archived
<1>1. ASSUME NEW p \in Pages, Ensure(p), NEW o \in occ' \ occ
      PROVE  o.child \notin archived
  <2>1. PICK r \in ensuring[p].rows, b \in BOOLEAN : o = [r EXCEPT !.late = b]
    BY <1>1 DEF Ensure
  <2>2. o.child = r.child
    BY <1>1, <2>1 DEF Ensure, TypeOK, Occurrences
  <2> QED BY <1>1, <2>2 DEF Ensure, GenerationHolds
<1>2. ASSUME NEW u \in occ, Submit(u), NEW o \in occ' \ occ
      PROVE  o.child \notin archived
  <2>1. o = [u EXCEPT !.tried = TRUE]
    BY <1>2 DEF Submit
  <2> QED BY <1>2, <2>1 DEF Submit, TypeOK, Occurrences
<1>3. \/ \E p \in Pages : Ensure(p)
      \/ \E u \in occ : Submit(u)
      \/ occ' \subseteq occ
  BY DEF Next, Open, Abandon, Archive, UpdateHabit, DeactivateHabit, Create,
         UpdateAssignment, DeactivateAssignment
<1> QED BY <1>1, <1>2, <1>3

-----------------------------------------------------------------------------
(* What is left to do *)

IdsOnce == \A a, b \in asg : a.id = b.id => a = b

\* One occurrence, and one row of a snapshot, for an assignment's day.
OccurrencesOnce ==
  /\ \A o, u \in occ : (o.asg = u.asg /\ o.child = u.child /\ o.date = u.date) => o = u
  /\ \A p \in Pages : ensuring[p] # Idle =>
       \A r, s \in ensuring[p].rows : (r.asg = s.asg /\ r.child = s.child /\ r.date = s.date) => r = s

Asks(a, o) ==
  /\ a.id = o.asg /\ a.child = o.child
  /\ Covers(a, o.date) /\ a.plan = o.plan /\ o.date \in DueOn[a.plan]

\* The assignment that an occurrence was made from still asks for it.
Founded == \A o \in occ : (~ o.tried /\ ~ o.late) => \E a \in asg : Asks(a, o)

CInv == IdsOnce /\ OccurrencesOnce /\ Founded

\* The assignments of a child are apart, so that one of them asks for a day.
LEMMA CurrentFromParts == TypeOK /\ NoOverlap(asg) /\ CInv => FreshIsCurrent
<1> SUFFICES ASSUME TypeOK, NoOverlap(asg), CInv PROVE FreshIsCurrent
  OBVIOUS
<1> DEFINE fresh == {o \in occ : ~ o.tried /\ ~ o.late}
<1>1. \A o \in fresh : \E a \in asg : Asks(a, o)
  BY DEF CInv, Founded
<1>2. ASSUME NEW o \in fresh, NEW u \in fresh, u.child = o.child, u.date = o.date
      PROVE  u = o
  <2>1. PICK a \in asg, b \in asg : Asks(a, o) /\ Asks(b, u)
    BY <1>1
  <2>2. /\ a.from \in Nat /\ a.until \in Nat /\ b.from \in Nat /\ b.until \in Nat
        /\ o.date \in Nat
    BY Dates DEF TypeOK, Assignments, Occurrences
  <2>3. a = b
    BY <1>2, <2>1, <2>2 DEF NoOverlap, Asks, Covers
  <2>4. u.asg = o.asg
    BY <2>1, <2>3 DEF Asks
  <2> QED BY <1>2, <2>4 DEF CInv, OccurrencesOnce
<1> QED BY <1>1, <1>2 DEF FreshIsCurrent, Asks

\* What a page finds to insert is asked for, once.
LEMMA RowsCurrent ==
  ASSUME TypeOK, VersionsTile, IdsOnce, NEW d \in Days
  PROVE  /\ \A r \in Rows(d) : \E a \in asg : Asks(a, r)
         /\ \A r, s \in Rows(d) : r.asg = s.asg => r = s
<1>1. ASSUME NEW r \in Rows(d)
      PROVE  \E a \in asg, v \in versions :
               r = NewRow(a, v, d) /\ Covers(a, d) /\ Covers(v, d) /\ d \in DueOn[a.plan]
  BY <1>1 DEF Rows, Due
<1>2. ASSUME NEW r \in Rows(d), NEW s \in Rows(d), r.asg = s.asg
      PROVE  r = s
  <2>1. PICK a \in asg, v \in versions : r = NewRow(a, v, d) /\ Covers(v, d)
    BY <1>1
  <2>2. PICK b \in asg, w \in versions : s = NewRow(b, w, d) /\ Covers(w, d)
    BY <1>1
  <2>3. a = b
    BY <1>2, <2>1, <2>2 DEF NewRow, IdsOnce
  <2>4. v = w
    BY <2>1, <2>2 DEF VersionsTile
  <2> QED BY <2>1, <2>2, <2>3, <2>4
<1> QED BY <1>1, <1>2 DEF NewRow, Asks

\* New ids are free ones, and a row that changes keeps its own.
LEMMA IdsStep ==
  ASSUME TypeOK, IdsOnce, Next
  PROVE  IdsOnce'
<1>0. \A a \in asg : a \in Assignments
  BY DEF TypeOK
<1>1. ASSUME NEW d \in Days, DeactivateHabit(d)
      PROVE  IdsOnce'
  <2>1. ASSUME NEW r \in asg'
        PROVE  \E a \in asg :
                 /\ a.id = r.id
                 /\ r = IF a.from < d /\ a.until >= d THEN [a EXCEPT !.until = d - 1] ELSE a
    <3>1. CASE r \in asg /\ ~ (r.from < d /\ r.until >= d)
      BY <3>1
    <3>2. CASE \E a \in asg : a.from < d /\ a.until >= d /\ r = [a EXCEPT !.until = d - 1]
      BY <1>0, <3>2 DEF Assignments
    <3> QED BY <1>1, <3>1, <3>2 DEF DeactivateHabit
  <2> QED BY <2>1 DEF IdsOnce
<1>2. ASSUME NEW d \in Days, NEW kids \in SUBSET Children \ {{}}, NEW plan \in Plans,
             Create(kids, d, plan)
      PROVE  IdsOnce'
  <2>1. PICK ids \in [kids -> Free] :
          /\ \A c, e \in kids : ids[c] = ids[e] => c = e
          /\ asg' = asg \cup {[id |-> ids[c], child |-> c, from |-> d, until |-> Never,
                               plan |-> plan, supersedes |-> None] : c \in kids}
    BY <1>2 DEF Create
  <2>2. \A c \in kids : \A a \in asg : a.id # ids[c]
    BY DEF Free
  <2> QED BY <2>1, <2>2 DEF IdsOnce
<1>3. ASSUME NEW d \in Days, NEW a \in asg, NEW plan \in Plans, UpdateAssignment(a, d, plan)
      PROVE  IdsOnce'
  <2>1. PICK rows \in Replacements(a, d, plan) : asg' = (asg \ {a}) \cup rows
    BY <1>3 DEF UpdateAssignment
  <2>2. /\ \A r \in rows : r.id = a.id \/ \A b \in asg : b.id # r.id
        /\ \A r, s \in rows : r.id = s.id => r = s
    <3>1. CASE a.from = d
      <4>1. rows = {[a EXCEPT !.plan = plan]}
        BY <3>1 DEF Replacements
      <4> QED BY <1>0, <4>1 DEF Assignments
    <3>2. CASE a.from # d
      <4> DEFINE head == [a EXCEPT !.until = d - 1]
                 tail(id) == [a EXCEPT !.id = id, !.from = d, !.plan = plan, !.supersedes = a.id]
      <4>1. PICK id \in Free : rows = {head, tail(id)}
        BY <3>2 DEF Replacements
      <4>2. head.id = a.id /\ tail(id).id = id
        BY <1>0 DEF Assignments
      <4>3. \A b \in asg : b.id # id
        BY DEF Free
      <4> HIDE DEF head, tail
      <4> QED BY <4>1, <4>2, <4>3
    <3> QED BY <3>1, <3>2
  <2>3. \A b \in asg \ {a} : b.id # a.id
    BY DEF IdsOnce
  <2> QED BY <2>1, <2>2, <2>3 DEF IdsOnce
<1>4. ASSUME NEW d \in Days, NEW a \in asg, DeactivateAssignment(a, d)
      PROVE  IdsOnce'
  <2>1. asg' = (asg \ {a}) \cup Ended(a, d)
    BY <1>4 DEF DeactivateAssignment
  <2>2. \A r \in Ended(a, d) : r.id = a.id /\ r = [a EXCEPT !.until = d - 1]
    BY <1>0 DEF Ended, Assignments
  <2> QED BY <2>1, <2>2 DEF IdsOnce
<1>5. CASE UNCHANGED asg
  BY <1>5 DEF IdsOnce
<1>6. \/ UNCHANGED asg
      \/ \E d \in Days :
           \/ DeactivateHabit(d)
           \/ \E kids \in SUBSET Children \ {{}}, plan \in Plans : Create(kids, d, plan)
           \/ \E a \in asg, plan \in Plans : UpdateAssignment(a, d, plan)
           \/ \E a \in asg : DeactivateAssignment(a, d)
  BY DEF Next, Open, Ensure, Abandon, Submit, Archive, UpdateHabit
<1> QED BY <1>1, <1>2, <1>3, <1>4, <1>5, <1>6

\* A generation inserts what does not exist, and a submission changes a row in
\* place.
LEMMA OnceStep ==
  ASSUME TypeOK, EnsuringType, VersionsTile, IdsOnce, OccurrencesOnce, Next
  PROVE  OccurrencesOnce'
<1> DEFINE Key(o, u) == o.asg = u.asg /\ o.child = u.child /\ o.date = u.date
           Once(os) == \A o, u \in os : Key(o, u) => o = u
<1>0. Once(occ) /\ \A p \in Pages : ensuring[p] # Idle => Once(ensuring[p].rows)
  BY DEF OccurrencesOnce
<1>a. SUFFICES /\ Once(occ')
               /\ \A p \in Pages : ensuring'[p] # Idle => Once(ensuring'[p].rows)
  BY DEF OccurrencesOnce
<1>1. ASSUME NEW p \in Pages, NEW d \in Opened, Open(p, d)
      PROVE  Once(occ') /\ \A q \in Pages : ensuring'[q] # Idle => Once(ensuring'[q].rows)
  <2>1. Once(Rows(d))
    BY Dates, RowsCurrent
  <2>2. Once(occ')
    BY <1>0, <1>1 DEF Open
  <2>3. ensuring'[p].rows = Rows(d) /\ \A q \in Pages \ {p} : ensuring'[q] = ensuring[q]
    BY <1>1 DEF Open, EnsuringType
  <2> QED BY <1>0, <2>1, <2>2, <2>3
<1>2. ASSUME NEW p \in Pages, Ensure(p)
      PROVE  Once(occ') /\ \A q \in Pages : ensuring'[q] # Idle => Once(ensuring'[q].rows)
  <2> DEFINE new == {r \in ensuring[p].rows : ~ Exists(r)}
             stale(r) == r \notin Rows(ensuring[p].date)
  <2>1. occ' = occ \cup {[r EXCEPT !.late = stale(r)] : r \in new}
    BY <1>2 DEF Ensure
  <2>2. \A r \in new : LET o == [r EXCEPT !.late = stale(r)]
                        IN o.asg = r.asg /\ o.child = r.child /\ o.date = r.date
    BY <1>2 DEF Ensure, TypeOK, Occurrences
  <2>3. \A r \in new : \A o \in occ : ~ Key(o, r)
    BY DEF Exists
  <2>4. Once(new)
    BY <1>0, <1>2 DEF Ensure
  <2> HIDE DEF new, stale
  <2>5. Once(occ')
    <3>1. ASSUME NEW o \in occ'
          PROVE  o \in occ \/ \E r \in new : o = [r EXCEPT !.late = stale(r)] /\ Key(o, r)
      BY <2>1, <2>2
    <3>2. SUFFICES ASSUME NEW o \in occ', NEW u \in occ', Key(o, u) PROVE o = u
      OBVIOUS
    <3>3. CASE o \in occ /\ u \in occ
      BY <1>0, <3>2, <3>3
    <3>4. CASE o \notin occ /\ u \notin occ
      <4>1. PICK r \in new : o = [r EXCEPT !.late = stale(r)] /\ Key(o, r)
        BY <3>1, <3>4
      <4>2. PICK q \in new : u = [q EXCEPT !.late = stale(q)] /\ Key(u, q)
        BY <3>1, <3>4
      <4>3. r = q
        BY <2>4, <3>2, <4>1, <4>2
      <4> QED BY <4>1, <4>2, <4>3
    <3> QED BY <2>3, <3>1, <3>2, <3>3, <3>4
  <2>6. ensuring'[p] = Idle /\ \A q \in Pages \ {p} : ensuring'[q] = ensuring[q]
    BY <1>2 DEF Ensure, EnsuringType
  <2> QED BY <1>0, <2>5, <2>6
<1>3. ASSUME NEW p \in Pages, Abandon(p)
      PROVE  Once(occ') /\ \A q \in Pages : ensuring'[q] # Idle => Once(ensuring'[q].rows)
  <2>1. ensuring'[p] = Idle /\ \A q \in Pages \ {p} : ensuring'[q] = ensuring[q]
    BY <1>3 DEF Abandon, EnsuringType
  <2>2. Once(occ')
    BY <1>0, <1>3 DEF Abandon
  <2> QED BY <1>0, <2>1, <2>2
<1>4. ASSUME NEW u \in occ, Submit(u)
      PROVE  Once(occ') /\ \A q \in Pages : ensuring'[q] # Idle => Once(ensuring'[q].rows)
  <2> DEFINE w == [u EXCEPT !.tried = TRUE]
  <2>1. occ' = (occ \ {u}) \cup {w} /\ ensuring' = ensuring
    BY <1>4 DEF Submit
  <2>2. w.asg = u.asg /\ w.child = u.child /\ w.date = u.date
    BY DEF TypeOK, Occurrences
  <2> HIDE DEF w
  <2> QED BY <1>0, <2>1, <2>2
<1>5. CASE occ' \subseteq occ /\ UNCHANGED ensuring
  BY <1>0, <1>5
<1>6. \/ \E p \in Pages : Ensure(p) \/ Abandon(p) \/ \E d \in Opened : Open(p, d)
      \/ \E u \in occ : Submit(u)
      \/ occ' \subseteq occ /\ UNCHANGED ensuring
  BY DEF Next, Archive, UpdateHabit, DeactivateHabit, Create, UpdateAssignment,
         DeactivateAssignment
<1> HIDE DEF Once
<1> QED BY <1>1, <1>2, <1>3, <1>4, <1>5, <1>6

\* What a change of an assignment leaves to do lies before its date, and there
\* the assignment stays as it was.
LEMMA FoundedStep ==
  ASSUME TypeOK, IdsOnce, Founded, Next
  PROVE  Founded'
<1> DEFINE Fresh(o) == ~ o.tried /\ ~ o.late
<1>0. /\ \A a \in asg : a \in Assignments /\ a.from \in Nat /\ a.until \in Nat
      /\ \A o \in occ : o \in Occurrences /\ o.date \in Nat
  BY Dates DEF TypeOK, Assignments, Occurrences
<1>a. SUFFICES \A o \in occ' : Fresh(o) => \E a \in asg' : Asks(a, o)
  BY DEF Founded, Asks, Covers
<1>b. \A a \in asg, d \in Days, o \in occ :
        LET head == [a EXCEPT !.until = d - 1]
        IN (o.date < d /\ Asks(a, o)) => Asks(head, o)
  <2> SUFFICES ASSUME NEW a \in asg, NEW d \in Days, NEW o \in occ, o.date < d, Asks(a, o)
               PROVE  Asks([a EXCEPT !.until = d - 1], o)
    BY Zenon
  <2> DEFINE head == [a EXCEPT !.until = d - 1]
  <2>1. /\ head.id = a.id /\ head.child = a.child /\ head.from = a.from
        /\ head.until = d - 1 /\ head.plan = a.plan
    BY <1>0 DEF Assignments
  <2> HIDE DEF head
  <2>2. Asks(head, o)
    BY <1>0, <2>1, Dates DEF Asks, Covers
  <2> QED BY <2>2 DEF head
<1>1. ASSUME NEW p \in Pages, Ensure(p), NEW o \in occ', Fresh(o)
      PROVE  \E a \in asg' : Asks(a, o)
  <2>1. asg' = asg
    BY <1>1 DEF Ensure
  <2>2. CASE o \in occ
    BY <1>1, <2>1, <2>2 DEF Founded
  <2>3. CASE o \notin occ
    <3> DEFINE stale(r) == r \notin Rows(ensuring[p].date)
    <3>1. PICK r \in ensuring[p].rows : o = [r EXCEPT !.late = stale(r)]
      BY <1>1, <2>3 DEF Ensure
    <3>2. /\ o.asg = r.asg /\ o.child = r.child /\ o.date = r.date /\ o.plan = r.plan
          /\ o.late = stale(r)
      <4>1. r \in Occurrences
        BY <1>1 DEF Ensure, TypeOK
      <4> HIDE DEF stale
      <4> QED BY <3>1, <4>1 DEF Occurrences
    <3>3. r \in Rows(ensuring[p].date)
      BY <1>1, <3>2
    <3>4. PICK a \in asg : Asks(a, r)
      BY <3>3 DEF Rows, Due, NewRow, Asks
    <3> QED BY <2>1, <3>2, <3>4 DEF Asks
  <2> QED BY <2>2, <2>3
<1>2. ASSUME NEW u \in occ, Submit(u), NEW o \in occ', Fresh(o)
      PROVE  \E a \in asg' : Asks(a, o)
  <2>1. o \in occ
    BY <1>0, <1>2 DEF Submit, Occurrences
  <2> QED BY <1>2, <2>1 DEF Submit, Founded
<1>3. ASSUME NEW d \in Days, DeactivateHabit(d), NEW o \in occ', Fresh(o)
      PROVE  \E a \in asg' : Asks(a, o)
  <2>1. o \in occ /\ o.date < d
    BY <1>0, <1>3, Dates DEF DeactivateHabit, Unstarted
  <2>2. PICK a \in asg : Asks(a, o)
    BY <1>3, <2>1 DEF Founded
  <2>3. a.from < d
    BY <1>0, <2>1, <2>2, Dates DEF Asks, Covers
  <2>4. a \in asg' \/ [a EXCEPT !.until = d - 1] \in asg'
    <3>1. CASE a.until >= d
      BY <1>3, <2>3, <3>1, Zenon DEF DeactivateHabit
    <3>2. CASE ~ (a.until >= d)
      <4>1. ~ (a.from >= d)
        BY <1>0, <2>3, Dates
      <4>2. a \in asg'
        BY <1>3, <3>2, <4>1, Zenon DEF DeactivateHabit
      <4> QED BY <4>2
    <3> QED BY <3>1, <3>2
  <2> QED BY <1>b, <2>1, <2>2, <2>4
<1>4. ASSUME NEW d \in Days, NEW a \in asg, asg \ {a} \subseteq asg',
             occ' = occ \ {o \in Unstarted(d) : o.asg = a.id},
             a.from < d => [a EXCEPT !.until = d - 1] \in asg',
             NEW o \in occ', Fresh(o)
      PROVE  \E b \in asg' : Asks(b, o)
  <2>1. o \in occ
    BY <1>4
  <2>2. PICK b \in asg : Asks(b, o)
    BY <1>4, <2>1 DEF Founded
  <2>3. CASE b # a
    BY <1>4, <2>2, <2>3
  <2>4. CASE b = a
    <3>1. o.date < d
      BY <1>0, <1>4, <2>1, <2>2, <2>4, Dates DEF Unstarted, Asks
    <3>2. a.from < d
      BY <1>0, <2>1, <2>2, <2>4, <3>1, Dates DEF Asks, Covers
    <3> QED BY <1>b, <1>4, <2>1, <2>2, <2>4, <3>1, <3>2
  <2> QED BY <2>3, <2>4
<1>5. ASSUME NEW d \in Days, NEW a \in asg, NEW plan \in Plans, UpdateAssignment(a, d, plan),
             NEW o \in occ', Fresh(o)
      PROVE  \E b \in asg' : Asks(b, o)
  <2>1. asg \ {a} \subseteq asg' /\ occ' = occ \ {u \in Unstarted(d) : u.asg = a.id}
    BY <1>5 DEF UpdateAssignment
  <2>2. a.from < d => [a EXCEPT !.until = d - 1] \in asg'
    <3>1. PICK rows \in Replacements(a, d, plan) : asg' = (asg \ {a}) \cup rows
      BY <1>5 DEF UpdateAssignment
    <3>2. a.from < d => [a EXCEPT !.until = d - 1] \in rows
      <4>1. a.from < d => a.from # d
        BY <1>0, Dates
      <4> QED BY <3>1, <4>1, Zenon DEF Replacements
    <3> QED BY <3>1, <3>2
  <2> QED BY <1>4, <1>5, <2>1, <2>2
<1>6. ASSUME NEW d \in Days, NEW a \in asg, DeactivateAssignment(a, d), NEW o \in occ', Fresh(o)
      PROVE  \E b \in asg' : Asks(b, o)
  <2>1. asg \ {a} \subseteq asg' /\ occ' = occ \ {u \in Unstarted(d) : u.asg = a.id}
    BY <1>6 DEF DeactivateAssignment
  <2>2. a.from < d => [a EXCEPT !.until = d - 1] \in asg'
    BY <1>0, <1>6, Dates DEF DeactivateAssignment, Ended
  <2> QED BY <1>4, <1>6, <2>1, <2>2
<1>7. ASSUME asg \subseteq asg', occ' \subseteq occ, NEW o \in occ', Fresh(o)
      PROVE  \E a \in asg' : Asks(a, o)
  BY <1>7 DEF Founded
<1>8. \/ \E p \in Pages : Ensure(p)
      \/ \E u \in occ : Submit(u)
      \/ \E d \in Days :
           \/ DeactivateHabit(d)
           \/ \E a \in asg, plan \in Plans : UpdateAssignment(a, d, plan)
           \/ \E a \in asg : DeactivateAssignment(a, d)
      \/ asg \subseteq asg' /\ occ' \subseteq occ
  BY DEF Next, Open, Abandon, Archive, UpdateHabit, Create
<1> HIDE DEF Fresh
<1> QED BY <1>1, <1>2, <1>3, <1>5, <1>6, <1>7, <1>8

-----------------------------------------------------------------------------
(* The theorems *)

LEMMA Invariance == Spec => []IInv
<1>1. Init => IInv
  BY TypeInit, TileInit, GenerationInit DEF IInv
<1>2. IInv /\ [Next]_vars => IInv'
  <2>1. ASSUME IInv, Next
        PROVE  IInv'
    <3>1. TypeOK' /\ EnsuringType' /\ VersionsTile'
      BY <2>1, TypeStep, TileStep DEF IInv
    <3>2. NoOverlap(asg')
      BY <2>1, OverlapStep DEF IInv
    <3>3. GenerationHolds' /\ HabitHolds'
      BY <2>1, GenerationStep, HabitStep DEF IInv
    <3> QED BY <3>1, <3>2, <3>3 DEF IInv, NoOverlap
  <2>2. ASSUME IInv, UNCHANGED vars
        PROVE  IInv'
    BY <2>2 DEF IInv, vars, TypeOK, EnsuringType, VersionsTile, NoOverlap, GenerationHolds,
                HabitHolds, Covers
  <2> QED BY <2>1, <2>2
<1> QED BY <1>1, <1>2, PTL DEF Spec

\* Every variable keeps its type (habits/service.go:177-612, :833-866).
THEOREM TypeCorrect == Spec => []TypeOK
<1>1. IInv => TypeOK
  BY DEF IInv
<1> QED BY <1>1, Invariance, PTL

\* Every date has exactly one presentation of the habit, after any changes at any
\* dates (habits/service.go:262-269).
THEOREM VersionsAlwaysTile == Spec => []VersionsTile
<1>1. IInv => VersionsTile
  BY DEF IInv
<1> QED BY <1>1, Invariance, PTL

\* What may still be done looks as the habit does, and the habit is in use, with
\* any number of pages opened meanwhile (habits/service.go:850, :271, :330).
THEOREM HabitAlwaysHolds == Spec => []HabitHolds
<1>1. IInv => HabitHolds
  BY DEF IInv
<1> QED BY <1>1, Invariance, PTL

\* What may still be done is what generating it now would make it, and a child's
\* day is offered once, unless its assignment changed under the generation's
\* snapshot (habits/service.go:833-866, :498-612).
THEOREM FreshIsAlwaysCurrent == Spec => []FreshIsCurrent
<1>1. Init => CInv
  BY DEF Init, CInv, IdsOnce, OccurrencesOnce, Founded
<1>2. IInv /\ CInv /\ [Next]_vars => CInv'
  <2>1. ASSUME IInv, CInv, Next
        PROVE  CInv'
    BY <2>1, IdsStep, OnceStep, FoundedStep DEF IInv, CInv
  <2>2. ASSUME CInv, UNCHANGED vars
        PROVE  CInv'
    BY <2>2 DEF CInv, vars, IdsOnce, OccurrencesOnce, Founded, Asks, Covers
  <2> QED BY <2>1, <2>2
<1>3. IInv /\ CInv => FreshIsCurrent
  BY CurrentFromParts DEF IInv
<1> QED BY <1>1, <1>2, <1>3, Invariance, PTL DEF Spec

\* No change of an assignment meets the exclusion constraint
\* (habits/service.go:524-544).
THEOREM SplitsNeverCollide == Spec => []SplitNeverCollides
<1>1. IInv => SplitNeverCollides
  BY SplitsCollideNever DEF IInv
<1> QED BY <1>1, Invariance, PTL

\* A child gains and loses days only by assignments and deactivations
\* (habits/service.go:395-612).
THEOREM DaysAlwaysChangeHands == Spec => DaysChangeHands
<1> DEFINE Step ==
      \A c \in Children, d \in Days :
        /\ (~ Assigned(c, d) /\ Assigned(c, d)') =>
             \E e \in Days :
               \/ \E kids \in SUBSET Children, plan \in Plans :
                    c \in kids /\ e <= d /\ Create(kids, e, plan)
               \/ \E a \in asg : a.until < d /\ d < e /\ DeactivateAssignment(a, e)
        /\ (Assigned(c, d) /\ ~ Assigned(c, d)') =>
             \E e \in 1 .. d :
               DeactivateHabit(e) \/ \E a \in asg : DeactivateAssignment(a, e)
<1>1. IInv /\ [Next]_vars => [Step]_vars
  BY DaysStep DEF IInv
<1>2. Spec => [][Step]_vars
  BY <1>1, Invariance, PTL DEF Spec
<1> QED BY <1>2 DEF DaysChangeHands

\* Nothing is generated for a child that was archived before the commit
\* (habits/service.go:839, children/service.go:153).
THEOREM NothingIsForArchived == Spec => NothingForArchived
<1>1. IInv /\ [Next]_vars => [\A o \in occ' \ occ : o.child \notin archived]_vars
  BY ArchivedStep DEF IInv
<1>2. Spec => [][\A o \in occ' \ occ : o.child \notin archived]_vars
  BY <1>1, Invariance, PTL DEF Spec
<1> QED BY <1>2 DEF NothingForArchived
=============================================================================
