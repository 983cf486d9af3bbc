-------------------------- MODULE LockOrder_proofs --------------------------
(***************************************************************************)
(* DeadlocksAreKnown, for any requests over any rows, served by any number  *)
(* of processes.                                                            *)
(*                                                                         *)
(* What a request holds and what it asks for are two locks of its script,   *)
(* in the order of the script.  Turns says which pairs of tables a handler  *)
(* may lock in which order and in which modes; Orderly proves it of every   *)
(* script, piece by piece.  Two requests that wait for each other take a    *)
(* pair of tables in opposite orders, and OpposedFall leaves the pairs of   *)
(* handlers that can.  Some of those still never meet: a lock both would    *)
(* have to hold keeps one of them out (Guarded, NotExcluded), because what  *)
(* two processes hold never clashes (NeverClash).                           *)
(***************************************************************************)
EXTENDS LockOrder, SequenceTheorems, TLAPS

-----------------------------------------------------------------------------
(* Lists *)

IsList(s) == s \in Seq(Range(s))

LEMMA JoinedLists ==
  ASSUME NEW s, NEW t, IsList(s), IsList(t)
  PROVE  /\ IsList(s \o t)
         /\ Range(s \o t) = Range(s) \cup Range(t)
         /\ Len(s) \in Nat /\ Len(t) \in Nat /\ Len(s \o t) = Len(s) + Len(t)
         /\ \A i \in 1 .. Len(s) : (s \o t)[i] = s[i]
         /\ \A i \in 1 .. Len(s \o t) : i > Len(s) =>
              i - Len(s) \in 1 .. Len(t) /\ (s \o t)[i] = t[i - Len(s)]
<1> DEFINE S == Range(s) \cup Range(t)
<1>1. s \in Seq(S) /\ t \in Seq(S)
  BY SeqMonotonic DEF IsList
<1>2. Range(s \o t) = S
  BY <1>1, RangeConcatenation
<1>3. /\ s \o t \in Seq(S) /\ Len(s) \in Nat /\ Len(t) \in Nat /\ Len(s \o t) = Len(s) + Len(t)
      /\ \A i \in 1 .. Len(s \o t) : (s \o t)[i] = IF i <= Len(s) THEN s[i] ELSE t[i - Len(s)]
  BY <1>1
<1> QED BY <1>2, <1>3 DEF IsList


\* What comes after a list has all of the list before it.
LEMMA Later ==
  ASSUME NEW s, NEW t, IsList(s), IsList(t), NEW j \in 1 .. Len(s \o t)
  PROVE  \/ j \in 1 .. Len(s) /\ (s \o t)[j] \in Range(s)
         \/ /\ (s \o t)[j] \in Range(t)
            /\ \A l \in Range(s) : \E i \in 1 .. Len(s \o t) : i < j /\ (s \o t)[i] = l
<1> DEFINE u == s \o t
<1>1. /\ Len(s) \in Nat /\ Len(t) \in Nat /\ Len(u) = Len(s) + Len(t)
      /\ \A i \in 1 .. Len(s) : u[i] = s[i]
      /\ \A i \in 1 .. Len(u) : i > Len(s) => i - Len(s) \in 1 .. Len(t) /\ u[i] = t[i - Len(s)]
  BY JoinedLists
<1>2. DOMAIN s = 1 .. Len(s) /\ DOMAIN t = 1 .. Len(t)
  BY DEF IsList
<1> HIDE DEF u
<1>3. CASE j \in 1 .. Len(s)
  BY <1>1, <1>2, <1>3 DEF Range, u
<1>4. CASE j > Len(s)
  <2>1. u[j] \in Range(t)
    BY <1>1, <1>2, <1>4 DEF Range, u
  <2>2. ASSUME NEW l \in Range(s)
        PROVE  \E i \in 1 .. Len(u) : i < j /\ u[i] = l
    <3>1. PICK i \in 1 .. Len(s) : s[i] = l
      BY <1>2 DEF Range
    <3> QED BY <1>1, <1>4, <3>1 DEF u
  <2> QED BY <2>1, <2>2 DEF u
<1> QED BY <1>1, <1>3, <1>4 DEF u

-----------------------------------------------------------------------------
(* What a request asks for while it holds what *)

Kind(l) == <<l.table, l.mode>>

Rank(table) ==
  CASE table = "idempotency_records" -> 1
    [] table = "families"            -> 2
    [] table = "sessions"            -> 3
    [] table = "one_off_tasks"       -> 4
    [] table = "habit_assignments"   -> 5
    [] table = "occurrences"         -> 6
    [] table = "habits"              -> 7
    [] table = "rewards"             -> 8
    [] table = "children"            -> 9
    [] table = "routine_groups"      -> 10
    [] OTHER                         -> 11

\* The pairs of tables that some handler locks against the order of Rank.
Falls ==
  {<<"sessions", "idempotency_records">>, <<"children", "idempotency_records">>,
   <<"families", "families">>, <<"sessions", "families">>, <<"children", "families">>,
   <<"habits", "families">>, <<"sessions", "sessions">>, <<"children", "sessions">>,
   <<"one_off_tasks", "one_off_tasks">>, <<"occurrences", "one_off_tasks">>,
   <<"routine_groups", "one_off_tasks">>, <<"habit_assignments", "habit_assignments">>,
   <<"occurrences", "habit_assignments">>, <<"habits", "habit_assignments">>,
   <<"children", "habit_assignments">>, <<"routine_groups", "habit_assignments">>,
   <<"occurrences", "occurrences">>, <<"habits", "occurrences">>,
   <<"children", "occurrences">>, <<"routine_groups", "occurrences">>,
   <<"habits", "habits">>, <<"children", "habits">>, <<"routine_groups", "habits">>,
   <<"children", "rewards">>, <<"children", "children">>, <<"routine_groups", "children">>,
   <<"routine_groups", "routine_groups">>}

\* A handler that holds a row of one table in mode m asks for one of another in
\* mode n: which handlers do that, and in which modes, for the pairs of tables that
\* are locked both ways.
Turns(op, held, m, wanted, n) ==
  LET From(t, u) == held = t /\ wanted = u
      Weak(mode) == mode \in {"key_share", "share"}
  IN /\ Rank(held) < Rank(wanted) \/ <<held, wanted>> \in Falls
     /\ held = "families" => Weak(m)
     /\ wanted = "families" =>
          \/ Weak(n)
          \/ /\ op \in {"PutPolicy", "SetRewards"}
             /\ held \in {"idempotency_records", "families", "sessions"}
             /\ held = "sessions" => m = "key_share"
     /\ From("families", "families") => m = "key_share"
     /\ From("families", "sessions") => n = "key_share"
     /\ From("sessions", "idempotency_records") =>
          op \in {"Submit", "Withdraw", "Approve", "Reject", "Reverse", "Correct"}
     /\ From("children", "idempotency_records") => op \in {"Submit", "Withdraw", "Redeem"}
     /\ From("idempotency_records", "children") => op # "Redeem"
     /\ From("sessions", "sessions") =>
          /\ n = "key_share"
          /\ m = "update" => op # "ArchiveChild"
     /\ From("children", "sessions") =>
          /\ op \in {"Submit", "Withdraw", "Redeem", "UpdateChild", "ArchiveChild", "Enter"}
          /\ n = "update" => op \in {"Submit", "Withdraw"}
          /\ n \in {"update", "no_key_update", "key_share"}
     /\ From("sessions", "children") =>
          \/ m = "update" /\ op \in {"Approve", "Reverse", "Correct"}
          \/ /\ m = "key_share"
             /\ op \in {"Approve", "Reverse", "Correct", "Decide", "CreateReward", "UpdateReward",
                        "CreateAssignment", "CreateAssignments", "UpdateAssignment",
                        "CreateTask", "ArchiveGroup"}
     /\ From("one_off_tasks", "one_off_tasks") => op = "ArchiveGroup"
     /\ From("occurrences", "one_off_tasks") => op = "ArchiveGroup"
     /\ From("one_off_tasks", "occurrences") => op \in {"UpdateTask", "CancelTask", "ArchiveGroup"}
     /\ From("routine_groups", "one_off_tasks") => op = "ArchiveGroup"
     /\ From("one_off_tasks", "routine_groups") => op \in {"UpdateTask", "ArchiveGroup"}
     /\ From("habit_assignments", "habit_assignments") =>
          \/ op \in {"ArchiveGroup", "DeactivateHabit"}
          \/ op = "EnsureDate" /\ m = "key_share" /\ n = "key_share"
     /\ From("occurrences", "habit_assignments") => op = "ArchiveGroup"
     /\ From("habit_assignments", "occurrences") =>
          op \in {"UpdateAssignment", "DeactivateAssignment", "DeactivateHabit", "ArchiveGroup"}
     /\ From("habits", "habit_assignments") => op = "DeactivateHabit" \/ m = "share"
     /\ From("habit_assignments", "habits") =>
          op \in {"UpdateAssignment", "ArchiveGroup"} /\ n = "key_share"
     /\ From("children", "habit_assignments") => m = "share"
     /\ From("habit_assignments", "children") => n = "key_share"
     /\ From("routine_groups", "habit_assignments") => op = "ArchiveGroup"
     /\ From("habit_assignments", "routine_groups") => op \in {"UpdateAssignment", "ArchiveGroup"}
     /\ From("occurrences", "occurrences") =>
          op \in {"UpdateHabit", "DeactivateHabit", "UpdateAssignment", "DeactivateAssignment",
                  "ArchiveGroup"}
     /\ From("habits", "occurrences") => op \in {"UpdateHabit", "DeactivateHabit", "ArchiveGroup"}
     /\ From("occurrences", "habits") => op \in {"UpdateAssignment", "ArchiveGroup"}
     /\ From("children", "occurrences") => op \in {"Submit", "Withdraw", "ArchiveGroup"}
     /\ From("occurrences", "children") =>
          op \in {"Approve", "Reverse", "UpdateAssignment", "ArchiveGroup"}
     /\ From("routine_groups", "occurrences") => op = "ArchiveGroup"
     /\ From("occurrences", "routine_groups") =>
          op \in {"UpdateTask", "UpdateAssignment", "ArchiveGroup"}
     /\ From("habits", "habits") => Weak(m) /\ Weak(n)
     /\ From("children", "habits") => op = "ArchiveGroup" \/ (op = "EnsureDate" /\ m = "share")
     /\ From("habits", "children") =>
          \/ op \in {"UpdateAssignment", "ArchiveGroup"} /\ n = "key_share"
          \/ op \in {"CreateAssignment", "CreateAssignments"}
     /\ From("routine_groups", "habits") => op = "ArchiveGroup"
     /\ From("habits", "routine_groups") =>
          op \in {"CreateAssignment", "CreateAssignments", "UpdateAssignment", "ArchiveGroup"}
     /\ From("children", "rewards") => op = "Redeem"
     /\ From("rewards", "children") => op = "UpdateReward"
     /\ From("children", "children") =>
          \/ /\ op \in {"CreateReward", "UpdateReward", "ArchiveGroup"}
             /\ m = "key_share" /\ n = "key_share"
          \/ /\ op \in {"CreateAssignments", "ParentProgress"}
             /\ m = "update" /\ n = "update"
          \/ op = "EnsureDate" /\ m = "share" /\ n = "share"
     /\ From("routine_groups", "children") => op = "ArchiveGroup" /\ n = "key_share"
     /\ From("children", "routine_groups") /\ m = "update" =>
          op \in {"CreateAssignment", "CreateAssignments"}
     /\ From("routine_groups", "routine_groups") =>
          \/ op = "ArchiveGroup"
          \/ op = "ReorderGroups" /\ m = "no_key_update" /\ n = "no_key_update"
          \/ op = "CreateAssignments" /\ m = "key_share" /\ n = "key_share"

Orders(op, x, y) == Turns(op, x.table, x.mode, y.table, y.mode)

\* The rows a request locks are those it is about.
Own(r, l) ==
  /\ l.row[1] = l.table
  /\ l.table = "idempotency_records" =>
       l.mode = "update" /\ l.row = <<l.table, <<r.session, r.key>>>>
  /\ l.table = "sessions" => \E id \in SessionsOf(r) : l.row = <<l.table, id>>
  /\ (l.table = "habit_assignments" /\ r.op = "DeactivateHabit") =>
       /\ l.mode \in {"no_key_update", "update"}
       /\ \E a : l.row = <<l.table, a>> /\ HabitOf[a] = r.habit
  /\ l.table = "occurrences" =>
       /\ r.op \in {"UpdateHabit", "DeactivateHabit", "UpdateAssignment", "DeactivateAssignment"} =>
            /\ l.mode = "update"
            /\ \E i \in DOMAIN r.habitOccurrences : l.row = <<l.table, r.habitOccurrences[i]>>
       /\ r.op = "ArchiveGroup" =>
            \/ \E i \in DOMAIN r.taskOccurrences : l.row = <<l.table, r.taskOccurrences[i]>>
            \/ /\ l.mode = "update"
               /\ \E i \in DOMAIN r.moves : l.row = <<l.table, r.moves[i].occurrence>>

\* A part of the script of r, with locks of the kinds of K.
Within(r, s, K) ==
  /\ IsList(s)
  /\ \A i \in 1 .. Len(s) : Own(r, s[i]) /\ (s[i].mode # "read" => Kind(s[i]) \in K)
  /\ \A i, j \in 1 .. Len(s) :
       (i < j /\ s[i].mode # "read" /\ s[j].mode # "read") => Orders(r.op, s[i], s[j])

Leads(op, K, L) ==
  \A t, m, u, n : (<<t, m>> \in K /\ <<u, n>> \in L) => Turns(op, t, m, u, n)

\* A script is taken apart where it is put together.
LEMMA Joined ==
  ASSUME NEW r, NEW s, NEW t, NEW K, NEW L,
         Within(r, s, K), Within(r, t, L), Leads(r.op, K, L)
  PROVE  Within(r, s \o t, K \cup L)
<1> DEFINE u == s \o t
<1>1. /\ IsList(u) /\ Len(s) \in Nat /\ Len(t) \in Nat /\ Len(u) = Len(s) + Len(t)
      /\ \A i \in 1 .. Len(s) : u[i] = s[i]
      /\ \A i \in 1 .. Len(u) : i > Len(s) => i - Len(s) \in 1 .. Len(t) /\ u[i] = t[i - Len(s)]
  BY JoinedLists DEF Within
<1> HIDE DEF u
<1>2. \A i \in 1 .. Len(u) : i \in 1 .. Len(s) \/ i > Len(s)
  BY <1>1
<1>3. \A i \in 1 .. Len(u) : Own(r, u[i]) /\ (u[i].mode # "read" => Kind(u[i]) \in K \cup L)
  BY <1>1, <1>2 DEF Within
<1>4. ASSUME NEW i \in 1 .. Len(u), NEW j \in 1 .. Len(u), i < j,
             u[i].mode # "read", u[j].mode # "read"
      PROVE  Orders(r.op, u[i], u[j])
  <2>1. CASE j \in 1 .. Len(s)
    <3>1. i \in 1 .. Len(s)
      BY <1>1, <1>4, <2>1
    <3> QED BY <1>1, <1>4, <2>1, <3>1 DEF Within
  <2>2. CASE i \in 1 .. Len(s) /\ j > Len(s)
    <3>1. Kind(u[i]) \in K /\ Kind(u[j]) \in L
      BY <1>1, <1>4, <2>2 DEF Within
    <3> QED BY <3>1 DEF Leads, Orders, Kind
  <2>3. CASE i > Len(s) /\ j > Len(s)
    <3>1. i - Len(s) < j - Len(s)
      BY <1>1, <1>4
    <3> QED BY <1>1, <1>4, <2>3, <3>1 DEF Within
  <2> QED BY <1>1, <1>2, <1>4, <2>1, <2>2, <2>3
<1> QED BY <1>1, <1>3, <1>4 DEF Within, u

\* One lock, two, three; the rows of a table.
LEMMA One ==
  ASSUME NEW r, NEW a, Own(r, a)
  PROVE  Within(r, <<a>>, {Kind(a)})
BY DEF Within, IsList, Range

LEMMA Two ==
  ASSUME NEW r, NEW a, NEW b, Own(r, a), Own(r, b), Orders(r.op, a, b)
  PROVE  Within(r, <<a, b>>, {Kind(a), Kind(b)})
BY DEF Within, IsList, Range

LEMMA Three ==
  ASSUME NEW r, NEW a, NEW b, NEW c, Own(r, a), Own(r, b), Own(r, c),
         Orders(r.op, a, b), Orders(r.op, a, c), Orders(r.op, b, c)
  PROVE  Within(r, <<a, b, c>>, {Kind(a), Kind(b), Kind(c)})
BY DEF Within, IsList, Range

LEMMA Many ==
  ASSUME NEW r, NEW table, NEW ids, NEW S, ids \in Seq(S), NEW mode,
         Turns(r.op, table, mode, table, mode),
         \A i \in DOMAIN ids : Own(r, Take(table, ids[i], mode))
  PROVE  Within(r, Each(table, ids, mode), {<<table, mode>>})
<1> DEFINE s == Each(table, ids, mode)
<1>1. /\ DOMAIN ids = 1 .. Len(ids) /\ Len(ids) \in Nat
      /\ DOMAIN s = DOMAIN ids /\ s = [i \in DOMAIN ids |-> Take(table, ids[i], mode)]
  BY DEF Each
<1>2. \A i \in DOMAIN ids : s[i].table = table /\ s[i].mode = mode /\ Own(r, s[i])
  BY <1>1 DEF Take
<1> HIDE DEF s
<1>3. \A i \in 1 .. Len(ids) : s[i] \in Range(s)
  BY <1>1 DEF Range
<1>4. IsList(s) /\ Len(s) = Len(ids)
  BY <1>1, <1>3, IsASeq DEF IsList
<1>5. \A i \in 1 .. Len(s) : s[i].table = table /\ s[i].mode = mode /\ Own(r, s[i])
  BY <1>1, <1>2, <1>4
<1>6. \A i, j \in 1 .. Len(s) : Orders(r.op, s[i], s[j])
  BY <1>5 DEF Orders
<1> QED BY <1>4, <1>5, <1>6 DEF Within, Kind, s

\* The next statement of a script, and the next rows.
LEMMA Then ==
  ASSUME NEW r, NEW s, NEW K, NEW table, NEW id, NEW mode, Within(r, s, K),
         Leads(r.op, K, {<<table, mode>>}), Own(r, Take(table, id, mode))
  PROVE  Within(r, s \o <<Take(table, id, mode)>>, K \cup {<<table, mode>>})
<1>1. Kind(Take(table, id, mode)) = <<table, mode>>
  BY DEF Kind, Take
<1>2. Within(r, <<Take(table, id, mode)>>, {<<table, mode>>})
  BY <1>1, One
<1> QED BY <1>2, Joined

LEMMA ThenEach ==
  ASSUME NEW r, NEW s, NEW K, NEW table, NEW ids, NEW S, ids \in Seq(S), NEW mode,
         Within(r, s, K), Leads(r.op, K \cup {<<table, mode>>}, {<<table, mode>>}),
         \A i \in DOMAIN ids : Own(r, Take(table, ids[i], mode))
  PROVE  Within(r, s \o Each(table, ids, mode), K \cup {<<table, mode>>})
<1>1. Turns(r.op, table, mode, table, mode) /\ Leads(r.op, K, {<<table, mode>>})
  BY DEF Leads
<1>2. Within(r, Each(table, ids, mode), {<<table, mode>>})
  BY <1>1, Many
<1> QED BY <1>1, <1>2, Joined

\* Only the rows that Own names have to be shown to be the request's own.
LEMMA Plain ==
  ASSUME NEW r, NEW table, NEW id, NEW mode,
         table \notin {"idempotency_records", "sessions", "occurrences"},
         table = "habit_assignments" => r.op # "DeactivateHabit"
  PROVE  Own(r, Take(table, id, mode))
BY DEF Own, Take

LEMMA PlainSession ==
  ASSUME NEW r, NEW mode
  PROVE  Own(r, Session(r, mode))
BY DEF Own, Session, Take, SessionsOf

Begun ==
  {<<"idempotency_records", "update">>, <<"families", "key_share">>, <<"sessions", "key_share">>}

Closing == {<<"families", "key_share">>, <<"sessions", "key_share">>}

\* The beginnings of scripts.
LEMMA Beginnings ==
  ASSUME NEW r
  PROVE  /\ Within(r, Look(r), {})
         /\ Within(r, Reserve(r), Begun)
         /\ Within(r, Look(r) \o Reserve(r), Begun)
         /\ Within(r, Audit(r), Closing)
         /\ Within(r, ReadBalance, {})
<1>1. Within(r, Look(r), {})
  <2>1. Session(r, "read").mode = "read" /\ Own(r, Session(r, "read"))
    BY PlainSession DEF Session, Take
  <2> QED BY <2>1 DEF Within, IsList, Range, Look
<1>2. Within(r, Reserve(r), Begun) /\ Within(r, Audit(r), Closing)
  <2> DEFINE a == Take("idempotency_records", <<r.session, r.key>>, "update")
             b == Family("key_share")
             c == Session(r, "key_share")
  <2>1. /\ Kind(a) = <<"idempotency_records", "update">>
        /\ Kind(b) = <<"families", "key_share">> /\ Kind(c) = <<"sessions", "key_share">>
    BY DEF Kind, Take, Family, Session
  <2>2. Own(r, a) /\ Own(r, b) /\ Own(r, c)
    <3>1. Own(r, a)
      BY DEF Own, Take
    <3> QED BY <3>1, PlainSession, Plain DEF Family
  <2>3. Orders(r.op, a, b) /\ Orders(r.op, a, c) /\ Orders(r.op, b, c)
    BY DEF Orders, Turns, Rank, Take, Family, Session
  <2> HIDE DEF a, b, c
  <2>4. /\ Within(r, <<a, b, c>>, {Kind(a), Kind(b), Kind(c)})
        /\ Within(r, <<b, c>>, {Kind(b), Kind(c)})
    BY <2>2, <2>3, Two, Three
  <2> QED BY <2>1, <2>4 DEF Reserve, Audit, Begun, Closing, a, b, c
<1>3. Within(r, Look(r) \o Reserve(r), Begun)
  <2>1. Leads(r.op, {}, Begun)
    BY DEF Leads
  <2> QED BY <1>1, <1>2, <2>1, Joined
<1>4. Within(r, ReadBalance, {})
  <2>1. /\ Take("point_ledger", "sum", "read").mode = "read"
        /\ Own(r, Take("point_ledger", "sum", "read"))
    BY Plain DEF Take
  <2> QED BY <2>1 DEF Within, IsList, Range, ReadBalance
<1> QED BY <1>1, <1>2, <1>3, <1>4

LEMMA ParentBeginning ==
  ASSUME NEW r, r.op \in {"Approve", "Reject", "Reverse", "Correct"}
  PROVE  Within(r, LockParent(r) \o Reserve(r), {<<"sessions", "update">>} \cup Begun)
<1>1. Within(r, LockParent(r), {<<"sessions", "update">>})
  BY One, PlainSession DEF LockParent, Kind, Session, Take
<1>2. Leads(r.op, {<<"sessions", "update">>}, Begun)
  BY DEF Leads, Turns, Rank, Falls, Begun
<1> QED BY <1>1, <1>2, Beginnings, Joined

LEMMA ChildBeginning ==
  ASSUME NEW r, r.op \in {"Submit", "Withdraw"}
  PROVE  Within(r, LockChildActor(r) \o Reserve(r),
                {<<"children", "update">>, <<"sessions", "update">>} \cup Begun)
<1>1. Within(r, LockChildActor(r), {<<"children", "update">>, <<"sessions", "update">>})
  <2>1. /\ Kind(Child(r.child, "update")) = <<"children", "update">>
        /\ Kind(Session(r, "update")) = <<"sessions", "update">>
    BY DEF Kind, Child, Session, Take
  <2>2. Orders(r.op, Child(r.child, "update"), Session(r, "update"))
    BY DEF Orders, Turns, Rank, Falls, Child, Session, Take
  <2>3. Own(r, Child(r.child, "update")) /\ Own(r, Session(r, "update"))
    BY Plain, PlainSession DEF Child
  <2> QED BY <2>1, <2>2, <2>3, Two DEF LockChildActor
<1>2. Leads(r.op, {<<"children", "update">>, <<"sessions", "update">>}, Begun)
  BY DEF Leads, Turns, Rank, Falls, Begun
<1> QED BY <1>1, <1>2, Beginnings, Joined

Orderly(r, s) == \E K : Within(r, s, K)

LEMMA SubmitOrder ==
  ASSUME NEW r, r.op \in {"Submit", "Withdraw"}
  PROVE  Orderly(r, SubmitScript(r)) /\ Orderly(r, WithdrawScript(r))
<1> DEFINE K0 == {<<"children", "update">>, <<"sessions", "update">>} \cup Begun
<1>1. Leads(r.op, K0, {<<"occurrences", "update">>})
  BY DEF Leads, Turns, Rank, Falls, Begun
<1>2. Own(r, Occurrence(r.occurrence, "update"))
  BY DEF Own, Take, Occurrence
<1>3. Within(r, SubmitScript(r), K0 \cup {<<"occurrences", "update">>})
  BY ChildBeginning, <1>1, <1>2, Then DEF Occurrence, SubmitScript
<1> QED BY <1>3 DEF Orderly, WithdrawScript

LEMMA ReviewOrder ==
  ASSUME NEW r
  PROVE  /\ r.op = "Reject" => Orderly(r, RejectScript(r))
         /\ r.op = "Approve" => Orderly(r, ApproveScript(r))
         /\ r.op = "Reverse" => Orderly(r, ReverseScript(r))
<1> SUFFICES ASSUME r.op \in {"Reject", "Approve", "Reverse"}
             PROVE  /\ Orderly(r, RejectScript(r))
                    /\ r.op # "Reject" =>
                         Orderly(r, ApproveScript(r)) /\ Orderly(r, ReverseScript(r))
  OBVIOUS
<1> DEFINE K0 == {<<"sessions", "update">>} \cup Begun
           K1 == K0 \cup {<<"occurrences", "update">>}
           K2 == K1 \cup {<<"children", "update">>}
<1>1. /\ Leads(r.op, K0, {<<"occurrences", "update">>})
      /\ r.op # "Reject" => Leads(r.op, K1, {<<"children", "update">>})
      /\ Leads(r.op, K2, {})
  BY DEF Leads, Turns, Rank, Falls, Begun
<1>2. Own(r, Occurrence(r.occurrence, "update")) /\ Own(r, Child(r.child, "update"))
  BY DEF Own, Take, Occurrence, Child
<1>3. Within(r, RejectScript(r), K1)
  <2>1. Within(r, LockParent(r) \o Reserve(r), K0)
    BY ParentBeginning
  <2> QED BY <2>1, <1>1, <1>2, Then DEF Occurrence, RejectScript
<1>4. ASSUME r.op # "Reject"
      PROVE  Within(r, ApproveScript(r), K2) /\ Within(r, ReverseScript(r), K2 \cup {})
  <2>1. Within(r, ApproveScript(r), K2)
    BY <1>1, <1>2, <1>3, <1>4, Then DEF Child, ApproveScript
  <2> QED BY <1>1, <2>1, Beginnings, Joined DEF ReverseScript
<1> QED BY <1>3, <1>4 DEF Orderly

LEMMA CorrectOrder ==
  ASSUME NEW r, r.op = "Correct"
  PROVE  Orderly(r, CorrectScript(r))
<1> DEFINE K1 == {<<"sessions", "update">>} \cup Begun \cup {<<"children", "update">>}
<1>1. Leads(r.op, {<<"sessions", "update">>} \cup Begun, {<<"children", "update">>})
  BY DEF Leads, Turns, Rank, Falls, Begun, Closing
<1>2. Own(r, Child(r.child, "update"))
  BY DEF Own, Take, Child
<1>3. Within(r, CorrectScript(r), K1)
  BY ParentBeginning, <1>1, Then, <1>2 DEF Child, CorrectScript
<1> QED BY <1>3 DEF Orderly

LEMMA TaskOrder ==
  ASSUME NEW r
  PROVE  /\ r.op = "CancelTask" => Orderly(r, CancelTaskScript(r))
         /\ r.op = "UpdateTask" => Orderly(r, UpdateTaskScript(r))
<1> SUFFICES ASSUME r.op \in {"CancelTask", "UpdateTask"}
             PROVE  /\ Orderly(r, CancelTaskScript(r))
                    /\ r.op = "UpdateTask" => Orderly(r, UpdateTaskScript(r))
  OBVIOUS
<1> DEFINE K1 == {<<"one_off_tasks", "update">>, <<"occurrences", "update">>}
           seen == <<Take("completion_attempts", r.taskOccurrence, "read")>>
<1>1. /\ Leads(r.op, Begun, K1) /\ Leads(r.op, Begun, {}) /\ Leads(r.op, Begun \cup {}, K1)
      /\ r.op = "UpdateTask" =>
               Leads(r.op, Begun \cup {} \cup K1, {<<"routine_groups", "key_share">>})
  BY DEF Leads, Turns, Rank, Falls, Begun
<1>2. Within(r, TaskLocks(r), K1)
  <2> DEFINE a == ForUpdate("one_off_tasks", r.task)
             b == ForUpdate("occurrences", r.taskOccurrence)
  <2>1. Kind(a) = <<"one_off_tasks", "update">> /\ Kind(b) = <<"occurrences", "update">>
    BY DEF Kind, ForUpdate, Take
  <2>2. Own(r, a) /\ Own(r, b) /\ Orders(r.op, a, b)
    BY DEF Own, ForUpdate, Take, Orders, Turns, Rank, Falls
  <2> QED BY <2>1, <2>2, Two DEF TaskLocks
<1>3. Within(r, CancelTaskScript(r), Begun \cup K1)
  BY <1>1, <1>2, Beginnings, Joined DEF CancelTaskScript
<1>4. ASSUME r.op = "UpdateTask"
      PROVE  Within(r, UpdateTaskScript(r), Begun \cup {} \cup K1
               \cup {<<"routine_groups", "key_share">>})
  <2>1. Within(r, seen, {})
    <3> DEFINE a == Take("completion_attempts", r.taskOccurrence, "read")
    <3>1. a.mode = "read" /\ Own(r, a)
      BY Plain DEF Take
    <3> QED BY <3>1 DEF Within, IsList, Range
  <2>2. Within(r, Look(r) \o Reserve(r) \o seen, Begun \cup {})
    BY <1>1, <2>1, Beginnings, Joined
  <2>3. Within(r, Look(r) \o Reserve(r) \o seen \o TaskLocks(r), Begun \cup {} \cup K1)
    BY <1>1, <1>2, <2>2, Joined
  <2> QED BY <1>1, <1>4, <2>3, Plain, Then DEF UpdateTaskScript, Referenced
<1> QED BY <1>3, <1>4 DEF Orderly

LEMMA RedeemOrder ==
  ASSUME NEW r, r.op = "Redeem"
  PROVE  Orderly(r, RedeemScript(r))
<1> DEFINE K1 == {} \cup {<<"children", "update">>}
           K2 == K1 \cup Begun
           K3 == K2 \cup {<<"families", "share">>, <<"rewards", "update">>}
           K4 == K3 \cup {}
           s1 == Look(r) \o <<Child(r.child, "update")>>
           s2 == s1 \o Reserve(r)
           s3 == s2 \o <<Family("share"), Take("rewards", r.reward, "update")>>
<1>1. /\ Leads(r.op, {}, {<<"children", "update">>})
      /\ Leads(r.op, K1, Begun)
      /\ Leads(r.op, K2, {<<"families", "share">>, <<"rewards", "update">>})
      /\ Leads(r.op, K3, {})
  BY DEF Leads, Turns, Rank, Falls, Begun, Closing
<1>2. Within(r, s1, K1)
  BY Beginnings, <1>1, Then, Plain DEF Child
<1>3. Within(r, s2, K2)
  BY <1>2, <1>1, Beginnings, Joined
<1>4. Within(r, <<Family("share"), Take("rewards", r.reward, "update")>>,
                {<<"families", "share">>, <<"rewards", "update">>})
  <2>1. /\ Kind(Family("share")) = <<"families", "share">>
        /\ Kind(Take("rewards", r.reward, "update")) = <<"rewards", "update">>
    BY DEF Kind, Family, Take
  <2>2. /\ Own(r, Family("share"))
        /\ Own(r, Take("rewards", r.reward, "update"))
    BY Plain, PlainSession DEF Family
  <2>3. Orders(r.op, Family("share"), Take("rewards", r.reward, "update"))
    BY DEF Orders, Turns, Rank, Falls, Family, Take
  <2> QED BY <2>1, <2>2, <2>3, Two
<1>5. Within(r, s3, K3)
  BY <1>3, <1>1, <1>4, Joined
<1>6. Within(r, RedeemScript(r), K4)
  BY <1>5, <1>1, Beginnings, Joined DEF RedeemScript
<1> QED BY <1>6 DEF Orderly

LEMMA DecideOrder ==
  ASSUME NEW r, r.op = "Decide"
  PROVE  Orderly(r, DecideScript(r))
<1> DEFINE K1 == Begun \cup {<<"children", "update">>, <<"reward_redemptions", "update">>}
<1>1. Leads(r.op, Begun, {<<"children", "update">>, <<"reward_redemptions", "update">>})
  BY DEF Leads, Turns, Rank, Falls, Begun, Closing
<1>2. Within(r, <<Child(r.child, "update"), Take("reward_redemptions", r.redemption, "update")>>,
                {<<"children", "update">>, <<"reward_redemptions", "update">>})
  <2>1. /\ Kind(Child(r.child, "update")) = <<"children", "update">>
        /\ Kind(Take("reward_redemptions", r.redemption, "update")) =
                 <<"reward_redemptions", "update">>
    BY DEF Kind, Child, Take
  <2>2. /\ Own(r, Child(r.child, "update"))
        /\ Own(r, Take("reward_redemptions", r.redemption, "update"))
    BY Plain, PlainSession DEF Child
  <2>3. Orders(r.op, Child(r.child, "update"), Take("reward_redemptions", r.redemption, "update"))
    BY DEF Orders, Turns, Rank, Falls, Child, Take
  <2> QED BY <2>1, <2>2, <2>3, Two
<1>3. Within(r, DecideScript(r), K1)
  BY Beginnings, <1>1, <1>2, Joined DEF DecideScript
<1> QED BY <1>3 DEF Orderly

LEMMA CreateRewardOrder ==
  ASSUME NEW r, r.op = "CreateReward", Described(r)
  PROVE  Orderly(r, CreateRewardScript(r))
<1> DEFINE K1 == Begun \cup {<<"children", "key_share">>}
<1>1. Leads(r.op, K1, {<<"children", "key_share">>})
  BY DEF Leads, Turns, Rank, Falls, Begun, Closing
<1>2. r.children \in Seq(Rows)
  BY DEF Described, Lists
<1>3. \A i \in DOMAIN r.children : Own(r, Take("children", r.children[i], "key_share"))
  BY DEF Own, Take
<1>4. Within(r, CreateRewardScript(r), K1)
  BY Beginnings, <1>1, <1>2, <1>3, ThenEach DEF CreateRewardScript
<1> QED BY <1>4 DEF Orderly

LEMMA ArchiveRewardOrder ==
  ASSUME NEW r, r.op = "ArchiveReward"
  PROVE  Orderly(r, ArchiveRewardScript(r))
<1> DEFINE K1 == Begun \cup {<<"rewards", "update">>}
<1>1. Leads(r.op, Begun, {<<"rewards", "update">>})
  BY DEF Leads, Turns, Rank, Falls, Begun, Closing
<1>2. Within(r, ArchiveRewardScript(r), K1)
  BY Beginnings, <1>1, Then, Plain DEF ArchiveRewardScript
<1> QED BY <1>2 DEF Orderly

LEMMA UpdateRewardOrder ==
  ASSUME NEW r, r.op = "UpdateReward", Described(r)
  PROVE  Orderly(r, UpdateRewardScript(r))
<1> DEFINE K1 == Begun \cup {<<"rewards", "update">>}
           K2 == K1 \cup {<<"children", "key_share">>}
           s1 == Look(r) \o Reserve(r) \o <<Take("rewards", r.reward, "update")>>
<1>1. /\ Leads(r.op, Begun, {<<"rewards", "update">>})
      /\ Leads(r.op, K2, {<<"children", "key_share">>})
  BY DEF Leads, Turns, Rank, Falls, Begun, Closing
<1>2. r.children \in Seq(Rows)
  BY DEF Described, Lists
<1>3. \A i \in DOMAIN r.children : Own(r, Take("children", r.children[i], "key_share"))
  BY DEF Own, Take
<1>4. Within(r, s1, K1)
  BY Beginnings, <1>1, Then, Plain
<1>5. Within(r, UpdateRewardScript(r), K2)
  BY <1>4, <1>1, <1>2, <1>3, ThenEach DEF UpdateRewardScript, ArchiveRewardScript
<1> QED BY <1>5 DEF Orderly

LEMMA PutPolicyOrder ==
  ASSUME NEW r, r.op \in {"PutPolicy", "SetRewards"}
  PROVE  Orderly(r, PutPolicyScript(r)) /\ Orderly(r, SetRewardsScript(r))
<1> DEFINE K1 == Begun \cup {<<"families", "update">>}
<1>1. Leads(r.op, Begun, {<<"families", "update">>})
  BY DEF Leads, Turns, Rank, Falls, Begun, Closing
<1>2. Within(r, PutPolicyScript(r), K1)
  BY Beginnings, <1>1, Then, Plain DEF Family, PutPolicyScript
<1> QED BY <1>2 DEF Orderly, SetRewardsScript

LEMMA ChildEligibilityOrder ==
  ASSUME NEW r, r.op = "ChildEligibility"
  PROVE  Orderly(r, ChildEligibilityScript(r))
<1> DEFINE K1 == {} \cup {<<"children", "update">>}
<1>1. Leads(r.op, {}, {<<"children", "update">>})
  BY DEF Leads, Turns, Rank, Falls, Begun, Closing
<1>2. Within(r, ChildEligibilityScript(r), K1)
  BY Beginnings, <1>1, Then, Plain DEF Child, ChildEligibilityScript
<1> QED BY <1>2 DEF Orderly

LEMMA ParentProgressOrder ==
  ASSUME NEW r, r.op = "ParentProgress", Described(r)
  PROVE  Orderly(r, ParentProgressScript(r))
<1> DEFINE K1 == {} \cup {<<"children", "update">>}
<1>1. Leads(r.op, K1, {<<"children", "update">>})
  BY DEF Leads, Turns, Rank, Falls, Begun, Closing
<1>2. r.children \in Seq(Rows)
  BY DEF Described, Lists
<1>3. \A i \in DOMAIN r.children : Own(r, Take("children", r.children[i], "update"))
  BY DEF Own, Take
<1>4. Within(r, ParentProgressScript(r), K1)
  BY Beginnings, <1>1, <1>2, <1>3, ThenEach DEF ParentProgressScript
<1> QED BY <1>4 DEF Orderly

LEMMA EnsureDateOrder ==
  ASSUME NEW r, r.op = "EnsureDate", Described(r)
  PROVE  Orderly(r, EnsureDateScript(r))
<1> DEFINE K1 == {<<"children", "share">>}
           K2 == K1 \cup {<<"habits", "share">>}
           K3 == K2 \cup {<<"families", "key_share">>}
           K4 == K3 \cup {<<"habit_assignments", "key_share">>}
           s1 == Each("children", r.children, "share")
           s2 == s1 \o Each("habits", r.habits, "share")
           s3 == s2 \o <<Family("key_share")>>
<1>1. /\ Turns(r.op, "children", "share", "children", "share")
      /\ Leads(r.op, K2, {<<"habits", "share">>})
      /\ Leads(r.op, K2, {<<"families", "key_share">>})
      /\ Leads(r.op, K4, {<<"habit_assignments", "key_share">>})
  BY DEF Leads, Turns, Rank, Falls, Begun, Closing
<1>2. r.children \in Seq(Rows) /\ r.habits \in Seq(Rows) /\ r.assignments \in Seq(Rows)
  BY DEF Described, Lists
<1>3. /\ \A i \in DOMAIN r.children : Own(r, Take("children", r.children[i], "share"))
      /\ \A i \in DOMAIN r.habits : Own(r, Take("habits", r.habits[i], "share"))
      /\ \A i \in DOMAIN r.assignments :
               Own(r, Take("habit_assignments", r.assignments[i], "key_share"))
  BY DEF Own, Take
<1>4. Within(r, s1, K1)
  BY <1>1, <1>2, <1>3, Many
<1>5. Within(r, s2, K2)
  BY <1>4, <1>1, <1>2, <1>3, ThenEach
<1>6. Within(r, s3, K3)
  BY <1>5, <1>1, Then, Plain DEF Family
<1>7. Within(r, EnsureDateScript(r), K4)
  BY <1>6, <1>1, <1>2, <1>3, ThenEach DEF EnsureDateScript
<1> QED BY <1>7 DEF Orderly

LEMMA UpdateHabitOrder ==
  ASSUME NEW r, r.op = "UpdateHabit", Described(r)
  PROVE  Orderly(r, UpdateHabitScript(r))
<1> DEFINE K1 == Begun \cup {<<"habits", "update">>}
           K2 == K1 \cup {<<"occurrences", "update">>}
           s1 == Look(r) \o Reserve(r) \o <<ForUpdate("habits", r.habit)>>
<1>1. /\ Leads(r.op, Begun, {<<"habits", "update">>})
      /\ Leads(r.op, K2, {<<"occurrences", "update">>})
  BY DEF Leads, Turns, Rank, Falls, Begun, Closing
<1>2. r.habitOccurrences \in Seq(Rows)
  BY DEF Described, Lists
<1>3. \A i \in DOMAIN r.habitOccurrences :
          Own(r, Take("occurrences", r.habitOccurrences[i], "update"))
  BY DEF Own, Take
<1>4. Within(r, s1, K1)
  BY Beginnings, <1>1, Then, Plain DEF ForUpdate
<1>5. Within(r, UpdateHabitScript(r), K2)
  BY <1>4, <1>1, <1>2, <1>3, ThenEach DEF UpdateHabitScript
<1> QED BY <1>5 DEF Orderly

LEMMA DeactivateHabitOrder ==
  ASSUME NEW r, r.op = "DeactivateHabit", Described(r)
  PROVE  Orderly(r, DeactivateHabitScript(r))
<1> DEFINE K1 == Begun \cup {<<"habits", "update">>}
           K2 == K1 \cup {<<"habit_assignments", "no_key_update">>}
           K3 == K2 \cup {<<"habit_assignments", "update">>}
           K4 == K3 \cup {<<"occurrences", "update">>}
           s1 == Look(r) \o Reserve(r) \o <<ForUpdate("habits", r.habit)>>
           s2 == s1 \o Each("habit_assignments", r.assignments, "no_key_update")
           s3 == s2 \o Each("habit_assignments", r.unused, "update")
<1>1. /\ Leads(r.op, Begun, {<<"habits", "update">>})
      /\ Leads(r.op, K2, {<<"habit_assignments", "no_key_update">>})
      /\ Leads(r.op, K3, {<<"habit_assignments", "update">>})
      /\ Leads(r.op, K4, {<<"occurrences", "update">>})
  BY DEF Leads, Turns, Rank, Falls, Begun, Closing
<1>2. r.assignments \in Seq(Rows) /\ r.unused \in Seq(Rows) /\ r.habitOccurrences \in Seq(Rows)
  BY DEF Described, Lists
<1>3. /\ \A i \in DOMAIN r.assignments : HabitOf[r.assignments[i]] = r.habit
      /\ \A i \in DOMAIN r.unused : HabitOf[r.unused[i]] = r.habit
  BY DEF Described
<1>4. /\ \A i \in DOMAIN r.assignments :
           Own(r, Take("habit_assignments", r.assignments[i], "no_key_update"))
      /\ \A i \in DOMAIN r.unused :
           Own(r, Take("habit_assignments", r.unused[i], "update"))
      /\ \A i \in DOMAIN r.habitOccurrences :
           Own(r, Take("occurrences", r.habitOccurrences[i], "update"))
  BY <1>3 DEF Own, Take
<1>5. Within(r, s1, K1)
  BY Beginnings, <1>1, Then, Plain DEF ForUpdate
<1>6. Within(r, s2, K2)
  BY <1>5, <1>1, <1>2, <1>4, ThenEach
<1>7. Within(r, s3, K3)
  BY <1>6, <1>1, <1>2, <1>4, ThenEach
<1>8. Within(r, DeactivateHabitScript(r), K4)
  BY <1>7, <1>1, <1>2, <1>4, ThenEach DEF DeactivateHabitScript
<1> QED BY <1>8 DEF Orderly

LEMMA CreateAssignmentOrder ==
  ASSUME NEW r, r.op = "CreateAssignment"
  PROVE  Orderly(r, CreateAssignmentScript(r))
<1> DEFINE K1 == Begun \cup {<<"habits", "update">>, <<"children", "update">>,
                       <<"routine_groups", "key_share">>}
<1>1. Leads(r.op, Begun,
          {<<"habits", "update">>, <<"children", "update">>, <<"routine_groups", "key_share">>})
  BY DEF Leads, Turns, Rank, Falls, Begun, Closing
<1>2. Within(r, <<ForUpdate("habits", r.habit), ForUpdate("children", r.child),
                  Referenced("routine_groups", r.group)>>,
                {<<"habits", "update">>, <<"children", "update">>,
                         <<"routine_groups", "key_share">>})
  <2>1. /\ Kind(ForUpdate("habits", r.habit)) = <<"habits", "update">>
        /\ Kind(ForUpdate("children", r.child)) = <<"children", "update">>
        /\ Kind(Referenced("routine_groups", r.group)) = <<"routine_groups", "key_share">>
    BY DEF Kind, ForUpdate, Referenced, Take
  <2>2. /\ Own(r, ForUpdate("habits", r.habit))
        /\ Own(r, ForUpdate("children", r.child))
        /\ Own(r, Referenced("routine_groups", r.group))
    BY Plain, PlainSession DEF ForUpdate, Referenced
  <2>3. /\ Orders(r.op, ForUpdate("habits", r.habit), ForUpdate("children", r.child))
        /\ Orders(r.op, ForUpdate("habits", r.habit), Referenced("routine_groups", r.group))
        /\ Orders(r.op, ForUpdate("children", r.child), Referenced("routine_groups", r.group))
    BY DEF Orders, Turns, Rank, Falls, ForUpdate, Referenced, Take
  <2> QED BY <2>1, <2>2, <2>3, Three
<1>3. Within(r, CreateAssignmentScript(r), K1)
  BY Beginnings, <1>1, <1>2, Joined DEF CreateAssignmentScript
<1> QED BY <1>3 DEF Orderly

LEMMA CreateAssignmentsOrder ==
  ASSUME NEW r, r.op = "CreateAssignments", Described(r)
  PROVE  Orderly(r, CreateAssignmentsScript(r))
<1> DEFINE K1 == Begun \cup {<<"habits", "update">>}
           K2 == K1 \cup {<<"children", "update">>}
           K3 == K2 \cup {<<"routine_groups", "key_share">>}
           s1 == Look(r) \o Reserve(r) \o <<ForUpdate("habits", r.habit)>>
           s2 == s1 \o Each("children", r.children, "update")
<1>1. /\ Leads(r.op, Begun, {<<"habits", "update">>})
      /\ Leads(r.op, K2, {<<"children", "update">>})
      /\ Leads(r.op, K3, {<<"routine_groups", "key_share">>})
  BY DEF Leads, Turns, Rank, Falls, Begun, Closing
<1>2. r.children \in Seq(Rows) /\ r.groups \in Seq(Rows)
  BY DEF Described, Lists
<1>3. /\ \A i \in DOMAIN r.children : Own(r, Take("children", r.children[i], "update"))
      /\ \A i \in DOMAIN r.groups : Own(r, Take("routine_groups", r.groups[i], "key_share"))
  BY DEF Own, Take
<1>4. Within(r, s1, K1)
  BY Beginnings, <1>1, Then, Plain DEF ForUpdate
<1>5. Within(r, s2, K2)
  BY <1>4, <1>1, <1>2, <1>3, ThenEach
<1>6. Within(r, CreateAssignmentsScript(r), K3)
  BY <1>5, <1>1, <1>2, <1>3, ThenEach DEF CreateAssignmentsScript
<1> QED BY <1>6 DEF Orderly

LEMMA UpdateAssignmentOrder ==
  ASSUME NEW r, r.op = "UpdateAssignment", Described(r)
  PROVE  Orderly(r, UpdateAssignmentScript(r))
<1> DEFINE K1 == Begun \cup {<<"habit_assignments", "update">>}
           K2 == K1 \cup {<<"occurrences", "update">>}
           K3 == K2 \cup {<<"habits", "key_share">>, <<"children", "key_share">>,
                    <<"routine_groups", "key_share">>}
           s1 == Look(r) \o Reserve(r) \o <<ForUpdate("habit_assignments", r.assignment)>>
           s2 == s1 \o Each("occurrences", r.habitOccurrences, "update")
<1>1. /\ Leads(r.op, Begun, {<<"habit_assignments", "update">>})
      /\ Leads(r.op, K2, {<<"occurrences", "update">>})
      /\ Leads(r.op, K2,
               {<<"habits", "key_share">>, <<"children", "key_share">>,
                        <<"routine_groups", "key_share">>})
  BY DEF Leads, Turns, Rank, Falls, Begun, Closing
<1>2. r.habitOccurrences \in Seq(Rows)
  BY DEF Described, Lists
<1>3. \A i \in DOMAIN r.habitOccurrences :
          Own(r, Take("occurrences", r.habitOccurrences[i], "update"))
  BY DEF Own, Take
<1>4. Within(r, s1, K1)
  BY Beginnings, <1>1, Then, Plain DEF ForUpdate
<1>5. Within(r, s2, K2)
  BY <1>4, <1>1, <1>2, <1>3, ThenEach
<1>6. Within(r, <<Referenced("habits", r.habit), Referenced("children", r.child),
                  Referenced("routine_groups", r.group)>>,
                {<<"habits", "key_share">>, <<"children", "key_share">>,
                         <<"routine_groups", "key_share">>})
  <2>1. /\ Kind(Referenced("habits", r.habit)) = <<"habits", "key_share">>
        /\ Kind(Referenced("children", r.child)) = <<"children", "key_share">>
        /\ Kind(Referenced("routine_groups", r.group)) = <<"routine_groups", "key_share">>
    BY DEF Kind, Referenced, Take
  <2>2. /\ Own(r, Referenced("habits", r.habit))
        /\ Own(r, Referenced("children", r.child))
        /\ Own(r, Referenced("routine_groups", r.group))
    BY Plain, PlainSession DEF Referenced
  <2>3. /\ Orders(r.op, Referenced("habits", r.habit), Referenced("children", r.child))
        /\ Orders(r.op, Referenced("habits", r.habit), Referenced("routine_groups", r.group))
        /\ Orders(r.op, Referenced("children", r.child), Referenced("routine_groups", r.group))
    BY DEF Orders, Turns, Rank, Falls, Referenced, Take
  <2> QED BY <2>1, <2>2, <2>3, Three
<1>7. Within(r, UpdateAssignmentScript(r), K3)
  BY <1>5, <1>1, <1>6, Joined DEF UpdateAssignmentScript
<1> QED BY <1>7 DEF Orderly

LEMMA DeactivateAssignmentOrder ==
  ASSUME NEW r, r.op = "DeactivateAssignment", Described(r)
  PROVE  Orderly(r, DeactivateAssignmentScript(r))
<1> DEFINE K1 == Begun \cup {<<"habit_assignments", "update">>}
           K2 == K1 \cup {<<"occurrences", "update">>}
           s1 == Look(r) \o Reserve(r) \o <<ForUpdate("habit_assignments", r.assignment)>>
<1>1. /\ Leads(r.op, Begun, {<<"habit_assignments", "update">>})
      /\ Leads(r.op, K2, {<<"occurrences", "update">>})
  BY DEF Leads, Turns, Rank, Falls, Begun, Closing
<1>2. r.habitOccurrences \in Seq(Rows)
  BY DEF Described, Lists
<1>3. \A i \in DOMAIN r.habitOccurrences :
          Own(r, Take("occurrences", r.habitOccurrences[i], "update"))
  BY DEF Own, Take
<1>4. Within(r, s1, K1)
  BY Beginnings, <1>1, Then, Plain DEF ForUpdate
<1>5. Within(r, DeactivateAssignmentScript(r), K2)
  BY <1>4, <1>1, <1>2, <1>3, ThenEach DEF DeactivateAssignmentScript
<1> QED BY <1>5 DEF Orderly

LEMMA CreateTaskOrder ==
  ASSUME NEW r, r.op = "CreateTask"
  PROVE  Orderly(r, CreateTaskScript(r))
<1> DEFINE K1 == Begun \cup {<<"children", "key_share">>, <<"routine_groups", "key_share">>}
<1>1. Leads(r.op, Begun, {<<"children", "key_share">>, <<"routine_groups", "key_share">>})
  BY DEF Leads, Turns, Rank, Falls, Begun, Closing
<1>2. Within(r, <<Referenced("children", r.child), Referenced("routine_groups", r.group)>>,
                {<<"children", "key_share">>, <<"routine_groups", "key_share">>})
  <2>1. /\ Kind(Referenced("children", r.child)) = <<"children", "key_share">>
        /\ Kind(Referenced("routine_groups", r.group)) = <<"routine_groups", "key_share">>
    BY DEF Kind, Referenced, Take
  <2>2. /\ Own(r, Referenced("children", r.child))
        /\ Own(r, Referenced("routine_groups", r.group))
    BY Plain, PlainSession DEF Referenced
  <2>3. Orders(r.op, Referenced("children", r.child), Referenced("routine_groups", r.group))
    BY DEF Orders, Turns, Rank, Falls, Referenced, Take
  <2> QED BY <2>1, <2>2, <2>3, Two
<1>3. Within(r, CreateTaskScript(r), K1)
  BY Beginnings, <1>1, <1>2, Joined DEF CreateTaskScript
<1> QED BY <1>3 DEF Orderly

LEMMA UpdateChildOrder ==
  ASSUME NEW r, r.op = "UpdateChild"
  PROVE  Orderly(r, UpdateChildScript(r))
<1> DEFINE K1 == {} \cup {<<"children", "no_key_update">>}
           K2 == K1 \cup Closing
           s1 == Look(r) \o <<Written("children", r.child)>>
<1>1. /\ Leads(r.op, {}, {<<"children", "no_key_update">>})
      /\ Leads(r.op, K1, Closing)
  BY DEF Leads, Turns, Rank, Falls, Begun, Closing
<1>2. Within(r, s1, K1)
  BY Beginnings, <1>1, Then, Plain DEF Written
<1>3. Within(r, UpdateChildScript(r), K2)
  BY <1>2, <1>1, Beginnings, Joined DEF UpdateChildScript
<1> QED BY <1>3 DEF Orderly

LEMMA ArchiveChildOrder ==
  ASSUME NEW r, r.op = "ArchiveChild"
  PROVE  Orderly(r, ArchiveChildScript(r))
<1> DEFINE K1 == {} \cup {<<"children", "update">>, <<"sessions", "no_key_update">>}
           K2 == K1 \cup Closing
           s1 == Look(r) \o <<ForUpdate("children", r.child), Written("sessions", r.childSession)>>
<1>1. /\ Leads(r.op, {}, {<<"children", "update">>, <<"sessions", "no_key_update">>})
      /\ Leads(r.op, K1, Closing)
  BY DEF Leads, Turns, Rank, Falls, Begun, Closing
<1>2. Within(r, <<ForUpdate("children", r.child), Written("sessions", r.childSession)>>,
                {<<"children", "update">>, <<"sessions", "no_key_update">>})
  <2>1. /\ Kind(ForUpdate("children", r.child)) = <<"children", "update">>
        /\ Kind(Written("sessions", r.childSession)) = <<"sessions", "no_key_update">>
    BY DEF Kind, ForUpdate, Written, Take
  <2>2. /\ Own(r, ForUpdate("children", r.child))
        /\ Own(r, Written("sessions", r.childSession))
    BY Plain, PlainSession DEF Own, SessionsOf, Take, ForUpdate, Written
  <2>3. Orders(r.op, ForUpdate("children", r.child), Written("sessions", r.childSession))
    BY DEF Orders, Turns, Rank, Falls, ForUpdate, Written, Take
  <2> QED BY <2>1, <2>2, <2>3, Two
<1>3. Within(r, s1, K1)
  BY Beginnings, <1>1, <1>2, Joined
<1>4. Within(r, ArchiveChildScript(r), K2)
  BY <1>3, <1>1, Beginnings, Joined DEF ArchiveChildScript
<1> QED BY <1>4 DEF Orderly

LEMMA EnterOrder ==
  ASSUME NEW r, r.op = "Enter"
  PROVE  Orderly(r, EnterScript(r))
<1> DEFINE K1 == {<<"children", "update">>, <<"sessions", "no_key_update">>}
           K2 == K1 \cup Closing
           s1 == <<ForUpdate("children", r.child), Session(r, "no_key_update")>>
<1>1. Leads(r.op, K1, Closing)
  BY DEF Leads, Turns, Rank, Falls, Begun, Closing
<1>2. Within(r, <<ForUpdate("children", r.child), Session(r, "no_key_update")>>,
                {<<"children", "update">>, <<"sessions", "no_key_update">>})
  <2>1. /\ Kind(ForUpdate("children", r.child)) = <<"children", "update">>
        /\ Kind(Session(r, "no_key_update")) = <<"sessions", "no_key_update">>
    BY DEF Kind, ForUpdate, Session, Take
  <2>2. /\ Own(r, ForUpdate("children", r.child))
        /\ Own(r, Session(r, "no_key_update"))
    BY Plain, PlainSession DEF ForUpdate, Session
  <2>3. Orders(r.op, ForUpdate("children", r.child), Session(r, "no_key_update"))
    BY DEF Orders, Turns, Rank, Falls, ForUpdate, Session, Take
  <2> QED BY <2>1, <2>2, <2>3, Two
<1>3. Within(r, s1, K1)
  BY <1>1, <1>2
<1>4. Within(r, EnterScript(r), K2)
  BY <1>3, <1>1, Beginnings, Joined DEF EnterScript
<1> QED BY <1>4 DEF Orderly

LEMMA LeaveOrder ==
  ASSUME NEW r, r.op = "Leave"
  PROVE  Orderly(r, LeaveScript(r))
<1> DEFINE K1 == {<<"sessions", "update">>}
           K2 == K1 \cup Closing
           s1 == <<Session(r, "update")>>
<1>1. Leads(r.op, K1, Closing)
  BY DEF Leads, Turns, Rank, Falls, Begun, Closing
<1>2. Within(r, <<Session(r, "update")>>, {<<"sessions", "update">>})
  <2>1. Kind(Session(r, "update")) = <<"sessions", "update">>
    BY DEF Kind, Session, Take
  <2>2. Own(r, Session(r, "update"))
    BY Plain, PlainSession DEF Session
  <2> QED BY <2>1, <2>2, One
<1>3. Within(r, s1, K1)
  BY <1>1, <1>2
<1>4. Within(r, LeaveScript(r), K2)
  BY <1>3, <1>1, Beginnings, Joined DEF LeaveScript
<1> QED BY <1>4 DEF Orderly

LEMMA CreateGroupOrder ==
  ASSUME NEW r, r.op = "CreateGroup"
  PROVE  Orderly(r, CreateGroupScript(r))
BY Beginnings DEF Orderly, CreateGroupScript

LEMMA UpdateGroupOrder ==
  ASSUME NEW r, r.op = "UpdateGroup"
  PROVE  Orderly(r, UpdateGroupScript(r))
<1> DEFINE K1 == Begun \cup {<<"routine_groups", "update">>}
<1>1. Leads(r.op, Begun, {<<"routine_groups", "update">>})
  BY DEF Leads, Turns, Rank, Falls, Begun, Closing
<1>2. Within(r, UpdateGroupScript(r), K1)
  BY Beginnings, <1>1, Then, Plain DEF ForUpdate, UpdateGroupScript
<1> QED BY <1>2 DEF Orderly

LEMMA ReorderGroupsOrder ==
  ASSUME NEW r, r.op = "ReorderGroups", Described(r)
  PROVE  Orderly(r, ReorderGroupsScript(r))
<1> DEFINE K1 == Begun \cup {<<"routine_groups", "no_key_update">>}
<1>1. Leads(r.op, K1, {<<"routine_groups", "no_key_update">>})
  BY DEF Leads, Turns, Rank, Falls, Begun, Closing
<1>2. r.groups \in Seq(Rows)
  BY DEF Described, Lists
<1>3. \A i \in DOMAIN r.groups : Own(r, Take("routine_groups", r.groups[i], "no_key_update"))
  BY DEF Own, Take
<1>4. Within(r, ReorderGroupsScript(r), K1)
  BY Beginnings, <1>1, <1>2, <1>3, ThenEach DEF ReorderGroupsScript
<1> QED BY <1>4 DEF Orderly

Moving == {<<"occurrences", "update">>, <<"habits", "key_share">>, <<"children", "key_share">>}

\* The moves of an archived group, all of the same kinds.
LEMMA Replacing ==
  ASSUME NEW r, r.op = "ArchiveGroup", Described(r)
  PROVE  Within(r, Replace(r.moves), Moving)
<1> DEFINE s == Replace(r.moves)
           n == 3 * Len(r.moves)
<1>1. /\ Len(r.moves) \in Nat /\ n \in Nat /\ DOMAIN s = 1 .. n
      /\ DOMAIN r.moves = 1 .. Len(r.moves)
  BY DEF Described, Replace
<1>2. ASSUME NEW i \in 1 .. n
      PROVE  Own(r, s[i]) /\ Kind(s[i]) \in Moving
  <2> DEFINE k == (i + 2) \div 3
             move == r.moves[k]
  <2>1. k \in DOMAIN r.moves
    BY <1>1, <1>2
  <2>2. \/ s[i] = ForUpdate("occurrences", move.occurrence)
        \/ s[i] = Referenced("habits", move.habit)
        \/ s[i] = Referenced("children", move.child)
    <3>1. i % 3 = 0 \/ i % 3 = 1 \/ i % 3 = 2
      BY <1>1, <1>2
    <3>2. s[i] = CASE i % 3 = 1 -> ForUpdate("occurrences", move.occurrence)
                   [] i % 3 = 2 -> Referenced("habits", move.habit)
                   [] i % 3 = 0 -> Referenced("children", move.child)
      BY <1>1, <1>2 DEF Replace
    <3> QED BY <3>1, <3>2
  <2> HIDE DEF k, s
  <2> QED BY <2>1, <2>2 DEF ForUpdate, Referenced, Take, Kind, Own, Moving
<1> HIDE DEF s
<1>3. \A i \in 1 .. n : s[i] \in Range(s)
  BY <1>1 DEF Range
<1>4. IsList(s) /\ Len(s) = n
  <2>1. s = [i \in 1 .. n |-> s[i]]
    BY <1>1 DEF s, Replace
  <2> QED BY <1>1, <1>3, <2>1, IsASeq DEF IsList
<1>5. \A i \in 1 .. Len(s) : Own(r, s[i]) /\ Kind(s[i]) \in Moving
  BY <1>2, <1>4
<1>6. \A i, j \in 1 .. Len(s) : Orders(r.op, s[i], s[j])
  <2>1. Leads(r.op, Moving, Moving)
    BY DEF Leads, Turns, Rank, Falls, Moving
  <2> QED BY <1>5, <2>1 DEF Leads, Orders, Kind
<1> QED BY <1>4, <1>5, <1>6 DEF Within, s

LEMMA ArchiveGroupOrder ==
  ASSUME NEW r, r.op = "ArchiveGroup", Described(r)
  PROVE  Orderly(r, ArchiveGroupScript(r))
<1> DEFINE O == <<"occurrences", "no_key_update">>
           K1 == Begun \cup {<<"routine_groups", "update">>}
           M1 == {O} \cup {<<"one_off_tasks", "no_key_update">>}
           M2 == M1 \cup {<<"routine_groups", "key_share">>}
           M3 == M2 \cup {<<"habit_assignments", "update">>}
           M4 == M3 \cup Moving
           K2 == K1 \cup M4
           K3 == K2 \cup {<<"routine_groups", "no_key_update">>}
           s1 == Look(r) \o Reserve(r) \o <<ForUpdate("routine_groups", r.group)>>
           m0 == Each("occurrences", r.taskOccurrences, "no_key_update")
           m1 == m0 \o Each("one_off_tasks", r.tasks, "no_key_update")
           m2 == m1 \o Each("routine_groups", r.destination, "key_share")
           m3 == m2 \o Each("habit_assignments", r.assignments, "update")
<1>1. /\ r.taskOccurrences \in Seq(Rows) /\ r.tasks \in Seq(Rows) /\ r.destination \in Seq(Rows)
      /\ r.assignments \in Seq(Rows) /\ r.groups \in Seq(Rows)
  BY DEF Described, Lists
<1>2. /\ \A i \in DOMAIN r.taskOccurrences :
           Own(r, Take("occurrences", r.taskOccurrences[i], "no_key_update"))
      /\ \A i \in DOMAIN r.tasks : Own(r, Take("one_off_tasks", r.tasks[i], "no_key_update"))
      /\ \A i \in DOMAIN r.destination :
           Own(r, Take("routine_groups", r.destination[i], "key_share"))
      /\ \A i \in DOMAIN r.assignments :
           Own(r, Take("habit_assignments", r.assignments[i], "update"))
      /\ \A i \in DOMAIN r.groups : Own(r, Take("routine_groups", r.groups[i], "no_key_update"))
  BY DEF Own, Take
<1>3. /\ Leads(r.op, Begun, {<<"routine_groups", "update">>})
      /\ Leads(r.op, {O}, {O})
      /\ Leads(r.op, M1, {<<"one_off_tasks", "no_key_update">>})
      /\ Leads(r.op, M2, {<<"routine_groups", "key_share">>})
      /\ Leads(r.op, M3, {<<"habit_assignments", "update">>})
      /\ Leads(r.op, M3, Moving)
  BY DEF Leads, Turns, Rank, Falls, Begun, Moving
<1>4. Leads(r.op, K1, M4)
  BY DEF Leads, Turns, Rank, Falls, Begun, Moving
<1>5. Leads(r.op, K3, {<<"routine_groups", "no_key_update">>})
  BY DEF Leads, Turns, Rank, Falls, Begun, Moving
<1>6. Within(r, s1, K1)
  BY <1>3, Beginnings, Plain, Then DEF ForUpdate
<1>7. Within(r, m0, {O})
  <2>1. Turns(r.op, "occurrences", "no_key_update", "occurrences", "no_key_update")
    BY DEF Turns, Rank, Falls
  <2> QED BY <1>1, <1>2, <2>1, Many
<1>8. Within(r, m1, M1)
  BY <1>1, <1>2, <1>3, <1>7, ThenEach
<1>9. Within(r, m2, M2)
  BY <1>1, <1>2, <1>3, <1>8, ThenEach
<1>10. Within(r, m3, M3)
  BY <1>1, <1>2, <1>3, <1>9, ThenEach
<1>11. Within(r, MoveItems(r), M4)
  BY <1>3, <1>10, Replacing, Joined DEF MoveItems
<1>12. Within(r, s1 \o MoveItems(r), K2)
  BY <1>4, <1>6, <1>11, Joined
<1>13. Within(r, ArchiveGroupScript(r), K3)
  BY <1>1, <1>2, <1>5, <1>12, ThenEach DEF ArchiveGroupScript
<1> QED BY <1>13 DEF Orderly

\* The script of every handler turns where Turns says, and nowhere else.
LEMMA Scripts ==
  ASSUME NEW r, Described(r)
  PROVE  Orderly(r, ScriptOf(r))
<1>1. CASE r.op = "Submit"
  BY <1>1, SubmitOrder DEF ScriptOf
<1>2. CASE r.op = "Withdraw"
  BY <1>2, SubmitOrder DEF ScriptOf
<1>3. CASE r.op = "Reject"
  BY <1>3, ReviewOrder DEF ScriptOf
<1>4. CASE r.op = "Approve"
  BY <1>4, ReviewOrder DEF ScriptOf
<1>5. CASE r.op = "Reverse"
  BY <1>5, ReviewOrder DEF ScriptOf
<1>6. CASE r.op = "Correct"
  BY <1>6, CorrectOrder DEF ScriptOf
<1>7. CASE r.op = "CancelTask"
  BY <1>7, TaskOrder DEF ScriptOf
<1>8. CASE r.op = "UpdateTask"
  BY <1>8, TaskOrder DEF ScriptOf
<1>9. CASE r.op = "Redeem"
  BY <1>9, RedeemOrder DEF ScriptOf
<1>10. CASE r.op = "Decide"
  BY <1>10, DecideOrder DEF ScriptOf
<1>11. CASE r.op = "CreateReward"
  BY <1>11, CreateRewardOrder DEF ScriptOf
<1>12. CASE r.op = "ArchiveReward"
  BY <1>12, ArchiveRewardOrder DEF ScriptOf
<1>13. CASE r.op = "UpdateReward"
  BY <1>13, UpdateRewardOrder DEF ScriptOf
<1>14. CASE r.op = "PutPolicy"
  BY <1>14, PutPolicyOrder DEF ScriptOf
<1>15. CASE r.op = "SetRewards"
  BY <1>15, PutPolicyOrder DEF ScriptOf
<1>16. CASE r.op = "ChildEligibility"
  BY <1>16, ChildEligibilityOrder DEF ScriptOf
<1>17. CASE r.op = "ParentProgress"
  BY <1>17, ParentProgressOrder DEF ScriptOf
<1>18. CASE r.op = "EnsureDate"
  BY <1>18, EnsureDateOrder DEF ScriptOf
<1>19. CASE r.op = "UpdateHabit"
  BY <1>19, UpdateHabitOrder DEF ScriptOf
<1>20. CASE r.op = "DeactivateHabit"
  BY <1>20, DeactivateHabitOrder DEF ScriptOf
<1>21. CASE r.op = "CreateAssignment"
  BY <1>21, CreateAssignmentOrder DEF ScriptOf
<1>22. CASE r.op = "CreateAssignments"
  BY <1>22, CreateAssignmentsOrder DEF ScriptOf
<1>23. CASE r.op = "UpdateAssignment"
  BY <1>23, UpdateAssignmentOrder DEF ScriptOf
<1>24. CASE r.op = "DeactivateAssignment"
  BY <1>24, DeactivateAssignmentOrder DEF ScriptOf
<1>25. CASE r.op = "CreateTask"
  BY <1>25, CreateTaskOrder DEF ScriptOf
<1>26. CASE r.op = "UpdateChild"
  BY <1>26, UpdateChildOrder DEF ScriptOf
<1>27. CASE r.op = "ArchiveChild"
  BY <1>27, ArchiveChildOrder DEF ScriptOf
<1>28. CASE r.op = "Enter"
  BY <1>28, EnterOrder DEF ScriptOf
<1>29. CASE r.op = "Leave"
  BY <1>29, LeaveOrder DEF ScriptOf
<1>30. CASE r.op = "CreateGroup"
  BY <1>30, CreateGroupOrder DEF ScriptOf
<1>31. CASE r.op = "UpdateGroup"
  BY <1>31, UpdateGroupOrder DEF ScriptOf
<1>32. CASE r.op = "ReorderGroups"
  BY <1>32, ReorderGroupsOrder DEF ScriptOf
<1>33. CASE r.op = "ArchiveGroup"
  BY <1>33, ArchiveGroupOrder DEF ScriptOf
<1> QED BY <1>1, <1>2, <1>3, <1>4, <1>5, <1>6, <1>7, <1>8, <1>9, <1>10, <1>11, <1>12,
           <1>13, <1>14, <1>15, <1>16, <1>17, <1>18, <1>19, <1>20, <1>21, <1>22, <1>23,
           <1>24, <1>25, <1>26, <1>27, <1>28, <1>29, <1>30, <1>31, <1>32, <1>33
        DEF Described, Ops

-----------------------------------------------------------------------------
(* Rows that a script locks only behind another, which it holds for update *)

\* Every lock of a kind comes after the guard, which the list has.
Guards(kind, guard, s) ==
  /\ \E i \in 1 .. Len(s) : s[i] = guard
  /\ \A j \in 1 .. Len(s) : Kind(s[j]) = kind => \E i \in 1 .. Len(s) : i < j /\ s[i] = guard

Absent(kind, s) == \A i \in 1 .. Len(s) : Kind(s[i]) # kind

\* Rows of children, locked in the order of their ids.
Ascending(x, y) ==
  \E c, d \in Rows : x.row = <<"children", c>> /\ y.row = <<"children", d>> /\ <<c, d>> \in IdOrder

ById(s) ==
  \A i, j \in 1 .. Len(s) :
    (i < j /\ Kind(s[i]) = <<"children", "update">> /\ Kind(s[j]) = <<"children", "update">>) =>
      Ascending(s[i], s[j])

LEMMA NotAmong ==
  ASSUME NEW r, NEW s, NEW K, Within(r, s, K), NEW table, NEW mode, mode # "read",
         <<table, mode>> \notin K
  PROVE  Absent(<<table, mode>>, s)
BY DEF Within, Absent, Kind

LEMMA AbsentJoined ==
  ASSUME NEW kind, NEW s, NEW t, IsList(s), IsList(t), Absent(kind, s), Absent(kind, t)
  PROVE  Absent(kind, s \o t) /\ IsList(s \o t)
<1> DEFINE u == s \o t
<1>1. /\ IsList(u) /\ Len(s) \in Nat /\ Len(t) \in Nat /\ Len(u) = Len(s) + Len(t)
      /\ \A i \in 1 .. Len(s) : u[i] = s[i]
      /\ \A i \in 1 .. Len(u) : i > Len(s) => i - Len(s) \in 1 .. Len(t) /\ u[i] = t[i - Len(s)]
  BY JoinedLists
<1> HIDE DEF u
<1>2. \A i \in 1 .. Len(u) : i \in 1 .. Len(s) \/ i > Len(s)
  BY <1>1
<1>3. \A i \in 1 .. Len(u) : Kind(u[i]) # kind
  BY <1>1, <1>2 DEF Absent
<1> QED BY <1>1, <1>3 DEF Absent, u

LEMMA AbsentKept ==
  ASSUME NEW kind, NEW s, NEW a, IsList(s), Absent(kind, s), Kind(a) # kind
  PROVE  Absent(kind, s \o <<a>>) /\ IsList(s \o <<a>>)
<1>1. IsList(<<a>>) /\ Absent(kind, <<a>>)
  BY DEF IsList, Range, Absent
<1> QED BY <1>1, AbsentJoined

\* A guard that comes first stays first; rows of another kind may come before it.
LEMMA GuardKept ==
  ASSUME NEW kind, NEW guard, NEW s, NEW t, IsList(s), IsList(t), Guards(kind, guard, s)
  PROVE  Guards(kind, guard, s \o t) /\ IsList(s \o t)
<1> DEFINE u == s \o t
<1>1. /\ IsList(u) /\ Len(s) \in Nat /\ Len(t) \in Nat /\ Len(u) = Len(s) + Len(t)
      /\ \A i \in 1 .. Len(s) : u[i] = s[i]
  BY JoinedLists
<1> HIDE DEF u
<1>2. PICK g \in 1 .. Len(s) : s[g] = guard
  BY DEF Guards
<1>3. ASSUME NEW j \in 1 .. Len(u), Kind(u[j]) = kind
      PROVE  \E i \in 1 .. Len(u) : i < j /\ u[i] = guard
  <2>1. CASE j \in 1 .. Len(s)
    <3>1. PICK i \in 1 .. Len(s) : i < j /\ s[i] = guard
      BY <1>1, <1>3, <2>1 DEF Guards
    <3> QED BY <1>1, <3>1
  <2>2. CASE j > Len(s)
    BY <1>1, <1>2, <2>2
  <2> QED BY <1>1, <2>1, <2>2
<1>4. \E i \in 1 .. Len(u) : u[i] = guard
  BY <1>1, <1>2
<1> QED BY <1>1, <1>3, <1>4 DEF Guards, u

LEMMA GuardLater ==
  ASSUME NEW kind, NEW guard, NEW s, NEW t, IsList(s), IsList(t), Absent(kind, s),
         Guards(kind, guard, t)
  PROVE  Guards(kind, guard, s \o t) /\ IsList(s \o t)
<1> DEFINE u == s \o t
<1>1. /\ IsList(u) /\ Len(s) \in Nat /\ Len(t) \in Nat /\ Len(u) = Len(s) + Len(t)
      /\ \A i \in 1 .. Len(s) : u[i] = s[i]
      /\ \A i \in 1 .. Len(u) : i > Len(s) => i - Len(s) \in 1 .. Len(t) /\ u[i] = t[i - Len(s)]
  BY JoinedLists
<1> HIDE DEF u
<1>2. ASSUME NEW i \in 1 .. Len(t), t[i] = guard
      PROVE  i + Len(s) \in 1 .. Len(u) /\ u[i + Len(s)] = guard
  <2>1. i + Len(s) \in 1 .. Len(u) /\ i + Len(s) > Len(s) /\ (i + Len(s)) - Len(s) = i
    BY <1>1
  <2> QED BY <1>1, <1>2, <2>1
<1>3. ASSUME NEW j \in 1 .. Len(u), Kind(u[j]) = kind
      PROVE  \E i \in 1 .. Len(u) : i < j /\ u[i] = guard
  <2>1. j > Len(s)
    BY <1>1, <1>3 DEF Absent
  <2>2. PICK i \in 1 .. Len(t) : i < j - Len(s) /\ t[i] = guard
    BY <1>1, <1>3, <2>1 DEF Guards
  <2>3. i + Len(s) < j
    BY <1>1, <2>2
  <2> QED BY <1>2, <2>2, <2>3
<1>4. \E i \in 1 .. Len(u) : u[i] = guard
  BY <1>2 DEF Guards
<1> QED BY <1>1, <1>3, <1>4 DEF Guards, u

\* A list of one guard, after which its kind may come.
LEMMA GuardAlone ==
  ASSUME NEW kind, NEW guard, Kind(guard) # kind
  PROVE  Guards(kind, guard, <<guard>>) /\ IsList(<<guard>>)
BY DEF Guards, IsList, Range

LEMMA ByIdJoined ==
  ASSUME NEW s, NEW t, IsList(s), IsList(t),
         \/ ById(s) /\ Absent(<<"children", "update">>, t)
         \/ Absent(<<"children", "update">>, s) /\ ById(t)
  PROVE  ById(s \o t) /\ IsList(s \o t)
<1> DEFINE u == s \o t
<1>1. /\ IsList(u) /\ Len(s) \in Nat /\ Len(t) \in Nat /\ Len(u) = Len(s) + Len(t)
      /\ \A i \in 1 .. Len(s) : u[i] = s[i]
      /\ \A i \in 1 .. Len(u) : i > Len(s) => i - Len(s) \in 1 .. Len(t) /\ u[i] = t[i - Len(s)]
  BY JoinedLists
<1> HIDE DEF u
<1>2. \A i \in 1 .. Len(u) : i \in 1 .. Len(s) \/ i > Len(s)
  BY <1>1
<1>3. CASE ById(s) /\ Absent(<<"children", "update">>, t)
  <2>1. \A i \in 1 .. Len(u) : Kind(u[i]) = <<"children", "update">> => i \in 1 .. Len(s)
    BY <1>1, <1>2, <1>3 DEF Absent
  <2>2. ById(u)
    BY <1>1, <1>3, <2>1 DEF ById
  <2> QED BY <1>1, <2>2 DEF u
<1>4. CASE Absent(<<"children", "update">>, s) /\ ById(t)
  <2>1. \A i \in 1 .. Len(u) : Kind(u[i]) = <<"children", "update">> => i > Len(s)
    BY <1>1, <1>2, <1>4 DEF Absent
  <2>2. ASSUME NEW i \in 1 .. Len(u), NEW j \in 1 .. Len(u), i < j,
               Kind(u[i]) = <<"children", "update">>, Kind(u[j]) = <<"children", "update">>
        PROVE  Ascending(u[i], u[j])
    <3>1. /\ i - Len(s) \in 1 .. Len(t) /\ j - Len(s) \in 1 .. Len(t) /\ i - Len(s) < j - Len(s)
          /\ u[i] = t[i - Len(s)] /\ u[j] = t[j - Len(s)]
      BY <1>1, <2>1, <2>2
    <3> DEFINE x == i - Len(s)
               y == j - Len(s)
    <3>2. x \in 1 .. Len(t) /\ y \in 1 .. Len(t) /\ x < y /\ u[i] = t[x] /\ u[j] = t[y]
      BY <3>1
    <3> HIDE DEF x, y
    <3> QED BY <1>4, <2>2, <3>2 DEF ById
  <2>3. ById(u)
    BY <2>2 DEF ById
  <2> QED BY <1>1, <2>3 DEF u
<1> QED BY <1>3, <1>4

LEMMA ShortLists ==
  /\ \A a : IsList(<<a>>)
  /\ \A a, b : IsList(<<a, b>>)
  /\ \A a, b, c : IsList(<<a, b, c>>)
BY DEF IsList, Range

\* The rows of a table.
LEMMA EachList ==
  ASSUME NEW table, NEW ids, NEW S, ids \in Seq(S), NEW mode
  PROVE  IsList(Each(table, ids, mode)) /\ Len(Each(table, ids, mode)) = Len(ids)
<1> DEFINE s == Each(table, ids, mode)
<1>1. /\ DOMAIN ids = 1 .. Len(ids) /\ Len(ids) \in Nat
      /\ s = [i \in 1 .. Len(ids) |-> Take(table, ids[i], mode)]
  BY DEF Each
<1> HIDE DEF s
<1>2. \A i \in 1 .. Len(ids) : s[i] \in Range(s)
  BY <1>1 DEF Range
<1>3. IsList(s) /\ Len(s) = Len(ids)
  BY <1>1, <1>2, IsASeq DEF IsList
<1> QED BY <1>3 DEF s

LEMMA EachRow ==
  ASSUME NEW table, NEW ids, NEW S, ids \in Seq(S), NEW mode, NEW i \in 1 .. Len(ids)
  PROVE  i \in DOMAIN ids /\ Each(table, ids, mode)[i] = Take(table, ids[i], mode)
BY DEF Each

LEMMA EachHas ==
  ASSUME NEW table, NEW ids, NEW S, ids \in Seq(S), NEW mode, NEW a \in DOMAIN ids
  PROVE  \E i \in 1 .. Len(Each(table, ids, mode)) :
           Each(table, ids, mode)[i] = Take(table, ids[a], mode)
BY EachList, EachRow

LEMMA EachAbsent ==
  ASSUME NEW table, NEW ids, NEW S, ids \in Seq(S), NEW mode, NEW kind, kind # <<table, mode>>
  PROVE  Absent(kind, Each(table, ids, mode))
<1> DEFINE s == Each(table, ids, mode)
<1>1. ASSUME NEW i \in 1 .. Len(s)
      PROVE  Kind(s[i]) = <<table, mode>>
  <2>1. s[i] = Take(table, ids[i], mode)
    BY EachList, EachRow
  <2> HIDE DEF s
  <2> QED BY <2>1 DEF Kind, Take
<1> HIDE DEF s
<1>2. Absent(kind, s)
  BY <1>1 DEF Absent
<1> QED BY <1>2 DEF s

\* What each handler locks behind what.
Guarded(r, s) ==
  /\ r.op \in {"Submit", "Withdraw", "Approve", "Reject", "Reverse", "Correct"} =>
       Guards(<<"idempotency_records", "update">>, Session(r, "update"), s)
  /\ r.op \in {"UpdateHabit", "DeactivateHabit"} =>
       Guards(<<"occurrences", "update">>, ForUpdate("habits", r.habit), s)
  /\ r.op = "DeactivateHabit" =>
       \A mode \in {"no_key_update", "update"} :
         Guards(<<"habit_assignments", mode>>, ForUpdate("habits", r.habit), s)
  /\ r.op \in {"UpdateAssignment", "DeactivateAssignment"} =>
       Guards(<<"occurrences", "update">>, ForUpdate("habit_assignments", r.assignment), s)
  /\ r.op = "ArchiveGroup" =>
       \A i \in DOMAIN r.assignments :
         Guards(<<"occurrences", "update">>, ForUpdate("habit_assignments", r.assignments[i]), s)
  /\ r.op = "CreateAssignments" => ById(s)

\* lockChildActor and lockParent lock the session before the key.
LEMMA CompletionGuards ==
  ASSUME NEW r, r.op \in {"Submit", "Withdraw", "Approve", "Reject", "Reverse", "Correct"}
  PROVE  Guards(<<"idempotency_records", "update">>, Session(r, "update"), ScriptOf(r))
<1> DEFINE kind == <<"idempotency_records", "update">>
           guard == Session(r, "update")
<1>1. IsList(Reserve(r)) /\ IsList(ReadBalance)
  BY ShortLists DEF Reserve, ReadBalance
<1>2. Kind(guard) # kind /\ Kind(Child(r.child, "update")) # kind
  BY DEF Kind, Session, Child, Take
<1>3. Guards(kind, guard, LockParent(r)) /\ IsList(LockParent(r))
  BY <1>2, GuardAlone DEF LockParent
<1>4. Guards(kind, guard, LockChildActor(r)) /\ IsList(LockChildActor(r))
  <2>1. IsList(LockChildActor(r))
    BY ShortLists DEF LockChildActor
  <2> HIDE DEF guard, kind
  <2>2. Guards(kind, guard, <<Child(r.child, "update"), guard>>)
    BY <1>2 DEF Guards
  <2> QED BY <2>1, <2>2 DEF LockChildActor, guard
<1> HIDE DEF kind, guard
<1>5. \A a : IsList(<<a>>)
  BY ShortLists
<1>6. Guards(kind, guard, LockChildActor(r) \o Reserve(r))
          /\ IsList(LockChildActor(r) \o Reserve(r))
  BY <1>1, <1>4, GuardKept
<1>7. Guards(kind, guard, SubmitScript(r))
  BY <1>5, <1>6, GuardKept DEF SubmitScript
<1>8. Guards(kind, guard, LockParent(r) \o Reserve(r)) /\ IsList(LockParent(r) \o Reserve(r))
  BY <1>1, <1>3, GuardKept
<1>9. Guards(kind, guard, CorrectScript(r))
  BY <1>5, <1>8, GuardKept DEF CorrectScript
<1>10. Guards(kind, guard, RejectScript(r)) /\ IsList(RejectScript(r))
  BY <1>5, <1>8, GuardKept DEF RejectScript
<1>11. Guards(kind, guard, ApproveScript(r)) /\ IsList(ApproveScript(r))
  BY <1>5, <1>10, GuardKept DEF ApproveScript
<1>12. Guards(kind, guard, ReverseScript(r))
  BY <1>1, <1>11, GuardKept DEF ReverseScript
<1> QED BY <1>7, <1>9, <1>10, <1>11, <1>12 DEF ScriptOf, WithdrawScript, kind, guard

\* The lock that follows Look and Reserve guards what comes after it.
LEMMA ReservedGuard ==
  ASSUME NEW r, NEW table, NEW mode, NEW guard, mode # "read", Kind(guard) # <<table, mode>>,
         <<table, mode>> \notin Begun
  PROVE  LET s == Look(r) \o Reserve(r) \o <<guard>>
         IN Guards(<<table, mode>>, guard, s) /\ IsList(s)
<1> DEFINE s0 == Look(r) \o Reserve(r)
<1>1. Within(r, s0, Begun)
  BY Beginnings
<1>2. Absent(<<table, mode>>, s0) /\ IsList(s0)
  BY <1>1, NotAmong DEF Within
<1> QED BY <1>2, GuardAlone, GuardLater

\* The handlers of a habit lock it before its occurrences and assignments.
LEMMA HabitGuards ==
  ASSUME NEW r, Described(r), r.op \in {"UpdateHabit", "DeactivateHabit"}
  PROVE  LET guard == ForUpdate("habits", r.habit)
         IN /\ Guards(<<"occurrences", "update">>, guard, ScriptOf(r))
            /\ r.op = "DeactivateHabit" =>
                 \A mode \in {"no_key_update", "update"} :
                   Guards(<<"habit_assignments", mode>>, guard, ScriptOf(r))
<1> DEFINE guard == ForUpdate("habits", r.habit)
           s == Look(r) \o Reserve(r) \o <<guard>>
           W == Each("habit_assignments", r.assignments, "no_key_update")
           X == Each("habit_assignments", r.unused, "update")
           Y == Each("occurrences", r.habitOccurrences, "update")
           Kinds == {<<"occurrences", "update">>, <<"habit_assignments", "no_key_update">>,
                     <<"habit_assignments", "update">>}
<1>1. Kind(guard) \notin Kinds /\ Kinds \cap Begun = {}
  BY DEF Kind, ForUpdate, Take, Begun, Closing
<1>2. IsList(W) /\ IsList(X) /\ IsList(Y)
  BY EachList DEF Described, Lists
<1> HIDE DEF guard, W, X, Y
<1>3. ASSUME NEW kind \in Kinds
      PROVE  Guards(kind, guard, s \o Y) /\ Guards(kind, guard, s \o W \o X \o Y)
  <2>1. Guards(kind, guard, s) /\ IsList(s)
    BY <1>1, <1>3, ReservedGuard
  <2> HIDE DEF s
  <2>2. Guards(kind, guard, s \o W) /\ IsList(s \o W)
    BY <1>2, <2>1, GuardKept
  <2>3. Guards(kind, guard, s \o W \o X) /\ IsList(s \o W \o X)
    BY <1>2, <2>2, GuardKept
  <2> QED BY <1>2, <2>1, <2>3, GuardKept
<1>4. r.op = "UpdateHabit" => ScriptOf(r) = s \o Y
  BY DEF ScriptOf, UpdateHabitScript, guard, Y
<1>5. r.op = "DeactivateHabit" => ScriptOf(r) = s \o W \o X \o Y
  BY DEF ScriptOf, DeactivateHabitScript, guard, W, X, Y
<1> QED BY <1>3, <1>4, <1>5 DEF guard

\* The handlers of an assignment lock it before its occurrences.
LEMMA AssignmentGuards ==
  ASSUME NEW r, Described(r), r.op \in {"UpdateAssignment", "DeactivateAssignment"}
  PROVE  Guards(<<"occurrences", "update">>, ForUpdate("habit_assignments", r.assignment),
                ScriptOf(r))
<1> DEFINE guard == ForUpdate("habit_assignments", r.assignment)
           kind == <<"occurrences", "update">>
           s == Look(r) \o Reserve(r) \o <<guard>>
           X == Each("occurrences", r.habitOccurrences, "update")
           Y == <<Referenced("habits", r.habit), Referenced("children", r.child),
                  Referenced("routine_groups", r.group)>>
<1>1. Kind(guard) # kind /\ kind \notin Begun
  BY DEF Kind, ForUpdate, Take, Begun
<1>2. IsList(X) /\ IsList(Y)
  BY EachList, ShortLists DEF Described, Lists
<1> HIDE DEF guard, X, Y
<1>3. Guards(kind, guard, s) /\ IsList(s)
  BY <1>1, ReservedGuard
<1> HIDE DEF s, kind
<1>4. Guards(kind, guard, s \o X) /\ IsList(s \o X)
  BY <1>2, <1>3, GuardKept
<1>5. Guards(kind, guard, s \o X \o Y)
  BY <1>2, <1>4, GuardKept
<1> QED BY <1>4, <1>5 DEF ScriptOf, UpdateAssignmentScript, DeactivateAssignmentScript,
                        guard, kind, s, X, Y

\* Archive locks every assignment of the group before it deletes occurrences.
LEMMA ArchiveGuards ==
  ASSUME NEW r, Described(r), r.op = "ArchiveGroup", NEW a \in DOMAIN r.assignments
  PROVE  Guards(<<"occurrences", "update">>, ForUpdate("habit_assignments", r.assignments[a]),
                ScriptOf(r))
<1> DEFINE guard == ForUpdate("habit_assignments", r.assignments[a])
           kind == <<"occurrences", "update">>
           s1 == Look(r) \o Reserve(r) \o <<ForUpdate("routine_groups", r.group)>>
           m0 == Each("occurrences", r.taskOccurrences, "no_key_update")
           t1 == Each("one_off_tasks", r.tasks, "no_key_update")
           t2 == Each("routine_groups", r.destination, "key_share")
           t3 == Each("habit_assignments", r.assignments, "update")
           t4 == Replace(r.moves)
           t5 == Each("routine_groups", r.groups, "no_key_update")
<1>1. /\ r.taskOccurrences \in Seq(Rows) /\ r.tasks \in Seq(Rows) /\ r.destination \in Seq(Rows)
      /\ r.assignments \in Seq(Rows) /\ r.groups \in Seq(Rows)
  BY DEF Described, Lists
<1>2. IsList(m0) /\ IsList(t1) /\ IsList(t2) /\ IsList(t3) /\ IsList(t4) /\ IsList(t5)
  BY <1>1, EachList, Replacing DEF Within
<1>3. Absent(kind, m0) /\ Absent(kind, t1) /\ Absent(kind, t2) /\ Absent(kind, t3)
  BY <1>1, EachAbsent
<1>4. Absent(kind, s1) /\ IsList(s1)
  <2>1. Within(r, Look(r) \o Reserve(r), Begun) /\ kind \notin Begun
    BY Beginnings DEF Begun
  <2>2. Absent(kind, Look(r) \o Reserve(r)) /\ IsList(Look(r) \o Reserve(r))
    BY <2>1, NotAmong DEF Within
  <2>3. Kind(ForUpdate("routine_groups", r.group)) # kind
    BY DEF Kind, ForUpdate, Take
  <2> QED BY <2>2, <2>3, AbsentKept
<1>5. Guards(kind, guard, t3)
  <2>1. \E i \in 1 .. Len(t3) : t3[i] = guard
    <3> DEFINE list == r.assignments
               table == "habit_assignments"
               mode == "update"
    <3>1. list \in Seq(Rows) /\ a \in DOMAIN list
      BY <1>1
    <3> HIDE DEF list, table, mode
    <3>2. \E i \in 1 .. Len(Each(table, list, mode)) :
            Each(table, list, mode)[i] = Take(table, list[a], mode)
      BY <3>1, EachHas
    <3> QED BY <3>2 DEF ForUpdate, list, table, mode
  <2> HIDE DEF t3
  <2> QED BY <1>3, <2>1 DEF Guards, Absent
<1> HIDE DEF guard, s1, m0, t1, t2, t3, t4, t5, kind
<1>6. Absent(kind, m0 \o t1 \o t2) /\ IsList(m0 \o t1 \o t2)
  BY <1>2, <1>3, AbsentJoined
<1>7. Guards(kind, guard, m0 \o t1 \o t2 \o t3) /\ IsList(m0 \o t1 \o t2 \o t3)
  BY <1>2, <1>5, <1>6, GuardLater
<1>8. Guards(kind, guard, m0 \o t1 \o t2 \o t3 \o t4) /\ IsList(m0 \o t1 \o t2 \o t3 \o t4)
  BY <1>2, <1>7, GuardKept
<1>9. Guards(kind, guard, MoveItems(r)) /\ IsList(MoveItems(r))
  BY <1>8 DEF MoveItems, m0, t1, t2, t3, t4
<1>10. Guards(kind, guard, s1 \o MoveItems(r)) /\ IsList(s1 \o MoveItems(r))
  BY <1>4, <1>9, GuardLater
<1>11. Guards(kind, guard, s1 \o MoveItems(r) \o t5)
  BY <1>2, <1>10, GuardKept
<1> QED BY <1>11 DEF ScriptOf, ArchiveGroupScript, s1, t5, guard, kind

\* CreateAssignments locks the children in the order of their ids.
LEMMA FamilyAssignmentsById ==
  ASSUME NEW r, Described(r), r.op = "CreateAssignments"
  PROVE  ById(ScriptOf(r))
<1> DEFINE kind == <<"children", "update">>
           s == Look(r) \o Reserve(r) \o <<ForUpdate("habits", r.habit)>>
           X == Each("children", r.children, "update")
           Y == Each("routine_groups", r.groups, "key_share")
<1>1. r.children \in Seq(Rows) /\ r.groups \in Seq(Rows) /\ DOMAIN r.children = 1 .. Len(r.children)
  BY DEF Described, Lists
<1>2. IsList(X) /\ IsList(Y)
  BY <1>1, EachList
<1>3. Absent(kind, Y)
  BY <1>1, EachAbsent
<1>4. Absent(kind, s) /\ IsList(s)
  <2>1. Within(r, Look(r) \o Reserve(r), Begun) /\ kind \notin Begun
    BY Beginnings DEF Begun
  <2>2. Absent(kind, Look(r) \o Reserve(r)) /\ IsList(Look(r) \o Reserve(r))
    BY <2>1, NotAmong DEF Within
  <2>3. Kind(ForUpdate("habits", r.habit)) # kind
    BY DEF Kind, ForUpdate, Take
  <2> QED BY <2>2, <2>3, AbsentKept
<1>5. ById(X)
  <2>1. Len(X) = Len(r.children)
    BY <1>1, EachList
  <2> HIDE DEF X
  <2> SUFFICES ASSUME NEW i \in 1 .. Len(X), NEW j \in 1 .. Len(X), i < j
               PROVE  Ascending(X[i], X[j])
    BY DEF ById
  <2>2. /\ i \in DOMAIN r.children /\ j \in DOMAIN r.children
        /\ X[i] = Take("children", r.children[i], "update")
        /\ X[j] = Take("children", r.children[j], "update")
    BY <1>1, <2>1, EachRow DEF X
  <2>3. /\ r.children[i] \in Rows /\ r.children[j] \in Rows
        /\ <<r.children[i], r.children[j]>> \in IdOrder
    BY <1>1, <2>2 DEF Described
  <2> QED BY <2>2, <2>3 DEF Ascending, Take
<1> HIDE DEF s, X, Y, kind
<1>6. ById(s \o X) /\ IsList(s \o X)
  BY <1>2, <1>4, <1>5, ByIdJoined DEF kind
<1>7. ById(s \o X \o Y)
  BY <1>2, <1>3, <1>6, ByIdJoined DEF kind
<1> QED BY <1>7 DEF ScriptOf, CreateAssignmentsScript, s, X, Y

\* Every handler locks those rows behind their guards.
LEMMA ScriptsGuarded ==
  ASSUME NEW r, Described(r)
  PROVE  Guarded(r, ScriptOf(r))
BY CompletionGuards, HabitGuards, AssignmentGuards, ArchiveGuards, FamilyAssignmentsById
   DEF Guarded

-----------------------------------------------------------------------------
(* Two requests, each of which holds what the other asks for *)

LEMMA Pair ==
  ASSUME NEW S, NEW T, NEW s \in S, NEW t \in T
  PROVE  {s, t} \in Pairs(S, T) /\ {t, s} \in Pairs(S, T)
<1>1. {t, s} = {s, t}
  OBVIOUS
<1> QED BY <1>1 DEF Pairs

\* The pairs of handlers that Turns allows to meet that way and that do not, because
\* what they hold already keeps one of them out.
Excluded(T, U, op, op2) ==
  \/ "idempotency_records" \in {T, U}
  \/ T = "sessions" /\ U = "sessions"
  \/ T = "habit_assignments" /\ U = "habit_assignments" /\ op = "DeactivateHabit" /\ op2 = op
  \/ /\ {T, U} = {"habit_assignments", "occurrences"}
     /\ {op, op2} = {"ArchiveGroup", "DeactivateAssignment"}
  \/ /\ T = "occurrences" /\ U = "occurrences"
     /\ \/ {op, op2} = {"ArchiveGroup", "DeactivateAssignment"}
        \/ {op, op2} \subseteq {"UpdateAssignment", "DeactivateAssignment"}
        \/ {op, op2} \subseteq {"UpdateHabit", "DeactivateHabit"}
  \/ T = "children" /\ U = "children" /\ op = "CreateAssignments" /\ op2 = op

\* Against the order of Rank.
LEMMA OpposedFall ==
  ASSUME NEW op, NEW op2, NEW T, NEW U, NEW m, NEW n, NEW m2, NEW n2,
         <<T, U>> \in Falls, Turns(op, T, m, U, n), Turns(op2, U, m2, T, n2),
         Clash(n, m2), Clash(n2, m)
  PROVE  \/ {op, op2} \in KnownDeadlocks
         \/ {T, U} = {"children", "sessions"} /\ {op, op2} \in SessionDeadlocks
         \/ Excluded(T, U, op, op2)
<1>1. CASE T = "sessions" /\ U = "idempotency_records"
  BY <1>1 DEF Excluded
<1>2. CASE T = "children" /\ U = "idempotency_records"
  BY <1>2 DEF Excluded
<1>3. CASE T = "families" /\ U = "families"
  BY <1>3, Pair DEF Turns, Clash, Clashes, KnownDeadlocks
<1>4. CASE T = "sessions" /\ U = "families"
  BY <1>4 DEF Turns, Clash, Clashes
<1>5. CASE T = "children" /\ U = "families"
  BY <1>5 DEF Turns, Clash, Clashes
<1>6. CASE T = "habits" /\ U = "families"
  BY <1>6 DEF Turns, Clash, Clashes
<1>7. CASE T = "sessions" /\ U = "sessions"
  BY <1>7 DEF Excluded
<1>8. CASE T = "children" /\ U = "sessions"
  <2>1. op \in {"Submit", "Withdraw", "Redeem", "UpdateChild", "ArchiveChild", "Enter"}
    BY <1>8 DEF Turns
  <2>2. CASE op2 \in {"Approve", "Reverse", "Correct"}
    <3>1. {op, op2} \in SessionDeadlocks
      BY <2>1, <2>2, Pair DEF SessionDeadlocks
    <3> QED BY <1>8, <3>1
  <2>3. CASE op2 \notin {"Approve", "Reverse", "Correct"}
    <3>1. /\ m2 = "key_share"
          /\ op2 \in {"Decide", "CreateReward", "UpdateReward", "CreateAssignment",
                      "CreateAssignments", "UpdateAssignment", "CreateTask", "ArchiveGroup"}
      BY <1>8, <2>3 DEF Turns
    <3>2. op \in {"Submit", "Withdraw"}
      BY <1>8, <3>1 DEF Turns, Clash, Clashes
    <3>3. {op, op2} \in SessionDeadlocks
      BY <3>1, <3>2, Pair DEF SessionDeadlocks
    <3> QED BY <1>8, <3>3
  <2> QED BY <2>2, <2>3
<1>9. CASE T = "one_off_tasks" /\ U = "one_off_tasks"
  BY <1>9, Pair DEF Turns, KnownDeadlocks
<1>10. CASE T = "occurrences" /\ U = "one_off_tasks"
  BY <1>10, Pair DEF Turns, KnownDeadlocks
<1>11. CASE T = "routine_groups" /\ U = "one_off_tasks"
  BY <1>11, Pair DEF Turns, KnownDeadlocks
<1>12. CASE T = "habit_assignments" /\ U = "habit_assignments"
  <2>1. /\ \/ op \in {"ArchiveGroup", "DeactivateHabit"}
           \/ op = "EnsureDate" /\ m = "key_share" /\ n = "key_share"
        /\ \/ op2 \in {"ArchiveGroup", "DeactivateHabit"}
           \/ op2 = "EnsureDate" /\ m2 = "key_share" /\ n2 = "key_share"
    BY <1>12 DEF Turns
  <2>2. ~ (op = "EnsureDate" /\ op2 = "EnsureDate")
    BY <2>1 DEF Clash, Clashes
  <2>3. CASE op = "DeactivateHabit" /\ op2 = op
    BY <1>12, <2>3 DEF Excluded
  <2>4. CASE "ArchiveGroup" \in {op, op2}
    BY <2>1, <2>4, Pair DEF KnownDeadlocks
  <2>5. CASE {op, op2} = {"DeactivateHabit", "EnsureDate"}
    BY <2>5, Pair DEF KnownDeadlocks
  <2> QED BY <2>1, <2>2, <2>3, <2>4, <2>5
<1>13. CASE T = "occurrences" /\ U = "habit_assignments"
  <2>1. /\ op = "ArchiveGroup"
        /\ op2 \in {"UpdateAssignment", "DeactivateAssignment", "DeactivateHabit", "ArchiveGroup"}
    BY <1>13 DEF Turns
  <2>2. CASE op2 = "DeactivateAssignment"
    BY <1>13, <2>1, <2>2 DEF Excluded
  <2>3. CASE op2 # "DeactivateAssignment"
    BY <2>1, <2>3, Pair DEF KnownDeadlocks
  <2> QED BY <2>2, <2>3
<1>14. CASE T = "habits" /\ U = "habit_assignments"
  BY <1>14, Pair DEF Turns, Clash, Clashes, KnownDeadlocks
<1>15. CASE T = "children" /\ U = "habit_assignments"
  BY <1>15 DEF Turns, Clash, Clashes
<1>16. CASE T = "routine_groups" /\ U = "habit_assignments"
  BY <1>16, Pair DEF Turns, KnownDeadlocks
<1>17. CASE T = "occurrences" /\ U = "occurrences"
  <2> DEFINE Assignments == {"UpdateAssignment", "DeactivateAssignment"}
             Habits == {"UpdateHabit", "DeactivateHabit"}
             All == Assignments \cup Habits \cup {"ArchiveGroup"}
  <2>1. op \in All /\ op2 \in All
    BY <1>17 DEF Turns
  <2>2. CASE \/ {op, op2} \subseteq Assignments \/ {op, op2} \subseteq Habits
             \/ {op, op2} = {"ArchiveGroup", "DeactivateAssignment"}
    BY <1>17, <2>2 DEF Excluded
  <2>3. CASE op \in Assignments /\ op2 \in Habits
    BY <2>3, Pair DEF KnownDeadlocks
  <2>4. CASE op \in Habits /\ op2 \in Assignments
    BY <2>4, Pair DEF KnownDeadlocks
  <2>5. CASE op = "ArchiveGroup" /\ op2 # "DeactivateAssignment"
    BY <2>1, <2>5, Pair DEF KnownDeadlocks
  <2>6. CASE op2 = "ArchiveGroup" /\ op # "DeactivateAssignment"
    BY <2>1, <2>6, Pair DEF KnownDeadlocks
  <2>7. {"ArchiveGroup", "DeactivateAssignment"} = {"DeactivateAssignment", "ArchiveGroup"}
    OBVIOUS
  <2> QED BY <2>1, <2>2, <2>3, <2>4, <2>5, <2>6, <2>7
<1>18. CASE T = "habits" /\ U = "occurrences"
  BY <1>18, Pair DEF Turns, KnownDeadlocks
<1>19. CASE T = "children" /\ U = "occurrences"
  BY <1>19, Pair DEF Turns, KnownDeadlocks
<1>20. CASE T = "routine_groups" /\ U = "occurrences"
  BY <1>20, Pair DEF Turns, KnownDeadlocks
<1>21. CASE T = "habits" /\ U = "habits"
  BY <1>21 DEF Turns, Clash, Clashes
<1>22. CASE T = "children" /\ U = "habits"
  BY <1>22, Pair DEF Turns, Clash, Clashes, KnownDeadlocks
<1>23. CASE T = "routine_groups" /\ U = "habits"
  BY <1>23, Pair DEF Turns, KnownDeadlocks
<1>24. CASE T = "children" /\ U = "rewards"
  BY <1>24, Pair DEF Turns, KnownDeadlocks
<1>25. CASE T = "children" /\ U = "children"
  <2>1. /\ \/ op \in {"CreateReward", "UpdateReward", "ArchiveGroup"}
              /\ m = "key_share" /\ n = "key_share"
           \/ op \in {"CreateAssignments", "ParentProgress"} /\ m = "update" /\ n = "update"
           \/ op = "EnsureDate" /\ m = "share" /\ n = "share"
        /\ \/ op2 \in {"CreateReward", "UpdateReward", "ArchiveGroup"}
                 /\ m2 = "key_share" /\ n2 = "key_share"
           \/ op2 \in {"CreateAssignments", "ParentProgress"} /\ m2 = "update" /\ n2 = "update"
           \/ op2 = "EnsureDate" /\ m2 = "share" /\ n2 = "share"
    BY <1>25 DEF Turns
  <2>2. /\ {op, op2} \subseteq {"CreateReward", "UpdateReward", "ArchiveGroup", "CreateAssignments",
                                 "ParentProgress", "EnsureDate"}
        /\ {op, op2} \cap {"CreateAssignments", "ParentProgress"} # {}
    BY <2>1 DEF Clash, Clashes
  <2>3. CASE op = "CreateAssignments" /\ op2 = op
    BY <1>25, <2>3 DEF Excluded
  <2>4. CASE "ParentProgress" \in {op, op2}
    BY <2>2, <2>4, Pair DEF KnownDeadlocks
  <2>5. CASE /\ "CreateAssignments" \in {op, op2}
             /\ {op, op2} \cap {"CreateReward", "UpdateReward", "ArchiveGroup", "EnsureDate"} # {}
    BY <2>5, Pair DEF KnownDeadlocks
  <2> QED BY <2>2, <2>3, <2>4, <2>5
<1>26. CASE T = "routine_groups" /\ U = "children"
  BY <1>26, Pair DEF Turns, Clash, Clashes, KnownDeadlocks
<1>27. CASE T = "routine_groups" /\ U = "routine_groups"
  BY <1>27, Pair DEF Turns, Clash, Clashes, KnownDeadlocks
<1> QED BY <1>1, <1>2, <1>3, <1>4, <1>5, <1>6, <1>7, <1>8, <1>9, <1>10, <1>11, <1>12,
           <1>13, <1>14, <1>15, <1>16, <1>17, <1>18, <1>19, <1>20, <1>21, <1>22, <1>23,
           <1>24, <1>25, <1>26, <1>27
        DEF Falls

-----------------------------------------------------------------------------
(* The invariants *)

\* A process runs the script of the request it serves.
Serving ==
  /\ DOMAIN script = Procs /\ DOMAIN serving = Procs
  /\ pc \in [Procs -> Nat]
  /\ \A p \in Procs : Running(p) =>
       /\ serving[p] \in Requests
       /\ script[p] = ScriptOf(serving[p])
       /\ pc[p] <= Len(script[p]) + 1

\* What two processes hold does not clash.
NeverClash ==
  \A p, q \in Procs : p # q =>
    \A l \in Held(p), k \in Held(q) : l.row = k.row => ~ Clash(l.mode, k.mode)

\* The places of a script up to where its process is.
Reached(p) == {i \in 1 .. Len(script[p]) : i <= pc[p]}

\* What is known of a process that runs.
LEMMA Served ==
  ASSUME Serving, LockAssumption, NEW p \in Procs, Running(p)
  PROVE  /\ serving[p] \in Requests /\ Described(serving[p])
         /\ Orderly(serving[p], script[p]) /\ Guarded(serving[p], script[p])
         /\ Len(script[p]) \in Nat /\ pc[p] \in Nat
         /\ pc[p] > 0 /\ pc[p] <= Len(script[p]) + 1
<1>1. serving[p] \in Requests /\ script[p] = ScriptOf(serving[p]) /\ pc[p] <= Len(script[p]) + 1
      /\ pc[p] \in Nat /\ pc[p] > 0
  BY DEF Serving, Running
<1>2. Described(serving[p])
  BY <1>1 DEF LockAssumption
<1>3. Orderly(serving[p], script[p]) /\ Guarded(serving[p], script[p])
  BY <1>1, <1>2, Scripts, ScriptsGuarded
<1>4. Len(script[p]) \in Nat
  BY <1>3 DEF Orderly, Within, IsList
<1> QED BY <1>1, <1>2, <1>3, <1>4

LEMMA Owned ==
  ASSUME Serving, LockAssumption, NEW p \in Procs, Running(p), NEW i \in Reached(p)
  PROVE  Own(serving[p], script[p][i])
BY Served DEF Orderly, Within, Reached

\* A guard is held when the rows behind it are, or are asked for.
LEMMA GuardHeld ==
  ASSUME Serving, LockAssumption, NEW p \in Procs, Running(p), NEW i \in Reached(p),
         NEW kind, NEW guard, Guards(kind, guard, script[p]), Kind(script[p][i]) = kind
  PROVE  guard \in Held(p)
<1>1. PICK j \in 1 .. Len(script[p]) : j < i /\ script[p][j] = guard
  BY DEF Guards, Reached
<1>2. Len(script[p]) \in Nat /\ pc[p] \in Nat
  BY Served
<1>3. j \in 1 .. pc[p] - 1
  BY <1>1, <1>2 DEF Reached
<1> QED BY <1>1, <1>3 DEF Held

\* Two processes do not hold a row for update.
LEMMA Apart ==
  ASSUME NeverClash, NEW p \in Procs, NEW q \in Procs, p # q,
         NEW table, NEW id, ForUpdate(table, id) \in Held(p), ForUpdate(table, id) \in Held(q)
  PROVE  FALSE
<1> DEFINE l == ForUpdate(table, id)
<1>1. l.mode = "update" /\ l.row = l.row
  BY DEF ForUpdate, Take
<1>2. Clash(l.mode, l.mode)
  BY <1>1 DEF Clash, Clashes
<1> QED BY <1>1, <1>2 DEF NeverClash

LEMMA SameRow ==
  ASSUME NEW table, NEW x, NEW y, <<table, x>> = <<table, y>>
  PROVE  x = y
<1>1. <<table, x>>[2] = x /\ <<table, y>>[2] = y
  OBVIOUS
<1> QED BY <1>1

LEMMA SharedKey ==
  ASSUME NEW r, NEW s, NEW l, NEW k, Own(r, l), Own(s, k), l.row = k.row,
         l.table = "idempotency_records", k.table = "idempotency_records"
  PROVE  r.session = s.session /\ r.key = s.key
<1>1. <<r.session, r.key>> = <<s.session, s.key>>
  BY SameRow DEF Own
<1> QED BY <1>1

\* Two requests with one key share a session, which one of them locked first.
LEMMA NoSharedKey ==
  ASSUME Serving, NeverClash, LockAssumption, NEW p \in Procs, NEW q \in Procs, p # q,
         Running(p), Running(q), NEW i \in Reached(p), NEW j \in Reached(q),
         script[p][i].row = script[q][j].row,
         script[p][i].table = "idempotency_records", script[q][j].table = "idempotency_records",
         serving[p].op \in {"Submit", "Withdraw", "Approve", "Reject", "Reverse", "Correct"}
  PROVE  FALSE
<1> DEFINE r == serving[p]
           s == serving[q]
           kind == <<"idempotency_records", "update">>
<1>1. Own(r, script[p][i]) /\ Own(s, script[q][j])
  BY Owned
<1>2. r.session = s.session /\ r.key = s.key
  BY <1>1, SharedKey
<1>3. r.op = s.op
  BY <1>2, Served DEF Described
<1>4. Guards(kind, Session(r, "update"), script[p]) /\ Guards(kind, Session(s, "update"), script[q])
  BY <1>3, Served DEF Guarded
<1>5. Kind(script[p][i]) = kind /\ Kind(script[q][j]) = kind
  BY <1>1 DEF Own, Kind
<1>6. Session(r, "update") \in Held(p) /\ Session(s, "update") \in Held(q)
  BY <1>4, <1>5, GuardHeld
<1>7. Session(s, "update") = ForUpdate("sessions", r.session)
      /\ Session(r, "update") = ForUpdate("sessions", r.session)
  BY <1>2 DEF Session, ForUpdate
<1> QED BY <1>6, <1>7, Apart

\* An occurrence of an assignment that is held, or asked for, with the assignment.
LEMMA OccurrenceHeld ==
  ASSUME Serving, LockAssumption, NEW p \in Procs, Running(p), NEW i \in Reached(p),
         script[p][i].table = "occurrences",
         serving[p].op \in {"UpdateAssignment", "DeactivateAssignment", "ArchiveGroup"}
  PROVE  \/ serving[p].op = "ArchiveGroup" /\
            \E k \in DOMAIN serving[p].taskOccurrences :
               script[p][i].row = <<"occurrences", serving[p].taskOccurrences[k]>>
         \/ \E o : /\ script[p][i].row = <<"occurrences", o>>
                   /\ ForUpdate("habit_assignments", AssignmentOf[o]) \in Held(p)
<1> DEFINE r == serving[p]
           l == script[p][i]
           kind == <<"occurrences", "update">>
<1>1. Own(r, l) /\ Described(r) /\ Guarded(r, script[p])
  BY Owned, Served
<1>2. CASE r.op # "ArchiveGroup"
  <2>1. PICK k \in DOMAIN r.habitOccurrences : l.row = <<"occurrences", r.habitOccurrences[k]>>
    BY <1>1, <1>2 DEF Own
  <2>2. AssignmentOf[r.habitOccurrences[k]] = r.assignment
    BY <1>1, <1>2 DEF Described
  <2>3. Kind(l) = kind
    BY <1>1, <1>2 DEF Own, Kind
  <2>4. Guards(kind, ForUpdate("habit_assignments", r.assignment), script[p])
    BY <1>1, <1>2 DEF Guarded
  <2>5. ForUpdate("habit_assignments", r.assignment) \in Held(p)
    BY <2>3, <2>4, GuardHeld
  <2> QED BY <2>1, <2>2, <2>5
<1>3. CASE r.op = "ArchiveGroup" /\ l.mode = "update" /\
           \E k \in DOMAIN r.moves : l.row = <<"occurrences", r.moves[k].occurrence>>
  <2>1. PICK k \in DOMAIN r.moves : l.row = <<"occurrences", r.moves[k].occurrence>>
    BY <1>3
  <2>2. PICK a \in DOMAIN r.assignments : AssignmentOf[r.moves[k].occurrence] = r.assignments[a]
    BY <1>1, <1>3 DEF Described
  <2>3. Kind(l) = kind
    BY <1>3 DEF Kind
  <2>4. Guards(kind, ForUpdate("habit_assignments", r.assignments[a]), script[p])
    BY <1>1, <1>3 DEF Guarded
  <2>5. ForUpdate("habit_assignments", r.assignments[a]) \in Held(p)
    BY <2>3, <2>4, GuardHeld
  <2> QED BY <2>1, <2>2, <2>5
<1>4. CASE r.op = "ArchiveGroup" /\
           \E k \in DOMAIN r.taskOccurrences : l.row = <<"occurrences", r.taskOccurrences[k]>>
  BY <1>4
<1> QED BY <1>1, <1>2, <1>3, <1>4 DEF Own

\* Two handlers that hold the assignment of an occurrence do not meet there.
LEMMA NoSharedOccurrence ==
  ASSUME Serving, NeverClash, LockAssumption, NEW p \in Procs, NEW q \in Procs, p # q,
         Running(p), Running(q), NEW i \in Reached(p), NEW j \in Reached(q),
         script[p][i].row = script[q][j].row,
         script[p][i].table = "occurrences", script[q][j].table = "occurrences",
         serving[p].op \in {"UpdateAssignment", "DeactivateAssignment", "ArchiveGroup"},
         serving[q].op \in {"UpdateAssignment", "DeactivateAssignment"}
  PROVE  FALSE
<1> DEFINE l == script[p][i]
<1>1. PICK o : /\ script[q][j].row = <<"occurrences", o>>
               /\ ForUpdate("habit_assignments", AssignmentOf[o]) \in Held(q)
  BY OccurrenceHeld
<1>2. PICK k \in DOMAIN serving[q].habitOccurrences :
        script[q][j].row = <<"occurrences", serving[q].habitOccurrences[k]>>
  BY Owned DEF Own
<1>3. ~ \E t \in DOMAIN serving[p].taskOccurrences :
          l.row = <<"occurrences", serving[p].taskOccurrences[t]>>
  <2> SUFFICES ASSUME NEW t \in DOMAIN serving[p].taskOccurrences,
                      l.row = <<"occurrences", serving[p].taskOccurrences[t]>>
               PROVE  FALSE
    OBVIOUS
  <2>1. serving[p].taskOccurrences[t] = serving[q].habitOccurrences[k]
    <3> DEFINE x == serving[p].taskOccurrences[t]
               y == serving[q].habitOccurrences[k]
    <3>1. <<"occurrences", x>> = <<"occurrences", y>>
      BY <1>2
    <3> HIDE DEF x, y
    <3>2. x = y
      BY <3>1, SameRow
    <3> QED BY <3>2 DEF x, y
  <2>2. serving[p] \in Requests /\ serving[q] \in Requests
    BY Served
  <2> QED BY <1>2, <2>1, <2>2 DEF LockAssumption
<1>4. PICK x : /\ l.row = <<"occurrences", x>>
               /\ ForUpdate("habit_assignments", AssignmentOf[x]) \in Held(p)
  BY <1>3, OccurrenceHeld
<1>5. x = o
  BY <1>1, <1>4
<1> QED BY <1>1, <1>4, <1>5, Apart

\* A row of a habit that is held, or asked for, with the habit.
LEMMA NoSharedHabitRow ==
  ASSUME Serving, NeverClash, LockAssumption, NEW p \in Procs, NEW q \in Procs, p # q,
         Running(p), Running(q), NEW i \in Reached(p), NEW j \in Reached(q),
         script[p][i].row = script[q][j].row,
         NEW table, script[p][i].table = table, script[q][j].table = table,
         \/ /\ table = "occurrences"
            /\ serving[p].op \in {"UpdateHabit", "DeactivateHabit"}
            /\ serving[q].op \in {"UpdateHabit", "DeactivateHabit"}
         \/ /\ table = "habit_assignments"
            /\ serving[p].op = "DeactivateHabit" /\ serving[q].op = "DeactivateHabit"
  PROVE  FALSE
<1>1. ASSUME NEW u \in {p, q}, NEW k \in Reached(u), script[u][k].table = table
      PROVE  \E o : /\ script[u][k].row = <<table, o>>
                    /\ ForUpdate("habits", IF table = "occurrences" THEN HabitOf[AssignmentOf[o]]
                                           ELSE HabitOf[o]) \in Held(u)
  <2> DEFINE r == serving[u]
             l == script[u][k]
  <2>1. Running(u) /\ u \in Procs
    OBVIOUS
  <2>2. Own(r, l) /\ Described(r) /\ Guarded(r, script[u])
    BY <1>1, <2>1, Owned, Served
  <2>3. CASE table = "occurrences"
    <3>1. PICK x \in DOMAIN r.habitOccurrences : l.row = <<"occurrences", r.habitOccurrences[x]>>
      BY <1>1, <2>2, <2>3 DEF Own
    <3>2. HabitOf[AssignmentOf[r.habitOccurrences[x]]] = r.habit
      BY <2>2, <2>3 DEF Described
    <3>3. Kind(l) = <<"occurrences", "update">>
      BY <1>1, <2>2, <2>3 DEF Own, Kind
    <3>4. Guards(<<"occurrences", "update">>, ForUpdate("habits", r.habit), script[u])
      BY <2>2, <2>3 DEF Guarded
    <3>5. ForUpdate("habits", r.habit) \in Held(u)
      BY <1>1, <2>1, <3>3, <3>4, GuardHeld
    <3> QED BY <2>3, <3>1, <3>2, <3>5
  <2>4. CASE table = "habit_assignments"
    <3>1. PICK a : l.row = <<"habit_assignments", a>> /\ HabitOf[a] = r.habit
      BY <1>1, <2>2, <2>4 DEF Own
    <3>2. PICK mode \in {"no_key_update", "update"} : Kind(l) = <<"habit_assignments", mode>>
      BY <1>1, <2>2, <2>4 DEF Own, Kind
    <3>3. Guards(<<"habit_assignments", mode>>, ForUpdate("habits", r.habit), script[u])
      BY <2>2, <2>4 DEF Guarded
    <3>4. ForUpdate("habits", r.habit) \in Held(u)
      BY <1>1, <2>1, <3>2, <3>3, GuardHeld
    <3> QED BY <2>4, <3>1, <3>4
  <2> QED BY <2>3, <2>4
<1> DEFINE habit(o) == IF table = "occurrences" THEN HabitOf[AssignmentOf[o]] ELSE HabitOf[o]
<1>2. PICK x : script[p][i].row = <<table, x>> /\ ForUpdate("habits", habit(x)) \in Held(p)
  BY <1>1
<1>3. PICK y : script[q][j].row = <<table, y>> /\ ForUpdate("habits", habit(y)) \in Held(q)
  BY <1>1
<1> HIDE DEF habit
<1>4. x = y
  BY <1>2, <1>3, SameRow
<1> QED BY <1>2, <1>3, <1>4, Apart

\* The rows around which two processes wait for each other: p has reached its lock i
\* and asks for what q's lock j is on, and the other way round.
Facing(p, q, i, j) ==
  /\ Running(p) /\ Running(q)
  /\ i \in Reached(p) /\ i < pc[p] /\ pc[p] \in Reached(p)
  /\ j \in Reached(q) /\ j < pc[q] /\ pc[q] \in Reached(q)
  /\ script[q][j].row = Step(p).row /\ Clash(script[q][j].mode, Step(p).mode)
  /\ script[p][i].row = Step(q).row /\ Clash(script[p][i].mode, Step(q).mode)

\* Two processes that wait for each other face each other.
LEMMA Met ==
  ASSUME Serving, LockAssumption, NEW p \in Procs, NEW q \in Procs,
         WaitsFor(p, q), WaitsFor(q, p)
  PROVE  \E i, j \in Nat : Facing(p, q, i, j) /\ Facing(q, p, j, i)
<1>1. /\ Running(p) /\ pc[p] \in 1 .. Len(script[p])
      /\ Running(q) /\ pc[q] \in 1 .. Len(script[q])
  BY DEF WaitsFor, Waiting, Running, Serving
<1>2. Len(script[p]) \in Nat /\ Len(script[q]) \in Nat /\ pc[p] \in Nat /\ pc[q] \in Nat
  BY <1>1, Served
<1>3. PICK j \in 1 .. pc[q] - 1 : Denies(script[q][j], Step(p).row, Step(p).mode)
  BY DEF WaitsFor, Held
<1>4. PICK i \in 1 .. pc[p] - 1 : Denies(script[p][i], Step(q).row, Step(q).mode)
  BY DEF WaitsFor, Held
<1>5. /\ i \in Reached(p) /\ pc[p] \in Reached(p) /\ j \in Reached(q) /\ pc[q] \in Reached(q)
      /\ i < pc[p] /\ j < pc[q] /\ i \in Nat /\ j \in Nat
  BY <1>1, <1>2 DEF Reached
<1> QED BY <1>1, <1>3, <1>4, <1>5 DEF Facing, Denies

\* What they hold and ask for are locks of their scripts, in that order.
LEMMA Turned ==
  ASSUME Serving, LockAssumption, NEW p \in Procs, NEW q \in Procs, NEW i, NEW j,
         Facing(p, q, i, j)
  PROVE  /\ script[q][j].table = Step(p).table
         /\ Turns(serving[p].op, script[p][i].table, script[p][i].mode, Step(p).table, Step(p).mode)
<1>1. Own(serving[q], script[q][j]) /\ Own(serving[p], Step(p))
  BY Owned DEF Facing, Step
<1>2. script[q][j].table = Step(p).table
  BY <1>1 DEF Own, Facing
<1>3. script[p][i].mode # "read" /\ Step(p).mode # "read"
  BY DEF Facing, Clash, Clashes
<1>4. PICK K : Within(serving[p], script[p], K)
  BY Served DEF Facing, Orderly
<1>5. i \in 1 .. Len(script[p]) /\ pc[p] \in 1 .. Len(script[p]) /\ i < pc[p]
  BY DEF Facing, Reached
<1>6. Orders(serving[p].op, script[p][i], Step(p))
  BY <1>3, <1>4, <1>5 DEF Within, Step
<1> QED BY <1>2, <1>6 DEF Orders

\* Nobody gets that far with a handler that the guards keep out.
LEMMA NotExcluded ==
  ASSUME Serving, NeverClash, LockAssumption, NEW p \in Procs, NEW q \in Procs, p # q,
         NEW i, NEW j, Facing(p, q, i, j), Facing(q, p, j, i),
         <<script[p][i].table, Step(p).table>> \in Falls
  PROVE  ~ Excluded(script[p][i].table, Step(p).table, serving[p].op, serving[q].op)
<1> DEFINE a == script[p][i]
           b == Step(p)
           c == script[q][j]
           d == Step(q)
           op == serving[p].op
           op2 == serving[q].op
<1>1. /\ Turns(op, a.table, a.mode, b.table, b.mode) /\ c.table = b.table
      /\ Turns(op2, c.table, c.mode, d.table, d.mode) /\ a.table = d.table
  BY Turned
<1>2. /\ c.row = b.row /\ Clash(c.mode, b.mode) /\ a.row = d.row /\ Clash(a.mode, d.mode)
      /\ Running(p) /\ Running(q)
      /\ i \in Reached(p) /\ pc[p] \in Reached(p) /\ j \in Reached(q) /\ pc[q] \in Reached(q)
  BY DEF Facing
<1>3. /\ Own(serving[p], a) /\ Own(serving[p], b) /\ Own(serving[q], c) /\ Own(serving[q], d)
      /\ b = script[p][pc[p]] /\ d = script[q][pc[q]]
  BY <1>2, Owned DEF Step
<1> HIDE DEF b, d
<1>4. ASSUME "idempotency_records" \in {a.table, b.table}
      PROVE  FALSE
  <2>1. b.table = "idempotency_records" /\ a.table \in {"sessions", "children"}
    BY <1>4 DEF Falls, b
  <2>2. op \in {"Submit", "Withdraw", "Approve", "Reject", "Reverse", "Correct", "Redeem"}
    BY <1>1, <2>1 DEF Turns
  <2>3. CASE op = "Redeem"
    <3>1. a.table = "children"
      BY <1>1, <2>1, <2>3 DEF Turns
    <3>2. op2 # "Redeem"
      BY <1>1, <2>1, <3>1 DEF Turns
    <3>3. serving[p].session = serving[q].session /\ serving[p].key = serving[q].key
      BY <1>1, <1>2, <1>3, <2>1, SharedKey
    <3>4. serving[q] \in Requests /\ Described(serving[p])
      BY <1>2, Served
    <3>5. serving[p].op = serving[q].op
      BY <3>3, <3>4 DEF Described
    <3> QED BY <2>3, <3>2, <3>5
  <2>4. CASE op # "Redeem"
    BY <1>1, <1>2, <1>3, <2>1, <2>2, <2>4, NoSharedKey
  <2> QED BY <2>3, <2>4
<1>5. ASSUME a.table = "sessions", b.table = "sessions"
      PROVE  FALSE
  <2>1. b.mode = "key_share" /\ d.mode = "key_share"
    BY <1>1, <1>5 DEF Turns
  <2>2. a.mode = "update" /\ c.mode = "update"
    BY <1>2, <2>1 DEF Clash, Clashes
  <2>3. op # "ArchiveChild" /\ op2 # "ArchiveChild"
    BY <1>1, <1>5, <2>2 DEF Turns
  <2>4. a.row = b.row
    BY <1>3, <1>5, <2>3 DEF Own, SessionsOf
  <2>5. a \in Held(p) /\ c \in Held(q)
    <3>1. i \in 1 .. pc[p] - 1 /\ j \in 1 .. pc[q] - 1
      BY <1>2, Served DEF Facing, Reached
    <3> QED BY <3>1 DEF Held
  <2>6. Clash(a.mode, c.mode)
    BY <2>2 DEF Clash, Clashes
  <2> QED BY <1>2, <2>4, <2>5, <2>6 DEF NeverClash
<1>6. ASSUME a.table = "habit_assignments", b.table = "habit_assignments",
             op = "DeactivateHabit", op2 = op
      PROVE  FALSE
  BY <1>1, <1>2, <1>3, <1>6, NoSharedHabitRow
<1>7. ASSUME {a.table, b.table} = {"habit_assignments", "occurrences"},
             {op, op2} = {"ArchiveGroup", "DeactivateAssignment"}
      PROVE  FALSE
  <2>1. a.table = "occurrences" /\ b.table = "habit_assignments"
    BY <1>7 DEF Falls, b
  <2>2. op = "ArchiveGroup" /\ op2 = "DeactivateAssignment"
    BY <1>1, <1>7, <2>1 DEF Turns
  <2> QED BY <1>1, <1>2, <1>3, <2>1, <2>2, NoSharedOccurrence
<1>8. ASSUME a.table = "occurrences", b.table = "occurrences",
             \/ {op, op2} = {"ArchiveGroup", "DeactivateAssignment"}
             \/ {op, op2} \subseteq {"UpdateAssignment", "DeactivateAssignment"}
             \/ {op, op2} \subseteq {"UpdateHabit", "DeactivateHabit"}
      PROVE  FALSE
  <2>1. CASE {op, op2} \subseteq {"UpdateHabit", "DeactivateHabit"}
    BY <1>1, <1>2, <1>3, <1>8, <2>1, NoSharedHabitRow
  <2>2. CASE {op, op2} \subseteq {"UpdateAssignment", "DeactivateAssignment"}
    BY <1>1, <1>2, <1>3, <1>8, <2>2, NoSharedOccurrence
  <2>3. CASE op = "ArchiveGroup" /\ op2 = "DeactivateAssignment"
    BY <1>1, <1>2, <1>3, <1>8, <2>3, NoSharedOccurrence
  <2>4. CASE op2 = "ArchiveGroup" /\ op = "DeactivateAssignment"
    BY <1>1, <1>2, <1>3, <1>8, <2>4, NoSharedOccurrence
  <2> QED BY <1>8, <2>1, <2>2, <2>3, <2>4
<1>9. ASSUME a.table = "children", b.table = "children", op = "CreateAssignments", op2 = op
      PROVE  FALSE
  <2>1. a.mode = "update" /\ b.mode = "update" /\ c.mode = "update" /\ d.mode = "update"
    BY <1>1, <1>9 DEF Turns
  <2>2. ById(script[p]) /\ ById(script[q])
    BY <1>2, <1>9, Served DEF Guarded
  <2>3. /\ i \in 1 .. Len(script[p]) /\ pc[p] \in 1 .. Len(script[p]) /\ i < pc[p]
        /\ j \in 1 .. Len(script[q]) /\ pc[q] \in 1 .. Len(script[q]) /\ j < pc[q]
    BY DEF Facing, Reached
  <2>4. /\ Kind(a) = <<"children", "update">> /\ Kind(b) = <<"children", "update">>
        /\ Kind(c) = <<"children", "update">> /\ Kind(d) = <<"children", "update">>
    BY <1>1, <1>9, <2>1 DEF Kind
  <2>5. Ascending(a, b) /\ Ascending(c, d)
    BY <1>3, <2>2, <2>3, <2>4 DEF ById
  <2>6. PICK x \in Rows, y \in Rows :
          a.row = <<"children", x>> /\ b.row = <<"children", y>> /\ <<x, y>> \in IdOrder
    BY <2>5 DEF Ascending
  <2>7. PICK z \in Rows, w \in Rows :
          c.row = <<"children", z>> /\ d.row = <<"children", w>> /\ <<z, w>> \in IdOrder
    BY <2>5 DEF Ascending
  <2>8. z = y /\ w = x
    BY <1>2, <2>6, <2>7, SameRow
  <2> QED BY <2>6, <2>7, <2>8 DEF LockAssumption
<1> QED BY <1>4, <1>5, <1>6, <1>7, <1>8, <1>9 DEF Excluded, b

\* What DeadlocksAreKnown says of two processes.
Known(p, q) ==
  LET ops == {serving[p].op, serving[q].op}
  IN \/ ops \in KnownDeadlocks
     \/ ops \in SessionDeadlocks /\ SessionsOf(serving[p]) \cap SessionsOf(serving[q]) # {}

LEMMA Settled ==
  ASSUME Serving, NeverClash, LockAssumption, NEW p \in Procs, NEW q \in Procs, p # q,
         NEW i, NEW j, Facing(p, q, i, j), Facing(q, p, j, i),
         <<script[p][i].table, Step(p).table>> \in Falls
  PROVE  Known(p, q)
<1> DEFINE T == script[p][i].table
           U == Step(p).table
           op == serving[p].op
           op2 == serving[q].op
<1>1. /\ Turns(op, T, script[p][i].mode, U, Step(p).mode) /\ script[q][j].table = U
      /\ Turns(op2, U, script[q][j].mode, T, Step(q).mode) /\ T = Step(q).table
  BY Turned
<1>2. Clash(Step(p).mode, script[q][j].mode) /\ Clash(Step(q).mode, script[p][i].mode)
  BY DEF Facing, Clash
<1>3. ~ Excluded(T, U, op, op2)
  BY NotExcluded
<1>4. \/ {op, op2} \in KnownDeadlocks
      \/ {T, U} = {"children", "sessions"} /\ {op, op2} \in SessionDeadlocks
  BY <1>1, <1>2, <1>3, OpposedFall
<1>5. ASSUME {T, U} = {"children", "sessions"}
      PROVE  SessionsOf(serving[p]) \cap SessionsOf(serving[q]) # {}
  <2>1. /\ Own(serving[p], script[p][i]) /\ Own(serving[p], Step(p))
        /\ Own(serving[q], script[q][j]) /\ Own(serving[q], Step(q))
    BY Owned DEF Facing, Step
  <2>2. \E x \in SessionsOf(serving[p]), y \in SessionsOf(serving[q]) :
          <<"sessions", x>> = <<"sessions", y>>
    <3>1. CASE T = "sessions"
      BY <1>1, <2>1, <3>1 DEF Own, Facing
    <3>2. CASE U = "sessions"
      BY <1>1, <2>1, <3>2 DEF Own, Facing
    <3> QED BY <1>5, <3>1, <3>2
  <2> QED BY <2>2, SameRow
<1> QED BY <1>4, <1>5 DEF Known

\* One of the two goes against the order of Rank.
LEMMA WaitingIsKnown ==
  ASSUME Serving, NeverClash, LockAssumption, NEW p \in Procs, NEW q \in Procs, p # q,
         WaitsFor(p, q), WaitsFor(q, p)
  PROVE  Known(p, q)
<1>1. PICK i \in Nat, j \in Nat : Facing(p, q, i, j) /\ Facing(q, p, j, i)
  BY Met
<1> DEFINE T == script[p][i].table
           U == Step(p).table
<1>2. /\ Turns(serving[p].op, T, script[p][i].mode, U, Step(p).mode) /\ script[q][j].table = U
      /\ Turns(serving[q].op, U, script[q][j].mode, T, Step(q).mode) /\ T = Step(q).table
  BY <1>1, Turned
<1>3. CASE <<T, U>> \in Falls
  BY <1>1, <1>3, Settled
<1>4. CASE <<U, T>> \in Falls
  <2>1. Known(q, p)
    BY <1>1, <1>2, <1>4, Settled
  <2>2. {serving[q].op, serving[p].op} = {serving[p].op, serving[q].op}
    OBVIOUS
  <2> QED BY <2>1, <2>2 DEF Known
<1>5. Rank(T) < Rank(U) \/ <<T, U>> \in Falls
  BY <1>2 DEF Turns
<1>6. Rank(U) < Rank(T) \/ <<U, T>> \in Falls
  BY <1>2 DEF Turns
<1>7. Rank(T) \in Nat /\ Rank(U) \in Nat
  BY DEF Rank
<1> QED BY <1>3, <1>4, <1>5, <1>6, <1>7

-----------------------------------------------------------------------------
(* The steps *)

IInv == Serving /\ NeverClash

LEMMA Starts == Init => IInv
BY DEF Init, Idle, IInv, Serving, NeverClash, Running, Held

\* A step of one process leaves the others where they are.
LEMMA Begins ==
  ASSUME IInv, LockAssumption, NEW p \in Procs, NEW r \in Requests, Deliver(p, r)
  PROVE  IInv'
<1>1. /\ script' = [script EXCEPT ![p] = ScriptOf(r)]
      /\ pc' = [pc EXCEPT ![p] = 1]
      /\ serving' = [serving EXCEPT ![p] = r]
  BY DEF Deliver, Begin
<1>2. Len(ScriptOf(r)) \in Nat
  <2>1. Orderly(r, ScriptOf(r))
    BY Scripts DEF LockAssumption
  <2> QED BY <2>1 DEF Orderly, Within, IsList
<1>3. DOMAIN script = Procs /\ DOMAIN serving = Procs /\ pc \in [Procs -> Nat]
  BY DEF IInv, Serving
<1>4. script'[p] = ScriptOf(r) /\ serving'[p] = r /\ pc'[p] = 1
  BY <1>1, <1>3
<1>5. ASSUME NEW q \in Procs, q # p
      PROVE  script'[q] = script[q] /\ serving'[q] = serving[q] /\ pc'[q] = pc[q]
  BY <1>1, <1>3, <1>5
<1>6. Serving'
  <2>1. DOMAIN script' = Procs /\ DOMAIN serving' = Procs /\ pc' \in [Procs -> Nat]
    BY <1>1, <1>3
  <2>2. ASSUME NEW q \in Procs, Running(q)'
        PROVE  /\ serving'[q] \in Requests
               /\ script'[q] = ScriptOf(serving'[q])
               /\ pc'[q] <= Len(script'[q]) + 1
    <3>1. CASE q = p
      BY <1>2, <1>4, <3>1
    <3>2. CASE q # p
      BY <1>5, <2>2, <3>2 DEF IInv, Serving, Running
    <3> QED BY <3>1, <3>2
  <2> QED BY <2>1, <2>2 DEF Serving
<1>7. Held(p)' = {}
  BY <1>4 DEF Held
<1>8. \A q \in Procs : q # p => Held(q)' = Held(q)
  BY <1>5 DEF Held
<1>9. NeverClash'
  BY <1>7, <1>8 DEF IInv, NeverClash
<1> QED BY <1>6, <1>9 DEF IInv

LEMMA Advances ==
  ASSUME IInv, LockAssumption, NEW p \in Procs, Advance(p)
  PROVE  IInv'
<1>1. /\ pc[p] \in 1 .. Len(script[p]) /\ ~ Blocked(p)
      /\ pc' = [pc EXCEPT ![p] = @ + 1] /\ script' = script /\ serving' = serving
  BY DEF Advance, Pass, Waiting
<1>2. DOMAIN script = Procs /\ DOMAIN serving = Procs /\ pc \in [Procs -> Nat]
  BY DEF IInv, Serving
<1>3. pc'[p] = pc[p] + 1 /\ \A q \in Procs : q # p => pc'[q] = pc[q]
  BY <1>1, <1>2
<1>4. Serving'
  <2>1. DOMAIN script' = Procs /\ DOMAIN serving' = Procs /\ pc' \in [Procs -> Nat]
    BY <1>1, <1>2
  <2>2. ASSUME NEW q \in Procs, Running(q)'
        PROVE  /\ serving'[q] \in Requests
               /\ script'[q] = ScriptOf(serving'[q])
               /\ pc'[q] <= Len(script'[q]) + 1
    <3>1. CASE q = p
      <4>1. Running(p) /\ pc[p] \in Nat
        BY <1>1, <1>2 DEF Running
      <4>2. pc[p] <= Len(script[p])
        BY <1>1
      <4> QED BY <1>1, <1>3, <3>1, <4>1, <4>2, Served DEF IInv, Serving
    <3>2. CASE q # p
      BY <1>1, <1>3, <2>2, <3>2 DEF IInv, Serving, Running
    <3> QED BY <3>1, <3>2
  <2> QED BY <2>1, <2>2 DEF Serving
<1>5. Held(p)' = Held(p) \cup {Step(p)}
  <2>1. 1 .. pc'[p] - 1 = (1 .. pc[p] - 1) \cup {pc[p]}
    BY <1>1, <1>2, <1>3
  <2>2. Held(p)' = {script[p][i] : i \in 1 .. pc'[p] - 1}
    BY <1>1 DEF Held
  <2> QED BY <2>1, <2>2 DEF Held, Step
<1>6. \A q \in Procs : q # p => Held(q)' = Held(q)
  BY <1>1, <1>3 DEF Held
<1>7. ASSUME NEW q \in Procs, q # p, NEW k \in Held(q), k.row = Step(p).row
      PROVE  ~ Clash(k.mode, Step(p).mode) /\ ~ Clash(Step(p).mode, k.mode)
  BY <1>1, <1>7 DEF Blocked, WaitsFor, Waiting, Denies, Clash
<1>8. NeverClash'
  <2> SUFFICES ASSUME NEW q \in Procs, NEW u \in Procs, q # u,
                      NEW l \in Held(q)', NEW k \in Held(u)', l.row = k.row
               PROVE  ~ Clash(l.mode, k.mode)
    BY DEF NeverClash
  <2>1. CASE q = p /\ l = Step(p)
    BY <1>6, <1>7, <2>1
  <2>2. CASE u = p /\ k = Step(p)
    BY <1>6, <1>7, <2>2
  <2>3. CASE l \in Held(q) /\ k \in Held(u)
    BY <2>3 DEF IInv, NeverClash
  <2> QED BY <1>5, <1>6, <2>1, <2>2, <2>3
<1> QED BY <1>4, <1>8 DEF IInv

LEMMA Ends ==
  ASSUME IInv, NEW p \in Procs, Stop(p)
  PROVE  IInv'
<1>1. /\ script' = [script EXCEPT ![p] = <<>>]
      /\ pc' = [pc EXCEPT ![p] = 0]
      /\ serving' = [serving EXCEPT ![p] = NoRequest]
  BY DEF Stop, End
<1>2. DOMAIN script = Procs /\ DOMAIN serving = Procs /\ pc \in [Procs -> Nat]
  BY DEF IInv, Serving
<1>3. pc'[p] = 0
  BY <1>1, <1>2
<1>4. ASSUME NEW q \in Procs, q # p
      PROVE  script'[q] = script[q] /\ serving'[q] = serving[q] /\ pc'[q] = pc[q]
  BY <1>1, <1>2, <1>4
<1>5. Serving'
  <2>1. DOMAIN script' = Procs /\ DOMAIN serving' = Procs /\ pc' \in [Procs -> Nat]
    BY <1>1, <1>2
  <2>2. ASSUME NEW q \in Procs, Running(q)'
        PROVE  /\ serving'[q] \in Requests
               /\ script'[q] = ScriptOf(serving'[q])
               /\ pc'[q] <= Len(script'[q]) + 1
    <3>1. q # p
      BY <1>3, <2>2 DEF Running
    <3> QED BY <1>4, <2>2, <3>1 DEF IInv, Serving, Running
  <2> QED BY <2>1, <2>2 DEF Serving
<1>6. Held(p)' = {}
  BY <1>3 DEF Held
<1>7. \A q \in Procs : q # p => Held(q)' = Held(q)
  BY <1>4 DEF Held
<1>8. NeverClash'
  BY <1>6, <1>7 DEF IInv, NeverClash
<1> QED BY <1>5, <1>8 DEF IInv

\* Every step keeps the invariant.
LEMMA Inductive == LockAssumption /\ IInv /\ [Next]_vars => IInv'
<1> SUFFICES ASSUME LockAssumption, IInv, [Next]_vars
             PROVE  IInv'
  OBVIOUS
<1>1. ASSUME NEW p \in Procs, NEW r \in Requests, Deliver(p, r)
      PROVE  IInv'
  BY <1>1, Begins
<1>2. ASSUME NEW p \in Procs, Advance(p)
      PROVE  IInv'
  BY <1>2, Advances
<1>3. ASSUME NEW p \in Procs, Commit(p) \/ GiveUp(p) \/ Detect(p)
      PROVE  IInv'
  BY <1>3, Ends DEF Commit, GiveUp, Detect
<1>4. CASE UNCHANGED vars
  BY <1>4 DEF vars, lockVars, IInv, Serving, NeverClash, Running, Held
<1> QED BY <1>1, <1>2, <1>3, <1>4 DEF Next

LEMMA AlwaysServed == Spec => []IInv
<1>1. Init => IInv
  BY Starts
<1>2. IInv /\ [Next]_vars => IInv'
  BY LockAssumption, Inductive
<1> QED BY <1>1, <1>2, PTL DEF Spec

-----------------------------------------------------------------------------
\* Two requests that wait for each other are one of the pairs of handlers known to
\* take a pair of row locks in opposite orders, whatever rows they work on, however
\* many, and however many requests are served besides.
THEOREM DeadlocksAlwaysKnown == Spec => []DeadlocksAreKnown
<1>1. IInv => DeadlocksAreKnown
  <2> SUFFICES ASSUME IInv, NEW p \in Procs, NEW q \in Procs, p # q, Deadlocked({p, q})
               PROVE  Known(p, q)
    BY DEF DeadlocksAreKnown, Known
  <2>1. WaitsFor(p, q) /\ WaitsFor(q, p)
    BY DEF Deadlocked, WaitsFor
  <2> QED BY <2>1, LockAssumption, WaitingIsKnown DEF IInv
<1> QED BY <1>1, AlwaysServed, PTL
=============================================================================
