-------------------------- MODULE Sessions_proofs ---------------------------
(***************************************************************************)
(* What holds of Sessions for every household: any sessions, children and    *)
(* requests at once, any limits and any idle time.                         *)
(***************************************************************************)
EXTENDS Sessions, SequenceTheorems, FiniteSetTheorems, TLAPS

-----------------------------------------------------------------------------
(* The inductive invariant *)

Modes == {"absent", "shared", "parent", "child"}

Rows == {row \in [mode : Modes, child : Children \cup {NoChild},
                  activity : 0 .. MaxTime, live : BOOLEAN] :
           Shaped(row) /\ (row.live => row.mode # "absent")}

Attempts ==
  [op : {"login", "unlock", "enter", "lock", "archive", "look"},
   s : SessionIds \cup {NoSession}, c : Children \cup {NoChild},
   step : {"demote", "repair", "act", "verify", "entering", "check", "archive", "fail", "succeed"},
   last : 0 .. MaxTime, keys : Seq(Keys)]

\* What the step of a request says of its session and its child.
Named(q) ==
  /\ q.op # "login" => q.s \in SessionIds
  /\ q.op \in {"enter", "archive"} => q.c \in Children
  /\ q.step \in {"demote", "repair"} => q.op # "login"
  /\ q.step = "entering" => q.op = "enter"
  /\ q.step \in {"check", "archive"} => q.op = "archive"
  /\ q.step \in {"verify", "entering", "fail", "succeed"} => q.keys # <<>>
  /\ q.keys # <<>> => q.op \in {"login", "unlock", "enter"}

\* A request that will end Parent Mode read that it was idle; one that will enter
\* a profile holds its child, which is therefore not archived.
Sound(q, now, gone) ==
  /\ q \in Attempts /\ Named(q)
  /\ q.step = "demote" => now >= q.last + Idle
  /\ q.step = "entering" => q.c \notin gone

RequestsSound ==
  /\ request \in [Requests -> {Ready} \cup Attempts]
  /\ \A r \in Requests : request[r] # Ready => Sound(request[r], clock, archived)

Typed ==
  clock \in 1 .. MaxTime /\ archived \subseteq Children /\ session \in [SessionIds -> Rows]

IInv == Typed /\ RequestsSound /\ NoProfileOfArchived

-----------------------------------------------------------------------------
(* Rows *)

\* What a handler writes to a session is a row again.
LEMMA Written ==
  ASSUME NEW row \in Rows, clock \in 1 .. MaxTime
  PROVE  /\ Demoted(row) \in Rows /\ Repaired(row) \in Rows
         /\ Fresh \in Rows /\ Absent \in Rows
         /\ [row EXCEPT !.live = FALSE] \in Rows
         /\ [row EXCEPT !.activity = clock] \in Rows
         /\ [row EXCEPT !.mode = "shared", !.child = NoChild] \in Rows
         /\ \A c \in Children : [row EXCEPT !.mode = "child", !.child = c, !.activity = clock] \in Rows
<1> clock \in 0 .. MaxTime /\ NoChild \notin Children /\ 0 \in 0 .. MaxTime
  BY SessionsAssumption
<1>1. Demoted(row) \in Rows /\ Repaired(row) \in Rows
  BY DEF Demoted, Repaired, Rows, Shaped, Modes
<1>2. Fresh \in Rows /\ Absent \in Rows
  BY DEF Fresh, Absent, Rows, Shaped, Modes
<1>3. /\ [row EXCEPT !.live = FALSE] \in Rows
      /\ [row EXCEPT !.activity = clock] \in Rows
      /\ [row EXCEPT !.mode = "shared", !.child = NoChild] \in Rows
  BY DEF Rows, Shaped, Modes
<1>4. \A c \in Children : [row EXCEPT !.mode = "child", !.child = c, !.activity = clock] \in Rows
  BY DEF Rows, Shaped, Modes
<1> QED BY <1>1, <1>2, <1>3, <1>4

\* Neither write of Authenticate puts a session into a profile.
LEMMA NeverInto ==
  ASSUME NEW row \in Rows, NEW new \in {Demoted(row), Repaired(row)}
  PROVE  /\ new.live = row.live
         /\ new.mode = "child" => new = row
BY DEF Demoted, Repaired, Rows, Shaped, Modes

-----------------------------------------------------------------------------
(* Requests *)

\* It is enough to look at the request that took the step.
LEMMA OneRequest ==
  ASSUME RequestsSound, NEW r \in Requests, NEW q,
         request' = [request EXCEPT ![r] = q],
         q = Ready \/ Sound(q, clock, archived),
         clock' = clock, archived' = archived
  PROVE  RequestsSound'
<1>1. q \in {Ready} \cup Attempts
  BY DEF Sound
<1>2. request' \in [Requests -> {Ready} \cup Attempts]
  BY <1>1 DEF RequestsSound
<1>3. \A x \in Requests : request'[x] = IF x = r THEN q ELSE request[x]
  BY DEF RequestsSound
<1> QED BY <1>2, <1>3 DEF RequestsSound

\* A request goes to another step of its operation.
LEMMA Going ==
  ASSUME RequestsSound, NEW r \in Requests, request[r] # Ready,
         NEW step \in {"act", "verify", "entering", "check", "archive", "fail", "succeed"},
         step = "entering" => request[r].op = "enter" /\ request[r].c \notin archived,
         step \in {"check", "archive"} => request[r].op = "archive",
         step \in {"verify", "entering", "fail", "succeed"} => request[r].keys # <<>>,
         Goto(r, step), clock' = clock, archived' = archived
  PROVE  RequestsSound'
<1> DEFINE q == [request[r] EXCEPT !.step = step]
<1>1. request' = [request EXCEPT ![r] = q]
  BY DEF Goto
<1>2. Sound(request[r], clock, archived)
  BY DEF RequestsSound
<1>3. Sound(q, clock, archived)
  BY <1>2 DEF Sound, Named, Attempts
<1> QED BY <1>1, <1>3, OneRequest

\* A request that ends leaves the others sound.
LEMMA Ending ==
  ASSUME RequestsSound, NEW r \in Requests, Done(r), clock' = clock, archived' = archived
  PROVE  RequestsSound'
BY OneRequest DEF Done

\* Only the operations that offer a credential have keys.
LEMMA KeysTyped ==
  ASSUME NEW op, NEW s, NEW c, op = "enter" => s \in SessionIds /\ c \in Children
  PROVE  /\ KeysOf(op, s, c) \in Seq(Keys)
         /\ (KeysOf(op, s, c) # <<>>) = (op \in {"login", "unlock", "enter"})
BY SessionsAssumption DEF KeysOf

\* A request begins with what it read of its session.
LEMMA StartingSound ==
  ASSUME IInv, NEW r \in Requests, NEW s \in SessionIds, NEW c \in Children \cup {NoChild},
         NEW op \in {"unlock", "lock", "look", "enter", "archive"},
         op \in {"enter", "archive"} => c \in Children,
         Authenticate(r, op, s, c)
  PROVE  RequestsSound'
<1> DEFINE row == session[s]
           step == IF IdleEnded(row) THEN "demote" ELSE IF row.mode = "child" THEN "repair" ELSE "act"
           last == IF step = "demote" THEN row.activity ELSE 0
           q == [op |-> op, s |-> s, c |-> c, step |-> step, keys |-> KeysOf(op, s, c), last |-> last]
<1>1. request' = [request EXCEPT ![r] = q] /\ clock' = clock /\ archived' = archived
  BY DEF Authenticate
<1>2. /\ KeysOf(op, s, c) \in Seq(Keys)
      /\ KeysOf(op, s, c) # <<>> => op \in {"login", "unlock", "enter"}
  BY KeysTyped
<1>3. row.activity \in 0 .. MaxTime /\ 0 \in 0 .. MaxTime
  BY SessionsAssumption DEF IInv, Typed, Rows
<1>4. /\ step = "demote" => clock >= row.activity + Idle
      /\ step \in {"demote", "repair", "act"}
      /\ last \in 0 .. MaxTime
      /\ step = "demote" => last = row.activity
  BY <1>3 DEF IdleEnded
<1> HIDE DEF row, step, last
<1>5. /\ q \in Attempts /\ q.step = step /\ q.last = last /\ q.op = op /\ q.s = s /\ q.c = c
      /\ q.keys = KeysOf(op, s, c)
  BY <1>2, <1>4 DEF Attempts
<1>6. Sound(q, clock, archived)
  BY <1>2, <1>4, <1>5 DEF Sound, Named
<1> QED BY <1>1, <1>6, OneRequest DEF IInv

LEMMA LoggingIn ==
  ASSUME IInv, NEW r \in Requests, StartLogin(r)
  PROVE  RequestsSound'
<1> DEFINE q == [op |-> "login", s |-> NoSession, c |-> NoChild, step |-> "act",
                 keys |-> KeysOf("login", NoSession, NoChild), last |-> 0]
<1>1. request' = [request EXCEPT ![r] = q] /\ clock' = clock /\ archived' = archived
  BY DEF StartLogin
<1>2. KeysOf("login", NoSession, NoChild) \in Seq(Keys)
  BY KeysTyped
<1>3. 0 \in 0 .. MaxTime
  BY SessionsAssumption
<1>4. Sound(q, clock, archived)
  BY <1>2, <1>3 DEF Sound, Named, Attempts
<1> QED BY <1>1, <1>4, OneRequest DEF IInv

\* A request keeps its keys while it asks the limiter.
LEMMA AskingSound ==
  ASSUME IInv, NEW r \in Requests, Ask(r)
  PROVE  RequestsSound'
<1> DEFINE q == request[r]
<1>1. q # Ready /\ q.step = "act" /\ q.keys # <<>> /\ clock' = clock /\ archived' = archived
  BY DEF Ask, At
<1>2. Sound(q, clock, archived)
  BY <1>1 DEF IInv, RequestsSound
<1>3. CASE Done(r)
  BY <1>1, <1>3, Ending DEF IInv
<1>4. CASE request' = [request EXCEPT ![r] = [q EXCEPT !.keys = Tail(@)]]
  <2>1. q \in Attempts /\ Tail(q.keys) \in Seq(Keys)
    BY <1>1, <1>2 DEF Sound, Attempts
  <2>2. Sound([q EXCEPT !.keys = Tail(@)], clock, archived)
    BY <1>1, <1>2, <2>1 DEF Sound, Named, Attempts
  <2> QED BY <1>1, <1>4, <2>2, OneRequest DEF IInv
<1>5. CASE request' = [request EXCEPT
             ![r] = [q EXCEPT !.step = "verify", !.keys = KeysOf(q.op, q.s, q.c)]]
  <2>1. KeysOf(q.op, q.s, q.c) \in Seq(Keys) /\ KeysOf(q.op, q.s, q.c) # <<>>
    BY <1>1, <1>2, KeysTyped DEF Sound, Named
  <2>2. Sound([q EXCEPT !.step = "verify", !.keys = KeysOf(q.op, q.s, q.c)], clock, archived)
    BY <1>1, <1>2, <2>1 DEF Sound, Named, Attempts
  <2> QED BY <1>1, <1>5, <2>2, OneRequest DEF IInv
<1> QED BY <1>3, <1>4, <1>5 DEF Ask

\* And while it tells the limiter how it went.
LEMMA SettlingSound ==
  ASSUME IInv, NEW r \in Requests, Settle(r)
  PROVE  RequestsSound'
<1> DEFINE q == request[r]
<1>1. q # Ready /\ q.step \in {"fail", "succeed"} /\ archived' = archived /\ clock' = clock
  BY DEF Settle, At
<1>2. Sound(q, clock, archived)
  BY <1>1 DEF IInv, RequestsSound
<1>3. CASE Done(r)
  BY <1>1, <1>3, Ending DEF IInv
<1>4. CASE Len(q.keys) # 1 /\ request' = [request EXCEPT ![r] = [q EXCEPT !.keys = Tail(@)]]
  <2>1. q.keys \in Seq(Keys) /\ q.keys # <<>>
    BY <1>1, <1>2 DEF Sound, Attempts, Named
  <2>2. Len(q.keys) \in Nat /\ Len(q.keys) # 0
    BY <2>1
  <2>3. Tail(q.keys) \in Seq(Keys) /\ Len(Tail(q.keys)) = Len(q.keys) - 1
    BY <2>1, HeadTailProperties
  <2> Len(<<>>) = 0
    OBVIOUS
  <2>4. Tail(q.keys) # <<>>
    <3>1. Len(q.keys) - 1 # 0
      BY <1>4, <2>2
    <3> QED BY <2>3, <3>1
  <2>5. Sound([q EXCEPT !.keys = Tail(@)], clock, archived)
    BY <1>1, <1>2, <2>1, <2>3, <2>4 DEF Sound, Named, Attempts
  <2> QED BY <1>1, <1>4, <2>5, OneRequest DEF IInv
<1> QED BY <1>3, <1>4 DEF Settle

\* Archiving needs the child's row, so that nobody is about to enter its profile.
LEMMA ArchivingSound ==
  ASSUME IInv, NEW r \in Requests, Archive(r)
  PROVE  RequestsSound'
<1> DEFINE c == request[r].c
<1>1. /\ request' = [request EXCEPT ![r] = Ready] /\ clock' = clock
      /\ archived' = archived \cup {c} /\ ChildFree(c)
  BY DEF Archive, Done
<1>2. request' \in [Requests -> {Ready} \cup Attempts]
  BY <1>1 DEF IInv, RequestsSound
<1>3. ASSUME NEW x \in Requests, request'[x] # Ready
      PROVE  Sound(request'[x], clock', archived')
  <2>1. request'[x] = request[x] /\ request[x] # Ready
    BY <1>1, <1>3 DEF IInv, RequestsSound
  <2>2. Sound(request[x], clock, archived)
    BY <2>1 DEF IInv, RequestsSound
  <2>3. request[x].step = "entering" => request[x].c # c
    BY <1>1, <2>1 DEF ChildFree, At
  <2> QED BY <1>1, <2>1, <2>2, <2>3 DEF Sound
<1> QED BY <1>2, <1>3 DEF RequestsSound

\* Time only passes away from the reading of an idle session.
LEMMA TickingSound ==
  ASSUME IInv, Tick
  PROVE  RequestsSound'
<1>1. /\ request' = request /\ archived' = archived /\ clock' = clock + 1
      /\ clock \in 1 .. MaxTime
  BY DEF Tick, IInv, Typed
<1>2. MaxTime \in Nat /\ Idle \in Nat
  BY SessionsAssumption
<1>3. ASSUME NEW x \in Requests, request[x] # Ready
      PROVE  Sound(request[x], clock + 1, archived)
  <2>1. Sound(request[x], clock, archived)
    BY <1>3 DEF IInv, RequestsSound
  <2>2. request[x].last \in 0 .. MaxTime
    BY <2>1 DEF Sound, Attempts
  <2> QED BY <1>1, <1>2, <2>1, <2>2 DEF Sound
<1> QED BY <1>1, <1>3 DEF IInv, RequestsSound

\* Every step leaves every request sound.
LEMMA RequestStep ==
  ASSUME IInv, Next
  PROVE  RequestsSound'
<1>0. ASSUME NEW r \in Requests, request[r] # Ready
      PROVE  Sound(request[r], clock, archived)
  BY <1>0 DEF IInv, RequestsSound
<1>1. CASE Tick
  BY <1>1, TickingSound
<1>2. CASE \E s \in SessionIds : End(s)
  BY <1>2 DEF End, IInv, RequestsSound
<1>3. CASE \E r \in Requests, s \in SessionIds :
             \/ \E op \in {"unlock", "lock", "look"} : Authenticate(r, op, s, NoChild)
             \/ \E op \in {"enter", "archive"}, c \in Children : Authenticate(r, op, s, c)
  <2>1. ASSUME NEW r \in Requests, NEW s \in SessionIds,
               NEW op \in {"unlock", "lock", "look"}, Authenticate(r, op, s, NoChild)
        PROVE  RequestsSound'
    BY <2>1, StartingSound, NoChild \in Children \cup {NoChild}, Zenon
  <2>2. ASSUME NEW r \in Requests, NEW s \in SessionIds, NEW c \in Children,
               NEW op \in {"enter", "archive"}, Authenticate(r, op, s, c)
        PROVE  RequestsSound'
    <3>1. c \in Children \cup {NoChild} /\ op \in {"unlock", "lock", "look", "enter", "archive"}
      OBVIOUS
    <3> QED BY <3>1, <2>2, StartingSound
  <2> QED BY <1>3, <2>1, <2>2
<1>4. ASSUME NEW r \in Requests, StartLogin(r)
      PROVE  RequestsSound'
  BY <1>4, LoggingIn
<1>5. ASSUME NEW r \in Requests, Demote(r) \/ Repair(r)
      PROVE  RequestsSound'
  BY <1>5, Ending, Going DEF Demote, Repair, Proceed, At, IInv
<1>6. ASSUME NEW r \in Requests, RequireParent(r) \/ Lock(r) \/ Check(r)
      PROVE  RequestsSound'
  <2>1. request[r] # Ready /\ clock' = clock /\ archived' = archived
    BY <1>6 DEF RequireParent, Lock, Check, At
  <2>2. \/ request[r].op = "archive" /\ Goto(r, "check")
        \/ request[r].op = "archive" /\ Goto(r, "archive")
        \/ Done(r)
    BY <1>0, <1>6, <2>1 DEF RequireParent, Lock, Check, At, Sound, Named
  <2> QED BY <2>1, <2>2, Ending, Going DEF IInv
<1>7. ASSUME NEW r \in Requests, Ask(r) \/ Settle(r)
      PROVE  RequestsSound'
  BY <1>7, AskingSound, SettlingSound
<1>8. ASSUME NEW r \in Requests, Refuse(r) \/ LogIn(r) \/ UnlockParent(r) \/ Select(r) \/ Enter(r)
      PROVE  RequestsSound'
  <2>1. request[r] # Ready /\ clock' = clock /\ archived' = archived
    BY <1>8 DEF Refuse, LogIn, UnlockParent, Select, Enter, At
  <2>2. request[r].keys # <<>>
    BY <1>0, <1>8, <2>1 DEF Refuse, LogIn, UnlockParent, Select, Enter, At, Sound, Named
  <2>3. \/ Goto(r, "fail") \/ Goto(r, "succeed") \/ Done(r)
        \/ /\ Goto(r, "entering")
           /\ request[r].op = "enter" /\ request[r].c \notin archived
    BY <1>8 DEF Refuse, LogIn, UnlockParent, Select, Enter
  <2> QED BY <2>1, <2>2, <2>3, Ending, Going DEF IInv
<1>9. ASSUME NEW r \in Requests, Archive(r)
      PROVE  RequestsSound'
  BY <1>9, ArchivingSound
<1> QED BY <1>1, <1>2, <1>3, <1>4, <1>5, <1>6, <1>7, <1>8, <1>9 DEF Next

-----------------------------------------------------------------------------
(* Sessions *)

\* A step leaves the sessions alone, writes one of them, or archives a child.
Writes(s, new) == session' = [session EXCEPT ![s] = new]

Profile(row) == row.live /\ row.mode = "child"

\* It is enough to look at the session that was written.
LEMMA OneSession ==
  ASSUME IInv, NEW s \in SessionIds, NEW new \in Rows, Writes(s, new),
         Profile(new) => new.child \notin archived,
         archived' = archived, clock' \in 1 .. MaxTime
  PROVE  Typed' /\ NoProfileOfArchived'
<1>1. session' \in [SessionIds -> Rows]
  BY DEF IInv, Typed, Writes
<1>2. \A x \in SessionIds : session'[x] = IF x = s THEN new ELSE session[x]
  BY DEF IInv, Typed, Writes
<1> QED BY <1>1, <1>2 DEF IInv, Typed, NoProfileOfArchived, Profile

\* What each handler writes, and that it is not the profile of an archived child.
LEMMA SessionStep ==
  ASSUME IInv, Next
  PROVE  Typed' /\ NoProfileOfArchived'
<1>1. clock \in 1 .. MaxTime /\ archived \subseteq Children /\ session \in [SessionIds -> Rows]
  BY DEF IInv, Typed
<1>2. ASSUME NEW r \in Requests, request[r] # Ready
      PROVE  Sound(request[r], clock, archived)
  BY <1>2 DEF IInv, RequestsSound
<1>3. \A row \in Rows : Profile(row) => row.child \in Children
  BY DEF Rows, Shaped, Profile
<1>4. CASE Tick
  <2>1. clock' \in 1 .. MaxTime
    BY <1>1, <1>4, SessionsAssumption DEF Tick
  <2> QED BY <1>1, <1>4, <2>1 DEF Tick, Typed, NoProfileOfArchived, IInv
<1>5. CASE UNCHANGED <<clock, session, archived>>
  BY <1>5 DEF Typed, NoProfileOfArchived, IInv
<1>6. ASSUME NEW s \in SessionIds, End(s)
      PROVE  Typed' /\ NoProfileOfArchived'
  <2> DEFINE new == [session[s] EXCEPT !.live = FALSE]
  <2>1. new \in Rows /\ ~ Profile(new)
    BY <1>1 DEF Rows, Shaped, Profile, Modes
  <2>2. Writes(s, new)
    BY <1>6 DEF End, Writes
  <2> QED BY <1>1, <1>6, <2>1, <2>2, OneSession DEF End
<1>7. ASSUME NEW r \in Requests, Demote(r) \/ Repair(r)
      PROVE  Typed' /\ NoProfileOfArchived'
  <2> DEFINE s == request[r].s
  <2>1. s \in SessionIds
    BY <1>2, <1>7 DEF Demote, Repair, At, Sound, Named
  <2>2. PICK new \in {Demoted(session[s]), Repaired(session[s])} : Writes(s, new)
    BY <1>7 DEF Demote, Repair, Writes
  <2>3. session[s] \in Rows
    BY <1>1, <2>1
  <2>4. Demoted(session[s]) \in Rows /\ Repaired(session[s]) \in Rows
    BY <1>1, <2>3, Written
  <2>5. Profile(new) => new = session[s]
    BY <2>2, <2>3, NeverInto DEF Profile
  <2>6. Profile(new) => new.child \notin archived
    BY <2>1, <2>5 DEF IInv, NoProfileOfArchived, Profile
  <2>7. clock' = clock /\ archived' = archived
    BY <1>7 DEF Demote, Repair
  <2> QED BY <1>1, <2>1, <2>2, <2>4, <2>6, <2>7, OneSession
<1>8. ASSUME NEW r \in Requests, RequireParent(r)
      PROVE  Typed' /\ NoProfileOfArchived'
  <2> DEFINE s == request[r].s
             new == [session[s] EXCEPT !.activity = IF session[s].live THEN clock ELSE @]
  <2>1. s \in SessionIds
    BY <1>2, <1>8 DEF RequireParent, At, Sound, Named
  <2>2. new \in Rows /\ (Profile(new) => Profile(session[s]) /\ new.child = session[s].child)
    BY <1>1, <2>1, SessionsAssumption DEF Rows, Shaped, Profile, Modes
  <2>3. Writes(s, new) /\ clock' = clock /\ archived' = archived
    BY <1>8 DEF RequireParent, Writes
  <2>4. Profile(new) => new.child \notin archived
    BY <2>1, <2>2 DEF IInv, NoProfileOfArchived, Profile
  <2> QED BY <1>1, <2>1, <2>2, <2>3, <2>4, OneSession
<1>9. ASSUME NEW r \in Requests, LogIn(r)
      PROVE  Typed' /\ NoProfileOfArchived'
  <2>1. PICK s \in SessionIds : session' = [session EXCEPT ![s] = Fresh]
    BY <1>9 DEF LogIn
  <2>2. Fresh \in Rows /\ ~ Profile(Fresh)
    BY <1>1, SessionsAssumption DEF Fresh, Rows, Shaped, Profile, Modes
  <2> QED BY <1>1, <1>9, <2>1, <2>2, OneSession DEF LogIn, Writes
<1>10. ASSUME NEW r \in Requests, UnlockParent(r) \/ Lock(r)
       PROVE  Typed' /\ NoProfileOfArchived'
  <2> DEFINE s == request[r].s
             locked == [session[s] EXCEPT !.mode = "shared", !.child = NoChild]
  <2>1. s \in SessionIds /\ session[s] \in Rows
    BY <1>1, <1>2, <1>10 DEF UnlockParent, Lock, At, Sound, Named
  <2>2. Fresh \in Rows /\ locked \in Rows
    BY <1>1, <2>1, Written
  <2>6. ~ Profile(Fresh) /\ ~ Profile(locked)
    BY <2>1 DEF Fresh, Rows, Profile
  <2>3. PICK new \in {session[s], Fresh, locked} : Writes(s, new)
    BY <1>10 DEF UnlockParent, Lock, Writes
  <2>4. new \in Rows /\ (Profile(new) => new.child \notin archived)
    BY <2>1, <2>2, <2>3, <2>6 DEF IInv, NoProfileOfArchived, Profile
  <2>5. clock' = clock /\ archived' = archived
    BY <1>10 DEF UnlockParent, Lock
  <2> QED BY <1>1, <2>1, <2>3, <2>4, <2>5, OneSession
<1>11. ASSUME NEW r \in Requests, Enter(r)
       PROVE  Typed' /\ NoProfileOfArchived'
  <2> DEFINE q == request[r]
             new == [session[q.s] EXCEPT !.mode = "child", !.child = q.c, !.activity = clock]
  <2>1. q.s \in SessionIds /\ q.c \in Children /\ q.c \notin archived
    BY <1>2, <1>11 DEF Enter, At, Sound, Named
  <2>2. session[q.s] \in Rows
    BY <1>1, <2>1
  <2>5. new \in Rows
    BY <1>1, <2>1, <2>2, Written
  <2>6. new.child \notin archived
    BY <2>1, <2>2 DEF Rows
  <2>3. Writes(q.s, new) \/ session' = session
    BY <1>11 DEF Enter, Writes
  <2>4. clock' = clock /\ archived' = archived
    BY <1>11 DEF Enter
  <2> QED BY <1>1, <1>5, <2>1, <2>3, <2>4, <2>5, <2>6, OneSession
<1>12. ASSUME NEW r \in Requests, Archive(r)
       PROVE  Typed' /\ NoProfileOfArchived'
  <2> DEFINE c == request[r].c
             locked(s) == [session[s] EXCEPT !.mode = "shared", !.child = NoChild]
             left(s) == session[s].live /\ session[s].child = c /\ c \notin archived
  <2>1. c \in Children
    BY <1>2, <1>12 DEF Archive, At, Sound, Named
  <2>2. /\ session' = [s \in SessionIds |-> IF left(s) THEN locked(s) ELSE session[s]]
        /\ archived' = archived \cup {c} /\ clock' = clock
    BY <1>12 DEF Archive
  <2>3. \A s \in SessionIds : locked(s) \in Rows /\ ~ Profile(locked(s))
    BY <1>1 DEF Rows, Shaped, Profile, Modes
  <2>4. Typed'
    BY <1>1, <2>1, <2>2, <2>3 DEF Typed
  <2>5. ASSUME NEW s \in SessionIds, Profile(session'[s])
        PROVE  session'[s].child \notin archived \cup {c}
    <3>1. session'[s] = session[s] /\ ~ left(s)
      BY <2>2, <2>3, <2>5
    <3>2. session[s].child \notin archived /\ session[s].live
      BY <2>5, <3>1 DEF IInv, NoProfileOfArchived, Profile
    <3> QED BY <3>1, <3>2
  <2> QED BY <2>2, <2>4, <2>5 DEF NoProfileOfArchived, Profile
<1>13. \/ UNCHANGED <<clock, session, archived>> \/ Tick
       \/ \E s \in SessionIds : End(s)
       \/ \E r \in Requests :
            \/ Demote(r) \/ Repair(r) \/ RequireParent(r) \/ LogIn(r)
            \/ UnlockParent(r) \/ Lock(r) \/ Enter(r) \/ Archive(r)
  <2> DEFINE Moves == UNCHANGED <<clock, session, archived>>
  <2>1. ASSUME NEW r \in Requests, NEW s, NEW op, NEW c, Authenticate(r, op, s, c)
        PROVE  Moves
    BY <2>1 DEF Authenticate
  <2>2. ASSUME NEW r \in Requests,
               StartLogin(r) \/ Ask(r) \/ Refuse(r) \/ Settle(r) \/ Select(r) \/ Check(r)
        PROVE  Moves
    BY <2>2 DEF StartLogin, Ask, Refuse, Settle, Select, Check
  <2> HIDE DEF Moves
  <2>3. \/ Moves \/ Tick
        \/ \E s \in SessionIds : End(s)
        \/ \E r \in Requests :
             \/ Demote(r) \/ Repair(r) \/ RequireParent(r) \/ LogIn(r)
             \/ UnlockParent(r) \/ Lock(r) \/ Enter(r) \/ Archive(r)
    BY <2>1, <2>2 DEF Next
  <2> QED BY <2>3 DEF Moves
<1> QED BY <1>4, <1>5, <1>6, <1>7, <1>8, <1>9, <1>10, <1>11, <1>12, <1>13

\* Why a session changes its mode: one case per handler that writes sessions.
ModeStep ==
  \A s \in SessionIds : (session[s].live /\ session[s]'.mode # session[s].mode) =>
    \/ Chosen(s)
    \/ session[s].mode = "parent" /\ session[s]'.mode = "shared" /\ Undone(s)
    \/ session[s].mode = "child" /\ session[s].child \in archived'

\* One case for every handler that writes sessions.
LEMMA Choosing ==
  ASSUME IInv, Next
  PROVE  ModeStep
<1> SUFFICES ASSUME NEW s \in SessionIds, session[s].live, session'[s].mode # session[s].mode
             PROVE  \/ Chosen(s)
                    \/ session[s].mode = "parent" /\ session'[s].mode = "shared" /\ Undone(s)
                    \/ session[s].mode = "child" /\ session[s].child \in archived'
  BY DEF ModeStep
<1>1. /\ clock \in 1 .. MaxTime /\ session \in [SessionIds -> Rows]
      /\ session[s] \in Rows /\ session[s].mode # "absent"
  BY DEF IInv, Typed, Rows
<1>2. ASSUME NEW r \in Requests, request[r] # Ready
      PROVE  Sound(request[r], clock, archived)
  BY <1>2 DEF IInv, RequestsSound
<1>3. ASSUME NEW r \in Requests, Demote(r)
      PROVE  session[s].mode = "parent" /\ session'[s].mode = "shared" /\ Undone(s)
  <2>1. /\ At(r, "demote") /\ request[r] # Ready /\ request[r].s = s
        /\ session'[s] = Demoted(session[s])
    BY <1>1, <1>3 DEF Demote, At
  <2>2. session[s].mode = "parent" /\ session'[s].mode = "shared"
    BY <1>1, <2>1 DEF Demoted, Rows, Shaped, Modes
  <2>3. clock >= request[r].last + Idle
    BY <1>2, <2>1 DEF Sound, At
  <2>4. IdleEnded(session[s]) \/ request[r].last # session[s].activity
    BY <2>2, <2>3 DEF IdleEnded
  <2> QED BY <2>1, <2>2, <2>4 DEF Undone
<1>4. ASSUME NEW r \in Requests, Repair(r)
      PROVE  \/ session[s].mode = "parent" /\ session'[s].mode = "shared" /\ Undone(s)
             \/ session[s].mode = "child" /\ session[s].child \in archived'
  <2>1. /\ At(r, "repair") /\ request[r] # Ready /\ request[r].s = s
        /\ session'[s] = Repaired(session[s]) /\ archived' = archived
    BY <1>1, <1>4 DEF Repair, At
  <2>2. session[s].child \notin Children \ archived /\ session'[s].mode = "shared"
    BY <1>1, <2>1 DEF Repaired, Rows
  <2>3. session[s].mode \in {"parent", "child"}
    BY <1>1, <2>2 DEF Rows, Modes
  <2>4. session[s].mode = "child" => session[s].child \in archived
    BY <1>1, <2>2 DEF Rows, Shaped
  <2> QED BY <2>1, <2>2, <2>3, <2>4 DEF Undone
<1>5. ASSUME NEW r \in Requests, UnlockParent(r) \/ Lock(r) \/ Enter(r)
      PROVE  Chosen(s)
  <2>1. request[r] # Ready /\ request[r].s = s
    BY <1>1, <1>5 DEF UnlockParent, Lock, Enter, At
  <2> QED BY <1>5, <2>1 DEF Chosen
<1>6. ASSUME NEW r \in Requests, Archive(r)
      PROVE  session[s].mode = "child" /\ session[s].child \in archived'
  <2> DEFINE c == request[r].c
  <2>1. c \in Children
    BY <1>2, <1>6 DEF Archive, At, Sound, Named
  <2>2. session[s].child = c /\ archived' = archived \cup {c}
    BY <1>1, <1>6 DEF Archive
  <2>3. session[s].mode = "child"
    BY <1>1, <2>1, <2>2, SessionsAssumption DEF Rows, Shaped
  <2> QED BY <2>2, <2>3
<1>7. ASSUME NEW r \in Requests, RequireParent(r) \/ LogIn(r)
      PROVE  FALSE
  <2>1. CASE RequireParent(r)
    BY <1>1, <2>1 DEF RequireParent, Rows
  <2>2. CASE LogIn(r)
    <3>1. PICK x \in SessionIds : session[x] = Absent /\ session' = [session EXCEPT ![x] = Fresh]
      BY <2>2 DEF LogIn
    <3>2. x # s
      BY <3>1 DEF Absent
    <3> QED BY <1>1, <3>1, <3>2
  <2> QED BY <1>7, <2>1, <2>2
<1>8. ASSUME \E x \in SessionIds : End(x)
      PROVE  FALSE
  BY <1>1, <1>8 DEF End, Rows
<1>9. session' # session
  OBVIOUS
<1>10. \/ \E x \in SessionIds : End(x)
       \/ \E r \in Requests :
            \/ Demote(r) \/ Repair(r) \/ RequireParent(r) \/ LogIn(r)
            \/ UnlockParent(r) \/ Lock(r) \/ Enter(r) \/ Archive(r)
  <2>1. ASSUME NEW r \in Requests, NEW x, NEW op, NEW c, Authenticate(r, op, x, c)
        PROVE  session' = session
    BY <2>1 DEF Authenticate
  <2>2. ASSUME NEW r \in Requests,
               StartLogin(r) \/ Ask(r) \/ Refuse(r) \/ Settle(r) \/ Select(r) \/ Check(r)
        PROVE  session' = session
    BY <2>2 DEF StartLogin, Ask, Refuse, Settle, Select, Check
  <2>3. ASSUME Tick
        PROVE  session' = session
    BY <2>3 DEF Tick
  <2> QED BY <1>9, <2>1, <2>2, <2>3 DEF Next
<1> QED BY <1>3, <1>4, <1>5, <1>6, <1>7, <1>8, <1>10

-----------------------------------------------------------------------------
(* The limiter: every key a request was let through for is still to be told *)

Elems(s) == {s[i] : i \in DOMAIN s}

Told == {"verify", "entering", "fail", "succeed"}

\* The keys for which the limiter let a request through, and that it has not yet
\* told how it went.
Carries(q) ==
  IF q = Ready THEN {}
  ELSE IF q.step \in Told THEN Elems(q.keys)
  ELSE Elems(KeysOf(q.op, q.s, q.c)) \ Elems(q.keys)

Carrying(k) == {r \in Requests : k \in Carries(request[r])}

Carried == UNION {Carries(request[r]) : r \in Requests}

\* A request goes through its keys in their order, once to ask and once to tell.
InTurn(q) ==
  /\ \/ q.keys = KeysOf(q.op, q.s, q.c)
     \/ q.op = "enter" /\ q.keys = <<SourceKey>> /\ q.step \in {"act", "fail", "succeed"}
  /\ q.step \in Told => q.keys # <<>>

KeysInTurn == \A r \in Requests : request[r] # Ready => InTurn(request[r])

\* A request that was let through is as good as a failure: it is counted for its
\* keys until it has told them.
FailuresCounted ==
  \A k \in Keys :
    Len(Recent(attempts[k])) + Cardinality(Carrying(k)) <= Limit - 1 + Cardinality(Requests)

KeysCounted ==
  /\ IsFiniteSet(Held(attempts) \cup Carried)
  /\ Cardinality(Held(attempts) \cup Carried) <= MaxKeys - 1 + 2 * Cardinality(Requests)

LimiterTyped == attempts \in [Keys -> Seq(1 .. MaxTime)]

Counted == LimiterTyped /\ KeysInTurn /\ FailuresCounted /\ KeysCounted

\* The keys of an operation, which are different keys.
LEMMA KeysInFull ==
  ASSUME NEW op, NEW s, NEW c
  PROVE  /\ op = "login" => KeysOf(op, s, c) = <<LoginKey>>
         /\ op = "unlock" => KeysOf(op, s, c) = <<UnlockKey>>
         /\ op = "enter" => KeysOf(op, s, c) = <<ChildKey(s, c), SourceKey>>
         /\ op \notin {"login", "unlock", "enter"} => KeysOf(op, s, c) = <<>>
         /\ ChildKey(s, c) # SourceKey
BY DEF KeysOf, ChildKey, SourceKey

LEMMA ElemsOf ==
  /\ Elems(<<>>) = {}
  /\ \A a : Elems(<<a>>) = {a} /\ Head(<<a>>) = a /\ Len(<<a>>) = 1
  /\ \A a, b : /\ Elems(<<a, b>>) = {a, b} /\ Head(<<a, b>>) = a
               /\ Tail(<<a, b>>) = <<b>> /\ Len(<<a, b>>) = 2
<1>1. Elems(<<>>) = {}
  BY DEF Elems
<1>2. ASSUME NEW a
      PROVE  Elems(<<a>>) = {a} /\ Head(<<a>>) = a /\ Len(<<a>>) = 1
  BY DEF Elems
<1>3. ASSUME NEW a, NEW b
      PROVE  /\ Elems(<<a, b>>) = {a, b} /\ Head(<<a, b>>) = a
             /\ Tail(<<a, b>>) = <<b>> /\ Len(<<a, b>>) = 2
  <2>1. DOMAIN <<a, b>> = {1, 2}
    OBVIOUS
  <2>2. Elems(<<a, b>>) = {a, b}
    BY <2>1 DEF Elems
  <2> QED BY <2>2
<1> QED BY <1>1, <1>2, <1>3

\* A request that was let through by its next key carries that key too.
LEMMA AskingInTurn ==
  ASSUME NEW q \in Attempts, Named(q), InTurn(q), q.step = "act", q.keys # <<>>,
         NEW p, p = IF Len(q.keys) > 1 THEN [q EXCEPT !.keys = Tail(@)]
                    ELSE [q EXCEPT !.step = "verify", !.keys = KeysOf(q.op, q.s, q.c)]
  PROVE  /\ InTurn(p) /\ Head(q.keys) \in Keys
         /\ Carries(p) \subseteq Carries(q) \cup {Head(q.keys)}
<1> DEFINE whole == KeysOf(q.op, q.s, q.c)
           k == ChildKey(q.s, q.c)
<1>1. /\ q.op \in {"login", "unlock", "enter"} /\ q # Ready
      /\ Carries(q) = Elems(whole) \ Elems(q.keys)
  BY DEF Named, Ready, Attempts, Carries, Told
<1>0. q.keys \in Seq(Keys) /\ Head(q.keys) \in Keys
  BY DEF Attempts
<1>5. /\ Elems(<<k, SourceKey>>) = {k, SourceKey} /\ Len(<<k, SourceKey>>) = 2
      /\ Head(<<k, SourceKey>>) = k /\ Tail(<<k, SourceKey>>) = <<SourceKey>>
      /\ Elems(<<SourceKey>>) = {SourceKey} /\ Len(<<SourceKey>>) = 1
      /\ Head(<<SourceKey>>) = SourceKey
  BY ElemsOf
<1>6. q.op = "enter" => whole = <<k, SourceKey>>
  BY KeysInFull
<1>7. CASE Len(q.keys) > 1
  <2> HIDE DEF whole, k
  <2>1. q.op = "enter" /\ q.keys = <<k, SourceKey>>
    <3>1. q.keys = whole \/ q.keys = <<SourceKey>>
      BY DEF InTurn, whole
    <3>2. q.keys # <<SourceKey>>
      BY <1>5, <1>7
    <3>3. ASSUME q.op # "enter"
          PROVE  Len(whole) = 1
      <4>1. PICK a : whole = <<a>>
        BY <1>1, <3>3, KeysInFull DEF whole
      <4> QED BY <4>1, ElemsOf
    <3>4. q.keys = whole
      BY <3>1, <3>2
    <3>5. q.op = "enter"
      <4>1. Len(whole) # 1
        <5>1. Len(q.keys) \in Nat
          BY <1>0
        <5>2. Len(q.keys) # 1
          BY <1>7, <5>1, \A n \in Nat : n > 1 => n # 1, Zenon
        <5> QED BY <3>4, <5>2, Zenon
      <4> QED BY <3>3, <4>1
    <3> QED BY <1>6, <3>4, <3>5
  <2>2. /\ p.step = "act" /\ p.op = "enter" /\ p.s = q.s /\ p.c = q.c /\ p.keys = <<SourceKey>>
        /\ p # Ready
    BY <1>5, <1>7, <2>1 DEF Attempts, Ready
  <2>3. Carries(p) = Elems(whole) \ Elems(p.keys)
    BY <2>1, <2>2 DEF Carries, Told, whole
  <2>4. Carries(p) \subseteq {k}
    BY <1>5, <1>6, <2>1, <2>2, <2>3
  <2>5. InTurn(p)
    BY <2>2 DEF InTurn, Told
  <2>6. Head(q.keys) = k
    BY <1>5, <2>1
  <2> QED BY <1>0, <2>4, <2>5, <2>6
<1>8. CASE ~ (Len(q.keys) > 1)
  <2>1. p = [q EXCEPT !.step = "verify", !.keys = whole]
    BY <1>8
  <2>2. /\ p.step = "verify" /\ p.op = q.op /\ p.s = q.s /\ p.c = q.c /\ p.keys = whole
        /\ p # Ready
    BY <2>1 DEF Attempts, Ready
  <2>3. Carries(p) = Elems(whole)
    BY <2>2 DEF Carries, Told
  <2> HIDE DEF k
  <2>4. whole # <<>>
    BY <1>1, KeysTyped DEF Named
  <2>5. InTurn(p)
    BY <2>2, <2>4 DEF InTurn, Told
  <2>6. CASE q.keys = <<SourceKey>>
    <3>1. Head(q.keys) = SourceKey /\ Elems(q.keys) = {SourceKey}
      BY <1>5, <2>6
    <3> QED BY <1>0, <1>1, <2>3, <2>5, <3>1
  <2>7. CASE q.keys = whole
    <3>1. q.op # "enter"
      <4>1. Len(whole) # 2
        <5>1. CASE Len(whole) = 2
          BY <1>8, <2>7, <5>1
        <5> QED BY <5>1
      <4> QED BY <1>5, <1>6, <4>1
    <3>2. PICK a : whole = <<a>>
      BY <1>1, <3>1, KeysInFull
    <3>3. Elems(whole) = {a} /\ Head(whole) = a
      BY <3>2, ElemsOf
    <3> QED BY <1>0, <2>3, <2>5, <2>7, <3>3
  <2> QED BY <2>6, <2>7 DEF InTurn
<1> QED BY <1>7, <1>8

\* A request that told the limiter of a key carries it no longer.
LEMMA SettlingInTurn ==
  ASSUME NEW q \in Attempts, Named(q), InTurn(q), q.step \in {"fail", "succeed"},
         NEW p, p = IF Len(q.keys) = 1 THEN Ready ELSE [q EXCEPT !.keys = Tail(@)]
  PROVE  /\ p = Ready \/ InTurn(p)
         /\ Head(q.keys) \in Keys /\ Head(q.keys) \in Carries(q)
         /\ Carries(p) \subseteq Carries(q) \ {Head(q.keys)}
<1> DEFINE k == ChildKey(q.s, q.c)
<1>1. q.op \in {"login", "unlock", "enter"} /\ q # Ready /\ q.keys # <<>>
  BY DEF Named, Ready, Attempts
<1>0. q.keys \in Seq(Keys)
  BY DEF Attempts
<1>2. CASE q.op = "enter" /\ q.keys = <<k, SourceKey>>
  <2>1. p = [q EXCEPT !.keys = <<SourceKey>>] /\ Head(q.keys) = k
    BY <1>2, ElemsOf
  <2>2. /\ p.step = q.step /\ p.op = "enter" /\ p.s = q.s /\ p.c = q.c /\ p.keys = <<SourceKey>>
        /\ p # Ready
    BY <1>2, <2>1 DEF Attempts, Ready
  <2>3. Carries(p) = {SourceKey} /\ Carries(q) = {k, SourceKey}
    BY <1>1, <1>2, <2>2, ElemsOf DEF Carries, Told
  <2>4. InTurn(p)
    BY <2>2 DEF InTurn, Told
  <2> QED BY <1>0, <1>2, <2>1, <2>3, <2>4, ElemsOf, KeysInFull
<1>3. CASE q.op # "enter" \/ q.keys = <<SourceKey>>
  <2>1. PICK a : q.keys = <<a>>
    BY <1>1, <1>3, KeysInFull DEF InTurn
  <2>2. p = Ready /\ Head(q.keys) = a /\ Carries(q) = {a}
    BY <1>1, <2>1, ElemsOf DEF Carries, Told
  <2>3. Carries(p) = {}
    BY <2>2 DEF Carries
  <2> QED BY <1>0, <2>1, <2>2, <2>3, ElemsOf
<1> QED BY <1>1, <1>2, <1>3, KeysInFull DEF InTurn

\* What After leaves of the failures of a key.
LEMMA AfterCounts ==
  ASSUME NEW S, NEW times \in Seq(S), S \subseteq Int, NEW cut \in Int
  PROVE  /\ After(times, cut) \in Seq(S)
         /\ Len(After(times, cut)) \in Nat
         /\ Len(After(times, cut)) <= Len(times)
         /\ \A later \in Int : cut <= later => Len(After(times, later)) <= Len(After(times, cut))
         /\ \A t \in S : cut < t => Len(After(Append(times, t), cut)) <= Len(After(times, cut)) + 1
<1> DEFINE old(s, c) == {i \in DOMAIN s : s[i] <= c}
<1>1. ASSUME NEW s \in Seq(S), NEW c \in Int
      PROVE  /\ IsFiniteSet(old(s, c)) /\ Cardinality(old(s, c)) \in Nat
             /\ Cardinality(old(s, c)) <= Len(s)
             /\ After(s, c) \in Seq(S)
             /\ Len(After(s, c)) = Len(s) - Cardinality(old(s, c))
             /\ Len(After(s, c)) \in Nat
  <2>1. Len(s) \in Nat /\ DOMAIN s = 1 .. Len(s) /\ \A i \in 1 .. Len(s) : s[i] \in S
    OBVIOUS
  <2>2. IsFiniteSet(1 .. Len(s)) /\ Cardinality(1 .. Len(s)) = Len(s)
    <3>1. \A n \in Nat : IsFiniteSet(1 .. n) /\ Cardinality(1 .. n) = n
      BY FS_Interval
    <3> QED BY <2>1, <3>1
  <2>3. old(s, c) \in SUBSET (1 .. Len(s))
    BY <2>1
  <2> DEFINE n == Cardinality(old(s, c))
  <2>4. IsFiniteSet(old(s, c)) /\ n \in Nat /\ n <= Len(s)
    BY <2>2, <2>3, FS_Subset, FS_CardinalityType
  <2> HIDE DEF n
  <2>5. After(s, c) = SubSeq(s, n + 1, Len(s))
    BY DEF After, n
  <2>6. \A i \in (n + 1) .. Len(s) : s[i] \in S
    BY <2>1, <2>4
  <2>7. /\ SubSeq(s, n + 1, Len(s)) \in Seq(S)
        /\ Len(SubSeq(s, n + 1, Len(s))) = IF n + 1 <= Len(s) THEN Len(s) - (n + 1) + 1 ELSE 0
    BY <2>1, <2>4, SubSeqProperties
  <2> QED BY <2>1, <2>4, <2>5, <2>7 DEF n
<1>2. Len(times) \in Nat
  OBVIOUS
<1>3. ASSUME NEW later \in Int, cut <= later
      PROVE  Len(After(times, later)) <= Len(After(times, cut))
  <2>1. old(times, cut) \in SUBSET old(times, later)
    <3>1. \A i \in DOMAIN times : times[i] \in S
      OBVIOUS
    <3>2. \A i \in DOMAIN times : times[i] \in Int
      BY <3>1
    <3> QED BY <1>3, <3>2
  <2>2. Cardinality(old(times, cut)) <= Cardinality(old(times, later))
    BY <1>1, <2>1, FS_Subset
  <2> HIDE DEF old
  <2> QED BY <1>1, <1>2, <2>2
<1>4. ASSUME NEW t \in S, cut < t
      PROVE  Len(After(Append(times, t), cut)) <= Len(After(times, cut)) + 1
  <2> DEFINE longer == Append(times, t)
  <2>1. longer \in Seq(S) /\ Len(longer) = Len(times) + 1
    OBVIOUS
  <2>2. \A i \in DOMAIN times : i \in DOMAIN longer /\ longer[i] = times[i]
    OBVIOUS
  <2> HIDE DEF longer
  <2>3. old(times, cut) \in SUBSET old(longer, cut)
    BY <2>2
  <2>4. Cardinality(old(times, cut)) <= Cardinality(old(longer, cut))
    BY <1>1, <2>1, <2>3, FS_Subset
  <2> HIDE DEF old
  <2>5. /\ Len(After(times, cut)) = Len(times) - Cardinality(old(times, cut))
        /\ Cardinality(old(times, cut)) \in Nat
    BY <1>1
  <2>6. /\ Len(After(longer, cut)) = Len(longer) - Cardinality(old(longer, cut))
        /\ Cardinality(old(longer, cut)) \in Nat
    BY <1>1, <2>1
  <2>7. Len(After(longer, cut)) <= Len(After(times, cut)) + 1
    BY <1>2, <2>1, <2>4, <2>5, <2>6
  <2> QED BY <2>7 DEF longer
<1> HIDE DEF old
<1> QED BY <1>1, <1>2, <1>3, <1>4

\* Allow adds no failure and no key.
LEMMA Pruning ==
  ASSUME LimiterTyped, clock \in 1 .. MaxTime, NEW k \in Keys
  PROVE  /\ Pruned(k) \in [Keys -> Seq(1 .. MaxTime)]
         /\ \A j \in Keys : Len(Recent(Pruned(k)[j])) <= Len(Recent(attempts[j]))
         /\ \A j \in Keys : attempts[j] = <<>> => Pruned(k)[j] = <<>>
<1> DEFINE S == 1 .. MaxTime
           cut == clock - Window
<1>1. cut \in Int /\ S \subseteq Int /\ attempts \in [Keys -> Seq(S)]
  BY LimiterAssumption, SessionsAssumption DEF LimiterTyped
<1> HIDE DEF S, cut
<1>2. ASSUME NEW times \in Seq(S)
      PROVE  /\ Recent(times) \in Seq(S) /\ Len(Recent(times)) \in Nat
             /\ Len(Recent(times)) <= Len(times)
             /\ Len(times) \in Nat
  <2>1. /\ After(times, cut) \in Seq(S) /\ Len(After(times, cut)) \in Nat
        /\ Len(After(times, cut)) <= Len(times)
    BY <1>1, AfterCounts
  <2> QED BY <2>1 DEF Recent, cut
<1>3. <<>> \in Seq(S) /\ Len(<<>>) = 0
  OBVIOUS
<1>4. ASSUME NEW times \in Seq(S), NEW new \in {times, <<>>, Recent(times)}
      PROVE  new \in Seq(S) /\ Len(Recent(new)) <= Len(Recent(times))
  <2>1. Recent(times) \in Seq(S) /\ Recent(<<>>) \in Seq(S)
    BY <1>2, <1>3
  <2>2. Len(Recent(Recent(times))) <= Len(Recent(times))
    BY <1>2, <2>1
  <2>3. Len(Recent(<<>>)) <= Len(Recent(times))
    <3>1. Len(Recent(<<>>)) <= 0 /\ Len(Recent(<<>>)) \in Nat
      BY <1>2, <1>3
    <3>2. Len(Recent(times)) \in Nat
      BY <1>2
    <3> QED BY <3>1, <3>2
  <2>4. Len(Recent(times)) <= Len(Recent(times))
    BY <1>2
  <2> QED BY <1>3, <2>1, <2>2, <2>3, <2>4
<1>5. ASSUME NEW j \in Keys
      PROVE  /\ Pruned(k)[j] \in {attempts[j], <<>>, Recent(attempts[j])}
             /\ Pruned(k)[j] = Recent(attempts[j]) /\ Pruned(k)[j] # attempts[j] => attempts[j] # <<>>
  <2>1. Swept[j] \in {attempts[j], <<>>}
    BY DEF Swept
  <2> QED BY <1>1, <2>1 DEF Pruned
<1>6. DOMAIN Pruned(k) = Keys /\ Pruned(k) = [j \in Keys |-> Pruned(k)[j]]
  BY <1>1 DEF Pruned, Swept
<1>7. Pruned(k) \in [Keys -> Seq(S)]
  <2>1. \A j \in Keys : attempts[j] \in Seq(S)
    BY <1>1
  <2>2. \A j \in Keys : Pruned(k)[j] \in Seq(S)
    BY <1>4, <1>5, <2>1
  <2> QED BY <1>6, <2>2
<1>8. \A j \in Keys : Len(Recent(Pruned(k)[j])) <= Len(Recent(attempts[j]))
  BY <1>1, <1>4, <1>5
<1>9. \A j \in Keys : attempts[j] = <<>> => Pruned(k)[j] = <<>>
  BY <1>1, <1>5 DEF Pruned, Swept
<1> QED BY <1>7, <1>8, <1>9 DEF S

-----------------------------------------------------------------------------
(* Counting requests as failures *)

LEMMA CarryingFinite ==
  ASSUME NEW k
  PROVE  /\ IsFiniteSet(Carrying(k)) /\ Cardinality(Carrying(k)) \in Nat
         /\ Cardinality(Requests) \in Nat
         /\ Cardinality(Carrying(k)) <= Cardinality(Requests)
<1>1. Carrying(k) \in SUBSET Requests /\ IsFiniteSet(Requests)
  BY SessionsAssumption DEF Carrying
<1> QED BY <1>1, FS_Subset, FS_CardinalityType

\* What a request carries besides the key of all sources is the first of its keys.
LEMMA CarriedFinite ==
  ASSUME IInv, KeysInTurn
  PROVE  /\ IsFiniteSet(Carried) /\ Cardinality(Carried) \in Nat
         /\ Cardinality(Carried) <= 2 * Cardinality(Requests)
<1> DEFINE first == [r \in Requests |-> Head(KeysOf(request[r].op, request[r].s, request[r].c))]
           T == {first[r] : r \in Requests}
<1>1. first \in Surjection(Requests, T)
  BY DEF Surjection
<1>2. IsFiniteSet(Requests) /\ Cardinality(Requests) \in Nat
  BY SessionsAssumption, FS_CardinalityType
<1>3. IsFiniteSet(T) /\ Cardinality(T) <= Cardinality(Requests) /\ Cardinality(T) \in Nat
  BY <1>1, <1>2, FS_Surjection, FS_CardinalityType
<1>4. /\ IsFiniteSet(T \cup {SourceKey}) /\ Cardinality(T \cup {SourceKey}) \in Nat
      /\ Cardinality(T \cup {SourceKey}) <= Cardinality(T) + 1
  BY <1>3, FS_AddElement, FS_CardinalityType
<1>5. ASSUME NEW r \in Requests
      PROVE  Carries(request[r]) \subseteq T \cup {SourceKey}
  <2> DEFINE q == request[r]
             whole == KeysOf(q.op, q.s, q.c)
             k == ChildKey(q.s, q.c)
  <2>1. CASE q = Ready
    BY <2>1 DEF Carries
  <2>2. CASE q # Ready
    <3>1. InTurn(q) /\ q \in Attempts
      BY <2>2 DEF KeysInTurn, IInv, RequestsSound, Sound
    <3>2. Head(whole) \in T
      OBVIOUS
    <3> HIDE DEF T, q, whole, k
    <3>3. /\ Elems(<<k, SourceKey>>) = {k, SourceKey} /\ Head(<<k, SourceKey>>) = k
          /\ Elems(<<SourceKey>>) = {SourceKey} /\ Elems(<<>>) = {}
          /\ \A a : Elems(<<a>>) = {a} /\ Head(<<a>>) = a
      BY ElemsOf
    <3>4. Elems(whole) \subseteq {Head(whole), SourceKey}
      <4>1. CASE q.op = "enter"
        BY <3>3, <4>1, KeysInFull DEF whole, k
      <4>2. CASE q.op \notin {"login", "unlock", "enter"}
        BY <3>3, <4>2, KeysInFull DEF whole
      <4>3. CASE q.op \in {"login", "unlock"}
        <5>1. PICK a : whole = <<a>>
          BY <4>3, KeysInFull DEF whole
        <5> QED BY <3>3, <5>1
      <4> QED BY <4>1, <4>2, <4>3
    <3>5. Elems(q.keys) \subseteq {Head(whole), SourceKey}
      BY <3>1, <3>3, <3>4 DEF InTurn, whole
    <3> QED BY <3>2, <3>4, <3>5 DEF Carries, whole, q
  <2> QED BY <2>1, <2>2
<1>6. Carried \in SUBSET (T \cup {SourceKey})
  BY <1>5 DEF Carried
<1>7. CASE Requests = {}
  <2>1. Carried = {} /\ Cardinality(Carried) = 0 /\ Cardinality(Requests) = 0 /\ IsFiniteSet(Carried)
    BY <1>7, FS_EmptySet DEF Carried
  <2> QED BY <2>1
<1>8. CASE Requests # {}
  <2>1. Cardinality(Requests) # 0
    BY <1>2, <1>8, FS_EmptySet
  <2>2. /\ IsFiniteSet(Carried) /\ Cardinality(Carried) \in Nat
        /\ Cardinality(Carried) <= Cardinality(T \cup {SourceKey})
    BY <1>4, <1>6, FS_Subset, FS_CardinalityType
  <2> HIDE DEF T
  <2> QED BY <1>2, <1>3, <1>4, <2>1, <2>2
<1> QED BY <1>7, <1>8

CarriedBound ==
  /\ IsFiniteSet(Carried) /\ Cardinality(Carried) \in Nat
  /\ Cardinality(Carried) <= 2 * Cardinality(Requests)

\* The same of the state after a step.
LEMMA CarriedFiniteNext == IInv' /\ KeysInTurn' => CarriedBound'
<1>1. IInv /\ KeysInTurn => CarriedBound
  BY CarriedFinite DEF CarriedBound
<1> QED BY <1>1, PTL

\* What the others carry does not change.
LEMMA OneTurn ==
  ASSUME IInv, KeysInTurn, NEW r \in Requests, NEW q,
         request' = [request EXCEPT ![r] = q], q = Ready \/ InTurn(q)
  PROVE  /\ KeysInTurn'
         /\ \A x \in Requests : request'[x] = IF x = r THEN q ELSE request[x]
BY DEF IInv, RequestsSound, KeysInTurn

Lighter == \A x \in Requests : Carries(request'[x]) \subseteq Carries(request[x])

LEMMA GoingInTurn ==
  ASSUME IInv, KeysInTurn, NEW r \in Requests, request[r] # Ready, NEW step, Goto(r, step),
         (request[r].step \in Told) = (step \in Told),
         request[r].op = "enter" =>
           step \in {"act", "fail", "succeed"} \/ request[r].step = "verify"
  PROVE  KeysInTurn' /\ Lighter
<1> DEFINE q == [request[r] EXCEPT !.step = step]
<1>1. request[r] \in Attempts /\ InTurn(request[r]) /\ request' = [request EXCEPT ![r] = q]
  BY DEF IInv, RequestsSound, Sound, KeysInTurn, Goto
<1>2. /\ q.step = step /\ q.op = request[r].op /\ q.s = request[r].s /\ q.c = request[r].c
      /\ q.keys = request[r].keys /\ q # Ready
  BY <1>1 DEF Attempts, Ready
<1> HIDE DEF q
<1>3. InTurn(q)
  BY <1>1, <1>2 DEF InTurn
<1>4. Carries(q) = Carries(request[r])
  BY <1>2 DEF Carries
<1>5. KeysInTurn' /\ \A x \in Requests : request'[x] = IF x = r THEN q ELSE request[x]
  BY <1>1, <1>3, OneTurn
<1> QED BY <1>4, <1>5 DEF Lighter

LEMMA EndingInTurn ==
  ASSUME IInv, KeysInTurn, NEW r \in Requests, Done(r)
  PROVE  KeysInTurn' /\ Lighter
<1>1. Carries(Ready) = {}
  BY DEF Carries
<1> QED BY <1>1, OneTurn DEF Done, Lighter

\* Every step but the limiter's own only lets requests go.
LEMMA OthersInTurn ==
  ASSUME IInv, Counted, Next, \A r \in Requests : ~ Ask(r) /\ ~ Settle(r)
  PROVE  KeysInTurn' /\ Lighter /\ attempts' = attempts
<1>0. /\ KeysInTurn
      /\ \A r \in Requests : request[r] # Ready => Sound(request[r], clock, archived)
  BY DEF Counted, IInv, RequestsSound
<1>1. CASE Tick \/ \E s \in SessionIds : End(s)
  BY <1>0, <1>1 DEF Tick, End, KeysInTurn, Lighter
<1>2. ASSUME NEW r \in Requests, NEW s, NEW op, NEW c, Authenticate(r, op, s, c)
      PROVE  KeysInTurn' /\ Lighter /\ attempts' = attempts
  <2>1. PICK step \in {"demote", "repair", "act"}, last \in {session[s].activity, 0} :
          request' = [request EXCEPT ![r] =
            [op |-> op, s |-> s, c |-> c, step |-> step, keys |-> KeysOf(op, s, c), last |-> last]]
    BY <1>2 DEF Authenticate
  <2> DEFINE q == [op |-> op, s |-> s, c |-> c, step |-> step, keys |-> KeysOf(op, s, c), last |-> last]
  <2>2. InTurn(q) /\ Carries(q) = {}
    BY DEF InTurn, Carries, Told, Ready
  <2>3. attempts' = attempts
    BY <1>2 DEF Authenticate
  <2> QED BY <1>0, <2>1, <2>2, <2>3, OneTurn DEF Lighter
<1>3. ASSUME NEW r \in Requests, StartLogin(r)
      PROVE  KeysInTurn' /\ Lighter /\ attempts' = attempts
  <2> DEFINE q == [op |-> "login", s |-> NoSession, c |-> NoChild, step |-> "act",
                   keys |-> KeysOf("login", NoSession, NoChild), last |-> 0]
  <2>1. InTurn(q) /\ Carries(q) = {}
    BY DEF InTurn, Carries, Told, Ready
  <2>2. request' = [request EXCEPT ![r] = q] /\ attempts' = attempts
    BY <1>3 DEF StartLogin
  <2> QED BY <1>0, <2>1, <2>2, OneTurn DEF Lighter
<1>4. ASSUME NEW r \in Requests,
             Demote(r) \/ Repair(r) \/ RequireParent(r) \/ Lock(r) \/ Check(r) \/ Archive(r)
      PROVE  KeysInTurn' /\ Lighter /\ attempts' = attempts
  <2>1. request[r] # Ready /\ request[r].step \notin Told /\ attempts' = attempts
    BY <1>4 DEF Demote, Repair, RequireParent, Lock, Check, Archive, At, Told
  <2>2. \/ Done(r) \/ Goto(r, "act")
        \/ request[r].op = "archive" /\ (Goto(r, "check") \/ Goto(r, "archive"))
    BY <1>0, <1>4, <2>1
       DEF Demote, Repair, Proceed, RequireParent, Lock, Check, Archive, At, Sound, Named
  <2> QED BY <1>0, <2>1, <2>2, EndingInTurn, GoingInTurn DEF Told
<1>5. ASSUME NEW r \in Requests, Refuse(r) \/ LogIn(r) \/ UnlockParent(r) \/ Select(r) \/ Enter(r)
      PROVE  KeysInTurn' /\ Lighter /\ attempts' = attempts
  <2>1. request[r] # Ready /\ request[r].step \in Told /\ attempts' = attempts
    BY <1>5 DEF Refuse, LogIn, UnlockParent, Select, Enter, At, Told
  <2>2. \/ Done(r) \/ Goto(r, "fail") \/ Goto(r, "succeed")
        \/ request[r].step = "verify" /\ Goto(r, "entering")
    BY <1>5 DEF Refuse, LogIn, UnlockParent, Select, Enter, At
  <2> QED BY <1>0, <2>1, <2>2, EndingInTurn, GoingInTurn DEF Told
<1> QED BY <1>1, <1>2, <1>3, <1>4, <1>5 DEF Next

\* Fewer requests carry a key if each of them carries less.
LEMMA FewerCarry ==
  ASSUME Lighter
  PROVE  /\ \A k : Cardinality(Carrying(k)') <= Cardinality(Carrying(k))
         /\ Carried' \subseteq Carried
<1>1. ASSUME NEW k
      PROVE  Cardinality(Carrying(k)') <= Cardinality(Carrying(k))
  <2>1. Carrying(k)' \in SUBSET Carrying(k)
    BY DEF Carrying, Lighter
  <2> QED BY <2>1, CarryingFinite, FS_Subset
<1>2. Carried' \subseteq Carried
  BY DEF Carried, Lighter
<1> QED BY <1>1, <1>2

\* Nothing new is counted when no key is added.
LEMMA NoNewKey ==
  ASSUME KeysCounted, Held(attempts)' \cup Carried' \subseteq Held(attempts) \cup Carried
  PROVE  KeysCounted'
<1> DEFINE U == Held(attempts) \cup Carried
           V == Held(attempts)' \cup Carried'
<1>1. V \in SUBSET U /\ IsFiniteSet(U)
  BY DEF KeysCounted
<1>2. IsFiniteSet(V) /\ Cardinality(V) <= Cardinality(U) /\ Cardinality(U) \in Nat /\ Cardinality(V) \in Nat
  BY <1>1, FS_Subset, FS_CardinalityType
<1>3. Cardinality(U) <= MaxKeys - 1 + 2 * Cardinality(Requests)
  BY DEF KeysCounted
<1>4. Cardinality(Requests) \in Nat /\ MaxKeys \in Nat
  BY LimiterAssumption, SessionsAssumption, FS_CardinalityType
<1>5. IsFiniteSet(V) /\ Cardinality(V) <= MaxKeys - 1 + 2 * Cardinality(Requests)
  BY <1>2, <1>3, <1>4
<1> QED BY <1>5 DEF KeysCounted

\* The failures that count for a key.
LEMMA RecentTyped ==
  ASSUME LimiterTyped, clock \in 1 .. MaxTime, NEW times \in Seq(1 .. MaxTime)
  PROVE  Len(Recent(times)) \in Nat
BY AfterCounts, LimiterAssumption, SessionsAssumption DEF Recent

\* While nobody is told anything, time only lets failures pass.
LEMMA OthersCounted ==
  ASSUME IInv, Counted, Next, IInv', \A r \in Requests : ~ Ask(r) /\ ~ Settle(r)
  PROVE  Counted'
<1>1. KeysInTurn' /\ Lighter /\ attempts' = attempts
  BY OthersInTurn
<1>2. LimiterTyped' /\ LimiterTyped
  BY <1>1 DEF Counted, LimiterTyped
<1>3. /\ clock \in 1 .. MaxTime /\ clock' \in 1 .. MaxTime /\ clock <= clock'
      /\ Window \in Nat /\ Limit \in Nat /\ MaxTime \in Nat
  <2>1. clock \in 1 .. MaxTime /\ clock' \in 1 .. MaxTime /\ MaxTime \in Nat /\ Window \in Nat /\ Limit \in Nat
    BY LimiterAssumption, SessionsAssumption DEF IInv, Typed
  <2>2. clock' = clock \/ clock' = clock + 1
    BY DEF Next, Tick, End, Authenticate, StartLogin, Demote, Repair, RequireParent, Ask, Refuse,
           Settle, LogIn, UnlockParent, Select, Enter, Lock, Check, Archive
  <2> QED BY <2>1, <2>2
<1>4. ASSUME NEW k \in Keys
      PROVE  /\ Len(Recent(attempts[k]))' <= Len(Recent(attempts[k]))
             /\ Len(Recent(attempts[k])) \in Nat /\ Len(Recent(attempts[k]))' \in Nat
  <2> DEFINE times == attempts[k]
             S == 1 .. MaxTime
  <2>1. times \in Seq(S) /\ S \subseteq Int
    BY <1>2, <1>3 DEF LimiterTyped
  <2>2. clock - Window \in Int /\ clock' - Window \in Int /\ clock - Window <= clock' - Window
    <3>1. clock \in Int /\ clock' \in Int
      BY <1>3
    <3>2. \A a, b, w \in Int : a <= b => a - w <= b - w /\ a - w \in Int /\ b - w \in Int
      OBVIOUS
    <3>3. Window \in Int /\ clock <= clock'
      BY <1>3
    <3> QED BY <3>1, <3>2, <3>3
  <2> HIDE DEF times, S
  <2>3. /\ Len(After(times, clock - Window)) \in Nat
        /\ Len(After(times, clock' - Window)) \in Nat
        /\ Len(After(times, clock' - Window)) <= Len(After(times, clock - Window))
    BY <2>1, <2>2, AfterCounts
  <2> QED BY <1>1, <2>3 DEF Recent, times
<1>5. FailuresCounted'
  <2> SUFFICES ASSUME NEW k \in Keys
               PROVE  (Len(Recent(attempts[k])) + Cardinality(Carrying(k))
                         <= Limit - 1 + Cardinality(Requests))'
    BY DEF FailuresCounted
  <2>1. /\ Cardinality(Carrying(k)') <= Cardinality(Carrying(k))
        /\ Cardinality(Carrying(k)) \in Nat /\ Cardinality(Requests) \in Nat
    BY <1>1, FewerCarry, CarryingFinite
  <2>2. Cardinality(Carrying(k)') \in Nat
    <3>1. Carrying(k)' \in SUBSET Requests
      BY DEF Carrying
    <3> QED BY <3>1, SessionsAssumption, FS_Subset, FS_CardinalityType
  <2>3. Len(Recent(attempts[k])) + Cardinality(Carrying(k)) <= Limit - 1 + Cardinality(Requests)
    BY DEF Counted, FailuresCounted
  <2> QED BY <1>3, <1>4, <2>1, <2>2, <2>3
<1>6. KeysCounted'
  <2>1. Held(attempts)' \cup Carried' \subseteq Held(attempts) \cup Carried
    BY <1>1, FewerCarry DEF Held
  <2> QED BY <2>1, NoNewKey DEF Counted
<1> QED BY <1>1, <1>2, <1>5, <1>6 DEF Counted

\* What a request that asked for a key carries afterwards, refused or not.
LEMMA AskedInTurn ==
  ASSUME IInv, Counted, NEW r \in Requests, Ask(r), NEW k, k = Head(request[r].keys)
  PROVE  /\ KeysInTurn' /\ k \in Keys /\ attempts' = Pruned(k) /\ clock' = clock
         /\ \A x \in Requests : Carries(request'[x]) \subseteq Carries(request[x]) \cup {k}
         /\ ~ Allowed(k) => Lighter
<1> DEFINE q == request[r]
           p == IF Len(q.keys) > 1 THEN [q EXCEPT !.keys = Tail(@)]
                ELSE [q EXCEPT !.step = "verify", !.keys = KeysOf(q.op, q.s, q.c)]
<1>1. q # Ready /\ q.step = "act" /\ q.keys # <<>> /\ attempts' = Pruned(k) /\ clock' = clock
  BY DEF Ask, At, Allow
<1>2. q \in Attempts /\ Named(q) /\ InTurn(q) /\ KeysInTurn
  BY <1>1 DEF IInv, RequestsSound, Sound, Counted, KeysInTurn
<1>3. InTurn(p) /\ k \in Keys /\ Carries(p) \subseteq Carries(q) \cup {k}
  BY <1>1, <1>2, AskingInTurn
<1>4. CASE ~ Allowed(k)
  <2>1. Done(r)
    BY <1>4 DEF Ask
  <2>2. KeysInTurn' /\ Lighter
    BY <1>2, <2>1, EndingInTurn
  <2> QED BY <1>1, <1>3, <2>2 DEF Lighter
<1>5. CASE Allowed(k)
  <2>1. request' = [request EXCEPT ![r] = p]
    BY <1>5 DEF Ask
  <2> HIDE DEF p
  <2>2. KeysInTurn' /\ \A x \in Requests : request'[x] = IF x = r THEN p ELSE request[x]
    BY <1>2, <1>3, <2>1, OneTurn
  <2> QED BY <1>1, <1>3, <1>5, <2>2
<1> QED BY <1>4, <1>5

\* A request that is let through finds room for itself: it counts as one more.
LEMMA AskingCounted ==
  ASSUME IInv, Counted, NEW r \in Requests, Ask(r), IInv'
  PROVE  Counted'
<1> DEFINE k == Head(request[r].keys)
<1>1. /\ KeysInTurn' /\ k \in Keys /\ attempts' = Pruned(k) /\ clock' = clock
      /\ \A x \in Requests : Carries(request'[x]) \subseteq Carries(request[x]) \cup {k}
      /\ ~ Allowed(k) => Lighter
  BY AskedInTurn
<1> HIDE DEF k
<1>2. LimiterTyped /\ clock \in 1 .. MaxTime /\ FailuresCounted /\ KeysCounted
  BY DEF Counted, IInv, Typed
<1>3. /\ Pruned(k) \in [Keys -> Seq(1 .. MaxTime)]
      /\ \A j \in Keys : Len(Recent(Pruned(k)[j])) <= Len(Recent(attempts[j]))
      /\ \A j \in Keys : attempts[j] = <<>> => Pruned(k)[j] = <<>>
  BY <1>1, <1>2, Pruning
<1>4. LimiterTyped'
  BY <1>1, <1>3 DEF LimiterTyped
<1>5. Held(attempts)' = Held(Pruned(k)) /\ Held(Pruned(k)) \subseteq Held(attempts)
  BY <1>1, <1>3 DEF Held
<1>6. /\ Cardinality(Requests) \in Nat /\ Limit \in Nat /\ MaxKeys \in Nat
  BY LimiterAssumption, SessionsAssumption, FS_CardinalityType
<1>7. ASSUME NEW j \in Keys
      PROVE  /\ Len(Recent(attempts[j]))' <= Len(Recent(attempts[j]))
             /\ Len(Recent(attempts[j])) \in Nat /\ Len(Recent(attempts[j]))' \in Nat
             /\ Cardinality(Carrying(j)') \in Nat
             /\ Cardinality(Carrying(j)') <= Cardinality(Requests)
  <2>1. Len(Recent(attempts[j]))' = Len(Recent(Pruned(k)[j]))
    BY <1>1 DEF Recent
  <2>2. Len(Recent(attempts[j])) \in Nat /\ Len(Recent(Pruned(k)[j])) \in Nat
    BY <1>2, <1>3, RecentTyped DEF LimiterTyped
  <2>3. Carrying(j)' \in SUBSET Requests
    BY DEF Carrying
  <2> QED BY <1>3, <2>1, <2>2, <2>3, SessionsAssumption, FS_Subset, FS_CardinalityType
<1>8. ASSUME NEW j \in Keys
      PROVE  Len(Recent(attempts[j]))' + Cardinality(Carrying(j)')
               <= Limit - 1 + Cardinality(Requests)
  <2>1. CASE j = k /\ Allowed(k)
    <3>1. Len(Recent(attempts[k])) < Limit
      BY <2>1 DEF Allowed
    <3> QED BY <1>6, <1>7, <2>1, <3>1
  <2>2. CASE j # k \/ ~ Allowed(k)
    <3>1. Carrying(j)' \in SUBSET Carrying(j)
      BY <1>1, <2>2 DEF Carrying, Lighter
    <3>2. /\ Cardinality(Carrying(j)') <= Cardinality(Carrying(j))
          /\ Cardinality(Carrying(j)) \in Nat
      BY <3>1, CarryingFinite, FS_Subset
    <3>3. Len(Recent(attempts[j])) + Cardinality(Carrying(j)) <= Limit - 1 + Cardinality(Requests)
      BY <1>2 DEF FailuresCounted
    <3> QED BY <1>6, <1>7, <3>2, <3>3
  <2> QED BY <2>1, <2>2
<1>9. FailuresCounted'
  BY <1>8 DEF FailuresCounted
<1>10. Carried' \subseteq Carried \cup {k} /\ (~ Allowed(k) => Carried' \subseteq Carried)
  BY <1>1 DEF Carried, Lighter
<1>11. CASE attempts[k] # <<>> \/ ~ Allowed(k)
  <2>1. k \in Held(attempts) \/ ~ Allowed(k)
    BY <1>1, <1>11 DEF Held
  <2>2. Held(attempts)' \cup Carried' \subseteq Held(attempts) \cup Carried
    BY <1>5, <1>10, <2>1
  <2> QED BY <1>1, <1>2, <1>4, <1>9, <2>2, NoNewKey DEF Counted
<1>12. CASE attempts[k] = <<>> /\ Allowed(k)
  <2> DEFINE H == Held(attempts)'
             C == Carried'
  <2>1. Cardinality(Held(Pruned(k))) < MaxKeys
    BY <1>12 DEF Allowed
  <2>2. IsFiniteSet(C) /\ Cardinality(C) \in Nat /\ Cardinality(C) <= 2 * Cardinality(Requests)
    BY <1>1, CarriedFiniteNext DEF CarriedBound
  <2>3. H = Held(Pruned(k)) /\ IsFiniteSet(H)
    <3>1. IsFiniteSet(Held(attempts))
      <4>1. Held(attempts) \in SUBSET (Held(attempts) \cup Carried)
        OBVIOUS
      <4> QED BY <1>2, <4>1, FS_Subset DEF KeysCounted
    <3> QED BY <1>5, <3>1, FS_Subset
  <2> HIDE DEF H, C
  <2>4. /\ IsFiniteSet(H \cup C)
        /\ Cardinality(H \cup C) = Cardinality(H) + Cardinality(C) - Cardinality(H \cap C)
        /\ Cardinality(H) \in Nat /\ Cardinality(H \cap C) \in Nat
    BY <2>2, <2>3, FS_Union, FS_Intersection, FS_CardinalityType
  <2>5. Cardinality(H) < MaxKeys
    BY <2>1, <2>3
  <2>6. Cardinality(H \cup C) <= MaxKeys - 1 + 2 * Cardinality(Requests)
    BY <1>6, <2>2, <2>4, <2>5
  <2>7. KeysCounted'
    BY <2>4, <2>6 DEF KeysCounted, H, C
  <2> QED BY <1>1, <1>4, <1>9, <2>7 DEF Counted
<1> QED BY <1>11, <1>12

\* A failure takes the place of the request that was let through.
LEMMA SettlingCounted ==
  ASSUME IInv, Counted, NEW r \in Requests, Settle(r)
  PROVE  Counted'
<1> DEFINE q == request[r]
           k == Head(q.keys)
           p == IF Len(q.keys) = 1 THEN Ready ELSE [q EXCEPT !.keys = Tail(@)]
<1>1. q # Ready /\ q.step \in {"fail", "succeed"} /\ clock' = clock /\ request' = [request EXCEPT ![r] = p]
  BY DEF Settle, At, Done
<1>2. q \in Attempts /\ Named(q) /\ InTurn(q) /\ KeysInTurn
  BY <1>1 DEF IInv, RequestsSound, Sound, Counted, KeysInTurn
<1>3. /\ p = Ready \/ InTurn(p)
      /\ k \in Keys /\ k \in Carries(q) /\ Carries(p) \subseteq Carries(q) \ {k}
  BY <1>1, <1>2, SettlingInTurn
<1> HIDE DEF p
<1>4. KeysInTurn' /\ \A x \in Requests : request'[x] = IF x = r THEN p ELSE request[x]
  BY <1>1, <1>2, <1>3, OneTurn
<1>5. Lighter
  BY <1>3, <1>4 DEF Lighter
<1>6. attempts' = [attempts EXCEPT ![k] = Append(@, clock)] \/ attempts' = [attempts EXCEPT ![k] = <<>>]
  BY DEF Settle, Fail, Success
<1> HIDE DEF q, k
<1>7. LimiterTyped /\ clock \in 1 .. MaxTime /\ FailuresCounted /\ KeysCounted
  BY DEF Counted, IInv, Typed
<1>8. /\ Cardinality(Requests) \in Nat /\ Limit \in Nat
      /\ \A j \in Keys : attempts[j] \in Seq(1 .. MaxTime)
      /\ <<>> \in Seq(1 .. MaxTime)
  BY <1>7, LimiterAssumption, SessionsAssumption, FS_CardinalityType DEF LimiterTyped
<1>9. /\ LimiterTyped'
      /\ \A j \in Keys : j # k => attempts'[j] = attempts[j]
      /\ attempts'[k] = Append(attempts[k], clock) \/ attempts'[k] = <<>>
  <2>1. Append(attempts[k], clock) \in Seq(1 .. MaxTime)
    BY <1>3, <1>7, <1>8
  <2>2. attempts \in [Keys -> Seq(1 .. MaxTime)]
    BY <1>7 DEF LimiterTyped
  <2> QED BY <1>3, <1>6, <1>8, <2>1, <2>2 DEF LimiterTyped
<1>10. ASSUME NEW j \in Keys
       PROVE  Len(Recent(attempts[j]))' + Cardinality(Carrying(j)')
                <= Limit - 1 + Cardinality(Requests)
  <2>1. Carrying(j)' \in SUBSET Carrying(j)
    BY <1>5 DEF Carrying, Lighter
  <2>2. /\ IsFiniteSet(Carrying(j)) /\ IsFiniteSet(Carrying(j)')
        /\ Cardinality(Carrying(j)') <= Cardinality(Carrying(j))
        /\ Cardinality(Carrying(j)) \in Nat /\ Cardinality(Carrying(j)') \in Nat
    BY <2>1, CarryingFinite, FS_Subset, FS_CardinalityType
  <2>3. /\ Len(Recent(attempts[j])) + Cardinality(Carrying(j)) <= Limit - 1 + Cardinality(Requests)
        /\ Len(Recent(attempts[j])) \in Nat
    BY <1>7, <1>8, RecentTyped DEF FailuresCounted
  <2>4. Len(Recent(attempts[j]))' = Len(Recent(attempts'[j])) /\ Len(Recent(attempts'[j])) \in Nat
    <3>1. attempts'[j] \in Seq(1 .. MaxTime)
      BY <1>9 DEF LimiterTyped
    <3> QED BY <1>1, <1>7, <3>1, RecentTyped DEF Recent
  <2>5. CASE j # k
    BY <1>8, <1>9, <2>2, <2>3, <2>4, <2>5
  <2>6. CASE j = k
    <3>1. r \in Carrying(j) /\ r \notin Carrying(j)'
      BY <1>3, <1>4, <2>6 DEF Carrying, q
    <3>2. Carrying(j)' \in SUBSET (Carrying(j) \ {r})
      BY <2>1, <3>1
    <3>3. /\ IsFiniteSet(Carrying(j) \ {r})
          /\ Cardinality(Carrying(j) \ {r}) = Cardinality(Carrying(j)) - 1
      BY <2>2, <3>1, FS_RemoveElement
    <3>4. Cardinality(Carrying(j)') <= Cardinality(Carrying(j)) - 1
      BY <3>2, <3>3, FS_Subset
    <3>5. Len(Recent(attempts'[j])) <= Len(Recent(attempts[j])) + 1
      <4> DEFINE S == 1 .. MaxTime
                 cut == clock - Window
                 times == attempts[j]
      <4>1. times \in Seq(S) /\ S \subseteq Int /\ clock \in S /\ cut \in Int /\ cut < clock
        BY <1>7, <1>8, LimiterAssumption, SessionsAssumption
      <4> HIDE DEF S, cut, times
      <4>2. /\ Len(After(Append(times, clock), cut)) <= Len(After(times, cut)) + 1
            /\ Len(After(times, cut)) \in Nat
        BY <4>1, AfterCounts
      <4>3. Len(After(<<>>, cut)) <= 0 /\ Len(After(<<>>, cut)) \in Nat
        <5>1. <<>> \in Seq(S) /\ Len(<<>>) = 0
          OBVIOUS
        <5> QED BY <4>1, <5>1, AfterCounts
      <4>4. CASE attempts'[j] = <<>>
        BY <4>2, <4>3, <4>4 DEF Recent, cut, times
      <4>5. CASE attempts'[j] = Append(times, clock)
        BY <4>2, <4>5 DEF Recent, cut, times
      <4> QED BY <1>9, <2>6, <4>4, <4>5 DEF times
    <3> QED BY <1>8, <2>2, <2>3, <2>4, <3>4, <3>5
  <2> QED BY <2>5, <2>6
<1>11. FailuresCounted'
  BY <1>10 DEF FailuresCounted
<1>12. KeysCounted'
  <2>1. Held(attempts)' \subseteq Held(attempts) \cup {k}
    BY <1>9 DEF Held
  <2>2. k \in Carried
    BY <1>3 DEF Carried, q
  <2>3. Carried' \subseteq Carried
    BY <1>5, FewerCarry
  <2> QED BY <1>7, <2>1, <2>2, <2>3, NoNewKey
<1> QED BY <1>4, <1>9, <1>11, <1>12 DEF Counted

-----------------------------------------------------------------------------
(* The theorems *)

LEMMA Initially == Init => IInv
<1> SUFFICES ASSUME Init
             PROVE  IInv
  OBVIOUS
<1>1. MaxTime \in Nat \ {0} /\ clock = 1 /\ archived = {}
  BY SessionsAssumption DEF Init
<1>2. clock \in 1 .. MaxTime /\ archived \subseteq Children
  BY <1>1
<1>3. PICK s \in SessionIds : session = [[x \in SessionIds |-> Absent] EXCEPT ![s] = Fresh]
  BY DEF Init
<1>4. Fresh \in Rows /\ Absent \in Rows /\ ~ Profile(Fresh) /\ ~ Profile(Absent)
  BY <1>1, <1>2 DEF Fresh, Absent, Rows, Shaped, Modes, Profile
<1>5. \A x \in SessionIds : session[x] = IF x = s THEN Fresh ELSE Absent
  BY <1>3
<1>6. session \in [SessionIds -> Rows]
  BY <1>3, <1>4
<1>7. RequestsSound
  BY DEF Init, RequestsSound
<1> QED BY <1>2, <1>4, <1>5, <1>6, <1>7 DEF IInv, Typed, NoProfileOfArchived, Profile

LEMMA Invariance == Spec => []IInv
<1>1. IInv /\ [Next]_vars => IInv'
  <2>1. ASSUME IInv, Next
        PROVE  IInv'
    BY <2>1, RequestStep, SessionStep DEF IInv
  <2>2. ASSUME IInv, UNCHANGED vars
        PROVE  IInv'
    BY <2>2 DEF IInv, vars, Typed, RequestsSound, NoProfileOfArchived
  <2> QED BY <2>1, <2>2
<1> QED BY <1>1, Initially, PTL DEF Spec

\* No session stays in the profile of an archived child, with any number of
\* entries and archivals at once (children/service.go:153, :185).
THEOREM ProfilesAlwaysActive == Spec => []NoProfileOfArchived
<1>1. IInv => NoProfileOfArchived
  BY DEF IInv
<1> QED BY <1>1, Invariance, PTL

\* Nobody loses or gains a mode but by a request for it, by idleness, by an
\* archival, or by a page that read the session before (auth/service.go:128-150).
THEOREM ModesAlwaysChosen == Spec => ModeIsChosen
<1>1. IInv /\ [Next]_vars => [ModeStep]_vars
  BY Choosing
<1>2. Spec => [][ModeStep]_vars
  BY <1>1, Invariance, PTL DEF Spec
<1> QED BY <1>2 DEF ModeIsChosen, ModeStep

LEMMA InitiallyCounted == Init => Counted
<1> SUFFICES ASSUME Init
             PROVE  Counted
  OBVIOUS
<1>1. /\ \A k \in Keys : attempts[k] = <<>>
      /\ \A r \in Requests : request[r] = Ready
      /\ LimiterTyped /\ clock = 1
  BY DEF Init, LimiterTyped
<1>2. Held(attempts) = {} /\ Carried = {} /\ \A k : Carrying(k) = {}
  BY <1>1 DEF Held, Carried, Carrying, Carries
<1>3. IsFiniteSet({}) /\ Cardinality({}) = 0 /\ Cardinality(Requests) \in Nat
  BY FS_EmptySet, SessionsAssumption, FS_CardinalityType
<1>4. Limit \in Nat \ {0} /\ MaxKeys \in Nat \ {0} /\ Window \in Nat \ {0}
  BY LimiterAssumption
<1>5. \A k \in Keys : Len(Recent(attempts[k])) \in Nat /\ Len(Recent(attempts[k])) <= 0
  <2>1. <<>> \in Seq(Int) /\ Len(<<>>) = 0 /\ clock - Window \in Int
    BY <1>1, <1>4
  <2>2. Len(Recent(<<>>)) \in Nat /\ Len(Recent(<<>>)) <= 0
    BY <2>1, AfterCounts DEF Recent
  <2> QED BY <1>1, <2>2
<1>6. FailuresCounted
  <2> SUFFICES ASSUME NEW k \in Keys
               PROVE  Len(Recent(attempts[k])) + Cardinality(Carrying(k)) <= Limit - 1 + Cardinality(Requests)
    BY DEF FailuresCounted
  <2>1. Cardinality(Carrying(k)) = 0
    BY <1>2, <1>3
  <2> QED BY <1>3, <1>4, <1>5, <2>1
<1>7. KeysCounted
  <2>1. Held(attempts) \cup Carried = {}
    BY <1>2
  <2>2. 0 <= MaxKeys - 1 + 2 * Cardinality(Requests)
    BY <1>3, <1>4
  <2> QED BY <1>3, <2>1, <2>2 DEF KeysCounted
<1>8. KeysInTurn
  BY <1>1 DEF KeysInTurn
<1> QED BY <1>1, <1>6, <1>7, <1>8 DEF Counted

LEMMA CountedInvariance == Spec => [](IInv /\ Counted)
<1>1. IInv /\ IInv' /\ Counted /\ [Next]_vars => Counted'
  <2>1. ASSUME IInv, IInv', Counted, Next
        PROVE  Counted'
    BY <2>1, AskingCounted, SettlingCounted, OthersCounted
  <2>2. ASSUME Counted, UNCHANGED vars
        PROVE  Counted'
    BY <2>2 DEF vars, Counted, LimiterTyped, KeysInTurn, FailuresCounted, KeysCounted,
                Carrying, Carried, Recent
  <2> QED BY <2>1, <2>2
<1> QED BY <1>1, Invariance, InitiallyCounted, PTL DEF Spec

\* Every variable keeps its type, and a session its shape (sessions_mode_shape).
THEOREM TypesAlwaysCorrect == Spec => []TypeOK
<1>1. IInv /\ Counted => TypeOK
  BY DEF IInv, Counted, Typed, LimiterTyped, RequestsSound, Sound, Attempts, Rows, Modes, TypeOK
<1> QED BY <1>1, CountedInvariance, PTL

\* However many requests offer a credential at once, and however often time
\* passes between their asking and their telling, the failures that count for a
\* key stay below its limit and the number of requests (httpapi/auth.go:165-169).
THEOREM FailuresAlwaysBounded == Spec => []FailuresBounded
<1>1. Counted /\ IInv => FailuresBounded
  <2> SUFFICES ASSUME Counted, IInv, NEW k \in Keys
               PROVE  Len(Recent(attempts[k])) <= Limit - 1 + Cardinality(Requests)
    BY DEF FailuresBounded
  <2>1. /\ Len(Recent(attempts[k])) + Cardinality(Carrying(k)) <= Limit - 1 + Cardinality(Requests)
        /\ Len(Recent(attempts[k])) \in Nat
    BY RecentTyped DEF Counted, FailuresCounted, LimiterTyped, IInv, Typed
  <2>2. Cardinality(Carrying(k)) \in Nat /\ Cardinality(Requests) \in Nat /\ Limit \in Nat
    BY CarryingFinite, LimiterAssumption
  <2> QED BY <2>1, <2>2
<1> QED BY <1>1, CountedInvariance, PTL

\* The map of the limiter exceeds its limit by less than the keys of the requests
\* in progress (httpapi/auth.go:555-564).
THEOREM KeysAlwaysBounded == Spec => []KeysBounded
<1>1. Counted => KeysBounded
  <2> SUFFICES ASSUME Counted
               PROVE  Cardinality(Held(attempts)) <= MaxKeys - 1 + 2 * Cardinality(Requests)
    BY DEF KeysBounded
  <2> DEFINE U == Held(attempts) \cup Carried
  <2>1. /\ IsFiniteSet(U) /\ Cardinality(U) <= MaxKeys - 1 + 2 * Cardinality(Requests)
        /\ Held(attempts) \in SUBSET U
    BY DEF Counted, KeysCounted
  <2> HIDE DEF U
  <2>2. /\ Cardinality(Held(attempts)) <= Cardinality(U)
        /\ Cardinality(Held(attempts)) \in Nat /\ Cardinality(U) \in Nat
    BY <2>1, FS_Subset, FS_CardinalityType
  <2>3. MaxKeys \in Nat /\ Cardinality(Requests) \in Nat
    BY LimiterAssumption, CarryingFinite
  <2> QED BY <2>1, <2>2, <2>3
<1> QED BY <1>1, CountedInvariance, PTL

=============================================================================
