------------------------------ MODULE Sessions ------------------------------
(***************************************************************************)
(* The sessions of one household: Parent Mode that ends when idle, the       *)
(* profiles of children, and what the requests of several open pages do to   *)
(* the same session row.  A request authenticates (a read and, when the mode *)
(* it read has ended, a separate write), passes the limiter if it offers a   *)
(* credential, and then acts; between any two of these steps others act.     *)
(*                                                                         *)
(* Left out are the CSRF token, which can only refuse, Register, a login     *)
(* without limiter, and requests that only read.  live stands for            *)
(* revoked_at and expires_at: nobody reads what becomes of a session after   *)
(* either.                                                                   *)
(***************************************************************************)
EXTENDS LoginLimiter

CONSTANTS
  Requests,     \* requests in progress
  SessionIds,
  Children,
  Idle,         \* families.parent_idle_minutes
  MaxTime       \* bound on the clock

VARIABLES
  session,    \* rows of sessions
  archived,   \* children with archived_at
  request     \* what each request is doing

vars == <<clock, attempts, session, archived, request>>

NoChild == "none"
NoSession == "none"

ChildKey(s, c) == <<"child-session", s, c>>
SourceKey == <<"child-source">>
UnlockKey == <<"unlock">>
LoginKey == <<"login">>

ASSUME SessionsAssumption ==
  /\ Idle \in Nat \ {0} /\ MaxTime \in Nat \ {0}
  /\ IsFiniteSet(Requests) /\ NoChild \notin Children /\ NoSession \notin SessionIds
  /\ {SourceKey, UnlockKey, LoginKey} \cup {ChildKey(s, c) : s \in SessionIds, c \in Children}
       \subseteq Keys

Absent == [mode |-> "absent", child |-> NoChild, activity |-> 0, live |-> FALSE]
Fresh == [mode |-> "parent", child |-> NoChild, activity |-> clock, live |-> TRUE]

Ready == [op |-> "none"]

\* sessions_mode_shape.
Shaped(row) == (row.mode = "child") = (row.child # NoChild)

TypeOK ==
  /\ clock \in 1 .. MaxTime
  /\ attempts \in [Keys -> Seq(1 .. MaxTime)]
  /\ session \in [SessionIds -> [mode : {"absent", "shared", "parent", "child"},
                                 child : Children \cup {NoChild},
                                 activity : 0 .. MaxTime, live : BOOLEAN]]
  /\ \A s \in SessionIds : Shaped(session[s])
  /\ archived \subseteq Children
  /\ \A r \in Requests : request[r] # Ready =>
       request[r] \in [op : {"login", "unlock", "enter", "lock", "archive", "look"},
                       s : SessionIds \cup {NoSession}, c : Children \cup {NoChild},
                       step : {"demote", "repair", "act", "verify", "entering", "check",
                               "archive", "fail", "succeed"},
                       last : 0 .. MaxTime, keys : Seq(Keys)]

Init ==
  /\ clock = 1
  /\ attempts = [k \in Keys |-> <<>>]
  /\ \E s \in SessionIds : session = [[x \in SessionIds |-> Absent] EXCEPT ![s] = Fresh]
  /\ archived = {}
  /\ request = [r \in Requests |-> Ready]

-----------------------------------------------------------------------------
At(r, step) == request[r] # Ready /\ request[r].step = step

Goto(r, step) == request' = [request EXCEPT ![r].step = step]

Done(r) == request' = [request EXCEPT ![r] = Ready]

KeysOf(op, s, c) ==
  CASE op = "login" -> <<LoginKey>>
    [] op = "unlock" -> <<UnlockKey>>
    [] op = "enter" -> <<ChildKey(s, c), SourceKey>>
    [] OTHER -> <<>>

Tick ==
  /\ clock < MaxTime
  /\ clock' = clock + 1
  /\ UNCHANGED <<attempts, session, archived, request>>

\* Logout, or the end of the session's 30 days.
End(s) ==
  /\ session[s].live
  /\ session' = [session EXCEPT ![s].live = FALSE]
  /\ UNCHANGED <<clock, attempts, archived, request>>

-----------------------------------------------------------------------------
(* Authenticate and requireParent *)

IdleEnded(row) == row.mode = "parent" /\ clock >= row.activity + Idle

\* A request that needs Parent Mode and did not read it is refused; one that only
\* looks matters if it writes.
Authenticate(r, op, s, c) ==
  LET row == session[s]
      step == IF IdleEnded(row) THEN "demote" ELSE IF row.mode = "child" THEN "repair" ELSE "act"
  IN /\ request[r] = Ready
     /\ row.live
     /\ op = "archive" => row.mode = "parent"
     /\ op = "look" => step # "act"
     /\ request' = [request EXCEPT
          ![r] = [op |-> op, s |-> s, c |-> c, step |-> step, keys |-> KeysOf(op, s, c),
                  last |-> IF step = "demote" THEN row.activity ELSE 0]]
     /\ UNCHANGED <<clock, attempts, session, archived>>

Proceed(r) == IF request[r].op \in {"archive", "look"} THEN Done(r) ELSE Goto(r, "act")

DemotedAnyway(row) == [row EXCEPT !.mode = "shared"]    \* mutant: no shape constraint

\* The write is by the id alone.  The shape constraint refuses it while the
\* session is in a profile, which is ignored.
Demoted(row) ==
  LET new == [row EXCEPT !.mode = "shared"] IN IF Shaped(new) THEN new ELSE row

Demote(r) ==
  /\ At(r, "demote")
  /\ session' = [session EXCEPT ![request[r].s] = Demoted(@)]
  /\ Proceed(r)
  /\ UNCHANGED <<clock, attempts, archived>>

RepairedAlways(row) == [row EXCEPT !.mode = "shared", !.child = NoChild]    \* mutant

\* NOT EXISTS also holds of a session without a child.
Repaired(row) ==
  IF row.child \in Children \ archived THEN row
  ELSE [row EXCEPT !.mode = "shared", !.child = NoChild]

Repair(r) ==
  /\ At(r, "repair")
  /\ session' = [session EXCEPT ![request[r].s] = Repaired(@)]
  /\ Proceed(r)
  /\ UNCHANGED <<clock, attempts, archived>>

\* The middleware's Touch.
RequireParent(r) ==
  /\ At(r, "act") /\ request[r].op = "archive"
  /\ session' = [session EXCEPT ![request[r].s].activity = IF session[request[r].s].live
                                                           THEN clock ELSE @]
  /\ Goto(r, "check")
  /\ UNCHANGED <<clock, attempts, archived>>

-----------------------------------------------------------------------------
(* Credentials *)

StartLogin(r) ==
  /\ request[r] = Ready
  /\ request' = [request EXCEPT
       ![r] = [op |-> "login", s |-> NoSession, c |-> NoChild, step |-> "act",
               keys |-> KeysOf("login", NoSession, NoChild), last |-> 0]]
  /\ UNCHANGED <<clock, attempts, session, archived>>

\* Each key is asked in turn; the first that refuses answers 429.
Ask(r) ==
  LET q == request[r]
      k == Head(q.keys)
  IN /\ At(r, "act") /\ q.keys # <<>>
     /\ Allow(k)
     /\ IF ~ Allowed(k) THEN Done(r)
        ELSE request' = [request EXCEPT
               ![r] = IF Len(q.keys) > 1 THEN [q EXCEPT !.keys = Tail(@)]
                      ELSE [q EXCEPT !.step = "verify", !.keys = KeysOf(q.op, q.s, q.c)]]
     /\ UNCHANGED <<clock, session, archived>>

\* A wrong password or PIN, or a profile that is unknown or archived.
Refuse(r) ==
  /\ At(r, "verify") \/ At(r, "entering")
  /\ Goto(r, "fail")
  /\ UNCHANGED <<clock, attempts, session, archived>>

LogIn(r) ==
  /\ At(r, "verify") /\ request[r].op = "login"
  /\ \E s \in SessionIds : /\ session[s] = Absent
                           /\ session' = [session EXCEPT ![s] = Fresh]
  /\ Goto(r, "succeed")
  /\ UNCHANGED <<clock, attempts, archived>>

\* How many rows were written is ignored.
UnlockParent(r) ==
  /\ At(r, "verify") /\ request[r].op = "unlock"
  /\ session' = [session EXCEPT ![request[r].s] = IF @.live THEN Fresh ELSE @]
  /\ Goto(r, "succeed")
  /\ UNCHANGED <<clock, attempts, archived>>

ChildUnlocked(c) == TRUE    \* mutant

\* No transaction holds the child's row.
ChildFree(c) == \A q \in Requests : At(q, "entering") => request[q].c # c

\* The child's row is locked, and the PIN verified under the lock.
Select(r) ==
  /\ At(r, "verify") /\ request[r].op = "enter"
  /\ request[r].c \notin archived /\ ChildFree(request[r].c)
  /\ Goto(r, "entering")
  /\ UNCHANGED <<clock, attempts, session, archived>>

Enter(r) ==
  LET q == request[r]
  IN /\ At(r, "entering")
     /\ IF session[q.s].live
        THEN /\ session' = [session EXCEPT
                  ![q.s] = [@ EXCEPT !.mode = "child", !.child = q.c, !.activity = clock]]
             /\ Goto(r, "succeed")
        ELSE Done(r) /\ UNCHANGED session
     /\ UNCHANGED <<clock, attempts, archived>>

\* The limiter is told, key by key.
Settle(r) ==
  LET keys == request[r].keys
  IN /\ \/ At(r, "fail") /\ Fail(Head(keys))
        \/ At(r, "succeed") /\ Success(Head(keys))
     /\ IF Len(keys) = 1 THEN Done(r)
        ELSE request' = [request EXCEPT ![r].keys = Tail(@)]
     /\ UNCHANGED <<clock, session, archived>>

-----------------------------------------------------------------------------
(* Leaving, and archiving a child *)

\* LockParent, and Leave.
Lock(r) ==
  /\ At(r, "act") /\ request[r].op = "lock"
  /\ session' = [session EXCEPT
       ![request[r].s] = IF @.live THEN [@ EXCEPT !.mode = "shared", !.child = NoChild] ELSE @]
  /\ Done(r)
  /\ UNCHANGED <<clock, attempts, archived>>

\* children.requireParent, a read without a lock.
Check(r) ==
  LET row == session[request[r].s]
  IN /\ At(r, "check")
     /\ IF row.mode = "parent" /\ row.live /\ ~ IdleEnded(row) THEN Goto(r, "archive") ELSE Done(r)
     /\ UNCHANGED <<clock, attempts, session, archived>>

Archive(r) ==
  LET c == request[r].c
  IN /\ At(r, "archive")
     /\ ChildFree(c)
     /\ archived' = archived \cup {c}
     /\ session' = [s \in SessionIds |->
          IF session[s].live /\ session[s].child = c /\ c \notin archived
          THEN [session[s] EXCEPT !.mode = "shared", !.child = NoChild] ELSE session[s]]
     /\ Done(r)
     /\ UNCHANGED <<clock, attempts>>

Next ==
  \/ Tick
  \/ \E s \in SessionIds : End(s)
  \/ \E r \in Requests :
       \/ \E s \in SessionIds :
            \/ \E op \in {"unlock", "lock", "look"} : Authenticate(r, op, s, NoChild)
            \/ \E op \in {"enter", "archive"}, c \in Children : Authenticate(r, op, s, c)
       \/ StartLogin(r)
       \/ Demote(r) \/ Repair(r) \/ RequireParent(r)
       \/ Ask(r) \/ Refuse(r) \/ Settle(r)
       \/ LogIn(r) \/ UnlockParent(r) \/ Select(r) \/ Enter(r)
       \/ Lock(r) \/ Check(r) \/ Archive(r)

Spec == Init /\ [][Next]_vars

-----------------------------------------------------------------------------
(* Safety *)

\* docs/phase-4-security-contract.md:31: no session stays in the profile of an
\* archived child, whichever of the entry and the archival is first: both hold
\* the child's row (children/service.go:185, :153).
NoProfileOfArchived ==
  \A s \in SessionIds : (session[s].live /\ session[s].mode = "child") => session[s].child \notin archived

Undone(s) ==
  \E r \in Requests : /\ request[r] # Ready /\ request[r].s = s
                      /\ \/ At(r, "repair")
                         \/ At(r, "demote") /\ (IdleEnded(session[s]) \/ request[r].last # session[s].activity)

Chosen(s) ==
  \E r \in Requests : /\ request[r] # Ready /\ request[r].s = s
                      /\ Lock(r) \/ UnlockParent(r) \/ Enter(r)

\* A session changes its mode when somebody asked for that, when Parent Mode was
\* idle, or when its child is archived; never because a page was opened.
\* Excepted is a page that read the session before its mode was chosen anew:
\* Authenticate then writes by the id alone (auth/service.go:137, :142), and
\* undoes an unlock, but never an entry into a profile.
ModeIsChosen ==
  [][\A s \in SessionIds : (session[s].live /\ session[s]'.mode # session[s].mode) =>
       \/ Chosen(s)
       \/ session[s].mode = "parent" /\ session[s]'.mode = "shared" /\ Undone(s)
       \/ session[s].mode = "child" /\ session[s].child \in archived']_vars

\* Whatever attempts run at once, the failures that count for a key exceed its
\* limit by less than the requests in progress: each of them was let through
\* before the last failures were recorded (httpapi/auth.go:165, :168, :219, :222).
FailuresBounded ==
  \A k \in Keys : Len(Recent(attempts[k])) <= Limit - 1 + Cardinality(Requests)

\* auth_test.go:44: the map does not grow with the keys that callers make up.
\* A request that was let through may still add its keys, of which it has two.
KeysBounded == Cardinality(Held(attempts)) <= MaxKeys - 1 + 2 * Cardinality(Requests)
=============================================================================
